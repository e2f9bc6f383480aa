--------------------------- MODULE PagemapProofs ---------------------------
(***************************************************************************)
(* What the helpers of struct pager return, for every entry and every      *)
(* WAITLIST: an effect of the right type that leaves PAGINGOUT alone.      *)
(***************************************************************************)
EXTENDS Pagemap, TLAPS, SequenceTheorems, FiniteSetTheorems

(* A row of copies is a sequence. *)
LEMMA CopiesType ==
  ASSUME NEW S, NEW n \in Nat, NEW m \in S
  PROVE  Copies(n, m) \in Seq(S)
BY SeqDef DEF Copies

(* The number of times a client waits is a number. *)
LEMMA WaitsType ==
  ASSUME NEW wl, NEW n \in Nat, NEW c
  PROVE  Waits(wl, n, c) \in Nat
<1> DEFINE T == {i \in 1 .. n : wl[i].client = c}
<1>1. IsFiniteSet(1 .. n)
  BY FS_Interval
<1>2. T \in SUBSET (1 .. n)
  OBVIOUS
<1>3. IsFiniteSet(T)
  BY <1>1, <1>2, FS_Subset
<1> QED
  BY <1>3, FS_CardinalityType DEF Waits

(* service_WAITLIST serves no more clients than wait. *)
LEMMA BatchType ==
  ASSUME NEW wl \in Seq(WAITLIST_client)
  PROVE  Batch(wl) \in Nat /\ Batch(wl) <= Len(wl)
<1> DEFINE T == {n \in 1 .. Len(wl) : \A i \in 2 .. n : ~ wl[i].write}
<1>1. Len(wl) \in Nat
  OBVIOUS
<1>2. IsFiniteSet(1 .. Len(wl)) /\ Cardinality(1 .. Len(wl)) = Len(wl)
  BY <1>1, FS_Interval, SMTT(30)
<1>3. T \in SUBSET (1 .. Len(wl))
  OBVIOUS
<1>4. IsFiniteSet(T) /\ Cardinality(T) <= Len(wl)
  BY <1>2, <1>3, FS_Subset
<1>5. Cardinality(T) \in Nat
  BY <1>4, FS_CardinalityType
<1>6. Batch(wl) = Cardinality(T)
  BY DEF Batch
<1> QED
  BY <1>4, <1>5, <1>6

----------------------------------------------------------------------------
(* Sending nothing is a map from clients to message sequences. *)
LEMMA NoMailType ==
  NoMail \in [Port -> Seq(ToKernel)] /\ NoError \in [Port -> Seq(kern_return_t)]
<1>1. <<>> \in Seq(ToKernel) /\ <<>> \in Seq(kern_return_t)
  BY EmptySeq
<1> QED
  BY <1>1 DEF NoMail, NoError

(* Mail for one client is a map from clients to message sequences. *)
LEMMA MailToType ==
  ASSUME NEW c, NEW m \in ToKernel
  PROVE  MailTo(c, m) \in [Port -> Seq(ToKernel)]
<1>1. <<m>> \in Seq(ToKernel) /\ <<>> \in Seq(ToKernel)
  BY EmptySeq
<1> QED
  BY <1>1 DEF MailTo

(* The m_o_data_error that pagemap.cc sends one waiter is a map of message
   sequences. *)
LEMMA ErrorForType ==
  ASSUME NEW c, NEW err \in kern_return_t
  PROVE  ErrorFor(c, err) \in [Port -> Seq(kern_return_t)]
<1>1. <<err>> \in Seq(kern_return_t) /\ <<>> \in Seq(kern_return_t)
  BY EmptySeq
<1> QED
  BY <1>1 DEF ErrorFor

(* internal_flush_request asks a set of clients for their page: a map of
   message sequences. *)
LEMMA FlushOnceType ==
  ASSUME NEW S
  PROVE  FlushOnce(S) \in [Port -> Nat]
BY DEF FlushOnce

(* An entry stored without messages is an effect on the page. *)
LEMMA OnlyType ==
  ASSUME NEW e \in pagemap_entry
  PROVE  Only(e) \in Effect /\ Only(e).entry = e
<1>1. FlushOnce({}) \in [Port -> Nat]
  BY FlushOnceType
<1> QED
  BY <1>1, NoMailType DEF Only, Effect

(* An entry stored with flushes of its ACCESSLIST is an effect on the page. *)
LEMMA FlushingType ==
  ASSUME NEW e \in pagemap_entry, NEW S
  PROVE  Flushing(e, S) \in Effect /\ Flushing(e, S).entry = e
<1>1. FlushOnce(S) \in [Port -> Nat]
  BY FlushOnceType
<1> QED
  BY <1>1, NoMailType DEF Flushing, Effect

(* An entry stored with mail is an effect on the page. *)
LEMMA MailingType ==
  ASSUME NEW e \in pagemap_entry, NEW c, NEW m \in ToKernel
  PROVE  Mailing(e, c, m) \in Effect /\ Mailing(e, c, m).entry = e
<1>1. FlushOnce({}) \in [Port -> Nat] /\ MailTo(c, m) \in [Port -> Seq(ToKernel)]
  BY FlushOnceType, MailToType
<1> QED
  BY <1>1, NoMailType DEF Mailing, Effect

(* add_client_to_WAITLIST keeps the entry's type and PAGINGOUT; WAITLIST is
   not empty afterwards. *)
LEMMA AddToWaitlist ==
  ASSUME NEW e \in pagemap_entry, NEW c \in Port, NEW write \in BOOLEAN
  PROVE  /\ add_client_to_WAITLIST(e, c, write) \in pagemap_entry
         /\ add_client_to_WAITLIST(e, c, write).WAITLIST # <<>>
         /\ add_client_to_WAITLIST(e, c, write).PAGINGOUT = e.PAGINGOUT
<1> DEFINE w == [client |-> c, write |-> write]
<1>1. w \in WAITLIST_client
  BY DEF WAITLIST_client
<1>2. e.WAITLIST \in Seq(WAITLIST_client)
  BY DEF pagemap_entry
<1>3. Append(e.WAITLIST, w) \in Seq(WAITLIST_client) /\ Append(e.WAITLIST, w) # <<>>
  BY <1>1, <1>2, AppendProperties
<1> QED
  BY <1>3 DEF add_client_to_WAITLIST, pagemap_entry

(* remove_client_from_ACCESSLIST keeps the entry's type, WAITLIST and
   PAGINGOUT. *)
LEMMA RemoveFromAccesslist ==
  ASSUME NEW e \in pagemap_entry, NEW c
  PROVE  /\ remove_client_from_ACCESSLIST(e, c) \in pagemap_entry
         /\ remove_client_from_ACCESSLIST(e, c).WAITLIST = e.WAITLIST
         /\ remove_client_from_ACCESSLIST(e, c).PAGINGOUT = e.PAGINGOUT
BY DEF remove_client_from_ACCESSLIST, pagemap_entry

(* The messages the pager sends about a page are messages to a kernel. *)
LEMMA MessageTypes ==
  ASSUME NEW p \in Page
  PROVE  /\ \A d \in Data, lock \in BOOLEAN : DataSupply(p, d, lock) \in ToKernel
         /\ \A err \in kern_return_t : DataError(p, err) \in ToKernel
         /\ UnlockAnswer(p) \in ToKernel
BY DEF DataSupply, DataError, UnlockAnswer, ToKernel

----------------------------------------------------------------------------
(* service_WAITLIST is called with somebody waiting. *)
LEMMA ServiceType ==
  ASSUME NEW e \in pagemap_entry, e.WAITLIST # <<>>, NEW p \in Page, NEW data \in Data,
         NEW awa \in BOOLEAN, NEW term \in BOOLEAN
  PROVE  /\ service_WAITLIST(e, p, data, awa, term) \in Effect
         /\ service_WAITLIST(e, p, data, awa, term).entry.PAGINGOUT = e.PAGINGOUT
<1> DEFINE wl == e.WAITLIST
           grant == awa /\ wl[1].write
           n == IF grant THEN 1 ELSE Batch(wl)
           rest == SubSeq(wl, n + 1, Len(wl))
           access == e.ACCESSLIST \cup {wl[i].client : i \in 1 .. n}
           e2 == [e EXCEPT !.ACCESSLIST = access, !.WAITLIST = rest,
                           !.WRITE_ACCESS_GRANTED = grant]
           mail == [c \in Port |-> Copies(Waits(wl, n, c), DataSupply(p, data, ~ grant))]
           flush == FlushOnce(IF rest = <<>> THEN {} ELSE access)
<1>1. wl \in Seq(WAITLIST_client) /\ Len(wl) \in Nat /\ Len(wl) > 0
  BY EmptySeq, LenProperties DEF pagemap_entry
<1>2. \A i \in 1 .. Len(wl) : wl[i] \in WAITLIST_client
  BY <1>1, ElementOfSeq
<1>3. grant \in BOOLEAN
  OBVIOUS
<1>4. n \in Nat /\ n <= Len(wl)
  BY <1>1, BatchType
<1>5. rest \in Seq(WAITLIST_client)
  <2>1. \A i \in n + 1 .. Len(wl) : wl[i] \in WAITLIST_client
    BY <1>2, <1>4
  <2>2. n + 1 \in Int /\ Len(wl) \in Int
    BY <1>1, <1>4
  <2> HIDE DEF n
  <2> QED
    BY <1>1, <2>1, <2>2, SubSeqProperties
<1>6. access \in SUBSET Port
  <2>1. \A i \in 1 .. n : wl[i].client \in Port
    BY <1>1, <1>2, <1>4 DEF WAITLIST_client
  <2> HIDE DEF n
  <2> QED
    BY <2>1 DEF pagemap_entry
<1>7. mail \in [Port -> Seq(ToKernel)]
  <2>1. DataSupply(p, data, ~ grant) \in ToKernel
    BY MessageTypes
  <2>2. \A c \in Port : Waits(wl, n, c) \in Nat
    BY <1>4, WaitsType
  <2> HIDE DEF n, grant
  <2> QED
    BY <2>1, <2>2, CopiesType
<1>8. flush \in [Port -> Nat]
  BY FlushOnceType
<1>9. e2 \in pagemap_entry /\ e2.PAGINGOUT = e.PAGINGOUT
  <2> HIDE DEF grant, rest, access
  <2> QED
    BY <1>3, <1>5, <1>6 DEF pagemap_entry
<1>10. CASE term
  BY <1>10, OnlyType DEF service_WAITLIST
<1>11. CASE ~ term
  <2>1. service_WAITLIST(e, p, data, awa, term)
          = [entry |-> e2, mail |-> mail, flush |-> flush, nexterror |-> NoError]
    BY <1>11 DEF service_WAITLIST
  <2> HIDE DEF e2, mail, flush
  <2> QED
    BY <2>1, <1>7, <1>8, <1>9, NoMailType DEF Effect
<1> QED
  BY <1>10, <1>11

(* send_error_to_WAITLIST makes an effect on the page that leaves PAGINGOUT
   as it was. *)
LEMMA SendErrorType ==
  ASSUME NEW e \in pagemap_entry, NEW p \in Page
  PROVE  /\ send_error_to_WAITLIST(e, p) \in Effect
         /\ send_error_to_WAITLIST(e, p).entry.PAGINGOUT = e.PAGINGOUT
<1> DEFINE wl == e.WAITLIST
           all(c) == Waits(wl, Len(wl), c)
           e1 == [e EXCEPT !.WAITLIST = <<>>]
           mail == [c \in Port |-> IF c \in e.ACCESSLIST THEN <<>>
                                   ELSE Copies(all(c), DataError(p, e.ERROR))]
           flush == [c \in Port |-> IF c \in e.ACCESSLIST THEN all(c) ELSE 0]
           errors == [c \in Port |-> IF c \in e.ACCESSLIST THEN Copies(all(c), e.ERROR)
                                     ELSE <<>>]
<1>1. wl \in Seq(WAITLIST_client) /\ Len(wl) \in Nat /\ e.ERROR \in kern_return_t
  BY LenProperties DEF pagemap_entry
<1>2. \A c \in Port : all(c) \in Nat
  BY <1>1, WaitsType
<1>3. DataError(p, e.ERROR) \in ToKernel
  BY <1>1, MessageTypes
<1>4. <<>> \in Seq(ToKernel) /\ <<>> \in Seq(kern_return_t) /\ <<>> \in Seq(WAITLIST_client)
  BY EmptySeq
<1>5. e1 \in pagemap_entry /\ e1.PAGINGOUT = e.PAGINGOUT
  BY <1>4 DEF pagemap_entry
<1>6. flush \in [Port -> Nat]
  <2> HIDE DEF all
  <2> QED
    BY <1>2
<1>7. mail \in [Port -> Seq(ToKernel)]
  <2> HIDE DEF all
  <2>1. \A c \in Port : Copies(all(c), DataError(p, e.ERROR)) \in Seq(ToKernel)
    BY <1>2, <1>3, CopiesType
  <2> QED
    BY <1>4, <2>1
<1>8. errors \in [Port -> Seq(kern_return_t)]
  <2> HIDE DEF all
  <2>1. \A c \in Port : Copies(all(c), e.ERROR) \in Seq(kern_return_t)
    BY <1>1, <1>2, CopiesType
  <2> QED
    BY <1>4, <2>1
<1>9. send_error_to_WAITLIST(e, p)
        = [entry |-> e1, mail |-> mail, flush |-> flush, nexterror |-> errors]
  BY DEF send_error_to_WAITLIST
<1> HIDE DEF e1, mail, flush, errors
<1> QED
  BY <1>5, <1>6, <1>7, <1>8, <1>9 DEF Effect

(* finalize_unlock is called with somebody waiting. *)
LEMMA FinalizeUnlockType ==
  ASSUME NEW e \in pagemap_entry, e.WAITLIST # <<>>, NEW p \in Page,
         NEW err \in kern_return_t
  PROVE  /\ finalize_unlock(e, p, err) \in Effect
         /\ finalize_unlock(e, p, err).entry.PAGINGOUT = e.PAGINGOUT
<1> DEFINE c == e.WAITLIST[1].client
           ok == err = KERN_SUCCESS
           rest == Tail(e.WAITLIST)
           e1 == [e EXCEPT !.WAITLIST = rest, !.WRITE_ACCESS_GRANTED = ok \/ @]
           mail == IF ok THEN MailTo(c, UnlockAnswer(p)) ELSE NoMail
           flush == FlushOnce(IF ok /\ rest = <<>> THEN {} ELSE {c})
           errors == IF ok THEN NoError ELSE ErrorFor(c, err)
<1>1. rest \in Seq(WAITLIST_client)
  BY HeadTailProperties DEF pagemap_entry
<1>2. e1 \in pagemap_entry /\ e1.PAGINGOUT = e.PAGINGOUT
  <2> HIDE DEF rest
  <2> QED
    BY <1>1 DEF pagemap_entry
<1>3. mail \in [Port -> Seq(ToKernel)]
  BY NoMailType, MailToType, MessageTypes
<1>4. flush \in [Port -> Nat]
  BY FlushOnceType
<1>5. errors \in [Port -> Seq(kern_return_t)]
  BY NoMailType, ErrorForType
<1>6. finalize_unlock(e, p, err)
        = [entry |-> e1, mail |-> mail, flush |-> flush, nexterror |-> errors]
  BY DEF finalize_unlock
<1> HIDE DEF e1, mail, flush, errors
<1> QED
  BY <1>2, <1>3, <1>4, <1>5, <1>6 DEF Effect

(* So is the tail of data_request that follows pager_read_page. *)
LEMMA FinishPageinType ==
  ASSUME NEW e \in pagemap_entry, e.WAITLIST # <<>>, NEW p \in Page, NEW data \in Data,
         NEW err \in kern_return_t, NEW wlock \in BOOLEAN, NEW term \in BOOLEAN
  PROVE  /\ finish_pagein(e, p, data, err, wlock, term) \in Effect
         /\ finish_pagein(e, p, data, err, wlock, term).entry.PAGINGOUT = e.PAGINGOUT
<1> DEFINE e1 == [e EXCEPT !.ERROR = err]
           awa == ~ wlock
<1>1. e1 \in pagemap_entry /\ e1.WAITLIST # <<>> /\ e1.PAGINGOUT = e.PAGINGOUT
  BY DEF pagemap_entry
<1>2. awa \in BOOLEAN
  OBVIOUS
<1>3. finish_pagein(e, p, data, err, wlock, term)
        = IF err = KERN_SUCCESS THEN service_WAITLIST(e1, p, data, awa, term)
          ELSE send_error_to_WAITLIST(e1, p)
  BY DEF finish_pagein
<1> HIDE DEF e1, awa
<1>4. CASE err = KERN_SUCCESS
  BY <1>1, <1>2, <1>3, <1>4, ServiceType
<1>5. CASE err # KERN_SUCCESS
  BY <1>1, <1>3, <1>5, SendErrorType
<1> QED
  BY <1>4, <1>5

(* internal_lock_completed asks for I/O only while somebody waits. *)
LEMMA LockCompletedType ==
  ASSUME NEW e \in pagemap_entry, NEW c, NEW p \in Page
  PROVE  LET done == internal_lock_completed(e, c, p) IN
         /\ done.effect \in Effect
         /\ done.effect.entry.PAGINGOUT = e.PAGINGOUT
         /\ done.operation \in {"none", "pagein", "unlock"}
         /\ done.operation # "none" => done.effect.entry.WAITLIST # <<>>
<1> DEFINE e1 == remove_client_from_ACCESSLIST(e, c)
           wanted == is_client_on_ACCESSLIST(e, c) /\ e.WAITLIST # <<>>
           last == wanted /\ e1.ACCESSLIST = {}
           effect == IF last /\ e.INVALID THEN send_error_to_WAITLIST(e1, p)
                     ELSE Only(IF wanted THEN e1 ELSE e)
           operation == IF last THEN IF e.INVALID THEN "none" ELSE "pagein"
                        ELSE IF wanted /\ FirstWaiterAloneHasPage(e1) THEN "unlock"
                        ELSE "none"
<1>1. e1 \in pagemap_entry /\ e1.WAITLIST = e.WAITLIST /\ e1.PAGINGOUT = e.PAGINGOUT
  BY RemoveFromAccesslist
<1>2. internal_lock_completed(e, c, p) = [effect |-> effect, operation |-> operation]
  BY DEF internal_lock_completed
<1>3. operation \in {"none", "pagein", "unlock"}
  OBVIOUS
<1>4. operation # "none" => wanted /\ ~ (last /\ e.INVALID)
  OBVIOUS
<1> HIDE DEF e1
<1>5. effect \in Effect /\ effect.entry.PAGINGOUT = e.PAGINGOUT
  <2>1. CASE last /\ e.INVALID
    BY <1>1, <2>1, SendErrorType
  <2>2. CASE ~ (last /\ e.INVALID)
    BY <1>1, <2>2, OnlyType
  <2> QED
    BY <2>1, <2>2
<1>6. operation # "none" => effect.entry.WAITLIST # <<>>
  BY <1>1, <1>4, OnlyType
<1> HIDE DEF effect, operation
<1> QED
  BY <1>2, <1>3, <1>5, <1>6
=============================================================================
