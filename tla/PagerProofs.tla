---------------------------- MODULE PagerProofs ----------------------------
(***************************************************************************)
(* The pager for every number of kernels, pages and threads: the types,    *)
(* and three invariants that hold each other up.                           *)
(***************************************************************************)
EXTENDS PagerSystem, PagemapProofs, WellFoundedInduction

(* What the steps of the pager keep by themselves. *)
PInv == PortTypeOK /\ PagerTypeOK /\ NoLostWakeup /\ WaitlistHeld /\ PagingOut

IInv == PInv /\ TypeOK

LocksType == [PageRange -> [Port -> LockRecord]]

----------------------------------------------------------------------------
(* Messages and ranges. *)
LEMMA PageFacts ==
  /\ 0 \in Page
  /\ \A p \in Page : OnePage(p) \in PageRange
  /\ \A r \in PageRange : r[1] \in Page /\ r[1] \in Nat /\ r[2] \in Nat /\ r[1] \in PagesIn(r)
BY NPagesAssumption DEF Page, OnePage, PageRange, PagesIn

(* Fields of a message to the pager, by kind. *)
LEMMA ToPagerFields ==
  ASSUME NEW m \in ToPager
  PROVE  /\ m.client \in Port
         /\ m.op = "data_request" => m.page \in Page /\ m.write \in BOOLEAN
         /\ m.op = "data_unlock" => m.page \in Page
         /\ m.op = "data_return" => /\ m.page \in Page /\ m.data \in Data
                                    /\ m.dirty \in BOOLEAN /\ m.kcopy \in BOOLEAN
         /\ m.op = "lock_completed" => m.range \in PageRange
BY DEF ToPager

(* Fields of a message to a kernel, by kind. *)
LEMMA ToKernelFields ==
  ASSUME NEW m \in ToKernel
  PROVE  /\ m.op = "data_supply" => m.page \in Page /\ m.data \in Data /\ m.lock \in BOOLEAN
         /\ m.op = "data_error" => m.page \in Page
         /\ m.op = "unlock" => m.page \in Page
         /\ m.op = "lock_request" =>
              /\ m \in [op : {"lock_request"}, range : PageRange, return : BOOLEAN,
                        flush : BOOLEAN, reply : BOOLEAN, next : Page]
              /\ m.next \in PagesIn(m.range)
BY DEF ToKernel

(* A lock request on a range of pages is a message to a kernel. *)
LEMMA LockRequestType ==
  ASSUME NEW r \in PageRange, NEW return \in BOOLEAN, NEW flush \in BOOLEAN,
         NEW reply \in BOOLEAN
  PROVE  LockRequest(r, return, flush, reply) \in ToKernel
BY PageFacts DEF LockRequest, ToKernel

(* The idle worker is a worker state. *)
LEMMA IdleType == Idle \in Worker /\ Idle.pc = "idle"
BY PageFacts DEF Idle, Worker, Port

(* A worker in the middle of an operation is a worker state. *)
LEMMA DoType ==
  ASSUME NEW p \in Page,
         NEW pc \in {"pagein", "unlock", "notify", "write", "evict"}
  PROVE  Do(pc, p) \in Worker /\ Do(pc, p).pc = pc /\ Do(pc, p).page = p
BY IdleType DEF Do, Worker

(* A nonempty set of natural numbers has a least element. *)
LEMMA NatMin ==
  ASSUME NEW A, A \subseteq Nat, A # {}
  PROVE  \E a \in A : \A b \in A : a <= b
<1> DEFINE R == {ss \in Nat \X Nat : ss[1] < ss[2]}
<1>1. IsWellFoundedOn(R, Nat)
  BY NatLessThanWellFounded DEF OpToRel
<1>2. \A a, b \in Nat : ~ (<<b, a>> \in R) => a <= b
  OBVIOUS
<1> HIDE DEF R
<1>3. PICK a \in A : \A b \in A : ~ (<<b, a>> \in R)
  BY <1>1, WFMin
<1> QED
  BY <1>2, <1>3

(* The order of the keys of outstanding_locks has a first one. *)
LEMMA FirstKeyType ==
  ASSUME NEW K, K \subseteq PageRange
  PROVE  /\ FirstKey(K) \in PageRange \cup {EndOfLocks}
         /\ FirstKey(K) # EndOfLocks => FirstKey(K) \in K
<1>1. CASE K = {}
  BY <1>1 DEF FirstKey
<1>2. CASE K # {}
  <2> DEFINE A == {r[1] : r \in K}
  <2>1. A # {} /\ A \subseteq Nat
    BY <1>2, PageFacts
  <2>3. PICK a \in A : \A b \in A : a <= b
    BY <2>1, NatMin
  <2> DEFINE B == {r[2] : r \in {k \in K : k[1] = a}}
  <2>4. B # {} /\ B \subseteq Nat
    BY PageFacts
  <2>6. PICK b \in B : \A d \in B : b <= d
    BY <2>4, NatMin
  <2>7. PICK r \in K : r[1] = a /\ r[2] = b
    OBVIOUS
  <2>8. ASSUME NEW s \in K PROVE s = r \/ Before(r, s)
    <3>1. s[1] \in Nat /\ s[2] \in Nat /\ r[1] \in Nat /\ r[2] \in Nat
      BY PageFacts
    <3>2. r[1] <= s[1]
      BY <2>3, <2>7
    <3>3. r[1] = s[1] => r[2] <= s[2]
      BY <2>6, <2>7
    <3>4. r[1] = s[1] /\ r[2] = s[2] => s = r
      BY DEF PageRange
    <3> QED
      BY <3>1, <3>2, <3>3, <3>4 DEF Before
  <2>9. FirstKey(K) \in K
    BY <1>2, <2>7, <2>8 DEF FirstKey
  <2> QED
    BY <2>9
<1> QED
  BY <1>1, <1>2

----------------------------------------------------------------------------
(* The parts the handlers are made of. *)
LEMMA PostType ==
  ASSUME PortTypeOK, NEW mail \in [Port -> Seq(ToKernel)], Post(mail)
  PROVE  ctl' \in [Port -> Seq(ToKernel)]
<1>1. \A c \in Port : ctl[c] \o mail[c] \in Seq(ToKernel)
  BY ConcatProperties DEF PortTypeOK
<1> QED
  BY <1>1 DEF Post, PortTypeOK

(* Taking the first message off the port leaves a queue of messages. *)
LEMMA ReceiveType ==
  ASSUME PortTypeOK, NEW op, Receive(op)
  PROVE  /\ Head(port) \in ToPager /\ Head(port).op = op
         /\ port' \in Seq(ToPager)
         /\ alive' = alive /\ right' = right
         /\ Running /\ worker.pc = "idle"
BY HeadTailProperties DEF PortTypeOK, Receive

(* Outstanding lock records are not lost when flushes are only added. *)
LEMMA OutstandingMonotone ==
  ASSUME NEW L \in LocksType, NEW M \in LocksType, NEW r \in PageRange,
         \A c \in Port : L[r][c].count <= M[r][c].count,
         Outstanding(L, r)
  PROVE  Outstanding(M, r)
BY DEF Outstanding, LocksType, LockRecord

(* Storing an effect keeps the types and takes no outstanding lock away. *)
LEMMA CommitType ==
  ASSUME PortTypeOK, PagerTypeOK, NEW p \in Page, NEW effect \in Effect,
         NEW L \in LocksType, NEW N \in NEXTERROR_list, Commit(p, effect, L, N)
  PROVE  /\ pagemap' = [pagemap EXCEPT ![p] = effect.entry]
         /\ pagemap' \in [Page -> pagemap_entry]
         /\ NEXTERROR' \in NEXTERROR_list
         /\ outstanding_locks' \in LocksType
         /\ ctl' \in [Port -> Seq(ToKernel)]
         /\ \A r \in PageRange : Outstanding(L, r) => Outstanding(outstanding_locks', r)
<1> DEFINE r1 == OnePage(p)
           record == [c \in Port |-> [count |-> L[r1][c].count + effect.flush[c],
                                      internal |-> L[r1][c].internal \/ effect.flush[c] > 0]]
           mail == [c \in Port |-> effect.mail[c]
                      \o Copies(effect.flush[c], LockRequest(r1, TRUE, TRUE, TRUE))]
<1>1. /\ effect.entry \in pagemap_entry /\ effect.mail \in [Port -> Seq(ToKernel)]
      /\ effect.flush \in [Port -> Nat] /\ effect.nexterror \in [Port -> Seq(kern_return_t)]
  BY DEF Effect
<1>2. r1 \in PageRange
  BY PageFacts
<1> HIDE DEF r1
<1>3. pagemap' = [pagemap EXCEPT ![p] = effect.entry]
  BY DEF Commit
<1>4. pagemap' \in [Page -> pagemap_entry]
  BY <1>1, <1>3 DEF PagerTypeOK
<1>5. NEXTERROR' \in NEXTERROR_list
  <2>1. \A c \in Port : N[c] \in [Page -> Seq(kern_return_t)]
    BY DEF NEXTERROR_list
  <2>2. \A c \in Port : N[c][p] \o effect.nexterror[c] \in Seq(kern_return_t)
    BY <1>1, <2>1, ConcatProperties
  <2>3. \A c \in Port : [N[c] EXCEPT ![p] = @ \o effect.nexterror[c]] \in [Page -> Seq(kern_return_t)]
    BY <2>1, <2>2
  <2> QED
    BY <2>3 DEF Commit, NEXTERROR_list
<1>6. \A c \in Port : /\ L[r1][c] \in LockRecord
                      /\ record[c] \in LockRecord
                      /\ L[r1][c].count <= record[c].count
  BY <1>1, <1>2 DEF LocksType, LockRecord
<1>7. record \in [Port -> LockRecord]
  BY <1>6
<1>8. outstanding_locks' = [L EXCEPT ![r1] = record]
  BY DEF Commit, r1
<1> HIDE DEF record
<1>9. outstanding_locks' \in LocksType
  BY <1>2, <1>7, <1>8 DEF LocksType
<1>10. ctl' \in [Port -> Seq(ToKernel)]
  <2>1. LockRequest(r1, TRUE, TRUE, TRUE) \in ToKernel
    BY <1>2, LockRequestType
  <2>2. \A c \in Port : Copies(effect.flush[c], LockRequest(r1, TRUE, TRUE, TRUE)) \in Seq(ToKernel)
    BY <1>1, <2>1, CopiesType
  <2>3. mail \in [Port -> Seq(ToKernel)]
    BY <1>1, <2>2, ConcatProperties
  <2>4. Post(mail)
    BY DEF Commit, r1
  <2> HIDE DEF mail
  <2> QED
    BY <2>3, <2>4, PostType
<1>11. \A r \in PageRange, c \in Port : L[r][c].count <= outstanding_locks'[r][c].count
  BY <1>2, <1>6, <1>8 DEF LocksType, LockRecord
<1>12. \A r \in PageRange : Outstanding(L, r) => Outstanding(outstanding_locks', r)
  BY <1>9, <1>11, OutstandingMonotone
<1> QED
  BY <1>3, <1>4, <1>5, <1>9, <1>10, <1>12

(* lock_completed and drop_client wake the threads whose record has gone. *)
LEMMA NotifyLocksWakes ==
  ASSUME PagerTypeOK, NoLostWakeup, NEW L, NotifyLocks(L)
  PROVE  /\ thread' \in [Thread -> ThreadState]
         /\ \A t \in Thread : thread'[t].at = "locks" =>
              /\ thread[t].at = "locks" /\ thread'[t].call = thread[t].call
              /\ Outstanding(L, thread[t].call.range)
BY DEF PagerTypeOK, NoLostWakeup, NotifyLocks, ThreadState

(* The range of a sync, return or flush call is a range of pages. *)
LEMMA CallRange ==
  ASSUME PagerTypeOK, NEW t \in Thread
  PROVE  thread[t].call \in CallType /\ thread[t].call.range \in PageRange
BY CallAssumption DEF PagerTypeOK, ThreadState, CallType

(* A segment that stores an effect on page p, with no write in progress    *)
(* before it or after it, keeps the invariant.                             *)
LEMMA StoreStep ==
  ASSUME PInv, Running, NEW p \in Page, NEW effect \in Effect, NEW L \in LocksType,
         NEW N \in NEXTERROR_list, Commit(p, effect, L, N),
         effect.entry.PAGINGOUT = pagemap[p].PAGINGOUT,
         worker.pc \notin {"write", "evict"},
         worker' \in Worker, worker'.pc \notin {"write", "evict"},
         worker'.pc \in {"pagein", "unlock"} => worker'.page = p /\ effect.entry.WAITLIST # <<>>,
         thread' \in [Thread -> ThreadState],
         \A t \in Thread : thread'[t].at = "locks" =>
           /\ thread[t].at = "locks" /\ thread'[t].call = thread[t].call
           /\ Outstanding(L, thread[t].call.range),
         UNCHANGED <<Rest, alive, right>>, port' \in Seq(ToPager)
  PROVE  PInv'
<1> USE DEF PInv
<1>1. /\ pagemap' = [pagemap EXCEPT ![p] = effect.entry]
      /\ pagemap' \in [Page -> pagemap_entry]
      /\ NEXTERROR' \in NEXTERROR_list
      /\ outstanding_locks' \in LocksType
      /\ ctl' \in [Port -> Seq(ToKernel)]
      /\ \A r \in PageRange : Outstanding(L, r) => Outstanding(outstanding_locks', r)
  BY CommitType
<1>2. PortTypeOK'
  BY <1>1 DEF PortTypeOK
<1>3. PagerTypeOK'
  BY <1>1 DEF PagerTypeOK, Rest, LocksType
<1>4. NoLostWakeup'
  BY <1>1, CallRange DEF NoLostWakeup
<1>5. WaitlistHeld'
  BY <1>1 DEF WaitlistHeld, PagerTypeOK
<1>6. PagingOut'
  <2>1. WRITEWAIT = <<>> /\ WRITEWAIT' = <<>>
    BY DEF PagingOut, Rest
  <2>2. \A q \in Page : pagemap'[q].PAGINGOUT = pagemap[q].PAGINGOUT
    BY <1>1 DEF PagerTypeOK
  <2> QED
    BY <2>1, <2>2 DEF PagingOut
<1> QED
  BY <1>2, <1>3, <1>4, <1>5, <1>6

(* A handler that stores an effect and is done with the threads. *)
LEMMA StoreStepQuiet ==
  ASSUME PInv, Running, NEW p \in Page, NEW effect \in Effect, Store(p, effect),
         effect.entry.PAGINGOUT = pagemap[p].PAGINGOUT,
         worker.pc \notin {"write", "evict"},
         worker' \in Worker, worker'.pc \notin {"write", "evict"},
         worker'.pc \in {"pagein", "unlock"} => worker'.page = p /\ effect.entry.WAITLIST # <<>>,
         UNCHANGED <<Rest, thread, alive, right>>, port' \in Seq(ToPager)
  PROVE  PInv'
<1>1. outstanding_locks \in LocksType /\ NEXTERROR \in NEXTERROR_list
  BY DEF PInv, PagerTypeOK, LocksType
<1>2. Commit(p, effect, outstanding_locks, NEXTERROR)
  BY DEF Store
<1>3. thread' \in [Thread -> ThreadState]
  BY DEF PInv, PagerTypeOK
<1>4. \A t \in Thread : thread'[t].at = "locks" =>
           /\ thread[t].at = "locks" /\ thread'[t].call = thread[t].call
           /\ Outstanding(outstanding_locks, thread[t].call.range)
  BY DEF PInv, NoLostWakeup
<1> QED
  BY <1>1, <1>2, <1>3, <1>4, StoreStep

(* Nothing happens but the receipt of a message, or the program ends. *)
LEMMA IgnoreStep ==
  ASSUME PInv, Ignore \/ \E a \in Assertions \ {"none"} : Abort(a),
         UNCHANGED <<alive, right>>, port' \in Seq(ToPager)
  PROVE  PInv'
<1>1. CASE Ignore
  <2> USE <1>1 DEF Ignore, pagerVars, PInv
  <2>1. PortTypeOK' /\ PagerTypeOK'
    BY DEF PortTypeOK, PagerTypeOK
  <2>2. NoLostWakeup' /\ WaitlistHeld' /\ PagingOut'
    BY DEF NoLostWakeup, Outstanding, WaitlistHeld, PagingOut, Running
  <2> QED
    BY <2>1, <2>2
<1>2. ASSUME NEW a \in Assertions \ {"none"}, Abort(a) PROVE PInv'
  <2> USE <1>2 DEF Abort, PInv
  <2>1. PortTypeOK' /\ PagerTypeOK'
    BY DEF PortTypeOK, PagerTypeOK
  <2>2. ~ Running'
    BY DEF Running
  <2>3. NoLostWakeup' /\ WaitlistHeld' /\ PagingOut'
    BY <2>2 DEF NoLostWakeup, Outstanding, WaitlistHeld, PagingOut, Running
  <2> QED
    BY <2>1, <2>3
<1> QED
  BY <1>1, <1>2

----------------------------------------------------------------------------
(* The handlers, one by one. *)
LEMMA ObjectInitStep == PInv /\ object_init => PInv'
<1> SUFFICES ASSUME PInv, object_init PROVE PInv'
  OBVIOUS
<1> USE DEF PInv
<1>1. Head(port) \in ToPager /\ port' \in Seq(ToPager) /\ alive' = alive /\ right' = right
  BY ReceiveType DEF object_init
<1>2. CASE terminating
  BY <1>1, <1>2, IgnoreStep DEF object_init
<1>3. CASE ~ terminating
  <2> DEFINE c == Head(port).client
             mail == [NoMail EXCEPT ![c] = <<[op |-> "ready"]>>]
  <2>1. c \in Port
    BY <1>1, ToPagerFields
  <2>2. <<[op |-> "ready"]>> \in Seq(ToKernel)
    BY DEF ToKernel
  <2>3. mail \in [Port -> Seq(ToKernel)]
    BY <2>1, <2>2, NoMailType
  <2>4. Post(mail) /\ clients' = clients \cup {c}
    BY <1>3 DEF object_init
  <2> HIDE DEF mail
  <2>5. ctl' \in [Port -> Seq(ToKernel)]
    BY <2>3, <2>4, PostType
  <2>6. UNCHANGED <<pagemap, WRITEWAIT, NEXTERROR, outstanding_locks, terminating,
                    worker, thread, store, aborted>>
    BY <1>3 DEF object_init
  <2>7. PortTypeOK' /\ PagerTypeOK'
    BY <1>1, <2>1, <2>4, <2>5, <2>6 DEF PortTypeOK, PagerTypeOK
  <2>8. NoLostWakeup' /\ WaitlistHeld' /\ PagingOut'
    BY <2>6 DEF NoLostWakeup, Outstanding, WaitlistHeld, PagingOut, Running
  <2> QED
    BY <2>7, <2>8
<1> QED
  BY <1>2, <1>3 DEF PagerTypeOK

(* The entry a data_request works on is an entry, with PAGINGOUT as it was. *)
LEMMA EntryForRequestType ==
  ASSUME PagerTypeOK, NEW m \in ToPager, m.op = "data_request"
  PROVE  /\ EntryForRequest(m) \in pagemap_entry
         /\ EntryForRequest(m).PAGINGOUT = pagemap[m.page].PAGINGOUT
<1> DEFINE e == pagemap[m.page]
           e1 == remove_client_from_ACCESSLIST(e, m.client)
<1>1. e \in pagemap_entry
  BY ToPagerFields DEF PagerTypeOK
<1>2. e1 \in pagemap_entry /\ e1.PAGINGOUT = e.PAGINGOUT
  BY <1>1, RemoveFromAccesslist
<1>3. EntryForRequest(m) = IF ~ e.PAGINGOUT /\ is_client_on_ACCESSLIST(e, m.client)
                           THEN [e1 EXCEPT !.WRITE_ACCESS_GRANTED = FALSE] ELSE e
  BY DEF EntryForRequest
<1> HIDE DEF e1
<1>4. /\ [e1 EXCEPT !.WRITE_ACCESS_GRANTED = FALSE] \in pagemap_entry
      /\ [e1 EXCEPT !.WRITE_ACCESS_GRANTED = FALSE].PAGINGOUT = e.PAGINGOUT
  BY <1>2 DEF pagemap_entry
<1> QED
  BY <1>1, <1>3, <1>4

(* data_request keeps the invariant: whoever it puts on WAITLIST has a
   page-in, a page-out or a flush to wait for. *)
LEMMA DataRequestStep == PInv /\ DataRequest => PInv'
<1> SUFFICES ASSUME PInv, DataRequest PROVE PInv'
  OBVIOUS
<1> DEFINE m == Head(port)
           p == m.page
<1>1. /\ m \in ToPager /\ m.op = "data_request" /\ port' \in Seq(ToPager)
      /\ alive' = alive /\ right' = right /\ Running /\ worker.pc = "idle"
  BY ReceiveType DEF DataRequest, data_request_ignored, data_request_NEXTERROR,
       data_request_dropped, data_request_wait, data_request_pagein, PInv
<1>2. m.client \in Port /\ p \in Page /\ m.write \in BOOLEAN
  BY <1>1, ToPagerFields
<1>3. pagemap[p] \in pagemap_entry
  BY <1>2 DEF PInv, PagerTypeOK
<1>4. CASE data_request_ignored
  BY <1>1, <1>4, IgnoreStep DEF data_request_ignored
<1>5. CASE data_request_NEXTERROR
  <2> DEFINE errors == NEXTERROR[m.client][p]
             mail == [NoMail EXCEPT ![m.client] = <<DataError(p, Head(errors))>>]
  <2>1. errors \in Seq(kern_return_t) /\ errors # <<>>
    BY <1>2, <1>5 DEF data_request_NEXTERROR, PInv, PagerTypeOK, NEXTERROR_list
  <2>2. Head(errors) \in kern_return_t /\ Tail(errors) \in Seq(kern_return_t)
    BY <2>1, HeadTailProperties
  <2>3. DataError(p, Head(errors)) \in ToKernel
    BY <1>2, <2>2, MessageTypes
  <2>4. <<DataError(p, Head(errors))>> \in Seq(ToKernel)
    BY <2>3
  <2>5. mail \in [Port -> Seq(ToKernel)]
    BY <1>2, <2>4, NoMailType
  <2>6. /\ Post(mail)
        /\ NEXTERROR' = [NEXTERROR EXCEPT ![m.client][p] = Tail(@)]
        /\ UNCHANGED <<Rest, pagemap, outstanding_locks, worker, thread>>
    BY <1>5 DEF data_request_NEXTERROR
  <2>7. NEXTERROR' \in NEXTERROR_list
    BY <1>2, <2>2, <2>6 DEF PInv, PagerTypeOK, NEXTERROR_list
  <2> HIDE DEF mail
  <2>8. ctl' \in [Port -> Seq(ToKernel)]
    BY <2>5, <2>6, PostType DEF PInv
  <2>9. PortTypeOK' /\ PagerTypeOK'
    BY <1>1, <2>6, <2>7, <2>8 DEF PInv, PortTypeOK, PagerTypeOK, Rest
  <2>10. NoLostWakeup' /\ WaitlistHeld' /\ PagingOut'
    BY <2>6 DEF PInv, NoLostWakeup, Outstanding, WaitlistHeld, PagingOut, Running, Rest
  <2> QED
    BY <2>9, <2>10 DEF PInv
<1>6. CASE data_request_dropped
  <2> DEFINE e == add_client_to_WAITLIST(pagemap[p], m.client, m.write)
             done == internal_lock_completed(e, m.client, p)
  <2>1. e \in pagemap_entry /\ e.PAGINGOUT = pagemap[p].PAGINGOUT
    BY <1>2, <1>3, AddToWaitlist
  <2>2. CASE e.WRITE_ACCESS_GRANTED
    <3>1. Abort("ilc_WAG")
      BY <1>6, <2>2 DEF data_request_dropped
    <3> QED
      BY <1>1, <3>1, IgnoreStep DEF Assertions
  <2>3. CASE ~ e.WRITE_ACCESS_GRANTED
    <3>1. /\ CompleteInternalLock(e, m.client, p, outstanding_locks, Idle)
          /\ UNCHANGED <<Rest, thread>>
      BY <1>6, <2>3 DEF data_request_dropped
    <3> HIDE DEF e
    <3>2. /\ done.effect \in Effect
          /\ done.effect.entry.PAGINGOUT = pagemap[p].PAGINGOUT
          /\ done.operation \in {"none", "pagein", "unlock"}
          /\ done.operation # "none" => done.effect.entry.WAITLIST # <<>>
      BY <1>2, <2>1, LockCompletedType
    <3>3. /\ Store(p, done.effect)
          /\ worker' = IF done.operation # "none"
                       THEN [Idle EXCEPT !.page = p, !.pc = done.operation] ELSE Idle
      BY <3>1 DEF CompleteInternalLock, Store
    <3> HIDE DEF done
    <3>4. /\ worker' \in Worker /\ worker'.pc \in {"idle", "pagein", "unlock"}
          /\ worker'.pc # "idle" => worker'.page = p /\ done.operation # "none"
      BY <1>2, <3>2, <3>3, IdleType DEF Worker
    <3> HIDE DEF m
    <3> QED
      BY <1>1, <1>2, <3>1, <3>2, <3>3, <3>4, StoreStepQuiet
  <2> QED
    BY <2>2, <2>3
<1>7. CASE data_request_wait
  <2> DEFINE e == EntryForRequest(m)
             e1 == add_client_to_WAITLIST(e, m.client, m.write)
             effect == Flushing(e1, IF e.WAITLIST = <<>> THEN e.ACCESSLIST ELSE {})
  <2>1. e \in pagemap_entry /\ e.PAGINGOUT = pagemap[p].PAGINGOUT
    BY <1>1, EntryForRequestType DEF PInv
  <2>2. Store(p, effect) /\ UNCHANGED <<Rest, worker, thread>>
    BY <1>7 DEF data_request_wait
  <2> HIDE DEF e
  <2>3. e1 \in pagemap_entry /\ e1.PAGINGOUT = pagemap[p].PAGINGOUT
    BY <1>2, <2>1, AddToWaitlist
  <2> HIDE DEF e1
  <2>4. effect \in Effect /\ effect.entry.PAGINGOUT = pagemap[p].PAGINGOUT
    BY <2>3, FlushingType
  <2>5. worker' \in Worker /\ worker'.pc = "idle"
    BY <1>1, <2>2 DEF PInv, PagerTypeOK
  <2> HIDE DEF effect, m
  <2> QED
    BY <1>1, <1>2, <2>2, <2>4, <2>5, StoreStepQuiet
<1>8. CASE data_request_pagein
  <2> DEFINE e == EntryForRequest(m)
             e1 == add_client_to_WAITLIST(e, m.client, m.write)
             effect == IF e.INVALID THEN Mailing(e1, m.client, DataError(p, e.ERROR))
                       ELSE Only(e1)
  <2>1. e \in pagemap_entry /\ e.PAGINGOUT = pagemap[p].PAGINGOUT
    BY <1>1, EntryForRequestType DEF PInv
  <2>2. Store(p, effect) /\ worker' = Do("pagein", p) /\ UNCHANGED <<Rest, thread>>
    BY <1>8 DEF data_request_pagein
  <2> HIDE DEF e
  <2>3. e1 \in pagemap_entry /\ e1.PAGINGOUT = pagemap[p].PAGINGOUT /\ e1.WAITLIST # <<>>
    BY <1>2, <2>1, AddToWaitlist
  <2> HIDE DEF e1
  <2>4. DataError(p, e.ERROR) \in ToKernel
    BY <1>2, <2>1, MessageTypes DEF pagemap_entry
  <2>5. effect \in Effect /\ effect.entry = e1
    BY <2>3, <2>4, OnlyType, MailingType
  <2>6. worker' \in Worker /\ worker'.pc = "pagein" /\ worker'.page = p
    BY <1>2, <2>2, DoType
  <2> HIDE DEF effect, m
  <2> QED
    BY <1>1, <1>2, <2>2, <2>3, <2>5, <2>6, StoreStepQuiet
<1> QED
  BY <1>4, <1>5, <1>6, <1>7, <1>8 DEF DataRequest

(* Going on with the next page after an internal lock completes is a worker
   state. *)
LEMMA ContinueType ==
  ASSUME PagerTypeOK
  PROVE  Continue \in Worker /\ Continue.pc \in {"idle", "drop"}
<1>1. [worker EXCEPT !.pc = "drop"] \in Worker /\ [worker EXCEPT !.pc = "drop"].pc = "drop"
  BY DEF PagerTypeOK, Worker
<1> QED
  BY <1>1, IdleType DEF Continue

(* The end of data_request's unlocked read keeps the invariant. *)
LEMMA FinishReadStep == PInv /\ finish_read => PInv'
<1> SUFFICES ASSUME PInv, finish_read PROVE PInv'
  OBVIOUS
<1> DEFINE p == worker.page
<1>1. PICK err \in kern_return_t, wlock \in WriteLock :
        Store(p, finish_pagein(pagemap[p], p, store[p].data, err, wlock, terminating))
  BY DEF finish_read
<1> DEFINE effect == finish_pagein(pagemap[p], p, store[p].data, err, wlock, terminating)
<1>2. p \in Page /\ pagemap[p] \in pagemap_entry /\ store[p].data \in Data
      /\ terminating \in BOOLEAN /\ wlock \in BOOLEAN
  BY FlagAssumption DEF PInv, PagerTypeOK, Worker
<1>3. Running /\ worker.pc = "pagein" /\ pagemap[p].WAITLIST # <<>>
  BY DEF finish_read, PInv, WaitlistHeld
<1> HIDE DEF p
<1>4. effect \in Effect /\ effect.entry.PAGINGOUT = pagemap[p].PAGINGOUT
  BY <1>2, <1>3, FinishPageinType
<1>5. worker' \in Worker /\ worker'.pc \in {"idle", "drop"}
  BY ContinueType DEF finish_read, PInv
<1>6. UNCHANGED <<Rest, thread, alive, right>> /\ port' \in Seq(ToPager)
  BY DEF finish_read, PInv, PortTypeOK
<1>7. Store(p, effect)
  BY <1>1
<1> HIDE DEF effect
<1> QED
  BY <1>2, <1>3, <1>4, <1>5, <1>6, <1>7, StoreStepQuiet

(* The end of data_unlock's unlocked pager_unlock_page keeps the invariant. *)
LEMMA FinishUnlockStep == PInv /\ finish_unlock => PInv'
<1> SUFFICES ASSUME PInv, finish_unlock PROVE PInv'
  OBVIOUS
<1> DEFINE p == worker.page
<1>1. PICK err \in kern_return_t : Store(p, finalize_unlock(pagemap[p], p, err))
  BY DEF finish_unlock
<1> DEFINE effect == finalize_unlock(pagemap[p], p, err)
<1>2. p \in Page /\ pagemap[p] \in pagemap_entry
  BY DEF PInv, PagerTypeOK, Worker
<1>3. Running /\ worker.pc = "unlock" /\ pagemap[p].WAITLIST # <<>>
  BY DEF finish_unlock, PInv, WaitlistHeld
<1> HIDE DEF p
<1>4. effect \in Effect /\ effect.entry.PAGINGOUT = pagemap[p].PAGINGOUT
  BY <1>2, <1>3, FinalizeUnlockType
<1>5. worker' \in Worker /\ worker'.pc \in {"idle", "drop"}
  BY ContinueType DEF finish_unlock, PInv
<1>6. UNCHANGED <<Rest, thread, alive, right>> /\ port' \in Seq(ToPager)
  BY DEF finish_unlock, PInv, PortTypeOK
<1>7. Store(p, effect)
  BY <1>1
<1> HIDE DEF effect
<1> QED
  BY <1>2, <1>3, <1>4, <1>5, <1>6, <1>7, StoreStepQuiet

(* data_unlock keeps the invariant. *)
LEMMA DataUnlockStep == PInv /\ data_unlock => PInv'
<1> SUFFICES ASSUME PInv, data_unlock PROVE PInv'
  OBVIOUS
<1> DEFINE m == Head(port)
           p == m.page
           e == pagemap[p]
           e1 == add_client_to_WAITLIST(e, m.client, TRUE)
           on == is_client_on_ACCESSLIST(e, m.client)
           effect == CASE is_any_client_waiting_for_write_access(e) -> Only(e)
                       [] e.WAITLIST = <<>> /\ Cardinality(e.ACCESSLIST) > 1 ->
                            Flushing(e1, e.ACCESSLIST)
                       [] OTHER -> Only(e1)
           unlock == e.WAITLIST = <<>> /\ Cardinality(e.ACCESSLIST) <= 1
<1>1. /\ m \in ToPager /\ m.op = "data_unlock" /\ port' \in Seq(ToPager)
      /\ alive' = alive /\ right' = right /\ Running /\ worker.pc = "idle"
  BY ReceiveType DEF data_unlock, PInv
<1>2. m.client \in Port /\ p \in Page
  BY <1>1, ToPagerFields
<1>3. e \in pagemap_entry
  BY <1>2 DEF PInv, PagerTypeOK
<1>4. CASE terminating \/ ~ on \/ e.WRITE_ACCESS_GRANTED \/ e.PAGINGOUT
  <2>1. Ignore \/ Abort("unlock_ACCESSLIST") \/ Abort("unlock_WAG") \/ Abort("unlock_PAGINGOUT")
    BY <1>4 DEF data_unlock
  <2> QED
    BY <1>1, <2>1, IgnoreStep DEF Assertions
<1>5. CASE ~ (terminating \/ ~ on \/ e.WRITE_ACCESS_GRANTED \/ e.PAGINGOUT)
  <2>1. /\ Store(p, effect)
        /\ worker' = IF unlock THEN Do("unlock", p) ELSE Idle
        /\ UNCHANGED <<Rest, thread>>
    BY <1>5 DEF data_unlock
  <2>2. e1 \in pagemap_entry /\ e1.PAGINGOUT = e.PAGINGOUT /\ e1.WAITLIST # <<>>
    BY <1>2, <1>3, AddToWaitlist
  <2>3. unlock => effect = Only(e1) \/ effect = Flushing(e1, e.ACCESSLIST)
    <3>1. unlock => ~ is_any_client_waiting_for_write_access(e)
      <4>1. Len(<<>>) = 0
        OBVIOUS
      <4>2. e.WAITLIST = <<>> => ~ is_any_client_waiting_for_write_access(e)
        BY <4>1 DEF is_any_client_waiting_for_write_access
      <4> QED
        BY <4>2
    <3> QED
      BY <3>1
  <2>4. effect \in {Only(e), Only(e1), Flushing(e1, e.ACCESSLIST)}
    OBVIOUS
  <2> HIDE DEF e1, effect, unlock
  <2>5. effect \in Effect /\ effect.entry.PAGINGOUT = e.PAGINGOUT
    BY <1>3, <2>2, <2>4, OnlyType, FlushingType
  <2>6. unlock => effect.entry.WAITLIST # <<>>
    BY <2>2, <2>3, OnlyType, FlushingType
  <2>7. /\ worker' \in Worker /\ worker'.pc \in {"idle", "unlock"}
        /\ worker'.pc = "unlock" => unlock /\ worker'.page = p
    BY <1>2, <2>1, DoType, IdleType
  <2> HIDE DEF m
  <2> QED
    BY <1>1, <1>2, <2>1, <2>5, <2>6, <2>7, StoreStepQuiet
<1> QED
  BY <1>4, <1>5

(* internal_lock_completed as the tail of a handler that has taken locks   *)
(* away and notified the threads that waited for them.                     *)
LEMMA CompleteLockStep ==
  ASSUME PInv, Running, NEW c, NEW p \in Page, NEW L \in LocksType, NEW next \in Worker,
         next.pc \in {"idle", "relock"}, worker.pc \in {"idle", "drop"},
         CompleteInternalLock(pagemap[p], c, p, L, next), NotifyLocks(L),
         UNCHANGED <<Rest, alive, right>>, port' \in Seq(ToPager)
  PROVE  PInv'
<1> DEFINE done == internal_lock_completed(pagemap[p], c, p)
<1>1. pagemap[p] \in pagemap_entry /\ NEXTERROR \in NEXTERROR_list
  BY DEF PInv, PagerTypeOK
<1>2. /\ done.effect \in Effect
      /\ done.effect.entry.PAGINGOUT = pagemap[p].PAGINGOUT
      /\ done.operation \in {"none", "pagein", "unlock"}
      /\ done.operation # "none" => done.effect.entry.WAITLIST # <<>>
  BY <1>1, LockCompletedType
<1>3. /\ Commit(p, done.effect, L, NEXTERROR)
      /\ worker' = IF done.operation # "none"
                   THEN [next EXCEPT !.page = p, !.pc = done.operation] ELSE next
  BY DEF CompleteInternalLock
<1> HIDE DEF done
<1>4. /\ worker' \in Worker /\ worker'.pc \in {"idle", "relock", "pagein", "unlock"}
      /\ worker'.pc \in {"pagein", "unlock"} => worker'.page = p /\ done.operation # "none"
  <2>1. CASE done.operation = "none"
    BY <1>3, <2>1
  <2>2. CASE done.operation # "none"
    <3>1. worker' = [next EXCEPT !.page = p, !.pc = done.operation]
      BY <1>3, <2>2
    <3> QED
      BY <1>2, <2>2, <3>1 DEF Worker
  <2> QED
    BY <2>1, <2>2
<1>5. /\ thread' \in [Thread -> ThreadState]
      /\ \A t \in Thread : thread'[t].at = "locks" =>
           /\ thread[t].at = "locks" /\ thread'[t].call = thread[t].call
           /\ Outstanding(L, thread[t].call.range)
  BY NotifyLocksWakes DEF PInv
<1> QED
  BY <1>1, <1>2, <1>3, <1>4, <1>5, StoreStep

(* A step that only takes locks away and notifies the threads. *)
LEMMA NotifyStep ==
  ASSUME PInv, NEW L \in LocksType, outstanding_locks' = L, NotifyLocks(L),
         worker' \in Worker, worker'.pc \in {"idle", "drop"}, worker.pc \in {"idle", "drop"},
         pagemap' \in [Page -> pagemap_entry],
         \A p \in Page : pagemap'[p].PAGINGOUT = pagemap[p].PAGINGOUT,
         clients' \subseteq Port,
         UNCHANGED <<WRITEWAIT, NEXTERROR, terminating, store, aborted, ctl, alive, right>>,
         port' \in Seq(ToPager)
  PROVE  PInv'
<1> USE DEF PInv
<1>1. /\ thread' \in [Thread -> ThreadState]
      /\ \A t \in Thread : thread'[t].at = "locks" =>
           /\ thread[t].at = "locks" /\ thread'[t].call = thread[t].call
           /\ Outstanding(L, thread[t].call.range)
  BY NotifyLocksWakes
<1>2. PortTypeOK' /\ PagerTypeOK'
  BY <1>1 DEF PortTypeOK, PagerTypeOK, LocksType
<1>3. NoLostWakeup'
  BY <1>1 DEF NoLostWakeup
<1>4. WaitlistHeld' /\ PagingOut'
  BY DEF WaitlistHeld, PagingOut, Running
<1> QED
  BY <1>2, <1>3, <1>4

(* An answer leaves a record. *)
LEMMA AnsweredType ==
  ASSUME NEW k \in LockRecord, k.count > 0
  PROVE  Answered(k) \in LockRecord
<1>1. CASE k.count = 1
  BY <1>1 DEF LockRecord, NoLock, Answered
<1>2. CASE k.count # 1
  <2>1. Answered(k) = [k EXCEPT !.count = k.count - 1]
    BY <1>2 DEF Answered
  <2>2. k.count - 1 \in Nat
    BY DEF LockRecord
  <2> QED
    BY <2>1, <2>2 DEF LockRecord
<1> QED
  BY <1>1, <1>2

(* lock_completed keeps the invariant: when it erases the last outstanding
   lock of a range, it wakes the threads waiting on the range. *)
LEMMA LockCompletedStep == PInv /\ lock_completed => PInv'
<1> SUFFICES ASSUME PInv, lock_completed PROVE PInv'
  OBVIOUS
<1> DEFINE m == Head(port)
           r == m.range
           c == m.client
           old == outstanding_locks[r][c]
           last == old.count = 1
           L == [outstanding_locks EXCEPT ![r][c] = Answered(@)]
           p == r[1]
<1>1. /\ m \in ToPager /\ m.op = "lock_completed" /\ port' \in Seq(ToPager)
      /\ alive' = alive /\ right' = right /\ Running /\ worker.pc = "idle"
  BY ReceiveType DEF lock_completed, PInv
<1>2. c \in Port /\ r \in PageRange /\ p \in Page
  BY <1>1, ToPagerFields, PageFacts
<1>3. old \in LockRecord /\ outstanding_locks \in LocksType
  BY <1>2 DEF PInv, PagerTypeOK, LocksType
<1>4. CASE old.count = 0
  <2>1. Abort("lock_completed")
    BY <1>4 DEF lock_completed
  <2> QED
    BY <1>1, <2>1, IgnoreStep DEF Assertions
<1>5. CASE old.count > 0
  <2>0. old.count # 0
    BY <1>3, <1>5 DEF LockRecord
  <2>1. Answered(old) \in LockRecord
    <3> HIDE DEF old
    <3> QED
      BY <1>3, <1>5, AnsweredType
  <2>2. L \in LocksType
    <3> HIDE DEF m
    <3> QED
      BY <1>2, <1>3, <2>1 DEF LocksType
  <2>3. CASE ~ (last /\ old.internal /\ ~ terminating)
    <3>1. /\ outstanding_locks' = L /\ NotifyLocks(L)
          /\ UNCHANGED <<Rest, pagemap, NEXTERROR, worker, ctl>>
      BY <1>5, <2>0, <2>3 DEF lock_completed
    <3>2. worker' \in Worker /\ worker'.pc = "idle" /\ pagemap' \in [Page -> pagemap_entry]
      BY <1>1, <3>1 DEF PInv, PagerTypeOK
    <3> HIDE DEF L
    <3> QED
      BY <1>1, <2>2, <3>1, <3>2, NotifyStep DEF Rest, PInv, PagerTypeOK
  <2>4. CASE last /\ old.internal /\ ~ terminating /\ pagemap[p].WRITE_ACCESS_GRANTED
    <3>1. Abort("ilc_WAG")
      BY <1>5, <2>0, <2>4 DEF lock_completed
    <3> QED
      BY <1>1, <3>1, IgnoreStep DEF Assertions
  <2>5. CASE last /\ old.internal /\ ~ terminating /\ ~ pagemap[p].WRITE_ACCESS_GRANTED
    <3>1. /\ CompleteInternalLock(pagemap[p], c, p, L, Idle) /\ NotifyLocks(L)
          /\ UNCHANGED Rest
      BY <1>5, <2>0, <2>5 DEF lock_completed
    <3> HIDE DEF L, p, c
    <3> QED
      BY <1>1, <1>2, <2>2, <3>1, IdleType, CompleteLockStep
  <2> QED
    BY <2>3, <2>4, <2>5
<1>6. old.count = 0 \/ old.count > 0
  BY <1>3 DEF LockRecord
<1> QED
  BY <1>4, <1>5, <1>6

(* The first part of drop_client, which only moves the worker, keeps the
   invariant. *)
LEMMA StartDropStep ==
  ASSUME PInv, NEW op, start_drop(op)
  PROVE  PInv'
<1> DEFINE K == {r \in PageRange : Outstanding(outstanding_locks, r)}
<1>1. /\ Head(port) \in ToPager /\ port' \in Seq(ToPager)
      /\ alive' = alive /\ right' = right /\ Running /\ worker.pc = "idle"
  BY ReceiveType DEF start_drop, PInv
<1>2. Head(port).client \in Port
  BY <1>1, ToPagerFields
<1>3. FirstKey(K) \in PageRange \cup {EndOfLocks}
  BY FirstKeyType
<1>4. /\ worker' = [Idle EXCEPT !.pc = "drop", !.control = Head(port).client, !.it = FirstKey(K)]
      /\ UNCHANGED <<Rest, pagemap, NEXTERROR, outstanding_locks, thread, ctl>>
  BY DEF start_drop
<1> HIDE DEF K
<1>5. worker' \in Worker /\ worker'.pc = "drop"
  BY <1>2, <1>3, <1>4, IdleType DEF Worker
<1> USE DEF PInv
<1>6. PortTypeOK' /\ PagerTypeOK'
  BY <1>1, <1>4, <1>5 DEF PortTypeOK, PagerTypeOK, Rest
<1>7. NoLostWakeup' /\ WaitlistHeld' /\ PagingOut'
  BY <1>1, <1>4, <1>5 DEF NoLostWakeup, Outstanding, WaitlistHeld, PagingOut, Running, Rest
<1> QED
  BY <1>6, <1>7

(* Erasing the locks of a dropped client leaves a table of lock records. *)
LEMMA EraseLocksType ==
  ASSUME PagerTypeOK, NEW K
  PROVE  EraseLocks(K) \in LocksType
<1>1. outstanding_locks \in LocksType /\ worker.control \in Port /\ NoLock \in LockRecord
  BY DEF PagerTypeOK, LocksType, Worker, NoLock, LockRecord
<1> QED
  BY <1>1 DEF EraseLocks, LocksType

(* Dropping a client's outstanding locks keeps the invariant: the threads
   that waited for that client alone are woken. *)
LEMMA DropLocksStep == PInv /\ drop_locks => PInv'
<1> SUFFICES ASSUME PInv, drop_locks PROVE PInv'
  OBVIOUS
<1> DEFINE r == InternalAhead
           L == EraseLocks({k \in KeysAhead : ~ Before(r, k)})
           it == FirstKey({k \in KeysAhead : Before(r, k)})
           next == [worker EXCEPT !.it = it]
           p == r[1]
<1>1. Running /\ worker.pc = "drop" /\ r # EndOfLocks
      /\ port' \in Seq(ToPager) /\ UNCHANGED <<alive, right>>
  BY DEF drop_locks, PInv, PortTypeOK
<1>2. r \in PageRange
  <2>1. {k \in KeysAhead : outstanding_locks[k][worker.control].internal} \subseteq PageRange
    BY DEF KeysAhead
  <2> QED
    BY <1>1, <2>1, FirstKeyType DEF InternalAhead
<1>3. p \in Page
  BY <1>2, PageFacts
<1>4. L \in LocksType
  BY EraseLocksType DEF PInv
<1>5. it \in PageRange \cup {EndOfLocks}
  <2>1. {k \in KeysAhead : Before(r, k)} \subseteq PageRange
    BY DEF KeysAhead
  <2> QED
    BY <2>1, FirstKeyType
<1> HIDE DEF it
<1>6. next \in Worker /\ next.pc = "drop"
  BY <1>1, <1>5 DEF PInv, PagerTypeOK, Worker
<1>7. CASE terminating
  <2>1. /\ outstanding_locks' = L /\ worker' = next /\ NotifyLocks(L)
        /\ UNCHANGED <<pagemap, NEXTERROR, ctl, Rest>>
    BY <1>7 DEF drop_locks, it
  <2>2. pagemap' \in [Page -> pagemap_entry] /\ clients' \subseteq Port
    BY <2>1 DEF PInv, PagerTypeOK, Rest
  <2> HIDE DEF L, next
  <2> QED
    BY <1>1, <1>4, <1>6, <2>1, <2>2, NotifyStep DEF Rest
<1>8. CASE ~ terminating /\ pagemap[p].WRITE_ACCESS_GRANTED
  <2>1. Abort("ilc_WAG")
    BY <1>8 DEF drop_locks
  <2> QED
    BY <1>1, <2>1, IgnoreStep DEF Assertions
<1>9. CASE ~ terminating /\ ~ pagemap[p].WRITE_ACCESS_GRANTED
  <2> DEFINE next1 == [next EXCEPT !.pc = "relock", !.then = "drop"]
  <2>1. /\ CompleteInternalLock(pagemap[p], worker.control, p, L, next1)
        /\ NotifyLocks(L) /\ UNCHANGED Rest
    BY <1>9 DEF drop_locks, it
  <2> HIDE DEF next, L, p
  <2>2. next1 \in Worker /\ next1.pc = "relock"
    BY <1>6 DEF Worker
  <2> HIDE DEF next1
  <2> QED
    BY <1>1, <1>3, <1>4, <2>1, <2>2, CompleteLockStep
<1> QED
  BY <1>7, <1>8, <1>9

(* Taking a dropped client off the pages keeps the invariant. *)
LEMMA DropPagesStep == PInv /\ drop_pages => PInv'
<1> SUFFICES ASSUME PInv, drop_pages PROVE PInv'
  OBVIOUS
<1> DEFINE L == EraseLocks(KeysAhead)
           c == worker.control
           gone(p) == remove_client_from_ACCESSLIST(pagemap[p], c)
<1>1. L \in LocksType
  BY EraseLocksType DEF PInv
<1>2. /\ outstanding_locks' = L /\ NotifyLocks(L) /\ clients' = clients \ {c}
      /\ worker' = Idle /\ worker.pc = "drop"
      /\ UNCHANGED <<WRITEWAIT, NEXTERROR, terminating, store, aborted, portVars>>
  BY DEF drop_pages
<1>3. pagemap' = [p \in Page |-> IF is_client_on_ACCESSLIST(pagemap[p], c)
                                THEN [gone(p) EXCEPT !.WRITE_ACCESS_GRANTED = FALSE]
                                ELSE pagemap[p]]
  BY DEF drop_pages
<1>4. \A p \in Page : /\ pagemap[p] \in pagemap_entry
                      /\ gone(p) \in pagemap_entry
                      /\ gone(p).PAGINGOUT = pagemap[p].PAGINGOUT
  BY RemoveFromAccesslist DEF PInv, PagerTypeOK
<1> HIDE DEF gone
<1>5. \A p \in Page :
        /\ [gone(p) EXCEPT !.WRITE_ACCESS_GRANTED = FALSE] \in pagemap_entry
        /\ [gone(p) EXCEPT !.WRITE_ACCESS_GRANTED = FALSE].PAGINGOUT = pagemap[p].PAGINGOUT
  BY <1>4 DEF pagemap_entry
<1>6. /\ pagemap' \in [Page -> pagemap_entry]
      /\ \A p \in Page : pagemap'[p].PAGINGOUT = pagemap[p].PAGINGOUT
  BY <1>3, <1>4, <1>5
<1>7. clients' \subseteq Port /\ port' \in Seq(ToPager) /\ UNCHANGED <<ctl, alive, right>>
  BY <1>2 DEF PInv, PagerTypeOK, PortTypeOK, portVars
<1>8. worker' \in Worker /\ worker'.pc = "idle"
  BY <1>2, IdleType
<1> HIDE DEF L
<1> QED
  BY <1>1, <1>2, <1>6, <1>7, <1>8, NotifyStep

(* The worker moves on and nothing else does. *)
LEMMA WorkerMoves == PInv /\ (drop_relock \/ finish_notify) => PInv'
<1> SUFFICES ASSUME PInv, drop_relock \/ finish_notify PROVE PInv'
  OBVIOUS
<1>0. PortTypeOK /\ PagerTypeOK /\ NoLostWakeup /\ WaitlistHeld /\ PagingOut
  BY DEF PInv
<1>1. /\ worker.pc \in {"relock", "notify"}
      /\ UNCHANGED <<Rest, pagemap, NEXTERROR, outstanding_locks, thread, portVars>>
  BY DEF drop_relock, finish_notify
<1>2. worker' \in Worker /\ worker'.pc \in {"idle", "drop"}
  <2>1. CASE drop_relock
    <3>1. worker \in Worker /\ worker' = [worker EXCEPT !.pc = "drop"]
      BY <1>0, <2>1 DEF drop_relock, PagerTypeOK
    <3> QED
      BY <3>1 DEF Worker
  <2>2. CASE finish_notify
    BY <2>2, IdleType DEF finish_notify
  <2> QED
    BY <2>1, <2>2
<1>3. UNCHANGED Rest /\ UNCHANGED <<pagemap, NEXTERROR, outstanding_locks, thread, portVars>>
  BY <1>1
<1>4. PortTypeOK'
  BY <1>0, <1>3 DEF PortTypeOK, portVars
<1>5. PagerTypeOK'
  BY <1>0, <1>2, <1>3 DEF PagerTypeOK, Rest
<1>6. NoLostWakeup'
  BY <1>0, <1>1, <1>2, <1>3 DEF NoLostWakeup, Outstanding, Running, Rest
<1>7. WaitlistHeld'
  BY <1>0, <1>1, <1>2, <1>3 DEF WaitlistHeld, Running, Rest
<1>8. PagingOut'
  BY <1>0, <1>1, <1>2, <1>3 DEF PagingOut, Running, Rest
<1> QED
  BY <1>4, <1>5, <1>6, <1>7, <1>8 DEF PInv

----------------------------------------------------------------------------
(* Pages that come back, and their writes. *)
LEMMA NextErrorsWithoutType ==
  ASSUME PagerTypeOK, NEW p \in Page
  PROVE  NextErrorsWithout(p) \in NEXTERROR_list
<1>1. <<>> \in Seq(kern_return_t)
  BY EmptySeq
<1> QED
  BY <1>1 DEF PagerTypeOK, NextErrorsWithout, NEXTERROR_list

(* Clearing a page's error leaves a table of entries. *)
LEMMA ClearedErrorsType ==
  ASSUME NEW e \in pagemap_entry
  PROVE  ClearedErrors(e) \in pagemap_entry /\ ClearedErrors(e).PAGINGOUT = e.PAGINGOUT
BY DEF ClearedErrors, pagemap_entry, kern_return_t

(* data_return keeps the invariant: PAGINGOUT is set for exactly the page
   that goes to WRITEWAIT. *)
LEMMA DataReturnStep == PInv /\ data_return => PInv'
<1> SUFFICES ASSUME PInv, data_return PROVE PInv'
  OBVIOUS
<1> DEFINE m == Head(port)
           p == m.page
           e == EntryForReturn(m)
           serve == GivenUp(m) /\ e.ACCESSLIST = {} /\ e.WAITLIST # <<>>
           do_unlock == /\ GivenUp(m) /\ ~ terminating
                        /\ FirstWaiterAloneHasPage(e) /\ ~ e.WRITE_ACCESS_GRANTED
           do_notify == /\ GivenUp(m) /\ ~ m.dirty
                        /\ e.ACCESSLIST = {} /\ e.WAITLIST = <<>>
           effect == IF serve THEN service_WAITLIST(e, p, m.data, TRUE, terminating)
                     ELSE Only(IF do_notify THEN ClearedErrors(e) ELSE e)
           effect1 == [effect EXCEPT !.entry.PAGINGOUT = @ \/ m.dirty]
           N == IF do_notify THEN NextErrorsWithout(p) ELSE NEXTERROR
           w == [page |-> p, data |-> m.data, kcopy |-> m.kcopy]
<1>1. /\ m \in ToPager /\ m.op = "data_return" /\ port' \in Seq(ToPager)
      /\ alive' = alive /\ right' = right /\ Running /\ worker.pc = "idle"
  BY ReceiveType DEF data_return, PInv
<1>2. /\ m.client \in Port /\ p \in Page /\ m.data \in Data
      /\ m.dirty \in BOOLEAN /\ m.kcopy \in BOOLEAN
  BY <1>1, ToPagerFields
<1>3. /\ pagemap[p] \in pagemap_entry /\ terminating \in BOOLEAN
      /\ WRITEWAIT = <<>> /\ \A q \in Page : ~ pagemap[q].PAGINGOUT
  BY <1>1, <1>2 DEF PInv, PagerTypeOK, PagingOut
<1>4. e \in pagemap_entry /\ e.PAGINGOUT = FALSE
  <2>1. pagemap[p].PAGINGOUT = FALSE
    BY <1>2, <1>3 DEF pagemap_entry
  <2> QED
    BY <1>3, <2>1, RemoveFromAccesslist DEF EntryForReturn
<1>5. CASE do_unlock /\ m.dirty
  <2>1. Abort("return_DIRTY")
    BY <1>5 DEF data_return
  <2> QED
    BY <1>1, <2>1, IgnoreStep DEF Assertions
<1>6. CASE ~ (do_unlock /\ m.dirty)
  <2>1. /\ Commit(p, effect1, outstanding_locks, N)
        /\ WRITEWAIT' = IF m.dirty THEN Append(WRITEWAIT, w) ELSE WRITEWAIT
        /\ \/ do_unlock /\ \E garbage \in BOOLEAN :
                 worker' = [Do("unlock", p) EXCEPT !.notify = garbage]
           \/ do_notify /\ worker' = [Do("notify", p) EXCEPT !.notify = TRUE]
           \/ m.dirty /\ worker' = IF WRITEWAIT = <<>> THEN Do("write", p) ELSE Idle
           \/ ~ (do_unlock \/ do_notify \/ m.dirty) /\ worker' = Idle
        /\ UNCHANGED <<clients, terminating, thread, store, aborted>>
    BY <1>6 DEF data_return
  <2>2. do_unlock => ~ m.dirty /\ e.WAITLIST # <<>> /\ effect = Only(e)
    BY <1>6 DEF FirstWaiterAloneHasPage
  <2>3. do_notify => ~ m.dirty
    OBVIOUS
  <2> HIDE DEF e, m, do_unlock, do_notify
  <2>4. effect \in Effect /\ effect.entry.PAGINGOUT = FALSE
    <3>1. CASE serve
      <4>1. e.WAITLIST # <<>> /\ effect = service_WAITLIST(e, p, m.data, TRUE, terminating)
        BY <3>1
      <4>2. e \in pagemap_entry /\ p \in Page /\ m.data \in Data /\ terminating \in BOOLEAN
        BY <1>2, <1>3, <1>4
      <4> HIDE DEF effect, effect1, serve, p, N, w
      <4>3. /\ service_WAITLIST(e, p, m.data, TRUE, terminating) \in Effect
            /\ service_WAITLIST(e, p, m.data, TRUE, terminating).entry.PAGINGOUT = e.PAGINGOUT
        BY <4>1, <4>2, ServiceType
      <4> QED
        BY <1>4, <4>1, <4>3
    <3>2. CASE ~ serve
      BY <1>4, <3>2, ClearedErrorsType, OnlyType
    <3> QED
      BY <3>1, <3>2
  <2> HIDE DEF effect
  <2>5. /\ effect1 \in Effect /\ effect1.entry.PAGINGOUT = m.dirty
        /\ effect1.entry.WAITLIST = effect.entry.WAITLIST
    BY <1>2, <2>4 DEF Effect, pagemap_entry
  <2>6. do_unlock => effect1.entry.WAITLIST # <<>>
    BY <1>4, <2>2, <2>5, OnlyType
  <2>7. N \in NEXTERROR_list /\ outstanding_locks \in LocksType
    BY <1>2, NextErrorsWithoutType DEF PInv, PagerTypeOK, LocksType
  <2> HIDE DEF effect1, N
  <2>8. /\ pagemap' = [pagemap EXCEPT ![p] = effect1.entry]
        /\ pagemap' \in [Page -> pagemap_entry]
        /\ NEXTERROR' \in NEXTERROR_list
        /\ outstanding_locks' \in LocksType
        /\ ctl' \in [Port -> Seq(ToKernel)]
        /\ \A r \in PageRange : Outstanding(outstanding_locks, r) => Outstanding(outstanding_locks', r)
    BY <1>2, <2>1, <2>5, <2>7, CommitType DEF PInv
  <2>9. /\ worker' \in Worker
        /\ worker'.pc \in {"idle", "unlock", "notify", "write"}
        /\ worker'.pc = "unlock" => do_unlock
        /\ worker'.pc = "write" <=> m.dirty
        /\ worker'.pc # "idle" => worker'.page = p
    <3>1. CASE do_unlock
      <4>1. PICK garbage \in BOOLEAN : worker' = [Do("unlock", p) EXCEPT !.notify = garbage]
        BY <2>1, <2>2, <3>1 DEF do_notify, do_unlock, FirstWaiterAloneHasPage
      <4> QED
        BY <1>2, <2>2, <3>1, <4>1, DoType DEF Worker
    <3>2. CASE do_notify
      <4>1. worker' = [Do("notify", p) EXCEPT !.notify = TRUE]
        BY <2>1, <2>3, <3>2 DEF do_notify, do_unlock, FirstWaiterAloneHasPage
      <4>2. /\ Do("notify", p) \in Worker /\ Do("notify", p).pc = "notify"
            /\ Do("notify", p).page = p
        BY <1>2, DoType
      <4>3. worker' \in Worker /\ worker'.pc = "notify" /\ worker'.page = p
        BY <4>1, <4>2 DEF Worker
      <4> QED
        BY <1>2, <2>3, <3>2, <4>3
    <3>3. CASE m.dirty
      BY <1>2, <1>3, <2>1, <2>2, <2>3, <3>3, DoType
    <3>4. CASE ~ (do_unlock \/ do_notify \/ m.dirty)
      BY <1>2, <2>1, <3>4, IdleType
    <3> QED
      BY <3>1, <3>2, <3>3, <3>4
  <2>10. /\ WRITEWAIT' \in Seq(WRITEWAIT_entry)
         /\ m.dirty => Len(WRITEWAIT') = 1 /\ WRITEWAIT'[1].page = p
         /\ ~ m.dirty => WRITEWAIT' = <<>>
    <3>1. w \in WRITEWAIT_entry /\ w.page = p
      BY <1>2 DEF WRITEWAIT_entry
    <3> HIDE DEF w
    <3> QED
      BY <1>2, <1>3, <2>1, <3>1
  <2>11. PortTypeOK'
    BY <1>1, <2>8 DEF PInv, PortTypeOK
  <2>12. PagerTypeOK'
    BY <2>1, <2>8, <2>9, <2>10 DEF PInv, PagerTypeOK, LocksType
  <2>13. NoLostWakeup'
    BY <2>1, <2>8, CallRange DEF PInv, NoLostWakeup
  <2>14. WaitlistHeld'
    BY <1>2, <2>6, <2>8, <2>9 DEF PInv, WaitlistHeld, PagerTypeOK
  <2>15. PagingOut'
    <3>1. \A q \in Page : pagemap'[q].PAGINGOUT <=> m.dirty /\ q = p
      BY <1>2, <1>3, <2>5, <2>8 DEF PInv, PagerTypeOK
    <3> QED
      BY <1>2, <2>9, <2>10, <3>1 DEF PagingOut
  <2> QED
    BY <2>11, <2>12, <2>13, <2>14, <2>15 DEF PInv
<1> QED
  BY <1>5, <1>6

(* A sequence of one element is not empty. *)
LEMMA OneElement ==
  ASSUME NEW q, Len(q) = 1
  PROVE  q # <<>>
<1>1. Len(<<>>) = 0 /\ 0 # 1
  OBVIOUS
<1> QED
  BY <1>1, Zenon

(* The end of a write: the only entry goes, the threads that wait for it   *)
(* are woken.                                                              *)
LEMMA PopType ==
  ASSUME PInv, Running, worker.pc \in {"write", "evict"}, PopWRITEWAIT
  PROVE  /\ WRITEWAIT' = <<>> /\ worker' = Idle
         /\ thread' \in [Thread -> ThreadState]
         /\ \A t \in Thread : thread'[t].at = "locks" =>
              thread[t].at = "locks" /\ thread'[t].call = thread[t].call
<1>1. WRITEWAIT \in Seq(WRITEWAIT_entry) /\ Len(WRITEWAIT) = 1
  BY DEF PInv, PagerTypeOK, PagingOut
<1>2. Tail(WRITEWAIT) = <<>>
  <2>0. WRITEWAIT # <<>>
    BY <1>1, OneElement
  <2>1. Tail(WRITEWAIT) \in Seq(WRITEWAIT_entry) /\ Len(Tail(WRITEWAIT)) = 0
    BY <1>1, <2>0, HeadTailProperties
  <2> QED
    BY <2>1, EmptySeq
<1>3. WRITEWAIT' = <<>> /\ worker' = Idle
  BY <1>1, <1>2 DEF PopWRITEWAIT
<1>4. /\ thread' \in [Thread -> ThreadState]
      /\ \A t \in Thread : thread'[t].at = "locks" =>
           thread[t].at = "locks" /\ thread'[t].call = thread[t].call
  BY DEF PopWRITEWAIT, PInv, PagerTypeOK, ThreadState
<1> QED
  BY <1>3, <1>4

(* The end of service_first_WRITEWAIT_entry after the eviction notice keeps
   the invariant. *)
LEMMA FinishEvictStep == PInv /\ finish_evict => PInv'
<1> SUFFICES ASSUME PInv, finish_evict PROVE PInv'
  OBVIOUS
<1>1. /\ Running /\ worker.pc = "evict" /\ PopWRITEWAIT
      /\ UNCHANGED <<pagemap, clients, NEXTERROR, outstanding_locks, terminating, store,
                     aborted, portVars>>
  BY DEF finish_evict
<1>2. /\ WRITEWAIT' = <<>> /\ worker' = Idle
      /\ thread' \in [Thread -> ThreadState]
      /\ \A t \in Thread : thread'[t].at = "locks" =>
           thread[t].at = "locks" /\ thread'[t].call = thread[t].call
  BY <1>1, PopType
<1> USE DEF PInv
<1>3. PortTypeOK' /\ PagerTypeOK'
  BY <1>1, <1>2, IdleType, EmptySeq DEF PortTypeOK, PagerTypeOK, portVars
<1>4. NoLostWakeup'
  BY <1>1, <1>2 DEF NoLostWakeup, Outstanding
<1>5. WaitlistHeld' /\ PagingOut'
  BY <1>1, <1>2, IdleType DEF WaitlistHeld, PagingOut, Running
<1> QED
  BY <1>3, <1>4, <1>5

(* A page that has been written is an entry with PAGINGOUT clear. *)
LEMMA WrittenType ==
  ASSUME NEW e \in pagemap_entry, NEW err \in kern_return_t
  PROVE  Written(e, err) \in pagemap_entry /\ Written(e, err).PAGINGOUT = FALSE
BY DEF Written, pagemap_entry

(* The end of a page-out keeps the invariant: PAGINGOUT is cleared whether
   the write worked or failed. *)
LEMMA FinishWriteStep == PInv /\ finish_write => PInv'
<1> SUFFICES ASSUME PInv, finish_write PROVE PInv'
  OBVIOUS
<1> DEFINE current == WRITEWAIT[1]
           p == current.page
<1>1. /\ Running /\ worker.pc = "write"
      /\ UNCHANGED <<clients, terminating, aborted, port, alive, right>>
  BY DEF finish_write
<1>2. /\ WRITEWAIT \in Seq(WRITEWAIT_entry) /\ Len(WRITEWAIT) = 1 /\ p = worker.page
      /\ \A q \in Page : pagemap[q].PAGINGOUT <=> q = p
  BY <1>1 DEF PInv, PagerTypeOK, PagingOut
<1>3. current \in WRITEWAIT_entry
  <2>1. 1 \in 1 .. Len(WRITEWAIT)
    BY <1>2
  <2> QED
    BY <1>2, <2>1, ElementOfSeq
<1>4. p \in Page /\ current.data \in Data /\ pagemap[p] \in pagemap_entry
      /\ terminating \in BOOLEAN
  BY <1>3 DEF WRITEWAIT_entry, PInv, PagerTypeOK
<1>5. PICK err \in kern_return_t :
        LET ok == err = KERN_SUCCESS
            e == Written(pagemap[p], err)
            serve == GivenUp(current) /\ e.WAITLIST # <<>>
            do_notify == GivenUp(current) /\ e.WAITLIST = <<>>
        IN /\ store' = [store EXCEPT ![p] = [data |-> IF ok THEN current.data ELSE @.data,
                                             ok |-> ok]]
           /\ Commit(p, IF serve THEN service_WAITLIST(e, p, current.data, TRUE, terminating)
                        ELSE Only(IF do_notify THEN ClearedErrors(e) ELSE e),
                     outstanding_locks,
                     IF do_notify THEN NextErrorsWithout(p) ELSE NEXTERROR)
           /\ IF NOTIFY_ON_EVICT /\ do_notify
              THEN /\ worker' = [Do("evict", p) EXCEPT !.notify = TRUE]
                   /\ UNCHANGED <<WRITEWAIT, thread>>
              ELSE PopWRITEWAIT
  BY DEF finish_write
<1> DEFINE ok == err = KERN_SUCCESS
           e == Written(pagemap[p], err)
           serve == GivenUp(current) /\ e.WAITLIST # <<>>
           do_notify == GivenUp(current) /\ e.WAITLIST = <<>>
           effect == IF serve THEN service_WAITLIST(e, p, current.data, TRUE, terminating)
                     ELSE Only(IF do_notify THEN ClearedErrors(e) ELSE e)
           N == IF do_notify THEN NextErrorsWithout(p) ELSE NEXTERROR
           kept == store[p].data
<1>6. /\ store' = [store EXCEPT ![p] = [data |-> IF ok THEN current.data ELSE kept, ok |-> ok]]
      /\ Commit(p, effect, outstanding_locks, N)
      /\ \/ /\ worker' = [Do("evict", p) EXCEPT !.notify = TRUE]
            /\ UNCHANGED <<WRITEWAIT, thread>>
         \/ PopWRITEWAIT
  BY <1>4, <1>5 DEF PInv, PagerTypeOK
<1> HIDE DEF current
<1>7. e \in pagemap_entry /\ e.PAGINGOUT = FALSE
  BY <1>4, WrittenType
<1> HIDE DEF e
<1>8. effect \in Effect /\ effect.entry.PAGINGOUT = FALSE
  <2>1. CASE serve
    <3>1. e.WAITLIST # <<>> /\ effect = service_WAITLIST(e, p, current.data, TRUE, terminating)
      BY <2>1
    <3> HIDE DEF effect
    <3>2. /\ service_WAITLIST(e, p, current.data, TRUE, terminating) \in Effect
          /\ service_WAITLIST(e, p, current.data, TRUE, terminating).entry.PAGINGOUT = e.PAGINGOUT
      BY <1>4, <1>7, <3>1, ServiceType
    <3> QED
      BY <1>7, <3>1, <3>2
  <2>2. CASE ~ serve
    BY <1>7, <2>2, ClearedErrorsType, OnlyType
  <2> QED
    BY <2>1, <2>2
<1>9. N \in NEXTERROR_list /\ outstanding_locks \in LocksType
  BY <1>4, NextErrorsWithoutType DEF PInv, PagerTypeOK, LocksType
<1> HIDE DEF effect, N
<1>10. /\ pagemap' = [pagemap EXCEPT ![p] = effect.entry]
       /\ pagemap' \in [Page -> pagemap_entry]
       /\ NEXTERROR' \in NEXTERROR_list
       /\ outstanding_locks' \in LocksType
       /\ ctl' \in [Port -> Seq(ToKernel)]
       /\ \A r \in PageRange : Outstanding(outstanding_locks, r) => Outstanding(outstanding_locks', r)
  BY <1>4, <1>6, <1>8, <1>9, CommitType DEF PInv
<1>11. \A q \in Page : pagemap'[q].PAGINGOUT = FALSE
  BY <1>2, <1>4, <1>8, <1>10 DEF PInv, PagerTypeOK, pagemap_entry
<1>12. store' \in [Page -> [data : Data, ok : BOOLEAN]]
  <2>1. store \in [Page -> [data : Data, ok : BOOLEAN]]
    BY DEF PInv, PagerTypeOK
  <2>2. [data |-> IF ok THEN current.data ELSE kept, ok |-> ok] \in [data : Data, ok : BOOLEAN]
    BY <1>4, <2>1
  <2> HIDE DEF ok, kept
  <2> QED
    BY <1>6, <2>1, <2>2
<1>13. /\ worker' \in Worker /\ worker'.pc \in {"idle", "evict"}
       /\ worker'.pc = "evict" => worker'.page = p /\ WRITEWAIT' = WRITEWAIT
       /\ worker'.pc = "idle" => WRITEWAIT' = <<>>
       /\ WRITEWAIT' \in Seq(WRITEWAIT_entry)
       /\ thread' \in [Thread -> ThreadState]
       /\ \A t \in Thread : thread'[t].at = "locks" =>
            thread[t].at = "locks" /\ thread'[t].call = thread[t].call
  <2>1. CASE PopWRITEWAIT
    BY <1>1, <2>1, PopType, IdleType, EmptySeq
  <2>2. CASE worker' = [Do("evict", p) EXCEPT !.notify = TRUE] /\ UNCHANGED <<WRITEWAIT, thread>>
    <3>1. Do("evict", p) \in Worker /\ Do("evict", p).pc = "evict" /\ Do("evict", p).page = p
      BY <1>4, DoType
    <3>2. worker' \in Worker /\ worker'.pc = "evict" /\ worker'.page = p
      BY <2>2, <3>1 DEF Worker
    <3> QED
      BY <1>2, <2>2, <3>2 DEF PInv, PagerTypeOK
  <2> QED
    BY <1>6, <2>1, <2>2
<1>14. PortTypeOK'
  BY <1>1, <1>10 DEF PInv, PortTypeOK
<1>15. PagerTypeOK'
  BY <1>1, <1>10, <1>12, <1>13 DEF PInv, PagerTypeOK, LocksType
<1>16. NoLostWakeup'
  BY <1>10, <1>13, CallRange DEF PInv, NoLostWakeup
<1>17. WaitlistHeld' /\ PagingOut'
  BY <1>2, <1>11, <1>13 DEF WaitlistHeld, PagingOut, current
<1> QED
  BY <1>14, <1>15, <1>16, <1>17 DEF PInv

----------------------------------------------------------------------------
(* The translator's threads. *)
LEMMA LeaveType ==
  ASSUME PagerTypeOK, NEW t \in Thread, Leave(t)
  PROVE  /\ thread' \in [Thread -> ThreadState]
         /\ \A u \in Thread : thread'[u].at = "locks" =>
              thread[u].at = "locks" /\ thread'[u].call = thread[u].call
BY DEF PagerTypeOK, Leave, ThreadState

(* A thread moves, not into the first wait of lock_object, and nothing     *)
(* else does but the port.                                                 *)
LEMMA ThreadMoves ==
  ASSUME PInv, thread' \in [Thread -> ThreadState],
         \A u \in Thread : thread'[u].at = "locks" =>
           thread[u].at = "locks" /\ thread'[u].call = thread[u].call,
         terminating' \in BOOLEAN, PortTypeOK',
         UNCHANGED <<clients, WRITEWAIT, store, aborted, pagemap, NEXTERROR,
                     outstanding_locks, worker>>
  PROVE  PInv'
<1> USE DEF PInv
<1>1. PagerTypeOK'
  BY DEF PagerTypeOK
<1>2. NoLostWakeup'
  BY DEF NoLostWakeup, Outstanding
<1>3. WaitlistHeld' /\ PagingOut'
  BY DEF WaitlistHeld, PagingOut, Running
<1> QED
  BY <1>1, <1>2, <1>3

(* A step of a thread that leaves locks and pages alone keeps the
   invariant. *)
LEMMA ThreadStepQuiet ==
  ASSUME PInv, NEW t \in Thread,
         \/ shutdown(t) \/ await_writes(t) \/ leave_lock_object(t)
         \/ spurious_wakeup(t) \/ ports_destroy_right(t)
  PROVE  PInv'
<1> USE DEF PInv
<1>1. /\ thread' \in [Thread -> ThreadState]
      /\ \A u \in Thread : thread'[u].at = "locks" =>
           thread[u].at = "locks" /\ thread'[u].call = thread[u].call
  <2>1. CASE shutdown(t)
    BY <2>1 DEF shutdown, PagerTypeOK, ThreadState
  <2>2. CASE await_writes(t)
    <3>1. CASE Leave(t)
      BY <3>1, LeaveType
    <3>2. CASE thread' = [thread EXCEPT ![t].at = "written"]
      BY <3>2 DEF PagerTypeOK, ThreadState
    <3> QED
      BY <2>2, <3>1, <3>2 DEF await_writes
  <2>3. CASE leave_lock_object(t) \/ ports_destroy_right(t)
    BY <2>3, LeaveType DEF leave_lock_object, ports_destroy_right
  <2>4. CASE spurious_wakeup(t)
    BY <2>4 DEF spurious_wakeup, PagerTypeOK, ThreadState
  <2> QED
    BY <2>1, <2>2, <2>3, <2>4
<1>2. terminating' \in BOOLEAN
  BY DEF shutdown, await_writes, leave_lock_object, spurious_wakeup, ports_destroy_right,
         Rest, PagerTypeOK
<1>3. PortTypeOK'
  BY EmptySeq DEF shutdown, await_writes, leave_lock_object, spurious_wakeup,
       ports_destroy_right, PortTypeOK, portVars
<1>4. UNCHANGED <<clients, WRITEWAIT, store, aborted, pagemap, NEXTERROR,
                  outstanding_locks, worker>>
  BY DEF shutdown, await_writes, leave_lock_object, spurious_wakeup, ports_destroy_right, Rest
<1> QED
  BY <1>1, <1>2, <1>3, <1>4, ThreadMoves

(* The clients that a call asks for their pages are ports. *)
LEMMA SignalledType ==
  ASSUME PagerTypeOK, NEW call
  PROVE  Signalled(call) \subseteq Port
BY DEF PagerTypeOK, Signalled, PagesIn, pagemap_entry

(* A lock record that is counted up once more. *)
LEMMA CountedLock ==
  ASSUME NEW old \in LockRecord
  PROVE  /\ [count |-> old.count + 1, internal |-> old.internal] \in LockRecord
         /\ old.count <= [count |-> old.count + 1, internal |-> old.internal].count
         /\ [count |-> old.count + 1, internal |-> old.internal].count > 0
BY DEF LockRecord

(* A lock record that stays as it is. *)
LEMMA SameCount ==
  ASSUME NEW old \in LockRecord
  PROVE  old.count <= old.count
BY DEF LockRecord

(* lock_object keeps the invariant: a thread that goes to wait has an
   outstanding lock to wait for. *)
LEMMA LockObjectStep ==
  ASSUME PInv, NEW t \in Thread, lock_object(t)
  PROVE  PInv'
<1> DEFINE call == thread[t].call
           r == call.range
           S == Signalled(call)
           request == LockRequest(r, RETURN(call), FLUSH(call), call.wait)
           mail == [c \in Port |-> IF c \in S THEN <<request>> ELSE <<>>]
<1>1. call \in CallType /\ r \in PageRange /\ call.wait \in BOOLEAN /\ S \subseteq Port
  BY CallRange, SignalledType DEF PInv, CallType
<1>2. request \in ToKernel
  <2>1. RETURN(call) \in BOOLEAN /\ FLUSH(call) \in BOOLEAN
    BY DEF RETURN, FLUSH
  <2> QED
    BY <1>1, <2>1, LockRequestType
<1>3. /\ Post(mail)
      /\ UNCHANGED <<pagemap, clients, WRITEWAIT, NEXTERROR, terminating, worker, store,
                     aborted, port, alive, right>>
  BY DEF lock_object
<1>4. ctl' \in [Port -> Seq(ToKernel)]
  <2> HIDE DEF request
  <2>1. <<request>> \in Seq(ToKernel) /\ <<>> \in Seq(ToKernel)
    BY <1>2, EmptySeq
  <2>2. mail \in [Port -> Seq(ToKernel)]
    BY <2>1
  <2> HIDE DEF mail
  <2> QED
    BY <1>3, <2>2, PostType DEF PInv
<1>5. PortTypeOK'
  BY <1>3, <1>4 DEF PInv, PortTypeOK
<1>6. CASE S # {} /\ call.wait
  <2>1. /\ outstanding_locks' = AddLocks(r, S)
        /\ thread' = [thread EXCEPT ![t].at = "locks"]
    BY <1>6 DEF lock_object
  <2>2. outstanding_locks \in LocksType
    BY DEF PInv, PagerTypeOK, LocksType
  <2> DEFINE record == [c \in Port |->
                          IF c \in S THEN [count |-> outstanding_locks[r][c].count + 1,
                                           internal |-> outstanding_locks[r][c].internal]
                          ELSE outstanding_locks[r][c]]
  <2>3. outstanding_locks' = [outstanding_locks EXCEPT ![r] = record]
    BY <1>1, <2>1, <2>2 DEF AddLocks, LocksType
  <2> HIDE DEF S, r
  <2>4. \A c \in Port : /\ record[c] \in LockRecord
                        /\ outstanding_locks[r][c].count <= record[c].count
                        /\ c \in S => record[c].count > 0
    <3> SUFFICES ASSUME NEW c \in Port
                 PROVE  /\ record[c] \in LockRecord
                        /\ outstanding_locks[r][c].count <= record[c].count
                        /\ c \in S => record[c].count > 0
      OBVIOUS
    <3> DEFINE old == outstanding_locks[r][c]
    <3>1. old \in LockRecord
      BY <1>1, <2>2 DEF LocksType
    <3>2. record[c] = IF c \in S THEN [count |-> old.count + 1, internal |-> old.internal] ELSE old
      OBVIOUS
    <3> HIDE DEF record, old
    <3>3. CASE c \in S
      BY <3>1, <3>2, <3>3, CountedLock DEF old
    <3>4. CASE c \notin S
      <4>1. record[c] = old
        BY <3>2, <3>4
      <4> QED
        BY <3>1, <3>4, <4>1, SameCount DEF old
    <3> QED
      BY <3>3, <3>4
  <2>5. record \in [Port -> LockRecord]
    BY <2>4
  <2> HIDE DEF record
  <2>6. outstanding_locks' \in LocksType
    BY <1>1, <2>2, <2>3, <2>5 DEF LocksType
  <2>7. Outstanding(outstanding_locks', r)
    BY <1>1, <1>6, <2>2, <2>3, <2>4 DEF Outstanding, LocksType
  <2>8. \A s \in PageRange : Outstanding(outstanding_locks, s) => Outstanding(outstanding_locks', s)
    <3>1. \A s \in PageRange, c \in Port :
            outstanding_locks[s][c].count <= outstanding_locks'[s][c].count
      BY <1>1, <2>2, <2>3, <2>4 DEF LocksType, LockRecord
    <3> QED
      BY <2>2, <2>6, <3>1, OutstandingMonotone
  <2>9. thread' \in [Thread -> ThreadState]
    BY <2>1 DEF PInv, PagerTypeOK, ThreadState
  <2>10. \A u \in Thread : /\ thread'[u].call = thread[u].call
                           /\ u # t => thread'[u].at = thread[u].at
    BY <2>1 DEF PInv, PagerTypeOK, ThreadState
  <2>11. PagerTypeOK'
    BY <1>3, <2>6, <2>9 DEF PInv, PagerTypeOK, LocksType
  <2>12. NoLostWakeup'
    BY <2>7, <2>8, <2>10, CallRange DEF PInv, NoLostWakeup, r
  <2>13. WaitlistHeld' /\ PagingOut'
    BY <1>3 DEF PInv, WaitlistHeld, PagingOut, Running
  <2> QED
    BY <1>5, <2>11, <2>12, <2>13 DEF PInv
<1>7. CASE ~ (S # {} /\ call.wait)
  <2>1. Leave(t) /\ UNCHANGED outstanding_locks
    BY <1>7 DEF lock_object
  <2>2. /\ thread' \in [Thread -> ThreadState]
        /\ \A u \in Thread : thread'[u].at = "locks" =>
             thread[u].at = "locks" /\ thread'[u].call = thread[u].call
    BY <2>1, LeaveType DEF PInv
  <2>3. terminating' \in BOOLEAN
    BY <1>3 DEF PInv, PagerTypeOK
  <2> QED
    BY <1>3, <1>5, <2>1, <2>2, <2>3, ThreadMoves
<1> QED
  BY <1>6, <1>7

----------------------------------------------------------------------------
(* The kernels. *)
LEMMA SendType ==
  ASSUME PortTypeOK, NEW ms \in Seq(ToPager), Send(ms)
  PROVE  port' \in Seq(ToPager)
BY ConcatProperties DEF PortTypeOK, Send

(* A message a kernel sends is queued on the memory object port. *)
LEMMA SendOneType ==
  ASSUME PortTypeOK, NEW m \in ToPager, Send(<<m>>)
  PROVE  port' \in Seq(ToPager)
<1>1. <<m>> \in Seq(ToPager)
  OBVIOUS
<1> QED
  BY <1>1, SendType

(* Clients' control ports, and the dead name, are ports. *)
LEMMA ClientIsPort == Client \subseteq Port /\ MACH_PORT_DEAD \in Port
BY DEF Port

(* The pages a kernel returns are messages to the pager. *)
LEMMA ReturnedType ==
  ASSUME KernelTypeOK, NEW c \in Client, NEW p \in Page, NEW keep \in BOOLEAN
  PROVE  Returned(c, p, keep) \in Seq(ToPager)
<1> DEFINE m == [op |-> "data_return", client |-> c, page |-> p, data |-> mem[c][p].data,
                 dirty |-> mem[c][p].dirty, kcopy |-> keep]
<1>1. mem[c][p].data \in Data /\ mem[c][p].dirty \in BOOLEAN
  BY DEF KernelTypeOK, Copy
<1>2. m \in ToPager
  BY <1>1, ClientIsPort DEF ToPager
<1> HIDE DEF m
<1>3. <<m>> \in Seq(ToPager) /\ <<>> \in Seq(ToPager)
  BY <1>2, EmptySeq
<1> QED
  BY <1>3 DEF Returned, m

(* A kernel that lets pages go keeps its view's type. *)
LEMMA DropType ==
  ASSUME KernelTypeOK, NEW c \in Client, NEW p \in Page, Drop(c, p)
  PROVE  /\ mem' \in [Client -> [Page -> Copy]]
         /\ asked' \in [Client -> [Page -> {"none", "data", "unlock"}]]
<1>1. NoCopy \in Copy
  BY DEF NoCopy, Copy, Data
<1> QED
  BY <1>1 DEF KernelTypeOK, Drop

(* After a kernel's death its messages in flight name MACH_PORT_DEAD and
   are still messages to the pager. *)
LEMMA DeadSender ==
  ASSUME NEW m \in ToPager
  PROVE  [m EXCEPT !.client = MACH_PORT_DEAD] \in ToPager
<1> USE ClientIsPort
<1>1. CASE m \in [op : {"object_init", "object_terminate", "dead_name"}, client : Port]
  BY <1>1 DEF ToPager
<1>2. CASE m \in [op : {"data_request"}, client : Port, page : Page, write : BOOLEAN]
  BY <1>2 DEF ToPager
<1>3. CASE m \in [op : {"data_unlock"}, client : Port, page : Page]
  BY <1>3 DEF ToPager
<1>4. CASE m \in [op : {"data_return"}, client : Port, page : Page, data : Data,
                  dirty : BOOLEAN, kcopy : BOOLEAN]
  BY <1>4 DEF ToPager
<1>5. CASE m \in [op : {"lock_completed"}, client : Port, range : PageRange]
  BY <1>5 DEF ToPager
<1> QED
  BY <1>1, <1>2, <1>3, <1>4, <1>5 DEF ToPager

(* The first message on a control port is a message to a kernel. *)
LEMMA ControlMessage ==
  ASSUME PortTypeOK, NEW c \in Client, NEW op, Next1(c, op)
  PROVE  /\ c \in Port /\ Head(ctl[c]) \in ToKernel /\ Head(ctl[c]).op = op
         /\ ctl[c] \in Seq(ToKernel) /\ ctl[c] # <<>>
         /\ Done1(c) => ctl' \in [Port -> Seq(ToKernel)]
<1>1. c \in Port /\ ctl[c] \in Seq(ToKernel) /\ ctl[c] # <<>>
  BY ClientIsPort DEF PortTypeOK, Next1
<1>2. Head(ctl[c]) \in ToKernel /\ Tail(ctl[c]) \in Seq(ToKernel)
  BY <1>1, HeadTailProperties
<1> QED
  BY <1>1, <1>2 DEF PortTypeOK, Next1, Done1

(* A page of a range that is not its last is followed by another. *)
LEMMA NextInRange ==
  ASSUME NEW r \in PageRange, NEW p \in PagesIn(r), p + 1 # r[1] + r[2]
  PROVE  p + 1 \in PagesIn(r)
<1>1. /\ r[1] \in Int /\ r[2] \in Int /\ r[1] + r[2] <= NPages
  BY NPagesAssumption DEF PageRange, Page
<1>2. p \in Int /\ r[1] <= p /\ p < r[1] + r[2] /\ 0 <= p
  BY NPagesAssumption DEF PagesIn, Page
<1>3. NPages \in Int
  BY NPagesAssumption
<1> QED
  BY <1>1, <1>2, <1>3 DEF PagesIn, Page

(* A kernel's answer to a lock request keeps the types of ports and kernels. *)
LEMMA LockStep ==
  ASSUME PortTypeOK, KernelTypeOK, NEW c \in Client, Lock(c)
  PROVE  PortTypeOK' /\ KernelTypeOK'
<1> DEFINE m == Head(ctl[c])
           p == m.next
           last == p + 1 = m.range[1] + m.range[2]
           returned == IF m.return THEN Returned(c, p, ~ m.flush) ELSE <<>>
           reply == IF last /\ m.reply
                    THEN <<[op |-> "lock_completed", client |-> c, range |-> m.range]>> ELSE <<>>
<1>1. /\ c \in Port /\ m \in ToKernel /\ m.op = "lock_request"
      /\ ctl[c] \in Seq(ToKernel) /\ ctl[c] # <<>>
      /\ Done1(c) => ctl' \in [Port -> Seq(ToKernel)]
  BY ControlMessage DEF Lock
<1>2. /\ m \in [op : {"lock_request"}, range : PageRange, return : BOOLEAN,
                 flush : BOOLEAN, reply : BOOLEAN, next : Page]
      /\ p \in PagesIn(m.range)
  BY <1>1, ToKernelFields
<1>3. p \in Page /\ m.range \in PageRange /\ m.flush \in BOOLEAN /\ m.return \in BOOLEAN
  BY <1>2
<1>4. port' \in Seq(ToPager)
  <2>1. Send(returned \o reply)
    BY DEF Lock
  <2>2. returned \in Seq(ToPager)
    <3>1. (~ m.flush) \in BOOLEAN /\ <<>> \in Seq(ToPager)
      BY EmptySeq
    <3> QED
      BY <1>3, <3>1, ReturnedType
  <2>3. reply \in Seq(ToPager)
    <3>1. [op |-> "lock_completed", client |-> c, range |-> m.range] \in ToPager
      BY <1>1, <1>3 DEF ToPager
    <3> QED
      BY <3>1, EmptySeq
  <2> HIDE DEF returned, reply
  <2>4. returned \o reply \in Seq(ToPager)
    BY <2>2, <2>3, ConcatProperties
  <2> QED
    BY <2>1, <2>4, SendType
<1>5. /\ mem' \in [Client -> [Page -> Copy]]
      /\ asked' \in [Client -> [Page -> {"none", "data", "unlock"}]]
  <2>1. CASE Drop(c, p)
    <3> HIDE DEF p
    <3> QED
      BY <1>3, <2>1, DropType
  <2>2. CASE mem' = [mem EXCEPT ![c][p].dirty = @ /\ ~ m.return] /\ UNCHANGED asked
    <3> HIDE DEF m
    <3> DEFINE k == mem[c][p]
               k1 == [k EXCEPT !.dirty = k.dirty /\ ~ m.return]
    <3>1. k \in Copy
      BY <1>3 DEF KernelTypeOK
    <3>2. mem' = [mem EXCEPT ![c] = [mem[c] EXCEPT ![p] = k1]]
      BY <2>2
    <3> HIDE DEF k
    <3>3. k1 \in Copy
      BY <3>1 DEF Copy
    <3> HIDE DEF k1
    <3> QED
      BY <1>3, <2>2, <3>2, <3>3 DEF KernelTypeOK
  <2> QED
    BY <2>1, <2>2 DEF Lock
<1>6. ctl' \in [Port -> Seq(ToKernel)]
  <2>1. CASE Done1(c)
    BY <1>1, <2>1
  <2>2. CASE ~ last /\ ctl' = [ctl EXCEPT ![c][1].next = p + 1]
    <3> DEFINE m1 == [m EXCEPT !.next = p + 1]
    <3>1. p + 1 \in PagesIn(m.range)
      <4>1. m.range \in PageRange /\ p \in PagesIn(m.range) /\ p + 1 # m.range[1] + m.range[2]
        BY <1>2, <1>3, <2>2
      <4> HIDE DEF m, p
      <4> QED
        BY <4>1, NextInRange
    <3>2. p + 1 \in Page
      BY <3>1 DEF PagesIn
    <3>3. m1 \in ToKernel
      <4> HIDE DEF m
      <4>1. /\ m1 \in [op : {"lock_request"}, range : PageRange, return : BOOLEAN,
                        flush : BOOLEAN, reply : BOOLEAN, next : Page]
            /\ m1.next = p + 1 /\ m1.range = m.range
        BY <1>2, <3>2
      <4> HIDE DEF m1
      <4> QED
        BY <3>1, <4>1 DEF ToKernel
    <3>4. ctl[c][1] = m /\ 1 \in 1 .. Len(ctl[c])
      BY <1>1
    <3>5. ctl' = [ctl EXCEPT ![c] = [ctl[c] EXCEPT ![1] = m1]]
      <4>1. ctl' = [ctl EXCEPT ![c] = [ctl[c] EXCEPT ![1] = [ctl[c][1] EXCEPT !.next = p + 1]]]
        BY <2>2
      <4> HIDE DEF m
      <4> QED
        BY <3>4, <4>1
    <3> HIDE DEF m1
    <3>6. [ctl[c] EXCEPT ![1] = m1] \in Seq(ToKernel)
      BY <1>1, <3>3, <3>4, ExceptSeq
    <3> QED
      BY <1>1, <3>5, <3>6 DEF PortTypeOK
  <2> QED
    BY <2>1, <2>2 DEF Lock
<1>7. UNCHANGED <<alive, right, mapped, faults, latest>>
  BY DEF Lock
<1> QED
  BY <1>4, <1>5, <1>6, <1>7 DEF PortTypeOK, KernelTypeOK

(* The death of a kernel keeps the types of ports and kernels. *)
LEMMA DieStep ==
  ASSUME PortTypeOK, KernelTypeOK, NEW c \in Client, Die(c)
  PROVE  PortTypeOK' /\ KernelTypeOK'
<1>1. /\ mapped' = [mapped EXCEPT ![c] = "gone"] /\ alive' = alive \ {c}
      /\ ctl' = [ctl EXCEPT ![c] = <<>>]
      /\ mem' = [mem EXCEPT ![c] = [p \in Page |-> NoCopy]]
      /\ asked' = [asked EXCEPT ![c] = [p \in Page |-> "none"]]
      /\ UNCHANGED <<right, faults, latest>>
  BY DEF Die
<1>2. port' \in Seq(ToPager)
  <2>1. PICK received \in 0 .. Len(port) :
          port' = IF ~ right THEN port
                  ELSE Append([i \in 1 .. Len(port) |->
                                 IF i > received /\ port[i].client = c
                                 THEN [port[i] EXCEPT !.client = MACH_PORT_DEAD] ELSE port[i]],
                              [op |-> "dead_name", client |-> c])
    BY DEF Die
  <2> DEFINE s == [i \in 1 .. Len(port) |->
                     IF i > received /\ port[i].client = c
                     THEN [port[i] EXCEPT !.client = MACH_PORT_DEAD] ELSE port[i]]
             m == [op |-> "dead_name", client |-> c]
  <2>2. port \in Seq(ToPager) /\ Len(port) \in Nat
    BY LenProperties DEF PortTypeOK
  <2>3. \A i \in 1 .. Len(port) :
          port[i] \in ToPager /\ [port[i] EXCEPT !.client = MACH_PORT_DEAD] \in ToPager
    BY <2>2, ElementOfSeq, DeadSender
  <2>4. s \in [1 .. Len(port) -> ToPager]
    BY <2>3
  <2>5. port' = IF ~ right THEN port ELSE Append(s, m)
    BY <2>1
  <2> HIDE DEF s
  <2>6. s \in Seq(ToPager)
    BY <2>2, <2>4, SeqDef
  <2>7. m \in ToPager
    BY ClientIsPort DEF ToPager
  <2> HIDE DEF m
  <2>8. Append(s, m) \in Seq(ToPager)
    BY <2>6, <2>7, AppendProperties
  <2> QED
    BY <2>2, <2>5, <2>8
<1>3. PortTypeOK'
  BY <1>1, <1>2, EmptySeq DEF PortTypeOK
<1>4. KernelTypeOK'
  <2>1. NoCopy \in Copy
    BY DEF NoCopy, Copy, Data
  <2> QED
    BY <1>1, <2>1 DEF KernelTypeOK
<1> QED
  BY <1>3, <1>4

(* A page fault keeps the types of ports and kernels. *)
LEMMA FaultStep ==
  ASSUME PortTypeOK, KernelTypeOK, NEW c \in Client, NEW p \in Page,
         NEW what \in {"data", "unlock"}, NEW m \in ToPager, Fault(c, p, what, m)
  PROVE  PortTypeOK' /\ KernelTypeOK'
<1>1. port' \in Seq(ToPager)
  BY SendOneType DEF Fault
<1>2. PortTypeOK'
  BY <1>1 DEF PortTypeOK, Fault
<1>3. KernelTypeOK'
  BY KernelAssumption, SMTT(30) DEF KernelTypeOK, Fault
<1> QED
  BY <1>2, <1>3

(* Data is discarded, an access right comes, an exception is raised. *)
LEMMA AnswerStep ==
  ASSUME PortTypeOK, KernelTypeOK, NEW c \in Client,
         Ready(c) \/ Supply(c) \/ Fail(c) \/ Unlocked(c)
  PROVE  PortTypeOK' /\ KernelTypeOK'
<1> DEFINE m == Head(ctl[c])
<1>1. CASE Ready(c)
  <2>1. ctl' \in [Port -> Seq(ToKernel)]
    BY <1>1, ControlMessage DEF Ready
  <2> QED
    BY <1>1, <2>1 DEF Ready, PortTypeOK, KernelTypeOK
<1>2. CASE Supply(c)
  <2>1. ctl' \in [Port -> Seq(ToKernel)] /\ m \in ToKernel /\ m.op = "data_supply"
    BY <1>2, ControlMessage DEF Supply
  <2>2. m.page \in Page /\ m.data \in Data /\ m.lock \in BOOLEAN
    BY <2>1, ToKernelFields
  <2> DEFINE k == [held |-> TRUE, data |-> m.data, write |-> ~ m.lock, dirty |-> FALSE]
  <2>3. k \in Copy
    BY <2>2 DEF Copy
  <2>4. \/ UNCHANGED <<mem, asked>>
        \/ /\ mem' = [mem EXCEPT ![c][m.page] = k]
           /\ asked' = [asked EXCEPT ![c][m.page] = "none"]
    BY <1>2 DEF Supply
  <2> HIDE DEF k, m
  <2>5. /\ mem' \in [Client -> [Page -> Copy]]
        /\ asked' \in [Client -> [Page -> {"none", "data", "unlock"}]]
    <3>1. CASE UNCHANGED <<mem, asked>>
      BY <3>1 DEF KernelTypeOK
    <3>2. CASE /\ mem' = [mem EXCEPT ![c][m.page] = k]
               /\ asked' = [asked EXCEPT ![c][m.page] = "none"]
      BY <2>2, <2>3, <3>2 DEF KernelTypeOK
    <3> QED
      BY <2>4, <3>1, <3>2
  <2> QED
    BY <1>2, <2>1, <2>5 DEF Supply, PortTypeOK, KernelTypeOK
<1>3. CASE Fail(c)
  <2>1. ctl' \in [Port -> Seq(ToKernel)] /\ m \in ToKernel /\ m.op = "data_error"
    BY <1>3, ControlMessage DEF Fail
  <2>2. m.page \in Page
    BY <2>1, ToKernelFields
  <2>3. asked' = [asked EXCEPT ![c][m.page] = IF @ = "data" THEN "none" ELSE @]
    BY <1>3 DEF Fail
  <2> HIDE DEF m
  <2>4. asked' \in [Client -> [Page -> {"none", "data", "unlock"}]]
    BY <2>2, <2>3 DEF KernelTypeOK
  <2> QED
    BY <1>3, <2>1, <2>4 DEF Fail, PortTypeOK, KernelTypeOK
<1>4. CASE Unlocked(c)
  <2>1. ctl' \in [Port -> Seq(ToKernel)] /\ m \in ToKernel /\ m.op = "unlock"
    BY <1>4, ControlMessage DEF Unlocked
  <2> DEFINE p == m.page
             k == mem[c][p]
             k1 == [k EXCEPT !.write = k.write \/ k.held]
  <2>2. p \in Page
    BY <2>1, ToKernelFields
  <2>3. k \in Copy
    BY <2>2 DEF KernelTypeOK
  <2>4. mem' = [mem EXCEPT ![c] = [mem[c] EXCEPT ![p] = k1]]
    BY <1>4 DEF Unlocked
  <2>5. asked' = [asked EXCEPT ![c][p] = IF @ = "unlock" THEN "none" ELSE @]
    BY <1>4 DEF Unlocked
  <2> HIDE DEF p, k
  <2>6. k1 \in Copy
    BY <2>3 DEF Copy
  <2> HIDE DEF k1
  <2>7. mem' \in [Client -> [Page -> Copy]]
    BY <2>2, <2>4, <2>6 DEF KernelTypeOK
  <2>8. asked' \in [Client -> [Page -> {"none", "data", "unlock"}]]
    BY <2>2, <2>5 DEF KernelTypeOK
  <2> QED
    BY <1>4, <2>1, <2>7, <2>8 DEF Unlocked, PortTypeOK, KernelTypeOK
<1> QED
  BY <1>1, <1>2, <1>3, <1>4

(* Every step of a kernel keeps the types of ports and kernels. *)
LEMMA KernelStep ==
  ASSUME PortTypeOK, KernelTypeOK, KernelNext
  PROVE  PortTypeOK' /\ KernelTypeOK'
<1>1. ASSUME NEW c \in Client, Map(c) PROVE PortTypeOK' /\ KernelTypeOK'
  <2>1. [op |-> "object_init", client |-> c] \in ToPager
    BY ClientIsPort DEF ToPager
  <2>2. port' \in Seq(ToPager)
    BY <1>1, <2>1, SendOneType DEF Map
  <2> QED
    BY <1>1, <2>2 DEF Map, PortTypeOK, KernelTypeOK
<1>2. ASSUME NEW c \in Client, Terminate(c) PROVE PortTypeOK' /\ KernelTypeOK'
  <2>1. [op |-> "object_terminate", client |-> c] \in ToPager
    BY ClientIsPort DEF ToPager
  <2>2. port' \in Seq(ToPager)
    BY <1>2, <2>1, SendOneType DEF Terminate
  <2>3. ctl' \in [Port -> Seq(ToKernel)] /\ alive' \subseteq Client
    BY <1>2, EmptySeq DEF Terminate, PortTypeOK
  <2> QED
    BY <1>2, <2>2, <2>3 DEF Terminate, PortTypeOK, KernelTypeOK
<1>3. ASSUME NEW c \in Client, NEW p \in Page, Request(c, p) PROVE PortTypeOK' /\ KernelTypeOK'
  <2>1. PICK write \in BOOLEAN :
          Fault(c, p, "data", [op |-> "data_request", client |-> c, page |-> p, write |-> write])
    BY <1>3 DEF Request
  <2>2. [op |-> "data_request", client |-> c, page |-> p, write |-> write] \in ToPager
    BY ClientIsPort DEF ToPager
  <2> QED
    BY <2>1, <2>2, FaultStep
<1>4. ASSUME NEW c \in Client, NEW p \in Page, Unlock(c, p) PROVE PortTypeOK' /\ KernelTypeOK'
  <2>1. [op |-> "data_unlock", client |-> c, page |-> p] \in ToPager
    BY ClientIsPort DEF ToPager
  <2> QED
    BY <1>4, <2>1, FaultStep DEF Unlock
<1>5. ASSUME NEW c \in Client, NEW p \in Page, Modify(c, p) PROVE PortTypeOK' /\ KernelTypeOK'
  <2>1. PortTypeOK'
    BY <1>5 DEF Modify, PortTypeOK, portVars
  <2>2. latest' \in [Page -> 0 .. MaxVersion]
    BY <1>5, KernelAssumption DEF Modify, KernelTypeOK
  <2>3. latest[p] + 1 \in Data
    BY KernelAssumption DEF KernelTypeOK, Data
  <2> DEFINE k == mem[c][p]
             k1 == [k EXCEPT !.data = latest[p] + 1, !.dirty = TRUE]
  <2>4. mem' \in [Client -> [Page -> Copy]]
    <3>1. mem' = [mem EXCEPT ![c] = [mem[c] EXCEPT ![p] = k1]]
      BY <1>5 DEF Modify, KernelTypeOK
    <3>2. k \in Copy
      BY DEF KernelTypeOK
    <3> HIDE DEF k
    <3>3. k1 \in Copy
      BY <2>3, <3>2 DEF Copy
    <3> HIDE DEF k1
    <3> QED
      BY <3>1, <3>3 DEF KernelTypeOK
  <2> QED
    BY <1>5, <2>1, <2>2, <2>4 DEF Modify, KernelTypeOK
<1>6. ASSUME NEW c \in Client, NEW p \in Page, Evict(c, p) PROVE PortTypeOK' /\ KernelTypeOK'
  <2>1. port' \in Seq(ToPager)
    <3>1. Returned(c, p, FALSE) \in Seq(ToPager)
      BY ReturnedType
    <3> QED
      BY <1>6, <3>1, SendType DEF Evict
  <2>2. /\ mem' \in [Client -> [Page -> Copy]]
        /\ asked' \in [Client -> [Page -> {"none", "data", "unlock"}]]
    BY <1>6, DropType DEF Evict
  <2> QED
    BY <1>6, <2>1, <2>2 DEF Evict, PortTypeOK, KernelTypeOK
<1> QED
  BY <1>1, <1>2, <1>3, <1>4, <1>5, <1>6, DieStep, AnswerStep, LockStep DEF KernelNext

----------------------------------------------------------------------------
(* Every handler of a message keeps the invariant. *)
LEMMA WorkerKeepsInv == PInv /\ WorkerStep => PInv'
<1>1. PInv /\ (object_terminate \/ dead_name) => PInv'
  BY StartDropStep DEF object_terminate, dead_name
<1> QED
  BY <1>1, ObjectInitStep, DataRequestStep, DataUnlockStep, DataReturnStep, LockCompletedStep,
     FinishReadStep, FinishUnlockStep, FinishWriteStep, FinishEvictStep, DropLocksStep,
     DropPagesStep, WorkerMoves DEF WorkerStep

(* Every step of the pager, handler or call, keeps the invariant. *)
LEMMA PagerKeepsInv == PInv /\ PagerNext => PInv'
BY WorkerKeepsInv, LockObjectStep, ThreadStepQuiet DEF PagerNext

(* The types and the invariant at the start. *)
LEMMA InvInit == Init => IInv
<1> SUFFICES ASSUME Init PROVE IInv
  OBVIOUS
<1> USE DEF Init
<1>1. PortTypeOK
  BY EmptySeq DEF PortInit, PortTypeOK
<1>2. NewEntry \in pagemap_entry /\ NewEntry.PAGINGOUT = FALSE
  BY EmptySeq DEF NewEntry, pagemap_entry, kern_return_t
<1>3. NEXTERROR \in NEXTERROR_list /\ WRITEWAIT \in Seq(WRITEWAIT_entry)
  BY EmptySeq DEF PagerInit, NEXTERROR_list
<1>4. outstanding_locks \in [PageRange -> [Port -> LockRecord]]
  BY DEF PagerInit, NoLock, LockRecord
<1>5. /\ thread \in [Thread -> ThreadState]
      /\ \A t \in Thread : thread[t].at = "idle"
  BY DEF PagerInit, ThreadState
<1>6. PagerTypeOK
  BY <1>2, <1>3, <1>4, <1>5, IdleType DEF PagerInit, PagerTypeOK, Assertions, Data
<1>7. NoLostWakeup
  BY <1>5 DEF NoLostWakeup
<1>8. WaitlistHeld /\ PagingOut
  BY <1>2, IdleType DEF PagerInit, WaitlistHeld, PagingOut
<1>9. KernelTypeOK
  BY KernelAssumption, SMTT(30) DEF KernelInit, KernelTypeOK, NoCopy, Copy, Data
<1>10. since \in [Thread -> [Page -> Nat]]
  BY DEF KernelInit
<1> QED
  BY <1>1, <1>6, <1>7, <1>8, <1>9, <1>10 DEF IInv, PInv, TypeOK

(* Every step of the pager, of a kernel and of a thread keeps them. *)
LEMMA InvStep == IInv /\ [Next]_vars => IInv'
<1> SUFFICES ASSUME IInv, [Next]_vars PROVE IInv'
  OBVIOUS
<1>1. CASE PagerNext /\ UNCHANGED kernelVars /\ RecordCall
  <2>1. PInv'
    BY <1>1, PagerKeepsInv DEF IInv
  <2>2. KernelTypeOK'
    BY <1>1 DEF IInv, TypeOK, KernelTypeOK, kernelVars
  <2>3. latest \in [Page -> Nat]
    BY KernelAssumption DEF IInv, TypeOK, KernelTypeOK
  <2>4. since' \in [Thread -> [Page -> Nat]]
    BY <1>1, <2>3 DEF RecordCall, IInv, TypeOK
  <2> QED
    BY <2>1, <2>2, <2>4 DEF IInv, PInv, TypeOK
<1>2. CASE KernelNext /\ UNCHANGED <<pagerVars, since>>
  <2>1. PortTypeOK' /\ KernelTypeOK'
    BY <1>2, KernelStep DEF IInv, TypeOK
  <2>2. PagerTypeOK' /\ NoLostWakeup' /\ WaitlistHeld' /\ PagingOut'
    BY <1>2 DEF IInv, PInv, pagerVars, PagerTypeOK, NoLostWakeup, Outstanding, WaitlistHeld,
         PagingOut, Running
  <2> QED
    BY <1>2, <2>1, <2>2 DEF IInv, PInv, TypeOK
<1>3. CASE UNCHANGED vars
  BY <1>3 DEF vars, portVars, pagerVars, kernelVars, IInv, PInv, TypeOK, PortTypeOK,
       PagerTypeOK, KernelTypeOK, NoLostWakeup, Outstanding, WaitlistHeld, PagingOut, Running
<1> QED
  BY <1>1, <1>2, <1>3 DEF Next

(* The types and the three invariants hold in every reachable state. *)
THEOREM Invariant == Spec => []IInv
  BY InvInit, InvStep, PTL DEF Spec

(* Every variable of the pager, of the kernels and of the ports between    *)
(* them keeps its type: service_WAITLIST and finalize_unlock never index   *)
(* an empty WAITLIST, a lock count never goes below zero.                  *)
THEOREM TypeCorrect == Spec => []TypeOK
<1>1. IInv => TypeOK
  BY DEF IInv
<1> QED
  BY <1>1, Invariant, PTL

(* A thread asleep in lock_object always has a reply to wait for, however  *)
(* lock_completed, drop_client and other threads interleave with it.       *)
THEOREM WakeupKept == Spec => []NoLostWakeup
<1>1. IInv => NoLostWakeup
  BY DEF IInv, PInv
<1> QED
  BY <1>1, Invariant, PTL

(* Whoever the I/O was started for still waits when it ends. *)
THEOREM WaiterKept == Spec => []WaitlistHeld
<1>1. IInv => WaitlistHeld
  BY DEF IInv, PInv
<1> QED
  BY <1>1, Invariant, PTL

(* PAGINGOUT is set exactly while the page is being written, and there is  *)
(* never more than one entry on WRITEWAIT.                                 *)
THEOREM PagingOutExact == Spec => []PagingOut
<1>1. IInv => PagingOut
  BY DEF IInv, PInv
<1> QED
  BY <1>1, Invariant, PTL
=============================================================================
