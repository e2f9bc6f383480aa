------------------------------ MODULE Pagemap ------------------------------
(***************************************************************************)
(* pagemap_entry_data: what the pager knows of one page, and the helpers   *)
(* of struct pager that work on tmp_pagemap_entry with the pager locked.   *)
(*                                                                         *)
(* The map from offsets to entries is plain here.  The code shares equal   *)
(* entries between pages (pagemap_entry interns them in a set), which no   *)
(* reader of an entry can observe.                                         *)
(*                                                                         *)
(* A helper returns its effect: the entry it leaves in tmp_pagemap_entry,  *)
(* the messages it sends to each client, how many times it calls           *)
(* internal_flush_request for each client, and the errors it adds to       *)
(* NEXTERROR for the page.                                                 *)
(* In every helper the flush requests to a client follow the other         *)
(* messages it sends that client.                                          *)
(***************************************************************************)
EXTENDS MemoryObject

WAITLIST_client == [client : Port, write : BOOLEAN]

(* NEXTERROR, by client and offset: the order of entries that differ in    *)
(* one of them is never observed.                                          *)
NEXTERROR_list == [Port -> [Page -> Seq(kern_return_t)]]

pagemap_entry ==
  [ACCESSLIST : SUBSET Port, WAITLIST : Seq(WAITLIST_client),
   PAGINGOUT : BOOLEAN, WRITE_ACCESS_GRANTED : BOOLEAN,
   INVALID : BOOLEAN, ERROR : kern_return_t]

NewEntry ==
  [ACCESSLIST |-> {}, WAITLIST |-> <<>>, PAGINGOUT |-> FALSE,
   WRITE_ACCESS_GRANTED |-> FALSE, INVALID |-> FALSE, ERROR |-> KERN_SUCCESS]

add_client_to_WAITLIST(e, c, write) ==
  [e EXCEPT !.WAITLIST = Append(@, [client |-> c, write |-> write])]

remove_client_from_ACCESSLIST(e, c) == [e EXCEPT !.ACCESSLIST = @ \ {c}]

is_client_on_ACCESSLIST(e, c) == c \in e.ACCESSLIST

(* Mutant: nobody looks at WAITLIST. *)
NoWriterWaits(e) == FALSE

is_any_client_waiting_for_write_access(e) ==
  \E i \in 1 .. Len(e.WAITLIST) : e.WAITLIST[i].write

(* One client left with the page, and it is the first one waiting. *)
FirstWaiterAloneHasPage(e) ==
  /\ e.WAITLIST # <<>>
  /\ e.ACCESSLIST = {e.WAITLIST[1].client}

----------------------------------------------------------------------------
Effect == [entry : pagemap_entry, mail : [Port -> Seq(ToKernel)],
           flush : [Port -> Nat], nexterror : [Port -> Seq(kern_return_t)]]

FlushOnce(S) == [c \in Port |-> IF c \in S THEN 1 ELSE 0]

NoError == [c \in Port |-> <<>>]

MailTo(c, m) == [d \in Port |-> IF d = c THEN <<m>> ELSE <<>>]
ErrorFor(c, err) == [d \in Port |-> IF d = c THEN <<err>> ELSE <<>>]

Only(e) == [entry |-> e, mail |-> NoMail, flush |-> FlushOnce({}), nexterror |-> NoError]
Flushing(e, S) ==
  [entry |-> e, mail |-> NoMail, flush |-> FlushOnce(S), nexterror |-> NoError]
Mailing(e, c, m) ==
  [entry |-> e, mail |-> MailTo(c, m), flush |-> FlushOnce({}), nexterror |-> NoError]

(* Mutant: the first waiter is skipped. *)
WaitsAfterFirst(wl, n, c) == Cardinality({i \in 2 .. n : wl[i].client = c})

(* How many of the first n entries of WAITLIST are c's. *)
Waits(wl, n, c) == Cardinality({i \in 1 .. n : wl[i].client = c})

(* How many waiters are served read-only: the first one and the readers    *)
(* that directly follow it.                                                *)
Batch(wl) == Cardinality({n \in 1 .. Len(wl) : \A i \in 2 .. n : ~ wl[i].write})

service_WAITLIST(e, p, data, allow_write_access, terminating) ==
  LET wl == e.WAITLIST
      grant == allow_write_access /\ wl[1].write
      n == IF grant THEN 1 ELSE Batch(wl)
      rest == SubSeq(wl, n + 1, Len(wl))
      access == e.ACCESSLIST \cup {wl[i].client : i \in 1 .. n}
  IN IF terminating THEN Only(e) ELSE
     [entry |-> [e EXCEPT !.ACCESSLIST = access, !.WAITLIST = rest,
                          !.WRITE_ACCESS_GRANTED = grant],
      mail |-> [c \in Port |-> Copies(Waits(wl, n, c), DataSupply(p, data, ~ grant))],
      flush |-> FlushOnce(IF rest = <<>> THEN {} ELSE access),
      nexterror |-> NoError]

(* Mutant: WAITLIST is cleared and nobody is told. *)
ClearWAITLIST(e, p) == Only([e EXCEPT !.WAITLIST = <<>>])

send_error_to_WAITLIST(e, p) ==
  LET wl == e.WAITLIST
      all(c) == Waits(wl, Len(wl), c)
  IN [entry |-> [e EXCEPT !.WAITLIST = <<>>],
      mail |-> [c \in Port |-> IF c \in e.ACCESSLIST THEN <<>>
                               ELSE Copies(all(c), DataError(p, e.ERROR))],
      flush |-> [c \in Port |-> IF c \in e.ACCESSLIST THEN all(c) ELSE 0],
      nexterror |-> [c \in Port |-> IF c \in e.ACCESSLIST THEN Copies(all(c), e.ERROR)
                                    ELSE <<>>]]

(* Mutant: the client that gets write access is not told. *)
GrantSilently(e, p, err) ==
  Only([e EXCEPT !.WAITLIST = Tail(@), !.WRITE_ACCESS_GRANTED = TRUE])

finalize_unlock(e, p, err) ==
  LET c == e.WAITLIST[1].client
      ok == err = KERN_SUCCESS
      rest == Tail(e.WAITLIST)
  IN [entry |-> [e EXCEPT !.WAITLIST = rest, !.WRITE_ACCESS_GRANTED = ok \/ @],
      mail |-> IF ok THEN MailTo(c, UnlockAnswer(p)) ELSE NoMail,
      flush |-> FlushOnce(IF ok /\ rest = <<>> THEN {} ELSE {c}),
      nexterror |-> IF ok THEN NoError ELSE ErrorFor(c, err)]

(* pager_read_page has answered: the tail of data_request, and of          *)
(* internal_lock_completed for a PAGEIN.                                   *)
finish_pagein(e, p, data, err, write_lock, terminating) ==
  LET e1 == [e EXCEPT !.ERROR = err]
  IN IF err = KERN_SUCCESS
     THEN service_WAITLIST(e1, p, data, ~ write_lock, terminating)
     ELSE send_error_to_WAITLIST(e1, p)

(* Mutant: WAITLIST may be empty. *)
LockCompletedUnwanted(e, c, p) ==
  LET e1 == remove_client_from_ACCESSLIST(e, c)
  IN [effect |-> Only(e1), operation |-> IF e1.ACCESSLIST = {} THEN "pagein" ELSE "none"]

(* internal_lock_completed up to the unlock, for a page whose client c has *)
(* given it up: the effect, and the operation to perform unlocked.         *)
internal_lock_completed(e, c, p) ==
  LET e1 == remove_client_from_ACCESSLIST(e, c)
      wanted == is_client_on_ACCESSLIST(e, c) /\ e.WAITLIST # <<>>
      last == wanted /\ e1.ACCESSLIST = {}
  IN [effect |-> IF last /\ e.INVALID THEN send_error_to_WAITLIST(e1, p)
                 ELSE Only(IF wanted THEN e1 ELSE e),
      operation |-> IF last THEN IF e.INVALID THEN "none" ELSE "pagein"
                    ELSE IF wanted /\ FirstWaiterAloneHasPage(e1) THEN "unlock"
                    ELSE "none"]
=============================================================================
