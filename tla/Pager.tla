------------------------------- MODULE Pager -------------------------------
(***************************************************************************)
(* struct pager (libpager/pagemap.cc): the handlers of the memory object   *)
(* port, run one at a time by a worker, and the calls a translator's own   *)
(* threads make into the same pager.                                       *)
(*                                                                         *)
(* An action is a segment of a handler that runs with the pager locked.    *)
(* Where the code unlocks the pager to call pager_read_page,               *)
(* pager_write_page, pager_unlock_page or pager_notify_evict, or to let    *)
(* drop_client's internal_lock_completed breathe, the segment ends and     *)
(* worker.pc names the call in progress; other threads run until the next  *)
(* segment.  The demuxer gives the worker its next message only when the   *)
(* handler has returned (module Demuxer).                                  *)
(***************************************************************************)
EXTENDS Pagemap

CONSTANTS
  Thread,            \* the translator's threads; each makes one call
  Call,              \* the calls they may make
  NOTIFY_ON_EVICT,   \* the pager_create flag, which is also PRECIOUS
  WriteLock,         \* the write_lock values pager_read_page may return
  SPURIOUS_WAKEUPS   \* a condition variable may wake with nobody signalling

VARIABLES
  pagemap, clients, WRITEWAIT, NEXTERROR, outstanding_locks, terminating,
  worker,   \* where the worker is in which handler
  thread,   \* where each thread is in which call
  store,    \* the backing store
  aborted   \* the assertion that ended the program, if one has

pagerVars == <<pagemap, clients, WRITEWAIT, NEXTERROR, outstanding_locks,
               terminating, worker, thread, store, aborted>>

CallType == [name : {"sync", "return", "flush", "shutdown"}, range : PageRange, wait : BOOLEAN]

ASSUME CallAssumption ==
  /\ Call \subseteq CallType
  /\ \A call \in Call : call.name = "shutdown" => call.wait /\ call.range = <<0, NPages>>
ASSUME FlagAssumption ==
  NOTIFY_ON_EVICT \in BOOLEAN /\ SPURIOUS_WAKEUPS \in BOOLEAN /\ WriteLock \subseteq BOOLEAN

(* outstanding_locks: a key is in the map while some client has a count. *)
LockRecord == [count : Nat, internal : BOOLEAN]
NoLock == [count |-> 0, internal |-> FALSE]
Outstanding(locks, r) == \E c \in Port : locks[r][c].count > 0

(* The order of the map's keys; EndOfLocks is its end(). *)
Before(r, s) == r[1] < s[1] \/ (r[1] = s[1] /\ r[2] < s[2])
EndOfLocks == <<NPages, 0>>
FirstKey(K) == IF K = {} THEN EndOfLocks
               ELSE CHOOSE r \in K : \A s \in K : s = r \/ Before(r, s)

WRITEWAIT_entry == [page : Page, data : Data, kcopy : BOOLEAN]

(* then: what follows the I/O, the handler's return or drop_client's loop. *)
Worker == [pc : {"idle", "pagein", "unlock", "notify", "write", "evict", "drop", "relock"},
           page : Page, then : {"idle", "drop"}, control : Port,
           it : PageRange \cup {EndOfLocks}, notify : BOOLEAN]

Idle == [pc |-> "idle", page |-> 0, then |-> "idle", control |-> MACH_PORT_DEAD,
         it |-> EndOfLocks, notify |-> FALSE]

ThreadState == [at : {"idle", "called", "locks", "locks_woken", "written",
                      "written_woken", "destroy", "done"},
                call : Call]

Assertions == {"none", "ilc_WAG", "lock_completed", "unlock_ACCESSLIST", "unlock_WAG",
               "unlock_PAGINGOUT", "return_DIRTY"}

PagerTypeOK ==
  /\ pagemap \in [Page -> pagemap_entry]
  /\ clients \subseteq Port
  /\ WRITEWAIT \in Seq(WRITEWAIT_entry)
  /\ NEXTERROR \in NEXTERROR_list
  /\ outstanding_locks \in [PageRange -> [Port -> LockRecord]]
  /\ terminating \in BOOLEAN
  /\ worker \in Worker
  /\ thread \in [Thread -> ThreadState]
  /\ store \in [Page -> [data : Data, ok : BOOLEAN]]
  /\ aborted \in Assertions

PagerInit ==
  /\ pagemap = [p \in Page |-> NewEntry]
  /\ clients = {}
  /\ WRITEWAIT = <<>>
  /\ NEXTERROR = [c \in Port |-> [p \in Page |-> <<>>]]
  /\ outstanding_locks = [r \in PageRange |-> [c \in Port |-> NoLock]]
  /\ terminating = FALSE
  /\ worker = Idle
  /\ thread \in [Thread -> [at : {"idle"}, call : Call]]
  /\ store = [p \in Page |-> [data |-> 0, ok |-> TRUE]]
  /\ aborted = "none"

----------------------------------------------------------------------------
Running == aborted = "none"
(* drop_client's loop holds the lock from one iteration to the next. *)
LockFree == worker.pc # "drop"

Receive(op) ==
  /\ Running /\ right
  /\ worker.pc = "idle"
  /\ port # <<>>
  /\ Head(port).op = op
  /\ port' = Tail(port)
  /\ UNCHANGED <<alive, right>>

(* Mutant: record.count = 1 instead of record.count ++. *)
CommitOneFlush(p, effect, L, N) ==
  /\ pagemap' = [pagemap EXCEPT ![p] = effect.entry]
  /\ NEXTERROR' = [c \in Port |-> [N[c] EXCEPT ![p] = @ \o effect.nexterror[c]]]
  /\ outstanding_locks' =
       [L EXCEPT ![OnePage(p)] =
          [c \in Port |-> IF effect.flush[c] > 0 THEN [count |-> 1, internal |-> TRUE] ELSE @[c]]]
  /\ Post([c \in Port |-> effect.mail[c]
             \o Copies(effect.flush[c], LockRequest(OnePage(p), TRUE, TRUE, TRUE))])

(* A handler that stores the effect of its helpers on page p.  L and N are *)
(* outstanding_locks and NEXTERROR as the handler itself leaves them.      *)
Commit(p, effect, L, N) ==
  /\ pagemap' = [pagemap EXCEPT ![p] = effect.entry]
  /\ NEXTERROR' = [c \in Port |-> [N[c] EXCEPT ![p] = @ \o effect.nexterror[c]]]
  /\ outstanding_locks' =
       [L EXCEPT ![OnePage(p)] =
          [c \in Port |-> [count |-> L[OnePage(p)][c].count + effect.flush[c],
                           internal |-> L[OnePage(p)][c].internal \/ effect.flush[c] > 0]]]
  /\ Post([c \in Port |-> effect.mail[c]
             \o Copies(effect.flush[c], LockRequest(OnePage(p), TRUE, TRUE, TRUE))])

Store(p, effect) == Commit(p, effect, outstanding_locks, NEXTERROR)

Ignore == UNCHANGED <<pagerVars, ctl>>

Abort(assertion) ==
  /\ aborted' = assertion
  /\ UNCHANGED <<pagemap, clients, WRITEWAIT, NEXTERROR, outstanding_locks,
                 terminating, worker, thread, store, ctl>>

(* What only the handlers that say so touch. *)
Rest == <<clients, WRITEWAIT, terminating, store, aborted>>

Do(pc, p) == [Idle EXCEPT !.pc = pc, !.page = p]

(* Back from the I/O of internal_lock_completed or of a handler's tail. *)
Continue == IF worker.then = "drop" THEN [worker EXCEPT !.pc = "drop"] ELSE Idle

(* Mutant: no notify_all. *)
NotifyNobody(L) == UNCHANGED thread

(* Mutant: every reply wakes every waiting thread. *)
NotifyAll(L) ==
  thread' = [t \in Thread |-> IF thread[t].at = "locks"
                              THEN [thread[t] EXCEPT !.at = "locks_woken"] ELSE thread[t]]

(* Threads in lock_object waiting on a record that has become empty. *)
NotifyLocks(L) ==
  thread' = [t \in Thread |->
    IF /\ thread[t].at = "locks"
       /\ Outstanding(outstanding_locks, thread[t].call.range)
       /\ ~ Outstanding(L, thread[t].call.range)
    THEN [thread[t] EXCEPT !.at = "locks_woken"] ELSE thread[t]]

----------------------------------------------------------------------------
object_init ==
  /\ Receive("object_init")
  /\ IF terminating THEN Ignore
     ELSE LET c == Head(port).client IN
          /\ clients' = clients \cup {c}
          /\ Post([NoMail EXCEPT ![c] = <<[op |-> "ready"]>>])
          /\ UNCHANGED <<pagemap, WRITEWAIT, NEXTERROR, outstanding_locks, terminating,
                         worker, thread, store, aborted>>

(* internal_lock_completed for c and page p, whose entry is e, as the last *)
(* thing its caller does with the lock held.                               *)
CompleteInternalLock(e, c, p, L, next) ==
  LET done == internal_lock_completed(e, c, p) IN
  /\ Commit(p, done.effect, L, NEXTERROR)
  /\ worker' = IF done.operation # "none"
               THEN [next EXCEPT !.page = p, !.pc = done.operation]
               ELSE next

data_request_ignored == Receive("data_request") /\ terminating /\ Ignore

(* An error left for this client by an earlier failed unlock. *)
data_request_NEXTERROR ==
  /\ Receive("data_request") /\ ~ terminating
  /\ LET m == Head(port)
         errors == NEXTERROR[m.client][m.page]
     IN /\ errors # <<>>
        /\ Post([NoMail EXCEPT ![m.client] = <<DataError(m.page, Head(errors))>>])
        /\ NEXTERROR' = [NEXTERROR EXCEPT ![m.client][m.page] = Tail(@)]
  /\ UNCHANGED <<Rest, pagemap, outstanding_locks, worker, thread>>

(* The client has silently dropped a page others are waiting for. *)
HasDroppedWantedPage(m) ==
  LET e == pagemap[m.page]
  IN ~ e.PAGINGOUT /\ is_client_on_ACCESSLIST(e, m.client) /\ e.WAITLIST # <<>>

data_request_dropped ==
  /\ Receive("data_request") /\ ~ terminating
  /\ LET m == Head(port)
         e == add_client_to_WAITLIST(pagemap[m.page], m.client, m.write)
     IN /\ NEXTERROR[m.client][m.page] = <<>>
        /\ HasDroppedWantedPage(m)
        /\ IF e.WRITE_ACCESS_GRANTED THEN Abort("ilc_WAG")
           ELSE /\ CompleteInternalLock(e, m.client, m.page, outstanding_locks, Idle)
                /\ UNCHANGED <<Rest, thread>>

(* The entry once a client that asks again has been taken off ACCESSLIST. *)
EntryForRequest(m) ==
  LET e == pagemap[m.page]
  IN IF ~ e.PAGINGOUT /\ is_client_on_ACCESSLIST(e, m.client)
     THEN [remove_client_from_ACCESSLIST(e, m.client) EXCEPT !.WRITE_ACCESS_GRANTED = FALSE]
     ELSE e

MustWait(e, write) ==
  \/ e.PAGINGOUT
  \/ e.WAITLIST # <<>>
  \/ e.WRITE_ACCESS_GRANTED
  \/ write /\ e.ACCESSLIST # {}

data_request_wait ==
  /\ Receive("data_request") /\ ~ terminating
  /\ LET m == Head(port)
         e == EntryForRequest(m)
     IN /\ NEXTERROR[m.client][m.page] = <<>>
        /\ ~ HasDroppedWantedPage(m)
        /\ MustWait(e, m.write)
        /\ Store(m.page, Flushing(add_client_to_WAITLIST(e, m.client, m.write),
                                  IF e.WAITLIST = <<>> THEN e.ACCESSLIST ELSE {}))
  /\ UNCHANGED <<Rest, worker, thread>>

data_request_pagein ==
  /\ Receive("data_request") /\ ~ terminating
  /\ LET m == Head(port)
         e == EntryForRequest(m)
         e1 == add_client_to_WAITLIST(e, m.client, m.write)
     IN /\ NEXTERROR[m.client][m.page] = <<>>
        /\ ~ HasDroppedWantedPage(m)
        /\ ~ MustWait(e, m.write)
        /\ Store(m.page, IF e.INVALID THEN Mailing(e1, m.client, DataError(m.page, e.ERROR))
                         ELSE Only(e1))
        /\ worker' = Do("pagein", m.page)
  /\ UNCHANGED <<Rest, thread>>

(* pager_read_page returns. *)
finish_read ==
  /\ Running /\ worker.pc = "pagein"
  /\ \E err \in kern_return_t, write_lock \in WriteLock :
       LET p == worker.page IN
       Store(p, finish_pagein(pagemap[p], p, store[p].data, err, write_lock, terminating))
  /\ worker' = Continue
  /\ UNCHANGED <<Rest, thread, port, alive, right>>

data_unlock ==
  /\ Receive("data_unlock")
  /\ LET m == Head(port)
         e == pagemap[m.page]
         e1 == add_client_to_WAITLIST(e, m.client, TRUE)
     IN CASE terminating -> Ignore
          [] ~ terminating /\ ~ is_client_on_ACCESSLIST(e, m.client) ->
               Abort("unlock_ACCESSLIST")
          [] ~ terminating /\ is_client_on_ACCESSLIST(e, m.client)
               /\ e.WRITE_ACCESS_GRANTED -> Abort("unlock_WAG")
          [] ~ terminating /\ is_client_on_ACCESSLIST(e, m.client)
               /\ ~ e.WRITE_ACCESS_GRANTED /\ e.PAGINGOUT -> Abort("unlock_PAGINGOUT")
          [] OTHER ->
               /\ Store(m.page,
                    CASE is_any_client_waiting_for_write_access(e) -> Only(e)
                      [] e.WAITLIST = <<>> /\ Cardinality(e.ACCESSLIST) > 1 ->
                           Flushing(e1, e.ACCESSLIST)
                      [] OTHER -> Only(e1))
               /\ worker' = IF e.WAITLIST = <<>> /\ Cardinality(e.ACCESSLIST) <= 1
                            THEN Do("unlock", m.page) ELSE Idle
               /\ UNCHANGED <<Rest, thread>>

(* pager_unlock_page returns; data_return may then call pager_notify_evict *)
(* as well, before it takes the lock again.                                *)
finish_unlock ==
  /\ Running /\ worker.pc = "unlock"
  /\ \E err \in kern_return_t :
       Store(worker.page, finalize_unlock(pagemap[worker.page], worker.page, err))
  /\ worker' = Continue
  /\ UNCHANGED <<Rest, thread, port, alive, right>>

ClearedErrors(e) == [e EXCEPT !.INVALID = FALSE, !.ERROR = KERN_SUCCESS]
NextErrorsWithout(p) == [c \in Port |-> [NEXTERROR[c] EXCEPT ![p] = <<>>]]

(* Mutant: KERNEL_COPY is not looked at. *)
AlwaysGivenUp(x) == TRUE

(* The client has not kept the page: ! KERNEL_COPY. *)
GivenUp(x) == ~ x.kcopy

(* Mutant: KERNEL_COPY is not looked at. *)
EntryForAnyReturn(m) == remove_client_from_ACCESSLIST(pagemap[m.page], m.client)

(* The entry once a client that gives the page up is off ACCESSLIST. *)
EntryForReturn(m) ==
  IF GivenUp(m) /\ m.client # MACH_PORT_DEAD
  THEN remove_client_from_ACCESSLIST(pagemap[m.page], m.client)
  ELSE pagemap[m.page]

(* The page leaves a client, or a copy of it does.  do_notify is set only  *)
(* on the branch that notifies and is read on the one that unlocks: there  *)
(* it has whatever value alloca's memory had.                              *)
data_return ==
  /\ Receive("data_return")
  /\ LET m == Head(port)
         p == m.page
         e == EntryForReturn(m)
         serve == GivenUp(m) /\ e.ACCESSLIST = {} /\ e.WAITLIST # <<>>
         do_unlock == /\ GivenUp(m) /\ ~ terminating
                      /\ FirstWaiterAloneHasPage(e) /\ ~ e.WRITE_ACCESS_GRANTED
         do_notify == /\ GivenUp(m) /\ ~ m.dirty
                      /\ e.ACCESSLIST = {} /\ e.WAITLIST = <<>>
         effect == IF serve THEN service_WAITLIST(e, p, m.data, TRUE, terminating)
                   ELSE Only(IF do_notify THEN ClearedErrors(e) ELSE e)
     IN IF do_unlock /\ m.dirty THEN Abort("return_DIRTY")
        ELSE /\ Commit(p, [effect EXCEPT !.entry.PAGINGOUT = @ \/ m.dirty],
                       outstanding_locks,
                       IF do_notify THEN NextErrorsWithout(p) ELSE NEXTERROR)
             /\ WRITEWAIT' = IF m.dirty
                             THEN Append(WRITEWAIT, [page |-> p, data |-> m.data, kcopy |-> m.kcopy])
                             ELSE WRITEWAIT
             /\ \/ do_unlock /\ \E garbage \in BOOLEAN :
                      worker' = [Do("unlock", p) EXCEPT !.notify = garbage]
                \/ do_notify /\ worker' = [Do("notify", p) EXCEPT !.notify = TRUE]
                \/ m.dirty /\ worker' = IF WRITEWAIT = <<>> THEN Do("write", p) ELSE Idle
                \/ ~ (do_unlock \/ do_notify \/ m.dirty) /\ worker' = Idle
             /\ UNCHANGED <<clients, terminating, thread, store, aborted>>

(* pager_notify_evict returns to data_return. *)
finish_notify ==
  /\ Running /\ worker.pc = "notify"
  /\ worker' = Idle
  /\ UNCHANGED <<Rest, pagemap, NEXTERROR, outstanding_locks, thread, portVars>>

(* Mutant: the entry goes and its waiters are not notified. *)
PopSilently ==
  /\ WRITEWAIT' = Tail(WRITEWAIT)
  /\ worker' = Idle
  /\ UNCHANGED thread

(* service_first_WRITEWAIT_entry pops the entry and wakes its waiters; its *)
(* caller goes on while there are entries.                                 *)
PopWRITEWAIT ==
  /\ WRITEWAIT' = Tail(WRITEWAIT)
  /\ thread' = [t \in Thread |-> IF thread[t].at = "written"
                                 THEN [thread[t] EXCEPT !.at = "written_woken"] ELSE thread[t]]
  /\ worker' = IF Len(WRITEWAIT) = 1 THEN Idle ELSE Do("write", WRITEWAIT[2].page)

(* Mutant: PAGINGOUT stays after a failed write. *)
WrittenUnlessFailed(e, err) ==
  [e EXCEPT !.INVALID = err # KERN_SUCCESS, !.ERROR = err, !.PAGINGOUT = err # KERN_SUCCESS]

(* The entry of a page whose write has finished. *)
Written(e, err) ==
  [e EXCEPT !.INVALID = err # KERN_SUCCESS, !.ERROR = IF err = KERN_SUCCESS THEN @ ELSE err,
            !.PAGINGOUT = FALSE]

(* pager_write_page returns.  WRITEWAIT holds no other entry (the demuxer  *)
(* runs one data_return at a time), so matching_page_count_on_WRITEWAIT is *)
(* 1 before the write and after it.                                        *)
finish_write ==
  /\ Running /\ worker.pc = "write"
  /\ \E err \in kern_return_t :
       LET current == WRITEWAIT[1]
           p == current.page
           ok == err = KERN_SUCCESS
           e == Written(pagemap[p], err)
           serve == GivenUp(current) /\ e.WAITLIST # <<>>
           do_notify == GivenUp(current) /\ e.WAITLIST = <<>>
       IN /\ store' = [store EXCEPT ![p] = [data |-> IF ok THEN current.data ELSE @.data,
                                            ok |-> ok]]
          /\ Commit(p, IF serve THEN service_WAITLIST(e, p, current.data, TRUE, terminating)
                       ELSE Only(IF do_notify THEN ClearedErrors(e) ELSE e),
                    outstanding_locks,
                    IF do_notify THEN NextErrorsWithout(p) ELSE NEXTERROR)
          /\ IF NOTIFY_ON_EVICT /\ do_notify
             THEN /\ worker' = [Do("evict", p) EXCEPT !.notify = TRUE]
                  /\ UNCHANGED <<WRITEWAIT, thread>>
             ELSE PopWRITEWAIT
  /\ UNCHANGED <<clients, terminating, aborted, port, alive, right>>

(* pager_notify_evict returns to service_first_WRITEWAIT_entry. *)
finish_evict ==
  /\ Running /\ worker.pc = "evict"
  /\ PopWRITEWAIT
  /\ UNCHANGED <<pagemap, clients, NEXTERROR, outstanding_locks, terminating, store,
                 aborted, portVars>>

(* A client's record once one of its locks has been answered. *)
Answered(k) == IF k.count = 1 THEN NoLock ELSE [k EXCEPT !.count = @ - 1]

lock_completed ==
  /\ Receive("lock_completed")
  /\ LET m == Head(port)
         old == outstanding_locks[m.range][m.client]
         last == old.count = 1
         L == [outstanding_locks EXCEPT ![m.range][m.client] = Answered(@)]
         p == m.range[1]
     IN CASE old.count = 0 -> Abort("lock_completed")
          [] old.count > 0 /\ ~ (last /\ old.internal /\ ~ terminating) ->
               /\ outstanding_locks' = L
               /\ NotifyLocks(L)
               /\ UNCHANGED <<Rest, pagemap, NEXTERROR, worker, ctl>>
          [] OTHER ->
               IF pagemap[p].WRITE_ACCESS_GRANTED THEN Abort("ilc_WAG")
               ELSE /\ CompleteInternalLock(pagemap[p], m.client, p, L, Idle)
                    /\ NotifyLocks(L)
                    /\ UNCHANGED Rest

----------------------------------------------------------------------------
(* drop_client: called by object_terminate and dead_name. *)
start_drop(op) ==
  /\ Receive(op)
  /\ worker' = [Idle EXCEPT !.pc = "drop", !.control = Head(port).client,
                            !.it = FirstKey({r \in PageRange : Outstanding(outstanding_locks, r)})]
  /\ UNCHANGED <<Rest, pagemap, NEXTERROR, outstanding_locks, thread, ctl>>

object_terminate == start_drop("object_terminate")
dead_name == start_drop("dead_name")

(* The keys the iterator has still to visit, and the first of them whose   *)
(* lock has to be treated as an internal one that has been answered.       *)
KeysAhead == {r \in PageRange : Outstanding(outstanding_locks, r) /\ ~ Before(r, worker.it)}
InternalAhead ==
  FirstKey({r \in KeysAhead : outstanding_locks[r][worker.control].internal})

(* Mutant: the whole record goes, with the locks of other clients. *)
EraseRecords(K) ==
  [r \in PageRange |-> IF r \in K THEN [c \in Port |-> NoLock] ELSE outstanding_locks[r]]

(* outstanding_locks without the dropped client's locks in the keys K. *)
EraseLocks(K) ==
  [r \in PageRange |-> IF r \in K THEN [outstanding_locks[r] EXCEPT ![worker.control] = NoLock]
                   ELSE outstanding_locks[r]]

(* The loop up to and including the next call of internal_lock_completed.  *)
(* The iterator has moved on before that call; while it has the pager      *)
(* unlocked, keys may be added behind the iterator.                        *)
drop_locks ==
  /\ Running /\ worker.pc = "drop"
  /\ InternalAhead # EndOfLocks
  /\ LET r == InternalAhead
         L == EraseLocks({k \in KeysAhead : ~ Before(r, k)})
         next == [worker EXCEPT !.it = FirstKey({k \in KeysAhead : Before(r, k)})]
         p == r[1]
     IN CASE terminating ->
               /\ outstanding_locks' = L
               /\ worker' = next
               /\ NotifyLocks(L)
               /\ UNCHANGED <<pagemap, NEXTERROR, ctl, Rest>>
          [] ~ terminating /\ pagemap[p].WRITE_ACCESS_GRANTED -> Abort("ilc_WAG")
          [] OTHER ->
               /\ CompleteInternalLock(pagemap[p], worker.control, p, L,
                                       [next EXCEPT !.pc = "relock", !.then = "drop"])
               /\ NotifyLocks(L)
               /\ UNCHANGED Rest
  /\ UNCHANGED <<port, alive, right>>

(* internal_lock_completed had nothing to read or to unlock, but it did    *)
(* release the lock.                                                       *)
drop_relock ==
  /\ Running /\ worker.pc = "relock"
  /\ worker' = [worker EXCEPT !.pc = "drop"]
  /\ UNCHANGED <<Rest, pagemap, NEXTERROR, outstanding_locks, thread, portVars>>

(* The rest of the loop, and what follows it.  The client's entries on     *)
(* WAITLISTs are erased from a copy of the list and so stay.               *)
drop_pages ==
  /\ Running /\ worker.pc = "drop"
  /\ InternalAhead = EndOfLocks
  /\ outstanding_locks' = EraseLocks(KeysAhead)
  /\ NotifyLocks(EraseLocks(KeysAhead))
  /\ pagemap' = [p \in Page |->
       IF is_client_on_ACCESSLIST(pagemap[p], worker.control)
       THEN [remove_client_from_ACCESSLIST(pagemap[p], worker.control)
               EXCEPT !.WRITE_ACCESS_GRANTED = FALSE]
       ELSE pagemap[p]]
  /\ clients' = clients \ {worker.control}
  /\ worker' = Idle
  /\ UNCHANGED <<WRITEWAIT, NEXTERROR, terminating, store, aborted, portVars>>

----------------------------------------------------------------------------
(* The translator's threads. *)
Leave(t) ==
  thread' = [thread EXCEPT ![t].at = IF @ # "destroy" /\ thread[t].call.name = "shutdown"
                                     THEN "destroy" ELSE "done"]

(* pager_shutdown: terminating is set without the lock. *)
shutdown(t) ==
  /\ Running
  /\ thread[t].at = "idle" /\ thread[t].call.name = "shutdown"
  /\ terminating' = TRUE
  /\ thread' = [thread EXCEPT ![t].at = "called"]
  /\ UNCHANGED <<pagemap, clients, WRITEWAIT, NEXTERROR, outstanding_locks, worker, store,
                 aborted, portVars>>

RETURN(call) == call.name # "flush"
FLUSH(call) == call.name # "sync"

(* only_signal_WRITE_clients holds for none of the calls. *)
Signalled(call) ==
  UNION {pagemap[p].ACCESSLIST : p \in
           {q \in PagesIn(call.range) :
              FLUSH(call) \/ RETURN(call) \/ pagemap[q].WRITE_ACCESS_GRANTED}}

(* Mutant: the count does not add up. *)
CountOne(r, S) ==
  [outstanding_locks EXCEPT ![r] =
     [c \in Port |-> IF c \in S THEN [@[c] EXCEPT !.count = 1] ELSE @[c]]]

(* record.locks[client].count ++, for every client signalled. *)
AddLocks(r, S) ==
  [outstanding_locks EXCEPT ![r] =
     [c \in Port |-> IF c \in S THEN [count |-> @[c].count + 1, internal |-> @[c].internal]
                     ELSE @[c]]]

(* pager_sync, pager_return, pager_flush and their _some forms: lock_object *)
(* up to its return or its first wait.                                      *)
lock_object(t) ==
  LET call == thread[t].call
      S == Signalled(call)
      request == LockRequest(call.range, RETURN(call), FLUSH(call), call.wait)
  IN /\ Running /\ LockFree
     /\ thread[t].at = IF call.name = "shutdown" THEN "called" ELSE "idle"
     /\ Post([c \in Port |-> IF c \in S THEN <<request>> ELSE <<>>])
     /\ IF S # {} /\ call.wait
        THEN /\ outstanding_locks' = AddLocks(call.range, S)
             /\ thread' = [thread EXCEPT ![t].at = "locks"]
        ELSE Leave(t) /\ UNCHANGED outstanding_locks
     /\ UNCHANGED <<pagemap, clients, WRITEWAIT, NEXTERROR, terminating, worker, store,
                    aborted, port, alive, right>>

(* The overlap test of lock_object, which counts adjacent blocks too. *)
Overlaps(w, r) == w.page <= r[1] + r[2] /\ w.page + 1 >= r[1]

(* lock_object woken from its first wait. *)
await_writes(t) ==
  /\ Running /\ LockFree
  /\ thread[t].at = "locks_woken"
  /\ IF \E i \in 1 .. Len(WRITEWAIT) : Overlaps(WRITEWAIT[i], thread[t].call.range)
     THEN thread' = [thread EXCEPT ![t].at = "written"]
     ELSE Leave(t)
  /\ UNCHANGED <<Rest, pagemap, NEXTERROR, outstanding_locks, worker, portVars>>

(* lock_object woken from its second wait. *)
leave_lock_object(t) ==
  /\ Running /\ LockFree
  /\ thread[t].at = "written_woken"
  /\ Leave(t)
  /\ UNCHANGED <<Rest, pagemap, NEXTERROR, outstanding_locks, worker, portVars>>

(* Neither wait of lock_object tests a predicate. *)
spurious_wakeup(t) ==
  /\ Running /\ SPURIOUS_WAKEUPS
  /\ thread[t].at \in {"locks", "written"}
  /\ thread' = [thread EXCEPT ![t].at = IF @ = "locks" THEN "locks_woken" ELSE "written_woken"]
  /\ UNCHANGED <<Rest, pagemap, NEXTERROR, outstanding_locks, worker, portVars>>

(* The end of shutdown: queued messages go with the receive right. *)
ports_destroy_right(t) ==
  /\ Running
  /\ thread[t].at = "destroy"
  /\ right' = FALSE
  /\ port' = <<>>
  /\ Leave(t)
  /\ UNCHANGED <<Rest, pagemap, NEXTERROR, outstanding_locks, worker, ctl, alive>>

----------------------------------------------------------------------------
DataRequest ==
  \/ data_request_ignored \/ data_request_NEXTERROR \/ data_request_dropped
  \/ data_request_wait \/ data_request_pagein

WorkerStep ==
  \/ object_init \/ DataRequest \/ data_unlock \/ data_return \/ lock_completed
  \/ object_terminate \/ dead_name
  \/ finish_read \/ finish_unlock \/ finish_notify \/ finish_write \/ finish_evict
  \/ drop_locks \/ drop_relock \/ drop_pages

(* A thread inside a call; entering one is the translator's choice. *)
ThreadStep(t) ==
  \/ lock_object(t) /\ thread[t].at = "called"
  \/ await_writes(t) \/ leave_lock_object(t) \/ ports_destroy_right(t)

PagerNext ==
  \/ WorkerStep
  \/ \E t \in Thread : \/ shutdown(t) \/ lock_object(t) \/ await_writes(t)
                        \/ leave_lock_object(t) \/ spurious_wakeup(t)
                        \/ ports_destroy_right(t)
=============================================================================
