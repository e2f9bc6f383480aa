---------------------------- MODULE PagerSystem ----------------------------
(***************************************************************************)
(* A pager, the kernels that map its object, and the translator's threads. *)
(***************************************************************************)
EXTENDS Pager, Kernel

VARIABLE since   \* since[t]: latest, at the time thread t made its call

vars == <<portVars, pagerVars, kernelVars, since>>

Init == PortInit /\ PagerInit /\ KernelInit /\ since = [t \in Thread |-> latest]

RecordCall ==
  since' = [t \in Thread |-> IF thread[t].at = "idle" /\ thread'[t].at # "idle"
                             THEN latest ELSE since[t]]

Next ==
  \/ PagerNext /\ UNCHANGED kernelVars /\ RecordCall
  \/ KernelNext /\ UNCHANGED <<pagerVars, since>>

Spec == Init /\ [][Next]_vars

(* The worker runs whenever it can, a kernel works off its control port,   *)
(* and a thread that has been woken runs.  Faults, evictions, calls and    *)
(* deaths are never owed.                                                  *)
Fairness ==
  /\ WF_vars(WorkerStep /\ UNCHANGED kernelVars /\ RecordCall)
  /\ \A c \in Client : WF_vars(KernelService(c) /\ UNCHANGED <<pagerVars, since>>)
  /\ \A t \in Thread : WF_vars(ThreadStep(t) /\ UNCHANGED kernelVars /\ RecordCall)

FairSpec == Spec /\ Fairness

----------------------------------------------------------------------------
(* The variables have their types. *)
TypeOK ==
  /\ PortTypeOK /\ PagerTypeOK /\ KernelTypeOK
  /\ since \in [Thread -> [Page -> Nat]]

Count(seq, Test(_)) == Cardinality({i \in 1 .. Len(seq) : Test(seq[i])})
InPort(Test(_)) == \E i \in 1 .. Len(port) : Test(port[i])
InCtl(c, Test(_)) == \E i \in 1 .. Len(ctl[c]) : Test(ctl[c][i])
Waiting(c, p) == \E i \in 1 .. Len(pagemap[p].WAITLIST) : pagemap[p].WAITLIST[i].client = c

(* The pager is there to answer. *)
Serving == Running /\ ~ terminating /\ right

(* outstanding_locks counts, for every range and every live client, the    *)
(* lock requests that ask for a reply and the replies that have not been   *)
(* handled: internal flushes and the calls of the translator's threads     *)
(* share the counter.  lock_completed asserts that it never underflows.    *)
LockAccounting ==
  Running /\ right => \A c \in alive, r \in PageRange :
    outstanding_locks[r][c].count =
      Count(ctl[c], LAMBDA m : m.op = "lock_request" /\ m.range = r /\ m.reply)
        + Count(port, LAMBDA m : m.op = "lock_completed" /\ m.range = r /\ m.client = c)

(* A thread that waits in lock_object and has not been notified waits for  *)
(* a reply that is still to come: the record is not erased under it, by    *)
(* lock_completed or by drop_client, without a notify_all.                 *)
NoLostWakeup ==
  \A t \in Thread :
    thread[t].at = "locks" => Outstanding(outstanding_locks, thread[t].call.range)

(* service_WAITLIST and finalize_unlock throw when nobody waits any more.  *)
(* The entry is read again after the pager was unlocked for the I/O, so    *)
(* the waiter they were started for must still be there.                   *)
WaitlistHeld ==
  Running /\ worker.pc \in {"pagein", "unlock"} => pagemap[worker.page].WAITLIST # <<>>

(* "there can be at most one client on both ACCESSLIST and WAITLIST        *)
(* simultaneously" (NOTES:945).                                            *)
OneOnBothLists ==
  \A p \in Page : Cardinality({c \in pagemap[p].ACCESSLIST : Waiting(c, p)}) <= 1

(* A page a kernel waits for is never forgotten: its request is queued, or *)
(* it is on WAITLIST, or the answer is on its way.                         *)
RequestAccounted ==
  Serving => \A c \in alive, p \in Page : asked[c][p] = "data" =>
    \/ InPort(LAMBDA m : m.op = "data_request" /\ m.client = c /\ m.page = p)
    \/ Waiting(c, p)
    \/ InCtl(c, LAMBDA m : m.op \in {"data_supply", "data_error"} /\ m.page = p)

(* A kernel that waits for write access to a page it reads: its request is *)
(* queued, or somebody waits for the page (so it will be flushed), or the  *)
(* answer or a flush is on its way.  data_unlock may drop a request only   *)
(* when "we're either already trying to flush everything on ACCESSLIST, or *)
(* will, including this client" (NOTES:490).                               *)
UnlockAccounted ==
  Serving => \A c \in alive, p \in Page : asked[c][p] = "unlock" =>
    \/ InPort(LAMBDA m : m.op = "data_unlock" /\ m.client = c /\ m.page = p)
    \/ pagemap[p].WAITLIST # <<>>
    \/ InCtl(c, LAMBDA m : \/ m.op = "unlock" /\ m.page = p
                           \/ m.op = "lock_request" /\ m.flush /\ p \in PagesIn(m.range))

(* PAGINGOUT is set exactly while a write of the page is in progress       *)
(* (pagemap.h:98-99): requests that wait for it are not forgotten.  The    *)
(* write is the only entry of WRITEWAIT, a list the code expects to grow.  *)
PagingOut ==
  Running =>
    /\ IF worker.pc \in {"write", "evict"}
       THEN Len(WRITEWAIT) = 1 /\ WRITEWAIT[1].page = worker.page
       ELSE WRITEWAIT = <<>>
    /\ \A p \in Page : pagemap[p].PAGINGOUT <=> worker.pc = "write" /\ worker.page = p

(* The assertions of pagemap.cc hold. *)
AssertionsHold == Running

(* "a client not on ACCESSLIST does not possess the page" (NOTES:876). *)
AccessListSound ==
  Running /\ right => \A c \in Client, p \in Page :
    mem[c][p].held => c \in pagemap[p].ACCESSLIST

(* "write access to a page is exclusive to a single client" (NOTES:1076). *)
ExclusiveWriter ==
  \A c, d \in Client, p \in Page :
    c # d /\ mem[c][p].held /\ mem[c][p].write => ~ (mem[d][p].held /\ mem[d][p].write)

(* Sync and return calls that wait: what had been modified when the call   *)
(* was made is on the backing store when it leaves (pager.h:88).           *)
Durable(t) ==
  RETURN(thread[t].call) =>
    \A p \in PagesIn(thread[t].call.range) : store[p].data >= since[t][p]

(* ...for the calls that had to wait for a kernel's reply. *)
DurableAfterWait ==
  [][\A t \in Thread :
       /\ thread[t].at \in {"locks_woken", "written_woken"}
       /\ thread'[t].at \in {"destroy", "done"}
       => Durable(t)]_vars

(* ...for every call. *)
SyncDurable == \A t \in Thread : thread[t].at = "done" /\ thread[t].call.wait => Durable(t)

(* pager_notify_evict is called for a page "when page is evicted"          *)
(* (pager.h:65): no kernel has it.                                         *)
NotifyEvicted ==
  Running /\ worker.pc # "idle" /\ worker.notify =>
    \A c \in Client : ~ mem[c][worker.page].held

(* INVALID indicates that "the backing store data is invalid because we    *)
(* got an error return from a write attempt" (pagemap.h:105).              *)
InvalidKnown ==
  Running /\ worker.pc = "idle" => \A p \in Page : ~ store[p].ok => pagemap[p].INVALID

(* "all data requests are properly answered with a data supply or a data   *)
(* error" (NOTES:1079).                                                    *)
RequestsAnswered ==
  \A c \in Client, p \in Page :
    asked[c][p] = "data" ~> (asked[c][p] = "none" \/ ~ Running)

(* A thread that has entered lock_object leaves it, unless an assertion    *)
(* has ended the program or another thread's shutdown has destroyed the    *)
(* port the replies come to.                                               *)
SyncReturns ==
  \A t \in Thread : thread[t].at # "idle" ~> (thread[t].at = "done" \/ ~ Running \/ ~ right)
=============================================================================
