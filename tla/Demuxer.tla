------------------------------ MODULE Demuxer ------------------------------
(***************************************************************************)
(* libpager/demuxer.c: one thread receives the messages of a port bucket   *)
(* and queues them, a pool of workers runs their handlers, and a           *)
(* translator may inhibit the workers and resume them.                     *)
(*                                                                         *)
(* A step runs with requests->lock held.  Where a worker keeps the lock    *)
(* over several steps (its get_request_locked loop) its pc is "locked" and *)
(* nobody else can take the lock.  The code sets WORKER_COUNT to 1 and is  *)
(* written for any number; Worker is any set of workers.                   *)
(***************************************************************************)
EXTENDS Integers, Sequences, FiniteSets

CONSTANTS
  Worker,        \* the worker threads
  Object,        \* the ports of the bucket (msgh_local_port)
  NoObject,      \* the tag 0
  MaxRequests    \* bound on the requests to one object

ASSUME WorkerAssumption == Worker # {} /\ IsFiniteSet(Worker)
ASSUME ObjectAssumption == NoObject \notin Object
ASSUME MaxRequestsAssumption == MaxRequests \in Nat

VARIABLES
  received,    \* received[o]: how many requests to o have been queued
  queue_out,   \* the queue to take from
  queue_new,   \* the new queue_in, while the workers are inhibited
  split,       \* queue_in # queue_out
  queue,       \* queue[w]: requests delegated to w
  tag,         \* tag[w]: the object w works on
  request,     \* request[w]: the request w executes, or executed last
  pc,          \* pc[w]
  inhibitor    \* where the translator is with inhibiting the workers

vars == <<received, queue_out, queue_new, split, queue, tag, request, pc, inhibitor>>

(* A request to an object; n numbers them in the order of their arrival. *)
Request == [object : Object, n : Nat \ {0}]
NoRequest == [object |-> NoObject, n |-> 0]

TypeOK ==
  /\ received \in [Object -> 0 .. MaxRequests]
  /\ queue_out \in Seq(Request)
  /\ queue_new \in Seq(Request)
  /\ split \in BOOLEAN
  /\ queue \in [Worker -> Seq(Request)]
  /\ tag \in [Worker -> Object \cup {NoObject}]
  /\ request \in [Worker -> Request \cup {NoRequest}]
  /\ pc \in [Worker -> {"unlocked", "running", "locked", "asleep", "woken"}]
  /\ inhibitor \in {"none", "waiting", "woken", "inhibiting"}

(* pager_start_workers *)
Init ==
  /\ received = [o \in Object |-> 0]
  /\ queue_out = <<>> /\ queue_new = <<>> /\ split = FALSE
  /\ queue = [w \in Worker |-> <<>>]
  /\ tag = [w \in Worker |-> NoObject]
  /\ request = [w \in Worker |-> NoRequest]
  /\ pc = [w \in Worker |-> "unlocked"]
  /\ inhibitor = "none"

LockFree == \A w \in Worker : pc[w] # "locked"

(* requests->asleep: a worker that has been signalled still counts until   *)
(* it has the lock again.                                                  *)
Asleep == {w \in Worker : pc[w] \in {"asleep", "woken"}}

(* Mutant: no signal. *)
SignalNobody == pc' = pc

(* pthread_cond_signal (&requests->wakeup) *)
SignalWorker ==
  LET sleepers == {w \in Worker : pc[w] = "asleep"}
  IN IF sleepers = {} THEN pc' = pc
     ELSE \E w \in sleepers : pc' = [pc EXCEPT ![w] = "woken"]

(* pager_demuxer; a request for which there is no memory is not queued.    *)
pager_demuxer(o) ==
  /\ LockFree
  /\ received[o] < MaxRequests
  /\ received' = [received EXCEPT ![o] = @ + 1]
  /\ LET r == [object |-> o, n |-> received[o] + 1]
     IN IF split THEN queue_new' = Append(queue_new, r) /\ UNCHANGED queue_out
        ELSE queue_out' = Append(queue_out, r) /\ UNCHANGED queue_new
  /\ IF Asleep # {} /\ ~ split THEN SignalWorker ELSE UNCHANGED pc
  /\ UNCHANGED <<split, queue, tag, request, inhibitor>>

----------------------------------------------------------------------------
(* The server routine returns and the reply is sent. *)
Return(w) ==
  /\ pc[w] = "running"
  /\ pc' = [pc EXCEPT ![w] = "unlocked"]
  /\ UNCHANGED <<received, queue_out, queue_new, split, queue, tag, request, inhibitor>>

(* The top of the loop: a request that was delegated to w... *)
TakeOwn(w) ==
  /\ pc[w] = "unlocked" /\ LockFree
  /\ queue[w] # <<>>
  /\ request' = [request EXCEPT ![w] = Head(queue[w])]
  /\ queue' = [queue EXCEPT ![w] = Tail(@)]
  /\ pc' = [pc EXCEPT ![w] = "running"]
  /\ UNCHANGED <<received, queue_out, queue_new, split, tag, inhibitor>>

(* ...or none: w clears its tag and keeps the lock. *)
ClearTag(w) ==
  /\ pc[w] = "unlocked" /\ LockFree
  /\ queue[w] = <<>>
  /\ tag' = [tag EXCEPT ![w] = NoObject]
  /\ pc' = [pc EXCEPT ![w] = "locked"]
  /\ UNCHANGED <<received, queue_out, queue_new, split, queue, request, inhibitor>>

(* get_request_locked: the first request is for an object v works on. *)
Delegate(w) ==
  /\ pc[w] = "locked"
  /\ queue_out # <<>>
  /\ \E v \in Worker :
       /\ tag[v] = Head(queue_out).object
       /\ queue' = [queue EXCEPT ![v] = Append(@, Head(queue_out))]
  /\ queue_out' = Tail(queue_out)
  /\ UNCHANGED <<received, queue_new, split, tag, request, pc, inhibitor>>

(* Mutant: the tags of the other workers are not looked at. *)
ClaimAny(w) ==
  /\ pc[w] = "locked"
  /\ queue_out # <<>>
  /\ tag' = [tag EXCEPT ![w] = Head(queue_out).object]
  /\ request' = [request EXCEPT ![w] = Head(queue_out)]
  /\ queue_out' = Tail(queue_out)
  /\ pc' = [pc EXCEPT ![w] = "running"]
  /\ UNCHANGED <<received, queue_new, split, queue, inhibitor>>

(* Mutant: the last request is taken. *)
ClaimLast(w) ==
  LET n == Len(queue_out) IN
  /\ pc[w] = "locked"
  /\ n > 0
  /\ \A v \in Worker : tag[v] # queue_out[n].object
  /\ tag' = [tag EXCEPT ![w] = queue_out[n].object]
  /\ request' = [request EXCEPT ![w] = queue_out[n]]
  /\ queue_out' = SubSeq(queue_out, 1, n - 1)
  /\ pc' = [pc EXCEPT ![w] = "running"]
  /\ UNCHANGED <<received, queue_new, split, queue, inhibitor>>

(* get_request_locked: nobody works on the object of the first request. *)
Claim(w) ==
  /\ pc[w] = "locked"
  /\ queue_out # <<>>
  /\ \A v \in Worker : tag[v] # Head(queue_out).object
  /\ tag' = [tag EXCEPT ![w] = Head(queue_out).object]
  /\ request' = [request EXCEPT ![w] = Head(queue_out)]
  /\ queue_out' = Tail(queue_out)
  /\ pc' = [pc EXCEPT ![w] = "running"]
  /\ UNCHANGED <<received, queue_new, split, queue, inhibitor>>

(* Mutant: the inhibitor is not signalled. *)
SleepSilently(w) ==
  /\ pc[w] = "locked"
  /\ queue_out = <<>>
  /\ pc' = [pc EXCEPT ![w] = "asleep"]
  /\ UNCHANGED <<received, queue_out, queue_new, split, queue, tag, request, inhibitor>>

(* get_request_locked: no request; the last worker to fall asleep          *)
(* signals the inhibitor.                                                  *)
Sleep(w) ==
  /\ pc[w] = "locked"
  /\ queue_out = <<>>
  /\ pc' = [pc EXCEPT ![w] = "asleep"]
  /\ inhibitor' = IF inhibitor = "waiting" /\ Worker \ {w} \subseteq Asleep
                  THEN "woken" ELSE inhibitor
  /\ UNCHANGED <<received, queue_out, queue_new, split, queue, tag, request>>

(* pthread_cond_wait returns to a worker that was signalled. *)
Wake(w) ==
  /\ pc[w] = "woken" /\ LockFree
  /\ pc' = [pc EXCEPT ![w] = "locked"]
  /\ UNCHANGED <<received, queue_out, queue_new, split, queue, tag, request, inhibitor>>

(* pthread_cond_wait may also return without a signal. *)
SpuriousWake(w) ==
  /\ pc[w] = "asleep"
  /\ pc' = [pc EXCEPT ![w] = "woken"]
  /\ UNCHANGED <<received, queue_out, queue_new, split, queue, tag, request, inhibitor>>

----------------------------------------------------------------------------
(* Mutant: queue_out may still hold requests. *)
AllAsleep == Asleep = Worker

Drained == Asleep = Worker /\ queue_out = <<>>

(* pager_inhibit_workers up to its return or its first wait. *)
pager_inhibit_workers ==
  /\ inhibitor = "none" /\ LockFree
  /\ split' = TRUE
  /\ queue_new' = <<>>
  /\ inhibitor' = IF Drained THEN "inhibiting" ELSE "waiting"
  /\ UNCHANGED <<received, queue_out, queue, tag, request, pc>>

(* pager_inhibit_workers after a wait. *)
InhibitorWakes ==
  /\ inhibitor = "woken" /\ LockFree
  /\ inhibitor' = IF Drained THEN "inhibiting" ELSE "waiting"
  /\ UNCHANGED <<received, queue_out, queue_new, split, queue, tag, request, pc>>

InhibitorSpuriousWake ==
  /\ inhibitor = "waiting"
  /\ inhibitor' = "woken"
  /\ UNCHANGED <<received, queue_out, queue_new, split, queue, tag, request, pc>>

(* Mutant: no broadcast. *)
ResumeSilently ==
  /\ inhibitor = "inhibiting" /\ LockFree
  /\ queue_out' = queue_new
  /\ queue_new' = <<>>
  /\ split' = FALSE
  /\ inhibitor' = "none"
  /\ UNCHANGED <<received, queue, tag, request, pc>>

(* pager_resume_workers, by the translator that has inhibited them. *)
pager_resume_workers ==
  /\ inhibitor = "inhibiting" /\ LockFree
  /\ queue_out' = queue_new
  /\ queue_new' = <<>>
  /\ split' = FALSE
  /\ pc' = [w \in Worker |-> IF pc[w] = "asleep" THEN "woken" ELSE pc[w]]
  /\ inhibitor' = "none"
  /\ UNCHANGED <<received, queue, tag, request>>

WorkerStep(w) ==
  \/ Return(w) \/ TakeOwn(w) \/ ClearTag(w) \/ Delegate(w) \/ Claim(w) \/ Sleep(w) \/ Wake(w)

Next ==
  \/ \E o \in Object : pager_demuxer(o)
  \/ \E w \in Worker :
       \/ Return(w) \/ TakeOwn(w) \/ ClearTag(w) \/ Delegate(w) \/ Claim(w)
       \/ Sleep(w) \/ Wake(w) \/ SpuriousWake(w)
  \/ pager_inhibit_workers \/ InhibitorWakes \/ InhibitorSpuriousWake
  \/ pager_resume_workers

Spec == Init /\ [][Next]_vars

(* A worker that can run does, and one that waits for the lock gets it in  *)
(* the end.  Handlers return.  A translator that has inhibited the workers *)
(* resumes them.  Nothing is owed by the senders of requests.              *)
Fairness ==
  /\ \A w \in Worker : /\ WF_vars(Return(w))
                       /\ WF_vars(Delegate(w) \/ Claim(w) \/ Sleep(w))
                       /\ SF_vars(TakeOwn(w) \/ ClearTag(w))
                       /\ SF_vars(Wake(w))
  /\ SF_vars(InhibitorWakes)
  /\ SF_vars(pager_resume_workers)

FairSpec == Spec /\ Fairness

----------------------------------------------------------------------------
Running(w, o) == pc[w] = "running" /\ request[w].object = o

(* No two workers run handlers of the same object at the same time: the    *)
(* handlers of one pager rely on it (demuxer.c:35-40).                     *)
ObjectExclusive ==
  \A o \in Object : \A v, w \in Worker : Running(v, o) /\ Running(w, o) => v = w

(* From the return of pager_inhibit_workers to pager_resume_workers no     *)
(* handler runs and no request from before is left in any queue (pager.h:  *)
(* "blocking until all requests sent before this function is called have   *)
(* finished"), so the assertions of pager_resume_workers hold when it gets *)
(* the lock.                                                               *)
InhibitQuiet ==
  inhibitor = "inhibiting" =>
    /\ split /\ queue_out = <<>>
    /\ \A w \in Worker : pc[w] # "running" /\ queue[w] = <<>>
    /\ LockFree => Asleep = Worker

(* A request is not left in queue_out with every worker asleep and nobody  *)
(* signalled: pager_demuxer's single signal and the broadcast of           *)
(* pager_resume_workers are enough.                                        *)
NoLostSignal ==
  queue_out # <<>> => \E w \in Worker : pc[w] # "asleep"

(* The requests of a queue to object o. *)
Numbers(q, o) ==
  LET mine == SelectSeq(q, LAMBDA r : r.object = o)
  IN [i \in 1 .. Len(mine) |-> mine[i].n]

Delegated(o) ==
  IF \E w \in Worker : tag[w] = o
  THEN Numbers(queue[CHOOSE w \in Worker : tag[w] = o], o) ELSE <<>>

Pending(o) == Delegated(o) \o Numbers(queue_out, o) \o Numbers(queue_new, o)

Fifo == INSTANCE ObjectFifo WITH
  arrived <- received,
  pending <- [o \in Object |-> Pending(o)],
  busy <- [o \in Object |-> IF \E w \in Worker : Running(w, o)
                            THEN request[CHOOSE w \in Worker : Running(w, o)].n ELSE 0]

(* Every object's requests are processed one at a time in the order they   *)
(* were received, whichever workers run them and whenever the workers are  *)
(* inhibited ("The requests to an object O have to be processed in the     *)
(* order they were received", demuxer.c:35).                               *)
InOrder == Fifo!FifoSpec

(* pager_inhibit_workers returns, although requests keep arriving. *)
InhibitReturns == inhibitor = "waiting" ~> inhibitor = "inhibiting"

(* Every request that has been queued is processed in the end, whichever   *)
(* queue it goes through on its way.                                       *)
AllProcessed ==
  \A o \in Object : \A n \in 1 .. MaxRequests :
    (\E i \in 1 .. Len(Pending(o)) : Pending(o)[i] = n)
      ~> (\E w \in Worker : Running(w, o) /\ request[w].n = n)
=============================================================================
