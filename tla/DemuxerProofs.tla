--------------------------- MODULE DemuxerProofs ---------------------------
(***************************************************************************)
(* The worker pool for every number of workers, objects and requests:      *)
(* type correctness, mutual exclusion per object, the quiet that           *)
(* pager_inhibit_workers promises, and that no signal is lost.             *)
(***************************************************************************)
EXTENDS Demuxer, TLAPS

(* Tags: a worker without the lock and not looking for work owns the       *)
(* object of its tag, nobody else has that tag, and what has been          *)
(* delegated to it is for that object.                                     *)
TagInv ==
  /\ \A w \in Worker : pc[w] = "running" => request[w].object = tag[w] /\ tag[w] # NoObject
  /\ \A v, w \in Worker : tag[v] = tag[w] /\ tag[v] # NoObject => v = w
  /\ \A w \in Worker : pc[w] \in {"locked", "asleep", "woken"} =>
                         tag[w] = NoObject /\ queue[w] = <<>>
  /\ \A w \in Worker : \A i \in 1 .. Len(queue[w]) : queue[w][i].object = tag[w]

(* requests->lock: one worker at a time is in get_request_locked. *)
LockInv == \A v, w \in Worker : pc[v] = "locked" /\ pc[w] = "locked" => v = w

(* While the workers are inhibited none of them has anything to do. *)
QuietInv ==
  inhibitor = "inhibiting" =>
    /\ split /\ queue_out = <<>>
    /\ \A w \in Worker : pc[w] \in {"locked", "asleep", "woken"}

(* The queues are apart exactly from pager_inhibit_workers to              *)
(* pager_resume_workers.                                                   *)
SplitInv == split <=> inhibitor # "none"

IInv == TypeOK /\ TagInv /\ LockInv /\ QuietInv /\ SplitInv /\ NoLostSignal

----------------------------------------------------------------------------
(* Every variable starts with its type. *)
LEMMA TypeInit == Init => TypeOK
<1> SUFFICES ASSUME Init PROVE TypeOK
  OBVIOUS
<1>1. received \in [Object -> 0 .. MaxRequests]
  BY MaxRequestsAssumption DEF Init
<1>2. queue_out \in Seq(Request) /\ queue_new \in Seq(Request) /\ queue \in [Worker -> Seq(Request)]
  BY DEF Init
<1>3. request \in [Worker -> Request \cup {NoRequest}]
  BY DEF Init
<1> QED
  BY <1>1, <1>2, <1>3 DEF Init, TypeOK

(* Every step keeps the types. *)
LEMMA TypeStep == TypeOK /\ [Next]_vars => TypeOK'
<1> SUFFICES ASSUME TypeOK, [Next]_vars PROVE TypeOK'
  OBVIOUS
<1> USE DEF TypeOK
<1>1. ASSUME NEW o \in Object, pager_demuxer(o) PROVE TypeOK'
  <2> DEFINE r == [object |-> o, n |-> received[o] + 1]
  <2>1. r \in Request
    BY DEF Request
  <2>2. Append(queue_out, r) \in Seq(Request) /\ Append(queue_new, r) \in Seq(Request)
    BY <2>1
  <2>3. received' \in [Object -> 0 .. MaxRequests]
    BY <1>1, MaxRequestsAssumption DEF pager_demuxer
  <2>4. queue_out' \in Seq(Request) /\ queue_new' \in Seq(Request)
    BY <1>1, <2>2 DEF pager_demuxer
  <2>5. pc' \in [Worker -> {"unlocked", "running", "locked", "asleep", "woken"}]
    BY <1>1 DEF pager_demuxer, SignalWorker
  <2> QED
    BY <1>1, <2>3, <2>4, <2>5 DEF pager_demuxer
<1>2. ASSUME NEW w \in Worker, Return(w) PROVE TypeOK'
  BY <1>2 DEF Return
<1>3. ASSUME NEW w \in Worker, TakeOwn(w) PROVE TypeOK'
  <2>1. queue[w] \in Seq(Request) /\ queue[w] # <<>>
    BY <1>3 DEF TakeOwn
  <2>2. Head(queue[w]) \in Request /\ Tail(queue[w]) \in Seq(Request)
    BY <2>1
  <2> QED
    BY <1>3, <2>2 DEF TakeOwn
<1>4. ASSUME NEW w \in Worker, ClearTag(w) PROVE TypeOK'
  BY <1>4 DEF ClearTag
<1>5. ASSUME NEW w \in Worker, Delegate(w) PROVE TypeOK'
  <2>1. Head(queue_out) \in Request /\ Tail(queue_out) \in Seq(Request)
    BY <1>5 DEF Delegate
  <2>2. PICK v \in Worker : queue' = [queue EXCEPT ![v] = Append(@, Head(queue_out))]
    BY <1>5 DEF Delegate
  <2>3. queue' \in [Worker -> Seq(Request)]
    BY <2>1, <2>2
  <2> QED
    BY <1>5, <2>1, <2>3 DEF Delegate
<1>6. ASSUME NEW w \in Worker, Claim(w) PROVE TypeOK'
  <2>1. Head(queue_out) \in Request /\ Tail(queue_out) \in Seq(Request)
    BY <1>6 DEF Claim
  <2>2. Head(queue_out).object \in Object
    BY <2>1 DEF Request
  <2> QED
    BY <1>6, <2>1, <2>2 DEF Claim
<1>7. ASSUME NEW w \in Worker, Sleep(w) PROVE TypeOK'
  BY <1>7 DEF Sleep
<1>8. ASSUME NEW w \in Worker, Wake(w) \/ SpuriousWake(w) PROVE TypeOK'
  BY <1>8 DEF Wake, SpuriousWake
<1>9. CASE pager_inhibit_workers
  BY <1>9 DEF pager_inhibit_workers
<1>10. CASE InhibitorWakes \/ InhibitorSpuriousWake
  BY <1>10 DEF InhibitorWakes, InhibitorSpuriousWake
<1>11. CASE pager_resume_workers
  <2>1. pc' \in [Worker -> {"unlocked", "running", "locked", "asleep", "woken"}]
    BY <1>11 DEF pager_resume_workers
  <2>2. queue_out' \in Seq(Request) /\ queue_new' \in Seq(Request)
    BY <1>11 DEF pager_resume_workers
  <2> QED
    BY <1>11, <2>1, <2>2 DEF pager_resume_workers
<1>12. CASE UNCHANGED vars
  BY <1>12 DEF vars
<1> QED
  BY <1>1, <1>2, <1>3, <1>4, <1>5, <1>6, <1>7, <1>8, <1>9, <1>10, <1>11, <1>12 DEF Next

(* Every variable keeps its type, whatever the pool does. *)
THEOREM TypeCorrect == Spec => []TypeOK
  BY TypeInit, TypeStep, PTL DEF Spec

----------------------------------------------------------------------------
(* The pool starts with nobody working and nothing queued. *)
LEMMA InvInit == Init => IInv
<1> SUFFICES ASSUME Init PROVE IInv
  OBVIOUS
<1>1. TypeOK
  BY TypeInit
<1>2. TagInv /\ LockInv
  BY DEF Init, TagInv, LockInv
<1>3. QuietInv /\ SplitInv /\ NoLostSignal
  BY DEF Init, QuietInv, SplitInv, NoLostSignal
<1> QED
  BY <1>1, <1>2, <1>3 DEF IInv

(* Every step of the demuxer, of a worker and of the inhibitor keeps the   *)
(* invariant.                                                              *)
LEMMA InvStep == IInv /\ [Next]_vars => IInv'
<1> SUFFICES ASSUME IInv, [Next]_vars PROVE IInv'
  OBVIOUS
<1> DEFINE Ctl == TagInv /\ LockInv /\ QuietInv /\ SplitInv /\ NoLostSignal
<1>0. TypeOK'
  BY TypeStep DEF IInv
<1> SUFFICES Ctl'
  BY <1>0 DEF IInv
<1> USE DEF IInv
<1>1. ASSUME NEW o \in Object, pager_demuxer(o) PROVE Ctl'
  <2>1. /\ \A w \in Worker : \/ pc'[w] = pc[w]
                             \/ pc[w] = "asleep" /\ pc'[w] = "woken"
        /\ UNCHANGED <<split, queue, tag, request, inhibitor>>
    BY <1>1 DEF pager_demuxer, SignalWorker, TypeOK
  <2>2. TagInv' /\ LockInv'
    BY <2>1 DEF TagInv, LockInv, TypeOK
  <2>3. QuietInv' /\ SplitInv'
    BY <1>1, <2>1 DEF QuietInv, SplitInv, pager_demuxer, TypeOK
  <2>4. NoLostSignal'
    <3>1. CASE split
      BY <3>1, <1>1 DEF pager_demuxer, NoLostSignal
    <3>2. CASE ~ split /\ \E w \in Worker : pc[w] = "asleep"
      BY <3>2, <1>1 DEF pager_demuxer, NoLostSignal, SignalWorker, Asleep, TypeOK
    <3>3. CASE \A w \in Worker : pc[w] # "asleep"
      BY <3>3, <2>1, WorkerAssumption DEF NoLostSignal
    <3> QED
      BY <3>1, <3>2, <3>3 DEF TypeOK
  <2> QED
    BY <2>2, <2>3, <2>4
<1>2. ASSUME NEW w \in Worker, Return(w) PROVE Ctl'
  BY <1>2 DEF Return, TagInv, LockInv, QuietInv, SplitInv, NoLostSignal, TypeOK
<1>3. ASSUME NEW w \in Worker, TakeOwn(w) PROVE Ctl'
  <2>1. queue[w] \in Seq(Request) /\ queue[w] # <<>> /\ 1 \in 1 .. Len(queue[w])
    BY <1>3 DEF TakeOwn, TypeOK
  <2>2. Head(queue[w]).object = tag[w] /\ tag[w] \in Object
    <3>1. Head(queue[w]) = queue[w][1] /\ Head(queue[w]) \in Request
      BY <2>1
    <3>2. queue[w][1].object = tag[w]
      BY <2>1 DEF TagInv
    <3> QED
      BY <3>1, <3>2 DEF Request
  <2>3. \A i \in 1 .. Len(Tail(queue[w])) : Tail(queue[w])[i].object = tag[w]
    BY <2>1 DEF TagInv
  <2>4. TagInv'
    <3>1. \A v \in Worker : \A i \in 1 .. Len(queue'[v]) : queue'[v][i].object = tag'[v]
      BY <1>3, <2>3 DEF TakeOwn, TagInv, TypeOK
    <3>2. \A v \in Worker : pc'[v] = "running" => request'[v].object = tag'[v] /\ tag'[v] # NoObject
      BY <1>3, <2>2, ObjectAssumption DEF TakeOwn, TagInv, TypeOK
    <3>3. \A v \in Worker : pc'[v] \in {"locked", "asleep", "woken"} =>
                              tag'[v] = NoObject /\ queue'[v] = <<>>
      BY <1>3 DEF TakeOwn, TagInv, TypeOK
    <3> QED
      BY <1>3, <3>1, <3>2, <3>3 DEF TakeOwn, TagInv
  <2>5. LockInv' /\ QuietInv' /\ SplitInv' /\ NoLostSignal'
    BY <1>3 DEF TakeOwn, LockInv, QuietInv, SplitInv, NoLostSignal, TypeOK
  <2> QED
    BY <2>4, <2>5
<1>4. ASSUME NEW w \in Worker, ClearTag(w) PROVE Ctl'
  BY <1>4 DEF ClearTag, LockFree, TagInv, LockInv, QuietInv, SplitInv, NoLostSignal, TypeOK
<1>5. ASSUME NEW w \in Worker, Delegate(w) PROVE Ctl'
  <2>1. queue_out # <<>> /\ Head(queue_out) \in Request
    BY <1>5 DEF Delegate, TypeOK
  <2>2. PICK v \in Worker : /\ tag[v] = Head(queue_out).object
                            /\ queue' = [queue EXCEPT ![v] = Append(@, Head(queue_out))]
    BY <1>5 DEF Delegate
  <2>3. tag[v] # NoObject
    BY <2>1, <2>2, ObjectAssumption DEF Request
  <2>4. \A i \in 1 .. Len(queue'[v]) : queue'[v][i].object = tag[v]
    BY <2>1, <2>2 DEF TagInv, TypeOK
  <2>5. \A u \in Worker \ {v} : queue'[u] = queue[u]
    BY <2>2 DEF TypeOK
  <2>6. TagInv'
    <3>1. UNCHANGED <<tag, request, pc>>
      BY <1>5 DEF Delegate
    <3>2. \A u \in Worker : \A i \in 1 .. Len(queue'[u]) : queue'[u][i].object = tag'[u]
      BY <3>1, <2>4, <2>5 DEF TagInv
    <3>3. \A u \in Worker : pc'[u] \in {"locked", "asleep", "woken"} =>
                              tag'[u] = NoObject /\ queue'[u] = <<>>
      BY <3>1, <2>3, <2>5 DEF TagInv
    <3> QED
      BY <3>1, <3>2, <3>3 DEF TagInv
  <2>7. LockInv' /\ QuietInv' /\ SplitInv' /\ NoLostSignal'
    BY <1>5, <2>1 DEF Delegate, LockInv, QuietInv, SplitInv, NoLostSignal, TypeOK
  <2> QED
    BY <2>6, <2>7
<1>6. ASSUME NEW w \in Worker, Claim(w) PROVE Ctl'
  BY <1>6 DEF Claim, TagInv, LockInv, QuietInv, SplitInv, NoLostSignal, TypeOK
<1>7. ASSUME NEW w \in Worker, Sleep(w) PROVE Ctl'
  BY <1>7 DEF Sleep, TagInv, LockInv, QuietInv, SplitInv, NoLostSignal, TypeOK
<1>8. ASSUME NEW w \in Worker, Wake(w) \/ SpuriousWake(w) PROVE Ctl'
  <2>1. TagInv'
    BY <1>8 DEF Wake, SpuriousWake, TagInv, TypeOK
  <2>2. LockInv'
    BY <1>8 DEF Wake, SpuriousWake, LockFree, LockInv, TypeOK
  <2>3. QuietInv' /\ SplitInv' /\ NoLostSignal'
    <3>1. pc' \in {[pc EXCEPT ![w] = "locked"], [pc EXCEPT ![w] = "woken"]}
      BY <1>8 DEF Wake, SpuriousWake
    <3>2. UNCHANGED <<queue_out, split, inhibitor>>
      BY <1>8 DEF Wake, SpuriousWake
    <3>3. \A v \in Worker : pc'[v] = pc[v] \/ pc'[v] \in {"locked", "woken"}
      BY <3>1 DEF TypeOK
    <3> QED
      BY <3>2, <3>3 DEF QuietInv, SplitInv, NoLostSignal
  <2> QED
    BY <2>1, <2>2, <2>3
<1>9. CASE pager_inhibit_workers \/ InhibitorWakes \/ InhibitorSpuriousWake
  BY <1>9 DEF pager_inhibit_workers, InhibitorWakes, InhibitorSpuriousWake, Drained, Asleep,
              TagInv, LockInv, QuietInv, SplitInv, NoLostSignal, TypeOK
<1>10. CASE pager_resume_workers
  BY <1>10, WorkerAssumption DEF pager_resume_workers, TagInv, LockInv, QuietInv, SplitInv, NoLostSignal, TypeOK
<1>11. CASE UNCHANGED vars
  BY <1>11 DEF vars, TagInv, LockInv, QuietInv, SplitInv, NoLostSignal
<1> QED
  BY <1>1, <1>2, <1>3, <1>4, <1>5, <1>6, <1>7, <1>8, <1>9, <1>10, <1>11 DEF Next

(* The strengthening holds throughout. *)
THEOREM Invariant == Spec => []IInv
  BY InvInit, InvStep, PTL DEF Spec

(* demuxer.c:35-40: two workers never run handlers of one object at once,  *)
(* however many workers there are.                                         *)
THEOREM MutualExclusion == Spec => []ObjectExclusive
<1>1. IInv => ObjectExclusive
  BY DEF IInv, TagInv, ObjectExclusive, Running
<1> QED
  BY <1>1, Invariant, PTL

(* While a translator holds the workers inhibited no handler runs and no   *)
(* earlier request is left.                                                *)
THEOREM Quiescence == Spec => []InhibitQuiet
<1>1. IInv => InhibitQuiet
  BY DEF IInv, TypeOK, TagInv, QuietInv, InhibitQuiet, LockFree, Asleep
<1> QED
  BY <1>1, Invariant, PTL

(* A queued request never finds every worker asleep and unsignalled. *)
THEOREM SignalKept == Spec => []NoLostSignal
<1>1. IInv => NoLostSignal
  BY DEF IInv
<1> QED
  BY <1>1, Invariant, PTL
=============================================================================
