----------------------------- MODULE RunQueues -----------------------------
(***************************************************************************)
(* The run queues of netmsg (netmsg/netmsg.cc, class RunQueues): a deque   *)
(* of messages by destination port, and a thread for a port whose deque    *)
(* was empty when a message was pushed.                                    *)
(*                                                                         *)
(* push_back and run declare a unique_lock without a mutex, so nothing is  *)
(* locked: a step of this module is a statement that reads or writes a     *)
(* deque.  What two statements do to a deque at the very same time is left *)
(* out.  A thread is named after the message whose push started it.        *)
(***************************************************************************)
EXTENDS Integers, Sequences

CONSTANTS
  Queue,      \* the RunQueues objects
  Port,
  NMessages   \* bound: messages pushed on a RunQueues

Message == 1 .. NMessages
NONE == 0

VARIABLES
  dest,       \* by message: the port it is pushed for
  queue,      \* by object and port: the deque
  pushing,    \* by object: the message being pushed, and what empty was
  thread,     \* by object and thread: where it is, and the message it has
  undefined   \* objects on which the code's behaviour is undefined

rqvars == <<dest, queue, pushing, thread, undefined>>

RQInit ==
  /\ dest \in [Message -> Port]
  /\ queue = [q \in Queue |-> [p \in Port |-> <<>>]]
  /\ pushing = [q \in Queue |-> [msg |-> NONE, empty |-> FALSE]]
  /\ thread = [q \in Queue |-> [t \in Message |-> [pc |-> "none", msg |-> NONE]]]
  /\ undefined = {}

(* push_back looks whether the deque is empty ... *)
push_back(q, m) ==
  /\ pushing[q].msg = NONE
  /\ pushing' = [pushing EXCEPT ![q] = [msg |-> m, empty |-> queue[q][dest[m]] = <<>>]]
  /\ UNCHANGED <<dest, queue, thread, undefined>>

(* ... and then appends the message, and starts a thread if it was. *)
push_back_append(q) ==
  LET m == pushing[q].msg
  IN /\ m # NONE
     /\ queue' = [queue EXCEPT ![q][dest[m]] = Append(@, m)]
     /\ thread' = IF pushing[q].empty
                  THEN [thread EXCEPT ![q][m] = [pc |-> "take", msg |-> NONE]]
                  ELSE thread
     /\ pushing' = [pushing EXCEPT ![q] = [msg |-> NONE, empty |-> FALSE]]
     /\ UNCHANGED <<dest, undefined>>

(* Mutant: back() for front(). *)
run_back(q, t) ==
  LET d == queue[q][dest[t]]
  IN /\ thread[q][t].pc = "take"
     /\ IF d = <<>> \/ \E u \in Message \ {t} : thread[q][u].msg = d[Len(d)]
        THEN /\ undefined' = undefined \cup {q}
             /\ UNCHANGED thread
        ELSE /\ thread' = [thread EXCEPT ![q][t] = [pc |-> "handle", msg |-> d[Len(d)]]]
             /\ UNCHANGED undefined
     /\ UNCHANGED <<dest, queue, pushing>>

(* run: the first message of the deque is handled.  Two threads that have  *)
(* the same message both change it and both delete it, and the assertion   *)
(* fails on an empty deque: after either, nothing is known.                *)
run_front(q, t) ==
  LET d == queue[q][dest[t]]
  IN /\ thread[q][t].pc = "take"
     /\ IF d = <<>> \/ \E u \in Message \ {t} : thread[q][u].msg = Head(d)
        THEN /\ undefined' = undefined \cup {q}
             /\ UNCHANGED thread
        ELSE /\ thread' = [thread EXCEPT ![q][t] = [pc |-> "handle", msg |-> Head(d)]]
             /\ UNCHANGED undefined
     /\ UNCHANGED <<dest, queue, pushing>>

(* run: the handler has returned, the message is popped and deleted ... *)
run_pop(q, t) ==
  LET d == queue[q][dest[t]]
  IN /\ thread[q][t].pc = "pop"
     /\ queue' = [queue EXCEPT ![q][dest[t]] = IF d = <<>> THEN d ELSE Tail(d)]
     /\ undefined' = IF d = <<>> THEN undefined \cup {q} ELSE undefined
     /\ thread' = [thread EXCEPT ![q][t] = [pc |-> "test", msg |-> NONE]]
     /\ UNCHANGED <<dest, pushing>>

(* ... and the thread ends if the deque is empty. *)
run_test(q, t) ==
  /\ thread[q][t].pc = "test"
  /\ thread' = [thread EXCEPT ![q][t].pc = IF queue[q][dest[t]] = <<>> THEN "none" ELSE "take"]
  /\ UNCHANGED <<dest, queue, pushing, undefined>>

RQTypeOK ==
  /\ dest \in [Message -> Port]
  /\ \A q \in Queue, p \in Port : queue[q][p] \in Seq(Message)
  /\ pushing \in [Queue -> [msg : Message \cup {NONE}, empty : BOOLEAN]]
  /\ \A q \in Queue, t \in Message :
       /\ thread[q][t].pc \in {"none", "take", "handle", "locked", "pop", "test"}
       /\ thread[q][t].msg \in Message \cup {NONE}
  /\ undefined \subseteq Queue

(* A message in a deque has a thread that will come to it: "As each        *)
(* message completes processing, if there's anything left in the run       *)
(* queue, the top item starts processing.  It's all protected by a mutex   *)
(* lock" (netmsg.cc:392).                                                  *)
Served ==
  \A q \in Queue \ undefined, p \in Port :
    queue[q][p] # <<>> =>
      \E t \in Message : dest[t] = p /\ thread[q][t].pc # "none"
=============================================================================
