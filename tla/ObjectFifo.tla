----------------------------- MODULE ObjectFifo -----------------------------
(***************************************************************************)
(* What the worker pool promises (demuxer.c:35): the requests to an object *)
(* are processed one at a time, in the order they were received.  Nothing  *)
(* is promised about requests to different objects.                        *)
(***************************************************************************)
EXTENDS Naturals, Sequences

CONSTANTS Object, MaxRequests

VARIABLES
  arrived,   \* arrived[o]: how many requests to o have been received
  pending,   \* pending[o]: those that wait
  busy       \* busy[o]: the one being processed, or 0

fifoVars == <<arrived, pending, busy>>

FifoInit ==
  /\ arrived = [o \in Object |-> 0]
  /\ pending = [o \in Object |-> <<>>]
  /\ busy = [o \in Object |-> 0]

Arrive(o) ==
  /\ arrived[o] < MaxRequests
  /\ arrived' = [arrived EXCEPT ![o] = @ + 1]
  /\ pending' = [pending EXCEPT ![o] = Append(@, arrived[o] + 1)]
  /\ UNCHANGED busy

Start(o) ==
  /\ busy[o] = 0 /\ pending[o] # <<>>
  /\ busy' = [busy EXCEPT ![o] = Head(pending[o])]
  /\ pending' = [pending EXCEPT ![o] = Tail(@)]
  /\ UNCHANGED arrived

Finish(o) ==
  /\ busy[o] # 0
  /\ busy' = [busy EXCEPT ![o] = 0]
  /\ UNCHANGED <<arrived, pending>>

FifoNext == \E o \in Object : Arrive(o) \/ Start(o) \/ Finish(o)

FifoSpec == FifoInit /\ [][FifoNext]_fifoVars
=============================================================================
