-------------------------- MODULE ChangeAttributes --------------------------
(***************************************************************************)
(* pager::change_attributes (libpager/pagemap.cc): a translator's thread   *)
(* asks every client of a pager for new attributes and, with sync set,     *)
(* waits for each one's answer on a reply port of its own, with the pager  *)
(* unlocked while it waits.  A client that terminates or dies meanwhile    *)
(* never answers: drop_client answers for it.                              *)
(*                                                                         *)
(* The handlers object_init, object_terminate and dead_name are here for   *)
(* what they do to clients and outstanding_change_requests; what they do   *)
(* to pages and locks is in module Pager.  Every action but                *)
(* the kernels' and mach_msg_receive is a segment with the pager locked.   *)
(***************************************************************************)
EXTENDS Integers, Sequences, FiniteSets

CONSTANTS
  Client,   \* the control ports of the kernels that may map the object
  Thread,   \* the translator's threads that call change_attributes
  NCalls    \* how many calls they make (a bound)

ASSUME ClientAssumption == IsFiniteSet(Client)
ASSUME NCallsAssumption == NCalls \in Nat

VARIABLES
  clients, outstanding_change_requests, terminating,
  pc,                  \* where each thread is in change_attributes
  calls,               \* how many calls have been made
  locks_outstanding,
  portset,             \* the reply ports in each thread's port set
  msgh_local_port,     \* the reply port of the message the thread received
  queued,              \* the change_completed messages queued on each reply port
  kernel,              \* each client's kernel
  control,             \* the requests its kernel has not handled
  object,              \* the messages from it that the pager has not handled
  unnoticed            \* the clients whose death nobody will report

threadVars == <<pc, calls, locks_outstanding, portset, msgh_local_port>>
kernelVars == <<kernel, control, object>>
vars == <<clients, outstanding_change_requests, terminating, threadVars, queued,
          kernelVars, unnoticed>>

(* The reply port that a thread allocates for a client in the n-th call.   *)
(* It stands for outstanding_change_request's (client, reply) as well.     *)
Reply == Thread \X (1..NCalls) \X Client
ThreadOf(reply) == reply[1]
ClientOf(reply) == reply[3]
MACH_PORT_NULL == <<>>

Elements(s) == {s[i] : i \in DOMAIN s}

Init ==
  /\ clients = {} /\ outstanding_change_requests = {} /\ terminating = FALSE
  /\ pc = [t \in Thread |-> "idle"]
  /\ calls = 0
  /\ locks_outstanding = [t \in Thread |-> 0]
  /\ portset = [t \in Thread |-> {}]
  /\ msgh_local_port = [t \in Thread |-> MACH_PORT_NULL]
  /\ queued = [r \in Reply |-> 0]
  /\ kernel = [c \in Client |-> "unborn"]
  /\ control = [c \in Client |-> <<>>]
  /\ object = [c \in Client |-> <<>>]
  /\ unnoticed = {}

-----------------------------------------------------------------------------
(* The kernels: external. *)

Tell(c, message) == object' = [object EXCEPT ![c] = Append(@, message)]

memory_object_init(c) ==
  /\ kernel[c] = "unborn"
  /\ kernel' = [kernel EXCEPT ![c] = "up"]
  /\ Tell(c, "object_init")
  /\ UNCHANGED <<clients, outstanding_change_requests, terminating, threadVars, queued, control, unnoticed>>

(* A kernel applies the next request and answers it if there is a reply    *)
(* port; the answer to a port that is gone is lost.                        *)
memory_object_change_attributes(c) ==
  /\ kernel[c] = "up" /\ control[c] # <<>>
  /\ control' = [control EXCEPT ![c] = Tail(@)]
  /\ queued' = [r \in Reply |->
                  IF r = Head(control[c]) /\ (\E t \in Thread : r \in portset[t])
                  THEN queued[r] + 1 ELSE queued[r]]
  /\ UNCHANGED <<clients, outstanding_change_requests, terminating, threadVars, kernel, object, unnoticed>>

(* It handles nothing after memory_object_terminate, whose message carries *)
(* the control port away.                                                  *)
memory_object_terminate(c) ==
  /\ kernel[c] = "up"
  /\ kernel' = [kernel EXCEPT ![c] = "terminated"]
  /\ Tell(c, "object_terminate")
  /\ UNCHANGED <<clients, outstanding_change_requests, terminating, threadVars, queued, control, unnoticed>>

(* The dead name notification comes if object_init has asked for it. *)
Die(c) ==
  /\ kernel[c] = "up"
  /\ kernel' = [kernel EXCEPT ![c] = "dead"]
  /\ IF c \in clients THEN Tell(c, "dead_name") ELSE UNCHANGED object
  /\ UNCHANGED <<clients, outstanding_change_requests, terminating, threadVars, queued, control, unnoticed>>

-----------------------------------------------------------------------------
(* The pager's handlers. *)

Handle(c, message) ==
  /\ object[c] # <<>> /\ Head(object[c]) = message
  /\ object' = [object EXCEPT ![c] = Tail(@)]

(* For a kernel that has died since it sent the message the notification   *)
(* is refused, with a warning: the client stays, and nobody reports it.    *)
object_init(c) ==
  /\ Handle(c, "object_init")
  /\ clients' = IF terminating THEN clients ELSE clients \cup {c}
  /\ unnoticed' = IF ~ terminating /\ kernel[c] = "dead" THEN unnoticed \cup {c} ELSE unnoticed
  /\ UNCHANGED <<outstanding_change_requests, terminating, threadVars, queued, kernel, control>>

(* Mutant: no answer is sent for the client. *)
no_fakes(c) == {}

(* Mutant: it->client == control is not tested. *)
all_fakes(c) == outstanding_change_requests

(* drop_client: the pending requests it answers itself. *)
fakes(c) == {r \in outstanding_change_requests : ClientOf(r) = c}

drop_client(c) ==
  /\ queued' = [r \in Reply |-> IF r \in fakes(c) THEN queued[r] + 1 ELSE queued[r]]
  /\ clients' = clients \ {c}
  /\ UNCHANGED <<outstanding_change_requests, terminating, threadVars, kernel, control, unnoticed>>

(* Mutant: the client's ports are destroyed, and the client kept. *)
object_terminate_ports_only(c) ==
  /\ Handle(c, "object_terminate")
  /\ UNCHANGED <<queued, clients, outstanding_change_requests, terminating, threadVars, kernel,
                 control, unnoticed>>

object_terminate(c) ==
  /\ Handle(c, "object_terminate")
  /\ drop_client(c)

dead_name(c) ==
  /\ Handle(c, "dead_name")
  /\ drop_client(c)

shutdown ==
  /\ ~ terminating
  /\ terminating' = TRUE
  /\ UNCHANGED <<clients, outstanding_change_requests, threadVars, queued, kernelVars, unnoticed>>

-----------------------------------------------------------------------------
(* change_attributes. *)

(* locks_outstanding once every client has been asked. *)
Asked == Cardinality(clients)

change_attributes(t) ==
  /\ pc[t] = "idle" /\ calls < NCalls
  /\ calls' = calls + 1
  /\ control' = [c \in Client |->
                   IF c \in clients THEN Append(control[c], MACH_PORT_NULL) ELSE control[c]]
  /\ UNCHANGED <<clients, outstanding_change_requests, terminating, pc, locks_outstanding, portset,
                 msgh_local_port, queued, kernel, object, unnoticed>>

(* With sync: the call waits unless the pager has no client. *)
change_attributes_sync(t) ==
  /\ pc[t] = "idle" /\ calls < NCalls
  /\ LET n == calls + 1
         replies == {<<t, n, c>> : c \in clients}
     IN /\ calls' = n
        /\ control' = [c \in Client |->
                         IF c \in clients THEN Append(control[c], <<t, n, c>>) ELSE control[c]]
        /\ outstanding_change_requests' = outstanding_change_requests \cup replies
        /\ portset' = [portset EXCEPT ![t] = replies]
        /\ locks_outstanding' = [locks_outstanding EXCEPT ![t] = Asked]
        /\ pc' = [pc EXCEPT ![t] = IF Asked = 0 THEN "idle" ELSE "waiting"]
  /\ UNCHANGED <<clients, terminating, msgh_local_port, queued, kernel, object, unnoticed>>

(* mach_msg on the port set, with the pager unlocked. *)
mach_msg_receive(t) ==
  /\ pc[t] = "waiting"
  /\ \E r \in portset[t] :
       /\ queued[r] > 0
       /\ queued' = [queued EXCEPT ![r] = @ - 1]
       /\ msgh_local_port' = [msgh_local_port EXCEPT ![t] = r]
  /\ pc' = [pc EXCEPT ![t] = "received"]
  /\ UNCHANGED <<clients, outstanding_change_requests, terminating, calls, locks_outstanding, portset,
                 kernelVars, unnoticed>>

(* Mutant: the search for the entry stops at the wrong one, or at none. *)
entries_without(reply) == outstanding_change_requests

(* outstanding_change_requests without the entry of a reply port. *)
entries_but(reply) == outstanding_change_requests \ {reply}

(* The rest of an iteration, with the pager locked again: messages still   *)
(* queued on the reply port go with it.                                    *)
change_completed(t) ==
  /\ pc[t] = "received"
  /\ LET r == msgh_local_port[t]
     IN /\ outstanding_change_requests' = entries_but(r)
        /\ portset' = [portset EXCEPT ![t] = @ \ {r}]
        /\ queued' = [queued EXCEPT ![r] = 0]
  /\ locks_outstanding' = [locks_outstanding EXCEPT ![t] = @ - 1]
  /\ msgh_local_port' = [msgh_local_port EXCEPT ![t] = MACH_PORT_NULL]
  /\ pc' = [pc EXCEPT ![t] = IF locks_outstanding[t] = 1 THEN "idle" ELSE "waiting"]
  /\ UNCHANGED <<clients, terminating, calls, kernelVars, unnoticed>>

-----------------------------------------------------------------------------
Kernel(c) ==
  \/ memory_object_init(c) \/ memory_object_change_attributes(c)
  \/ memory_object_terminate(c) \/ Die(c)

Handlers(c) == object_init(c) \/ object_terminate(c) \/ dead_name(c)

Calls(t) ==
  \/ change_attributes(t) \/ change_attributes_sync(t)
  \/ mach_msg_receive(t) \/ change_completed(t)

Next ==
  \/ \E c \in Client : Kernel(c) \/ Handlers(c)
  \/ \E t \in Thread : Calls(t)
  \/ shutdown

(* A thread that can go on does, a live kernel handles its requests, and   *)
(* the demuxer's workers handle the messages (module Demuxer).             *)
Fairness ==
  /\ \A t \in Thread : WF_vars(mach_msg_receive(t) \/ change_completed(t))
  /\ \A c \in Client : WF_vars(memory_object_change_attributes(c)) /\ WF_vars(Handlers(c))

Spec == Init /\ [][Next]_vars
FairSpec == Spec /\ Fairness

-----------------------------------------------------------------------------
(* Types: in particular no thread waits for more answers than there are    *)
(* clients, and a message is one that the ports' protocol allows.          *)
TypeOK ==
  /\ clients \subseteq Client /\ unnoticed \subseteq Client
  /\ outstanding_change_requests \subseteq Reply
  /\ terminating \in BOOLEAN
  /\ pc \in [Thread -> {"idle", "waiting", "received"}]
  /\ calls \in 0..NCalls
  /\ locks_outstanding \in [Thread -> 0..Cardinality(Client)]
  /\ portset \in [Thread -> SUBSET Reply]
  /\ msgh_local_port \in [Thread -> Reply \cup {MACH_PORT_NULL}]
  /\ queued \in [Reply -> Nat]
  /\ kernel \in [Client -> {"unborn", "up", "terminated", "dead"}]
  /\ control \in [Client -> Seq(Reply \cup {MACH_PORT_NULL})]
  /\ object \in [Client -> Seq({"object_init", "object_terminate", "dead_name"})]

(* The answers a thread still has to receive. *)
Awaited(t) == portset[t] \ {msgh_local_port[t]}

(* An answer is in its port, or will come: a living kernel has the         *)
(* request, or the message that makes drop_client answer is on its way to  *)
(* a pager that still has the request on record.                           *)
Coming(r) ==
  LET c == ClientOf(r)
  IN \/ queued[r] > 0
     \/ kernel[c] = "up" /\ r \in Elements(control[c])
     \/ /\ {"object_terminate", "dead_name"} \cap Elements(object[c]) # {}
        /\ r \in outstanding_change_requests

(* Every answer that change_attributes still waits for (pagemap.cc:544) is *)
(* in its port or will come.  The one exception is the answer of a client  *)
(* that died before its object_init was handled.                           *)
Answered ==
  \A t \in Thread : \A r \in Awaited(t) : Coming(r) \/ ClientOf(r) \in unnoticed

(* outstanding_change_requests holds exactly the reply ports that exist,   *)
(* so drop_client never answers to a port that is gone, and each thread    *)
(* waits for as many answers as it has ports; a call that has returned     *)
(* leaves neither, which ~pager asserts (pagemap.cc:997).                  *)
PortsFreed ==
  /\ outstanding_change_requests = UNION {portset[t] : t \in Thread}
  /\ \A t \in Thread : /\ locks_outstanding[t] = Cardinality(portset[t])
                       /\ pc[t] = "idle" <=> portset[t] = {}

(* A request that a living kernel has not applied is still awaited by the  *)
(* thread that made it: when change_attributes with sync returns, every    *)
(* client it asked whose kernel lives has applied the request, and no      *)
(* fake answer and no answer to another call was taken for that client's.  *)
Completed ==
  \A c \in Client : kernel[c] = "up" =>
    \A r \in Elements(control[c]) \ {MACH_PORT_NULL} : r \in Awaited(ThreadOf(r))

(* change_attributes returns, whatever clients terminate or die while it   *)
(* waits, unless one that it asked had died before its object_init was     *)
(* handled.                                                                *)
CallsReturn ==
  \A t \in Thread :
    pc[t] # "idle" ~> pc[t] = "idle" \/ \E r \in portset[t] : ClientOf(r) \in unnoticed
=============================================================================
