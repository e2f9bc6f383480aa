----------------------------- MODULE MachPorts -----------------------------
(***************************************************************************)
(* The port rights of one host, as far as netmsg's calls to Mach can tell  *)
(* them apart (external).  A name stands for one port and is never used    *)
(* again; netmsg and the user tasks of the host call a port by the same    *)
(* name.  User tasks receive a message the moment it is sent to them;      *)
(* messages to netmsg wait in the port's queue.                            *)
(*                                                                         *)
(*   recv    who has the receive right; "held": netmsg has it and has not  *)
(*           put it in its port set; "moving": it is in a message          *)
(*   usend   the send rights of all user tasks                             *)
(*   nsend   netmsg's references to its send right, or to its dead name    *)
(*   armed   the notifications netmsg has requested                        *)
(*   queue   the messages on the port                                      *)
(*                                                                         *)
(* A message carries at most one right (kind, port), or the name of a dead *)
(* port.  Its ghost fields to and what are the identity of the port it was *)
(* sent to and of the port whose right it carries.                         *)
(***************************************************************************)
EXTENDS Naturals, Sequences, FiniteSets

CONSTANT NNames   \* bound: names per host

ASSUME NamesAssumption == NNames \in Nat /\ NNames >= 3

Name == 1 .. NNames
MACH_PORT_NULL == 0

(* Ports every host starts with.  Name 1 is the translator's control port, *)
(* or the server's first_port.                                             *)
FIRST == 1
NOTIFICATION == 2
USER == 3

Host == {"client", "server"}
Peer(h) == IF h = "client" THEN "server" ELSE "client"
Identity == Host \X Name
Nobody == <<"client", NOTIFICATION>>

MsgId == {"msg", "NO_SENDERS", "DEAD_NAME"}
Kind == {"none", "send", "receive", "name"}
Message == [id : MsgId, kind : Kind, port : Name \cup {MACH_PORT_NULL},
            to : Identity, what : Identity]

Ports == [recv : [Name -> {"none", "user", "held", "netmsg", "moving", "dead"}],
          usend : [Name -> Nat], nsend : [Name -> Nat],
          armed : [Name -> SUBSET {"NO_SENDERS", "DEAD_NAME"}],
          queue : [Name -> Seq(Message)]]

Notification(id, kind, n) ==
  [id |-> id, kind |-> kind, port |-> n, to |-> Nobody, what |-> Nobody]

Carries(m, kind, n) == m.kind = kind /\ m.port = n
Queued(P, kind, n) ==
  \E d \in Name : \E i \in 1 .. Len(P.queue[d]) : Carries(P.queue[d][i], kind, n)

(* The last send right has gone and NO SENDERS was asked for.  The message *)
(* goes to the port itself, where netmsg asks for it.                      *)
Senderless(P, n) ==
  /\ "NO_SENDERS" \in P.armed[n]
  /\ P.usend[n] = 0 /\ P.nsend[n] = 0 /\ ~ Queued(P, "send", n)
Settle(P) ==
  [P EXCEPT
    !.queue = [n \in Name |->
       IF Senderless(P, n)
       THEN Append(P.queue[n], Notification("NO_SENDERS", "none", MACH_PORT_NULL))
       ELSE P.queue[n]],
    !.armed = [n \in Name |-> IF Senderless(P, n) THEN {} ELSE P.armed[n]]]

(* Port n dies, and with it the ports whose receive rights were on its     *)
(* queue.  DEAD NAME adds a reference to netmsg's dead name.               *)
Dying(P, n) == {n} \cup {k \in Name : \E i \in 1 .. Len(P.queue[n]) : Carries(P.queue[n][i], "receive", k)}
Bereaved(P, n) == {k \in Dying(P, n) : "DEAD_NAME" \in P.armed[k]}
Obituaries(D) ==
  LET dead == SelectSeq([n \in Name |-> n], LAMBDA n : n \in D)
  IN [i \in 1 .. Len(dead) |-> Notification("DEAD_NAME", "name", dead[i])]
DestroyReceive(P, n) ==
  Settle([P EXCEPT
    !.recv = [k \in Name |-> IF k \in Dying(P, n) THEN "dead" ELSE P.recv[k]],
    !.usend = [k \in Name |-> IF k \in Dying(P, n) THEN 0 ELSE P.usend[k]],
    !.nsend = [k \in Name |-> IF k \in Bereaved(P, n) THEN P.nsend[k] + 1 ELSE P.nsend[k]],
    !.armed = [k \in Name |-> IF k \in Dying(P, n) THEN {} ELSE P.armed[k]],
    !.queue = [k \in Name |->
       IF k = NOTIFICATION THEN P.queue[k] \o Obituaries(Bereaved(P, n))
       ELSE IF k \in Dying(P, n) THEN <<>> ELSE P.queue[k]]])
=============================================================================
