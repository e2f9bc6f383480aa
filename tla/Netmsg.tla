------------------------------- MODULE Netmsg -------------------------------
(***************************************************************************)
(* netmsg (netmsg/netmsg.cc): two processes that relay Mach messages over  *)
(* a TCP connection and keep tables of the ports each has seen of the      *)
(* other.                                                                  *)
(*                                                                         *)
(* Messages to one port are handled in order and messages to different     *)
(* ports in any order, as RunQueues intends.  A handler is one action: the *)
(* code runs handlers of different ports in threads of their own with no   *)
(* lock on the maps (netmsg.cc:2158), which this module leaves out.        *)
(* RunQueues has the queues as they are, Transport the bytes of a message  *)
(* on the connection.                                                      *)
(*                                                                         *)
(* Left out: send-once rights and reply ports, which have maps of their    *)
(* own (module ReplyPorts); the notifications SEND_ONCE and PORT_DELETED   *)
(* for the notification port, which change no map; data that is not a      *)
(* right; names used a second time.                                        *)
(***************************************************************************)
EXTENDS MachPorts

CONSTANTS
  Origins,    \* the hosts on which a user task has a port of its own
  Carried,    \* the kinds of rights user tasks put in messages
  MaxSend,    \* bound: messages user tasks send in all
  MaxRights,  \* bound: send rights user tasks of a host have to one port
  Deaths      \* user tasks may destroy their ports

VARIABLES
  host,           \* by host: its Mach ports and netmsg's tables
  ipc_run_queue,  \* by host and port: messages received and not yet handled
  stream,         \* by host: network messages it has sent, not yet handled
  aborted,        \* hosts whose netmsg has failed an assertion
  sent,           \* messages user tasks have sent
  moved           \* ghost: ports whose receive right has been in a message

vars == <<host, ipc_run_queue, stream, aborted, sent, moved>>

MACH_PORT_CONTROL == NNames + 1

(* netmsg's maps: "none" and MACH_PORT_NULL stand for no entry, "zero" for *)
(* the entry that operator[] makes when it finds none.  origin is a ghost: *)
(* the port a name stands for, be it the port itself or a proxy for it.    *)
NetmsgType == {"none", "zero", "RECEIVE", "SEND"}
Maps ==
  [local_port_type : [Name -> NetmsgType],
   remote_ports_by_local : [Name -> Name \cup {MACH_PORT_NULL}],
   local_ports_by_remote : [Name -> Name \cup {MACH_PORT_NULL}],
   origin : [Name -> Identity]]

NetMessage ==
  [dest : Name \cup {MACH_PORT_CONTROL}, translate : BOOLEAN, id : MsgId, kind : Kind,
   port : Name \cup {MACH_PORT_NULL}, flagged : BOOLEAN, to : Identity, what : Identity]

Init ==
  /\ host = [h \in Host |->
       [recv |-> [n \in Name |->
           CASE n = FIRST -> IF h = "client" THEN "netmsg" ELSE "user"
             [] n = NOTIFICATION -> "netmsg"
             [] n = USER -> IF h \in Origins THEN "user" ELSE "none"
             [] OTHER -> "none"],
        usend |-> [n \in Name |-> IF n = FIRST /\ h = "client" THEN 1 ELSE 0],
        nsend |-> [n \in Name |-> IF n = FIRST THEN 1 ELSE 0],
        armed |-> [n \in Name |-> {}],
        queue |-> [n \in Name |-> <<>>],
        local_port_type |-> [n \in Name |-> IF n = FIRST /\ h = "server" THEN "SEND" ELSE "none"],
        remote_ports_by_local |-> [n \in Name |-> MACH_PORT_NULL],
        local_ports_by_remote |-> [n \in Name |-> MACH_PORT_NULL],
        origin |-> [n \in Name |-> <<h, n>>]]]
  /\ ipc_run_queue = [h \in Host |-> [n \in Name |-> <<>>]]
  /\ stream = [h \in Host |-> <<>>]
  /\ aborted = {}
  /\ sent = 0
  /\ moved = {}

----------------------------------------------------------------------------
(* User tasks (external). *)

MakeSend(h, n) ==
  /\ n >= USER /\ host[h].recv[n] = "user" /\ host[h].usend[n] < MaxRights
  /\ host' = [host EXCEPT ![h].usend[n] = @ + 1]
  /\ UNCHANGED <<ipc_run_queue, stream, aborted, sent, moved>>

DropSend(h, n) ==
  /\ n >= USER /\ host[h].usend[n] > 0
  /\ host' = [host EXCEPT ![h] = Settle([@ EXCEPT !.usend[n] = @ - 1])]
  /\ UNCHANGED <<ipc_run_queue, stream, aborted, sent, moved>>

DestroyPort(h, n) ==
  /\ Deaths /\ n >= USER /\ host[h].recv[n] = "user"
  /\ host' = [host EXCEPT ![h] = DestroyReceive(@, n)]
  /\ UNCHANGED <<ipc_run_queue, stream, aborted, sent, moved>>

(* A message to a port that netmsg receives on.  Messages between tasks of *)
(* one host are none of netmsg's business.                                 *)
UserSend(h, d, kind, n) ==
  LET S == host[h]
      m == [id |-> "msg", kind |-> kind,
            port |-> IF kind = "none" THEN MACH_PORT_NULL ELSE n,
            to |-> S.origin[d], what |-> S.origin[n]]
  IN /\ sent < MaxSend
     /\ S.usend[d] > 0 /\ S.recv[d] \in {"held", "netmsg", "moving"}
     /\ kind = "send" => S.usend[n] > 0 /\ n >= USER
     /\ kind = "receive" => S.recv[n] = "user" /\ n >= USER
     /\ kind = "none" => n = d
     /\ host' = [host EXCEPT ![h].queue[d] = Append(@, m),
                             ![h].recv[n] = IF kind = "receive" THEN "moving" ELSE @]
     /\ sent' = sent + 1
     /\ moved' = IF kind = "receive" THEN moved \cup {S.origin[n]} ELSE moved
     /\ UNCHANGED <<ipc_run_queue, stream, aborted>>

----------------------------------------------------------------------------
(* ipcHandler: a message is received, and the right it carries with it. *)
ipcHandler(h, d) ==
  LET S == host[h]
      m == Head(S.queue[d])
      dead == m.port # MACH_PORT_NULL /\ m.kind \in {"send", "receive"} /\ S.recv[m.port] = "dead"
  IN /\ S.recv[d] = "netmsg" /\ S.queue[d] # <<>>
     /\ host' = [host EXCEPT ![h] =
          [S EXCEPT !.queue[d] = Tail(@),
                    !.nsend = [n \in Name |-> IF Carries(m, "send", n) /\ ~ dead THEN @[n] + 1 ELSE @[n]],
                    !.recv = [n \in Name |-> IF Carries(m, "receive", n) /\ ~ dead THEN "held" ELSE @[n]]]]
     /\ ipc_run_queue' = [ipc_run_queue EXCEPT ![h][d] =
          Append(@, IF dead THEN [m EXCEPT !.port = MACH_PORT_NULL] ELSE m)]
     /\ UNCHANGED <<stream, aborted, sent, moved>>

(* Mutant: one map keeps its entry. *)
EraseOneWay(S, n) ==
  [S EXCEPT !.local_port_type[n] = "none", !.remote_ports_by_local[n] = MACH_PORT_NULL]

(* A port leaves all three maps. *)
Erase(S, n) ==
  [S EXCEPT !.local_port_type[n] = "none",
            !.remote_ports_by_local[n] = MACH_PORT_NULL,
            !.local_ports_by_remote =
               [r \in Name |-> IF r = S.remote_ports_by_local[n] THEN MACH_PORT_NULL ELSE @[r]]]

(* Mutant: a port that came from the peer is not recognised. *)
NeverSeen(S, n) == FALSE

(* Port n stands for a port of the peer. *)
Seen(S, n) == n # MACH_PORT_NULL /\ S.remote_ports_by_local[n] # MACH_PORT_NULL

(* Mutant: the bits are not flipped. *)
Unflipped(s, port, fail) == [s |-> s, port |-> port, flagged |-> FALSE, fail |-> fail]

(* A port in the peer's name space: its bits are flipped to say so. *)
Flipped(s, port, fail) == [s |-> s, port |-> port, flagged |-> TRUE, fail |-> fail]

(* What translateForTransmission does with the right or name a message     *)
(* carries: the host after it, and the port as the network message has it. *)
Kept(s, n) == [s |-> s, port |-> n, flagged |-> FALSE, fail |-> FALSE]

(* Mutant: the send right that came with the message is not given up. *)
TransmitSendKeeping(S, n) ==
  IF Seen(S, n) THEN Flipped(S, S.remote_ports_by_local[n], S.local_port_type[n] # "RECEIVE")
  ELSE Kept([S EXCEPT !.local_port_type[n] = "SEND",
                      !.armed[n] = IF S.recv[n] = "dead" THEN @ ELSE @ \cup {"DEAD_NAME"}], n)

TransmitSend(S, n) ==
  IF Seen(S, n)
  THEN Flipped(Settle([S EXCEPT !.nsend[n] = @ - 1]), S.remote_ports_by_local[n],
               S.local_port_type[n] # "RECEIVE")
  ELSE Kept([S EXCEPT !.local_port_type[n] = "SEND",
                      !.armed[n] = IF S.recv[n] = "dead" THEN @ ELSE @ \cup {"DEAD_NAME"}], n)

TransmitReceive(S, n) ==
  LET listening == [S EXCEPT !.recv[n] = "netmsg", !.local_port_type[n] = "RECEIVE"]
  IN IF Seen(S, n)
     THEN Flipped(Settle([listening EXCEPT !.armed[n] = {"NO_SENDERS"}, !.nsend[n] = @ - 1]),
                  S.remote_ports_by_local[n], S.local_port_type[n] # "SEND")
     ELSE Kept(Settle([listening EXCEPT !.armed[n] = @ \cup {"NO_SENDERS"}]), n)

TransmitName(S, n) ==
  IF Seen(S, n) THEN Flipped(S, S.remote_ports_by_local[n], FALSE) ELSE Kept(S, n)

translateForTransmission(S, m) ==
  CASE m.port = MACH_PORT_NULL -> Kept(S, m.port)
    [] m.port # MACH_PORT_NULL /\ m.kind = "send" -> TransmitSend(S, m.port)
    [] m.port # MACH_PORT_NULL /\ m.kind = "receive" -> TransmitReceive(S, m.port)
    [] m.port # MACH_PORT_NULL /\ m.kind = "name" -> TransmitName(S, m.port)

(* The destination port of the network message, and what ipcBufferHandler  *)
(* does to the port the message came in on before it translates the rest.  *)
(* A DEAD NAME notification has the name's two references deallocated; a   *)
(* message to a port that is in no map is discarded.                       *)
Addressed(h, S, d, m) ==
  LET to(dest, translate, s, fail) ==
        [s |-> s, dest |-> dest, translate |-> translate, discard |-> FALSE, fail |-> fail]
      noted == [S EXCEPT !.nsend[m.port] = IF @ >= 2 THEN @ - 2 ELSE @,
                         !.local_port_type[m.port] = "none"]
      control == h = "client" /\ d = FIRST
      other == ~ control /\ d # NOTIFICATION
  IN CASE control -> to(MACH_PORT_CONTROL, FALSE, S, FALSE)
       [] d = NOTIFICATION ->
            to(MACH_PORT_CONTROL, FALSE, noted, S.local_port_type[m.port] \notin {"none", "SEND"})
       [] other /\ Seen(S, d) ->
            to(S.remote_ports_by_local[d], FALSE, S, S.local_port_type[d] # "RECEIVE")
       [] other /\ ~ Seen(S, d) ->
            [to(d, S.local_port_type[d] = "RECEIVE", S, FALSE) EXCEPT !.discard = S.local_port_type[d] = "none"]

(* A NO SENDERS notification deallocates the receive right it came in on. *)
NoMoreSenders(S, d, m) ==
  IF m.id = "NO_SENDERS" THEN Erase(DestroyReceive(S, d), d) ELSE S

ipcBufferHandler(h, d) ==
  LET S == host[h]
      m == Head(ipc_run_queue[h][d])
      a == Addressed(h, S, d, m)
      t == translateForTransmission(NoMoreSenders(a.s, d, m), m)
      fail == a.fail \/ (m.id = "NO_SENDERS" /\ S.local_port_type[d] # "RECEIVE") \/ t.fail
      out == [dest |-> a.dest, translate |-> a.translate, id |-> m.id, kind |-> m.kind,
              port |-> t.port, flagged |-> t.flagged, to |-> m.to, what |-> m.what]
  IN /\ ipc_run_queue[h][d] # <<>>
     /\ ipc_run_queue' = [ipc_run_queue EXCEPT ![h][d] = Tail(@)]
     /\ CASE a.discard -> UNCHANGED <<host, stream, aborted>>
          [] ~ a.discard /\ fail -> aborted' = aborted \cup {h} /\ UNCHANGED <<host, stream>>
          [] ~ a.discard /\ ~ fail ->
               /\ host' = [host EXCEPT ![h] = IF d = NOTIFICATION THEN Erase(t.s, m.port) ELSE t.s]
               /\ stream' = [stream EXCEPT ![h] = Append(@, out)]
               /\ UNCHANGED aborted
     /\ UNCHANGED <<sent, moved>>

----------------------------------------------------------------------------
(* A name Mach has not given out yet. *)
Fresh(S) == CHOOSE n \in Name : S.recv[n] = "none" /\ n > USER /\ \A k \in USER + 1 .. n - 1 : S.recv[k] # "none"

(* Mutant: the type is not recorded. *)
NewPortUntyped(S, remote, type, notification, what) ==
  LET n == Fresh(S) IN
  [S EXCEPT !.recv[n] = IF type = "RECEIVE" THEN "netmsg" ELSE "held",
            !.nsend[n] = 1, !.armed[n] = {notification},
            !.local_ports_by_remote[remote] = n, !.remote_ports_by_local[n] = remote,
            !.origin[n] = what]

(* A new port that stands for the peer's port remote. *)
NewPort(S, remote, type, notification, what) ==
  LET n == Fresh(S) IN
  [S EXCEPT !.recv[n] = IF type = "RECEIVE" THEN "netmsg" ELSE "held",
            !.nsend[n] = 1, !.armed[n] = {notification},
            !.local_ports_by_remote[remote] = n, !.remote_ports_by_local[n] = remote,
            !.local_port_type[n] = type, !.origin[n] = what]

(* The receive right of n comes back: netmsg keeps a send right, and the   *)
(* requests change.                                                        *)
GiveUpReceive(S, n) ==
  [S EXCEPT !.nsend[n] = @ + 1, !.armed[n] = {"DEAD_NAME"}, !.local_port_type[n] = "SEND"]

(* translatePort2 for a port the peer has flagged as one of ours, and for  *)
(* one in the peer's own name space: the host after it and the local name. *)
(* The right stays with netmsg, for the message to carry on; valid:        *)
(* netmsg really has it.                                                   *)
At(S, n) == [s |-> S, port |-> n, valid |-> TRUE, fail |-> FALSE]

OurPort(S, m) ==
  LET n == m.port
      typed == [S EXCEPT !.local_port_type[n] = IF @ = "none" THEN "zero" ELSE @]
      receive == S.local_port_type[n] = "RECEIVE"
      dead == S.recv[n] = "dead"
  IN CASE m.kind = "name" -> At(S, n)
       [] m.kind = "receive" -> [At(GiveUpReceive(S, n), n) EXCEPT
                                   !.fail = ~ receive \/ "DEAD_NAME" \in S.armed[n]]
       [] m.kind = "send" /\ receive -> At([S EXCEPT !.nsend[n] = @ + 1], n)
       [] m.kind = "send" /\ ~ receive /\ S.nsend[n] = 0 -> [At(typed, n) EXCEPT !.valid = FALSE]
       [] m.kind = "send" /\ ~ receive /\ S.nsend[n] > 0 /\ dead ->
            At([typed EXCEPT !.nsend[n] = @ - 1], MACH_PORT_NULL)
       [] m.kind = "send" /\ ~ receive /\ S.nsend[n] > 0 /\ ~ dead ->
            At([typed EXCEPT !.nsend[n] = @ + 1], n)

PeersPort(S, m) ==
  LET n == S.local_ports_by_remote[m.port]
      known == n # MACH_PORT_NULL
  IN CASE m.kind = "name" -> At(S, n)
       [] m.kind = "send" /\ ~ known -> At(NewPort(S, m.port, "RECEIVE", "NO_SENDERS", m.what), Fresh(S))
       [] m.kind = "send" /\ known -> [At([S EXCEPT !.nsend[n] = @ + 1], n) EXCEPT
                                         !.fail = S.local_port_type[n] # "RECEIVE"]
       [] m.kind = "receive" /\ ~ known -> At(NewPort(S, m.port, "SEND", "DEAD_NAME", m.what), Fresh(S))
       [] m.kind = "receive" /\ known -> [At(GiveUpReceive(S, n), n) EXCEPT
            !.fail = S.local_port_type[n] = "SEND" \/ "DEAD_NAME" \in S.armed[n]]

translatePort2(S, m) ==
  CASE m.kind = "none" \/ m.port = MACH_PORT_NULL -> At(S, m.port)
    [] m.kind # "none" /\ m.port # MACH_PORT_NULL -> IF m.flagged THEN OurPort(S, m) ELSE PeersPort(S, m)

(* The two notifications from the peer, once their port has been           *)
(* translated: it has no more senders for port d, or port n there is dead. *)
RemoteNoSenders(S, d) ==
  LET sendless == [S EXCEPT !.armed[d] = @ \ {"DEAD_NAME"},
                            !.nsend[d] = IF S.recv[d] = "dead" \/ @ = 0 THEN @ ELSE @ - 1]
  IN IF S.local_port_type[d] = "none" THEN [s |-> S, fail |-> FALSE]
     ELSE [s |-> Settle(Erase(sendless, d)), fail |-> S.local_port_type[d] # "SEND"]

RemoteDeadName(S, n) ==
  IF n = MACH_PORT_NULL \/ S.local_port_type[n] = "none" THEN [s |-> S, fail |-> FALSE]
  ELSE [s |-> Erase(DestroyReceive(S, n), n), fail |-> S.local_port_type[n] # "RECEIVE"]

(* translateHeader: the local destination port; a notification from the    *)
(* peer is handled here and goes no further.                               *)
translateHeader(h, S, m, port) ==
  LET d == CASE m.dest = MACH_PORT_CONTROL -> IF h = "server" THEN FIRST ELSE MACH_PORT_NULL
             [] m.dest # MACH_PORT_CONTROL -> IF m.translate THEN S.local_ports_by_remote[m.dest] ELSE m.dest
      discard == m.translate /\ d = MACH_PORT_NULL
      wrong == m.translate /\ ~ discard /\ S.local_port_type[d] # "SEND"
      r == CASE discard \/ m.id = "msg" -> [s |-> S, fail |-> FALSE]
             [] ~ discard /\ m.id = "NO_SENDERS" -> RemoteNoSenders(S, d)
             [] ~ discard /\ m.id = "DEAD_NAME" -> RemoteDeadName(S, port)
  IN [s |-> r.s, dest |-> d, transmit |-> m.id = "msg" /\ ~ discard, fail |-> r.fail \/ wrong]

(* The right that goes with a message to port d, once it has been sent.    *)
(* User tasks take the right, and with a receive right what is queued.     *)
Relay(S, d, m, port) ==
  LET user == S.recv[d] = "user"
      carried(n, kind) == m.kind = kind /\ n = port
      drained == IF user /\ m.kind = "receive" /\ port # MACH_PORT_NULL THEN S.queue[port] ELSE <<>>
      found(n, kind) == {i \in 1 .. Len(drained) : Carries(drained[i], kind, n)}
  IN Settle([S EXCEPT
       !.nsend = [n \in Name |-> @[n] - (IF carried(n, "send") THEN 1 ELSE 0)
                                     - (IF n = d /\ S.local_port_type[d] = "none" THEN 1 ELSE 0)],
       !.usend = [n \in Name |-> @[n] + (IF user /\ carried(n, "send") THEN 1 ELSE 0)
                                     + Cardinality(found(n, "send"))],
       !.recv = [n \in Name |-> IF carried(n, "receive") THEN IF user THEN "user" ELSE "moving"
                                ELSE IF found(n, "receive") # {} THEN "user" ELSE @[n]],
       !.queue = [n \in Name |->
          IF n = d /\ ~ user
          THEN Append(@[n], [id |-> "msg", kind |-> m.kind, port |-> port, to |-> m.to, what |-> m.what])
          ELSE IF user /\ carried(n, "receive") THEN <<>> ELSE @[n]]])

(* mach_msg to port d succeeds. *)
Reachable(S, d) == d # MACH_PORT_NULL /\ S.recv[d] \notin {"none", "dead"} /\ S.nsend[d] > 0

(* RunQueues: a message is handled once those before it to the same port,  *)
(* by the name the network message gives it, have been handled.            *)
InTurn(q, i) == \A j \in 1 .. i - 1 : q[j].dest # q[i].dest

(* tcpHandler reads the stream and pushes every message on a run queue. *)
Runnable(h, i) == i \in 1 .. Len(stream[Peer(h)]) /\ InTurn(stream[Peer(h)], i)

tcpBufferHandler(h, i) ==
  LET m == stream[Peer(h)][i]
      t == translatePort2(host[h], m)
      r == translateHeader(h, t.s, m, t.port)
  IN /\ Runnable(h, i)
     /\ stream' = [stream EXCEPT ![Peer(h)] = SubSeq(@, 1, i - 1) \o SubSeq(@, i + 1, Len(@))]
     /\ IF t.fail \/ r.fail
        THEN aborted' = aborted \cup {h} /\ UNCHANGED host
        ELSE /\ host' = [host EXCEPT ![h] = IF r.transmit /\ t.valid /\ Reachable(r.s, r.dest)
                                           THEN Relay(r.s, r.dest, m, t.port) ELSE r.s]
             /\ UNCHANGED aborted
     /\ UNCHANGED <<ipc_run_queue, sent, moved>>

----------------------------------------------------------------------------
Next ==
  /\ aborted = {}
  /\ \E h \in Host :
       \/ \E n \in Name : MakeSend(h, n) \/ DropSend(h, n) \/ DestroyPort(h, n)
       \/ \E d, n \in Name, kind \in Carried : UserSend(h, d, kind, n)
       \/ \E d \in Name : ipcHandler(h, d) \/ ipcBufferHandler(h, d)
       \/ \E i \in 1 .. Len(stream[Peer(h)]) : tcpBufferHandler(h, i)

Spec == Init /\ [][Next]_vars

----------------------------------------------------------------------------
(* Every variable has its type.  In particular netmsg never gives up a     *)
(* send right it does not have.                                            *)
TypeOK ==
  /\ \A h \in Host :
       LET S == host[h] IN
       /\ [f \in {"recv", "usend", "nsend", "armed", "queue"} |-> S[f]] \in Ports
       /\ [f \in {"local_port_type", "remote_ports_by_local", "local_ports_by_remote", "origin"} |-> S[f]]
            \in Maps
  /\ ipc_run_queue \in [Host -> [Name -> Seq(Message)]]
  /\ stream \in [Host -> Seq(NetMessage)]
  /\ aborted \subseteq Host
  /\ sent \in 0 .. MaxSend
  /\ moved \subseteq Identity

(* remote_ports_by_local and local_ports_by_remote are inverse to each     *)
(* other, whatever handlers have entered and erased.                       *)
TablesInverse ==
  \A h \in Host : \A n, r \in Name :
    host[h].remote_ports_by_local[n] = r <=> host[h].local_ports_by_remote[r] = n

(* A port in the maps has a type: local_port_type.at() does not throw when *)
(* a message comes in on it, and an assertion on it can hold.              *)
KnownType ==
  \A h \in Host : \A n \in Name :
    host[h].remote_ports_by_local[n] # MACH_PORT_NULL => host[h].local_port_type[n] \in {"RECEIVE", "SEND"}

(* A proxy never stands for a proxy, however often a right has gone back   *)
(* and forth: a message crosses the network once.                          *)
NoChain ==
  \A h \in Host : \A n, r \in Name :
    host[h].remote_ports_by_local[n] = r => host[Peer(h)].remote_ports_by_local[r] = MACH_PORT_NULL

(* The port translateHeader would send message m to on a host in state S.  *)
Resolved(S, m) ==
  IF m.dest = MACH_PORT_CONTROL THEN MACH_PORT_NULL
  ELSE IF m.translate THEN S.local_ports_by_remote[m.dest] ELSE m.dest

(* A message in the network is on its way to the port it was sent to, and  *)
(* the right it carries will be relayed as a right to the same port, even  *)
(* if proxies die and are made again while it travels.  This is for ports  *)
(* whose receive right has stayed where it was.                            *)
RightPort ==
  \A h \in Host : \A i \in 1 .. Len(stream[Peer(h)]) :
    LET m == stream[Peer(h)][i]
        d == Resolved(host[h], m)
        p == IF m.flagged THEN m.port ELSE host[h].local_ports_by_remote[m.port]
    IN /\ m.id = "msg" /\ m.to \notin moved /\ Reachable(host[h], d) => host[h].origin[d] = m.to
       /\ m.kind = "send" /\ m.what \notin moved /\ m.port # MACH_PORT_NULL /\ p # MACH_PORT_NULL =>
            host[h].origin[p] = m.what

(* External: the rights mach_port_names reports that netmsg has under name *)
(* n.                                                                      *)
mach_port_type(S, n) ==
  (IF S.recv[n] \in {"held", "netmsg"} THEN {"RECEIVE"} ELSE {})
    \cup (IF S.nsend[n] = 0 THEN {} ELSE IF S.recv[n] = "dead" THEN {"DEAD_NAME"} ELSE {"SEND"})
    \cup (IF "DEAD_NAME" \in S.armed[n] THEN {"DNREQUEST"} ELSE {})

(* auditPorts has nothing to report of port n. *)
auditPorts(S, n) ==
  CASE S.local_port_type[n] = "none" -> TRUE
    [] S.local_port_type[n] = "RECEIVE" -> mach_port_type(S, n) = {"RECEIVE"}
    [] S.local_port_type[n] \in {"zero", "SEND"} ->
         IF n = FIRST THEN mach_port_type(S, n) = {"RECEIVE", "SEND"}
         ELSE mach_port_type(S, n) \in {{"SEND", "DNREQUEST"}, {"DEAD_NAME"}}

(* What auditPorts looks for: netmsg has the rights local_port_type says   *)
(* it has, no more and no fewer, whenever it has handled the messages it   *)
(* has received.  This is for ports whose receive right has stayed where   *)
(* it was and as long as no port has died, on either host: a message to a  *)
(* dead port leaves the right it carries with netmsg.  The first port is   *)
(* left out: the thread that serves it is a user task here.                *)
Audited ==
  (\A h \in Host : \A n \in Name : host[h].recv[n] # "dead") =>
    \A h \in Host : (\A d \in Name : ipc_run_queue[h][d] = <<>>) =>
      \A n \in Name \ {FIRST} : host[h].origin[n] \notin moved => auditPorts(host[h], n)

(* A send right to n was received and its message is not handled yet. *)
InHand(h, n) ==
  \E d \in Name : \E i \in 1 .. Len(ipc_run_queue[h][d]) : Carries(ipc_run_queue[h][d][i], "send", n)

(* netmsg holds a single send right to a port it has recorded as SEND, as  *)
(* the comment before translatePort2 says, once it has handled the         *)
(* messages it has received.                                               *)
SingleSend ==
  \A h \in Host : \A n \in Name :
    LET S == host[h] IN
    S.local_port_type[n] = "SEND" /\ S.recv[n] # "dead" => S.nsend[n] = 1 \/ InHand(h, n)
=============================================================================
