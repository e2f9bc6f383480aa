----------------------------- MODULE ReplyPorts -----------------------------
(***************************************************************************)
(* Send-once rights and reply ports in netmsg (netmsg/netmsg.cc).  A user  *)
(* task sends a request with a send-once right to its reply port; the      *)
(* peer's netmsg makes a port of its own for it, whose send-once right     *)
(* goes to the server, and relays what comes in on that port.  The server  *)
(* may answer, give the right up, or pass it on, back across the network.  *)
(*                                                                         *)
(* Each host has one service, which the other host's tasks reach through a *)
(* proxy (module Netmsg has the making of proxies).  Names are used again  *)
(* as soon as they are free.  A handler is one action, and messages to one *)
(* port are handled in order, as in module Netmsg.                         *)
(***************************************************************************)
EXTENDS Integers, Sequences, FiniteSets

CONSTANTS
  NRequests,   \* bound: requests user tasks make
  NNames,      \* bound: names netmsg has for send-once rights and their ports
  MaxForward,  \* bound: how often user tasks pass a right on
  MAY_DIE,     \* the hosts whose services may die
  MAY_QUIT     \* whether requesters may die

ASSUME BoundsAssumption == NNames \in Nat /\ NRequests \in Nat

Host == {"client", "server"}
Peer(h) == IF h = "client" THEN "server" ELSE "client"
Request == 1 .. NRequests
Name == 1 .. NNames
MACH_PORT_NULL == 0
MACH_PORT_DEAD == -1
PROXY == NNames + 1      \* the port that stands for the peer's service
CONTROL == NNames + 2    \* MACH_PORT_CONTROL
Port == Name \cup {PROXY}

(* The ports send-once rights are for, a request's reply port and          *)
(* netmsg's own, and what else a name or a message can have.               *)
FREE == <<"free">>
RECEIVE == <<"receive">>
NoRight == <<"none">>
Target == {"reply"} \X Request \cup {"port"} \X Name

VARIABLES
  caller,    \* by request: the host it was made on
  replies,   \* by request: what came to its reply port
  gone,      \* requests whose reply port has died
  service,   \* by host: its service is "up", "dead", or "known" to be dead
  held,      \* by host: the send-once rights its service has
  forwards,  \* how often rights have been passed on
  names,     \* by host and name: what netmsg has under the name
  proxy,     \* by host: the proxy exists
  port,      \* by host and port of netmsg's: messages queued on it
  run,       \* by host and port: ipc_run_queue
  stream,    \* by host: network messages it has sent
  send_once_ports_by_remote, send_once_ports_by_local,
  aborted,   \* hosts whose netmsg has failed an assertion
  limbo,     \* ghost: requests dropped because the service had died
  left       \* ghost, by host: names of rights that nobody will use

userVars == <<caller, replies, gone, service, held, forwards>>
maps == <<send_once_ports_by_remote, send_once_ports_by_local>>
vars == <<userVars, names, proxy, port, run, stream, maps, aborted, limbo, left>>

Init ==
  /\ caller = [q \in Request |-> "none"]
  /\ replies = [q \in Request |-> <<>>]
  /\ gone = {} /\ limbo = {} /\ aborted = {} /\ forwards = 0
  /\ service = [h \in Host |-> "up"]
  /\ held = [h \in Host |-> {}]
  /\ names = [h \in Host |-> [n \in Name |-> FREE]]
  /\ proxy = [h \in Host |-> TRUE]
  /\ port = [h \in Host |-> [p \in Port |-> <<>>]]
  /\ run = [h \in Host |-> [p \in Port |-> <<>>]]
  /\ stream = [h \in Host |-> <<>>]
  /\ send_once_ports_by_remote = [h \in Host |-> [n \in Name |-> MACH_PORT_NULL]]
  /\ send_once_ports_by_local = [h \in Host |-> [n \in Name |-> MACH_PORT_NULL]]
  /\ left = [h \in Host |-> {}]

(* The kernel gives out the first free name, so names are soon used again. *)
Fresh(h, but) ==
  {n \in Name \ but : names[h][n] = FREE /\ \A k \in 1 .. n - 1 : k \in but \/ names[h][k] # FREE}

----------------------------------------------------------------------------
(* User tasks and their kernel: external. *)

Enqueue(h, p, m) == port' = [port EXCEPT ![h][p] = Append(@, m)]

Call(h, q) ==
  /\ caller[q] = "none" /\ \A r \in 1 .. q - 1 : caller[r] # "none"
  /\ proxy[h]
  /\ caller' = [caller EXCEPT ![q] = h]
  /\ Enqueue(h, PROXY, [id |-> "request", req |-> q, right |-> <<"reply", q>>])
  /\ UNCHANGED <<replies, gone, service, held, forwards, names, proxy, run, stream, maps, aborted,
                 limbo, left>>

(* The service uses a right, gives it up, or passes it on. *)
Use(h, r, id) ==
  /\ r \in held[h]
  /\ held' = [held EXCEPT ![h] = @ \ {r}]
  /\ Enqueue(h, r.port, [id |-> id, req |-> r.req, right |-> NoRight])
  /\ UNCHANGED <<caller, replies, gone, service, forwards, names, proxy, run, stream, maps, aborted,
                 limbo, left>>

Forward(h, r) ==
  /\ r \in held[h] /\ proxy[h] /\ forwards < MaxForward
  /\ held' = [held EXCEPT ![h] = @ \ {r}]
  /\ forwards' = forwards + 1
  /\ Enqueue(h, PROXY, [id |-> "request", req |-> r.req, right |-> <<"port", r.port>>])
  /\ UNCHANGED <<caller, replies, gone, service, names, proxy, run, stream, maps, aborted, limbo, left>>

DieService(h) ==
  /\ h \in MAY_DIE /\ service[h] = "up"
  /\ service' = [service EXCEPT ![h] = "dead"]
  /\ UNCHANGED <<caller, replies, gone, held, forwards, names, proxy, port, run, stream, maps, aborted,
                 limbo, left>>

DieRequester(q) ==
  /\ MAY_QUIT /\ caller[q] # "none" /\ replies[q] = <<>> /\ q \notin gone
  /\ gone' = gone \cup {q}
  /\ UNCHANGED <<caller, replies, service, held, forwards, names, proxy, port, run, stream, maps,
                 aborted, limbo, left>>

Dead(target) == target[1] = "reply" /\ target[2] \in gone

----------------------------------------------------------------------------
(* The sending side. *)

(* ipcHandler receives a message; the right in it gets a name. *)
ipcHandler(h, p) ==
  /\ port[h][p] # <<>>
  /\ LET m == Head(port[h][p])
         received(reply) ==
           run' = [run EXCEPT ![h][p] = Append(@, [id |-> m.id, req |-> m.req, reply |-> reply])]
     IN \/ m.right = NoRight /\ received(MACH_PORT_NULL) /\ UNCHANGED names
        \/ m.right # NoRight /\ Dead(m.right) /\ received(MACH_PORT_DEAD) /\ UNCHANGED names
        \/ /\ m.right # NoRight /\ ~ Dead(m.right)
           /\ \E r \in Fresh(h, {}) : received(r) /\ names' = [names EXCEPT ![h][r] = m.right]
  /\ port' = [port EXCEPT ![h][p] = Tail(@)]
  /\ UNCHANGED <<userVars, proxy, stream, maps, aborted, limbo, left>>

(* Mutant: a SEND ONCE notification is taken for one of netmsg's own. *)
TransmitReplies(h, dest, m) ==
  stream' = IF m.id = "SEND_ONCE" THEN stream
            ELSE [stream EXCEPT ![h] =
                    Append(@, [dest |-> dest, id |-> m.id, req |-> m.req, reply |-> m.reply])]

Transmit(h, dest, m) ==
  stream' = [stream EXCEPT ![h] = Append(@, [dest |-> dest, id |-> m.id, req |-> m.req, reply |-> m.reply])]

(* Mutant: the port is still known by its remote name. *)
ForgetLocal(h, p) ==
  /\ send_once_ports_by_local' = [send_once_ports_by_local EXCEPT ![h][p] = MACH_PORT_NULL]
  /\ names' = [names EXCEPT ![h][p] = FREE]
  /\ UNCHANGED send_once_ports_by_remote

(* Mutant: the receive right stays. *)
ForgetMappings(h, p) ==
  /\ send_once_ports_by_local' = [send_once_ports_by_local EXCEPT ![h][p] = MACH_PORT_NULL]
  /\ send_once_ports_by_remote' =
       [send_once_ports_by_remote EXCEPT ![h][send_once_ports_by_local[h][p]] = MACH_PORT_NULL]
  /\ UNCHANGED names

(* A send-once right is never seen again: its mappings are forgotten and   *)
(* its port deallocated.                                                   *)
Forget(h, p) ==
  /\ send_once_ports_by_local' = [send_once_ports_by_local EXCEPT ![h][p] = MACH_PORT_NULL]
  /\ send_once_ports_by_remote' =
       [send_once_ports_by_remote EXCEPT ![h][send_once_ports_by_local[h][p]] = MACH_PORT_NULL]
  /\ names' = [names EXCEPT ![h][p] = FREE]

(* Mutant: the destination is not translated. *)
Untranslated(h, p) == p

(* The peer's name for the right that port p was made for. *)
RemoteName(h, p) == send_once_ports_by_local[h][p]

(* A message to a port that is in no map is discarded; the right in it     *)
(* stays with netmsg.                                                      *)
ipcBufferHandler(h, p) ==
  /\ run[h][p] # <<>>
  /\ run' = [run EXCEPT ![h][p] = Tail(@)]
  /\ LET m == Head(run[h][p])
     IN \/ /\ p = PROXY /\ proxy[h]
           /\ Transmit(h, PROXY, m)
           /\ UNCHANGED <<names, maps, limbo, left>>
        \/ /\ p \in Name /\ send_once_ports_by_local[h][p] # MACH_PORT_NULL
           /\ Transmit(h, RemoteName(h, p), m)
           /\ Forget(h, p)
           /\ UNCHANGED <<limbo, left>>
        \/ /\ IF p = PROXY THEN ~ proxy[h] ELSE send_once_ports_by_local[h][p] = MACH_PORT_NULL
           /\ limbo' = limbo \cup {m.req}
           /\ left' = [left EXCEPT ![h] = @ \cup ({m.reply} \cap Name)]
           /\ UNCHANGED <<names, stream, maps>>
  /\ UNCHANGED <<userVars, proxy, port, aborted>>

(* The notification that the service is dead is relayed to the peer. *)
dead_name(h) ==
  /\ service[h] = "dead"
  /\ service' = [service EXCEPT ![h] = "known"]
  /\ stream' = [stream EXCEPT ![h] = Append(@,
       [dest |-> CONTROL, id |-> "DEAD_NAME", req |-> 0, reply |-> MACH_PORT_NULL])]
  /\ UNCHANGED <<caller, replies, gone, held, forwards, names, proxy, port, run, maps, aborted, limbo,
                 left>>

----------------------------------------------------------------------------
(* The receiving side. *)

(* translatePort2 returns these as they are. *)
IsNone(reply) == reply \in {MACH_PORT_NULL, MACH_PORT_DEAD}

(* translatePort2 makes port n for the send-once right called reply. *)
NewPort(h, n, reply) ==
  /\ send_once_ports_by_local' = [send_once_ports_by_local EXCEPT ![h][n] = reply]
  /\ send_once_ports_by_remote' =
       [send_once_ports_by_remote EXCEPT ![h] = [r \in Name |-> IF r = reply THEN n ELSE @[r]]]

(* A request for the service.  When the service is dead the send fails and *)
(* the right made for it stays with netmsg, under a name s.                *)
RelayRequest(h, m) ==
  LET up == service[h] = "up"
      none == IsNone(m.reply)
      used == m.reply \in Name /\ send_once_ports_by_remote[h][m.reply] # MACH_PORT_NULL
  IN /\ aborted' = IF ~ none /\ used THEN aborted \cup {h} ELSE aborted
     /\ limbo' = IF up THEN limbo ELSE limbo \cup {m.req}
     /\ IF none \/ used
        THEN UNCHANGED <<held, names, maps, left>>
        ELSE \E n \in Fresh(h, {}) : \E s \in Fresh(h, {n}) :
               /\ NewPort(h, n, m.reply)
               /\ \/ /\ up
                     /\ held' = [held EXCEPT ![h] = @ \cup {[req |-> m.req, port |-> n]}]
                     /\ names' = [names EXCEPT ![h][n] = RECEIVE]
                     /\ UNCHANGED left
                  \/ /\ ~ up
                     /\ names' = [names EXCEPT ![h][n] = RECEIVE, ![h][s] = <<"port", n>>]
                     /\ left' = [left EXCEPT ![h] = @ \cup {s}]
                     /\ UNCHANGED held

(* A message for the send-once right called r: sending it uses the right,  *)
(* and fails if its port is dead or there is no such right.                *)
RelayReply(h, r, m) ==
  LET target == names[h][r]
      right == target \in Target
      valid == right /\ ~ Dead(target)
  IN /\ names' = IF valid THEN [names EXCEPT ![h][r] = FREE] ELSE names
     /\ replies' = IF valid /\ target[1] = "reply"
                   THEN [replies EXCEPT ![target[2]] = Append(@, m.req)] ELSE replies
     /\ port' = IF valid /\ target[1] = "port"
                THEN [port EXCEPT ![h][target[2]] =
                        Append(@, [id |-> m.id, req |-> m.req, right |-> NoRight])] ELSE port
     /\ left' = IF right /\ ~ valid THEN [left EXCEPT ![h] = @ \cup {r}] ELSE left

(* The peer's service is dead: the proxy is destroyed, and the kernel      *)
(* tells the reply ports of the messages queued on it.                     *)
RelayDeadName(h) ==
  LET dropped == {m \in {port[h][PROXY][i] : i \in DOMAIN port[h][PROXY]} : ~ Dead(m.right)}
  IN /\ proxy' = [proxy EXCEPT ![h] = FALSE]
     /\ replies' = [q \in Request |->
          IF \E m \in dropped : m.right = <<"reply", q>> THEN Append(replies[q], q) ELSE replies[q]]
     /\ port' = [port EXCEPT ![h] = [p \in Port |->
          IF p = PROXY THEN <<>>
          ELSE IF \E m \in dropped : m.right = <<"port", p>>
               THEN LET m == CHOOSE m \in dropped : m.right = <<"port", p>>
                    IN Append(@[p], [id |-> "SEND_ONCE", req |-> m.req, right |-> NoRight])
               ELSE @[p]]]

tcpBufferHandler(h, i) ==
  LET from == stream[Peer(h)]
      m == from[i]
  IN /\ i \in DOMAIN from /\ \A j \in 1 .. i - 1 : from[j].dest # m.dest
     /\ stream' = [stream EXCEPT ![Peer(h)] = SubSeq(from, 1, i - 1) \o SubSeq(from, i + 1, Len(from))]
     /\ \/ /\ m.dest = PROXY
           /\ RelayRequest(h, m)
           /\ UNCHANGED <<caller, replies, gone, service, forwards, proxy, port, run>>
        \/ /\ m.dest \in Name
           /\ RelayReply(h, m.dest, m)
           /\ UNCHANGED <<caller, gone, service, held, forwards, proxy, run, maps, aborted, limbo>>
        \/ /\ m.dest = CONTROL
           /\ RelayDeadName(h)
           /\ UNCHANGED <<caller, gone, service, held, forwards, names, run, maps, aborted, limbo, left>>

----------------------------------------------------------------------------
Users ==
  \/ \E h \in Host, q \in Request : Call(h, q)
  \/ \E h \in Host : \E r \in held[h] :
       Use(h, r, "reply") \/ Use(h, r, "SEND_ONCE") \/ Forward(h, r)
  \/ \E h \in Host : DieService(h)
  \/ \E q \in Request : DieRequester(q)

Netmsg(h) ==
  /\ h \notin aborted
  /\ \/ \E p \in Port : ipcHandler(h, p) \/ ipcBufferHandler(h, p)
     \/ dead_name(h)
     \/ \E i \in DOMAIN stream[Peer(h)] : tcpBufferHandler(h, i)

Next == Users \/ \E h \in Host : Netmsg(h)

(* A netmsg that has something to do does something, and so does a service *)
(* that has a right: it uses it or gives it up.                            *)
Fairness ==
  \A h \in Host :
    /\ WF_vars(Netmsg(h))
    /\ WF_vars(\E r \in held[h] : Use(h, r, "reply") \/ Use(h, r, "SEND_ONCE"))

Spec == Init /\ [][Next]_vars
FairSpec == Spec /\ Fairness

----------------------------------------------------------------------------
Messages(f) == UNION {{f[p][i] : i \in DOMAIN f[p]} : p \in DOMAIN f}

(* Every variable has its type; in particular no name stands for a right   *)
(* that is MACH_PORT_DEAD.                                                 *)
TypeOK ==
  /\ caller \in [Request -> Host \cup {"none"}]
  /\ replies \in [Request -> Seq(Request)]
  /\ gone \subseteq Request /\ limbo \subseteq Request /\ aborted \subseteq Host
  /\ service \in [Host -> {"up", "dead", "known"}]
  /\ \A h \in Host :
       /\ held[h] \subseteq [req : Request, port : Name]
       /\ names[h] \in [Name -> {FREE, RECEIVE} \cup Target]
       /\ Messages(port[h]) \subseteq
            [id : {"request", "reply", "SEND_ONCE"}, req : Request, right : Target \cup {NoRight}]
       /\ left[h] \subseteq Name
  /\ proxy \in [Host -> BOOLEAN]
  /\ send_once_ports_by_remote \in [Host -> [Name -> Name \cup {MACH_PORT_NULL}]]
  /\ send_once_ports_by_local \in [Host -> [Name -> Name \cup {MACH_PORT_NULL}]]

(* The assertion of translatePort2 holds, that a send-once right comes     *)
(* under a name that is not in use (netmsg.cc:1790): "Always on a new      *)
(* name" (netmsg.cc:1390).  Names are used again, so the peer must have    *)
(* forgotten a name before the right under it is gone.                     *)
NewName == aborted = {}

(* Where the right to netmsg's port n on host h, or the one message that   *)
(* used it, can be.                                                        *)
Uses(h, n) ==
  Cardinality({r \in held[h] : r.port = n})
    + Cardinality({m \in Messages(port[h]) : m.right = <<"port", n>>})
    + Cardinality({r \in Name : names[h][r] = <<"port", n>>})
    + Len(port[h][n]) + Len(run[h][n])

(* Where the peer's obligation for the right called r on host h can be. *)
Owed(h, r) ==
  Cardinality({m \in Messages(run[h]) : m.reply = r})
    + Cardinality({i \in DOMAIN stream[h] : stream[h][i].reply = r})
    + Cardinality({n \in Name : send_once_ports_by_local[Peer(h)][n] = r})
    + Cardinality({i \in DOMAIN stream[Peer(h)] : stream[Peer(h)][i].dest = r})

(* No right is lost or doubled on its way through both hosts, however it   *)
(* is passed on: a port of netmsg's is in both maps, and there is exactly  *)
(* one right to it, or one message that used that right; a right netmsg    *)
(* has under a name is owed exactly one message from the peer, except the  *)
(* ones left behind when a message was dropped.                            *)
OneHolder ==
  \A h \in Host : \A n \in Name :
    /\ names[h][n] = RECEIVE <=> send_once_ports_by_local[h][n] # MACH_PORT_NULL
    /\ names[h][n] = RECEIVE => Uses(h, n) = 1
    /\ names[h][n] = RECEIVE =>
         send_once_ports_by_remote[h][send_once_ports_by_local[h][n]] = n
    /\ names[h][n] \in Target /\ n \notin left[h] => Owed(h, n) = 1

(* A reply port gets one message at most, and it is the answer to its own  *)
(* request: no answer goes to a right that has got the name since.         *)
OwnReply == \A q \in Request : replies[q] \in {<<>>, <<q>>}

(* Every request is answered, or its sender is told that the right was     *)
(* given up, unless the request reached a service that had died.           *)
ReplyComes ==
  \A q \in Request :
    caller[q] # "none" ~> replies[q] # <<>> \/ q \in gone \/ q \in limbo
=============================================================================
