----------------------------- MODULE Transport -----------------------------
(***************************************************************************)
(* One direction of a netmsg connection (netmsg/netmsg.cc): messages are   *)
(* received by ipcHandler, queued by port, written on the TCP stream by    *)
(* the threads of the ports, read by the peer's tcpHandler, queued by port *)
(* again and delivered.  What is done to the port names in a message is    *)
(* module Netmsg; here a message is words, and behind it on the stream     *)
(* the out-of-line data of its items.                                      *)
(***************************************************************************)
EXTENDS RunQueues, MachMessage

CONSTANT Items   \* by message: the items it is made of

ASSUME ItemsAssumption == Items \in [Message -> Seq(Item)] /\ Queue = {"ipc", "tcp"}

VARIABLES
  arrived,    \* messages ipcHandler has received: 1 .. arrived
  zeroed,     \* messages whose out-of-line data could not be read
  os,         \* the thread that has locked the output stream
  stream,     \* words written and not yet read
  lost,       \* the connection has been lost
  reader,     \* tcpHandler: where it is, and the message it reads
  is,         \* the input stream has not failed
  OOL,        \* by message: the out-of-line data read
  delivered   \* messages sent on by the peer

vars == <<rqvars, arrived, zeroed, os, stream, lost, reader, is, OOL, delivered>>

Buffer == [m \in Message |-> Layout(m, Items[m])]
OOLof == [m \in Message |-> OOLitems(Items[m])]
OOLsizeOf == [m \in Message |-> OOLsize(Items[m])]

Init ==
  /\ RQInit
  /\ arrived = 0
  /\ zeroed = {}
  /\ os = NONE
  /\ stream = <<>>
  /\ lost = FALSE
  /\ reader = [pc |-> "header", msg |-> NONE]
  /\ is = TRUE
  /\ OOL = [m \in Message |-> <<>>]
  /\ delivered = <<>>

----------------------------------------------------------------------------
(* The sending side. *)

ipcHandler ==
  /\ arrived < NMessages
  /\ push_back("ipc", arrived + 1)
  /\ arrived' = arrived + 1
  /\ UNCHANGED <<zeroed, os, stream, lost, reader, is, OOL, delivered>>

(* Words of the out-of-line data of an item. *)
OOLdata(m, i, n) == Data(IF m \in zeroed THEN "zero" ELSE "data", m, i, n)

(* The data is copied, or it is zeros if it cannot be read. *)
copyOOLdata(m) ==
  zeroed' \in {zeroed, zeroed \cup {n \in {m} : OOLof[m] # <<>>}}

(* Mutant: the output stream is not locked. *)
ipcBufferHandlerUnlocked(t) ==
  LET m == thread["ipc"][t].msg
  IN /\ thread["ipc"][t].pc = "handle"
     /\ copyOOLdata(m)
     /\ os' = t
     /\ stream' = stream \o Buffer[m]
     /\ thread' = [thread EXCEPT !["ipc"][t].pc = "locked"]
     /\ UNCHANGED <<dest, queue, pushing, undefined, arrived, lost, reader, is, OOL, delivered>>

(* ipcBufferHandler copies the out-of-line data, locks the output stream   *)
(* and writes the message.                                                 *)
ipcBufferHandler(t) ==
  LET m == thread["ipc"][t].msg
  IN /\ thread["ipc"][t].pc = "handle"
     /\ os = NONE
     /\ copyOOLdata(m)
     /\ os' = t
     /\ stream' = stream \o Buffer[m]
     /\ thread' = [thread EXCEPT !["ipc"][t].pc = "locked"]
     /\ UNCHANGED <<dest, queue, pushing, undefined, arrived, lost, reader, is, OOL, delivered>>

(* transmitOOLdata, after which the stream is flushed and unlocked. *)
transmitOOLdata(t) ==
  LET m == thread["ipc"][t].msg
  IN /\ thread["ipc"][t].pc = "locked"
     /\ stream' = stream \o FlattenSeq([n \in DOMAIN OOLof[m] |->
          LET i == OOLof[m][n] IN OOLdata(m, i, data_size(Items[m][i]))])
     /\ os' = NONE
     /\ thread' = [thread EXCEPT !["ipc"][t].pc = "pop"]
     /\ UNCHANGED <<dest, queue, pushing, undefined, arrived, zeroed, lost, reader, is, OOL,
                    delivered>>

(* The sending netmsg ends and the connection with it (external): some of  *)
(* what it wrote arrives, and its queues and threads are gone.             *)
LoseConnection ==
  /\ ~ lost /\ lost' = TRUE
  /\ \E k \in 0 .. Len(stream) : stream' = SubSeq(stream, 1, k)
  /\ queue' = [queue EXCEPT !["ipc"] = [p \in Port |-> <<>>]]
  /\ pushing' = [pushing EXCEPT !["ipc"] = [msg |-> NONE, empty |-> FALSE]]
  /\ thread' = [thread EXCEPT !["ipc"] = [t \in Message |-> [pc |-> "none", msg |-> NONE]]]
  /\ os' = NONE
  /\ arrived' = NMessages
  /\ UNCHANGED <<dest, undefined, zeroed, reader, is, OOL, delivered>>

----------------------------------------------------------------------------
(* The receiving side: tcpHandler. *)

(* is.read of n words: it blocks until they are there or the stream ends. *)
CanRead(n) == is /\ Len(stream) >= n
EndOfFile(n) == ~ is \/ (lost /\ Len(stream) < n)

ReadHeader ==
  /\ reader.pc = "header" /\ CanRead(1)
  /\ stream[1].kind = "header"
  /\ reader' = [reader EXCEPT !.pc = "rest", !.msg = stream[1].msg]
  /\ stream' = Tail(stream)
  /\ UNCHANGED <<rqvars, arrived, zeroed, os, lost, is, OOL, delivered>>

ReadRest ==
  LET n == Len(Buffer[reader.msg]) - 1
  IN /\ reader.pc = "rest" /\ CanRead(n)
     /\ reader' = [reader EXCEPT !.pc = "OOL"]
     /\ stream' = SubSeq(stream, n + 1, Len(stream))
     /\ UNCHANGED <<rqvars, arrived, zeroed, os, lost, is, OOL, delivered>>

(* The input stream has ended: a server's thread returns, a client exits. *)
Close ==
  /\ \/ reader.pc = "header" /\ EndOfFile(1)
     \/ reader.pc = "rest" /\ EndOfFile(Len(Buffer[reader.msg]) - 1)
  /\ reader' = [reader EXCEPT !.pc = "closed"]
  /\ is' = FALSE
  /\ UNCHANGED <<rqvars, arrived, zeroed, os, stream, lost, OOL, delivered>>

(* receiveOOLdata, after which the message is pushed on tcp_run_queue.     *)
(* What cannot be read stays zero, and nobody looks.                       *)
receiveOOLdata ==
  LET m == reader.msg
      n == OOLsizeOf[m]
  IN /\ reader.pc = "OOL"
     /\ \/ /\ CanRead(n)
           /\ OOL' = [OOL EXCEPT ![m] = SubSeq(stream, 1, n)]
           /\ stream' = SubSeq(stream, n + 1, Len(stream))
           /\ UNCHANGED is
        \/ /\ EndOfFile(n)
           /\ OOL' = [OOL EXCEPT ![m] = stream]
           /\ stream' = <<>>
           /\ is' = FALSE
     /\ push_back("tcp", m)
     /\ reader' = [reader EXCEPT !.pc = "push"]
     /\ UNCHANGED <<arrived, zeroed, os, lost, delivered>>

(* tcpBufferHandler: the message is sent to its port. *)
tcpBufferHandler(t) ==
  /\ thread["tcp"][t].pc = "handle"
  /\ delivered' = Append(delivered, thread["tcp"][t].msg)
  /\ thread' = [thread EXCEPT !["tcp"][t].pc = "pop"]
  /\ UNCHANGED <<dest, queue, pushing, undefined, arrived, zeroed, os, stream, lost, reader, is, OOL>>

----------------------------------------------------------------------------
Push(q) ==
  /\ push_back_append(q)
  /\ reader' = IF q = "tcp" THEN [reader EXCEPT !.pc = "header"] ELSE reader
  /\ UNCHANGED <<arrived, zeroed, os, stream, lost, is, OOL, delivered>>

Run(q, t) ==
  /\ run_front(q, t) \/ run_pop(q, t) \/ run_test(q, t)
  /\ UNCHANGED <<arrived, zeroed, os, stream, lost, reader, is, OOL, delivered>>

Sender == ipcHandler \/ Push("ipc")
Receiver ==
  ReadHeader \/ ReadRest \/ Close \/ receiveOOLdata \/ Push("tcp")
Thread(q, t) ==
  \/ Run(q, t)
  \/ q = "ipc" /\ (ipcBufferHandler(t) \/ transmitOOLdata(t))
  \/ q = "tcp" /\ tcpBufferHandler(t)

(* After undefined behaviour on either side nothing is claimed. *)
Next ==
  /\ undefined = {}
  /\ \/ Sender
     \/ Receiver
     \/ \E q \in Queue, t \in Message : Thread(q, t)
     \/ LoseConnection

Spec == Init /\ [][Next]_vars

----------------------------------------------------------------------------
TypeOK ==
  /\ RQTypeOK
  /\ arrived \in 0 .. NMessages
  /\ zeroed \subseteq Message
  /\ os \in Message \cup {NONE}
  /\ reader \in [pc : {"header", "rest", "OOL", "push", "closed"}, msg : Message \cup {NONE}]
  /\ lost \in BOOLEAN /\ is \in BOOLEAN
  /\ delivered \in Seq(Message)

(* The two ends agree on where things are: tcpHandler finds a header where *)
(* it reads one, and behind it the rest of that message.                   *)
Framed ==
  /\ reader.pc = "header" /\ is /\ stream # <<>> => stream[1].kind = "header"
  /\ reader.pc = "rest" =>
       LET rest == Tail(Buffer[reader.msg])
       IN \A k \in DOMAIN rest : k <= Len(stream) => stream[k] = rest[k]

(* The out-of-line data of message m, as its sender's memory has it. *)
Sent(m) ==
  FlattenSeq([i \in DOMAIN Items[m] |->
    IF Items[m][i].inline THEN <<>> ELSE OOLdata(m, i, DataWords(Items[m][i]))])

(* A message is delivered with the out-of-line data it was sent with, the  *)
(* last one before the connection was lost with a part of it.  Data of so  *)
(* many elements that the number of its bits overflows is the exception.   *)
Whole ==
  \A n \in DOMAIN delivered :
    LET m == delivered[n]
    IN (\A i \in DOMAIN Items[m] : Items[m][i].nelems * Items[m][i].bits + 7 < UINT) =>
         \/ OOL[m] = Sent(m)
         \/ ~ is /\ m = reader.msg /\ IsPrefix(OOL[m], Sent(m))

(* Messages to a port are delivered in the order in which they arrived,    *)
(* and none twice: "To ensure in-order delivery of messages, we keep run   *)
(* queues" (netmsg.cc:387).                                                *)
InOrder ==
  \A p \in Port, a, b \in DOMAIN delivered :
    a < b /\ dest[delivered[a]] = p /\ dest[delivered[b]] = p => delivered[a] < delivered[b]
=============================================================================
