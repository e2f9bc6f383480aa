----------------------- MODULE ChangeAttributesProofs -----------------------
(***************************************************************************)
(* change_attributes waits for answers that come, and returns only when    *)
(* every living client has applied its request, for any number of clients, *)
(* threads and calls.                                                      *)
(***************************************************************************)
EXTENDS ChangeAttributes, TLAPS, FiniteSetTheorems, SequenceTheorems

CallOf(reply) == reply[2]

(* A thread's reply ports are its own, of calls already made, and there    *)
(* are finitely many; the port it has received from is one of them.        *)
ThreadInv ==
  \A t \in Thread :
    /\ IsFiniteSet(portset[t])
    /\ \A r \in portset[t] : ThreadOf(r) = t /\ CallOf(r) <= calls
    /\ IF pc[t] = "received" THEN msgh_local_port[t] \in portset[t]
                             ELSE msgh_local_port[t] = MACH_PORT_NULL

(* What may be on its way from a kernel k and to it, and whether it is a   *)
(* client: o and q are its messages and its requests.                      *)
KernelOK(k, o, q, client, lost) ==
  /\ k = "unborn" => o = <<>> /\ q = <<>> /\ ~ client
  /\ k = "up" => /\ o \in {<<>>, <<"object_init">>}
                 /\ client => o = <<>>
                 /\ q # <<>> => client
  /\ k = "terminated" =>
       o \in {<<"object_init", "object_terminate">>, <<"object_terminate">>, <<>>}
  /\ k = "dead" => o \in {<<"object_init">>, <<"dead_name">>, <<>>}
  /\ client => k = "up" \/ lost \/ {"object_terminate", "dead_name"} \cap Elements(o) # {}

KernelInv ==
  \A c \in Client :
    KernelOK(kernel[c], object[c], control[c], c \in clients, c \in unnoticed)

(* No request is in a control port twice. *)
Once(q) == \A i, j \in DOMAIN q : q[i] = q[j] /\ q[i] # MACH_PORT_NULL => i = j

(* A request that a living kernel has not applied is there once, is of a   *)
(* call already made, and has not been answered.                           *)
RequestInv ==
  \A c \in Client :
    /\ Once(control[c])
    /\ \A r \in Elements(control[c]) \ {MACH_PORT_NULL} :
         /\ ClientOf(r) = c /\ CallOf(r) <= calls
         /\ kernel[c] = "up" => queued[r] = 0

(* Answers are queued on reply ports that exist. *)
QueuedInv == \A r \in Reply : queued[r] > 0 => r \in outstanding_change_requests

IInv ==
  /\ TypeOK /\ PortsFreed /\ ThreadInv /\ KernelInv /\ RequestInv /\ QueuedInv
  /\ Answered /\ Completed

-----------------------------------------------------------------------------
(* The elements of a queue. *)
LEMMA ElementsAppend ==
  ASSUME NEW S, NEW q \in Seq(S), NEW x \in S
  PROVE  /\ Append(q, x) \in Seq(S) /\ Append(q, x) # <<>>
         /\ Elements(Append(q, x)) = Elements(q) \cup {x}
<1>1. /\ Append(q, x) \in Seq(S) /\ Len(q) \in Nat /\ Len(Append(q, x)) = Len(q) + 1
      /\ DOMAIN q = 1..Len(q) /\ DOMAIN Append(q, x) = 1..(Len(q) + 1)
  OBVIOUS
<1>2. /\ \A i \in 1..Len(q) : Append(q, x)[i] = q[i]
      /\ Append(q, x)[Len(q) + 1] = x
  OBVIOUS
<1>3. Append(q, x) # <<>>
  BY <1>1
<1>4. Elements(Append(q, x)) \subseteq Elements(q) \cup {x}
  BY <1>1, <1>2 DEF Elements
<1>5. Elements(q) \cup {x} \subseteq Elements(Append(q, x))
  BY <1>1, <1>2 DEF Elements
<1> QED
  BY <1>1, <1>3, <1>4, <1>5

(* What is taken from the front of a queue. *)
LEMMA ElementsTail ==
  ASSUME NEW S, NEW q \in Seq(S), q # <<>>
  PROVE  /\ Tail(q) \in Seq(S) /\ Head(q) \in S
         /\ Elements(q) = {Head(q)} \cup Elements(Tail(q))
<1>1. /\ Tail(q) \in Seq(S) /\ Len(q) \in Nat /\ Len(q) >= 1 /\ Len(Tail(q)) = Len(q) - 1
      /\ DOMAIN q = 1..Len(q) /\ DOMAIN Tail(q) = 1..(Len(q) - 1) /\ Head(q) = q[1]
  OBVIOUS
<1>2. \A i \in 1..(Len(q) - 1) : Tail(q)[i] = q[i + 1]
  BY <1>1
<1>3. Elements(q) \subseteq {Head(q)} \cup Elements(Tail(q))
  <2> SUFFICES ASSUME NEW i \in 1..Len(q), i # 1 PROVE q[i] \in Elements(Tail(q))
    BY <1>1 DEF Elements
  <2>1. i - 1 \in 1..(Len(q) - 1) /\ Tail(q)[i - 1] = q[(i - 1) + 1] /\ (i - 1) + 1 = i
    BY <1>1, <1>2
  <2> QED
    BY <1>1, <2>1 DEF Elements
<1>4. Elements(Tail(q)) \subseteq Elements(q)
  BY <1>1, <1>2 DEF Elements
<1>5. Head(q) \in S /\ Head(q) \in Elements(q)
  BY <1>1 DEF Elements
<1> QED
  BY <1>1, <1>3, <1>4, <1>5

(* A request that is not there yet, or has no reply port, may be added. *)
LEMMA OnceAppend ==
  ASSUME NEW S, NEW q \in Seq(S), NEW x \in S, Once(q), x = MACH_PORT_NULL \/ x \notin Elements(q)
  PROVE  Once(Append(q, x))
<1>1. /\ Len(q) \in Nat /\ DOMAIN q = 1..Len(q) /\ DOMAIN Append(q, x) = 1..(Len(q) + 1)
      /\ \A i \in 1..Len(q) : Append(q, x)[i] = q[i]
      /\ Append(q, x)[Len(q) + 1] = x
  OBVIOUS
<1> DEFINE b == Append(q, x)
<1> SUFFICES ASSUME NEW i \in 1..(Len(q) + 1), NEW j \in 1..(Len(q) + 1),
                    b[i] = b[j], b[i] # MACH_PORT_NULL
             PROVE  i = j
  BY <1>1 DEF Once
<1> HIDE DEF b
<1>2. /\ \A k \in 1..Len(q) : b[k] = q[k] /\ q[k] \in Elements(q)
      /\ b[Len(q) + 1] = x
  BY <1>1 DEF Elements, b
<1>3. CASE i \in 1..Len(q) /\ j \in 1..Len(q)
  BY <1>1, <1>2, <1>3 DEF Once
<1>4. CASE i = Len(q) + 1 /\ j \in 1..Len(q)
  BY <1>2, <1>4
<1>5. CASE j = Len(q) + 1 /\ i \in 1..Len(q)
  BY <1>2, <1>5
<1> QED
  BY <1>1, <1>3, <1>4, <1>5

(* Taking the first request leaves no other for its reply port. *)
LEMMA OnceTail ==
  ASSUME NEW S, NEW q \in Seq(S), q # <<>>, Once(q)
  PROVE  /\ Once(Tail(q))
         /\ Head(q) # MACH_PORT_NULL => Head(q) \notin Elements(Tail(q))
<1>1. /\ Tail(q) \in Seq(S) /\ Len(q) \in Nat /\ Len(q) >= 1
      /\ DOMAIN q = 1..Len(q) /\ DOMAIN Tail(q) = 1..(Len(q) - 1) /\ Head(q) = q[1]
  OBVIOUS
<1>2. \A i \in 1..(Len(q) - 1) : Tail(q)[i] = q[i + 1] /\ i + 1 \in 1..Len(q)
  BY <1>1
<1>3. ASSUME NEW i \in 1..(Len(q) - 1), NEW j \in 1..(Len(q) - 1),
             Tail(q)[i] = Tail(q)[j], Tail(q)[i] # MACH_PORT_NULL
      PROVE  i = j
  <2>1. i + 1 = j + 1
    BY <1>1, <1>2, <1>3 DEF Once
  <2> QED
    BY <2>1
<1>4. ASSUME NEW i \in 1..(Len(q) - 1), Head(q) # MACH_PORT_NULL, Head(q) = Tail(q)[i] PROVE FALSE
  <2>1. 1 = i + 1
    BY <1>1, <1>2, <1>4 DEF Once
  <2> QED
    BY <2>1
<1>5. Once(Tail(q))
  BY <1>1, <1>3 DEF Once
<1>6. Head(q) # MACH_PORT_NULL => Head(q) \notin Elements(Tail(q))
  BY <1>1, <1>4 DEF Elements
<1> QED
  BY <1>5, <1>6

(* Append, place by place. *)
LEMMA AppendAny ==
  ASSUME NEW S, NEW q \in Seq(S), NEW x \in S
  PROVE  /\ Append(q, x) \in Seq(S) /\ Len(Append(q, x)) = Len(q) + 1
         /\ \A i \in 1..Len(q) : Append(q, x)[i] = q[i]
         /\ Append(q, x)[Len(q) + 1] = x
<1>1. Append(q, x) \in Seq(S) /\ Len(Append(q, x)) = Len(q) + 1
  OBVIOUS
<1>2. \A i \in 1..Len(q) : Append(q, x)[i] = q[i]
  OBVIOUS
<1>3. Append(q, x)[Len(q) + 1] = x
  OBVIOUS
<1> QED
  BY <1>1, <1>2, <1>3

(* Append to a queue of one message. *)
LEMMA AppendFacts ==
  ASSUME NEW S, NEW q \in Seq(S), NEW x \in S, Len(q) = 1
  PROVE  /\ Append(q, x) \in Seq(S) /\ Len(Append(q, x)) = 2
         /\ Append(q, x)[1] = q[1] /\ Append(q, x)[2] = x
<1> DEFINE p == Append(q, x)
<1>1. /\ p \in Seq(S) /\ Len(p) = Len(q) + 1
      /\ \A i \in 1..Len(q) : p[i] = q[i]
      /\ p[Len(q) + 1] = x
  BY AppendAny, Zenon
<1> HIDE DEF p
<1>2. Len(p) = 2 /\ p[1] = q[1] /\ p[2] = x
  BY <1>1
<1> QED
  BY <1>1, <1>2 DEF p

(* A queue of one message with another behind it. *)
LEMMA AppendOne ==
  ASSUME NEW S, NEW a \in S, NEW b \in S
  PROVE  Append(<<a>>, b) = <<a, b>>
<1>1. <<a>> \in Seq(S) /\ Len(<<a>>) = 1 /\ <<a>>[1] = a
  OBVIOUS
<1>2. <<a, b>> \in Seq(S) /\ Len(<<a, b>>) = 2 /\ <<a, b>>[1] = a /\ <<a, b>>[2] = b
  OBVIOUS
<1>3. \A q \in Seq(S) : Len(q) = 1 => /\ Append(q, b) \in Seq(S) /\ Len(Append(q, b)) = 2
                                      /\ Append(q, b)[1] = q[1] /\ Append(q, b)[2] = b
  BY AppendFacts
<1>4. \A p, q \in Seq(S) : Len(p) = 2 /\ Len(q) = 2 /\ p[1] = q[1] /\ p[2] = q[2] => p = q
  <2> SUFFICES ASSUME NEW p \in Seq(S), NEW q \in Seq(S), Len(p) = 2, Len(q) = 2,
                      p[1] = q[1], p[2] = q[2]
               PROVE  p = q
    OBVIOUS
  <2>1. \A i \in 1..Len(p) : p[i] = q[i]
    OBVIOUS
  <2> QED
    BY <2>1, SeqEqual
<1>5. /\ Append(<<a>>, b) \in Seq(S) /\ Len(Append(<<a>>, b)) = 2
      /\ Append(<<a>>, b)[1] = a /\ Append(<<a>>, b)[2] = b
  BY <1>1, <1>3, Zenon
<1> QED
  BY <1>2, <1>4, <1>5, Zenon

(* The few queues a kernel's messages can form. *)
LEMMA ShortQueues ==
  /\ Elements(<<>>) = {}
  /\ \A a : /\ Append(<<>>, a) = <<a>> /\ Head(<<a>>) = a /\ Tail(<<a>>) = <<>>
            /\ Elements(<<a>>) = {a} /\ <<a>> # <<>>
  /\ \A a, b : /\ Append(<<a>>, b) = <<a, b>> /\ Head(<<a, b>>) = a /\ Tail(<<a, b>>) = <<b>>
               /\ Elements(<<a, b>>) = {a, b} /\ <<a, b>> # <<>>
<1>1. Elements(<<>>) = {}
  BY DEF Elements
<1>2. ASSUME NEW a
      PROVE  /\ Append(<<>>, a) = <<a>> /\ Head(<<a>>) = a /\ Tail(<<a>>) = <<>>
             /\ Elements(<<a>>) = {a} /\ <<a>> # <<>>
  BY DEF Elements
<1>3. ASSUME NEW a, NEW b
      PROVE  /\ Append(<<a>>, b) = <<a, b>> /\ Head(<<a, b>>) = a /\ Tail(<<a, b>>) = <<b>>
             /\ Elements(<<a, b>>) = {a, b} /\ <<a, b>> # <<>>
  <2>0. Append(<<a>>, b) = <<a, b>>
    <3>1. a \in {a, b} /\ b \in {a, b}
      OBVIOUS
    <3> QED
      BY <3>1, AppendOne, Zenon
  <2>1. Append(<<a>>, b) = <<a, b>> /\ Head(<<a, b>>) = a /\ <<a, b>> # <<>>
    BY <2>0
  <2>2. Tail(<<a, b>>) = <<b>>
    OBVIOUS
  <2>3. DOMAIN <<a, b>> = {1, 2} /\ <<a, b>>[1] = a /\ <<a, b>>[2] = b
    OBVIOUS
  <2>4. Elements(<<a, b>>) = {a, b}
    BY <2>3 DEF Elements
  <2> QED
    BY <2>1, <2>2, <2>4
<1> QED
  BY <1>1, <1>2, <1>3

(* Reply ports. *)
LEMMA Replies ==
  /\ MACH_PORT_NULL \notin Reply
  /\ \A t \in Thread, m \in 1..NCalls, c \in Client :
       /\ <<t, m, c>> \in Reply /\ ThreadOf(<<t, m, c>>) = t /\ CallOf(<<t, m, c>>) = m
       /\ ClientOf(<<t, m, c>>) = c
  /\ \A r \in Reply : /\ ThreadOf(r) \in Thread /\ CallOf(r) \in Nat /\ ClientOf(r) \in Client
                       /\ r = <<ThreadOf(r), CallOf(r), ClientOf(r)>>
BY NCallsAssumption DEF MACH_PORT_NULL, Reply, ThreadOf, CallOf, ClientOf

(* As many reply ports as clients. *)
LEMMA ReplyCount ==
  ASSUME NEW t, NEW m, NEW S \in SUBSET Client, NEW T,
         \A c \in S : <<t, m, c>> \in T,
         \A r \in T : \E c \in S : r = <<t, m, c>>
  PROVE  /\ IsFiniteSet(T)
         /\ Cardinality(T) = Cardinality(S)
         /\ Cardinality(S) \in 0..Cardinality(Client)
         /\ Cardinality(S) = 0 <=> S = {}
<1> DEFINE f == [c \in S |-> <<t, m, c>>]
<1>1. IsFiniteSet(S) /\ Cardinality(S) <= Cardinality(Client)
  BY ClientAssumption, FS_Subset
<1>2. Cardinality(S) \in Nat /\ Cardinality(Client) \in Nat
  BY <1>1, ClientAssumption, FS_CardinalityType
<1>3. f \in [S -> T] /\ (\A x, y \in S : f[x] = f[y] => x = y) /\ (\A z \in T : \E x \in S : f[x] = z)
  OBVIOUS
<1> HIDE DEF f
<1>4. ExistsBijection(S, T)
  BY <1>3 DEF ExistsBijection, Bijection, Injection, IsInjective, Surjection
<1>5. IsFiniteSet(T) /\ Cardinality(T) = Cardinality(S)
  BY <1>1, <1>4, FS_Bijection
<1>6. Cardinality(S) = 0 <=> S = {}
  BY <1>1, FS_EmptySet
<1> QED
  BY <1>1, <1>2, <1>5, <1>6

-----------------------------------------------------------------------------
(* A new pager has no client, no call and no request. *)
LEMMA InitInv == Init => IInv
<1> SUFFICES ASSUME Init PROVE IInv
  OBVIOUS
<1>1. TypeOK
  <2>1. 0 \in 0..NCalls /\ 0 \in 0..Cardinality(Client)
    BY NCallsAssumption, ClientAssumption, FS_CardinalityType
  <2>2. \A S : <<>> \in Seq(S)
    OBVIOUS
  <2> QED
    BY <2>1, <2>2 DEF Init, TypeOK
<1>2. PortsFreed /\ ThreadInv
  BY FS_EmptySet DEF Init, PortsFreed, ThreadInv
<1>3. KernelInv
  BY DEF Init, KernelInv, KernelOK
<1>4. RequestInv
  BY ShortQueues DEF Init, RequestInv, Once
<1>5. QueuedInv /\ Answered /\ Completed
  BY DEF Init, QueuedInv, Answered, Completed, Awaited
<1> QED
  BY <1>1, <1>2, <1>3, <1>4, <1>5 DEF IInv

(* The kernels and the handlers leave the calls alone. *)
LEMMA CallsKept ==
  ASSUME IInv, UNCHANGED <<outstanding_change_requests, pc, calls, locks_outstanding, portset, msgh_local_port>>
  PROVE  PortsFreed' /\ ThreadInv'
BY DEF IInv, PortsFreed, ThreadInv

(* What a thread waits for is on record. *)
LEMMA OnRecord ==
  ASSUME IInv, NEW t \in Thread, NEW r \in portset[t]
  PROVE  r \in outstanding_change_requests /\ r \in Reply /\ ClientOf(r) \in Client /\ ThreadOf(r) = t
<1>1. r \in Reply
  BY DEF IInv, TypeOK
<1>2. r \in outstanding_change_requests
  BY DEF IInv, PortsFreed
<1>3. ThreadOf(r) = t
  BY DEF IInv, ThreadInv
<1> QED
  BY <1>1, <1>2, <1>3, Replies

(* What a control port holds. *)
LEMMA Requested ==
  ASSUME IInv, NEW c \in Client, NEW r \in Elements(control[c]) \ {MACH_PORT_NULL}
  PROVE  /\ r \in Reply /\ ThreadOf(r) \in Thread
         /\ CallOf(r) \in Nat /\ CallOf(r) <= calls
         /\ ClientOf(r) = c
         /\ kernel[c] = "up" => queued[r] = 0
<1>1. r \in Reply
  <2>1. control[c] \in Seq(Reply \cup {MACH_PORT_NULL})
    BY DEF IInv, TypeOK
  <2>2. r \in Reply \cup {MACH_PORT_NULL}
    BY <2>1 DEF Elements
  <2> QED
    BY <2>2
<1>2. ClientOf(r) = c /\ CallOf(r) <= calls /\ (kernel[c] = "up" => queued[r] = 0)
  BY DEF IInv, RequestInv
<1> QED
  BY <1>1, <1>2, Replies

(* The number of calls. *)
LEMMA CallsNat ==
  ASSUME IInv
  PROVE  calls \in Nat /\ calls <= NCalls /\ NCalls \in Nat
<1>1. calls \in 0..NCalls
  BY DEF IInv, TypeOK
<1> QED
  BY <1>1, NCallsAssumption

(* The three ways in which an answer can come, after a step. *)
LEMMA ComingNext ==
  ASSUME NEW r,
         \/ queued'[r] > 0
         \/ kernel'[ClientOf(r)] = "up" /\ r \in Elements(control'[ClientOf(r)])
         \/ /\ {"object_terminate", "dead_name"} \cap Elements(object'[ClientOf(r)]) # {}
            /\ r \in outstanding_change_requests'
  PROVE  Coming(r)'
BY DEF Coming, Elements, ClientOf

(* A kernel maps the object: it has no request, and is not yet a client. *)
LEMMA CreateInv ==
  ASSUME IInv, NEW c \in Client, memory_object_init(c)
  PROVE  IInv'
<1>1. /\ kernel[c] = "unborn" /\ object[c] = <<>> /\ control[c] = <<>> /\ c \notin clients
      /\ UNCHANGED <<clients, outstanding_change_requests, terminating, pc, calls, locks_outstanding,
                     portset, msgh_local_port, queued, control, unnoticed>>
      /\ kernel' = [kernel EXCEPT ![c] = "up"]
      /\ object' = [object EXCEPT ![c] = <<"object_init">>]
  BY ShortQueues DEF memory_object_init, Tell, threadVars, IInv, KernelInv, KernelOK
<1>2. TypeOK'
  BY <1>1 DEF IInv, TypeOK
<1>3. PortsFreed' /\ ThreadInv'
  BY <1>1, CallsKept
<1>4. KernelInv'
  BY <1>1 DEF IInv, TypeOK, KernelInv, KernelOK
<1>5. RequestInv' /\ QueuedInv' /\ Completed'
  BY <1>1, ShortQueues DEF IInv, TypeOK, RequestInv, QueuedInv, Completed, Awaited
<1>6. Answered'
  <2> SUFFICES ASSUME NEW t \in Thread, NEW r \in Awaited(t)
               PROVE  Coming(r)' \/ ClientOf(r) \in unnoticed
    BY <1>1 DEF Answered, Awaited
  <2>1. Coming(r) \/ ClientOf(r) \in unnoticed
    BY DEF IInv, Answered
  <2>2. ClientOf(r) \in Client
    BY OnRecord DEF Awaited
  <2>3. CASE ClientOf(r) = c
    BY <1>1, <2>1, <2>3, ShortQueues DEF Coming
  <2>4. CASE ClientOf(r) # c
    BY <1>1, <2>1, <2>2, <2>4 DEF Coming, IInv, TypeOK
  <2> QED
    BY <2>3, <2>4
<1> QED
  BY <1>2, <1>3, <1>4, <1>5, <1>6 DEF IInv
(* A kernel applies a request: the answer is queued, and nobody has queued *)
(* it before.                                                              *)
LEMMA ApplyInv ==
  ASSUME IInv, NEW c \in Client, memory_object_change_attributes(c)
  PROVE  IInv'
<1> DEFINE S == Reply \cup {MACH_PORT_NULL}
           h == Head(control[c])
<1>1. /\ kernel[c] = "up" /\ control[c] # <<>> /\ control[c] \in Seq(S)
      /\ UNCHANGED <<clients, outstanding_change_requests, terminating, pc, calls, locks_outstanding,
                     portset, msgh_local_port, kernel, object, unnoticed>>
      /\ control' = [control EXCEPT ![c] = Tail(control[c])]
      /\ queued' = [r \in Reply |-> IF r = h /\ (\E t \in Thread : r \in portset[t])
                                    THEN queued[r] + 1 ELSE queued[r]]
  BY DEF memory_object_change_attributes, threadVars, IInv, TypeOK
<1>2. /\ Tail(control[c]) \in Seq(S) /\ h \in S
      /\ Elements(control[c]) = {h} \cup Elements(Tail(control[c]))
  BY <1>1, ElementsTail
<1>3. /\ Once(Tail(control[c]))
      /\ h # MACH_PORT_NULL => h \notin Elements(Tail(control[c]))
  <2>1. Once(control[c])
    BY DEF IInv, RequestInv
  <2> QED
    BY <1>1, <2>1, OnceTail
<1> HIDE DEF h, S
<1>4. control'[c] = Tail(control[c]) /\ \A d \in Client : d # c => control'[d] = control[d]
  BY <1>1 DEF IInv, TypeOK
<1>5. TypeOK'
  <2>1. queued' \in [Reply -> Nat]
    BY <1>1 DEF IInv, TypeOK
  <2>2. control' \in [Client -> Seq(S)]
    BY <1>1, <1>2 DEF IInv, TypeOK, S
  <2> QED
    BY <1>1, <2>1, <2>2 DEF IInv, TypeOK, S
<1>6. PortsFreed' /\ ThreadInv'
  BY <1>1, CallsKept
<1>7. KernelInv'
  <2> SUFFICES ASSUME NEW d \in Client
               PROVE  KernelOK(kernel'[d], object'[d], control'[d], d \in clients', d \in unnoticed')
    BY DEF KernelInv
  <2>1. KernelOK(kernel[d], object[d], control[d], d \in clients, d \in unnoticed)
    BY DEF IInv, KernelInv
  <2> QED
    BY <1>1, <1>4, <2>1 DEF KernelOK
<1>8. QueuedInv'
  <2> SUFFICES ASSUME NEW r \in Reply, queued'[r] > 0 PROVE r \in outstanding_change_requests
    BY <1>1 DEF QueuedInv
  <2>1. CASE \E t \in Thread : r \in portset[t]
    BY <2>1, OnRecord
  <2>2. CASE ~ \E t \in Thread : r \in portset[t]
    BY <1>1, <2>2 DEF IInv, QueuedInv
  <2> QED
    BY <2>1, <2>2
<1>9. RequestInv'
  <2> SUFFICES ASSUME NEW d \in Client
               PROVE  /\ Once(control'[d])
                      /\ \A r \in Elements(control'[d]) \ {MACH_PORT_NULL} :
                           /\ ClientOf(r) = d /\ CallOf(r) <= calls
                           /\ kernel[d] = "up" => queued'[r] = 0
    BY <1>1 DEF RequestInv, Once, Elements
  <2>1. /\ Once(control[d])
        /\ \A r \in Elements(control[d]) \ {MACH_PORT_NULL} :
             /\ ClientOf(r) = d /\ CallOf(r) <= calls
             /\ kernel[d] = "up" => queued[r] = 0
    BY DEF IInv, RequestInv
  <2>2. \A r \in Elements(control[d]) \ {MACH_PORT_NULL} : r \in Reply
    BY DEF IInv, TypeOK, Elements
  <2>3. CASE d = c
    BY <1>1, <1>2, <1>3, <1>4, <2>1, <2>2, <2>3
  <2>4. CASE d # c
    <3>1. ASSUME NEW r \in Elements(control[d]) \ {MACH_PORT_NULL} PROVE r # h
      <4>1. h # MACH_PORT_NULL => ClientOf(h) = c
        BY <1>2 DEF IInv, RequestInv
      <4> QED
        BY <2>1, <2>4, <4>1
    <3> QED
      BY <1>1, <1>4, <2>1, <2>2, <2>4, <3>1
  <2> QED
    BY <2>3, <2>4
<1>10. Answered'
  <2> SUFFICES ASSUME NEW t \in Thread, NEW r \in Awaited(t)
               PROVE  Coming(r)' \/ ClientOf(r) \in unnoticed
    BY <1>1 DEF Answered, Awaited
  <2>1. Coming(r) \/ ClientOf(r) \in unnoticed
    BY DEF IInv, Answered
  <2>2. ClientOf(r) \in Client /\ r \in Reply /\ r \in portset[t]
    BY OnRecord DEF Awaited
  <2>3. queued[r] \in Nat /\ queued'[r] = IF r = h THEN queued[r] + 1 ELSE queued[r]
    BY <1>1, <2>2 DEF IInv, TypeOK
  <2>4. CASE r = h
    BY <2>3, <2>4 DEF Coming
  <2>5. CASE r # h
    <3>1. CASE queued[r] > 0
      BY <2>3, <2>5, <3>1 DEF Coming
    <3>2. CASE kernel[ClientOf(r)] = "up" /\ r \in Elements(control[ClientOf(r)])
      <4>1. r \in Elements(control'[ClientOf(r)])
        BY <1>2, <1>4, <2>2, <2>5, <3>2
      <4> QED
        BY <1>1, <3>2, <4>1 DEF Coming, Elements
    <3>3. CASE /\ {"object_terminate", "dead_name"} \cap Elements(object[ClientOf(r)]) # {}
               /\ r \in outstanding_change_requests
      BY <1>1, <3>3 DEF Coming, Elements
    <3> QED
      BY <2>1, <3>1, <3>2, <3>3 DEF Coming
  <2> QED
    BY <2>4, <2>5
<1>11. Completed'
  <2> SUFFICES ASSUME NEW d \in Client, kernel[d] = "up", NEW r \in Elements(control'[d]) \ {MACH_PORT_NULL}
               PROVE  r \in Awaited(ThreadOf(r))
    BY <1>1 DEF Completed, Awaited, Elements
  <2>1. r \in Elements(control[d])
    BY <1>2, <1>4
  <2> QED
    BY <2>1 DEF IInv, Completed
<1> QED
  BY <1>5, <1>6, <1>7, <1>8, <1>9, <1>10, <1>11 DEF IInv

(* The calls, the requests and the answers, when only a kernel's state and *)
(* its messages change and the kernel does not come to life.               *)
LEMMA RestKept ==
  ASSUME IInv,
         UNCHANGED <<outstanding_change_requests, pc, calls, locks_outstanding, portset, msgh_local_port,
                     queued, control>>,
         \A d \in Client : kernel'[d] = "up" => kernel[d] = "up"
  PROVE  PortsFreed' /\ ThreadInv' /\ RequestInv' /\ QueuedInv' /\ Completed'
<1>1. PortsFreed' /\ ThreadInv'
  BY CallsKept
<1>2. RequestInv'
  BY DEF IInv, RequestInv
<1>3. QueuedInv'
  BY DEF IInv, QueuedInv
<1>4. Completed'
  BY DEF IInv, Completed, Awaited
<1> QED
  BY <1>1, <1>2, <1>3, <1>4

(* A kernel that leaves with a message that makes drop_client answer. *)
LEMMA LeaveInv ==
  ASSUME IInv, NEW c \in Client, kernel[c] = "up",
         UNCHANGED <<clients, outstanding_change_requests, terminating, pc, calls, locks_outstanding,
                     portset, msgh_local_port, queued, control, unnoticed>>,
         \/ /\ kernel' = [kernel EXCEPT ![c] = "terminated"]
            /\ object' = [object EXCEPT ![c] = Append(object[c], "object_terminate")]
         \/ /\ c \in clients
            /\ kernel' = [kernel EXCEPT ![c] = "dead"]
            /\ object' = [object EXCEPT ![c] = Append(object[c], "dead_name")]
  PROVE  IInv'
<1> PICK k \in {"terminated", "dead"}, m \in {"object_terminate", "dead_name"} :
          /\ k = "terminated" => m = "object_terminate"
          /\ k = "dead" => m = "dead_name" /\ c \in clients
          /\ kernel' = [kernel EXCEPT ![c] = k]
          /\ object' = [object EXCEPT ![c] = Append(object[c], m)]
  OBVIOUS
<1>0. k \in {"terminated", "dead"} /\ m \in {"object_terminate", "dead_name"}
      /\ (k = "terminated" => m = "object_terminate") /\ (k = "dead" => m = "dead_name")
  OBVIOUS
<1>1. /\ object[c] \in {<<>>, <<"object_init">>} /\ (c \in clients => object[c] = <<>>)
      /\ object[c] \in Seq({"object_init", "object_terminate", "dead_name"})
  BY DEF IInv, KernelInv, KernelOK, TypeOK
<1>2. /\ Append(object[c], m) \in Seq({"object_init", "object_terminate", "dead_name"})
      /\ m \in Elements(Append(object[c], m))
  <2> DEFINE S == {"object_init", "object_terminate", "dead_name"}
  <2>1. object[c] \in Seq(S) /\ m \in S
    BY <1>0, <1>1
  <2> HIDE DEF S
  <2>2. Append(object[c], m) \in Seq(S) /\ m \in Elements(Append(object[c], m))
    BY <2>1, ElementsAppend
  <2> QED
    BY <2>2 DEF S
<1>3. Append(object[c], m) = <<m>> \/ (object[c] = <<"object_init">> /\ Append(object[c], m) = <<"object_init", m>>)
  <2>1. Append(<<>>, m) = <<m>> /\ Append(<<"object_init">>, m) = <<"object_init", m>>
    BY ShortQueues, Zenon
  <2> QED
    BY <1>1, <2>1
<1>4. object'[c] = Append(object[c], m) /\ kernel'[c] = k
      /\ \A d \in Client : d # c => object'[d] = object[d] /\ kernel'[d] = kernel[d]
  BY DEF IInv, TypeOK
<1>5. TypeOK'
  BY <1>0, <1>2 DEF IInv, TypeOK
<1>6. PortsFreed' /\ ThreadInv' /\ RequestInv' /\ QueuedInv' /\ Completed'
  BY <1>0, <1>4, RestKept
<1>7. KernelInv'
  <2> SUFFICES ASSUME NEW d \in Client
               PROVE  KernelOK(kernel'[d], object'[d], control'[d], d \in clients', d \in unnoticed')
    BY DEF KernelInv
  <2>1. KernelOK(kernel[d], object[d], control[d], d \in clients, d \in unnoticed)
    BY DEF IInv, KernelInv
  <2>2. CASE d = c
    <3>1. k = "terminated" => object'[c] \in {<<"object_init", "object_terminate">>, <<"object_terminate">>, <<>>}
      BY <1>0, <1>3, <1>4
    <3>2. k = "dead" => object'[c] \in {<<"object_init">>, <<"dead_name">>, <<>>}
      BY <1>0, <1>1, <1>3, <1>4, ShortQueues
    <3>3. {"object_terminate", "dead_name"} \cap Elements(object'[c]) # {}
      BY <1>0, <1>2, <1>4
    <3>4. kernel'[c] \notin {"unborn", "up"}
      BY <1>0, <1>4
    <3> QED
      BY <1>0, <1>4, <2>2, <3>1, <3>2, <3>3, <3>4 DEF KernelOK
  <2>3. CASE d # c
    BY <1>4, <2>1, <2>3
  <2> QED
    BY <2>2, <2>3
<1>8. Answered'
  <2> SUFFICES ASSUME NEW t \in Thread, NEW r \in Awaited(t)
               PROVE  Coming(r)' \/ ClientOf(r) \in unnoticed
    BY DEF Answered, Awaited
  <2>1. Coming(r) \/ ClientOf(r) \in unnoticed
    BY DEF IInv, Answered
  <2>2. ClientOf(r) \in Client /\ r \in outstanding_change_requests
    BY OnRecord DEF Awaited
  <2>3. CASE ClientOf(r) = c
    <3>1. {"object_terminate", "dead_name"} \cap Elements(object'[c]) # {}
      BY <1>0, <1>2, <1>4
    <3> QED
      BY <2>2, <2>3, <3>1, ComingNext
  <2>4. CASE ClientOf(r) # c
    BY <1>4, <2>1, <2>2, <2>4 DEF Coming
  <2> QED
    BY <2>3, <2>4
<1> QED
  BY <1>5, <1>6, <1>7, <1>8 DEF IInv

(* A kernel unmaps the object: object_terminate is on its way. *)
LEMMA TerminateInv ==
  ASSUME IInv, NEW c \in Client, memory_object_terminate(c)
  PROVE  IInv'
<1>1. /\ kernel[c] = "up"
      /\ UNCHANGED <<clients, outstanding_change_requests, terminating, pc, calls, locks_outstanding,
                     portset, msgh_local_port, queued, control, unnoticed>>
      /\ kernel' = [kernel EXCEPT ![c] = "terminated"]
      /\ object' = [object EXCEPT ![c] = Append(object[c], "object_terminate")]
  BY DEF memory_object_terminate, Tell, threadVars
<1> QED
  BY <1>1, LeaveInv

(* A kernel that dies before it is a client has no request to answer. *)
LEMMA DieInv ==
  ASSUME IInv, NEW c \in Client, Die(c)
  PROVE  IInv'
<1>1. CASE c \in clients
  <2>1. /\ kernel[c] = "up"
        /\ UNCHANGED <<clients, outstanding_change_requests, terminating, pc, calls, locks_outstanding,
                       portset, msgh_local_port, queued, control, unnoticed>>
        /\ kernel' = [kernel EXCEPT ![c] = "dead"]
        /\ object' = [object EXCEPT ![c] = Append(object[c], "dead_name")]
    BY <1>1 DEF Die, Tell, threadVars
  <2> QED
    BY <1>1, <2>1, LeaveInv
<1>2. CASE c \notin clients
  <2>1. /\ kernel[c] = "up" /\ kernel' = [kernel EXCEPT ![c] = "dead"]
        /\ UNCHANGED <<clients, outstanding_change_requests, terminating, pc, calls, locks_outstanding,
                       portset, msgh_local_port, queued, object, control, unnoticed>>
    BY <1>2 DEF Die, threadVars
  <2>2. control[c] = <<>> /\ object[c] \in {<<>>, <<"object_init">>}
    BY <1>2, <2>1 DEF IInv, KernelInv, KernelOK
  <2>3. kernel'[c] = "dead" /\ \A d \in Client : d # c => kernel'[d] = kernel[d]
    BY <2>1 DEF IInv, TypeOK
  <2>4. TypeOK'
    BY <2>1 DEF IInv, TypeOK
  <2>5. PortsFreed' /\ ThreadInv' /\ RequestInv' /\ QueuedInv' /\ Completed'
    BY <2>1, <2>3, RestKept
  <2>6. KernelInv'
    <3> SUFFICES ASSUME NEW d \in Client
                 PROVE  KernelOK(kernel'[d], object'[d], control'[d], d \in clients', d \in unnoticed')
      BY DEF KernelInv
    <3>1. KernelOK(kernel[d], object[d], control[d], d \in clients, d \in unnoticed)
      BY DEF IInv, KernelInv
    <3> QED
      BY <1>2, <2>1, <2>2, <2>3, <3>1 DEF KernelOK
  <2>7. Answered'
    <3> SUFFICES ASSUME NEW t \in Thread, NEW r \in Awaited(t)
                 PROVE  Coming(r)' \/ ClientOf(r) \in unnoticed
      BY <2>1 DEF Answered, Awaited
    <3>1. Coming(r) \/ ClientOf(r) \in unnoticed
      BY DEF IInv, Answered
    <3>2. ClientOf(r) \in Client
      BY OnRecord DEF Awaited
    <3>3. ClientOf(r) = c => r \notin Elements(control[ClientOf(r)])
      BY <2>2, ShortQueues
    <3> QED
      BY <2>1, <2>3, <3>1, <3>2, <3>3 DEF Coming
  <2> QED
    BY <2>4, <2>5, <2>6, <2>7 DEF IInv
<1> QED
  BY <1>1, <1>2

(* object_init: the new client has been asked nothing yet. *)
LEMMA ObjectInitInv ==
  ASSUME IInv, NEW c \in Client, object_init(c)
  PROVE  IInv'
<1>1. /\ object[c] # <<>> /\ Head(object[c]) = "object_init"
      /\ object' = [object EXCEPT ![c] = Tail(object[c])]
      /\ clients' = IF terminating THEN clients ELSE clients \cup {c}
      /\ unnoticed' = IF ~ terminating /\ kernel[c] = "dead" THEN unnoticed \cup {c} ELSE unnoticed
      /\ UNCHANGED <<outstanding_change_requests, terminating, pc, calls, locks_outstanding, portset,
                     msgh_local_port, queued, kernel, control>>
  BY DEF object_init, Handle, threadVars
<1>2. /\ Tail(object[c]) \in Seq({"object_init", "object_terminate", "dead_name"})
      /\ Elements(object[c]) = {"object_init"} \cup Elements(Tail(object[c]))
  <2>1. object[c] \in Seq({"object_init", "object_terminate", "dead_name"})
    BY DEF IInv, TypeOK
  <2> QED
    BY <1>1, <2>1, ElementsTail
<1>3. /\ kernel[c] # "unborn"
      /\ kernel[c] = "up" => Tail(object[c]) = <<>>
      /\ kernel[c] = "terminated" => Tail(object[c]) = <<"object_terminate">>
      /\ kernel[c] = "dead" => Tail(object[c]) = <<>>
  <2>1. /\ Tail(<<"object_init">>) = <<>>
        /\ Tail(<<"object_init", "object_terminate">>) = <<"object_terminate">>
        /\ Head(<<"object_terminate">>) = "object_terminate"
        /\ Head(<<"dead_name">>) = "dead_name"
    BY ShortQueues, Zenon
  <2>2. KernelOK(kernel[c], object[c], control[c], c \in clients, c \in unnoticed)
    BY DEF IInv, KernelInv
  <2> QED
    BY <1>1, <2>1, <2>2 DEF KernelOK
<1>4. object'[c] = Tail(object[c]) /\ \A d \in Client : d # c => object'[d] = object[d]
  BY <1>1 DEF IInv, TypeOK
<1>5. TypeOK'
  BY <1>1, <1>2 DEF IInv, TypeOK
<1>6. PortsFreed' /\ ThreadInv' /\ RequestInv' /\ QueuedInv' /\ Completed'
  BY <1>1, RestKept
<1>7. KernelInv'
  <2> SUFFICES ASSUME NEW d \in Client
               PROVE  KernelOK(kernel'[d], object'[d], control'[d], d \in clients', d \in unnoticed')
    BY DEF KernelInv
  <2>1. KernelOK(kernel[d], object[d], control[d], d \in clients, d \in unnoticed)
    BY DEF IInv, KernelInv
  <2>2. CASE d = c
    <3>1. kernel[c] \in {"up", "terminated", "dead"}
      BY <1>3 DEF IInv, TypeOK
    <3>2. CASE kernel[c] = "up"
      BY <1>1, <1>3, <1>4, <2>1, <2>2, <3>2 DEF KernelOK
    <3>3. CASE kernel[c] = "terminated"
      <4>1. object'[c] = <<"object_terminate">> /\ Elements(object'[c]) = {"object_terminate"}
        BY <1>3, <1>4, <3>3, ShortQueues
      <4> QED
        BY <1>1, <2>2, <3>3, <4>1 DEF KernelOK
    <3>4. CASE kernel[c] = "dead"
      <4>1. object'[c] = <<>>
        BY <1>3, <1>4, <3>4
      <4>2. c \in clients' => c \in unnoticed'
        <5>1. CASE ~ terminating
          BY <1>1, <3>4, <5>1
        <5>2. CASE terminating
          <6>1. Head(<<"dead_name">>) = "dead_name" /\ Elements(<<"object_init">>) = {"object_init"}
            BY ShortQueues, Zenon
          <6>2. object[c] = <<"object_init">>
            BY <1>1, <2>1, <2>2, <3>4, <6>1 DEF KernelOK
          <6>3. {"object_terminate", "dead_name"} \cap Elements(object[c]) = {}
            BY <6>1, <6>2
          <6> QED
            BY <1>1, <2>1, <2>2, <3>4, <5>2, <6>3 DEF KernelOK
        <5> QED
          BY <5>1, <5>2
      <4> QED
        BY <1>1, <2>2, <3>4, <4>1, <4>2 DEF KernelOK
    <3> QED
      BY <3>1, <3>2, <3>3, <3>4
  <2>3. CASE d # c
    BY <1>1, <1>4, <2>1, <2>3
  <2> QED
    BY <2>2, <2>3
<1>8. Answered'
  <2> SUFFICES ASSUME NEW t \in Thread, NEW r \in Awaited(t)
               PROVE  Coming(r)' \/ ClientOf(r) \in unnoticed'
    BY <1>1 DEF Answered, Awaited
  <2>1. Coming(r) \/ ClientOf(r) \in unnoticed
    BY DEF IInv, Answered
  <2>2. ClientOf(r) \in Client
    BY OnRecord DEF Awaited
  <2>3. "object_terminate" # "object_init" /\ "dead_name" # "object_init"
    OBVIOUS
  <2>4. {"object_terminate", "dead_name"} \cap Elements(object[ClientOf(r)]) # {}
          => {"object_terminate", "dead_name"} \cap Elements(object'[ClientOf(r)]) # {}
    BY <1>2, <1>4, <2>2, <2>3
  <2>5. unnoticed \subseteq unnoticed'
    BY <1>1
  <2> QED
    BY <1>1, <2>1, <2>4, <2>5 DEF Coming, Elements
<1> QED
  BY <1>5, <1>6, <1>7, <1>8 DEF IInv

(* drop_client answers for a client that has left. *)
LEMMA DropInv ==
  ASSUME IInv, NEW c \in Client, NEW m \in {"object_terminate", "dead_name"},
         Handle(c, m), drop_client(c)
  PROVE  IInv'
<1>1. /\ object[c] # <<>> /\ Head(object[c]) = m
      /\ object' = [object EXCEPT ![c] = Tail(object[c])]
      /\ queued' = [r \in Reply |-> IF r \in outstanding_change_requests /\ ClientOf(r) = c
                                    THEN queued[r] + 1 ELSE queued[r]]
      /\ clients' = clients \ {c}
      /\ UNCHANGED <<outstanding_change_requests, terminating, pc, calls, locks_outstanding, portset,
                     msgh_local_port, kernel, control, unnoticed>>
  BY DEF Handle, drop_client, fakes, threadVars
<1>2. kernel[c] \in {"terminated", "dead"} /\ Tail(object[c]) = <<>>
  <2>1. /\ Tail(<<"object_terminate">>) = <<>> /\ Tail(<<"dead_name">>) = <<>>
        /\ Head(<<"object_init">>) = "object_init"
        /\ Head(<<"object_init", "object_terminate">>) = "object_init"
    BY ShortQueues, Zenon
  <2>2. KernelOK(kernel[c], object[c], control[c], c \in clients, c \in unnoticed)
    BY DEF IInv, KernelInv
  <2>3. kernel[c] \in {"unborn", "up", "terminated", "dead"}
    BY DEF IInv, TypeOK
  <2> QED
    BY <1>1, <2>1, <2>2, <2>3 DEF KernelOK
<1>3. object'[c] = <<>> /\ \A d \in Client : d # c => object'[d] = object[d]
  BY <1>1, <1>2 DEF IInv, TypeOK
<1>4. \A r \in Reply : queued[r] \in Nat
  BY DEF IInv, TypeOK
<1>5. TypeOK'
  <2>1. queued' \in [Reply -> Nat]
    BY <1>1, <1>4
  <2> QED
    BY <1>1, <1>2, <2>1 DEF IInv, TypeOK
<1>6. PortsFreed' /\ ThreadInv'
  BY <1>1, CallsKept
<1>7. KernelInv'
  <2> SUFFICES ASSUME NEW d \in Client
               PROVE  KernelOK(kernel'[d], object'[d], control'[d], d \in clients', d \in unnoticed')
    BY DEF KernelInv
  <2>1. KernelOK(kernel[d], object[d], control[d], d \in clients, d \in unnoticed)
    BY DEF IInv, KernelInv
  <2> QED
    BY <1>1, <1>2, <1>3, <2>1 DEF KernelOK
<1>8. RequestInv'
  <2> SUFFICES ASSUME NEW d \in Client, NEW r \in Elements(control[d]) \ {MACH_PORT_NULL},
                      kernel[d] = "up"
               PROVE  queued'[r] = 0
    BY <1>1 DEF IInv, RequestInv
  <2>1. ClientOf(r) = d /\ queued[r] = 0
    BY DEF IInv, RequestInv
  <2>2. r \in Reply /\ d # c
    BY <1>2 DEF IInv, TypeOK, Elements
  <2> QED
    BY <1>1, <2>1, <2>2
<1>9. QueuedInv'
  BY <1>1 DEF IInv, QueuedInv
<1>10. Answered'
  <2> SUFFICES ASSUME NEW t \in Thread, NEW r \in Awaited(t)
               PROVE  Coming(r)' \/ ClientOf(r) \in unnoticed
    BY <1>1 DEF Answered, Awaited
  <2>1. Coming(r) \/ ClientOf(r) \in unnoticed
    BY DEF IInv, Answered
  <2>2. ClientOf(r) \in Client /\ r \in Reply /\ r \in outstanding_change_requests
    BY OnRecord DEF Awaited
  <2>3. CASE ClientOf(r) = c
    <3>1. queued'[r] > 0
      BY <1>1, <1>4, <2>2, <2>3
    <3> QED
      BY <3>1, ComingNext
  <2>4. CASE ClientOf(r) # c
    <3>1. queued'[r] = queued[r] /\ object'[ClientOf(r)] = object[ClientOf(r)]
      BY <1>1, <1>3, <2>2, <2>4
    <3> QED
      BY <1>1, <2>1, <3>1, ComingNext DEF Coming
  <2> QED
    BY <2>3, <2>4
<1>11. Completed'
  BY <1>1 DEF IInv, Completed, Awaited
<1> QED
  BY <1>5, <1>6, <1>7, <1>8, <1>9, <1>10, <1>11 DEF IInv

(* shutdown only sets terminating. *)
LEMMA ShutdownInv ==
  ASSUME IInv, shutdown
  PROVE  IInv'
<1>1. /\ terminating' = TRUE
      /\ UNCHANGED <<clients, outstanding_change_requests, pc, calls, locks_outstanding, portset,
                     msgh_local_port, queued, kernel, control, object, unnoticed>>
  BY DEF shutdown, threadVars, kernelVars
<1>2. PortsFreed' /\ ThreadInv' /\ RequestInv' /\ QueuedInv' /\ Completed'
  BY <1>1, RestKept
<1>3. TypeOK'
  BY <1>1 DEF IInv, TypeOK
<1>4. KernelInv'
  BY <1>1 DEF IInv, KernelInv
<1>5. Answered'
  BY <1>1 DEF IInv, Answered, Awaited, Coming
<1> QED
  BY <1>2, <1>3, <1>4, <1>5 DEF IInv

(* A step that changes nothing. *)
LEMMA StutterInv ==
  ASSUME IInv, UNCHANGED vars
  PROVE  IInv'
<1>1. UNCHANGED <<clients, outstanding_change_requests, terminating, pc, calls, locks_outstanding, portset,
                  msgh_local_port, queued, kernel, control, object, unnoticed>>
  BY DEF vars, threadVars, kernelVars
<1>2. PortsFreed' /\ ThreadInv' /\ RequestInv' /\ QueuedInv' /\ Completed'
  BY <1>1, RestKept
<1>3. TypeOK'
  BY <1>1 DEF IInv, TypeOK
<1>4. KernelInv'
  BY <1>1 DEF IInv, KernelInv
<1>5. Answered'
  BY <1>1 DEF IInv, Answered, Awaited, Coming
<1> QED
  BY <1>2, <1>3, <1>4, <1>5 DEF IInv

-----------------------------------------------------------------------------
(* A reply port of the call to come is not on record, and has no answer. *)
LEMMA Fresh ==
  ASSUME IInv, NEW r \in Reply, CallOf(r) = calls + 1
  PROVE  r \notin outstanding_change_requests /\ queued[r] = 0
<1>1. calls \in Nat /\ queued[r] \in Nat
  BY NCallsAssumption DEF IInv, TypeOK
<1>2. r \notin outstanding_change_requests
  <2>1. ASSUME NEW t \in Thread, r \in portset[t] PROVE FALSE
    <3>1. CallOf(r) <= calls
      BY <2>1 DEF IInv, ThreadInv
    <3> QED
      BY <1>1, <3>1
  <2> QED
    BY <2>1 DEF IInv, PortsFreed
<1> QED
  BY <1>1, <1>2 DEF IInv, QueuedInv

(* What asking every client does to the control ports: f is the reply port *)
(* of each request.                                                        *)
LEMMA Asking ==
  ASSUME IInv, calls < NCalls, calls' = calls + 1,
         UNCHANGED <<clients, queued, kernel, object, unnoticed>>,
         NEW f \in [Client -> Reply \cup {MACH_PORT_NULL}],
         \A c \in Client : f[c] # MACH_PORT_NULL => ClientOf(f[c]) = c /\ CallOf(f[c]) = calls + 1,
         control' = [c \in Client |-> IF c \in clients THEN Append(control[c], f[c]) ELSE control[c]]
  PROVE  /\ control' \in [Client -> Seq(Reply \cup {MACH_PORT_NULL})]
         /\ calls' \in 0..NCalls
         /\ KernelInv' /\ RequestInv'
         /\ \A c \in Client :
              Elements(control'[c]) = Elements(control[c]) \cup (IF c \in clients THEN {f[c]} ELSE {})
<1> DEFINE S == Reply \cup {MACH_PORT_NULL}
<1>1. /\ control \in [Client -> Seq(S)] /\ f \in [Client -> S]
      /\ calls \in Nat /\ calls' \in 0..NCalls
  BY NCallsAssumption DEF IInv, TypeOK
<1> HIDE DEF S
<1>2. ASSUME NEW c \in Client, c \in clients
      PROVE  /\ control'[c] = Append(control[c], f[c])
             /\ control'[c] \in Seq(S) /\ control'[c] # <<>>
             /\ Elements(control'[c]) = Elements(control[c]) \cup {f[c]}
  <2>1. control'[c] = Append(control[c], f[c]) /\ control[c] \in Seq(S) /\ f[c] \in S
    BY <1>1, <1>2
  <2>2. /\ Append(control[c], f[c]) \in Seq(S) /\ Append(control[c], f[c]) # <<>>
        /\ Elements(Append(control[c], f[c])) = Elements(control[c]) \cup {f[c]}
    BY <2>1, ElementsAppend
  <2> QED
    BY <2>1, <2>2, Zenon
<1>3. ASSUME NEW c \in Client, c \notin clients PROVE control'[c] = control[c]
  BY <1>3
<1>4. control' \in [Client -> Seq(S)]
  BY <1>1, <1>2, <1>3
<1>5. KernelInv'
  <2> SUFFICES ASSUME NEW d \in Client
               PROVE  KernelOK(kernel'[d], object'[d], control'[d], d \in clients', d \in unnoticed')
    BY DEF KernelInv
  <2>1. KernelOK(kernel[d], object[d], control[d], d \in clients, d \in unnoticed)
    BY DEF IInv, KernelInv
  <2> QED
    BY <1>3, <2>1 DEF KernelOK
<1>6. RequestInv'
  <2> SUFFICES ASSUME NEW d \in Client
               PROVE  /\ Once(control'[d])
                      /\ \A r \in Elements(control'[d]) \ {MACH_PORT_NULL} :
                           /\ ClientOf(r) = d /\ CallOf(r) <= calls'
                           /\ kernel[d] = "up" => queued[r] = 0
    BY DEF RequestInv, Once, Elements
  <2>1. /\ Once(control[d])
        /\ \A r \in Elements(control[d]) \ {MACH_PORT_NULL} :
             /\ ClientOf(r) = d /\ CallOf(r) <= calls
             /\ kernel[d] = "up" => queued[r] = 0
    BY DEF IInv, RequestInv
  <2>2. \A r \in Elements(control[d]) \ {MACH_PORT_NULL} : CallOf(r) <= calls'
    <3>1. \A r \in Elements(control[d]) \ {MACH_PORT_NULL} : CallOf(r) \in Nat
      BY Requested
    <3> QED
      BY <1>1, <2>1, <3>1
  <2>3. CASE d \notin clients
    BY <1>3, <2>1, <2>2, <2>3
  <2>4. CASE d \in clients
    <3>1. f[d] # MACH_PORT_NULL =>
            f[d] \in Reply /\ ClientOf(f[d]) = d /\ CallOf(f[d]) = calls + 1
      OBVIOUS
    <3>2. f[d] # MACH_PORT_NULL => queued[f[d]] = 0
      BY <3>1, Fresh
    <3>3. f[d] # MACH_PORT_NULL => f[d] \notin Elements(control[d])
      BY <1>1, <2>1, <3>1
    <3>4. Once(control'[d])
      <4>1. control[d] \in Seq(S) /\ f[d] \in S
        BY <1>1
      <4>2. Once(Append(control[d], f[d]))
        BY <2>1, <3>3, <4>1, OnceAppend
      <4> QED
        BY <1>2, <2>4, <4>2
    <3>5. CallOf(f[d]) = calls + 1 => CallOf(f[d]) <= calls'
      BY <1>1
    <3>6. ASSUME NEW r \in Elements(control'[d]) \ {MACH_PORT_NULL}
          PROVE  /\ ClientOf(r) = d /\ CallOf(r) <= calls'
                 /\ kernel[d] = "up" => queued[r] = 0
      <4>1. CASE r \in Elements(control[d])
        BY <2>1, <2>2, <3>6, <4>1
      <4>2. CASE r = f[d]
        BY <3>1, <3>2, <3>5, <3>6, <4>2
      <4>3. r \in Elements(control[d]) \/ r = f[d]
        BY <1>2, <2>4, <3>6
      <4> QED
        BY <4>1, <4>2, <4>3
    <3> QED
      BY <3>4, <3>6
  <2> QED
    BY <2>3, <2>4
<1> QED
  BY <1>1, <1>2, <1>3, <1>4, <1>5, <1>6 DEF S

(* change_attributes without sync: nobody waits for an answer. *)
LEMMA ChangeInv ==
  ASSUME IInv, NEW t \in Thread, change_attributes(t)
  PROVE  IInv'
<1>1. /\ calls < NCalls /\ calls' = calls + 1
      /\ control' = [c \in Client |->
                       IF c \in clients THEN Append(control[c], MACH_PORT_NULL) ELSE control[c]]
      /\ UNCHANGED <<clients, outstanding_change_requests, terminating, pc, locks_outstanding, portset,
                     msgh_local_port, queued, kernel, object, unnoticed>>
  BY DEF change_attributes
<1>2. PICK f \in [Client -> Reply \cup {MACH_PORT_NULL}] :
             /\ \A c \in Client : f[c] = MACH_PORT_NULL
             /\ control' = [c \in Client |->
                              IF c \in clients THEN Append(control[c], f[c]) ELSE control[c]]
  <2> DEFINE g == [c \in Client |-> MACH_PORT_NULL]
  <2> WITNESS g \in [Client -> Reply \cup {MACH_PORT_NULL}]
  <2> QED
    BY <1>1
<1>3. /\ control' \in [Client -> Seq(Reply \cup {MACH_PORT_NULL})]
      /\ calls' \in 0..NCalls
      /\ KernelInv' /\ RequestInv'
      /\ \A c \in Client :
           Elements(control'[c]) = Elements(control[c]) \cup (IF c \in clients THEN {f[c]} ELSE {})
  BY <1>1, <1>2, Asking
<1>4. TypeOK'
  BY <1>1, <1>3 DEF IInv, TypeOK
<1>5. PortsFreed' /\ QueuedInv'
  BY <1>1 DEF IInv, PortsFreed, QueuedInv
<1>6. ThreadInv'
  <2>1. \A u \in Thread : \A r \in portset[u] : CallOf(r) <= calls + 1
    <3> SUFFICES ASSUME NEW u \in Thread, NEW r \in portset[u] PROVE CallOf(r) <= calls + 1
      OBVIOUS
    <3>1. CallOf(r) \in Nat
      BY OnRecord, Replies
    <3>2. CallOf(r) <= calls
      BY DEF IInv, ThreadInv
    <3> QED
      BY <3>1, <3>2, CallsNat
  <2> QED
    BY <1>1, <2>1 DEF IInv, ThreadInv
<1>7. Answered'
  <2> SUFFICES ASSUME NEW u \in Thread, NEW r \in Awaited(u)
               PROVE  Coming(r)' \/ ClientOf(r) \in unnoticed
    BY <1>1 DEF Answered, Awaited
  <2>1. Coming(r) \/ ClientOf(r) \in unnoticed
    BY DEF IInv, Answered
  <2>2. ClientOf(r) \in Client
    BY OnRecord DEF Awaited
  <2>3. r \in Elements(control[ClientOf(r)]) => r \in Elements(control'[ClientOf(r)])
    BY <1>3, <2>2
  <2> QED
    BY <1>1, <2>1, <2>3, ComingNext DEF Coming
<1>8. Completed'
  <2> SUFFICES ASSUME NEW d \in Client, kernel[d] = "up", NEW r \in Elements(control'[d]) \ {MACH_PORT_NULL}
               PROVE  r \in Awaited(ThreadOf(r))
    BY <1>1 DEF Completed, Awaited, Elements
  <2>1. r \in Elements(control[d])
    BY <1>2, <1>3
  <2> QED
    BY <2>1 DEF IInv, Completed
<1> QED
  BY <1>3, <1>4, <1>5, <1>6, <1>7, <1>8 DEF IInv

(* The step of change_attributes with sync: every client is asked, and the *)
(* thread waits for as many answers.                                       *)
LEMMA SyncInv ==
  ASSUME IInv, NEW t \in Thread, change_attributes_sync(t)
  PROVE  IInv'
<1> DEFINE n == calls + 1
           R == {<<t, n, c>> : c \in clients}
<1>1. /\ pc[t] = "idle" /\ calls < NCalls /\ calls' = n
      /\ control' = [c \in Client |->
                       IF c \in clients THEN Append(control[c], <<t, n, c>>) ELSE control[c]]
      /\ outstanding_change_requests' = outstanding_change_requests \cup R
      /\ portset' = [portset EXCEPT ![t] = R]
      /\ locks_outstanding' = [locks_outstanding EXCEPT ![t] = Cardinality(clients)]
      /\ pc' = [pc EXCEPT ![t] = IF Cardinality(clients) = 0 THEN "idle" ELSE "waiting"]
      /\ UNCHANGED <<clients, terminating, msgh_local_port, queued, kernel, object, unnoticed>>
  BY DEF change_attributes_sync, Asked
<1>2. n \in 1..NCalls /\ calls \in Nat /\ clients \subseteq Client
  <2>1. clients \subseteq Client
    BY DEF IInv, TypeOK
  <2>2. calls < NCalls
    BY <1>1
  <2> QED
    BY <2>1, <2>2, CallsNat
<1> HIDE DEF n
<1>3. /\ \A c \in clients : <<t, n, c>> \in R
      /\ \A r \in R : \E c \in clients : r = <<t, n, c>>
  OBVIOUS
<1> HIDE DEF R
<1>4. \A c \in Client : /\ <<t, n, c>> \in Reply /\ <<t, n, c>> # MACH_PORT_NULL
                        /\ ThreadOf(<<t, n, c>>) = t /\ CallOf(<<t, n, c>>) = n
                        /\ ClientOf(<<t, n, c>>) = c
  BY <1>2, Replies
<1>5. /\ R \subseteq Reply
      /\ R = {} <=> clients = {}
      /\ \A r \in R : ThreadOf(r) = t /\ CallOf(r) = n /\ ClientOf(r) \in clients
                     /\ r = <<t, n, ClientOf(r)>> /\ r # MACH_PORT_NULL
  BY <1>2, <1>3, <1>4
<1>6. /\ IsFiniteSet(R) /\ Cardinality(R) = Cardinality(clients)
      /\ Cardinality(clients) \in 0..Cardinality(Client)
      /\ Cardinality(clients) = 0 <=> clients = {}
  <2>1. clients \in SUBSET Client
    BY <1>2
  <2> QED
    BY <1>3, <2>1, ReplyCount
<1>7. PICK f \in [Client -> Reply \cup {MACH_PORT_NULL}] :
             /\ \A c \in Client : f[c] = <<t, n, c>>
             /\ control' = [c \in Client |->
                              IF c \in clients THEN Append(control[c], f[c]) ELSE control[c]]
  <2> DEFINE g == [c \in Client |-> <<t, n, c>>]
  <2>1. g \in [Client -> Reply \cup {MACH_PORT_NULL}]
    BY <1>4
  <2> WITNESS g \in [Client -> Reply \cup {MACH_PORT_NULL}]
  <2> QED
    BY <1>1
<1>8. /\ control' \in [Client -> Seq(Reply \cup {MACH_PORT_NULL})]
      /\ calls' \in 0..NCalls
      /\ KernelInv' /\ RequestInv'
      /\ \A c \in Client :
           Elements(control'[c]) = Elements(control[c]) \cup (IF c \in clients THEN {f[c]} ELSE {})
  <2>1. \A c \in Client : f[c] # MACH_PORT_NULL => ClientOf(f[c]) = c /\ CallOf(f[c]) = calls + 1
    BY <1>4, <1>7 DEF n
  <2>2. calls' = calls + 1
    BY <1>1 DEF n
  <2> QED
    BY <1>1, <1>7, <2>1, <2>2, Asking
<1>9. /\ portset'[t] = R /\ portset[t] = {} /\ msgh_local_port[t] = MACH_PORT_NULL
      /\ locks_outstanding'[t] = Cardinality(clients)
      /\ pc'[t] = IF Cardinality(clients) = 0 THEN "idle" ELSE "waiting"
      /\ \A u \in Thread : u # t => /\ portset'[u] = portset[u] /\ pc'[u] = pc[u]
                                    /\ locks_outstanding'[u] = locks_outstanding[u]
  BY <1>1 DEF IInv, TypeOK, PortsFreed, ThreadInv
<1>10. TypeOK'
  <2>1. pc' \in [Thread -> {"idle", "waiting", "received"}]
    BY <1>1 DEF IInv, TypeOK
  <2>2. locks_outstanding' \in [Thread -> 0..Cardinality(Client)]
    BY <1>1, <1>6 DEF IInv, TypeOK
  <2>3. portset' \in [Thread -> SUBSET Reply]
    <3>1. R \in SUBSET Reply /\ portset \in [Thread -> SUBSET Reply]
      BY <1>5 DEF IInv, TypeOK
    <3> QED
      BY <1>1, <3>1
  <2>4. outstanding_change_requests' \subseteq Reply
    BY <1>1, <1>5 DEF IInv, TypeOK
  <2> QED
    BY <1>1, <1>8, <2>1, <2>2, <2>3, <2>4 DEF IInv, TypeOK
<1>11. PortsFreed'
  <2>1. outstanding_change_requests' = UNION {portset'[u] : u \in Thread}
    <3>1. outstanding_change_requests = UNION {portset[u] : u \in Thread}
      BY DEF IInv, PortsFreed
    <3> QED
      BY <1>1, <1>9, <3>1
  <2>2. \A u \in Thread : /\ locks_outstanding'[u] = Cardinality(portset'[u])
                          /\ pc'[u] = "idle" <=> portset'[u] = {}
    BY <1>5, <1>6, <1>9 DEF IInv, PortsFreed
  <2> QED
    BY <2>1, <2>2 DEF PortsFreed
<1>12. ThreadInv'
  <2> SUFFICES ASSUME NEW u \in Thread
               PROVE  /\ IsFiniteSet(portset'[u])
                      /\ \A r \in portset'[u] : ThreadOf(r) = u /\ CallOf(r) <= calls'
                      /\ IF pc'[u] = "received" THEN msgh_local_port[u] \in portset'[u]
                                                ELSE msgh_local_port[u] = MACH_PORT_NULL
    BY <1>1 DEF ThreadInv
  <2>1. CASE u = t
    <3>1. calls' = n /\ n <= n
      BY <1>1, <1>2
    <3>2. pc'[t] # "received"
      BY <1>9
    <3> QED
      BY <1>5, <1>6, <1>9, <2>1, <3>1, <3>2
  <2>2. CASE u # t
    <3>1. \A r \in portset[u] : CallOf(r) \in Nat /\ CallOf(r) <= calls
      BY OnRecord, Replies DEF IInv, ThreadInv
    <3>2. \A r \in portset[u] : CallOf(r) <= calls'
      BY <1>1, <1>2, <3>1 DEF n
    <3> QED
      BY <1>9, <2>2, <3>2 DEF IInv, ThreadInv
  <2> QED
    BY <2>1, <2>2
<1>13. QueuedInv'
  BY <1>1 DEF IInv, QueuedInv
<1>14. Answered'
  <2> SUFFICES ASSUME NEW u \in Thread, NEW r \in portset'[u], r # msgh_local_port[u]
               PROVE  Coming(r)' \/ ClientOf(r) \in unnoticed
    BY <1>1 DEF Answered, Awaited
  <2>1. CASE u = t
    <3>1. r \in R /\ ClientOf(r) \in clients /\ ClientOf(r) \in Client /\ r = f[ClientOf(r)]
      BY <1>2, <1>5, <1>7, <1>9, <2>1
    <3>2. r \in Elements(control'[ClientOf(r)]) /\ r \in outstanding_change_requests'
      BY <1>1, <1>8, <3>1
    <3>3. LET c == ClientOf(r)
          IN KernelOK(kernel[c], object[c], control[c], c \in clients, c \in unnoticed)
      BY <3>1 DEF IInv, KernelInv
    <3>4. \/ kernel[ClientOf(r)] = "up" \/ ClientOf(r) \in unnoticed
          \/ {"object_terminate", "dead_name"} \cap Elements(object[ClientOf(r)]) # {}
      BY <3>1, <3>3 DEF KernelOK
    <3> QED
      BY <1>1, <3>2, <3>4, ComingNext
  <2>2. CASE u # t
    <3>1. r \in portset[u] /\ r \in Awaited(u)
      BY <1>9, <2>2 DEF Awaited
    <3>2. Coming(r) \/ ClientOf(r) \in unnoticed
      BY <3>1 DEF IInv, Answered
    <3>3. ClientOf(r) \in Client
      BY <3>1, OnRecord
    <3>4. r \in Elements(control[ClientOf(r)]) => r \in Elements(control'[ClientOf(r)])
      BY <1>8, <3>3
    <3> QED
      BY <1>1, <3>2, <3>4, ComingNext DEF Coming
  <2> QED
    BY <2>1, <2>2
<1>15. Completed'
  <2> SUFFICES ASSUME NEW d \in Client, kernel[d] = "up", NEW r \in Elements(control'[d]) \ {MACH_PORT_NULL}
               PROVE  r \in portset'[ThreadOf(r)] \ {msgh_local_port[ThreadOf(r)]}
    BY <1>1 DEF Completed, Awaited, Elements
  <2>1. CASE r \in Elements(control[d])
    <3>1. r \in portset[ThreadOf(r)] \ {msgh_local_port[ThreadOf(r)]}
      BY <2>1 DEF IInv, Completed, Awaited
    <3>2. ThreadOf(r) \in Thread /\ ThreadOf(r) # t
      <4>1. ThreadOf(r) \in Thread
        BY <2>1, Requested
      <4> QED
        BY <1>9, <3>1, <4>1
    <3> QED
      BY <1>9, <3>1, <3>2
  <2>2. CASE r \notin Elements(control[d])
    <3>1. d \in clients /\ r = <<t, n, d>>
      BY <1>7, <1>8, <2>2
    <3> QED
      BY <1>3, <1>4, <1>9, <3>1
  <2> QED
    BY <2>1, <2>2
<1> QED
  BY <1>8, <1>10, <1>11, <1>12, <1>13, <1>14, <1>15 DEF IInv

(* mach_msg takes an answer from a reply port of the thread's own. *)
LEMMA ReceiveInv ==
  ASSUME IInv, NEW t \in Thread, mach_msg_receive(t)
  PROVE  IInv'
<1>1. PICK r \in portset[t] :
             /\ pc[t] = "waiting" /\ queued[r] > 0
             /\ queued' = [queued EXCEPT ![r] = queued[r] - 1]
             /\ msgh_local_port' = [msgh_local_port EXCEPT ![t] = r]
             /\ pc' = [pc EXCEPT ![t] = "received"]
             /\ UNCHANGED <<clients, outstanding_change_requests, terminating, calls, locks_outstanding,
                            portset, kernel, control, object, unnoticed>>
  BY DEF mach_msg_receive, kernelVars
<1>2. r \in Reply /\ ThreadOf(r) = t /\ queued[r] \in Nat /\ r # MACH_PORT_NULL
  BY OnRecord, Replies DEF IInv, TypeOK
<1>3. /\ pc'[t] = "received" /\ msgh_local_port'[t] = r /\ msgh_local_port[t] = MACH_PORT_NULL
      /\ \A u \in Thread : u # t => pc'[u] = pc[u] /\ msgh_local_port'[u] = msgh_local_port[u]
  BY <1>1 DEF IInv, TypeOK, ThreadInv
<1>4. queued'[r] = queued[r] - 1 /\ \A q \in Reply : q # r => queued'[q] = queued[q]
  BY <1>1, <1>2 DEF IInv, TypeOK
<1>5. TypeOK'
  <2>1. queued' \in [Reply -> Nat]
    BY <1>1, <1>2 DEF IInv, TypeOK
  <2> QED
    BY <1>1, <1>2, <2>1 DEF IInv, TypeOK
<1>6. PortsFreed'
  BY <1>1, <1>3 DEF IInv, PortsFreed
<1>7. ThreadInv'
  <2> SUFFICES ASSUME NEW u \in Thread
               PROVE  IF pc'[u] = "received" THEN msgh_local_port'[u] \in portset[u]
                                             ELSE msgh_local_port'[u] = MACH_PORT_NULL
    BY <1>1 DEF IInv, ThreadInv
  <2> QED
    BY <1>3 DEF IInv, ThreadInv
<1>8. KernelInv'
  BY <1>1 DEF IInv, KernelInv
<1>9. RequestInv'
  <2> SUFFICES ASSUME NEW d \in Client, NEW q \in Elements(control[d]) \ {MACH_PORT_NULL},
                      kernel[d] = "up"
               PROVE  queued'[q] = 0
    BY <1>1 DEF IInv, RequestInv
  <2>1. q \in Reply /\ queued[q] = 0
    BY Requested
  <2>2. q # r
    BY <1>1, <2>1
  <2> QED
    BY <1>4, <2>1, <2>2
<1>10. QueuedInv'
  BY <1>1, <1>4, OnRecord DEF IInv, QueuedInv
(* Nobody but t waits for the answer it takes. *)
<1>11. Answered'
  <2> SUFFICES ASSUME NEW u \in Thread, NEW q \in portset[u], q # msgh_local_port'[u]
               PROVE  Coming(q)' \/ ClientOf(q) \in unnoticed
    BY <1>1 DEF Answered, Awaited
  <2>1. q \in Reply /\ ThreadOf(q) = u /\ q # MACH_PORT_NULL
    BY OnRecord, Replies
  <2>2. q # r /\ q \in Awaited(u)
    BY <1>2, <1>3, <2>1 DEF Awaited
  <2>3. Coming(q) \/ ClientOf(q) \in unnoticed
    BY <2>2 DEF IInv, Answered
  <2>4. queued'[q] = queued[q]
    BY <1>4, <2>1, <2>2
  <2> QED
    BY <1>1, <2>3, <2>4, ComingNext DEF Coming
<1>12. Completed'
  <2> SUFFICES ASSUME NEW d \in Client, kernel[d] = "up", NEW q \in Elements(control[d]) \ {MACH_PORT_NULL}
               PROVE  q \in portset[ThreadOf(q)] \ {msgh_local_port'[ThreadOf(q)]}
    BY <1>1 DEF Completed, Awaited
  <2>1. q \in portset[ThreadOf(q)] \ {msgh_local_port[ThreadOf(q)]}
    BY DEF IInv, Completed, Awaited
  <2>2. ThreadOf(q) \in Thread /\ queued[q] = 0
    BY Requested
  <2>3. ThreadOf(q) \in Thread /\ q # r
    BY <1>1, <2>2
  <2> QED
    BY <1>3, <2>1, <2>3
<1> QED
  BY <1>5, <1>6, <1>7, <1>8, <1>9, <1>10, <1>11, <1>12 DEF IInv

(* change_completed frees the reply port whose answer came. *)
LEMMA CompletedInv ==
  ASSUME IInv, NEW t \in Thread, change_completed(t)
  PROVE  IInv'
<1> DEFINE r == msgh_local_port[t]
<1>1. /\ pc[t] = "received"
      /\ outstanding_change_requests' = outstanding_change_requests \ {r}
      /\ portset' = [portset EXCEPT ![t] = portset[t] \ {r}]
      /\ queued' = [queued EXCEPT ![r] = 0]
      /\ locks_outstanding' = [locks_outstanding EXCEPT ![t] = locks_outstanding[t] - 1]
      /\ msgh_local_port' = [msgh_local_port EXCEPT ![t] = MACH_PORT_NULL]
      /\ pc' = [pc EXCEPT ![t] = IF locks_outstanding[t] = 1 THEN "idle" ELSE "waiting"]
      /\ UNCHANGED <<clients, terminating, calls, kernel, control, object, unnoticed>>
  BY DEF change_completed, entries_but, kernelVars
<1>2. r \in portset[t]
  BY <1>1 DEF IInv, ThreadInv
<1>3. r \in Reply /\ ThreadOf(r) = t /\ r # MACH_PORT_NULL
  BY <1>2, OnRecord, Replies
<1>4. /\ IsFiniteSet(portset[t] \ {r})
      /\ Cardinality(portset[t] \ {r}) = locks_outstanding[t] - 1
      /\ locks_outstanding[t] - 1 \in Nat /\ locks_outstanding[t] \in 0..Cardinality(Client)
      /\ locks_outstanding[t] = 1 <=> portset[t] \ {r} = {}
  <2>1. IsFiniteSet(portset[t]) /\ locks_outstanding[t] = Cardinality(portset[t])
    BY DEF IInv, ThreadInv, PortsFreed
  <2>2. /\ IsFiniteSet(portset[t] \ {r})
        /\ Cardinality(portset[t] \ {r}) = Cardinality(portset[t]) - 1
    BY <1>2, <2>1, FS_RemoveElement
  <2>3. locks_outstanding[t] \in 0..Cardinality(Client)
    BY DEF IInv, TypeOK
  <2>4. Cardinality(portset[t] \ {r}) \in Nat
    BY <2>2, FS_CardinalityType
  <2>5. Cardinality(portset[t] \ {r}) = 0 <=> portset[t] \ {r} = {}
    BY <2>2, FS_EmptySet
  <2>6. locks_outstanding[t] = 1 <=> Cardinality(portset[t] \ {r}) = 0
    BY <2>1, <2>2, <2>3, <2>4
  <2> QED
    BY <2>1, <2>2, <2>3, <2>4, <2>5, <2>6
<1> HIDE DEF r
<1>5. /\ portset'[t] = portset[t] \ {r} /\ msgh_local_port'[t] = MACH_PORT_NULL
      /\ locks_outstanding'[t] = locks_outstanding[t] - 1
      /\ pc'[t] = IF locks_outstanding[t] = 1 THEN "idle" ELSE "waiting"
      /\ \A u \in Thread : u # t => /\ portset'[u] = portset[u] /\ pc'[u] = pc[u]
                                    /\ locks_outstanding'[u] = locks_outstanding[u]
                                    /\ msgh_local_port'[u] = msgh_local_port[u]
  BY <1>1 DEF IInv, TypeOK
<1>6. queued'[r] = 0 /\ \A q \in Reply : q # r => queued'[q] = queued[q]
  BY <1>1, <1>3 DEF IInv, TypeOK
<1>7. TypeOK'
  <2>1. queued' \in [Reply -> Nat]
    BY <1>1 DEF IInv, TypeOK
  <2>2. locks_outstanding' \in [Thread -> 0..Cardinality(Client)]
    <3>1. Cardinality(Client) \in Nat
      BY ClientAssumption, FS_CardinalityType
    <3>2. locks_outstanding[t] - 1 \in 0..Cardinality(Client)
      BY <1>4, <3>1
    <3> QED
      BY <1>1, <3>2 DEF IInv, TypeOK
  <2>3. pc' \in [Thread -> {"idle", "waiting", "received"}]
    BY <1>1 DEF IInv, TypeOK
  <2>4. portset' \in [Thread -> SUBSET Reply]
    BY <1>1 DEF IInv, TypeOK
  <2> QED
    BY <1>1, <2>1, <2>2, <2>3, <2>4 DEF IInv, TypeOK
<1>8. PortsFreed'
  <2>1. outstanding_change_requests' = UNION {portset'[u] : u \in Thread}
    <3>1. outstanding_change_requests = UNION {portset[u] : u \in Thread}
      BY DEF IInv, PortsFreed
    <3>2. \A u \in Thread : u # t => r \notin portset[u]
      BY <1>3, OnRecord
    <3>3. \A u \in Thread : portset'[u] = portset[u] \ {r}
      BY <1>5, <3>2
    <3> QED
      BY <1>1, <3>1, <3>3
  <2>2. \A u \in Thread : /\ locks_outstanding'[u] = Cardinality(portset'[u])
                          /\ pc'[u] = "idle" <=> portset'[u] = {}
    BY <1>4, <1>5 DEF IInv, PortsFreed
  <2> QED
    BY <2>1, <2>2 DEF PortsFreed
<1>9. ThreadInv'
  <2> SUFFICES ASSUME NEW u \in Thread
               PROVE  /\ IsFiniteSet(portset'[u])
                      /\ \A q \in portset'[u] : ThreadOf(q) = u /\ CallOf(q) <= calls
                      /\ IF pc'[u] = "received" THEN msgh_local_port'[u] \in portset'[u]
                                                ELSE msgh_local_port'[u] = MACH_PORT_NULL
    BY <1>1 DEF ThreadInv
  <2>1. CASE u = t
    BY <1>4, <1>5, <2>1 DEF IInv, ThreadInv
  <2>2. CASE u # t
    BY <1>5, <2>2 DEF IInv, ThreadInv
  <2> QED
    BY <2>1, <2>2
<1>10. KernelInv'
  BY <1>1 DEF IInv, KernelInv
<1>11. RequestInv'
  <2> SUFFICES ASSUME NEW d \in Client, NEW q \in Elements(control[d]) \ {MACH_PORT_NULL},
                      kernel[d] = "up"
               PROVE  queued'[q] = 0
    BY <1>1 DEF IInv, RequestInv
  <2>1. q \in Reply /\ queued[q] = 0
    BY Requested
  <2> QED
    BY <1>6, <2>1
<1>12. QueuedInv'
  BY <1>1, <1>6 DEF IInv, QueuedInv
<1>13. \A u \in Thread : portset'[u] \ {msgh_local_port'[u]} = Awaited(u)
  <2> SUFFICES ASSUME NEW u \in Thread PROVE portset'[u] \ {msgh_local_port'[u]} = Awaited(u)
    OBVIOUS
  <2>1. \A q \in portset[u] : q # MACH_PORT_NULL
    BY OnRecord, Replies
  <2> QED
    BY <1>5, <2>1 DEF Awaited, r
<1>14. Answered'
  <2> SUFFICES ASSUME NEW u \in Thread, NEW q \in Awaited(u)
               PROVE  Coming(q)' \/ ClientOf(q) \in unnoticed
    BY <1>1, <1>13 DEF Answered, Awaited
  <2>1. Coming(q) \/ ClientOf(q) \in unnoticed
    BY DEF IInv, Answered
  <2>2. q \in Reply /\ ThreadOf(q) = u
    BY OnRecord DEF Awaited
  <2>3. q # r
    BY <1>3, <2>2 DEF Awaited, r
  <2>4. queued'[q] = queued[q]
    BY <1>6, <2>2, <2>3
  <2> QED
    BY <1>1, <2>1, <2>3, <2>4, ComingNext DEF Coming
<1>15. Completed'
  <2> SUFFICES ASSUME NEW d \in Client, kernel[d] = "up", NEW q \in Elements(control[d]) \ {MACH_PORT_NULL}
               PROVE  q \in portset'[ThreadOf(q)] \ {msgh_local_port'[ThreadOf(q)]}
    BY <1>1 DEF Completed, Awaited
  <2>1. q \in Awaited(ThreadOf(q))
    BY DEF IInv, Completed
  <2>2. ThreadOf(q) \in Thread
    BY Requested
  <2> QED
    BY <1>13, <2>1, <2>2
<1> QED
  BY <1>7, <1>8, <1>9, <1>10, <1>11, <1>12, <1>14, <1>15 DEF IInv

-----------------------------------------------------------------------------
(* IInv is invariant: every handler, kernel and thread keeps it. *)
THEOREM Invariant == Spec => []IInv
<1>1. IInv /\ [Next]_vars => IInv'
  <2> SUFFICES ASSUME IInv, [Next]_vars PROVE IInv'
    OBVIOUS
  <2>1. ASSUME NEW c \in Client, Kernel(c) PROVE IInv'
    BY <2>1, CreateInv, ApplyInv, TerminateInv, DieInv DEF Kernel
  <2>2. ASSUME NEW c \in Client, Handlers(c) PROVE IInv'
    <3>1. CASE object_init(c)
      BY <3>1, ObjectInitInv
    <3>2. CASE object_terminate(c)
      BY <3>2, DropInv DEF object_terminate
    <3>3. CASE dead_name(c)
      BY <3>3, DropInv DEF dead_name
    <3> QED
      BY <2>2, <3>1, <3>2, <3>3 DEF Handlers
  <2>3. ASSUME NEW t \in Thread, Calls(t) PROVE IInv'
    BY <2>3, ChangeInv, SyncInv, ReceiveInv, CompletedInv DEF Calls
  <2>4. CASE shutdown
    BY <2>4, ShutdownInv
  <2>5. CASE UNCHANGED vars
    BY <2>5, StutterInv
  <2> QED
    BY <2>1, <2>2, <2>3, <2>4, <2>5 DEF Next
<1> QED
  BY <1>1, InitInv, PTL DEF Spec

(* Types: no thread ever waits for more answers than there are clients     *)
(* (locks_outstanding, pagemap.cc:525).                                    *)
THEOREM TypeCorrect == Spec => []TypeOK
<1>1. IInv => TypeOK
  BY DEF IInv
<1> QED
  BY <1>1, Invariant, PTL

(* Every answer that change_attributes waits for (pagemap.cc:544) is in    *)
(* its port or will come, unless the client had died before its            *)
(* object_init was handled.                                                *)
THEOREM AnswersCome == Spec => []Answered
<1>1. IInv => Answered
  BY DEF IInv
<1> QED
  BY <1>1, Invariant, PTL

(* outstanding_change_requests holds exactly the reply ports that exist,   *)
(* and a call that has returned leaves none (pagemap.cc:997).              *)
THEOREM NoPortLeft == Spec => []PortsFreed
<1>1. IInv => PortsFreed
  BY DEF IInv
<1> QED
  BY <1>1, Invariant, PTL

(* change_attributes with sync returns only when every living client that  *)
(* it asked has applied the request.                                       *)
THEOREM ReturnsApplied == Spec => []Completed
<1>1. IInv => Completed
  BY DEF IInv
<1> QED
  BY <1>1, Invariant, PTL
=============================================================================
