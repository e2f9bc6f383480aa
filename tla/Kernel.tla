------------------------------- MODULE Kernel -------------------------------
(***************************************************************************)
(* The clients of a pager: Mach kernels (or netmsg, forwarding for one on  *)
(* another host) that map its object.  External to the repository, and     *)
(* modelled from what libpager sends and expects and from the mock kernel  *)
(* of libpager-test.cc: a page is returned one at a time, a request is     *)
(* sent once, lock_completed follows the pages a lock request returns.     *)
(***************************************************************************)
EXTENDS MemoryObject

CONSTANTS
  PRECIOUS,     \* a clean page is returned too when it leaves the kernel
  MaxFaults,    \* bound on the faults (requests and unlocks) in a behaviour
  MaxVersion,   \* bound on the modifications of a page
  MAY_DIE,      \* the kernels whose host may go down
  MAY_TERMINATE \* the kernels that may unmap the object

ASSUME KernelAssumption ==
  /\ PRECIOUS \in BOOLEAN
  /\ MaxFaults \in Nat /\ MaxVersion \in Nat
  /\ MAY_DIE \subseteq Client /\ MAY_TERMINATE \subseteq Client

VARIABLES
  mapped,   \* mapped[c]: how far c is with the object
  mem,      \* mem[c][p]: c's copy of page p
  asked,    \* asked[c][p]: what c waits for
  faults,
  latest    \* latest[p]: the last modification of p by anybody

kernelVars == <<mapped, mem, asked, faults, latest>>

Copy == [held : BOOLEAN, data : Data, write : BOOLEAN, dirty : BOOLEAN]
NoCopy == [held |-> FALSE, data |-> 0, write |-> FALSE, dirty |-> FALSE]

KernelTypeOK ==
  /\ mapped \in [Client -> {"no", "init", "ready", "gone"}]
  /\ mem \in [Client -> [Page -> Copy]]
  /\ asked \in [Client -> [Page -> {"none", "data", "unlock"}]]
  /\ faults \in 0 .. MaxFaults
  /\ latest \in [Page -> 0 .. MaxVersion]

KernelInit ==
  /\ mapped = [c \in Client |-> "no"]
  /\ mem = [c \in Client |-> [p \in Page |-> NoCopy]]
  /\ asked = [c \in Client |-> [p \in Page |-> "none"]]
  /\ faults = 0
  /\ latest = [p \in Page |-> 0]

----------------------------------------------------------------------------
(* c maps the object: memory_object_init. *)
Map(c) ==
  /\ mapped[c] = "no"
  /\ mapped' = [mapped EXCEPT ![c] = "init"]
  /\ Send(<<[op |-> "object_init", client |-> c]>>)
  /\ UNCHANGED <<ctl, alive, right, mem, asked, faults, latest>>

Fault(c, p, what, m) ==
  /\ mapped[c] = "ready" /\ asked[c][p] = "none"
  /\ faults < MaxFaults
  /\ faults' = faults + 1
  /\ asked' = [asked EXCEPT ![c][p] = what]
  /\ Send(<<m>>)
  /\ UNCHANGED <<ctl, alive, right, mapped, mem, latest>>

(* A fault on a page c does not have. *)
Request(c, p) ==
  /\ ~ mem[c][p].held
  /\ \E write \in BOOLEAN :
       Fault(c, p, "data", [op |-> "data_request", client |-> c, page |-> p, write |-> write])

(* A write fault on a page c may only read. *)
Unlock(c, p) ==
  /\ mem[c][p].held /\ ~ mem[c][p].write
  /\ Fault(c, p, "unlock", [op |-> "data_unlock", client |-> c, page |-> p])

(* A program on c modifies the page. *)
Modify(c, p) ==
  /\ mem[c][p].held /\ mem[c][p].write
  /\ latest[p] < MaxVersion
  /\ latest' = [latest EXCEPT ![p] = @ + 1]
  /\ mem' = [mem EXCEPT ![c][p].data = latest[p] + 1, ![c][p].dirty = TRUE]
  /\ UNCHANGED <<portVars, mapped, asked, faults>>

(* What c returns when the page leaves it, or is cleaned and kept. *)
Returned(c, p, keep) ==
  IF mem[c][p].held /\ (mem[c][p].dirty \/ PRECIOUS)
  THEN <<[op |-> "data_return", client |-> c, page |-> p, data |-> mem[c][p].data,
          dirty |-> mem[c][p].dirty, kcopy |-> keep]>>
  ELSE <<>>

(* The page goes.  A write fault on it becomes a fault on a missing page.  *)
Drop(c, p) ==
  /\ mem' = [mem EXCEPT ![c][p] = NoCopy]
  /\ asked' = [asked EXCEPT ![c][p] = IF @ = "unlock" THEN "none" ELSE @]

(* c needs the memory for something else. *)
Evict(c, p) ==
  /\ mem[c][p].held
  /\ Send(Returned(c, p, FALSE))
  /\ Drop(c, p)
  /\ UNCHANGED <<ctl, alive, right, mapped, faults, latest>>

----------------------------------------------------------------------------
(* c takes the next message from its control port. *)
Next1(c, op) ==
  /\ c \in alive
  /\ ctl[c] # <<>> /\ Head(ctl[c]).op = op
Done1(c) == ctl' = [ctl EXCEPT ![c] = Tail(@)]

Ready(c) ==
  /\ Next1(c, "ready") /\ Done1(c)
  /\ mapped' = [mapped EXCEPT ![c] = "ready"]
  /\ UNCHANGED <<port, alive, right, mem, asked, faults, latest>>

(* Data for a page that c already has is discarded. *)
Supply(c) ==
  /\ Next1(c, "data_supply") /\ Done1(c)
  /\ LET m == Head(ctl[c])
     IN IF mem[c][m.page].held THEN UNCHANGED <<mem, asked>>
        ELSE /\ mem' = [mem EXCEPT ![c][m.page] = [held |-> TRUE, data |-> m.data,
                                                   write |-> ~ m.lock, dirty |-> FALSE]]
             /\ asked' = [asked EXCEPT ![c][m.page] = "none"]
  /\ UNCHANGED <<port, alive, right, mapped, faults, latest>>

(* The program that faulted gets an exception. *)
Fail(c) ==
  /\ Next1(c, "data_error") /\ Done1(c)
  /\ LET p == Head(ctl[c]).page
     IN asked' = [asked EXCEPT ![c][p] = IF @ = "data" THEN "none" ELSE @]
  /\ UNCHANGED <<port, alive, right, mapped, mem, faults, latest>>

Unlocked(c) ==
  /\ Next1(c, "unlock") /\ Done1(c)
  /\ LET p == Head(ctl[c]).page
     IN /\ mem' = [mem EXCEPT ![c][p].write = @ \/ mem[c][p].held]
        /\ asked' = [asked EXCEPT ![c][p] = IF @ = "unlock" THEN "none" ELSE @]
  /\ UNCHANGED <<port, alive, right, mapped, faults, latest>>

(* One page of a lock request; with the last one goes the reply. *)
Lock(c) ==
  /\ Next1(c, "lock_request")
  /\ LET m == Head(ctl[c])
         p == m.next
         last == p + 1 = m.range[1] + m.range[2]
     IN /\ Send((IF m.return THEN Returned(c, p, ~ m.flush) ELSE <<>>)
                  \o IF last /\ m.reply
                     THEN <<[op |-> "lock_completed", client |-> c, range |-> m.range]>>
                     ELSE <<>>)
        /\ IF m.flush THEN Drop(c, p)
           ELSE /\ mem' = [mem EXCEPT ![c][p].dirty = @ /\ ~ m.return]
                /\ UNCHANGED asked
        /\ IF last THEN Done1(c) ELSE ctl' = [ctl EXCEPT ![c][1].next = p + 1]
  /\ UNCHANGED <<alive, right, mapped, faults, latest>>

----------------------------------------------------------------------------
(* c unmaps the object: it has given up its pages and waits for nothing.   *)
(* The receive right of the control port travels in the message.           *)
Terminate(c) ==
  /\ c \in MAY_TERMINATE /\ mapped[c] = "ready"
  /\ \A p \in Page : ~ mem[c][p].held /\ asked[c][p] = "none"
  /\ mapped' = [mapped EXCEPT ![c] = "gone"]
  /\ alive' = alive \ {c}
  /\ ctl' = [ctl EXCEPT ![c] = <<>>]
  /\ Send(<<[op |-> "object_terminate", client |-> c]>>)
  /\ UNCHANGED <<right, mem, asked, faults, latest>>

(* c's host goes down.  Its messages that the demuxer had received by then *)
(* name its control port, in those it receives later the port is dead.     *)
Die(c) ==
  /\ c \in MAY_DIE /\ mapped[c] = "ready"
  /\ mapped' = [mapped EXCEPT ![c] = "gone"]
  /\ alive' = alive \ {c}
  /\ ctl' = [ctl EXCEPT ![c] = <<>>]
  /\ mem' = [mem EXCEPT ![c] = [p \in Page |-> NoCopy]]
  /\ asked' = [asked EXCEPT ![c] = [p \in Page |-> "none"]]
  /\ \E received \in 0 .. Len(port) :
       port' = IF ~ right THEN port
               ELSE Append([i \in 1 .. Len(port) |->
                              IF i > received /\ port[i].client = c
                              THEN [port[i] EXCEPT !.client = MACH_PORT_DEAD] ELSE port[i]],
                           [op |-> "dead_name", client |-> c])
  /\ UNCHANGED <<right, faults, latest>>

KernelService(c) == Ready(c) \/ Supply(c) \/ Fail(c) \/ Unlocked(c) \/ Lock(c)

KernelNext ==
  \E c \in Client :
    \/ Map(c) \/ Terminate(c) \/ Die(c)
    \/ Ready(c) \/ Supply(c) \/ Fail(c) \/ Unlocked(c) \/ Lock(c)
    \/ \E p \in Page : Request(c, p) \/ Unlock(c, p) \/ Modify(c, p) \/ Evict(c, p)
=============================================================================
