---------------------------- MODULE MemoryObject ----------------------------
(***************************************************************************)
(* The Mach external memory interface between one pager and the kernels    *)
(* that map its object, as libpager uses it.  A kernel sends to the        *)
(* memory object port; every kernel owns a control port on which the pager *)
(* answers.  Mach keeps each port's messages in the order they were sent.  *)
(*                                                                         *)
(* The ports live outside the repository and are modelled from how         *)
(* libpager/pagemap.cc uses them.                                          *)
(***************************************************************************)
EXTENDS Integers, Sequences, FiniteSets

CONSTANTS
  Client,          \* the kernels, named by their memory control ports
  MACH_PORT_DEAD,  \* what a message names a control port that died in transit
  NPages,          \* the object has pages 0 .. NPages-1
  KERN_SUCCESS,
  Error            \* what the backing store may answer instead

ASSUME ClientAssumption == MACH_PORT_DEAD \notin Client
ASSUME NPagesAssumption == NPages \in Nat \ {0}
ASSUME ErrorAssumption == KERN_SUCCESS \notin Error

VARIABLES
  port,    \* messages queued on the memory object port
  ctl,     \* ctl[c]: messages queued on c's memory control port
  alive,   \* the control ports that still have a receiver
  right    \* the pager still holds the receive right of its port

portVars == <<port, ctl, alive, right>>

Port == Client \cup {MACH_PORT_DEAD}
Page == 0 .. NPages - 1
kern_return_t == Error \cup {KERN_SUCCESS}

(* A range {OFFSET, LENGTH}, in pages. *)
PageRange == {r \in Page \X (1 .. NPages) : r[1] + r[2] <= NPages}
OnePage(p) == <<p, 1>>
PagesIn(r) == {p \in Page : r[1] <= p /\ p < r[1] + r[2]}

(* The data of a page is the number of the modification that produced it. *)
Data == Nat

ToPager ==
  [op : {"object_init", "object_terminate", "dead_name"}, client : Port]
    \cup [op : {"data_request"}, client : Port, page : Page, write : BOOLEAN]
    \cup [op : {"data_unlock"}, client : Port, page : Page]
    \cup [op : {"data_return"}, client : Port, page : Page, data : Data,
          dirty : BOOLEAN, kcopy : BOOLEAN]
    \cup [op : {"lock_completed"}, client : Port, range : PageRange]

(* "next" is the page of the range the kernel looks at next. *)
ToKernel ==
  [op : {"ready"}]
    \cup [op : {"data_supply"}, page : Page, data : Data, lock : BOOLEAN]
    \cup [op : {"data_error"}, page : Page, error : kern_return_t]
    \cup [op : {"unlock"}, page : Page]
    \cup {m \in [op : {"lock_request"}, range : PageRange, return : BOOLEAN,
                 flush : BOOLEAN, reply : BOOLEAN, next : Page] :
             m.next \in PagesIn(m.range)}

DataSupply(p, d, lock) == [op |-> "data_supply", page |-> p, data |-> d, lock |-> lock]
DataError(p, err) == [op |-> "data_error", page |-> p, error |-> err]
LockRequest(r, return, flush, reply) ==
  [op |-> "lock_request", range |-> r, return |-> return, flush |-> flush,
   reply |-> reply, next |-> r[1]]
(* memory_object_lock_request with VM_PROT_NONE: the answer to data_unlock. *)
UnlockAnswer(p) == [op |-> "unlock", page |-> p]

PortTypeOK ==
  /\ port \in Seq(ToPager)
  /\ ctl \in [Port -> Seq(ToKernel)]
  /\ alive \subseteq Client
  /\ right \in BOOLEAN

PortInit ==
  /\ port = <<>>
  /\ ctl = [c \in Port |-> <<>>]
  /\ alive = Client
  /\ right = TRUE

(* Copies of one message, in a row. *)
Copies(n, m) == [i \in 1 .. n |-> m]

(* Post mail[c] to every control port; a dead port swallows it. *)
Post(mail) ==
  ctl' = [c \in Port |-> IF c \in alive THEN ctl[c] \o mail[c] ELSE ctl[c]]

NoMail == [c \in Port |-> <<>>]

(* Post to the memory object port; without its receive right it is dead. *)
Send(ms) == port' = IF right THEN port \o ms ELSE port
=============================================================================
