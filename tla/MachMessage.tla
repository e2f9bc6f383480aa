---------------------------- MODULE MachMessage ----------------------------
(***************************************************************************)
(* The iterator over the data items of a Mach message (machMessage.h).     *)
(*                                                                         *)
(* A message is a sequence of words (a long, a pointer or a short type     *)
(* descriptor each): a header, then for every item a type descriptor, of   *)
(* three words in the long form, and either the data or a pointer to it.   *)
(* The header is one word here.                                            *)
(***************************************************************************)
EXTENDS Integers, SequencesExt

CONSTANT UINT   \* unsigned int arithmetic is modulo UINT (2^32 in the code)

Item == [longform : BOOLEAN, inline : BOOLEAN, nelems : Nat, bits : Nat]

WORD == 4   \* bytes of a long, a pointer or a mach_msg_type_t

----------------------------------------------------------------------------
(* The layout of a message, as kernels and stubs make it (external).  A    *)
(* word says what it is of: message m, item i, word k of its data.         *)
Word(kind, m, i, k) == [kind |-> kind, msg |-> m, item |-> i, word |-> k]

DataWords(d) == CHOOSE w \in 0 .. d.nelems * d.bits :
  /\ 8 * WORD * w >= d.nelems * d.bits
  /\ w > 0 => 8 * WORD * (w - 1) < d.nelems * d.bits

Data(kind, m, i, n) == [k \in 1 .. n |-> Word(kind, m, i, k)]

ItemWords(m, i, d) ==
  <<Word("type", m, i, 0)>>
    \o (IF d.longform THEN Data("long", m, i, 2) ELSE <<>>)
    \o (IF d.inline THEN Data("data", m, i, DataWords(d)) ELSE <<Word("pointer", m, i, 0)>>)

Layout(m, items) ==
  <<Word("header", m, 0, 0)>> \o FlattenSeq([i \in DOMAIN items |-> ItemWords(m, i, items[i])])
----------------------------------------------------------------------------
(* mach_msg_iterator, as the code computes it, with sizes in words. *)

header_size(d) == IF d.longform THEN 3 ELSE 1

(* Mutant: rounded down. *)
data_size_down(d) == (((d.nelems * d.bits + 7) % UINT) \div 8) \div WORD

data_size(d) ==
  LET data_length == ((d.nelems * d.bits + 7) % UINT) \div 8
  IN (data_length + WORD - 1) \div WORD

(* operator++: how far the pointer moves. *)
increment(d) == header_size(d) + (IF d.inline THEN data_size(d) ELSE 1)

(* A loop over a message: the words at which the iterator stands until it  *)
(* is behind the end.                                                      *)
Walk(items) ==
  LET msg == Layout(0, items)
      from[ptr \in 2 .. Len(msg) + UINT] ==
        IF ptr > Len(msg) THEN <<>>
        ELSE <<ptr>> \o from[ptr + increment(items[msg[ptr].item])]
  IN from[2]

(* The items a loop over a message finds to have data out of line. *)
OOLitems(items) ==
  LET msg == Layout(0, items)
      at == SelectSeq(Walk(items), LAMBDA ptr :
              LET d == items[msg[ptr].item] IN ~ d.inline /\ data_size(d) > 0)
  IN [n \in DOMAIN at |-> msg[at[n]].item]

(* What a loop over them writes or reads behind the message, in words. *)
OOLsize(items) ==
  FoldLeft(LAMBDA n, i : n + data_size(items[i]), 0, OOLitems(items))
=============================================================================
