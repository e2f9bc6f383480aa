---------------------------- MODULE MCTransport ----------------------------
(* Messages for the runs of Transport. *)
EXTENDS Transport

T(longform, inline, nelems, bits) ==
  [longform |-> longform, inline |-> inline, nelems |-> nelems, bits |-> bits]

(* A string of 3 bytes in the message and 5 bytes out of line; an item     *)
(* whose bits overflow, out of line; an empty item.                        *)
ThreeMessages ==
  << <<T(FALSE, TRUE, 3, 8), T(TRUE, FALSE, 5, 8)>>,
     <<T(TRUE, FALSE, 9, 32)>>,
     <<T(FALSE, FALSE, 0, 32)>> >>

Symmetry == Permutations(Port)
=============================================================================
