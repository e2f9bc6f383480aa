---------------------------- MODULE PagerMemcpy ----------------------------
(***************************************************************************)
(* pager_memcpy (libpager/pager-memcpy.c): copying between a task's memory *)
(* and a pager's object through mapped windows, with vm_copy where whole   *)
(* aligned pages allow it and with memcpy elsewhere, surviving the fault   *)
(* that a page with an error raises.                                       *)
(*                                                                         *)
(* Addresses and sizes are in bytes, on a page of vm_page_size bytes.  The *)
(* direction of the copy (prot) decides only which side is read: a copied  *)
(* byte is the pair of its places in the object and in memory.  An action  *)
(* ends where a window is mapped, so what it is mapped for can be seen.    *)
(***************************************************************************)
EXTENDS Integers, FiniteSets

CONSTANTS
  vm_page_size,
  VMCOPY_PAGES,   \* VMCOPY_BETTER_THAN_MEMCPY, in pages: 8 in the code
  WINDOW_PAGES,   \* VMCOPY_ and MEMCPY_WINDOW_DEFAULT_SIZE: 32 in the code
  MAX_SIZE,       \* the largest size asked for (a bound)
  MAX_BAD,        \* how many pages may have an error (a bound)
  SIZE_T          \* the numbers a size_t can hold

ASSUME PageAssumption == vm_page_size \in Nat \ {0}
ASSUME WindowAssumption ==
  VMCOPY_PAGES \in Nat \ {0} /\ WINDOW_PAGES \in Nat /\ VMCOPY_PAGES <= WINDOW_PAGES
ASSUME SizeAssumption ==
  MAX_SIZE \in Nat /\ SIZE_T \in Nat /\ MAX_SIZE < SIZE_T /\ vm_page_size <= SIZE_T

VMCOPY_BETTER_THAN_MEMCPY == VMCOPY_PAGES * vm_page_size
WINDOW_DEFAULT_SIZE == WINDOW_PAGES * vm_page_size

VARIABLES
  arg,           \* the arguments: offset, other and *size as passed
  bad,           \* the pages of the object that have an error
  pc,
  offset, other, n, window_size, err,
  to_copy, copy_count,
  then,          \* what follows the copy in progress
  copied,        \* the bytes copied, as pairs of places
  size,          \* *size at the return
  misread,       \* a fault came in a window that begins below offset
  aborted        \* the assertion that ended the program, if one has

locals == <<offset, other, n, window_size, err, to_copy, copy_count>>
vars == <<arg, bad, pc, locals, then, copied, size, misread, aborted>>

Aligned(x) == x % vm_page_size = 0
pageoff == offset % vm_page_size
round_page(x) == ((x + vm_page_size - 1) \div vm_page_size) * vm_page_size
PageOf(x) == x \div vm_page_size

(* size_t subtraction. *)
Minus(x, y) == IF x >= y THEN x - y ELSE x - y + SIZE_T

(* The first count bytes from the cursors on. *)
Bytes(from, to, count) == {<<from + i, to + i>> : i \in 0..(count - 1)}

(* The last page that a copy of MAX_SIZE bytes may touch. *)
LastPage == PageOf(vm_page_size + MAX_SIZE)

Init ==
  /\ arg \in [offset : 0..(vm_page_size - 1), other : 0..(vm_page_size - 1), size : 0..MAX_SIZE]
  /\ bad \in SUBSET (0..LastPage) /\ Cardinality(bad) <= MAX_BAD
  /\ pc = "start" /\ then = "return"
  /\ offset = arg.offset /\ other = arg.other /\ n = arg.size
  /\ window_size = 0 /\ err = 0 /\ to_copy = 0 /\ copy_count = 0
  /\ copied = {} /\ size = arg.size /\ misread = FALSE /\ aborted = {}

Abort(assertion) == pc' = "aborted" /\ aborted' = {assertion}

(* The function's end. *)
Return(left, error) ==
  IF error = 0 /\ left # 0
  THEN Abort("n == 0") /\ UNCHANGED size
  ELSE pc' = "done" /\ size' = Minus(arg.size, left) /\ UNCHANGED aborted

(* Mutant: the alignment is not tested. *)
CanUseVmCopyUnaligned ==
  n >= VMCOPY_BETTER_THAN_MEMCPY + vm_page_size - (other % vm_page_size)

(* do_copy's test: aligned with respect to each other, and enough whole    *)
(* pages after the first part page.                                        *)
CanUseVmCopy ==
  /\ other % vm_page_size = pageoff
  /\ n >= VMCOPY_BETTER_THAN_MEMCPY + vm_page_size - (other % vm_page_size)

(* do_memcpy (count), to be followed by what next says. *)
do_memcpy(count, next) ==
  /\ to_copy' = count /\ window_size' = WINDOW_DEFAULT_SIZE
  /\ pc' = "memcpy" /\ then' = next

(* pager_memcpy up to the first copy. *)
pager_memcpy ==
  /\ pc = "start"
  /\ \/ n = 0 /\ pc' = "done" /\ UNCHANGED <<to_copy, window_size, then>>
     \/ /\ n >= VMCOPY_BETTER_THAN_MEMCPY /\ Aligned(other) /\ Aligned(offset)
        /\ pc' = "vm_copy" /\ then' = "catch" /\ UNCHANGED <<to_copy, window_size>>
     \/ /\ n # 0 /\ ~ (n >= VMCOPY_BETTER_THAN_MEMCPY /\ Aligned(other) /\ Aligned(offset))
        /\ pc' = "catch" /\ UNCHANGED <<to_copy, window_size, then>>
  /\ UNCHANGED <<arg, bad, offset, other, n, err, copy_count, copied, size, misread, aborted>>

(* do_copy, called by hurd_catch_signal. *)
do_copy ==
  /\ pc = "catch"
  /\ IF CanUseVmCopy
     THEN do_memcpy(vm_page_size - (other % vm_page_size), "vm_copy")
     ELSE do_memcpy(n, "return")
  /\ UNCHANGED <<arg, bad, offset, other, n, err, copy_count, copied, size, misread, aborted>>

-----------------------------------------------------------------------------
vm_copy_window == IF WINDOW_DEFAULT_SIZE > n THEN n - (n % vm_page_size) ELSE WINDOW_DEFAULT_SIZE

(* do_vm_copy: from the top of the loop to the mapped window.  The three   *)
(* assertions before the loop are tested on every round.                   *)
vm_copy_map ==
  /\ pc = "vm_copy"
  /\ window_size' = vm_copy_window
  /\ IF ~ (Aligned(offset) /\ Aligned(other) /\ n >= vm_page_size
           /\ vm_copy_window >= VMCOPY_BETTER_THAN_MEMCPY /\ Aligned(vm_copy_window))
     THEN Abort("do_vm_copy") /\ UNCHANGED <<err, size>>
     ELSE \/ pc' = "vm_copy_mapped" /\ err' = 0 /\ UNCHANGED <<size, aborted>>
          \/ err' = 1 /\ Return(n, 1)
  /\ UNCHANGED <<arg, bad, offset, other, n, to_copy, copy_count, then, copied, misread>>

(* vm_copy, vm_deallocate and the rest of the loop.  From do_copy, what is *)
(* left is copied by do_memcpy; otherwise do_copy is called for it.        *)
vm_copy ==
  /\ pc = "vm_copy_mapped"
  /\ \/ /\ copied' = copied \cup Bytes(offset, other, window_size)
        /\ other' = other + window_size /\ offset' = offset + window_size
        /\ n' = Minus(n, window_size)
        /\ \/ /\ n' >= VMCOPY_BETTER_THAN_MEMCPY
              /\ pc' = "vm_copy" /\ UNCHANGED <<to_copy, window_size, then, size, aborted>>
           \/ /\ n' = 0
              /\ Return(0, 0) /\ UNCHANGED <<to_copy, window_size, then>>
           \/ /\ n' \in 1..(VMCOPY_BETTER_THAN_MEMCPY - 1) /\ then = "catch"
              /\ pc' = "catch" /\ UNCHANGED <<to_copy, window_size, then, size, aborted>>
           \/ /\ n' \in 1..(VMCOPY_BETTER_THAN_MEMCPY - 1) /\ then = "return"
              /\ do_memcpy(n', "return") /\ UNCHANGED <<size, aborted>>
        /\ UNCHANGED err
     \/ /\ err' = 1 /\ Return(n, 1)
        /\ UNCHANGED <<copied, other, offset, n, to_copy, window_size, then>>
  /\ UNCHANGED <<arg, bad, copy_count, misread>>

-----------------------------------------------------------------------------
(* Mutant: the part page below offset is not counted. *)
last_window_short == window_size >= round_page(to_copy)

(* A standard-sized window is more than what is left to be copied. *)
last_window == window_size >= round_page(pageoff + to_copy)

(* do_memcpy: from the top of the loop to the mapped window. *)
memcpy_map ==
  /\ pc = "memcpy"
  /\ copy_count' = IF last_window THEN to_copy ELSE window_size - pageoff
  /\ window_size' = IF last_window THEN round_page(pageoff + to_copy) ELSE window_size
  /\ \/ pc' = "memcpy_mapped" /\ err' = 0 /\ UNCHANGED <<size, aborted>>
     \/ err' = 1 /\ Return(n, 1)
  /\ UNCHANGED <<arg, bad, offset, other, n, to_copy, then, copied, misread>>

(* The places of the object that memcpy faults on; it copies the ones      *)
(* below the first.                                                        *)
Faults == {x \in offset..(offset + copy_count - 1) : PageOf(x) \in bad}

(* Mutant: the loop goes on with one byte more than it has copied. *)
advance_past == copy_count + 1

(* What the cursors move by. *)
advance == copy_count

(* memcpy copies the window, and the loop goes on. *)
memcpy ==
  /\ pc = "memcpy_mapped" /\ Faults = {}
  /\ copied' = copied \cup Bytes(offset, other, copy_count)
  /\ offset' = offset + advance /\ other' = other + advance
  /\ to_copy' = Minus(to_copy, advance) /\ n' = Minus(n, advance)
  /\ \/ to_copy' > 0 /\ pc' = "memcpy" /\ UNCHANGED <<then, size, aborted>>
     \/ /\ to_copy' = 0 /\ then = "vm_copy"
        /\ then' = "return" /\ UNCHANGED size
        /\ IF n' >= VMCOPY_BETTER_THAN_MEMCPY THEN pc' = "vm_copy" /\ UNCHANGED aborted
           ELSE Abort("do_copy")
     \/ to_copy' = 0 /\ then = "return" /\ Return(n', 0) /\ UNCHANGED then
  /\ UNCHANGED <<arg, bad, window_size, err, copy_count, misread>>

(* pager::get_error: the page's error, 0 if it has none. *)
pager_get_error(x) == IF PageOf(x) \in bad THEN 2 ELSE 0

(* Mutant: n keeps the bytes copied before the fault. *)
fault_left(sigcode) == n

(* n after the fault handler; sigcode is relative to the window.  The      *)
(* window begins pageoff bytes below offset, which it does not allow for.  *)
left_after_fault(sigcode) == Minus(n, sigcode)

(* memcpy faults: the handler, the jump out of hurd_catch_signal and the   *)
(* function's end.                                                         *)
fault ==
  /\ pc = "memcpy_mapped" /\ Faults # {}
  /\ LET x == CHOOSE y \in Faults : \A z \in Faults : y <= z
         sigcode == x - (offset - pageoff)
     IN /\ copied' = copied \cup Bytes(offset, other, x - offset)
        /\ err' = pager_get_error(sigcode + offset)
        /\ n' = left_after_fault(sigcode)
        /\ misread' = (pageoff # 0)
        /\ Return(n', err')
  /\ UNCHANGED <<arg, bad, offset, other, window_size, to_copy, copy_count, then>>

Next ==
  \/ pager_memcpy \/ do_copy \/ vm_copy_map \/ vm_copy \/ memcpy_map \/ memcpy \/ fault

Spec == Init /\ [][Next]_vars

-----------------------------------------------------------------------------
Running == pc \notin {"done", "aborted"}

TypeOK ==
  /\ pc \in {"start", "catch", "vm_copy", "vm_copy_mapped", "memcpy", "memcpy_mapped", "done", "aborted"}
  /\ then \in {"return", "catch", "vm_copy"}
  /\ offset \in Nat /\ other \in Nat
  /\ n \in 0..(SIZE_T - 1) /\ size \in 0..(SIZE_T - 1)
  /\ to_copy \in 0..MAX_SIZE /\ copy_count \in 0..MAX_SIZE /\ window_size \in Nat
  /\ err \in {0, 1, 2} /\ misread \in BOOLEAN

(* offset, other and n move together, and what has been copied is exactly  *)
(* what lies behind them: no part is copied twice, to a wrong place or not *)
(* at all when do_vm_copy and do_memcpy hand over to each other.           *)
Cursors ==
  Running => /\ offset - arg.offset = arg.size - n /\ other - arg.other = arg.size - n
             /\ copied = Bytes(arg.offset, arg.other, arg.size - n)

(* The bytes memcpy is about to copy lie in the window that is mapped for  *)
(* them and are bytes that were asked for; the window is no larger than    *)
(* a standard one, and is whole pages.                                     *)
InWindow ==
  pc = "memcpy_mapped" =>
    /\ copy_count \in 1..to_copy /\ to_copy <= n
    /\ pageoff + copy_count <= window_size
    /\ window_size <= WINDOW_DEFAULT_SIZE /\ Aligned(window_size)

(* When pager_memcpy returns, *size is the number of bytes copied, from    *)
(* the first on ("always filled in the actual number of bytes successfully *)
(* copied"), and it is all of them if there is no error; the one exception *)
(* is a fault in a window that begins below offset.                        *)
SizeActual ==
  pc = "done" /\ ~ misread => /\ copied = Bytes(arg.offset, arg.other, size)
                              /\ err = 0 => size = arg.size

(* Every assertion of the function holds, with the same exception: there   *)
(* the handler may ask for the error of a page that has none.              *)
AssertionsHold == ~ misread => aborted = {}
=============================================================================
