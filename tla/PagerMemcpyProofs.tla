------------------------- MODULE PagerMemcpyProofs -------------------------
(***************************************************************************)
(* pager_memcpy copies what it says it has, for every page size, window    *)
(* size, alignment, length and set of bad pages.                           *)
(***************************************************************************)
EXTENDS PagerMemcpy, TLAPS, WellFoundedInduction

(* Division with remainder by the size of a page. *)
LEMMA DivMod ==
  ASSUME NEW x \in Int
  PROVE  /\ x \div vm_page_size \in Int /\ x % vm_page_size \in Int
         /\ x = vm_page_size * (x \div vm_page_size) + (x % vm_page_size)
         /\ 0 <= x % vm_page_size /\ x % vm_page_size < vm_page_size
BY PageAssumption, Z3

(* A product that lies between 0 and one of its factors is 0. *)
LEMMA SmallMultiple ==
  ASSUME NEW p \in Int, NEW k \in Int, p > 0, 0 <= p * k, p * k < p
  PROVE  k = 0
<1>1. CASE k >= 1
  <2>1. p * k >= p * 1
    BY <1>1, Z3
  <2> QED
    BY <2>1
<1>2. CASE k <= -1
  <2>1. p * k <= p * (-1)
    BY <1>2, Z3
  <2> QED
    BY <2>1
<1> QED
  BY <1>1, <1>2

(* Multiples of the page size are aligned. *)
LEMMA MultipleAligned ==
  ASSUME NEW k \in Int
  PROVE  Aligned(vm_page_size * k)
<1> DEFINE x == vm_page_size * k
           q == x \div vm_page_size
           r == x % vm_page_size
<1>0. vm_page_size \in Int /\ vm_page_size > 0 /\ x \in Int
  BY PageAssumption
<1>1. q \in Int /\ r \in Int /\ x = vm_page_size * q + r /\ 0 <= r /\ r < vm_page_size
  BY <1>0, DivMod
<1> HIDE DEF q, r
<1>2. r = vm_page_size * (k - q)
  BY <1>0, <1>1, Z3
<1>3. k - q = 0
  BY <1>0, <1>1, <1>2, SmallMultiple
<1>4. r = 0
  BY <1>0, <1>2, <1>3
<1> QED
  BY <1>4 DEF r, Aligned

(* An aligned number is a multiple of the page size. *)
LEMMA AlignedMultiple ==
  ASSUME NEW x \in Int, Aligned(x)
  PROVE  \E k \in Int : x = vm_page_size * k
<1>1. x = vm_page_size * (x \div vm_page_size) + 0 /\ x \div vm_page_size \in Int
  BY DivMod DEF Aligned
<1>2. x = vm_page_size * (x \div vm_page_size)
  BY <1>1, PageAssumption
<1> QED
  BY <1>1, <1>2

(* Sums and differences of aligned numbers are aligned. *)
LEMMA AlignedSum ==
  ASSUME NEW x \in Int, NEW y \in Int, Aligned(x), Aligned(y)
  PROVE  Aligned(x + y) /\ Aligned(x - y)
<1>0. vm_page_size \in Int
  BY PageAssumption
<1>1. PICK k \in Int : x = vm_page_size * k
  BY AlignedMultiple
<1>2. PICK l \in Int : y = vm_page_size * l
  BY AlignedMultiple
<1>3. x + y = vm_page_size * (k + l) /\ x - y = vm_page_size * (k - l)
  BY <1>0, <1>1, <1>2
<1>4. k + l \in Int /\ k - l \in Int
  OBVIOUS
<1>5. Aligned(vm_page_size * (k + l)) /\ Aligned(vm_page_size * (k - l))
  BY <1>4, MultipleAligned
<1> QED
  BY <1>3, <1>5

(* What is left when the part page is taken away is aligned, and so is     *)
(* what is reached when it is filled up.                                   *)
LEMMA PartPage ==
  ASSUME NEW x \in Int
  PROVE  /\ Aligned(x - (x % vm_page_size))
         /\ Aligned(x + (vm_page_size - (x % vm_page_size)))
<1> DEFINE q == x \div vm_page_size
           r == x % vm_page_size
<1>0. vm_page_size \in Int
  BY PageAssumption
<1>1. q \in Int /\ r \in Int /\ x = vm_page_size * q + r
  BY DivMod
<1> HIDE DEF q, r
<1>2. x - r = vm_page_size * q /\ x + (vm_page_size - r) = vm_page_size * (q + 1)
  BY <1>0, <1>1
<1>3. Aligned(vm_page_size * q) /\ Aligned(vm_page_size * (q + 1))
  BY <1>1, MultipleAligned
<1> QED
  BY <1>2, <1>3 DEF r

(* An aligned number below another is at least a page below the end of     *)
(* the other's page.                                                       *)
LEMMA AlignedFloor ==
  ASSUME NEW x \in Int, NEW y \in Int, Aligned(x), x <= y
  PROVE  x <= y - (y % vm_page_size)
<1> DEFINE q == y \div vm_page_size
           r == y % vm_page_size
<1>0. vm_page_size \in Int /\ vm_page_size > 0
  BY PageAssumption
<1>1. PICK k \in Int : x = vm_page_size * k
  BY AlignedMultiple
<1>2. q \in Int /\ r \in Int /\ y = vm_page_size * q + r /\ 0 <= r /\ r < vm_page_size
  BY DivMod
<1> HIDE DEF q, r
<1>3. k <= q
  <2> SUFFICES ASSUME k >= q + 1 PROVE FALSE
    BY <1>1, <1>2
  <2>1. vm_page_size * k >= vm_page_size * (q + 1)
    BY <1>0, <1>1, <1>2, Z3
  <2> QED
    BY <2>1, <1>0, <1>1, <1>2
<1>4. vm_page_size * k <= vm_page_size * q
  BY <1>0, <1>1, <1>2, <1>3, Z3
<1> QED
  BY <1>0, <1>1, <1>2, <1>4 DEF r

(* round_page gives the first aligned number that is not smaller. *)
LEMMA RoundPage ==
  ASSUME NEW x \in Nat
  PROVE  /\ round_page(x) \in Int /\ Aligned(round_page(x)) /\ x <= round_page(x)
         /\ \A y \in Int : Aligned(y) /\ y < round_page(x) => y < x
<1> DEFINE z == x + vm_page_size - 1
           q == z \div vm_page_size
           r == z % vm_page_size
<1>0. vm_page_size \in Int /\ vm_page_size > 0 /\ z \in Int
  BY PageAssumption
<1>1. q \in Int /\ r \in Int /\ z = vm_page_size * q + r /\ 0 <= r /\ r < vm_page_size
  BY <1>0, DivMod
<1>2. round_page(x) = q * vm_page_size
  BY DEF round_page
<1> HIDE DEF q, r
<1>3. round_page(x) = vm_page_size * q
  BY <1>0, <1>1, <1>2
<1>4. round_page(x) \in Int /\ Aligned(round_page(x))
  <2>1. Aligned(vm_page_size * q)
    BY <1>1, MultipleAligned
  <2>2. vm_page_size * q \in Int
    BY <1>0, <1>1
  <2> QED
    BY <1>3, <2>1, <2>2
<1>5. x <= round_page(x) /\ round_page(x) < x + vm_page_size
  <2>1. x + vm_page_size - 1 = round_page(x) + r
    BY <1>1, <1>3
  <2> HIDE DEF z
  <2> QED
    BY <2>1, <1>0, <1>1, <1>4
<1>6. ASSUME NEW y \in Int, Aligned(y), y < round_page(x) PROVE y < x
  <2> SUFFICES ASSUME x <= y PROVE FALSE
    BY <1>6
  <2> DEFINE d == round_page(x) - y
  <2>0. Aligned(d)
    BY <1>4, <1>6, AlignedSum
  <2>1. d \in Int /\ Aligned(d) /\ 0 < d /\ d < vm_page_size
    BY <2>0, <1>0, <1>4, <1>5, <1>6
  <2> HIDE DEF d
  <2>2. PICK k \in Int : d = vm_page_size * k
    BY <2>1, AlignedMultiple
  <2>3. k = 0
    BY <1>0, <2>1, <2>2, SmallMultiple
  <2> QED
    BY <1>0, <2>1, <2>2, <2>3
<1> QED
  BY <1>4, <1>5, <1>6

(* The constants of the code are whole pages. *)
LEMMA Sizes ==
  /\ VMCOPY_BETTER_THAN_MEMCPY \in Nat /\ WINDOW_DEFAULT_SIZE \in Nat
  /\ Aligned(VMCOPY_BETTER_THAN_MEMCPY) /\ Aligned(WINDOW_DEFAULT_SIZE)
  /\ vm_page_size <= VMCOPY_BETTER_THAN_MEMCPY
  /\ VMCOPY_BETTER_THAN_MEMCPY <= WINDOW_DEFAULT_SIZE
<1>0. vm_page_size \in Int /\ vm_page_size > 0 /\ VMCOPY_PAGES \in Int /\ WINDOW_PAGES \in Int
  BY PageAssumption, WindowAssumption
<1>1. /\ VMCOPY_BETTER_THAN_MEMCPY = vm_page_size * VMCOPY_PAGES
      /\ WINDOW_DEFAULT_SIZE = vm_page_size * WINDOW_PAGES
  BY <1>0 DEF VMCOPY_BETTER_THAN_MEMCPY, WINDOW_DEFAULT_SIZE
<1>2. Aligned(VMCOPY_BETTER_THAN_MEMCPY) /\ Aligned(WINDOW_DEFAULT_SIZE)
  BY <1>0, <1>1, MultipleAligned
<1>3. vm_page_size * 1 <= vm_page_size * VMCOPY_PAGES
  BY <1>0, WindowAssumption, Z3
<1>4. vm_page_size * VMCOPY_PAGES <= vm_page_size * WINDOW_PAGES
  BY <1>0, WindowAssumption, Z3
<1> QED
  BY <1>0, <1>1, <1>2, <1>3, <1>4

(* What is copied piece by piece is copied as a whole. *)
LEMMA BytesSum ==
  ASSUME NEW a \in Int, NEW b \in Int, NEW k \in Nat, NEW l \in Nat
  PROVE  Bytes(a, b, k) \cup Bytes(a + k, b + k, l) = Bytes(a, b, k + l)
<1>1. ASSUME NEW i \in 0..(k + l - 1) 
      PROVE  <<a + i, b + i>> \in Bytes(a, b, k) \cup Bytes(a + k, b + k, l)
  <2>1. CASE i < k
    BY <2>1 DEF Bytes
  <2>2. CASE i >= k
    <3>1. i - k \in 0..(l - 1) /\ a + i = (a + k) + (i - k) /\ b + i = (b + k) + (i - k)
      BY <2>2
    <3> QED
      BY <3>1 DEF Bytes
  <2> QED
    BY <2>1, <2>2
<1>2. ASSUME NEW i \in 0..(k - 1) PROVE <<a + i, b + i>> \in Bytes(a, b, k + l)
  BY DEF Bytes
<1>3. ASSUME NEW i \in 0..(l - 1)
      PROVE  <<a + k + i, b + k + i>> \in Bytes(a, b, k + l)
  <2>1. k + i \in 0..(k + l - 1) /\ a + k + i = a + (k + i) /\ b + k + i = b + (k + i)
    OBVIOUS
  <2> QED
    BY <2>1 DEF Bytes
<1>4. Bytes(a, b, k + l) \subseteq Bytes(a, b, k) \cup Bytes(a + k, b + k, l)
  <2> SUFFICES ASSUME NEW x \in Bytes(a, b, k + l)
               PROVE  x \in Bytes(a, b, k) \cup Bytes(a + k, b + k, l)
    OBVIOUS
  <2>1. PICK i \in 0..(k + l - 1) : x = <<a + i, b + i>>
    BY DEF Bytes
  <2> QED
    BY <1>1, <2>1
<1>5. Bytes(a, b, k) \subseteq Bytes(a, b, k + l)
  BY <1>2, Zenon DEF Bytes
<1>6. Bytes(a + k, b + k, l) \subseteq Bytes(a, b, k + l)
  BY <1>3, Zenon DEF Bytes
<1> QED
  BY <1>4, <1>5, <1>6

(* Nothing copied is no bytes. *)
LEMMA BytesNone == \A a, b \in Int : Bytes(a, b, 0) = {}
BY DEF Bytes

(* memcpy stops at the first place that faults. *)
LEMMA FirstFault ==
  ASSUME NEW S, S \subseteq Nat, S # {}
  PROVE  \E y \in S : \A z \in S : y <= z
<1>1. PICK y \in S : \A z \in S : ~ (<<z, y>> \in OpToRel(<, Nat))
  BY NatLessThanWellFounded, WFMin
<1>2. \A z \in S : ~ (z < y)
  BY <1>1 DEF OpToRel
<1> QED
  BY <1>2

-----------------------------------------------------------------------------
(* The arguments stay what the caller passed. *)
ArgOK == arg \in [offset : Nat, other : Nat, size : 0..MAX_SIZE]

(* Nothing has gone wrong while the function runs. *)
Calm == Running => /\ err = 0 /\ misread = FALSE /\ aborted = {}
                   /\ n <= arg.size

(* What each place of the code relies on: do_vm_copy on whole aligned      *)
(* pages, enough of them, and do_memcpy on a count that is part of n and,  *)
(* before do_vm_copy, ends on a page boundary with enough left.            *)
PcInv ==
  /\ pc = "start" => size = arg.size
  /\ pc = "catch" => n >= 1
  /\ pc \in {"vm_copy", "vm_copy_mapped"} =>
       Aligned(offset) /\ Aligned(other) /\ n >= VMCOPY_BETTER_THAN_MEMCPY
  /\ pc = "vm_copy_mapped" => window_size >= VMCOPY_BETTER_THAN_MEMCPY /\ window_size <= n /\ Aligned(window_size)
  /\ pc \in {"memcpy", "memcpy_mapped"} =>
       /\ to_copy >= 1 /\ to_copy <= n
       /\ then = "vm_copy" => /\ n - to_copy >= VMCOPY_BETTER_THAN_MEMCPY
                              /\ Aligned(offset + to_copy) /\ Aligned(other + to_copy)
       /\ then = "return" => to_copy = n
  /\ pc = "memcpy" => window_size = WINDOW_DEFAULT_SIZE
  /\ pc = "memcpy_mapped" => copy_count = to_copy \/ window_size = WINDOW_DEFAULT_SIZE

IInv ==
  TypeOK /\ ArgOK /\ Calm /\ Cursors /\ PcInv /\ InWindow /\ SizeActual /\ AssertionsHold

(* A call begins in the invariant. *)
LEMMA InitInv == Init => IInv
<1> SUFFICES ASSUME Init PROVE IInv
  OBVIOUS
<1>0. vm_page_size \in Nat /\ vm_page_size > 0
  BY PageAssumption
<1>1. ArgOK
  BY <1>0 DEF Init, ArgOK
<1>2. TypeOK
  <2>1. arg.offset \in Nat /\ arg.other \in Nat /\ arg.size \in 0..MAX_SIZE
    BY <1>1 DEF ArgOK
  <2>2. arg.size \in 0..(SIZE_T - 1) /\ 0 \in 0..MAX_SIZE
    BY <2>1, SizeAssumption
  <2> QED
    BY <2>1, <2>2 DEF Init, TypeOK
<1>3. Cursors
  <2>1. arg.offset \in Int /\ arg.other \in Int /\ arg.size \in Int
    BY <1>1 DEF ArgOK
  <2>2. Bytes(arg.offset, arg.other, 0) = {}
    BY <2>1, BytesNone
  <2>3. arg.size - n = 0 /\ offset - arg.offset = 0 /\ other - arg.other = 0
    BY <2>1 DEF Init
  <2> QED
    BY <2>2, <2>3 DEF Init, Cursors
<1>4. Calm /\ PcInv /\ InWindow /\ SizeActual /\ AssertionsHold
  BY <1>1 DEF Init, ArgOK, Calm, PcInv, InWindow, SizeActual, AssertionsHold
<1> QED
  BY <1>1, <1>2, <1>3, <1>4 DEF IInv

(* A return with what is left of n leaves *size at what was copied. *)
LEMMA ReturnInv ==
  ASSUME IInv, Running, NEW e, e \in {0, 1, 2}, e = 0 => n' = 0,
         TypeOK', Return(n', e), err' = e, UNCHANGED arg, misread' = FALSE,
         n' <= arg.size, n' \in Nat,
         copied' = Bytes(arg.offset, arg.other, arg.size - n')
  PROVE  IInv'
<1>1. arg.size \in Nat /\ ArgOK'
  BY DEF IInv, ArgOK
<1>2. pc' = "done" /\ size' = arg.size - n' /\ aborted' = {}
  BY <1>1 DEF Return, Minus, IInv, Calm
<1>3. SizeActual' /\ AssertionsHold'
  BY <1>1, <1>2 DEF SizeActual, AssertionsHold
<1>4. Calm' /\ Cursors' /\ PcInv' /\ InWindow'
  BY <1>2 DEF Calm, Cursors, PcInv, InWindow, Running
<1> QED
  BY <1>1, <1>3, <1>4 DEF IInv

(* The same where the call fails before anything more is copied. *)
LEMMA FailInv ==
  ASSUME IInv, Running, err' = 1, Return(n, 1), TypeOK',
         UNCHANGED <<arg, n, copied, misread>>
  PROVE  IInv'
<1>1. n \in Nat /\ n <= arg.size /\ misread = FALSE
      /\ copied = Bytes(arg.offset, arg.other, arg.size - n)
  BY DEF IInv, TypeOK, Calm, Cursors
<1>2. Return(n', 1) /\ n' \in Nat /\ n' <= arg.size /\ misread' = FALSE
      /\ copied' = Bytes(arg.offset, arg.other, arg.size - n')
  BY <1>1 DEF Return
<1>3. 1 \in {0, 1, 2} /\ (1 = 0 => n' = 0) /\ UNCHANGED arg
  OBVIOUS
<1> QED
  BY <1>2, <1>3, ReturnInv
(* The numbers while the function runs. *)
LEMMA Numbers ==
  ASSUME IInv, Running
  PROVE  /\ offset \in Nat /\ other \in Nat /\ n \in Nat /\ window_size \in Nat
         /\ to_copy \in Nat /\ copy_count \in Nat
         /\ arg.offset \in Nat /\ arg.other \in Nat /\ arg.size \in Nat
         /\ n <= arg.size /\ arg.size <= MAX_SIZE
         /\ MAX_SIZE \in Nat /\ SIZE_T \in Nat /\ MAX_SIZE < SIZE_T
<1>1. arg.offset \in Nat /\ arg.other \in Nat /\ arg.size \in 0..MAX_SIZE
  BY DEF IInv, ArgOK
<1>2. n <= arg.size
  BY DEF IInv, Calm
<1> QED
  BY <1>1, <1>2, SizeAssumption DEF IInv, TypeOK

(* Copying count more bytes from the cursors on. *)
LEMMA CopyMore ==
  ASSUME IInv, Running, NEW c \in Nat, c <= n
  PROVE  copied \cup Bytes(offset, other, c) = Bytes(arg.offset, arg.other, arg.size - (n - c))
<1> DEFINE k == arg.size - n
<1>1. k \in Nat /\ arg.offset \in Int /\ arg.other \in Int /\ k + c = arg.size - (n - c)
  BY Numbers
<1>2. offset = arg.offset + k /\ other = arg.other + k /\ copied = Bytes(arg.offset, arg.other, k)
  <2>1. offset - arg.offset = k /\ other - arg.other = k /\ copied = Bytes(arg.offset, arg.other, k)
    BY DEF IInv, Cursors
  <2> HIDE DEF k
  <2> QED
    BY <2>1, <1>1, Numbers
<1> HIDE DEF k
<1>3. Bytes(arg.offset, arg.other, k) \cup Bytes(arg.offset + k, arg.other + k, c)
        = Bytes(arg.offset, arg.other, k + c)
  <2>1. \A a, b \in Int : Bytes(a, b, k) \cup Bytes(a + k, b + k, c) = Bytes(a, b, k + c)
    BY <1>1, BytesSum
  <2> QED
    BY <1>1, <2>1
<1> QED
  BY <1>1, <1>2, <1>3

(* pager_memcpy up to the first copy. *)
LEMMA StartInv == IInv /\ pager_memcpy => IInv'
<1> SUFFICES ASSUME IInv, pager_memcpy PROVE IInv'
  OBVIOUS
<1>0. Running /\ pc = "start"
  BY DEF pager_memcpy, Running
<1>1. TypeOK' /\ ArgOK' /\ AssertionsHold' /\ InWindow'
  BY DEF IInv, TypeOK, ArgOK, AssertionsHold, InWindow, pager_memcpy
<1>2. Calm' /\ Cursors'
  BY <1>0 DEF IInv, Calm, Cursors, Running, pager_memcpy
<1>3. PcInv'
  BY <1>0, Numbers DEF IInv, PcInv, pager_memcpy
<1>4. SizeActual'
  <2> SUFFICES ASSUME pc' = "done" PROVE SizeActual'
    BY DEF SizeActual
  <2>1. n = 0 /\ size' = arg.size /\ arg.size - 0 = arg.size
    BY <1>0, Numbers DEF pager_memcpy, IInv, PcInv
  <2>2. copied' = Bytes(arg.offset, arg.other, arg.size)
    BY <1>0, <2>1 DEF IInv, Cursors, pager_memcpy
  <2> QED
    BY <2>1, <2>2 DEF SizeActual, pager_memcpy
<1> QED
  BY <1>1, <1>2, <1>3, <1>4 DEF IInv

(* do_copy chooses what to copy with memcpy first. *)
LEMMA DoCopyInv == IInv /\ do_copy => IInv'
<1> SUFFICES ASSUME IInv, do_copy PROVE IInv'
  OBVIOUS
<1>0. Running /\ pc = "catch" /\ n >= 1
  BY DEF do_copy, Running, IInv, PcInv
<1>1. pc' = "memcpy" /\ window_size' = WINDOW_DEFAULT_SIZE
      /\ UNCHANGED <<arg, offset, other, n, err, copy_count, copied, size, misread, aborted>>
  BY DEF do_copy, do_memcpy
<1>2. /\ to_copy' \in Nat /\ to_copy' >= 1 /\ to_copy' <= n
      /\ then' = "vm_copy" => /\ n - to_copy' >= VMCOPY_BETTER_THAN_MEMCPY
                              /\ Aligned(offset + to_copy') /\ Aligned(other + to_copy')
      /\ then' = "return" => to_copy' = n
      /\ then' \in {"vm_copy", "return"}
  <2>1. CASE CanUseVmCopy
    <3> DEFINE r == other % vm_page_size
    <3>1. to_copy' = vm_page_size - r /\ then' = "vm_copy"
      BY <2>1 DEF do_copy, do_memcpy
    <3>2. r \in Int /\ 0 <= r /\ r < vm_page_size /\ vm_page_size \in Nat
      BY <1>0, Numbers, DivMod, PageAssumption
    <3>3. n >= VMCOPY_BETTER_THAN_MEMCPY + vm_page_size - r /\ offset % vm_page_size = r
      BY <2>1 DEF CanUseVmCopy, pageoff
    <3>4. Aligned(other + (vm_page_size - r))
      BY <1>0, Numbers, PartPage
    <3>5. Aligned(offset + (vm_page_size - r))
      BY <1>0, <3>3, Numbers, PartPage
    <3> HIDE DEF r
    <3> QED
      BY <1>0, <3>1, <3>2, <3>3, <3>4, <3>5, Numbers, Sizes
  <2>2. CASE ~ CanUseVmCopy
    BY <2>2, <1>0, Numbers DEF do_copy, do_memcpy
  <2> QED
    BY <2>1, <2>2
<1>3. TypeOK'
  <2>1. to_copy' \in 0..MAX_SIZE /\ window_size' \in Nat
    BY <1>0, <1>1, <1>2, Numbers, Sizes
  <2> QED
    BY <1>1, <1>2, <2>1 DEF IInv, TypeOK
<1>4. PcInv'
  BY <1>1, <1>2 DEF PcInv
<1>5. ArgOK' /\ Calm' /\ Cursors' /\ InWindow' /\ SizeActual' /\ AssertionsHold'
  BY <1>0, <1>1 DEF IInv, ArgOK, Calm, Cursors, InWindow, SizeActual, AssertionsHold, Running
<1> QED
  BY <1>3, <1>4, <1>5 DEF IInv

(* do_vm_copy maps a window of whole pages, at least as many as it wants. *)
LEMMA VmCopyMapInv == IInv /\ vm_copy_map => IInv'
<1> SUFFICES ASSUME IInv, vm_copy_map PROVE IInv'
  OBVIOUS
<1>0. Running /\ pc = "vm_copy" /\ Aligned(offset) /\ Aligned(other) /\ n >= VMCOPY_BETTER_THAN_MEMCPY
  BY DEF vm_copy_map, Running, IInv, PcInv
<1>1. /\ vm_copy_window \in Nat /\ vm_copy_window <= n
      /\ vm_copy_window >= VMCOPY_BETTER_THAN_MEMCPY /\ Aligned(vm_copy_window)
  <2>1. CASE WINDOW_DEFAULT_SIZE > n
    <3>1. vm_copy_window = n - (n % vm_page_size)
      BY <2>1 DEF vm_copy_window
    <3>2. n % vm_page_size \in Int /\ 0 <= n % vm_page_size
      BY <1>0, Numbers, DivMod
    <3>3. Aligned(n - (n % vm_page_size))
      BY <1>0, Numbers, PartPage
    <3>4. VMCOPY_BETTER_THAN_MEMCPY <= n - (n % vm_page_size)
      BY <1>0, Numbers, Sizes, AlignedFloor
    <3> QED
      BY <1>0, <3>1, <3>2, <3>3, <3>4, Numbers, Sizes
  <2>2. CASE ~ (WINDOW_DEFAULT_SIZE > n)
    BY <2>2, <1>0, Numbers, Sizes DEF vm_copy_window
  <2> QED
    BY <2>1, <2>2
<1> HIDE DEF vm_copy_window
<1>2. n >= vm_page_size
  BY <1>0, Numbers, Sizes, PageAssumption
<1>3. /\ window_size' = vm_copy_window
      /\ UNCHANGED <<arg, bad, offset, other, n, to_copy, copy_count, then, copied, misread>>
      /\ \/ pc' = "vm_copy_mapped" /\ err' = 0 /\ UNCHANGED <<size, aborted>>
         \/ err' = 1 /\ Return(n, 1)
  BY <1>0, <1>1, <1>2 DEF vm_copy_map
<1>4. CASE pc' = "vm_copy_mapped" /\ err' = 0 /\ UNCHANGED <<size, aborted>>
  <2>1. TypeOK'
    BY <1>1, <1>3, <1>4 DEF IInv, TypeOK
  <2>2. PcInv'
    BY <1>0, <1>1, <1>3, <1>4 DEF PcInv
  <2>3. ArgOK' /\ Calm' /\ Cursors' /\ InWindow' /\ SizeActual' /\ AssertionsHold'
    BY <1>0, <1>3, <1>4 DEF IInv, ArgOK, Calm, Cursors, InWindow, SizeActual, AssertionsHold, Running
  <2> QED
    BY <2>1, <2>2, <2>3 DEF IInv
<1>5. CASE err' = 1 /\ Return(n, 1)
  <2>1. pc' = "done" /\ size' \in 0..(SIZE_T - 1)
    BY <1>0, <1>5, Numbers DEF Return, Minus
  <2>2. TypeOK'
    BY <1>1, <1>3, <1>5, <2>1 DEF IInv, TypeOK
  <2> QED
    BY <1>0, <1>3, <1>5, <2>2, FailInv
<1> QED
  BY <1>3, <1>4, <1>5
(* vm_copy copies the window; what is left is aligned again. *)
LEMMA VmCopyInv == IInv /\ vm_copy => IInv'
<1> SUFFICES ASSUME IInv, vm_copy PROVE IInv'
  OBVIOUS
<1>0. /\ Running /\ pc = "vm_copy_mapped" /\ Aligned(offset) /\ Aligned(other)
      /\ window_size >= VMCOPY_BETTER_THAN_MEMCPY /\ window_size <= n /\ Aligned(window_size)
  BY DEF vm_copy, Running, IInv, PcInv
<1>1. err = 0 /\ misread = FALSE /\ aborted = {} /\ UNCHANGED <<arg, bad, copy_count, misread>>
  BY <1>0 DEF vm_copy, IInv, Calm
<1> DEFINE Rest ==
       \/ /\ n' >= VMCOPY_BETTER_THAN_MEMCPY
          /\ pc' = "vm_copy" /\ UNCHANGED <<to_copy, window_size, then, size, aborted>>
       \/ /\ n' = 0
          /\ Return(0, 0) /\ UNCHANGED <<to_copy, window_size, then>>
       \/ /\ n' \in 1..(VMCOPY_BETTER_THAN_MEMCPY - 1) /\ then = "catch"
          /\ pc' = "catch" /\ UNCHANGED <<to_copy, window_size, then, size, aborted>>
       \/ /\ n' \in 1..(VMCOPY_BETTER_THAN_MEMCPY - 1) /\ then = "return"
          /\ do_memcpy(n', "return") /\ UNCHANGED <<size, aborted>>
<1>2. CASE /\ copied' = copied \cup Bytes(offset, other, window_size)
           /\ other' = other + window_size /\ offset' = offset + window_size
           /\ n' = Minus(n, window_size)
           /\ Rest /\ UNCHANGED err
  <2>1. n' = n - window_size /\ n' \in Nat /\ n' <= arg.size /\ offset' \in Nat /\ other' \in Nat
    BY <1>0, <1>2, Numbers DEF Minus
  <2>2. copied' = Bytes(arg.offset, arg.other, arg.size - n')
    BY <1>0, <1>2, <2>1, Numbers, CopyMore
  <2>3. Aligned(offset') /\ Aligned(other')
    BY <1>0, <1>2, Numbers, AlignedSum
  <2>4. offset' - arg.offset = arg.size - n' /\ other' - arg.other = arg.size - n'
    <3>1. offset - arg.offset = arg.size - n /\ other - arg.other = arg.size - n
      BY <1>0 DEF IInv, Cursors
    <3> QED
      BY <1>0, <1>2, <2>1, <3>1, Numbers
  <2>5. n' \in 0..(SIZE_T - 1) /\ n' \in 0..MAX_SIZE
    BY <1>0, <2>1, Numbers
  <2>6. CASE n' >= VMCOPY_BETTER_THAN_MEMCPY
             /\ pc' = "vm_copy" /\ UNCHANGED <<to_copy, window_size, then, size, aborted>>
    <3>1. TypeOK'
      BY <1>1, <1>2, <2>1, <2>5, <2>6 DEF IInv, TypeOK
    <3>2. PcInv'
      BY <2>3, <2>6 DEF PcInv
    <3>3. ArgOK' /\ Calm' /\ InWindow' /\ SizeActual' /\ AssertionsHold'
      BY <1>1, <1>2, <2>1, <2>6 DEF IInv, ArgOK, Calm, InWindow, SizeActual, AssertionsHold
    <3>4. Cursors'
      BY <1>1, <2>2, <2>4 DEF Cursors
    <3> QED
      BY <3>1, <3>2, <3>3, <3>4 DEF IInv
  <2>7. CASE n' = 0 /\ Return(0, 0) /\ UNCHANGED <<to_copy, window_size, then>>
    <3>1. pc' = "done" /\ size' \in 0..(SIZE_T - 1)
      BY <1>0, <2>7, Numbers DEF Return, Minus
    <3>2. TypeOK'
      BY <1>1, <1>2, <2>1, <2>5, <2>7, <3>1 DEF IInv, TypeOK
    <3>3. err' = 0 /\ misread' = FALSE /\ UNCHANGED arg /\ Return(n', 0) /\ 0 \in {0, 1, 2}
      BY <1>1, <1>2, <2>7
    <3> QED
      BY <1>0, <2>1, <2>2, <2>7, <3>2, <3>3, ReturnInv
  <2>8. CASE n' \in 1..(VMCOPY_BETTER_THAN_MEMCPY - 1)
             /\ pc' = "catch" /\ UNCHANGED <<to_copy, window_size, then, size, aborted>>
    <3>1. TypeOK'
      BY <1>1, <1>2, <2>1, <2>5, <2>8 DEF IInv, TypeOK
    <3>2. n' >= 1
      BY <2>8, Sizes
    <3>3. PcInv'
      BY <2>8, <3>2 DEF PcInv
    <3>4. ArgOK' /\ Calm' /\ InWindow' /\ SizeActual' /\ AssertionsHold'
      BY <1>1, <1>2, <2>1, <2>8 DEF IInv, ArgOK, Calm, InWindow, SizeActual, AssertionsHold
    <3>5. Cursors'
      BY <1>1, <2>2, <2>4 DEF Cursors
    <3> QED
      BY <3>1, <3>3, <3>4, <3>5 DEF IInv
  <2>9. CASE n' \in 1..(VMCOPY_BETTER_THAN_MEMCPY - 1)
             /\ do_memcpy(n', "return") /\ UNCHANGED <<size, aborted>>
    <3>1. n' >= 1 /\ to_copy' = n' /\ window_size' = WINDOW_DEFAULT_SIZE /\ pc' = "memcpy" /\ then' = "return"
      BY <2>9, Sizes DEF do_memcpy
    <3>2. TypeOK'
      BY <1>1, <1>2, <2>1, <2>5, <2>9, <3>1, Sizes DEF IInv, TypeOK
    <3>3. PcInv'
      BY <2>1, <3>1 DEF PcInv
    <3>4. ArgOK' /\ Calm' /\ InWindow' /\ SizeActual' /\ AssertionsHold'
      BY <1>1, <1>2, <2>1, <2>9, <3>1 DEF IInv, ArgOK, Calm, InWindow, SizeActual, AssertionsHold
    <3>5. Cursors'
      BY <1>1, <2>2, <2>4 DEF Cursors
    <3> QED
      BY <3>2, <3>3, <3>4, <3>5 DEF IInv
  <2> QED
    BY <1>2, <2>6, <2>7, <2>8, <2>9
<1>3. CASE /\ err' = 1 /\ Return(n, 1)
           /\ UNCHANGED <<copied, other, offset, n, to_copy, window_size, then>>
  <2>1. pc' = "done" /\ size' \in 0..(SIZE_T - 1)
    BY <1>0, <1>3, Numbers DEF Return, Minus
  <2>2. TypeOK'
    BY <1>1, <1>3, <2>1 DEF IInv, TypeOK
  <2> QED
    BY <1>0, <1>1, <1>3, <2>2, FailInv
<1> QED
  BY <1>2, <1>3 DEF vm_copy
(* do_memcpy maps a window that holds what it is about to copy. *)
LEMMA MemcpyMapInv == IInv /\ memcpy_map => IInv'
<1> SUFFICES ASSUME IInv, memcpy_map PROVE IInv'
  OBVIOUS
<1>0. /\ Running /\ pc = "memcpy" /\ window_size = WINDOW_DEFAULT_SIZE
      /\ to_copy >= 1 /\ to_copy <= n
  BY DEF memcpy_map, Running, IInv, PcInv
<1> DEFINE R == round_page(pageoff + to_copy)
<1>1. pageoff \in Nat /\ pageoff < vm_page_size /\ vm_page_size \in Nat
  BY <1>0, Numbers, DivMod, PageAssumption DEF pageoff
<1>2. /\ R \in Int /\ Aligned(R) /\ pageoff + to_copy <= R
      /\ \A y \in Int : Aligned(y) /\ y < R => y < pageoff + to_copy
  <2>1. pageoff + to_copy \in Nat
    BY <1>0, <1>1, Numbers
  <2> QED
    BY <2>1, RoundPage
<1>3. last_window <=> window_size >= R
  BY DEF last_window
<1>4. /\ copy_count' = IF window_size >= R THEN to_copy ELSE window_size - pageoff
      /\ window_size' = IF window_size >= R THEN R ELSE window_size
      /\ UNCHANGED <<arg, bad, offset, other, n, to_copy, then, copied, misread>>
  BY <1>3 DEF memcpy_map
<1> HIDE DEF R
<1>5. /\ copy_count' \in Nat /\ copy_count' >= 1 /\ copy_count' <= to_copy
      /\ window_size' \in Nat /\ pageoff + copy_count' <= window_size'
      /\ window_size' <= WINDOW_DEFAULT_SIZE /\ Aligned(window_size')
      /\ copy_count' = to_copy \/ window_size' = WINDOW_DEFAULT_SIZE
  <2>1. CASE window_size >= R
    <3>1. copy_count' = to_copy /\ window_size' = R
      BY <2>1, <1>4
    <3> QED
      BY <2>1, <3>1, <1>0, <1>1, <1>2, Numbers
  <2>2. CASE ~ (window_size >= R)
    <3>1. copy_count' = window_size - pageoff /\ window_size' = window_size
      BY <2>2, <1>4
    <3>2. window_size < pageoff + to_copy
      BY <2>2, <1>0, <1>2, Sizes, Numbers
    <3> QED
      BY <3>1, <3>2, <1>0, <1>1, Sizes, Numbers
  <2> QED
    BY <2>1, <2>2
<1>6. copy_count' \in 0..MAX_SIZE
  BY <1>0, <1>5, Numbers
<1>7. CASE pc' = "memcpy_mapped" /\ err' = 0 /\ UNCHANGED <<size, aborted>>
  <2>1. TypeOK'
    BY <1>4, <1>5, <1>6, <1>7 DEF IInv, TypeOK
  <2>2. InWindow'
    <3>1. pageoff' = pageoff /\ to_copy' = to_copy /\ n' = n
      BY <1>4 DEF pageoff
    <3>2. copy_count' \in 1..to_copy
      BY <1>0, <1>5, Numbers
    <3> QED
      BY <1>0, <1>5, <3>1, <3>2 DEF InWindow
  <2>3. PcInv'
    BY <1>0, <1>4, <1>5, <1>7 DEF IInv, PcInv
  <2>4. ArgOK' /\ Calm' /\ Cursors' /\ SizeActual' /\ AssertionsHold'
    BY <1>0, <1>4, <1>7 DEF IInv, ArgOK, Calm, Cursors, SizeActual, AssertionsHold, Running
  <2> QED
    BY <2>1, <2>2, <2>3, <2>4 DEF IInv
<1>8. CASE err' = 1 /\ Return(n, 1)
  <2>1. pc' = "done" /\ size' \in 0..(SIZE_T - 1)
    BY <1>0, <1>8, Numbers DEF Return, Minus
  <2>2. TypeOK'
    BY <1>4, <1>5, <1>6, <1>8, <2>1 DEF IInv, TypeOK
  <2> QED
    BY <1>0, <1>4, <1>8, <2>2, FailInv
<1> QED
  BY <1>7, <1>8 DEF memcpy_map

(* Nothing added or taken away. *)
LEMMA PlusZero == \A i \in Nat : i - 0 = i /\ i + 0 = i
OBVIOUS

(* memcpy copies the window and the loop goes on, or hands over to         *)
(* do_vm_copy on a page boundary.                                          *)
LEMMA MemcpyInv == IInv /\ memcpy => IInv'
<1> SUFFICES ASSUME IInv, memcpy PROVE IInv'
  OBVIOUS
<1>0. /\ Running /\ pc = "memcpy_mapped" /\ copy_count >= 1 /\ copy_count <= to_copy /\ to_copy <= n
      /\ copy_count = to_copy \/ window_size = WINDOW_DEFAULT_SIZE
  BY Numbers DEF memcpy, Running, IInv, PcInv, InWindow
<1>1. /\ then = "vm_copy" => /\ n - to_copy >= VMCOPY_BETTER_THAN_MEMCPY
                             /\ Aligned(offset + to_copy) /\ Aligned(other + to_copy)
      /\ then = "return" => to_copy = n
  BY <1>0 DEF IInv, PcInv
<1>2. err = 0 /\ misread = FALSE /\ aborted = {} /\ UNCHANGED <<arg, bad, window_size, err, copy_count, misread>>
  BY <1>0 DEF memcpy, IInv, Calm
<1>3. /\ offset' = offset + copy_count /\ other' = other + copy_count
      /\ to_copy' = to_copy - copy_count /\ n' = n - copy_count
      /\ copied' = copied \cup Bytes(offset, other, copy_count)
  BY <1>0, Numbers DEF memcpy, advance, Minus
<1>4. n' \in Nat /\ to_copy' \in Nat /\ to_copy' <= n' /\ n' <= arg.size /\ offset' \in Nat /\ other' \in Nat
  BY <1>0, <1>3, Numbers
<1>5. copied' = Bytes(arg.offset, arg.other, arg.size - n')
  BY <1>0, <1>3, Numbers, CopyMore
<1>6. offset' - arg.offset = arg.size - n' /\ other' - arg.other = arg.size - n'
  <2>1. offset - arg.offset = arg.size - n /\ other - arg.other = arg.size - n
    BY <1>0 DEF IInv, Cursors
  <2> QED
    BY <1>0, <1>3, <2>1, Numbers
<1>7. Cursors'
  BY <1>2, <1>5, <1>6 DEF Cursors
<1>8. n' \in 0..(SIZE_T - 1) /\ to_copy' \in 0..MAX_SIZE
  BY <1>0, <1>4, Numbers
<1>9. offset' + to_copy' = offset + to_copy /\ other' + to_copy' = other + to_copy
      /\ n' - to_copy' = n - to_copy
  BY <1>0, <1>3, Numbers
<1>10. CASE to_copy' > 0 /\ pc' = "memcpy" /\ UNCHANGED <<then, size, aborted>>
  <2>1. TypeOK'
    BY <1>2, <1>4, <1>8, <1>10 DEF IInv, TypeOK
  <2>2. window_size' = WINDOW_DEFAULT_SIZE /\ to_copy' >= 1 /\ (to_copy = n => to_copy' = n')
    BY <1>0, <1>2, <1>3, <1>4, <1>10, Numbers
  <2>3. PcInv'
    BY <1>1, <1>4, <1>9, <1>10, <2>2 DEF PcInv
  <2>4. ArgOK' /\ Calm' /\ InWindow' /\ SizeActual' /\ AssertionsHold'
    BY <1>2, <1>4, <1>10 DEF IInv, ArgOK, Calm, InWindow, SizeActual, AssertionsHold
  <2> QED
    BY <1>7, <2>1, <2>3, <2>4 DEF IInv
<1>11. CASE /\ to_copy' = 0 /\ then = "vm_copy" /\ then' = "return" /\ UNCHANGED size
            /\ IF n' >= VMCOPY_BETTER_THAN_MEMCPY THEN pc' = "vm_copy" /\ UNCHANGED aborted
               ELSE Abort("do_copy")
  <2>1. n' - 0 = n' /\ offset' + 0 = offset' /\ other' + 0 = other'
    BY <1>4, PlusZero, Zenon
  <2>2. n' >= VMCOPY_BETTER_THAN_MEMCPY /\ Aligned(offset') /\ Aligned(other')
    BY <1>1, <1>9, <1>11, <2>1
  <2>3. pc' = "vm_copy" /\ UNCHANGED aborted
    BY <1>11, <2>2
  <2>4. TypeOK'
    BY <1>2, <1>4, <1>8, <1>11, <2>3 DEF IInv, TypeOK
  <2>5. PcInv'
    BY <2>2, <2>3 DEF PcInv
  <2>6. ArgOK' /\ Calm' /\ InWindow' /\ SizeActual' /\ AssertionsHold'
    BY <1>2, <1>4, <2>3 DEF IInv, ArgOK, Calm, InWindow, SizeActual, AssertionsHold
  <2> QED
    BY <1>7, <2>4, <2>5, <2>6 DEF IInv
<1>12. CASE to_copy' = 0 /\ then = "return" /\ Return(n', 0) /\ UNCHANGED then
  <2>1. n' = 0
    BY <1>0, <1>1, <1>3, <1>12, Numbers
  <2>2. pc' = "done" /\ size' \in 0..(SIZE_T - 1)
    BY <1>0, <1>12, <2>1, Numbers DEF Return, Minus
  <2>3. TypeOK'
    BY <1>2, <1>4, <1>8, <1>12, <2>2 DEF IInv, TypeOK
  <2>4. err' = 0 /\ misread' = FALSE /\ UNCHANGED arg /\ Return(n', 0) /\ 0 \in {0, 1, 2}
    BY <1>2, <1>12
  <2>5. Running /\ n' \in Nat /\ n' <= arg.size
    BY <1>0, <1>4
  <2> QED
    BY <1>5, <2>1, <2>3, <2>4, <2>5, ReturnInv
<1> QED
  BY <1>10, <1>11, <1>12 DEF memcpy
(* A fault in a window that begins at offset leaves *size right. *)
LEMMA FaultInv == IInv /\ fault => IInv'
<1> SUFFICES ASSUME IInv, fault PROVE IInv'
  OBVIOUS
<1>0. /\ Running /\ pc = "memcpy_mapped" /\ copy_count >= 1 /\ copy_count <= to_copy /\ to_copy <= n
  BY Numbers DEF fault, Running, IInv, PcInv, InWindow
<1> DEFINE x == CHOOSE y \in Faults : \A z \in Faults : y <= z
           sigcode == x - (offset - pageoff)
<1>1. x \in Faults
  <2>1. Faults \subseteq Nat
    BY <1>0, Numbers DEF Faults
  <2>2. \E y \in Faults : \A z \in Faults : y <= z
    BY <2>1, FirstFault DEF fault
  <2> QED
    BY <2>2
<1>2. /\ copied' = copied \cup Bytes(offset, other, x - offset)
      /\ err' = pager_get_error(sigcode + offset)
      /\ n' = Minus(n, sigcode)
      /\ misread' = (pageoff # 0)
      /\ Return(n', err')
      /\ UNCHANGED <<arg, bad, offset, other, window_size, to_copy, copy_count, then>>
  BY DEF fault, left_after_fault
<1> HIDE DEF x
<1>3. x \in Nat /\ offset <= x /\ x <= offset + copy_count - 1 /\ PageOf(x) \in bad
  BY <1>0, <1>1, Numbers DEF Faults
<1>4. pageoff \in Nat /\ pageoff < vm_page_size /\ vm_page_size \in Nat
  BY <1>0, Numbers, DivMod, PageAssumption DEF pageoff
<1>5. sigcode \in Nat /\ sigcode = (x - offset) + pageoff
  BY <1>0, <1>3, <1>4, Numbers
<1> HIDE DEF sigcode
<1>6. n' \in 0..(SIZE_T - 1)
  <2>1. sigcode < n + vm_page_size
    BY <1>0, <1>3, <1>4, <1>5, Numbers
  <2> QED
    BY <1>0, <1>2, <1>4, <1>5, <2>1, Numbers, SizeAssumption DEF Minus
<1>7. size' \in 0..(SIZE_T - 1) /\ pc' \in {"done", "aborted"}
  <2>1. CASE err' = 0 /\ n' # 0
    BY <1>2, <2>1 DEF Return, Abort, IInv, TypeOK
  <2>2. CASE ~ (err' = 0 /\ n' # 0)
    <3>1. size' = Minus(arg.size, n') /\ pc' = "done"
      BY <1>2, <2>2 DEF Return
    <3> QED
      BY <1>0, <1>6, <3>1, Numbers DEF Minus
  <2> QED
    BY <2>1, <2>2
<1>8. TypeOK'
  <2>1. err' \in {0, 1, 2} /\ misread' \in BOOLEAN
    BY <1>2 DEF pager_get_error
  <2> QED
    BY <1>2, <1>6, <1>7, <2>1 DEF IInv, TypeOK
<1>9. CASE pageoff = 0
  <2>1. sigcode = x - offset /\ sigcode + offset = x /\ sigcode <= n
    BY <1>0, <1>3, <1>5, <1>9, Numbers
  <2>2. err' = 2 /\ misread' = FALSE
    BY <1>2, <1>3, <1>9, <2>1 DEF pager_get_error
  <2>3. n' = n - sigcode /\ n' \in Nat /\ n' <= arg.size
    BY <1>0, <1>2, <1>5, <2>1, Numbers DEF Minus
  <2>4. copied' = Bytes(arg.offset, arg.other, arg.size - n')
    BY <1>0, <1>2, <1>5, <2>1, <2>3, CopyMore
  <2>5. Return(n', 2) /\ UNCHANGED arg /\ 2 \in {0, 1, 2} /\ (2 = 0 => n' = 0)
    BY <1>2, <2>2
  <2> QED
    BY <1>0, <1>8, <2>2, <2>3, <2>4, <2>5, ReturnInv
<1>10. CASE pageoff # 0
  <2>1. misread' = TRUE /\ UNCHANGED arg
    BY <1>2, <1>10
  <2> QED
    BY <1>7, <1>8, <2>1 DEF IInv, ArgOK, Calm, Cursors, PcInv, InWindow, SizeActual, AssertionsHold, Running
<1> QED
  BY <1>9, <1>10

(* The invariant holds throughout a call of pager_memcpy. *)
THEOREM Invariant == Spec => []IInv
<1>1. IInv /\ [Next]_vars => IInv'
  <2> SUFFICES ASSUME IInv, [Next]_vars PROVE IInv'
    OBVIOUS
  <2>1. CASE UNCHANGED vars
    <3>1. UNCHANGED <<arg, bad, pc, offset, other, n, window_size, err, to_copy, copy_count, then,
                      copied, size, misread, aborted>>
      BY <2>1 DEF vars, locals
    <3>2. TypeOK' /\ ArgOK' /\ Calm' /\ Cursors'
      BY <3>1 DEF IInv, TypeOK, ArgOK, Calm, Cursors, Running
    <3>3. PcInv'
      BY <3>1 DEF IInv, PcInv
    <3>4. InWindow' /\ SizeActual' /\ AssertionsHold'
      BY <3>1 DEF IInv, InWindow, SizeActual, AssertionsHold, pageoff
    <3> QED
      BY <3>2, <3>3, <3>4 DEF IInv
  <2> QED
    BY <2>1, StartInv, DoCopyInv, VmCopyMapInv, VmCopyInv, MemcpyMapInv, MemcpyInv, FaultInv DEF Next
<1> QED
  BY InitInv, <1>1, PTL DEF Spec

(* pager_memcpy's cursors move together, and exactly what lies behind them *)
(* has been copied, however do_vm_copy and do_memcpy alternate.            *)
THEOREM CursorsKept == Spec => []Cursors
<1>1. IInv => Cursors
  BY DEF IInv
<1> QED
  BY Invariant, <1>1, PTL

(* do_memcpy never copies outside the window it has mapped or more than    *)
(* was asked for.                                                          *)
THEOREM WindowKept == Spec => []InWindow
<1>1. IInv => InWindow
  BY DEF IInv
<1> QED
  BY Invariant, <1>1, PTL

(* When pager_memcpy returns, *size is the number of bytes copied, unless  *)
(* a fault came in a window that begins below offset.                      *)
THEOREM SizeRight == Spec => []SizeActual
<1>1. IInv => SizeActual
  BY DEF IInv
<1> QED
  BY Invariant, <1>1, PTL

(* No assertion of pager-memcpy.c fails, with the same exception. *)
THEOREM NoAbort == Spec => []AssertionsHold
<1>1. IInv => AssertionsHold
  BY DEF IInv
<1> QED
  BY Invariant, <1>1, PTL
=============================================================================
