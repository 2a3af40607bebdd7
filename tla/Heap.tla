-------------------------------- MODULE Heap --------------------------------
(***************************************************************************)
(* kernel_core/src/memory/heap.rs: the Rust heap, a first-fit free list    *)
(* over pages of the page allocator.                                       *)
(*                                                                         *)
(* Addresses and sizes are bytes.  One action is one whole call of alloc   *)
(* or dealloc: the list's exchanges are those of the buddy allocator, and  *)
(* module Buddy studies their interleavings.  This module is about sizes,  *)
(* padding and alignment.                                                  *)
(***************************************************************************)
EXTENDS Integers, Sequences, FiniteSetsExt

CONSTANTS
  HeaderSize,        \* size_of AllocatedHeader and of FreeHeader; in the code 16
  HeaderAlign,       \* their alignment; in the code 8
  PageSize,
  MinPageAllocation, \* MIN_PAGE_ALLOCATION; in the code 4
  Pages,             \* number of pages that the page allocator has
  Layouts,           \* the layouts that are asked for: [size, align]
  MaxHeld            \* bound: allocations that are live at a time

ASSUME HeapAssumption ==
  /\ HeaderAlign \in Nat \ {0} /\ HeaderSize = 2 * HeaderAlign
  /\ {PageSize, MinPageAllocation, Pages, MaxHeld} \subseteq Nat \ {0}
  /\ PageSize % HeaderSize = 0
  /\ Layouts \subseteq [size : Nat \ {0}, align : Nat \ {0}]
  \* Alignments are powers of two, and of two of them one divides the other.
  /\ \A l \in Layouts : HeaderAlign % l.align = 0 \/ l.align % HeaderSize = 0

VARIABLES
  free,              \* the free list, head first: [addr, size]
  held,              \* live allocations: [ptr, block, size, layout], size as in the header
  taken,             \* number of pages taken from the page allocator
  ready,             \* has init given the heap its page allocator?
  reply              \* outcome of the last call

vars == <<free, held, taken, ready, reply>>

Init ==
  /\ free = <<>>
  /\ held = {}
  /\ taken = 0
  /\ ready = FALSE
  /\ reply = "none"

\* HeapAllocator::init; the first call decides.
SetPageAllocator ==
  /\ ready' = TRUE
  /\ UNCHANGED <<free, held, taken, reply>>

AlignUp(n, align) == ((n + align - 1) \div align) * align

\* Mutant: the header is taken to end on a boundary of the layout.
HeaderPaddingMaxNone(l) == 0

HeaderPaddingMax(l) ==
  IF l.align <= HeaderAlign THEN 0
  ELSE IF l.align = HeaderSize THEN HeaderAlign
  ELSE l.align - HeaderSize

Required(l) == HeaderSize + HeaderPaddingMax(l) + l.size

Panic == reply' = "panic" /\ UNCHANGED <<free, held, taken, ready>>
-----------------------------------------------------------------------------
\* Where the rest of a block starts that is split after `actual` bytes.
RestOffset(actual) == AlignUp(actual, HeaderAlign)

\* Mutant: the rest is split off although no header fits in it.
SplitsTight(total, actual) == total > actual

\* Is the rest of a block put back in the list?
Splits(total, actual) == total - actual > HeaderSize

\* The end of alloc: padding, header and data go into the block, of `total`
\* bytes, and the rest is pushed on the list `list`.
Place(l, block, total, list) ==
  LET data == AlignUp(block + HeaderSize, l.align)
      padding == data - (block + HeaderSize)
      actual == HeaderSize + padding + l.size
      rest == [addr |-> block + RestOffset(actual), size |-> total - RestOffset(actual)] IN
  IF padding > HeaderPaddingMax(l) THEN reply' = "panic" /\ UNCHANGED <<free, held>>
  ELSE /\ free' = IF Splits(total, actual) THEN <<rest>> \o list ELSE list
       /\ held' = held \cup {[ptr |-> data, block |-> block, size |-> actual, layout |-> l]}
       /\ reply' = "ok"

\* The exchange of try_remove_fit takes the i-th block out of the list.
Unlinked(list, i) == SubSeq(list, 1, i - 1) \o SubSeq(list, i + 1, Len(list))

\* try_remove_fit finds a block: the first that is large enough.
AllocFromList(l) ==
  /\ Cardinality(held) < MaxHeld
  /\ \E i \in DOMAIN free :
       /\ free[i].size >= Required(l)
       /\ \A j \in 1 .. i - 1 : free[j].size < Required(l)
       /\ Place(l, free[i].addr, free[i].size, Unlinked(free, i))
  /\ UNCHANGED <<taken, ready>>

\* It does not: alloc asks for pages, or answers null.
AllocFromPages(l) ==
  LET count == Max({(Required(l) + PageSize - 1) \div PageSize, MinPageAllocation}) IN
  /\ Cardinality(held) < MaxHeld
  /\ \A i \in DOMAIN free : free[i].size < Required(l)
  /\ UNCHANGED ready
  /\ IF ready /\ l.align > PageSize THEN reply' = "panic" /\ UNCHANGED <<free, held, taken>>
     ELSE IF ready /\ taken + count <= Pages
     THEN Place(l, taken * PageSize, count * PageSize, free) /\ taken' = taken + count
     ELSE reply' = "null" /\ UNCHANGED <<free, held, taken>>

\* is_free
IsFree(addr) == \E i \in DOMAIN free : addr \in free[i].addr .. free[i].addr + free[i].size - 1

\* dealloc of a live allocation, with its layout.
Dealloc(a) ==
  LET least == HeaderSize + a.layout.size IN
  /\ a \in held
  /\ IF a.size \notin least .. least + HeaderPaddingMax(a.layout) \/ IsFree(a.block) THEN Panic
     ELSE /\ free' = <<[addr |-> a.block, size |-> a.size]>> \o free
          /\ held' = held \ {a}
          /\ reply' = "ok"
          /\ UNCHANGED <<taken, ready>>

Next ==
  /\ reply # "panic"
  /\ \/ SetPageAllocator
     \/ \E l \in Layouts : AllocFromList(l) \/ AllocFromPages(l)
     \/ \E a \in held : Dealloc(a)

Spec == Init /\ [][Next]_vars
-----------------------------------------------------------------------------
\* The bytes that a free block's header or an allocation's header and data
\* occupy, and the rest of their block.
FreeExtent(b) == b.addr .. b.addr + Max({b.size, HeaderSize}) - 1
HeldExtent(a) == a.block .. a.ptr + a.layout.size - 1

\* Headers, data and free blocks never overlap and never leave the heap's pages,
\* whatever was split off and put back before; also when the rest of a split
\* (heap.rs:212-220) is smaller than the header that is written to it.
ExtentsDisjoint ==
  /\ \A i, j \in DOMAIN free : i # j => FreeExtent(free[i]) \cap FreeExtent(free[j]) = {}
  /\ \A a, b \in held : a # b => HeldExtent(a) \cap HeldExtent(b) = {}
  /\ \A i \in DOMAIN free : \A a \in held : FreeExtent(free[i]) \cap HeldExtent(a) = {}
  /\ \A i \in DOMAIN free : FreeExtent(free[i]) \subseteq 0 .. taken * PageSize - 1
  /\ \A a \in held : HeldExtent(a) \subseteq 0 .. taken * PageSize - 1

\* The assertions of alloc and dealloc hold (heap.rs:205, 240, 244): the padding
\* that alloc reserves is enough wherever the block starts, a header's size fits
\* the layout, and no correct dealloc is taken for a double free.
NoPanic == reply # "panic"
=============================================================================
