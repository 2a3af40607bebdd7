----------------------------- MODULE Addresses -----------------------------
(***************************************************************************)
(* kernel_core/src/memory/mod.rs: the words that are addresses, and the    *)
(* conversions between the kinds of pointers.                              *)
(*                                                                         *)
(* A word is counted in pages.  Its low part, of Space values (48 bits in  *)
(* the code), is an address, and the rest is a tag (16 bits), the largest  *)
(* of which selects the kernel's tables.  The kernel maps all of physical  *)
(* memory there, so that a physical address with that tag is a pointer.    *)
(***************************************************************************)
EXTENDS Integers

CONSTANTS
  Fanout,         \* entries of a table, in the code 512 for pages of 4KiB
  Tags            \* number of tags

ASSUME AddressesAssumption ==
  /\ Fanout \in Nat \ {0, 1}
  /\ Tags \in Nat \ {0, 1}

\* The addresses that a word has room for below its tag.
Space == Fanout ^ 4
Words == 0 .. Tags * Space - 1

\* The tag 0xffff.
KernelTag == Tags - 1

IsInKernelSpace(w) == w \div Space = KernelTag

\* PhysicalPointer::from a raw pointer masks the tag.
PhysicalFrom(w) == w % Space

\* Mutant: the physical address itself is taken for a pointer.
PointerToUntagged(p) == p % Space

\* A raw pointer, or a VirtualPointer, from a PhysicalPointer has the kernel's
\* tag.
PointerTo(p) == KernelTag * Space + (p % Space)

\* byte_add and is_aligned_to, in pages.
ByteAdd(w, n) == w + n
IsAlignedTo(w, n) == w % n = 0
=============================================================================
