------------------------------ MODULE MCBuddy ------------------------------
EXTENDS Buddy, TLC

\* The memory that is added at boot, in units of memory.
OneRegion == {<<0, 6>>}
FourPages == {<<0, 4>>}

\* With PageLen = 2, a region that starts inside a page: NoPageLost fails.
Unaligned == {<<1, 8>>}

\* One thread that gives back what it may, or all of them allocating only, as
\* the kernel does at boot.
OneOrAllocating ==
  {[threads |-> {t}, frees |-> "safe"] : t \in Threads}
  \cup {[threads |-> Threads, frees |-> "none"]}
FreesAll == {[threads |-> Threads, frees |-> "all"]}

Symmetry == Permutations(Threads)
=============================================================================
