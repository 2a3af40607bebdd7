------------------------------- MODULE MCHeap -------------------------------
EXTENDS Heap

\* Sizes that leave rests around the size of a header, and the alignments of
\* ordinary Rust types.
SmallLayouts == [size : {1, 18}, align : {8}] \cup {[size |-> 8, align |-> 16], [size |-> 60, align |-> 8]}

\* Alignments above the size of a header: NoPanic fails.
WideLayouts == [size : {8, 32}, align : {8, 32}]
=============================================================================
