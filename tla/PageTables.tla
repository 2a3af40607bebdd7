----------------------------- MODULE PageTables -----------------------------
(***************************************************************************)
(* kernel_core/src/memory/page_table.rs: the four-level translation tables *)
(* of an address space, with pages, small blocks and large blocks.         *)
(*                                                                         *)
(* Addresses are the words of module Addresses.  A call walks the tables   *)
(* depth first, as Walker::step does; its frames of recursion are the      *)
(* sequence `stack`.  One step handles one entry of an inner table, or all *)
(* those of a leaf table.                                                  *)
(***************************************************************************)
EXTENDS Addresses, FiniteSetsExt, SequencesExt

CONSTANTS
  Frames,         \* the pages for tables: the allocator's, and two of the image
  BootBlocks,     \* blocks that start.S maps, in the code 4
  PhysicalStarts, \* physical pages that are mapped from
  MaxCount,       \* bound: blocks per call
  MaxCalls,       \* bound: calls of map and unmap
  MayCross        \* may a region cross an entry two levels above its blocks?

ASSUME PageTablesAssumption ==
  /\ Frames \subseteq 0 .. Space - 1 /\ \E f, g \in Frames : f # g
  /\ BootBlocks \in 0 .. Fanout /\ PhysicalStarts \subseteq 0 .. Space - 1
  /\ MaxCount \in Nat \ {0} /\ MaxCalls \in Nat
  /\ MayCross \in BOOLEAN

Levels == 0 .. 3
Indices == 0 .. Fanout - 1
None == -1

\* MapBlockSize, as the level whose entries map blocks of the size.
Page == 3
SmallBlock == 2
LargeBlock == 1
Sizes == {Page, SmallBlock, LargeBlock}

\* pages_per_entry; for end levels also length_in_pages.
PagesPerEntry(level) == Fanout ^ (3 - level)

\* index_for_level takes bits of the word, without those of the tag.
IndexForLevel(w, level) == (w \div PagesPerEntry(level)) % Fanout

\* Entry: the low two bits and the address.  A page has the bits of a table
\* and is told apart by its level.
Empty == [bits |-> 0, addr |-> 0]
ForTable(frame) == [bits |-> 3, addr |-> frame]
ForLeaf(size, p) == [bits |-> IF size = Page THEN 3 ELSE 1, addr |-> p]

Decode(level, e) ==
  IF e.bits = 0 THEN "empty"
  ELSE IF e.bits = 3 /\ level < 3 THEN "table"
  ELSE "leaf"

VARIABLES
  tables,         \* the allocated tables: frame -> index -> entry
  root,           \* pointer to the root table, None once dropped
  high_tag,       \* are these the kernel's tables?
  call,           \* the arguments of the call in progress
  stack,          \* its frames of recursion, the current one last
  reply,          \* outcome of the last call
  calls,          \* number of calls so far
  view            \* history: the translation that the completed calls promise

vars == <<tables, root, high_tag, call, stack, reply, calls, view>>

NoCall == [op |-> "none", start |-> 0, from |-> 0, count |-> 0, size |-> Page]

NewTable == [i \in Indices |-> Empty]

\* The tables of start.S: the first entry of the root leads to a table with an
\* identity map.
BootTables ==
  LET kernel_root == Min(Frames)
      level1 == Min(Frames \ {kernel_root}) IN
  [f \in {kernel_root, level1} |->
     IF f = kernel_root THEN [NewTable EXCEPT ![0] = ForTable(level1)]
     ELSE [i \in Indices |->
             IF i < BootBlocks THEN ForLeaf(LargeBlock, i * PagesPerEntry(LargeBlock)) ELSE Empty]]

-----------------------------------------------------------------------------
\* The table behind a pointer.
At(pointer) == tables[PhysicalFrom(pointer)]

\* The entry that a walk for word v from a table at a level ends with.
RECURSIVE LastEntry(_, _, _)
LastEntry(v, level, t) ==
  LET e == At(t)[IndexForLevel(v, level)] IN
  IF Decode(level, e) = "table" THEN LastEntry(v, level + 1, PointerTo(e.addr))
  ELSE [level |-> level, entry |-> e]

\* physical_address_of
PhysicalAddressOf(v) ==
  IF IsInKernelSpace(v) # high_tag THEN None
  ELSE LET last == LastEntry(v, 0, root) IN
       IF Decode(last.level, last.entry) = "empty" THEN None
       ELSE ByteAdd(last.entry.addr, v % PagesPerEntry(last.level))

\* PageTables::empty, or from_existing for the kernel's tables.
Init ==
  /\ root = PointerTo(Min(Frames))
  /\ high_tag \in BOOLEAN
  /\ tables = IF high_tag THEN BootTables ELSE [f \in {Min(Frames)} |-> NewTable]
  /\ call = NoCall
  /\ stack = <<>>
  /\ reply = "none"
  /\ calls = 0
  /\ view = [v \in Words |-> PhysicalAddressOf(v)]
-----------------------------------------------------------------------------
Region(c) == c.start .. c.start + c.count * PagesPerEntry(c.size) - 1

\* What a call asks for word v of its region.
Target(c, v) == IF c.op = "map" THEN c.from + (v - c.start) ELSE None

Return(r) ==
  /\ reply' = r
  /\ call' = NoCall
  /\ stack' = <<>>

\* An error leaves the region partly done; the promise is what there is then.
Fail(r) ==
  /\ Return(r)
  /\ view' = [v \in Words |-> PhysicalAddressOf(v)]
  /\ UNCHANGED <<tables, root, high_tag, calls>>
-----------------------------------------------------------------------------
\* The regions that callers ask for: inside the address space, without tables
\* where a block goes (the code would overwrite their entries and never free
\* them) and, unless MayCross, inside one entry two levels above their blocks.
Admissible(c) ==
  LET span == Fanout ^ (5 - c.size)
      last == c.start + c.count * PagesPerEntry(c.size) - 1 IN
  /\ c.count > 0 => last \div Space = c.start \div Space
  /\ MayCross \/ c.start \div span = last \div span
  /\ c.size = Page \/ \A v \in c.start .. last : LastEntry(v, 0, root).level <= c.size

\* A frame of recursion of Walker::step.
Frame(level, table, start, from, count) ==
  [table |-> table, start |-> start, from |-> from, count |-> count,
   index |-> IndexForLevel(start, level), done |-> 0]

\* map and unmap, with the checks of for_each_entry_of_size.
Call(c) ==
  LET block == PagesPerEntry(c.size) IN
  /\ calls' = calls + 1
  /\ IF IsInKernelSpace(c.start) # high_tag THEN Return("invalid_tag")
     ELSE IF c.count = 0 THEN Return("invalid_count")
     ELSE IF IsAlignedTo(c.start, block) /\ IsAlignedTo(c.from, block)
     THEN /\ call' = c
          /\ stack' = <<Frame(0, root, c.start, c.from, c.count)>>
          /\ UNCHANGED reply
     ELSE Return("invalid_alignment")
  /\ UNCHANGED <<tables, root, high_tag, view>>

Top == Last(stack)
Level == Len(stack) - 1
Inner == stack # <<>> /\ Level < call.size /\ Top.done < Top.count /\ reply # "panic"
Leaf == stack # <<>> /\ Level = call.size /\ reply # "panic"

\* An assertion of Walker::step fails.
Panic == reply' = "panic" /\ UNCHANGED <<tables, root, high_tag, call, stack, calls, view>>

\* Mutant: the start inside the next table is forgotten.
BlocksInNextFromZero ==
  Min({Top.count - Top.done, PagesPerEntry(Level) \div PagesPerEntry(call.size)})

\* The blocks of the current frame that the next table takes.  The code takes
\* the start's index at the next level for a number of blocks.
BlocksInNext ==
  LET start == ByteAdd(Top.start, Top.done * PagesPerEntry(call.size)) IN
  Min({Top.count - Top.done,
       PagesPerEntry(Level) \div PagesPerEntry(call.size) - IndexForLevel(start, Level + 1)})

\* The recursive call of step for the table of an entry.
Descend(table) ==
  LET n == BlocksInNext
      offset == Top.done * PagesPerEntry(call.size) IN
  /\ stack' = Append(ReplaceAt(stack, Len(stack), [Top EXCEPT !.index = @ + 1, !.done = @ + n]),
                     Frame(Level + 1, table, ByteAdd(Top.start, offset), ByteAdd(Top.from, offset), n))
  /\ UNCHANGED <<root, high_tag, call, reply, calls, view>>

\* The page allocator's free pages.
FreeFrames == Frames \ DOMAIN tables

\* step at an inner level: next_table_for_entry, then the step into the table.
StepInner ==
  LET e == At(Top.table)[Top.index] IN
  /\ Inner
  /\ IF Top.index = Fanout THEN Panic
     ELSE \/ /\ Decode(Level, e) = "table"
             /\ Descend(PointerTo(e.addr))
             /\ UNCHANGED tables
          \/ /\ Decode(Level, e) = "empty" /\ call.op = "map" /\ FreeFrames # {}
             /\ LET f == Min(FreeFrames) IN
                  /\ tables' = [g \in DOMAIN tables \cup {f} |->
                       IF g = f THEN NewTable
                       ELSE IF g = PhysicalFrom(Top.table) THEN [tables[g] EXCEPT ![Top.index] = ForTable(f)]
                       ELSE tables[g]]
                  /\ Descend(PointerTo(f))
          \/ /\ Decode(Level, e) = "empty" /\ call.op = "map" /\ FreeFrames = {}
             /\ Fail("allocator")
          \/ /\ Decode(Level, e) = "empty" /\ call.op = "unmap"
             /\ Fail("not_mapped")
          \/ /\ Decode(Level, e) = "leaf"
             /\ Fail("already_mapped")

\* Mutant: the last block of a table is left out.
StepLeafShort ==
  /\ Leaf
  /\ tables' = [tables EXCEPT ![PhysicalFrom(Top.table)] = [i \in Indices |->
       IF i \in Top.index .. Top.index + Top.count - 2
       THEN IF call.op = "map"
            THEN ForLeaf(call.size, Top.from + (i - Top.index) * PagesPerEntry(call.size))
            ELSE Empty
       ELSE @[i]]]
  /\ stack' = Front(stack)
  /\ UNCHANGED <<root, high_tag, call, reply, calls, view>>

\* step at the level of the blocks: the closure of map or unmap writes each
\* entry, whatever it held.
StepLeaf ==
  /\ Leaf
  /\ IF Top.index + Top.count > Fanout THEN Panic
     ELSE /\ tables' = [tables EXCEPT ![PhysicalFrom(Top.table)] = [i \in Indices |->
               IF i \in Top.index .. Top.index + Top.count - 1
               THEN IF call.op = "map"
                    THEN ForLeaf(call.size, Top.from + (i - Top.index) * PagesPerEntry(call.size))
                    ELSE Empty
               ELSE @[i]]]
          /\ stack' = Front(stack)
          /\ UNCHANGED <<root, high_tag, call, reply, calls, view>>

\* An inner level has handed out all of its blocks: its step returns Ok, and
\* the step of the root ends the call.
StepReturn ==
  /\ stack # <<>> /\ Level < call.size /\ Top.done = Top.count
  /\ IF Level > 0 THEN stack' = Front(stack) /\ UNCHANGED <<reply, call, view>>
     ELSE /\ Return("ok")
          /\ view' = [v \in Words |-> IF v \in Region(call) THEN Target(call, v) ELSE view[v]]
  /\ UNCHANGED <<tables, root, high_tag, calls>>
-----------------------------------------------------------------------------
\* The tables below those of a set at one level.
Below(level, S) ==
  {tables[f][i].addr : <<f, i>> \in {x \in S \X Indices : Decode(level, tables[x[1]][x[2]]) = "table"}}

\* The sets of tables that drop_table finds, from the root down.
TablesByLevel ==
  LET t0 == {PhysicalFrom(root)}
      t1 == Below(0, t0)
      t2 == Below(1, t1)
  IN <<t0, t1, t2, Below(2, t2)>>

\* Mutant: only the root table is freed.
DropRoot ==
  /\ root # None /\ ~high_tag /\ call = NoCall
  /\ tables' = [f \in DOMAIN tables \ {PhysicalFrom(root)} |-> tables[f]]
  /\ root' = None
  /\ view' = [v \in Words |-> None]
  /\ UNCHANGED <<high_tag, call, stack, reply, calls>>

\* Drop: drop_table frees the tables it finds from the root.  The kernel's are a
\* static and never dropped.
Drop ==
  /\ root # None /\ ~high_tag /\ call = NoCall
  /\ LET found == UNION Range(TablesByLevel) IN
       tables' = [f \in DOMAIN tables \ found |-> tables[f]]
  /\ root' = None
  /\ view' = [v \in Words |-> None]
  /\ UNCHANGED <<high_tag, call, stack, reply, calls>>

Requests ==
  [op : {"map"}, start : Words, from : PhysicalStarts, count : 0 .. MaxCount, size : Sizes]
  \cup [op : {"unmap"}, start : Words, from : {0}, count : 0 .. MaxCount, size : Sizes]

Next ==
  \/ /\ root # None /\ call = NoCall /\ calls < MaxCalls
     /\ \E c \in Requests : Admissible(c) /\ Call(c)
  \/ StepInner \/ StepLeaf \/ StepReturn \/ Drop

Spec == Init /\ [][Next]_vars
-----------------------------------------------------------------------------
\* Tables hold entries, the recursion is as deep as the levels, and it goes by
\* the kernel's pointers to allocated tables, whichever space the tables are for.
TypeOK ==
  /\ DOMAIN tables \subseteq Frames
  /\ \A f \in DOMAIN tables : \A i \in Indices :
       tables[f][i].bits \in {0, 1, 3} /\ tables[f][i].addr \in 0 .. Space - 1
  /\ root \in {PointerTo(f) : f \in DOMAIN tables} \cup {None}
  /\ Len(stack) <= call.size + 1
  /\ \A k \in 1 .. Len(stack) :
       /\ PhysicalFrom(stack[k].table) \in DOMAIN tables /\ IsInKernelSpace(stack[k].table)
       /\ stack[k].done \in 0 .. stack[k].count

\* While a call runs, and when it has ended in an error, each page of its region
\* is translated as before the call or as the call asks ("the region may be
\* partially mapped", page_table.rs:549), and every other page as before.  A
\* call that answers Ok has done its whole region, over all the tables it spans.
OldOrNew ==
  root # None =>
    \A v \in Words :
      \/ PhysicalAddressOf(v) = view[v]
      \/ call # NoCall /\ v \in Region(call) /\ PhysicalAddressOf(v) = Target(call, v)

\* The entries <<level, table, index>> that lead to a table, from the root.
TableEntries ==
  LET found == TablesByLevel IN
  {x \in (0 .. 2) \X (DOMAIN tables) \X Indices :
     x[2] \in found[x[1] + 1] /\ Decode(x[1], tables[x[2]][x[3]]) = "table"}

\* Every table that was allocated hangs from exactly one entry, so that drop
\* frees it and frees it once.
TablesFormATree ==
  IF root = None THEN DOMAIN tables = {}
  ELSE LET entries == TableEntries IN
       \A f \in DOMAIN tables \ {PhysicalFrom(root)} :
         Cardinality({x \in entries : tables[x[2]][x[3]].addr = f}) = 1

\* The assertions of Walker::step hold (page_table.rs:381, 408): the blocks that
\* are handed down to a table fit in it.
NoPanic == reply # "panic"
=============================================================================
