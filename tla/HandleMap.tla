----------------------------- MODULE HandleMap -----------------------------
(***************************************************************************)
(* kernel_core/src/collections/handle_map.rs: the concurrent map from      *)
(* handles to reference-counted values, a radix tree of tables over a      *)
(* HandleAllocator.  The allocator is the atomic set of handles that       *)
(* HandleAllocatorProofs.tla shows it to implement.  One step is one       *)
(* access to a table entry, to a reference count or to the allocator.      *)
(***************************************************************************)
EXTENDS Naturals, FiniteSets

CONSTANTS
  Threads,        \* threads that share the map
  Values,         \* the objects that are inserted, each by one insert
  None,           \* an empty table entry
  Fanout,         \* entries per table (256)
  MaxHandle,      \* max_handle of HandleMap::new
  MaxRefs,        \* bound: references to one value that one thread keeps
  GetOthers,      \* may a thread get a handle that another inserted?
  RemoveOthers    \* may a thread remove a handle that it did not insert?

\* Positions below an entry that is d levels above the leaf entries: a handle
\* has at most four digits.
Span(d) ==
  CASE d = 0 -> 1 [] d = 1 -> Fanout [] d = 2 -> Fanout * Fanout
    [] d = 3 -> Fanout * Fanout * Fanout [] d = 4 -> Fanout * Fanout * Fanout * Fanout

ASSUME MapAssumption ==
  /\ Fanout \in Nat \ {0, 1}
  /\ MaxHandle \in Nat \ {0} /\ MaxHandle < Span(4)
  /\ MaxRefs \in Nat \ {0}
  /\ None \notin Values
  /\ {GetOthers, RemoveOthers} \subseteq BOOLEAN

\* HandleMap::depth: the number of base-Fanout digits of max_handle.
Depth == CHOOSE d \in 1 .. 4 :
           MaxHandle < Span(d) /\ (d = 1 \/ MaxHandle >= Span(d - 1))

Handles == 0 .. MaxHandle - 1
Positions == 0 .. Span(Depth) - 1

\* handle << handle_zeros_prefix_bit_length drops the digits above Depth.
Position(h) == h % Span(Depth)

\* The table that level k of the walk for handle h looks in: the root is
\* TableFor(h, 0), and the leaf table is TableFor(h, Depth - 1).
TableFor(h, k) == <<k, Position(h) \div Span(Depth - k)>>
Root == <<0, 0>>

VARIABLES
  allocated,      \* the handles taken from the allocator
  tables,         \* the tables that exist
  slot,           \* leaf entries, by position
  strong,         \* strong count of each value's Arc (0: freed or not yet made)
  made,           \* values that an insert has made
  holds,          \* history: Arcs of each value that each thread owns
  mine,           \* history: handles inserted by a thread, not yet removed by it
  bound,          \* history: value that a completed insert put under a handle
  pc, arg, level, \* per thread: place in the code, handle, level of the walk
  val,            \* per thread: the value in hand
  dangling,       \* history: has a freed Arc been used?
  dropped         \* has the map been dropped?

data == <<allocated, tables, slot, strong, made, holds, mine, bound, dangling, dropped>>
vars == <<data, pc, arg, level, val>>

Alloc == INSTANCE HandleSet WITH Callers <- Threads, call <- pc, reply <- val

Init ==
  /\ allocated = {}
  /\ tables = {Root}
  /\ slot = [p \in Positions |-> None]
  /\ strong = [v \in Values |-> 0]
  /\ made = {}
  /\ holds = [t \in Threads |-> [v \in Values |-> 0]]
  /\ mine = [t \in Threads |-> {}]
  /\ bound = [h \in Handles |-> None]
  /\ pc = [t \in Threads |-> "idle"]
  /\ arg = [t \in Threads |-> 0]
  /\ level = [t \in Threads |-> 0]
  /\ val = [t \in Threads |-> None]
  /\ dangling = FALSE
  /\ dropped = FALSE
-----------------------------------------------------------------------------
At(t, label) == pc[t] = label
Goto(t, label) == pc' = [pc EXCEPT ![t] = label]

Start(t, label, h) ==
  /\ At(t, "idle") /\ ~dropped
  /\ Goto(t, label)
  /\ arg' = [arg EXCEPT ![t] = h]
  /\ level' = [level EXCEPT ![t] = 0]
  /\ val' = [val EXCEPT ![t] = None]

Return(t) ==
  /\ Goto(t, "idle")
  /\ arg' = [arg EXCEPT ![t] = 0]
  /\ level' = [level EXCEPT ![t] = 0]
  /\ val' = [val EXCEPT ![t] = None]

\* Dropping an Arc of v that thread t owns.
DropRef(t, v) ==
  /\ strong' = [strong EXCEPT ![v] = @ - 1]
  /\ holds' = [holds EXCEPT ![t][v] = @ - 1]
-----------------------------------------------------------------------------
(* insert_self_referential                                                 *)

\* next_handle()? takes any free handle.  When it gives up, the call returns
\* None without having changed anything, which is a stuttering step.
Insert(t) ==
  /\ \E h \in Handles : Alloc!Take(h) /\ Start(t, "ins_walk", h)
  /\ UNCHANGED <<tables, slot, strong, made, holds, mine, bound, dangling, dropped>>

\* get_table at one level of the walk.
InsertWalk(t) ==
  /\ At(t, "ins_walk") /\ level[t] < Depth - 1
  /\ IF TableFor(arg[t], level[t] + 1) \in tables
     THEN level' = [level EXCEPT ![t] = @ + 1] /\ UNCHANGED pc
     ELSE Goto(t, "ins_table") /\ UNCHANGED level
  /\ UNCHANGED <<data, arg, val>>

\* Mutant: the new table is stored without comparing the entry with 0, and what
\* the winner of the race has put in its table is lost.
InsertTableOverwrites(t) ==
  /\ At(t, "ins_table")
  /\ tables' = tables \cup {TableFor(arg[t], level[t] + 1)}
  /\ slot' = [p \in Positions |->
                IF TableFor(p, level[t] + 1) = TableFor(arg[t], level[t] + 1) THEN None ELSE slot[p]]
  /\ level' = [level EXCEPT ![t] = @ + 1]
  /\ Goto(t, "ins_walk")
  /\ UNCHANGED <<allocated, strong, made, holds, mine, bound, dangling, dropped, arg, val>>

\* new_next_level_table: the loser of the race drops its own table and goes on
\* in the winner's.
InsertTable(t) ==
  /\ At(t, "ins_table")
  /\ tables' = tables \cup {TableFor(arg[t], level[t] + 1)}
  /\ level' = [level EXCEPT ![t] = @ + 1]
  /\ Goto(t, "ins_walk")
  /\ UNCHANGED <<allocated, slot, strong, made, holds, mine, bound, dangling, dropped, arg, val>>

\* The value is made, and with it the Arcs that its maker and the table own.
MakeValue(t, v, arcs) ==
  /\ v \notin made
  /\ made' = made \cup {v}
  /\ strong' = [strong EXCEPT ![v] = arcs]

\* The swap of put_value returns what was there; the assertion that it was
\* nothing panics the thread, which then owns it.
PutValue(t, v) ==
  LET old == slot[Position(arg[t])] IN
  /\ At(t, "ins_walk") /\ level[t] = Depth - 1
  /\ slot' = [slot EXCEPT ![Position(arg[t])] = v]
  /\ \/ /\ old = None
        /\ Return(t)
        /\ holds' = [holds EXCEPT ![t][v] = 1]
        /\ mine' = [mine EXCEPT ![t] = @ \cup {arg[t]}]
        /\ bound' = [bound EXCEPT ![arg[t]] = v]
     \/ /\ old # None
        /\ Goto(t, "panic")
        /\ holds' = [holds EXCEPT ![t][v] = 1, ![t][old] = @ + 1]
        /\ UNCHANGED <<arg, level, val, mine, bound>>
  /\ UNCHANGED <<allocated, tables, dangling, dropped>>

\* Mutant: the table is given the maker's own Arc instead of a clone.
InsertPutNoClone(t, v) == MakeValue(t, v, 1) /\ PutValue(t, v)

\* make_value and put_value(index, val.clone())
InsertPut(t, v) == MakeValue(t, v, 2) /\ PutValue(t, v)
-----------------------------------------------------------------------------
(* leaf_table_for_handle, get and remove                                   *)

\* Handles from max_handle up are never inserted, so they are nobody's.
MayAsk(t, h, others) == h \in mine[t] \/ h >= MaxHandle \/ others

Get(t, h) ==
  /\ MayAsk(t, h, GetOthers)
  /\ \A v \in Values : holds[t][v] < MaxRefs
  /\ Start(t, "get_walk", h)
  /\ UNCHANGED data

\* The thread gives up the handle when it calls remove.
Remove(t, h) ==
  /\ MayAsk(t, h, RemoveOthers)
  /\ Start(t, "rem_walk", h)
  /\ mine' = [u \in Threads |-> mine[u] \ {h}]
  /\ bound' = [g \in Handles |-> IF g = h THEN None ELSE bound[g]]
  /\ UNCHANGED <<allocated, tables, slot, strong, made, holds, dangling, dropped>>

\* One level of leaf_table_for_handle; a missing table ends the call with None.
Walk(t) ==
  /\ pc[t] \in {"get_walk", "rem_walk"} /\ level[t] < Depth - 1
  /\ IF TableFor(arg[t], level[t] + 1) \in tables
     THEN level' = [level EXCEPT ![t] = @ + 1] /\ UNCHANGED <<pc, arg, val>>
     ELSE Return(t)
  /\ UNCHANGED data

\* get_value: the entry is loaded here ...
GetLoad(t) ==
  /\ At(t, "get_walk") /\ level[t] = Depth - 1
  /\ LET v == slot[Position(arg[t])] IN
       IF v = None THEN Return(t)
       ELSE /\ val' = [val EXCEPT ![t] = v]
            /\ Goto(t, "get_inc")
            /\ UNCHANGED <<arg, level>>
  /\ UNCHANGED data

\* ... and its strong count is incremented here.
GetIncrement(t) ==
  /\ At(t, "get_inc")
  /\ dangling' = (dangling \/ strong[val[t]] = 0)
  /\ strong' = [strong EXCEPT ![val[t]] = @ + 1]
  /\ holds' = [holds EXCEPT ![t][val[t]] = @ + 1]
  /\ Return(t)
  /\ UNCHANGED <<allocated, tables, slot, made, mine, bound, dropped>>

\* Mutant: the entry is read and not cleared.
RemoveTakeLeaves(t) ==
  /\ At(t, "rem_walk") /\ level[t] = Depth - 1
  /\ LET v == slot[Position(arg[t])] IN
       /\ val' = [val EXCEPT ![t] = v]
       /\ IF v = None THEN UNCHANGED holds
                      ELSE holds' = [holds EXCEPT ![t][v] = @ + 1]
  /\ Goto(t, "rem_free")
  /\ UNCHANGED <<allocated, tables, slot, strong, made, mine, bound, dangling, dropped, arg, level>>

\* take_value: the table's Arc moves to the thread.
RemoveTake(t) ==
  /\ At(t, "rem_walk") /\ level[t] = Depth - 1
  /\ LET v == slot[Position(arg[t])] IN
       /\ slot' = [slot EXCEPT ![Position(arg[t])] = None]
       /\ val' = [val EXCEPT ![t] = v]
       /\ IF v = None THEN UNCHANGED holds
                      ELSE holds' = [holds EXCEPT ![t][v] = @ + 1]
  /\ Goto(t, "rem_free")
  /\ UNCHANGED <<allocated, tables, strong, made, mine, bound, dangling, dropped, arg, level>>

\* Mutant: remove forgets to give the handle back.
RemoveFreeForgets(t) ==
  /\ At(t, "rem_free")
  /\ Return(t)
  /\ UNCHANGED data

\* free_handle(handle).ok()?: an error drops the value that was taken.
RemoveFree(t) ==
  /\ At(t, "rem_free")
  /\ IF arg[t] \in allocated
     THEN Alloc!Release(arg[t]) /\ UNCHANGED <<strong, holds>>
     ELSE /\ IF val[t] = None THEN UNCHANGED <<strong, holds>> ELSE DropRef(t, val[t])
          /\ UNCHANGED allocated
  /\ Return(t)
  /\ UNCHANGED <<tables, slot, made, mine, bound, dangling, dropped>>
-----------------------------------------------------------------------------
\* A thread drops an Arc that it owns.
DropArc(t, v) ==
  /\ At(t, "idle") /\ holds[t][v] > 0
  /\ DropRef(t, v)
  /\ UNCHANGED <<allocated, tables, slot, made, mine, bound, dangling, dropped, pc, arg, level, val>>

\* Mutant: the tables are freed and the values in them are not dropped.
DropMapForgets ==
  /\ ~dropped /\ \A t \in Threads : At(t, "idle")
  /\ dropped' = TRUE
  /\ slot' = [p \in Positions |-> None]
  /\ tables' = {}
  /\ bound' = [h \in Handles |-> None]
  /\ mine' = [t \in Threads |-> {}]
  /\ UNCHANGED <<allocated, strong, made, holds, dangling, pc, arg, level, val>>

\* The entries that own an Arc of a value.
ArcsStored(s, v) == {p \in Positions : s[p] = v}

\* Drop for HandleMap: drop_children takes every entry and drops its Arc; the
\* exclusive reference means that no call is in progress.
DropMap ==
  /\ ~dropped /\ \A t \in Threads : At(t, "idle")
  /\ dropped' = TRUE
  /\ slot' = [p \in Positions |-> None]
  /\ tables' = {}
  /\ strong' = [v \in Values |-> strong[v] - Cardinality(ArcsStored(slot, v))]
  /\ bound' = [h \in Handles |-> None]
  /\ mine' = [t \in Threads |-> {}]
  /\ UNCHANGED <<allocated, made, holds, dangling, pc, arg, level, val>>

Next ==
  \/ \E t \in Threads :
       \/ Insert(t) \/ InsertWalk(t) \/ InsertTable(t) \/ \E v \in Values : InsertPut(t, v)
       \/ \E h \in Positions : Get(t, h) \/ Remove(t, h)
       \/ Walk(t) \/ GetLoad(t) \/ GetIncrement(t) \/ RemoveTake(t) \/ RemoveFree(t)
       \/ \E v \in Values : DropArc(t, v)
  \/ DropMap

Spec == Init /\ [][Next]_vars
-----------------------------------------------------------------------------
\* Entries hold values, counts are numbers, and a walk stays within the tables.
TypeOK ==
  /\ allocated \subseteq Handles
  /\ tables \subseteq {TableFor(p, k) : p \in Positions, k \in 0 .. Depth - 1}
  /\ slot \in [Positions -> Values \cup {None}]
  /\ strong \in [Values -> Nat]
  /\ made \subseteq Values
  /\ holds \in [Threads -> [Values -> Nat]]
  /\ mine \in [Threads -> SUBSET Handles]
  /\ bound \in [Handles -> Values \cup {None}]
  /\ pc \in [Threads -> {"idle", "ins_walk", "ins_table", "get_walk", "get_inc",
                         "rem_walk", "rem_free", "panic"}]
  /\ arg \in [Threads -> Positions]
  /\ level \in [Threads -> 0 .. Depth - 1]
  /\ val \in [Threads -> Values \cup {None}]
  /\ dangling \in BOOLEAN /\ dropped \in BOOLEAN

\* "Because the allocator always returns a previously free handle, there should
\* be nothing at this table position" (handle_map.rs:216): the assertion in
\* insert_self_referential holds.
NothingAtFreshHandle == \A t \in Threads : pc[t] # "panic"

\* What a completed insert put under a handle stays reachable from the root
\* until remove is called for that handle, whatever tables the other threads
\* create and whatever handles they insert and remove meanwhile.
InsertedIsFound ==
  \A h \in Handles : bound[h] # None =>
    /\ h \in allocated
    /\ \A k \in 0 .. Depth - 1 : TableFor(h, k) \in tables
    /\ slot[Position(h)] = bound[h]

\* The Arcs of a value that threads own.
ArcsHeld(h, v) == UNION {{t} \X (1 .. h[t][v]) : t \in Threads}

\* The strong count of a value is the number of Arcs that threads and tables
\* own: get, insert, remove and the drop of the map neither lose one nor drop
\* one twice.
CountsAreExact ==
  \A v \in Values :
    strong[v] = Cardinality(ArcsHeld(holds, v)) + Cardinality(ArcsStored(slot, v))

\* get_value never increments the count of an Arc that has been freed between
\* the load of the entry and the increment.
NoUseAfterFree == ~dangling

\* The allocator's set is made of the handles of completed inserts and those of
\* inserts and removes in progress: no handle leaks.
HandlesAccounted ==
  ~dropped =>
    allocated = {h \in Handles : bound[h] # None}
                \cup {arg[t] : t \in {u \in Threads :
                       pc[u] \in {"ins_walk", "ins_table", "rem_walk", "rem_free"} /\ arg[u] < MaxHandle}}
=============================================================================
