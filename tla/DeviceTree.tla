----------------------------- MODULE DeviceTree -----------------------------
(***************************************************************************)
(* kernel_core/src/platform/device_tree: the structure block of a          *)
(* flattened device tree and the iterators that find nodes and properties  *)
(* in it.  One step reads one token.                                       *)
(*                                                                         *)
(* The block is a function from byte offsets to tokens: a cursor that is   *)
(* not at the start of a token reads something the model calls "unknown".  *)
(* A node's name is a pair, the part before and the part after the '@'; a  *)
(* property's data is a sequence of 32-bit cells or of strings, with its   *)
(* length in bytes.  A path is a sequence of names, as split at each '/':  *)
(* it starts with the empty name, which is that of the root.               *)
(***************************************************************************)
EXTENDS Integers, Sequences, TLC

CONSTANT
  CellBase        \* one more than the largest value of a 32-bit cell

ASSUME DeviceTreeAssumption == CellBase \in Nat /\ CellBase > 1

VARIABLES
  structure,      \* the structure block
  pc,             \* what the code is in, or what it has returned to its caller
  cur,            \* current_offset of the FlattenedTreeIter
  level,          \* skip_node: the depth below the node that is skipped,
  back,           \*   and where the call returns to
  segments,       \* the path, from the name that is looked for
  cells,          \* #address-cells and #size-cells: in a search those seen on
                  \*   the way, in a NodesNamedIter the parent's
  under,          \* node_name of a NodesNamedIter, or AnyProps
  depth,          \* depth of the NodesNamedIter
  props,          \* a NodePropertyIter: [cur, depth, cells]
  item            \* the property that next has returned

tree_vars == <<structure, pc, cur, level, back, segments, cells, under, depth, props, item>>

Unset == -1
NoName == <<"", "">>
AnyProps == ""    \* the search is for the properties of the node at the path
-----------------------------------------------------------------------------
PadEnd4(n) == n + (IF n % 4 = 0 THEN 0 ELSE 4 - (n % 4))

NameLength(name) == Len(name[1]) + (IF name[2] = "" THEN 0 ELSE 1 + Len(name[2]))

Token(off) == IF off \in DOMAIN structure THEN structure[off] ELSE [type |-> "unknown"]

\* Mutant: a name that fills its last word has its NUL in the next one.
AfterNoNul(off) ==
  LET t == Token(off) IN
  CASE t.type = "begin" -> PadEnd4(off + 4 + NameLength(t.name))
    [] t.type = "prop" -> off + 12 + PadEnd4(t.length)
    [] OTHER -> off + 4

\* current_offset after FlattenedTreeIter::next has read the token at off.
After(off) ==
  LET t == Token(off) IN
  CASE t.type = "begin" -> PadEnd4(off + 4 + NameLength(t.name) + 1)
    [] t.type = "prop" -> off + 12 + PadEnd4(t.length)
    [] OTHER -> off + 4

\* The token that the iterator's loop is at, which it handles and passes.  The
\* type "stop" is that of the token after the root, for which next is None.
Reads(label, types) == pc = label /\ Token(cur).type \in types /\ cur' = After(cur)

\* BigEndian::read_u32 of a property's data, where it is a number of cells.
WithCells(c, t) ==
  [address |-> IF t.name = "#address-cells" THEN t.data[1] ELSE c.address,
   size |-> IF t.name = "#size-cells" THEN t.data[1] ELSE c.size]

\* The defaults of the specification.
OrDefault(c) ==
  [address |-> IF c.address = Unset THEN 2 ELSE c.address,
   size |-> IF c.size = Unset THEN 1 ELSE c.size]

\* A call of iter_node_properties or, with a name, of iter_nodes_named.
StartSearch(path, name) ==
  /\ pc' = "path"
  /\ cur' = 0
  /\ segments' = path
  /\ under' = name
  /\ cells' = [address |-> Unset, size |-> Unset]
-----------------------------------------------------------------------------
\* The loop that both searches share.

\* The last name of the path, or one that is followed by an empty one.
AtLastSegment == 2 \in DOMAIN segments => segments[2] = NoName

EnterNode ==
  /\ Reads("path", {"begin"}) /\ Token(cur).name = segments[1] /\ ~AtLastSegment
  /\ segments' = Tail(segments)
  /\ UNCHANGED <<structure, pc, level, back, cells, under, depth, props, item>>

\* The node at the path: an iterator over its properties or its children.
FindNode ==
  /\ Reads("path", {"begin"}) /\ Token(cur).name = segments[1] /\ AtLastSegment
  /\ cells' = OrDefault(cells)
  /\ pc' = IF under = AnyProps THEN "props" ELSE "nodes"
  /\ IF under = AnyProps
     THEN props' = [cur |-> cur', depth |-> 1, cells |-> cells'] /\ UNCHANGED depth
     ELSE depth' = 1 /\ UNCHANGED props
  /\ UNCHANGED <<structure, level, back, segments, under, item>>

\* A node that is not on the path is skipped with its children.
PassNode ==
  /\ Reads("path", {"begin"}) /\ Token(cur).name # segments[1]
  /\ pc' = "skip" /\ level' = 1 /\ back' = "path"
  /\ UNCHANGED <<structure, segments, cells, under, depth, props, item>>

\* The end of the node whose children were searched.
LeavePath ==
  /\ Reads("path", {"end", "stop"})
  /\ pc' = "missing"
  /\ UNCHANGED <<structure, level, back, segments, cells, under, depth, props, item>>

\* Mutant: the number of cells is not remembered.
PassPropertyForgets ==
  /\ Reads("path", {"prop"})
  /\ UNCHANGED <<structure, pc, level, back, segments, cells, under, depth, props, item>>

PassProperty ==
  /\ Reads("path", {"prop"})
  /\ cells' = WithCells(cells, Token(cur))
  /\ UNCHANGED <<structure, pc, level, back, segments, under, depth, props, item>>
-----------------------------------------------------------------------------
\* skip_node
SkipNode ==
  /\ Reads("skip", {"begin", "end", "prop", "stop"})
  /\ level' = level + (CASE Token(cur).type = "begin" -> 1
                         [] Token(cur).type = "end" -> -1
                         [] OTHER -> 0)
  /\ pc' = IF level' = 0 \/ Token(cur).type = "stop" THEN back ELSE "skip"
  /\ UNCHANGED <<structure, back, segments, cells, under, depth, props, item>>
-----------------------------------------------------------------------------
\* NodesNamedIter::next

\* A child with the name, whatever its unit address: an iterator over its
\* properties from here, and the main one goes past the node before it returns.
NextNode ==
  /\ Reads("nodes", {"begin"}) /\ Token(cur).name[1] = under
  /\ props' = [cur |-> cur', depth |-> 1, cells |-> cells]
  /\ pc' = "skip" /\ level' = 1 /\ back' = "node"
  /\ UNCHANGED <<structure, segments, cells, under, depth, item>>

PassChild ==
  /\ Reads("nodes", {"begin"}) /\ Token(cur).name[1] # under
  /\ pc' = "skip" /\ level' = 1 /\ back' = "nodes"
  /\ UNCHANGED <<structure, segments, cells, under, depth, props, item>>

NoMoreNodes ==
  /\ Reads("nodes", {"end", "stop"})
  /\ depth' = depth - 1
  /\ pc' = IF depth' = 0 \/ Token(cur).type = "stop" THEN "no_more_nodes" ELSE "nodes"
  /\ UNCHANGED <<structure, level, back, segments, cells, under, props, item>>

NodesProperty ==
  /\ Reads("nodes", {"prop"})
  /\ cells' = WithCells(cells, Token(cur))
  /\ UNCHANGED <<structure, pc, level, back, segments, under, depth, props, item>>
-----------------------------------------------------------------------------
\* NodePropertyIter::next: the properties at depth 1, until the node's end.
NextProperty ==
  LET t == Token(props.cur)
      d == props.depth + (CASE t.type = "begin" -> 1 [] t.type = "end" -> -1 [] OTHER -> 0)
      yields == t.type = "prop" /\ props.depth = 1 IN
  /\ pc = "props" /\ t.type \in {"begin", "end", "prop", "stop"}
  /\ props' = [props EXCEPT !.cur = After(@), !.depth = d]
  /\ pc' = CASE yields -> "item" [] d = 0 \/ t.type = "stop" -> "no_more_props" [] OTHER -> "props"
  /\ item' = IF yields THEN t ELSE item
  /\ UNCHANGED <<structure, cur, level, back, segments, cells, under, depth>>
-----------------------------------------------------------------------------
\* Mutant: the loop goes on without a step forward.
PassNopStays ==
  /\ Token(IF pc = "props" THEN props.cur ELSE cur).type = "nop"
  /\ pc \in {"path", "skip", "nodes", "props"}
  /\ UNCHANGED tree_vars

\* Nop tokens are passed inside FlattenedTreeIter::next.
PassNop ==
  \/ /\ pc \in {"path", "skip", "nodes"} /\ Token(cur).type = "nop"
     /\ cur' = After(cur)
     /\ UNCHANGED <<structure, pc, level, back, segments, cells, under, depth, props, item>>
  \/ /\ pc = "props" /\ Token(props.cur).type = "nop"
     /\ props' = [props EXCEPT !.cur = After(@)]
     /\ UNCHANGED <<structure, pc, cur, level, back, segments, cells, under, depth, item>>

\* Offset that the running iterator reads next.
Cursor == IF pc = "props" THEN props.cur ELSE cur

\* FlattenedTreeIter::next panics: its offset is not that of a token.
Panics == pc \in {"path", "skip", "nodes", "props"} /\ Token(Cursor).type = "unknown"

TreeStep ==
  \/ EnterNode \/ FindNode \/ PassNode \/ LeavePath \/ PassProperty \/ SkipNode
  \/ NextNode \/ PassChild \/ NoMoreNodes \/ NodesProperty \/ NextProperty \/ PassNop
-----------------------------------------------------------------------------
(***************************************************************************)
(* Values                                                                  *)
(***************************************************************************)
\* Value::parse: the name alone decides the type.
Parse(name, data, length, c) ==
  CASE name = "compatible" -> [type |-> "strings", data |-> data]
    [] name \in {"model", "status", "device_type"} -> [type |-> "string", data |-> data]
    [] name = "phandle" -> [type |-> "phandle", data |-> data]
    [] name \in {"#address-cells", "#size-cells", "virtual-reg"} -> [type |-> "u32", data |-> data]
    [] name = "reg" -> [type |-> "reg", data |-> data, cells |-> c]
    [] OTHER -> [type |-> "bytes", data |-> data, length |-> length]

\* as_bytes, as_reg, ... succeed.
As(type, v) == v.type = type

\* into_bytes, into_reg, ... have a value.
Into(type, v) == v.type = type

\* The number that n cells of data after the first i make, in a usize of two
\* cells.
Number(data, i, n) ==
  LET f[k \in 0..n] == IF k = 0 THEN 0 ELSE (f[k - 1] % CellBase) * CellBase + data[i + k]
  IN f[n]

\* RegistersIter::next for the range after k others.  Data that ends within a
\* range make it panic.
NextRange(v, k) ==
  LET a == v.cells.address
      n == a + v.cells.size
      i == k * n IN
  IF i >= Len(v.data) THEN [is |-> "none"]
  ELSE IF i + n > Len(v.data) THEN [is |-> "panic"]
  ELSE [is |-> "some", address |-> Number(v.data, i, a), size |-> Number(v.data, i + a, n - a)]
=============================================================================
