------------------------------ MODULE Drivers ------------------------------
(***************************************************************************)
(* What the kernel looks up in the device tree while it boots, and what    *)
(* the drivers make of the nodes they are given: the UART of init_logging, *)
(* the RAM of memory::init, list_cores, the interrupt controller, the      *)
(* timer and PSCI.  Each is a for loop over the iterators of DeviceTree.   *)
(*                                                                         *)
(* A behaviour is one look-up (two for the UART: its path is in the tree)  *)
(* in one tree.  The tree itself is a nested record,                       *)
(*    [name, props, nodes],  props a sequence of tokens,                   *)
(* and the firmware's flattened form of it is in `structure`.              *)
(***************************************************************************)
EXTENDS DeviceTree, SequencesExt

CONSTANT
  LookUps         \* pairs <<caller, tree>>

VARIABLES
  tree,           \* the tree before it was flattened
  caller,         \* who looks something up
  got,            \* the local variables of its loop that are set
  seen,           \* the properties that the iterators have returned to it
  result          \* its answer: [is, ...]; "pending" until there is one

vars == <<tree_vars, tree, caller, got, seen, result>>

\* An address in the tree for stdout, in a /chosen node that names none.
DefaultStdout == <<NoName, <<"pl011", "9000000">>>>

\* FUNC_ID_CPU_ON
DefaultCpuOn == 3

PathOf(who) ==
  CASE who = "stdout" -> <<NoName, <<"chosen", "">>, NoName>>
    [] who = "cores" -> <<NoName, <<"cpus", "">>>>
    [] who \in {"memory", "gic"} -> <<NoName, NoName>>
    [] who = "timer" -> <<NoName, <<"timer", "">>>>
    [] who = "psci" -> <<NoName, <<"psci", "">>>>

NodeName(who) ==
  CASE who = "cores" -> "cpu" [] who = "memory" -> "memory" [] who = "gic" -> "intc"
    [] OTHER -> AnyProps
-----------------------------------------------------------------------------
\* The firmware: the tokens of a tree, laid out in words.
RECURSIVE Flatten(_), FlattenAll(_)
Flatten(node) ==
  <<[type |-> "begin", name |-> node.name]>> \o node.props \o FlattenAll(node.nodes)
    \o <<[type |-> "end"]>>
FlattenAll(nodes) ==
  IF nodes = <<>> THEN <<>> ELSE Flatten(Head(nodes)) \o FlattenAll(Tail(nodes))

Words(t) ==
  CASE t.type = "begin" -> 2 + NameLength(t.name) \div 4
    [] t.type = "prop" -> 3 + (t.length + 3) \div 4
    [] OTHER -> 1

RECURSIVE Layout(_, _)
Layout(tokens, off) ==
  IF tokens = <<>> THEN <<>>
  ELSE (off :> Head(tokens)) @@ Layout(Tail(tokens), off + 4 * Words(Head(tokens)))

Init ==
  /\ \E l \in LookUps : caller = l[1] /\ tree = l[2]
  /\ structure = Layout(Append(Flatten(tree), [type |-> "stop"]), 0)
  /\ pc = "path" /\ cur = 0
  /\ segments = PathOf(caller) /\ under = NodeName(caller)
  /\ cells = [address |-> Unset, size |-> Unset]
  /\ level = 0 /\ back = "path" /\ depth = 0
  /\ props = [cur |-> 0, depth |-> 0, cells |-> cells]
  /\ item = [type |-> "nop"]
  /\ got = <<>> /\ seen = <<>> /\ result = [is |-> "pending"]
-----------------------------------------------------------------------------
\* A turn of a loop: on with these variables, or out of the function.
Keep(g) == [is |-> "pending", got |-> g]
Set(name, v) == Keep((name :> v) @@ got)
Fail == [is |-> "error"]
Panic == [is |-> "panic"]

\* StringListIter finds a string that the driver knows.
KnowsOneOf(v, known) == \E i \in DOMAIN v.data : v.data[i] \in known

\* from_device_tree of the UART.
UartTake(name, v) ==
  IF name = "reg" /\ Into("reg", v)
  THEN LET r == NextRange(v, 0) IN
       CASE r.is = "some" -> Set("base", r.address)
         [] r.is = "none" -> Keep(<<>>)
         [] OTHER -> Panic
  ELSE Keep(got)

\* Mutant: a controller with other interrupt cells is accepted.
ThreeCellsUnchecked(v) == As("bytes", v)

\* #interrupt-cells: four bytes, of which the last is 3.
ThreeCells(v) == As("bytes", v) /\ v.length = 4 /\ v.data[1] % 256 = 3

\* in_device_tree of the interrupt controller.
GicTake(name, v) ==
  LET dist == NextRange(v, 0)
      cpu == NextRange(v, 1) IN
  CASE name = "compatible" ->
         IF As("strings", v) /\ KnowsOneOf(v, {"arm,cortex-a15-gic", "arm,gic-400"})
         THEN Keep(got) ELSE Fail
    [] name = "#interrupt-cells" -> IF ThreeCells(v) THEN Keep(got) ELSE Fail
    [] name = "interrupt-controller" -> Set("marker", TRUE)
    [] name = "reg" ->
         IF ~As("reg", v) THEN Fail
         ELSE IF dist.is = "panic" \/ cpu.is = "panic" THEN Panic
         ELSE IF dist.is = "none" \/ cpu.is = "none" THEN Fail
         ELSE Keep(("dist" :> dist.address) @@ ("cpu" :> cpu.address) @@ got)
    [] OTHER -> Keep(got)

\* interrupt_in_device_tree: an id of 0 stands for None.
InterruptInDeviceTree(data, length, index) ==
  LET first == data[3 * index + 1]
      second == data[3 * index + 2]
      flags == data[3 * index + 3] % 256
      mode == IF flags \in {1, 2} THEN "edge" ELSE "level" IN
  IF (index + 1) * 12 > length \/ first \notin {0, 1} \/ flags \notin {1, 2, 4, 8}
  THEN <<0, "none">>
  ELSE <<(IF first = 0 THEN 32 ELSE 16) + second, mode>>

\* in_device_tree of the timer.
TimerTake(name, v) ==
  CASE name = "compatible" ->
         IF As("strings", v) /\ KnowsOneOf(v, {"arm,armv7-timer", "arm,armv8-timer"})
         THEN Keep(got) ELSE Fail
    [] name = "interrupts" ->
         LET int == InterruptInDeviceTree(v.data, v.length, 1) IN
         IF As("bytes", v) /\ int[1] # 0 THEN Set("int", int) ELSE Fail
    [] OTHER -> Keep(got)

\* in_device_tree of PSCI.
PsciTake(name, v) ==
  CASE name = "method" ->
         IF ~As("bytes", v) THEN Fail
         ELSE IF v.data[1] \in {"smc", "hvc"} THEN Set("method", v.data[1])
         ELSE Keep([f \in DOMAIN got \ {"method"} |-> got[f]])
    [] name = "cpu_on" -> IF As("bytes", v) THEN Set("cpu_on", v.data[1]) ELSE Fail
    [] OTHER -> Keep(got)

\* The inner loop of list_cores.
CoreTake(name, v) ==
  CASE name = "enable-method" -> IF As("bytes", v) THEN Set("method", v.data[1]) ELSE Fail
    [] name = "reg" ->
         LET id == NextRange(v, 0) IN
         IF ~As("reg", v) \/ id.is = "none" THEN Fail
         ELSE IF id.is = "panic" THEN Panic ELSE Set("id", id.address)
    [] OTHER -> Keep(got)

\* exactly_one over the ranges of the memory node's reg.
MemoryRange(v) ==
  LET r == NextRange(v, 0)
      other == NextRange(v, 1) IN
  IF ~Into("reg", v) \/ r.is = "none" THEN Fail
  ELSE IF r.is = "panic" \/ other.is = "panic" THEN Panic
  ELSE IF other.is = "some" THEN Fail
  ELSE [is |-> "ok", value |-> <<r.address, r.size>>]
-----------------------------------------------------------------------------
Answer(r) == pc' = "done" /\ result' = r

tree_rest == <<structure, level, back, depth, props, item, tree>>
iterators == <<structure, cur, level, back, segments, cells, under, depth, props, item, tree, caller>>

\* init_logging goes on with the node that stdout-path names.
StartUart(path) ==
  /\ StartSearch(path, AnyProps)
  /\ caller' = "uart" /\ got' = <<>> /\ seen' = <<>>
  /\ UNCHANGED <<tree_rest, result>>

Value == Parse(item.name, item.data, item.length, props.cells)

Take ==
  CASE caller = "uart" -> UartTake(item.name, Value)
    [] caller = "gic" -> GicTake(item.name, Value)
    [] caller = "timer" -> TimerTake(item.name, Value)
    [] caller = "psci" -> PsciTake(item.name, Value)
    [] caller = "cores" -> CoreTake(item.name, Value)
    [] caller = "memory" -> IF item.name = "reg" THEN MemoryRange(Value) ELSE Keep(got)
    [] caller = "stdout" -> Keep(got)

\* The body of the caller's loop, or its find, with the next property.
TakeProperty ==
  /\ pc = "item" /\ ~(caller = "stdout" /\ item.name = "stdout-path")
  /\ seen' = Append(seen, <<item.name, Value>>)
  /\ IF Take.is = "pending"
     THEN got' = Take.got /\ pc' = "props" /\ UNCHANGED result
     ELSE Answer(Take) /\ UNCHANGED got
  /\ UNCHANGED iterators

\* find_property has found /chosen/stdout-path.
TakeStdoutPath ==
  /\ pc = "item" /\ caller = "stdout" /\ item.name = "stdout-path"
  /\ StartUart(IF Into("bytes", Value) THEN item.data ELSE DefaultStdout)

\* The node at the caller's path is not there.
Missing ==
  /\ pc = "missing"
  /\ \/ caller = "stdout" /\ StartUart(DefaultStdout)
     \/ caller # "stdout" /\ Answer(Fail) /\ UNCHANGED <<iterators, got, seen>>

Have(name) == name \in DOMAIN got
CoresSoFar == IF Have("cores") THEN got.cores ELSE <<>>

\* What a driver is made of after its loop.
Finished ==
  CASE caller = "uart" ->
         IF Have("base") THEN [is |-> "ok", value |-> <<got.base>>] ELSE Fail
    [] caller = "gic" ->
         IF Have("marker") /\ Have("dist") /\ got.dist # 0 /\ got.cpu # 0
         THEN [is |-> "ok", value |-> <<got.dist, got.cpu>>] ELSE Fail
    [] caller = "timer" -> IF Have("int") THEN [is |-> "ok", value |-> got.int] ELSE Fail
    [] caller = "psci" ->
         IF Have("method")
         THEN [is |-> "ok", value |-> <<got.method, IF Have("cpu_on") THEN got.cpu_on ELSE DefaultCpuOn>>]
         ELSE Fail
    [] OTHER -> Fail

\* The caller's loop is over, or its find has found nothing.
EndOfProperties ==
  /\ pc = "no_more_props"
  /\ \/ caller = "stdout" /\ StartUart(DefaultStdout)
     \/ caller \notin {"stdout", "cores"} /\ Answer(Finished) /\ UNCHANGED <<iterators, got, seen>>

\* A turn of list_cores' outer loop ends with a CoreInfo or an error.
PushCore ==
  /\ pc = "no_more_props" /\ caller = "cores"
  /\ IF Have("id") /\ Have("method")
     THEN /\ got' = ("cores" :> Append(CoresSoFar, <<got.id, got.method>>))
          /\ pc' = "nodes" /\ UNCHANGED result
     ELSE Answer(Fail) /\ UNCHANGED got
  /\ UNCHANGED <<iterators, seen>>

\* The next node: exactly_one asks for another before it answers.
TakeNode ==
  /\ pc = "node"
  /\ IF caller = "memory"
     THEN IF Have("node") THEN Answer(Fail) /\ UNCHANGED got
          ELSE got' = ("node" :> TRUE) /\ pc' = "nodes" /\ UNCHANGED result
     ELSE pc' = "props" /\ UNCHANGED <<got, result>>
  /\ UNCHANGED <<iterators, seen>>

EndOfNodes ==
  /\ pc = "no_more_nodes"
  /\ CASE caller = "cores" -> Answer([is |-> "ok", value |-> CoresSoFar])
       [] caller = "memory" /\ Have("node") -> pc' = "props" /\ UNCHANGED result
       [] OTHER -> Answer(Fail)
  /\ UNCHANGED <<iterators, got, seen>>

Done == pc = "done" /\ UNCHANGED vars

Caller == TakeProperty \/ TakeStdoutPath \/ Missing \/ EndOfProperties \/ PushCore \/ TakeNode \/ EndOfNodes

Next == (TreeStep /\ UNCHANGED <<tree, caller, got, seen, result>>) \/ Caller \/ Done

\* The code runs on one core, before there are interrupts or other cores.
Spec == Init /\ [][Next]_vars /\ WF_vars(Next)
-----------------------------------------------------------------------------
\* What the tree says, from its nested form.

Own(node) == SelectSeq(node.props, LAMBDA t : t.type = "prop")
Has(node, name) == \E i \in DOMAIN Own(node) : Own(node)[i].name = name
Data(node, name) == Own(node)[CHOOSE i \in DOMAIN Own(node) : Own(node)[i].name = name].data

\* The cells that a node defines for its children: they are not inherited.
CellsOf(node) ==
  [address |-> IF Has(node, "#address-cells") THEN Data(node, "#address-cells")[1] ELSE 2,
   size |-> IF Has(node, "#size-cells") THEN Data(node, "#size-cells")[1] ELSE 1]

\* The nodes at a path below a node, each with the cells of its parent.
RECURSIVE NodesAt(_, _, _)
NodesAt(node, path, c) ==
  IF path = <<>> THEN {<<node, c>>}
  ELSE UNION {NodesAt(node.nodes[i], Tail(path), CellsOf(node)) :
                i \in {j \in DOMAIN node.nodes : node.nodes[j].name = Head(path)}}

Below(path) == NodesAt(tree, path, [address |-> 2, size |-> 1])

\* The nodes at the path that a property of the tree names for the UART.
UartNodes ==
  LET chosen == {n \in Below(<<<<"chosen", "">>>>) : Has(n[1], "stdout-path")} IN
  IF chosen = {} THEN Below(Tail(DefaultStdout))
  ELSE UNION {Below(Tail(Data(n[1], "stdout-path"))) : n \in chosen}

\* The children of a node that have a name, in their order.
ChildrenNamed(parents, name) ==
  FlattenSeq([i \in DOMAIN parents |->
    LET kids == SelectSeq(parents[i][1].nodes, LAMBDA k : k.name[1] = name) IN
    [j \in DOMAIN kids |-> <<kids[j], CellsOf(parents[i][1])>>]])

\* The nodes that the caller asks for.
Asked ==
  CASE caller = "stdout" -> SetToSeq(Below(<<<<"chosen", "">>>>))
    [] caller = "uart" -> SetToSeq(UartNodes)
    [] caller = "timer" -> SetToSeq(Below(<<<<"timer", "">>>>))
    [] caller = "psci" -> SetToSeq(Below(<<<<"psci", "">>>>))
    [] caller = "cores" -> ChildrenNamed(SetToSeq(Below(<<<<"cpus", "">>>>)), "cpu")
    [] caller = "gic" -> ChildrenNamed(<<<<tree, <<>>>>>>, "intc")
    [] caller = "memory" -> ChildrenNamed(<<<<tree, <<>>>>>>, "memory")

\* Their properties, with the values that the parents' cells give them.
AskedProperties ==
  FlattenSeq([i \in DOMAIN Asked |->
    LET own == Own(Asked[i][1]) IN
    [j \in DOMAIN own |->
      <<own[j].name, Parse(own[j].name, own[j].data, own[j].length, Asked[i][2])>>]])

\* Range number k of a reg property, counted from 0.
Cell(data, i, n) ==
  CASE n = 0 -> 0 [] n = 1 -> data[i + 1] [] n = 2 -> data[i + 1] * CellBase + data[i + 2]
Ranges(node, c) ==
  IF ~Has(node, "reg") THEN <<>>
  ELSE LET data == Data(node, "reg")
           n == c.address + c.size IN
       [k \in 1 .. Len(data) \div n |->
          <<Cell(data, (k - 1) * n, c.address), Cell(data, (k - 1) * n + c.address, c.size)>>]

\* A property is right if it is there at all.
IfThere(node, name, right) == Has(node, name) => Data(node, name) \in right

Ok(cond, value) == IF cond THEN [is |-> "ok", value |-> value] ELSE Fail

\* The answer that the nodes call for, whatever the order of their properties.
Described ==
  LET none == Asked = <<>>
      node == Asked[1][1]
      ranges == Ranges(node, Asked[1][2])
      int == SubSeq(Data(node, "interrupts"), 4, 6) IN
  CASE caller = "uart" -> Ok(~none /\ ranges # <<>>, <<ranges[1][1]>>)
    [] caller = "memory" -> Ok(Len(Asked) = 1 /\ Len(ranges) = 1, ranges[1])
    [] caller = "gic" ->
         Ok(/\ ~none /\ Has(node, "interrupt-controller")
            /\ IfThere(node, "compatible", {<<"arm,gic-400">>, <<"other", "arm,gic-400">>})
            /\ IfThere(node, "#interrupt-cells", {<<3>>})
            /\ Len(ranges) > 1 /\ ranges[1][1] # 0 /\ ranges[2][1] # 0,
            <<ranges[1][1], ranges[2][1]>>)
    [] caller = "timer" ->
         Ok(/\ ~none /\ IfThere(node, "compatible", {<<"arm,armv8-timer">>})
            /\ Has(node, "interrupts") /\ Len(Data(node, "interrupts")) > 5
            /\ int[1] \in {0, 1} /\ int[3] % 16 \in {1, 2, 4, 8},
            <<int[2] + (IF int[1] = 1 THEN 16 ELSE 32), IF int[3] % 16 \in {1, 2} THEN "edge" ELSE "level">>)
    [] caller = "psci" ->
         Ok(~none /\ Has(node, "method") /\ IfThere(node, "method", {<<"smc">>, <<"hvc">>}),
            <<Data(node, "method")[1],
              IF Has(node, "cpu_on") THEN Data(node, "cpu_on")[1] ELSE DefaultCpuOn>>)
    [] caller = "cores" ->
         Ok(/\ Below(<<<<"cpus", "">>>>) # {}
            /\ \A i \in DOMAIN Asked :
                 Has(Asked[i][1], "enable-method") /\ Ranges(Asked[i][1], Asked[i][2]) # <<>>,
            [i \in DOMAIN Asked |->
               <<Ranges(Asked[i][1], Asked[i][2])[1][1], Data(Asked[i][1], "enable-method")[1]>>])
-----------------------------------------------------------------------------
\* The iterators never lose their place among the tokens, whose lengths depend
\* on names and data (iter.rs:59-91): no look-up panics in a tree that is well
\* formed.
NoPanic == ~Panics /\ result.is # "panic"

\* A caller is given the properties of the nodes it asks for, all of these and
\* no others, in their order and with the cells of the parent, while the
\* iterators skip, clone and descend (iter.rs:186-216, 280-331).
YieldsInOrder ==
  /\ IsPrefix(seen, AskedProperties)
  /\ pc = "no_more_nodes" /\ caller = "cores" => seen = AskedProperties

\* What a driver makes of its node depends on the node's properties and not on
\* their order, on what is nested in it or on what surrounds it (gic2.rs:46,
\* timer.rs:78, psci.rs:59, uart.rs:24, cpu.rs:97, memory.rs:68-83).
ResultFromNode == pc = "done" => result = Described

\* Every look-up comes to an answer: no loop over the tokens goes on for ever.
LookUpEnds == <>(pc = "done")
=============================================================================
