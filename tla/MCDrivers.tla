----------------------------- MODULE MCDrivers -----------------------------
(***************************************************************************)
(* Small device trees, about one device each.  The properties of the       *)
(* device's node come in every order and selection, between other nodes    *)
(* and around a child whose properties have the same names.                *)
(***************************************************************************)
EXTENDS Drivers

CONSTANT
  MaxProps        \* properties of an interrupt controller; other nodes have one less

Cells(name, data) == [type |-> "prop", name |-> name, data |-> data, length |-> 4 * Len(data)]
Text(name, data, length) == [type |-> "prop", name |-> name, data |-> data, length |-> length]
Nop == [type |-> "nop"]
Node(name, unit, own, kids) == [name |-> <<name, unit>>, props |-> own, nodes |-> kids]

\* The selections of n properties: a name once, Nop anywhere.
Selections(S, n) ==
  {s \in SeqOf(S, n) :
     \A i, j \in DOMAIN s : i # j /\ s[i] # Nop => s[j] = Nop \/ s[i].name # s[j].name}

\* What root nodes define for their children.
RootCells == {<<>>, <<Cells("#address-cells", <<1>>)>>,
              <<Cells("#size-cells", <<2>>), Nop, Cells("#address-cells", <<2>>)>>}

\* A node with a child, of which nothing is ever asked.
Other == Node("bus", "1f", <<Text("compatible", <<"x">>, 2), Cells("#address-cells", <<1>>)>>,
              <<Node("timer", "", <<Cells("reg", <<7>>)>>, <<>>)>>)

\* The device's node in its tree: before, after or without another.
Around(device, rc) ==
  {Node("", "", rc, <<device>>), Node("", "", rc, <<Other, device>>),
   Node("", "", rc, <<device, Other>>)}

\* reg with n ranges, under a root that defines these cells.
Reg(rc, n) ==
  LET root == CellsOf(Node("", "", rc, <<>>)) IN
  Cells("reg", [i \in 1 .. n * (root.address + root.size) |-> i - (IF i = 1 THEN 0 ELSE 1)])

Trees(name, unit, Choice(_), n) ==
  UNION {UNION {Around(Node(name, unit, p, kids), rc) :
                  p \in Selections(Choice(rc), n),
                  kids \in {<<>>, <<Node("child", "0", <<Reg(rc, 1)>>, <<>>)>>}} :
         rc \in RootCells}

GicProps(rc) ==
  {Text("compatible", <<"arm,gic-400">>, 12), Text("compatible", <<"other">>, 6),
   Cells("#interrupt-cells", <<3>>), Cells("#interrupt-cells", <<1>>),
   Text("interrupt-controller", <<>>, 0), Reg(rc, 1), Reg(rc, 2), Nop}

TimerProps(rc) ==
  {Text("compatible", <<"arm,armv8-timer">>, 16), Text("compatible", <<"x", "y">>, 4),
   Cells("interrupts", <<1, 13, 8, 1, 14, 3844>>), Cells("interrupts", <<1, 13, 8, 0, 2, 1>>),
   Cells("interrupts", <<1, 13, 8>>), Cells("interrupts", <<1, 13, 8, 1, 14, 3>>), Nop}

PsciProps(rc) ==
  {Text("method", <<"smc">>, 4), Text("method", <<"hvc">>, 4), Text("method", <<"other">>, 6),
   Cells("cpu_on", <<9>>), Text("compatible", <<"arm,psci">>, 9), Nop}

UartProps(rc) == {Reg(rc, 1), Reg(rc, 2), Text("reg", <<>>, 0), Text("clock-names", <<"x">>, 2), Nop}

MemoryProps(rc) == {Reg(rc, 1), Reg(rc, 2), Text("device_type", <<"memory">>, 7), Nop}

CoreProps == {Cells("reg", <<1>>), Text("enable-method", <<"psci">>, 5), Text("device_type", <<"cpu">>, 4), Nop}

\* /cpus defines the cells of its children, as the specification asks.
Cpus(kids) ==
  Node("cpus", "", <<Cells("#size-cells", <<0>>), Cells("#address-cells", <<1>>)>>, kids)
CoreLists ==
  {<<>>} \cup {<<Node("cpu", "0", p, <<>>), Other>> : p \in Selections(CoreProps, MaxProps - 1)}
    \cup {<<Node("cpu-map", "", <<>>, <<>>), Node("cpu", "0", p, <<Other>>),
            Node("cpu", "1", <<Text("enable-method", <<"spin-table">>, 11), Cells("reg", <<5>>)>>, <<>>)>> :
            p \in Selections(CoreProps, MaxProps - 1)}

\* The UART's path is in /chosen, before or after its node, or nowhere.
Stdout == <<NoName, <<"serial", "10">>>>
ChosenTrees ==
  UNION {{[t EXCEPT !.nodes = <<c>> \o @], [t EXCEPT !.nodes = @ \o <<c>>]} :
           t \in Trees("serial", "10", UartProps, MaxProps - 1) \cup Trees("pl011", "9000000", UartProps, MaxProps - 1),
           c \in {Node("chosen", "", <<>>, <<>>),
                  Node("chosen", "", <<Text("bootargs", <<"x">>, 3), Text("stdout-path", Stdout, 11)>>, <<>>)}}

\* Two memory nodes, or none.
MemoryTrees ==
  Trees("memory", "40000000", MemoryProps, MaxProps - 1)
    \cup {Node("", "", <<>>, <<Node("memory", "0", <<Reg(<<>>, 1)>>, <<>>), Other,
                               Node("memory", "9", <<Reg(<<>>, 1)>>, <<>>)>>)}

Bare == Node("", "", <<>>, <<Other>>)

MCLookUps ==
  ({"stdout", "memory", "gic", "timer", "psci", "cores"} \X {Bare})
    \cup ({"gic"} \X Trees("intc", "8000000", GicProps, MaxProps))
    \cup ({"timer"} \X Trees("timer", "", TimerProps, MaxProps - 1))
    \cup ({"psci"} \X Trees("psci", "", PsciProps, MaxProps - 1))
    \cup ({"stdout"} \X ChosenTrees)
    \cup ({"memory"} \X MemoryTrees)
    \cup ({"cores"} \X UNION {Around(Cpus(kids), rc) : kids \in CoreLists, rc \in RootCells})
=============================================================================
