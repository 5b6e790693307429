------------------------------ MODULE Compiler ------------------------------
(***************************************************************************)
(* validate_process and compile_process (src/src/bpg/compiler/validator.py, *)
(* ir.py, normalize.py) as operators on process definitions: what a        *)
(* definition must satisfy, how module instances are replaced by their     *)
(* contents, and the order Kahn's algorithm gives the nodes.               *)
(*                                                                         *)
(* A definition is a record                                                *)
(*   trigger, edges (a sequence), inst: name -> [type, config, onTimeout], *)
(*   types:     type name -> field -> is it required,                      *)
(*   nodeTypes: name -> [version, provider, in, out, schema],              *)
(*   modules:   name -> [version, inputs, inst, edges, outputs],           *)
(*   policy:    the node names that the policy's rules mention;            *)
(* its nodes are the domain of inst.  An edge has the fields source,       *)
(* target, when, fields (the input fields its mapping sets), uses (the     *)
(* nodes the mapping reads) and settings (timeout and on_failure, opaque). *)
(* Field types, payloads and the grammar of when expressions are data.     *)
(***************************************************************************)
EXTENDS Naturals, FiniteSets, SequencesExt

CONSTANTS
    Alphabet,       \* every node name, a sequence in the order strings sort
    HumanProviders  \* slack.interactive and dashboard.form

Input == "__input__"                \* the source of a module's own inputs
Passthrough == "core.passthrough"
Marks == {"____in__", "____out__"}  \* for the passthrough nodes around a module instance

\* No node has the reserved name or is called as a mark, which nothing refuses: there, and
\* where one is called as another one's flat name, the models do not speak of the code.
Name == Range(Alphabet)
ASSUME AlphabetAssumption ==
    /\ Alphabet \in Seq(Name)
    /\ \A i, j \in DOMAIN Alphabet : Alphabet[i] = Alphabet[j] => i = j
    /\ Name \cap ({Input} \cup Marks) = {}

\* The elements of the sequence s that are in S.
Select(s, S) ==
    LET taken[i \in 0..Len(s)] ==
            IF i = 0 THEN << >>
            ELSE IF s[i] \in S THEN Append(taken[i - 1], s[i]) ELSE taken[i - 1]
    IN taken[Len(s)]
InOrder(S) == Select(Alphabet, S)

\* What parsing gives: a mapping or a list for every section, of finitely many names.
HasGraph(g) ==
    /\ {"inst", "edges"} \subseteq DOMAIN g
    /\ DOMAIN g.inst \subseteq Name
    /\ g.edges \in Seq(Range(g.edges))
    /\ \A e \in Range(g.edges) :
          {"source", "target", "when", "fields", "uses", "settings"} \subseteq DOMAIN e
WellFormed(d) ==
    /\ {"inst", "edges", "modules", "nodeTypes", "types", "trigger", "policy"} \subseteq DOMAIN d
    /\ HasGraph(d)
    /\ IsFiniteSet(DOMAIN d.modules)
    /\ \A m \in DOMAIN d.modules :
          HasGraph(d.modules[m]) /\ d.modules[m].outputs \in Seq(Range(d.modules[m].outputs))

(***************************************************************************)
(* Validation.                                                             *)
(***************************************************************************)
\* No set of vertices in which each one has a successor: no cycle, and no path that
\* returns to itself.
Acyclic(V, R) == \A S \in SUBSET V :
                     S # {} => \E u \in S : \A v \in S : <<u, v>> \notin R

IsModule(d, type) == type \in DOMAIN d.modules \ DOMAIN d.nodeTypes

\* The fields of the type that instances of a node type or module take as input; a
\* primitive type has none.
Accepted(d, type) ==
    IF IsModule(d, type) THEN d.modules[type].inputs
    ELSE LET in == d.nodeTypes[type].in
         IN IF in \in DOMAIN d.types THEN d.types[in] ELSE << >>
Required(fields) == {f \in DOMAIN fields : fields[f]}

IsHuman(d, type) == ~IsModule(d, type) /\ d.nodeTypes[type].provider \in HumanProviders

\* A graph g, the process itself or the inside of a module, whose trigger is Input.
ValidGraph(d, g, trigger) ==
    LET names == DOMAIN g.inst
        sources == names \cup (IF trigger = Input THEN {Input} ELSE {})
        Edges == Range(g.edges)
        Into(n) == {e \in Edges : e.target = n}
    IN  /\ trigger \in sources
        /\ \A n \in names : g.inst[n].type \in DOMAIN d.nodeTypes \cup DOMAIN d.modules
        /\ \A e \in Edges : e.source \in sources /\ e.target \in names
        /\ Into(trigger) = {}
        /\ Acyclic(names, {<<e.source, e.target>> : e \in Edges})
        /\ \A e \in Edges :
              LET accepted == Accepted(d, g.inst[e.target].type)
              IN  /\ e.uses \subseteq sources
                  /\ accepted # << >> => e.fields \subseteq DOMAIN accepted
        /\ \A n \in names : Into(n) # {} =>
              Required(Accepted(d, g.inst[n].type)) \subseteq UNION {e.fields : e \in Into(n)}
        /\ \A n \in names \ {trigger} : IsHuman(d, g.inst[n].type) =>
              "timeout" \in DOMAIN g.inst[n].config /\ g.inst[n].onTimeout

\* The modules a module instantiates come first, so that no module contains itself.
ValidModules(d) ==
    /\ Acyclic(DOMAIN d.modules,
               {e \in (DOMAIN d.modules) \X (DOMAIN d.modules) :
                    \E n \in DOMAIN d.modules[e[1]].inst : d.modules[e[1]].inst[n].type = e[2]})
    /\ \A m \in DOMAIN d.modules :
          /\ ValidGraph(d, d.modules[m], Input)
          /\ \A i \in DOMAIN d.modules[m].outputs :
                d.modules[m].outputs[i] \in DOMAIN d.modules[m].inst \cup {Input}

\* Instances of node types at the top level: every field is known, none is missing.
ValidConfigs(d) ==
    \A n \in DOMAIN d.inst : ~IsModule(d, d.inst[n].type) =>
        LET schema == d.nodeTypes[d.inst[n].type].schema
            config == d.inst[n].config
        IN DOMAIN config \subseteq DOMAIN schema /\ Required(schema) \subseteq DOMAIN config

Valid(d) ==
    /\ DOMAIN d.types # {}
    /\ ValidModules(d)
    /\ ValidGraph(d, d, d.trigger)
    /\ ValidConfigs(d)
    /\ d.policy \subseteq DOMAIN d.inst

(***************************************************************************)
(* Flattening.  A node of the flat graph is a path: <<n>> for a node of    *)
(* the process, <<m, n>> for the node n of the module instance m, and so   *)
(* on; Entrance(p) and Exit(p) stand for the passthrough nodes around a    *)
(* module instance.                                                        *)
(***************************************************************************)
Entrance(p) == Append(p, "____in__")
Exit(p) == Append(p, "____out__")
Pass(m, side) == [type |-> Passthrough, io |-> <<m, side>>]

Top(d) ==
    [nodes |-> [i \in DOMAIN InOrder(DOMAIN d.inst) |-> <<InOrder(DOMAIN d.inst)[i]>>],
     inst |-> [p \in {<<n>> : n \in DOMAIN d.inst} |-> d.inst[p[1]]],
     edges |-> [i \in DOMAIN d.edges |->
                  [d.edges[i] EXCEPT !.source = <<@>>, !.target = <<@>>,
                                     !.uses = {<<n>> : n \in @}]]]

\* The module instances of a graph.  Where a node type has the name of a module it comes
\* first at the top level, and the module does inside of a module.
Nested(d, type) == type \in DOMAIN d.modules
IsInstance(d, g, p) ==
    /\ Last(p) \notin Marks
    /\ IF Len(p) = 1 THEN IsModule(d, g.inst[p].type) ELSE Nested(d, g.inst[p].type)

\* What a name in module m, instantiated at p, is called when something reads it.
Local(d, m, p, n) ==
    IF n = Input THEN Entrance(p)
    ELSE IF Nested(d, m.inst[n].type) THEN Exit(Append(p, n)) ELSE Append(p, n)

\* The edges of module m instantiated at p: its own, and one for every output.
Inner(d, m, p) ==
    [i \in DOMAIN m.edges |->
        LET e == m.edges[i]
            target == Append(p, e.target)
        IN [e EXCEPT !.source = Local(d, m, p, @), !.uses = {Local(d, m, p, n) : n \in @},
                     !.target = IF Nested(d, m.inst[@].type) THEN Entrance(target)
                                ELSE target]]
    \o [i \in DOMAIN m.outputs |->
           [source |-> Local(d, m, p, m.outputs[i]), target |-> Exit(p), when |-> "",
            fields |-> {}, uses |-> {Local(d, m, p, m.outputs[i])}, settings |-> ""]]

\* Where what comes out of p comes from.
Outlet(Inst, p) == IF p \in Inst THEN Exit(p) ELSE p

\* The mapping of an edge between nodes of the process: one into a module instance
\* keeps the names it reads.
\* Mutant: every mapping keeps the names it reads.
Reads_Kept(Inst, e) == e.uses
Reads(Inst, e) ==
    IF e.target \in Inst THEN e.uses ELSE {Outlet(Inst, p) : p \in e.uses}

\* The module instances of g, a graph as Top gives.
Instances(d, g) == {p \in Range(g.nodes) : IsInstance(d, g, p)}
ModuleAt(d, g, p) == d.modules[g.inst[p].type]

\* What takes the place of node p, in this order, and the instance of a node q of it.
Parts(d, g, p) ==
    LET names == InOrder(DOMAIN ModuleAt(d, g, p).inst)
    IN IF p \notin Instances(d, g) THEN <<p>>
       ELSE <<Entrance(p), Exit(p)>> \o [i \in DOMAIN names |-> Append(p, names[i])]
Made(d, g, q) ==
    LET p == Front(q)
    IN IF q = Entrance(p) THEN Pass(g.inst[p].type, "in")
       ELSE IF q = Exit(p) THEN Pass(g.inst[p].type, "out")
       ELSE ModuleAt(d, g, p).inst[Last(q)]

\* An edge of g: it leaves the exit of an instance and enters the entrance.
Outer(Inst, e) ==
    [e EXCEPT !.source = Outlet(Inst, @), !.uses = Reads(Inst, e),
              !.target = IF @ \in Inst THEN Entrance(@) ELSE @]

\* The module instances of g replaced by their contents.  One round replaces those of a
\* level, in place: the order of the nodes, and of the edges that leave any one node, is
\* the order of the recursion in the code.
Expand(d, g) ==
    LET Inst == Instances(d, g)
        nodes == FlattenSeq([i \in DOMAIN g.nodes |-> Parts(d, g, g.nodes[i])])
    IN  [nodes |-> nodes,
         inst |-> [q \in Range(nodes) |->
                     IF q \in DOMAIN g.inst THEN g.inst[q] ELSE Made(d, g, q)],
         edges |-> FlattenSeq([i \in DOMAIN g.nodes |->
                        IF g.nodes[i] \in Inst
                        THEN Inner(d, ModuleAt(d, g, g.nodes[i]), g.nodes[i]) ELSE << >>])
                   \o [i \in DOMAIN g.edges |-> Outer(Inst, g.edges[i])]]

Flat(d) ==
    LET depth == Cardinality(DOMAIN d.modules)
        round[k \in 0..depth] == IF k = 0 THEN Top(d) ELSE Expand(d, round[k - 1])
    IN round[depth]

(***************************************************************************)
(* Kahn's algorithm: roots in declaration order, then each node when the   *)
(* last of its incoming edges has been counted.                            *)
(***************************************************************************)
\* The targets of edges, in order, whose every incoming edge is counted once u is done:
\* each at its last occurrence.
\* Mutant: a node is freed by its first incoming edge.
Freed_First(g, done, u) ==
    LET out == Select(g.edges, {e \in Range(g.edges) : e.source = u})
        first == Select([i \in DOMAIN out |-> i], {i \in DOMAIN out :
                    /\ \A j \in 1..(i - 1) : out[j].target # out[i].target
                    /\ \A e \in Range(g.edges) :
                          e.target = out[i].target => e.source \notin Range(done)})
    IN [i \in DOMAIN first |-> out[first[i]].target]
Freed(g, done, u) ==
    LET out == Select(g.edges, {e \in Range(g.edges) : e.source = u})
        last == Select([i \in DOMAIN out |-> i], {i \in DOMAIN out :
                    /\ \A j \in (i + 1)..Len(out) : out[j].target # out[i].target
                    /\ \A e \in Range(g.edges) :
                          e.target = out[i].target => e.source \in Range(done) \cup {u}})
    IN [i \in DOMAIN last |-> out[last[i]].target]

Roots(g) == Select(g.nodes, {n \in Range(g.nodes) : \A e \in Range(g.edges) : e.target # n})
Advance(g, s) ==
    IF s.queue = << >> THEN s
    ELSE [queue |-> Tail(s.queue) \o Freed(g, s.order, Head(s.queue)),
          order |-> Append(s.order, Head(s.queue))]
TopologicalSort(g) ==
    LET step[k \in 0..Len(g.nodes)] ==
            IF k = 0 THEN [queue |-> Roots(g), order |-> << >>] ELSE Advance(g, step[k - 1])
    IN step[Len(g.nodes)].order

\* normalize_process: the nodes by name and the edges by source and target.  Among edges
\* of the same source and target the order decides nothing.
Normalize(d) ==
    LET Between(u, v) == Select(d.edges, {e \in Range(d.edges) : e.source = u /\ e.target = v})
        From(u) == FlattenSeq([j \in DOMAIN Alphabet |-> Between(u, Alphabet[j])])
    IN [d EXCEPT !.edges = FlattenSeq([i \in DOMAIN Alphabet |-> From(Alphabet[i])])]

\* The trigger is looked up among the nodes, which validate_graph_structure has not done
\* when it has the name of a module's input.
Compilable(d) == d.trigger \in DOMAIN d.inst

\* The resolved nodes carry their instance and node type; the process is kept beside.
Compile(d) ==
    LET p == Normalize(d)
        g == Flat(p)
        t == <<p.trigger>>
    IN  [process |-> p,
         names |-> g.nodes,
         nodes |-> [q \in Range(g.nodes) |->
                      [instance |-> g.inst[q],
                       nodeType |-> IF Last(q) \in Marks THEN g.inst[q]
                                    ELSE p.nodeTypes[g.inst[q].type]]],
         edges |-> g.edges,
         trigger |-> IF IsModule(p, p.inst[p.trigger].type) THEN Entrance(t) ELSE t,
         order |-> TopologicalSort(g)]

(***************************************************************************)
(* What the runtimes assume of it.                                         *)
(***************************************************************************)
IR(N) == INSTANCE ProcessIR WITH Node <- N, NoNode <- << >>,
                                 MaxAttempts <- 1, Processes <- {}

\* The compiled process as the runtime modules take it: failure handling, timeouts of
\* node types and retries are not compiled, and left at their defaults.
Runnable(ir) ==
    LET human == {q \in DOMAIN ir.nodes : /\ "provider" \in DOMAIN ir.nodes[q].nodeType
                                          /\ ir.nodes[q].nodeType.provider \in HumanProviders}
    IN  [order |-> ir.order, trigger |-> ir.trigger,
         edges |-> {[source |-> e.source, target |-> e.target, conditional |-> e.when # "",
                     timed |-> FALSE, action |-> "none", handler |-> << >>] :
                        e \in Range(ir.edges)},
         human |-> human, timed |-> {},
         limited |-> {q \in human : "timeout" \in DOMAIN ir.nodes[q].instance.config},
         fallback |-> {q \in human : ir.nodes[q].instance.onTimeout},
         maxAttempts |-> [q \in DOMAIN ir.nodes |-> 1], escalation |-> {}]

\* What the code leaves wrong: the mapping of an edge of the process into one module
\* instance names another one, p, which is not a node any more.
Unrenamed(nodes, target, p) ==
    /\ Len(target) = 2 /\ Last(target) = "____in__"
    /\ p \in {<<n>> : n \in Name} /\ Entrance(p) \in nodes

\* A compiled definition is one the runtimes can execute: every node once and after the
\* sources of its edges, and what a mapping reads is a node, or Unrenamed.
Sound(ir) ==
    /\ Range(ir.order) = DOMAIN ir.nodes
    /\ IR(DOMAIN ir.nodes)!Compiled(Runnable(ir))
    /\ \A e \in Range(ir.edges) :
          \A p \in e.uses : p \in DOMAIN ir.nodes \/ Unrenamed(DOMAIN ir.nodes, e.target, p)
=============================================================================
