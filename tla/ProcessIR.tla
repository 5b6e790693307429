----------------------------- MODULE ProcessIR -----------------------------
(***************************************************************************)
(* The compiled process a runtime executes (ExecutionIR of                 *)
(* src/src/bpg/compiler/ir.py over the models of src/src/bpg/models/       *)
(* schema.py): nodes in topological order, edges with their conditions,    *)
(* timeouts and failure handling, the nodes' retry and timeout settings,   *)
(* and the policy's escalation rules.  Types, mappings, conditions and     *)
(* provider configuration are not represented.                             *)
(***************************************************************************)
EXTENDS Naturals, Sequences

CONSTANTS
    Node,           \* node names
    NoNode,         \* no node: an edge without a failure handler
    MaxAttempts,    \* bound on retry.max_attempts of any node
    Processes       \* the compiled processes under study

Action == {"none", "route", "notify", "fail"}     \* edge.on_failure.action
Edge == [source : Node, target : Node, conditional : BOOLEAN, timed : BOOLEAN,
         action : Action, handler : Node \cup {NoNode}]
Rule == [node : Node, on : {"timeout", "failure"}, after : Nat, to : Node]

Process == [order : Seq(Node), trigger : Node, edges : SUBSET Edge,
            human : SUBSET Node,     \* provided by slack.interactive or dashboard.form
            timed : SUBSET Node,     \* the node type has a timeout_default
            limited : SUBSET Node,   \* the instance's config has a timeout
            fallback : SUBSET Node,  \* the instance has on_timeout.out
            maxAttempts : [Node -> 1..MaxAttempts], escalation : SUBSET Rule]

NodesOf(p) == {p.order[i] : i \in DOMAIN p.order}
Incoming(p, n) == {e \in p.edges : e.target = n}

\* The handlers that the policy's escalation rules name for node n.
Escalation(p, n, event) ==
    {r.to : r \in {x \in p.escalation :
        x.node = n /\ x.on = event /\ x.after <= p.maxAttempts[n]}}

\* The nodes that a failure of n may be handed to.
HandlersOf(p, n) ==
    {e.handler : e \in {x \in Incoming(p, n) : x.handler # NoNode}}
    \cup Escalation(p, n, "failure")

\* What the compiler guarantees: the order lists every node once and respects
\* the edges, the trigger has no incoming edge, and human nodes have a timeout
\* and an output to continue with after it.  Only the route and notify actions name a
\* handler, which nothing checks to be a node of the process.
Compiled(p) ==
    /\ p \in Process
    /\ p.order # << >>
    /\ \A i, j \in DOMAIN p.order : p.order[i] = p.order[j] => i = j
    /\ p.trigger \in NodesOf(p)
    /\ p.human \ {p.trigger} \subseteq p.limited \cap p.fallback
    /\ \A e \in p.edges :
          /\ e.target # p.trigger
          /\ \E i, j \in DOMAIN p.order :
                i < j /\ p.order[i] = e.source /\ p.order[j] = e.target
          /\ e.handler # NoNode => e.action \in {"route", "notify"}

ASSUME MaxAttemptsAssumption == MaxAttempts \in Nat \ {0}
ASSUME ProcessesAssumption == \A p \in Processes : Compiled(p)
ASSUME NoNodeAssumption == NoNode \notin Node
=============================================================================
