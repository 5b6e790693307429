------------------------------ MODULE MCDeploy ------------------------------
(***************************************************************************)
(* Process files for TLC: a form that feeds a worker, edited in the ways   *)
(* the plan tells apart, and processes with nested modules.                *)
(***************************************************************************)
EXTENDS Deploy

MCAlphabet == <<"act", "ask", "fix", "in", "log", "sub", "sub2">>

Instance(type, config) == [type |-> type, config |-> config, onTimeout |-> TRUE]
Wire(source, target, fields, uses) ==
    [source |-> source, target |-> target, when |-> "", fields |-> fields, uses |-> uses,
     settings |-> ""]
Type(version, provider, in, out) ==
    [version |-> version, provider |-> provider, in |-> in, out |-> out,
     schema |-> [url |-> FALSE, timeout |-> FALSE]]

Basic ==
    [trigger |-> "in", policy |-> {"act"},
     inst |-> "in" :> Instance("form", << >>) @@ "act" :> Instance("work", [url |-> "u1"]),
     edges |-> <<Wire("in", "act", {"x"}, {"in"})>>,
     types |-> "Order" :> [x |-> TRUE, y |-> FALSE],
     nodeTypes |-> "form" :> Type("v1", "dashboard.form", "object", "Order")
                   @@ "work" :> Type("v1", "http", "Order", "object")
                   @@ "idle" :> Type("v1", "elsewhere", "object", "object")
                   @@ "pull" :> Type("v1", "queue", "Order", "object"),
     modules |-> << >>]

\* A node more, behind the worker, and another configuration of it.
Longer == [Basic EXCEPT
    !.inst = "log" :> Instance("work", << >>) @@ [@ EXCEPT !["act"].config = [url |-> "u2"]],
    !.edges = @ \o <<Wire("act", "log", {"x"}, {"act", "in"})>>]

\* That node is bound to a node type that no provider here serves, or to one of another
\* provider.
Unserved == [Longer EXCEPT !.inst["log"] = Instance("idle", << >>)]
Pulled == [Longer EXCEPT !.inst["log"] = Instance("pull", << >>)]

\* A published type changes; and the mapping of an edge does.
Retyped == [Basic EXCEPT !.types["Order"] = [x |-> TRUE]]
Remapped == [Basic EXCEPT !.edges[1] = [@ EXCEPT !.fields = {"x", "y"}]]

\* A module with two steps of which one asks somebody, with or without a timeout, inside
\* another one, instantiated twice; the first instance feeds the second one.
Ask(config) ==
    [version |-> "v1", inputs |-> [x |-> TRUE],
     inst |-> "ask" :> Instance("form", config) @@ "fix" :> Instance("work", [url |-> "u1"]),
     edges |-> <<Wire("__input__", "ask", {}, {"__input__"}),
                 Wire("ask", "fix", {"x"}, {"ask", "__input__"})>>,
     outputs |-> <<"fix", "__input__">>]
Around ==
    [version |-> "v1", inputs |-> [x |-> TRUE],
     inst |-> "sub" :> Instance("Ask", << >>) @@ "act" :> Instance("work", << >>),
     edges |-> <<Wire("__input__", "sub", {"x"}, {"__input__"}),
                 Wire("sub", "act", {"x"}, {"sub"})>>,
     outputs |-> <<"act", "sub">>]
Modular(config) ==
    [Basic EXCEPT
        !.inst = "in" :> Instance("form", << >>) @@ "sub" :> Instance("Around", << >>)
                 @@ "sub2" :> Instance("Ask", << >>) @@ "log" :> Instance("work", << >>),
        !.edges = <<Wire("sub2", "log", {"x"}, {"sub", "sub2"}), Wire("in", "sub", {"x"}, {"in"}),
                    Wire("sub", "sub2", {"x"}, {"sub"}), Wire("sub", "log", {}, {"sub"})>>,
        !.modules = "Around" :> Around @@ "Ask" :> Ask(config),
        !.policy = {}]

\* The trigger is an instance of a module.
Framed == [Modular([timeout |-> "1h"]) EXCEPT !.trigger = "sub",
    !.inst = [n \in {"sub", "sub2", "log"} |-> @[n]],
    !.edges = SelectSeq(@, LAMBDA e : e.source # "in")]

\* A trigger that validation lets pass and compilation does not find.
Headless == [Basic EXCEPT !.trigger = "__input__", !.inst = [n \in {"act"} |-> @[n]],
                          !.edges = << >>]

\* What validation refuses: an edge to the trigger, a cycle behind it, a missing
\* input.
Looped == [Basic EXCEPT !.inst = "log" :> Instance("idle", << >>) @@ @,
                        !.edges = @ \o <<Wire("log", "in", {}, {})>>]
Circular == [Longer EXCEPT !.edges = @ \o <<Wire("log", "act", {}, {})>>]
Starved == [Basic EXCEPT !.edges = <<Wire("in", "act", {"y"}, {"in"})>>]

MCDefinition == [basic |-> Basic, longer |-> Longer, unserved |-> Unserved, pulled |-> Pulled,
    retyped |-> Retyped,
    modular |-> Modular([timeout |-> "1h"]), framed |-> Framed, headless |-> Headless,
    endless |-> Modular(<< >>), looped |-> Looped, circular |-> Circular, starved |-> Starved]
MCDraft == DOMAIN MCDefinition

EdgeDefinition == [basic |-> Basic, remapped |-> Remapped]
EdgeDraft == DOMAIN EdgeDefinition

CONSTANTS o1, o2
\* One operator has every file but one, the other one that one.
MCFiles == (o1 :> (MCDraft \ {"longer"})) @@ (o2 :> {"longer"})
EdgeFiles == o1 :> EdgeDraft

MCRegistered == {"http", "queue"}
MCHumans == {"dashboard.form", "slack.interactive"}

\* The pool holds what it is meant to: drafts that validation takes and ones it refuses.
PoolAssumption == Draft = MCDraft =>
    /\ Accepts = {"basic", "longer", "unserved", "pulled", "retyped", "modular", "framed"}
    /\ {d \in Draft : Valid(Definition[d])} = Accepts \cup {"headless"}
ASSUME PoolAssumption
=============================================================================
