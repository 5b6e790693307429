------------------------- MODULE MCLangGraphRuntime -------------------------
(***************************************************************************)
(* Small processes for TLC: six shapes over a trigger and up to three      *)
(* other nodes.  What a provider gives is chosen here; what the concrete   *)
(* ones give is what ProviderChecks is about.                              *)
(***************************************************************************)
EXTENDS LangGraphRuntime, ProviderChecks

CONSTANTS t, a, b, h

Plain(s, d) == [source |-> s, target |-> d, conditional |-> FALSE,
                timed |-> FALSE, action |-> "none", handler |-> NoNode]
When(s, d) == [Plain(s, d) EXCEPT !.conditional = TRUE]
TimedEdge(s, d) == [Plain(s, d) EXCEPT !.timed = TRUE]
OnFailure(e, act, m) == [e EXCEPT !.action = act, !.handler = m]

Base == [order |-> <<t>>, trigger |-> t, edges |-> {}, human |-> {},
         timed |-> {}, limited |-> {}, fallback |-> {}, maxAttempts |-> [n \in Node |-> 1],
         escalation |-> {}]

\* A failure of a is routed to h, which also follows b; a may be retried.
Routed ==
    {[Base EXCEPT !.order = <<t, a, b, h>>, !.maxAttempts[a] = 2, !.timed = tm,
        !.edges = {OnFailure(Plain(t, a), act, m), Plain(a, b), When(b, h)}] :
        tm \in {{}, {a}}, act \in {"route", "notify"}, m \in {h}}

\* Two edges into b, one of which forbids recovery; escalation would route to h.
Joined ==
    {[Base EXCEPT !.order = <<t, a, b, h>>,
        !.edges = {Plain(t, a), OnFailure(When(t, b), act, NoNode), TimedEdge(a, b)},
        !.escalation = {[node |-> b, on |-> ev, after |-> 1, to |-> h]}] :
        act \in {"none", "fail"}, ev \in {"failure", "timeout"}}

\* A human approval between two nodes, with and without a deadline.
Approval ==
    {[Base EXCEPT !.order = <<t, h, a>>, !.human = {h}, !.limited = {h}, !.timed = tm,
        !.fallback = {h}, !.maxAttempts[h] = 2,
        !.edges = {Plain(t, h), When(h, a)}] :
        tm \in {{}, {h}}}

\* The handler has no incoming edge and precedes the node it is to recover.
EarlyHandler ==
    {[Base EXCEPT !.order = <<h, t, a>>,
        !.edges = {OnFailure(Plain(t, a), "route", h)}]}

\* Every node but the trigger has a deadline; both kinds of provider.
Timely ==
    {[Base EXCEPT !.order = <<t, a, h>>, !.human = {h}, !.limited = {h}, !.timed = {a, h},
        !.fallback = {a, h}, !.maxAttempts[a] = 2,
        !.edges = {Plain(t, a), Plain(a, h)}]}

\* One process of each kind for the liveness properties.
LiveProcesses ==
    Timely \cup {p \in Routed \cup Approval : p.timed = {}}

AllProcesses == Routed \cup Joined \cup Approval \cup EarlyHandler \cup Timely
=============================================================================
