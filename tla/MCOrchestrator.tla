--------------------------- MODULE MCOrchestrator ---------------------------
(***************************************************************************)
(* Small processes for TLC: two branches that run at the same time, with   *)
(* and without deadlines, and a chain beside a node nothing leads to.  The *)
(* conditions a run chooses here are what ExpressionChecks is about.       *)
(***************************************************************************)
EXTENDS Orchestrator, ExpressionChecks

CONSTANTS t, a, b, h

Plain(s, d) == [source |-> s, target |-> d, conditional |-> FALSE,
                timed |-> FALSE, action |-> "none", handler |-> NoNode]
When(s, d) == [Plain(s, d) EXCEPT !.conditional = TRUE]

Base == [order |-> <<t, a, b, h>>, trigger |-> t, edges |-> {}, human |-> {},
         timed |-> {}, limited |-> {}, fallback |-> {},
         maxAttempts |-> [n \in Node |-> 1], escalation |-> {}]

\* Two branches that meet in h; a, b or both have a deadline.
Diamond ==
    {[Base EXCEPT !.limited = l,
        !.edges = {Plain(t, a), When(t, b), Plain(a, h), When(b, h)}] :
        l \in {{a}, {a, b}}}

\* b follows a and, by its condition, may be skipped; nothing leads to h.
Chain ==
    {[Base EXCEPT !.limited = {b}, !.edges = {Plain(t, a), When(a, b)}]}

\* The order of the branches, and a trigger that has a deadline itself.
Branches ==
    {[Base EXCEPT !.order = <<t, b, a>>, !.limited = {t, a},
        !.edges = {When(t, a), Plain(t, b)}]}

OrchestratorProcesses == Diamond \cup Chain \cup Branches
=============================================================================
