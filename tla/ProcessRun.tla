----------------------------- MODULE ProcessRun -----------------------------
(***************************************************************************)
(* What one run of a process promises to whoever watches its node          *)
(* statuses: the nodes are resolved one at a time, in the compiled order,  *)
(* each once; a node does work only if an edge or a failure route leads to *)
(* it; once the run has failed or been cancelled nothing more does work;   *)
(* and the run is reported completed only if every failure was handed to a *)
(* handler.  Attempts, providers, deadlines and cancellation requests are  *)
(* not visible here.                                                       *)
(***************************************************************************)
EXTENDS ProcessIR

VARIABLES
    ir,         \* the process
    status,     \* node statuses, "none" until resolved
    routed,     \* nodes to which a failure has been routed
    health,     \* "running" until a failure or a cancellation stops the run
    verdict     \* what the caller is told

runVars == <<ir, status, routed, health, verdict>>

RunInit ==
    /\ ir \in Processes
    /\ status = [n \in Node |-> "none"]
    /\ routed = {} /\ health = "none" /\ verdict = "none"

Begin ==
    /\ health = "none" /\ health' = "running"
    /\ UNCHANGED <<ir, status, routed, verdict>>

\* i is the position of the first node without a status.
NextAt(i) ==
    /\ i \in DOMAIN ir.order
    /\ status[ir.order[i]] = "none"
    /\ \A j \in 1..(i - 1) : status[ir.order[j]] # "none"

Active(n) == n \in routed \/ \E e \in Incoming(ir, n) : status[e.source] = "completed"

\* Nothing may be left undone: a failure was routed to n, or an edge without a
\* condition leads to it from a completed node.
Due(n) ==
    \/ n = ir.trigger \/ n \in routed
    \/ \E e \in Incoming(ir, n) : ~e.conditional /\ status[e.source] = "completed"

\* Node n does not run: it is skipped, or cancelled with the run.
Pass(n) ==
    /\ \/ /\ health = "failed" \/ (health = "running" /\ ~Due(n))
          /\ status' = [status EXCEPT ![n] = "skipped"]
          /\ health' = health
       \/ /\ health \in {"running", "cancelled"}
          /\ status' = [status EXCEPT ![n] = "cancelled"]
          /\ health' = "cancelled"
    /\ UNCHANGED <<ir, routed, verdict>>

Succeed(n) ==
    /\ health = "running" /\ (Active(n) \/ n = ir.trigger)
    /\ status' = [status EXCEPT ![n] = "completed"]
    /\ UNCHANGED <<ir, routed, health, verdict>>

\* A failure either stops the run, or routes to the handlers hs, or (input
\* validation) is left for the verdict to report.
Break(n) ==
    /\ health = "running" /\ Active(n)
    /\ \E hs \in SUBSET (HandlersOf(ir, n) \cup Escalation(ir, n, "timeout")) :
          /\ routed' = routed \cup hs
          /\ \/ status' = [status EXCEPT ![n] = "failed"]
             \/ status' = [status EXCEPT ![n] = "timed_out"] /\ (hs = {} => health' = "failed")
             \/ status' = [status EXCEPT ![n] = "cancelled"] /\ health' = "cancelled"
    /\ health' \in {"running", "failed", "cancelled"}
    /\ (health' = "cancelled") <=> (status'[n] = "cancelled")
    /\ UNCHANGED <<ir, verdict>>

Handled(n) ==
    CASE status[n] = "failed" -> HandlersOf(ir, n) \cap routed # {}
      [] status[n] = "timed_out" -> Escalation(ir, n, "timeout") \cap routed # {}
      [] status[n] = "cancelled" -> FALSE
      [] OTHER -> TRUE

Report ==
    /\ verdict = "none" /\ health # "none"
    /\ verdict' \in {health, "completed", "failed"}
    /\ health # "running" => verdict' = health
    /\ verdict' = "completed" => \A n \in Node : Handled(n)
    /\ UNCHANGED <<ir, status, routed, health>>

\* The caller resumes a run that waits for an answer.
Reopen ==
    /\ verdict # "none" /\ verdict' = "none"
    /\ \E i \in DOMAIN ir.order : NextAt(i)
    /\ UNCHANGED <<ir, status, routed, health>>

RunNext ==
    \/ Begin \/ Report \/ Reopen
    \/ /\ verdict = "none"
       /\ \E i \in DOMAIN ir.order :
             /\ NextAt(i)
             /\ Pass(ir.order[i]) \/ Succeed(ir.order[i]) \/ Break(ir.order[i])

RunSpec == RunInit /\ [][RunNext]_runVars
=============================================================================
