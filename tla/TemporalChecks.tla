---------------------------- MODULE TemporalChecks ----------------------------
(***************************************************************************)
(* What approval gates, policies and sliced node workflows promise, over   *)
(* short histories of signals, timers and restarts.  TLC evaluates the     *)
(* assumptions.                                                            *)
(***************************************************************************)
LOCAL INSTANCE Temporal
LOCAL INSTANCE FiniteSets

SeqsUpTo(S, n) == UNION {[1..k -> S] : k \in 0..n}

(***************************************************************************)
(* Signals and timers reach a gate in any order.                           *)
(***************************************************************************)
actors == {"x", "y"}
signals == [outcome : Resolutions \cup {"pending", "timed_out"}, actor : actors, at : {0}]
gateEvents == {Some(s) : s \in signals} \cup {None}
Deliver(gate, e) == IF e = None THEN ApplyTimeout(gate) ELSE ApplySignal(gate, e[1]).gate
Delivered(required, history) == FoldLeft(Deliver, Gate(required), history)

\* A signal that may resolve a gate, or the timer.
Effective(required, e) ==
    \/ e = None
    \/ e # None /\ e[1].outcome \in Resolutions /\ (required = {} \/ e[1].actor \in required)

\* The first of the effective signals and the timer resolves the gate for good, whatever
\* arrives with it or later: the signal that lost the race is refused, the timer that lost
\* it does nothing.  What resolved the gate is what events and queries tell of it.
FirstAnswerWins ==
    \A required \in SUBSET actors, history \in SeqsUpTo(gateEvents, 3) : \A e \in gateEvents :
        LET gate == Delivered(required, history)
            effective == {i \in DOMAIN history : Effective(required, history[i])}
            first == history[CHOOSE i \in effective : \A j \in effective : i <= j]
            fields == ApprovalEventFields(gate)
        IN /\ effective = {} <=> gate.outcome = "pending"
           /\ effective # {} =>
                /\ gate.signal = first
                /\ gate.outcome = IF first = None THEN "timed_out" ELSE first[1].outcome
                /\ Deliver(gate, e) = gate
                /\ e # None => ApplySignal(gate, e[1]).raised = Some("already_resolved")
           /\ gate.signal # None /\ required # {} => fields.actor[1] \in required
           /\ fields.temporal = None <=> gate.outcome = "pending"
           /\ QueryState(gate).resolved_at # None <=> gate.outcome \in Resolutions
           /\ gate.outcome = "timed_out" <=> fields.temporal = Some(<<"timer", "timeout">>)
ASSUME FirstAnswerWins

\* An event is dropped only by an exception, but for a late timer: a gate that is still
\* pending after a signal has refused it.
NoSignalIsLost ==
    \A required \in SUBSET actors, history \in SeqsUpTo(gateEvents, 2), s \in signals :
        LET gate == Delivered(required, history)
            after == ApplySignal(gate, s)
        IN after.raised = None <=> after.gate # gate
ASSUME NoSignalIsLost

(***************************************************************************)
(* Policies.                                                               *)
(***************************************************************************)
policies == {[kind |-> "approval", nodes |-> N] : N \in SUBSET {"n", "m"}}
            \cup {[kind |-> "escalation", nodes |-> {}]}

\* A node is held back by the first policy that wants an approval for it, by none once
\* the approval is granted, and by one policy more only if it was held back or is named.
PoliciesHoldBack ==
    \A ps \in SeqsUpTo(policies, 3), p \in policies, n \in {"n", "m"}, granted \in BOOLEAN :
        LET context == [node |-> n, approval_granted |-> granted]
            by == Enforce(ps, context)
        IN /\ granted => IsAllowed(ps, context)
           /\ by # None => IsAllowed(SubSeq(ps, 1, by[1] - 1), context) /\ n \in ps[by[1]].nodes
           /\ IsAllowed(Append(ps, p), context) <=> by = None /\ ~Blocks(p, context)
           /\ by # None => Enforce(Append(ps, p), context) = by
ASSUME PoliciesHoldBack

(***************************************************************************)
(* Behaviors over three states: where a step leads, which states are the   *)
(* last, and an output that tells the state and the index of the last step.*)
(***************************************************************************)
stepStates == 0..2
behaviors == {[next |-> f, last |-> L] : f \in [stepStates -> stepStates], L \in SUBSET stepStates}
Ends(b) == LET s1 == b.next[0] s2 == b.next[s1] s3 == b.next[s2] IN {s1, s2, s3} \cap b.last # {}
maxIndex == 6
storage == [spill : BOOLEAN, limit : {0, 1}, size : {[s \in stepStates |-> s]}]

\* A slice after the other from the checkpoint of the one before, the last one without a
\* limit.
RECURSIVE Slices(_, _, _, _, _)
Slices(step, policy, store, id, limits) ==
    LET r == Resume(step, policy, store, "r", id, Head(limits)) IN
    IF r.completed THEN r
    ELSE Slices(step, policy, r.store, Len(r.store.checkpoints), Tail(limits))

\* However a workflow is cut into slices, and wherever its checkpoints are kept, it ends
\* like one that runs in one piece; a checkpoint can be resumed again after others were
\* written and leads to the same end; another run cannot resume it.  A slice takes as
\* many steps as it may, and never none.
SlicesAgree ==
    \A b \in {x \in behaviors : Ends(x)}, policy \in storage, first \in {0, 1, 2} :
    \A limits \in [1..2 -> {NoLimit, Some(0), Some(1)}] :
        LET step == [s \in stepStates, i \in 0..maxIndex |->
                        LET t == b.next[s] IN
                        [state |-> t, completed |-> t \in b.last, output |-> Some(<<t, i>>)]]
            whole == RunWorkflow(step, policy, "r", 0, NoLimit)
            r == RunWorkflow(step, policy, "r", 0, Some(first))
            id == Len(r.store.checkpoints)
            end == Slices(step, policy, r.store, id, limits \o <<NoLimit>>)
            again == Resume(step, policy, end.store, "r", id, NoLimit)
            other == Resume(step, policy, r.store, "q", id, NoLimit)
        IN IF r.completed THEN r = whole
           ELSE /\ <<end.state, end.output>> = <<whole.state, whole.output>>
                /\ <<again.state, again.output>> = <<whole.state, whole.output>>
                /\ other.raised = Some("other_run") /\ other.store = r.store
                /\ MaterializeState(r.store, r.store.checkpoints[id]) = r.state
                /\ r.store.checkpoints[id].blob # None <=>
                        policy.spill /\ r.state > policy.limit
                /\ r.store.checkpoints[id].index = IF first = 0 THEN 1 ELSE first
ASSUME SlicesAgree

(***************************************************************************)
(* Identifiers.                                                            *)
(***************************************************************************)
contexts == [{"namespace", "workflow_id", "task_queue"} -> {None, Some("v"), Some("w")}]

\* Every event of a run ends up with the workflow id of the result, unless it had one of
\* its own, and enriching it again changes nothing.
EventsCarryTheRun ==
    \A workflow \in contexts, activity \in contexts :
    \A event \in {<< >>} \cup [{"workflow_id"} -> {"own"}] :
        LET extracted == ExtractTemporalMetadata(<< >>, workflow, activity)
            result == WorkflowRun(<<event>>, extracted, "run")
            metadata == RunMetadata(extracted, "run")
        IN /\ result.temporal.workflow_id =
                OrElse(workflow.workflow_id, OrElse(activity.workflow_id, Some("run")))
           /\ result.log[1].workflow_id =
                IF event = << >> THEN result.temporal.workflow_id ELSE "own"
           /\ Enrich(result.log[1], metadata) = result.log[1]
           /\ extracted.workflow_id # None => metadata = extracted
           /\ extracted.workflow_id = None => "namespace" \in DOMAIN result.temporal
ASSUME EventsCarryTheRun
=============================================================================
