------------------- MODULE LangGraphRuntimeContract_proofs -------------------
(***************************************************************************)
(* The walk of LangGraphRuntime over the nodes of the process: its         *)
(* invariant, the safety properties that follow from it, and the proof     *)
(* that every run is a run in the sense of ProcessRun.                     *)
(***************************************************************************)
EXTENDS LangGraphRuntime_proofs

-----------------------------------------------------------------------------
(* The invariant.                                                          *)

Working == Attempting \cup {"settle"}

\* The first i-1 nodes of the order are resolved; an attempt is under way only
\* in a run that goes on; the caller has a verdict once the graph has returned.
OrderInv ==
    /\ \A i \in DOMAIN ir.order : nodeStatus[ir.order[i]] # "none" <=> i < pos
    /\ \A i \in DOMAIN ir.order : i > pos => ir.order[i] # answered
    /\ pc = "done" => pos > Len(ir.order)
    /\ pc = "enter" => result = "none" /\ runStatus # "none"
    /\ pc \in Working => result = "none" /\ runStatus = "running"
    /\ pc = "new" => result = "none" /\ runStatus = "none" /\ cancelEvent = "absent"
                     /\ cancelPos = 0 /\ nodeStatus = [n \in Node |-> "none"]
    /\ pc = "finalise" => result = "none" /\ runStatus # "none"
    /\ pc \in {"cleanup", "suspended", "done"} => result # "none" /\ runStatus # "none"

\* An edge from a completed node, or a failure route, leads to node n.
Led(n) ==
    \/ n \in failureRoutes
    \/ \E e \in Incoming(ir, n) : nodeStatus[e.source] = "completed"

\* The edges in `firing' lead to the current node and fired rightly; a node that
\* is executed, suspended or re-entered after it was suspended was activated.
FiringInv ==
    /\ \A e \in firing : /\ pos <= Len(ir.order) /\ e \in Incoming(ir, Current)
                         /\ nodeStatus[e.source] = "completed"
    /\ /\ pos <= Len(ir.order)
       /\ pc \in Working \cup {"finalise", "cleanup", "suspended"} \/ answered = Current
       => firing # {} \/ Current \in failureRoutes

\* Providers were invoked only for nodes that have been reached and led to.
TaskInv ==
    \A hd \in Handle : task[hd] # "none" =>
        /\ Led(hd[1])
        /\ \E i \in DOMAIN ir.order : i <= pos /\ ir.order[i] = hd[1]

\* The last event of node n agrees with its status.
Told(n) ==
    \/ lastEvent[n] = nodeStatus[n]
    \/ lastEvent[n] = "none" /\ nodeStatus[n] = "skipped"
    \/ lastEvent[n] = "blocked" /\ nodeStatus[n] = "failed"
    \/ lastEvent[n] = "timed_out" /\ nodeStatus[n] = "completed" /\ n \in ir.fallback

NodesTold ==
    \A i \in DOMAIN ir.order :
        /\ i < pos => Told(ir.order[i])
        /\ i > pos => lastEvent[ir.order[i]] = "none"
        /\ i = pos => lastEvent[ir.order[i]] = "none" \/ runStatus # "failed"

EventInv ==
    /\ NodesTold
    /\ pc \in {"cleanup", "done"} /\ driver = "run"
          => (runEvent = "run_completed" <=> result = "completed")

\* While the run goes on, every failure was handed to a handler or is on record.
HealthInv ==
    \A n \in Node :
        /\ n \in recoverable => HandlersOf(ir, n) \cap failureRoutes # {}
        /\ runStatus = "running" /\ nodeStatus[n] = "timed_out"
              => Escalation(ir, n, "timeout") \cap failureRoutes # {}
        /\ runStatus = "running" => nodeStatus[n] # "cancelled"

\* A run that was cancelled at node cancelPos resolves no later node but by
\* skipping or cancelling it, and has failed or been cancelled by then.
CancelInv ==
    /\ cancelPos <= pos
    /\ driver = "run" /\ cancelPos > 0 =>
        /\ cancelEvent = "set" \/ pc \in {"suspended", "done"}
        /\ pos > cancelPos => pc \notin Working
        /\ \A i \in DOMAIN ir.order : i > cancelPos =>
              /\ nodeStatus[ir.order[i]] \in {"none", "skipped", "cancelled"}
              /\ \A k \in 1..MaxAttempts : task[<<ir.order[i], k>>] = "none"
        /\ pos > cancelPos + 1 =>
              /\ Halted
              /\ pc \in {"cleanup", "done"} => result \in {"failed", "cancelled"}

-----------------------------------------------------------------------------
(* The kinds of steps.                                                     *)

\* node_fn returns from the current node.
Resolves ==
    \/ SkipAfterFailure \/ CancelAtEntry \/ CompleteTrigger \/ SkipInactive
    \/ FailMapping \/ FailInput \/ BlockByPolicy \/ FailProvider \/ ReuseResult
    \/ TimeOutWithFallback \/ TimeOut \/ Fail \/ FailOutput \/ Complete

\* node_fn goes on with the current node.
Works == AttemptStep \/ AwaitRaises \/ Retry

\* Somebody else takes a step, or time passes.
Aside ==
    /\ UNCHANGED <<ir, nodeStatus, failureRoutes, recoverable, runStatus, firing, driver,
                   answered, result, lastEvent, runEvent, pc, pos>>
    /\ \A hd \in Handle : task'[hd] = "none" <=> task[hd] = "none"
    /\ CancelRun \/ UNCHANGED <<cancelEvent, cancelPos>>

\* Every step is of one of these kinds.
LEMMA StepKinds ==
    ASSUME TypeOK, [Next]_vars
    PROVE  \/ Start \/ Resolves \/ Schedule \/ Works \/ Finalise \/ ReturnResumed
           \/ Cleanup \/ Resume \/ Abort \/ Aside
  <1>1. CASE RunThread
    BY <1>1 DEF RunThread, EnterNode, Settle, Resolves, Works
  <1>2. CASE Expire
    BY <1>2 DEF Expire, Aside, state, caller, shared, canceller, provider, events
  <1>3. CASE CancelRun
    BY <1>3 DEF CancelRun, Aside, state, locals, caller, provider, events
  <1>4. CASE \E hd \in Handle : DeliverCancel(hd)
    BY <1>4 DEF DeliverCancel, Aside, state, locals, caller, shared, events
  <1>5. ASSUME NEW hd \in Handle, InvokeReturns(hd) \/ ExecutionEnds(hd) PROVE Aside
    <2>1. \A other \in Handle : task'[other] = "none" <=> task[other] = "none"
      BY <1>5 DEF InvokeReturns, ExecutionEnds, TypeOK
    <2> QED
      BY <1>5, <2>1 DEF InvokeReturns, ExecutionEnds, ProviderFrame, Aside, state, locals,
         caller, shared, canceller, events
  <1>6. CASE UNCHANGED vars
    BY <1>6 DEF vars, Aside, state, locals, caller, shared, canceller, provider, events
  <1>7. CASE AwaitRaises
    BY <1>7 DEF Works
  <1> QED
    BY <1>1, <1>2, <1>3, <1>4, <1>5, <1>6, <1>7 DEF Next, Providers, Over

\* The positions of the order, and the node at each of them.
LEMMA Positions ==
    ASSUME TypeOK
    PROVE  /\ DOMAIN ir.order = 1..Len(ir.order) /\ Len(ir.order) \in Nat \ {0}
           /\ pos \in Nat \ {0} /\ pos <= Len(ir.order) + 1 /\ cancelPos \in Nat
           /\ \A i \in DOMAIN ir.order : ir.order[i] \in Node
           /\ \A i, j \in DOMAIN ir.order : ir.order[i] = ir.order[j] => i = j
           /\ pos <= Len(ir.order) => pos \in DOMAIN ir.order /\ Current = ir.order[pos]
  BY ProcessShape DEF Compiled, TypeOK, Current

\* A step of an attempt leaves the walk alone.
LEMMA WorksFrame ==
    ASSUME TypeOK, Works
    PROVE  /\ pc \in Working /\ pos <= Len(ir.order) /\ pc' \in Working \cup {"finalise"}
           /\ UNCHANGED <<ir, nodeStatus, failureRoutes, recoverable, runStatus, firing,
                          driver, answered, result, cancelEvent, cancelPos, runEvent, pos>>
           /\ \A hd \in Handle : hd # CurrentHandle => task'[hd] = task[hd]
           /\ \A n \in Node : n # Current => lastEvent'[n] = lastEvent[n]
  <1>1. CASE Retry
    <2>1. pos <= Len(ir.order)
      BY <1>1 DEF Retry, TypeOK
    <2> QED
      BY <1>1, <2>1, CurrentType DEF Retry, EmitNode, Working, Attempting, TypeOK, state,
         caller, canceller, provider
  <1>2. CASE AttemptStep
    <2>1. pc \in Attempting /\ pos <= Len(ir.order)
      BY <1>2 DEF AttemptStep, InvokeInWorker, InvokeHuman, Suspend, JoinInvoke,
         CheckInvoke, Register, CheckCancel, AwaitHuman, PollCheck, Poll, AwaitBlocking,
         Attempting, TypeOK
    <2>2. AttemptFrame
      BY <1>2 DEF AttemptStep, InvokeInWorker, InvokeHuman, Suspend, JoinInvoke,
         CheckInvoke, Register, CheckCancel, AwaitHuman, PollCheck, Poll, AwaitBlocking
    <2>3. pc' \in Working \cup {"finalise"}
      BY <1>2 DEF AttemptStep, InvokeInWorker, InvokeHuman, Suspend, JoinInvoke,
         CheckInvoke, Register, CheckCancel, AwaitHuman, PollCheck, Poll, AwaitBlocking,
         EndAttempt, Working, Attempting
    <2>4. task' = task \/ \E s : SetTask(s)
      BY <1>2 DEF AttemptStep, InvokeInWorker, InvokeHuman, Suspend, JoinInvoke,
         CheckInvoke, Register, CheckCancel, AwaitHuman, PollCheck, Poll, AwaitBlocking,
         provider
    <2>5. \A hd \in Handle : hd # CurrentHandle => task'[hd] = task[hd]
      BY <2>4 DEF SetTask, TypeOK
    <2> QED
      BY <2>1, <2>2, <2>3, <2>5 DEF Working, AttemptFrame, state, caller, canceller, events
  <1>3. CASE AwaitRaises
    <2>1. pc \in Attempting /\ pos <= Len(ir.order)
      BY <1>3 DEF AwaitRaises, Attempting, TypeOK
    <2> QED
      BY <1>3, <2>1 DEF AwaitRaises, EndAttempt, Working, Attempting, AttemptFrame, state,
         caller, canceller, events, provider
  <1> QED  BY <1>1, <1>2, <1>3 DEF Works

\* Starting the execution of a node resolves nothing.
LEMMA ScheduleFrame ==
    ASSUME TypeOK, Schedule
    PROVE  /\ pc = "enter" /\ pos <= Len(ir.order) /\ pc' = "invoke"
           /\ runStatus = "running" /\ cancelEvent # "set"
           /\ UNCHANGED <<ir, nodeStatus, failureRoutes, recoverable, runStatus, driver,
                          answered, result, cancelEvent, cancelPos, task, runEvent, pos>>
           /\ \A n \in Node : n # Current => lastEvent'[n] = lastEvent[n]
           /\ firing' \in ActivatingSets
  BY DEF Schedule, Activates, Proceeds, EmitNode, TypeOK, state, caller, shared, canceller,
     provider

\* What node_fn changes when it returns.
LEMMA ResolveFrame ==
    ASSUME TypeOK, pos <= Len(ir.order), NEW s, NEW rs, Resolve(s, rs)
    PROVE  /\ nodeStatus' = [nodeStatus EXCEPT ![Current] = s] /\ runStatus' = rs
           /\ pos' = pos + 1 /\ pc' = IF pos = Len(ir.order) THEN "finalise" ELSE "enter"
           /\ firing' = {}
           /\ UNCHANGED <<ir, driver, answered, result, cancelEvent, cancelPos, task, runEvent>>
  BY DEF Resolve, caller, canceller, provider

\* How a node is resolved, once it is known to be the first one without a status.
LEMMA ResolvesHow ==
    ASSUME TypeOK, OrderInv, Resolves
    PROVE  /\ pc \in {"enter", "settle"} /\ pos <= Len(ir.order)
           /\ failureRoutes \subseteq failureRoutes'
           /\ \E s \in NodeStatus \ {"none"}, rs \in {"running", "failed", "cancelled"} :
                /\ Resolve(s, rs)
                /\ Halted => s \in {"skipped", "cancelled"} /\ rs = runStatus
                /\ Halted => UNCHANGED failureRoutes
                /\ cancelEvent = "set" /\ pc = "enter"
                      => s \in {"skipped", "cancelled"} /\ rs \in {"failed", "cancelled"}
                /\ s = "cancelled" => rs = "cancelled"
  <1>1. pc \in {"enter", "settle"} /\ pos <= Len(ir.order)
    BY DEF Resolves, SkipAfterFailure, CancelAtEntry, CompleteTrigger, SkipInactive,
       FailMapping, FailInput, BlockByPolicy, FailProvider, ReuseResult, FirstVisit,
       Activates, Proceeds, TimeOutWithFallback, TimeOut, Fail, FailOutput, Complete, TypeOK
  <1>2. pc = "settle" => runStatus = "running"
    BY DEF OrderInv, Working
  <1>3. failureRoutes \subseteq failureRoutes'
    BY DEF Resolves, SkipAfterFailure, CancelAtEntry, CompleteTrigger, SkipInactive,
       FailMapping, FailInput, BlockByPolicy, FailProvider, ReuseResult, NoRoutes,
       TimeOutWithFallback, TimeOut, Fail, FailOutput, Complete
  <1>4. CASE SkipAfterFailure
    BY <1>1, <1>3, <1>4 DEF SkipAfterFailure, NoRoutes, Halted, NodeStatus
  <1>5. CASE CancelAtEntry
    BY <1>1, <1>3, <1>5 DEF CancelAtEntry, NoRoutes, Halted, NodeStatus
  <1>6. CASE CompleteTrigger \/ SkipInactive \/ ReuseResult
    BY <1>1, <1>3, <1>6 DEF CompleteTrigger, SkipInactive, ReuseResult, FirstVisit, Activates,
       Proceeds, Halted, NodeStatus
  <1>7. CASE FailMapping \/ FailInput \/ BlockByPolicy \/ FailProvider
    BY <1>1, <1>3, <1>7 DEF FailMapping, FailInput, BlockByPolicy, FailProvider, FirstVisit,
       Activates, Proceeds, Halted, NodeStatus
  <1>8. CASE TimeOutWithFallback \/ TimeOut \/ FailOutput \/ Complete
    BY <1>1, <1>2, <1>3, <1>8 DEF TimeOutWithFallback, TimeOut, FailOutput, Complete, Halted,
       NodeStatus
  <1>9. CASE Fail
    BY <1>1, <1>2, <1>3, <1>9 DEF Fail, Halted, NodeStatus
  <1> QED
    BY <1>4, <1>5, <1>6, <1>7, <1>8, <1>9 DEF Resolves

-----------------------------------------------------------------------------
(* The order.                                                              *)

\* Where the run thread neither resolves nor re-enters a node, the order is kept.
LEMMA OrderKept ==
    ASSUME TypeOK, OrderInv,
           UNCHANGED <<ir, nodeStatus, answered, pos>>
    PROVE  /\ \A i \in DOMAIN ir'.order : nodeStatus'[ir'.order[i]] # "none" <=> i < pos'
           /\ \A i \in DOMAIN ir'.order : i > pos' => ir'.order[i] # answered'
  BY DEF OrderInv

\* The walk keeps its order.
LEMMA OrderStep == TypeOK /\ OrderInv /\ [Next]_vars => OrderInv'
  <1> SUFFICES ASSUME TypeOK, OrderInv, [Next]_vars PROVE OrderInv'  OBVIOUS
  <1>1. CASE Start
    <2>1. /\ UNCHANGED <<ir, nodeStatus, answered, pos, result, cancelPos>>
          /\ \/ pc' = "rejected"
             \/ pc' = "enter" /\ runStatus' = "running"
          /\ result = "none"
      BY <1>1 DEF Start, locals, caller, canceller, OrderInv
    <2> QED  BY <2>1, OrderKept DEF OrderInv, Working, Attempting
  <1>2. CASE Resolves
    <2>1. PICK s \in NodeStatus \ {"none"}, rs \in {"running", "failed", "cancelled"} :
             Resolve(s, rs)
      BY <1>2, ResolvesHow
    <2>2. pos <= Len(ir.order) /\ pc \in {"enter", "settle"} /\ result = "none"
      BY <1>2, ResolvesHow DEF OrderInv, Working
    <2>3. /\ nodeStatus' = [nodeStatus EXCEPT ![Current] = s] /\ runStatus' = rs
          /\ pos' = pos + 1 /\ pc' \in {"enter", "finalise"}
          /\ UNCHANGED <<ir, answered, result>>
      BY <2>1, <2>2, ResolveFrame
    <2>4. \A i \in DOMAIN ir.order : nodeStatus'[ir.order[i]] # "none" <=> i < pos + 1
      <3> SUFFICES ASSUME NEW i \in DOMAIN ir.order
                   PROVE  nodeStatus'[ir.order[i]] # "none" <=> i < pos + 1
        OBVIOUS
      <3>1. CASE i = pos
        BY <2>2, <2>3, <3>1, Positions DEF TypeOK
      <3>2. CASE i # pos
        <4>1. ir.order[i] # Current
          BY <2>2, <3>2, Positions
        <4>2. nodeStatus'[ir.order[i]] = nodeStatus[ir.order[i]]
          BY <2>3, <4>1, Positions DEF TypeOK
        <4> QED  BY <3>2, <4>2, Positions DEF OrderInv
      <3> QED  BY <3>1, <3>2
    <2>5. \A i \in DOMAIN ir.order : i > pos + 1 => ir.order[i] # answered
      BY Positions DEF OrderInv
    <2> QED  BY <2>2, <2>3, <2>4, <2>5 DEF OrderInv, Working, Attempting
  <1>3. CASE Schedule
    BY <1>3, ScheduleFrame, OrderKept DEF OrderInv, Working, Attempting
  <1>4. CASE Works
    BY <1>4, WorksFrame, OrderKept DEF OrderInv, Working, Attempting
  <1>5. CASE Finalise
    <2>1. /\ UNCHANGED <<ir, nodeStatus, answered, pos, runStatus>>
          /\ pc' = "cleanup" /\ result' = FinalStatus /\ runStatus # "none"
      BY <1>5 DEF Finalise, state, OrderInv
    <2>2. result' # "none"
      BY <2>1 DEF FinalStatus
    <2> QED  BY <2>1, <2>2, OrderKept DEF OrderInv, Working, Attempting
  <1>6. CASE ReturnResumed \/ Cleanup
    <2>1. /\ UNCHANGED <<ir, nodeStatus, answered, pos, runStatus>>
          /\ pc' = AfterGraph /\ result' # "none" /\ runStatus # "none"
      BY <1>6 DEF ReturnResumed, Cleanup, state, caller, OrderInv
    <2> QED  BY <2>1, OrderKept, Positions DEF AfterGraph, OrderInv, Working, Attempting
  <1>7. CASE Resume
    <2>1. /\ UNCHANGED <<ir, nodeStatus, pos, runStatus>> /\ pos <= Len(ir.order)
          /\ pc' = "enter" /\ answered' = Current /\ result' = "none" /\ runStatus # "none"
      BY <1>7 DEF Resume, state, OrderInv, TypeOK
    <2>2. \A i \in DOMAIN ir.order : i > pos => ir.order[i] # Current
      BY <2>1, Positions
    <2> QED  BY <2>1, <2>2 DEF OrderInv, Working, Attempting
  <1>8. CASE Abort
    <2>1. UNCHANGED <<ir, nodeStatus, answered, pos>> /\ pc' = "aborted"
      BY <1>8 DEF Abort, state, caller
    <2> QED  BY <2>1, OrderKept DEF OrderInv, Working, Attempting
  <1>9. CASE Aside
    <2>1. pc = "new" => UNCHANGED <<cancelEvent, cancelPos>>
      BY <1>9 DEF Aside, CancelRun, OrderInv
    <2> QED  BY <1>9, <2>1, OrderKept DEF Aside, OrderInv, Working, Attempting
  <1> QED
    BY <1>1, <1>2, <1>3, <1>4, <1>5, <1>6, <1>7, <1>8, <1>9, StepKinds

-----------------------------------------------------------------------------
(* The edges that fire.                                                    *)

\* A node that has completed stays completed: only a node without a status is resolved.
LEMMA CompletedStays ==
    ASSUME TypeOK, OrderInv, Resolves, NEW n \in Node, nodeStatus[n] # "none"
    PROVE  nodeStatus'[n] = nodeStatus[n]
  <1>1. PICK s, rs : Resolve(s, rs)
    BY ResolvesHow
  <1>2. pos <= Len(ir.order)
    BY ResolvesHow
  <1>3. n # Current
    BY <1>2, Positions DEF OrderInv
  <1> QED  BY <1>1, <1>2, <1>3, ResolveFrame DEF TypeOK

\* What the choice of edges gives: edges into the current node from completed nodes.
LEMMA Activating ==
    ASSUME TypeOK, FiringInv, pos <= Len(ir.order), NEW F \in ActivatingSets
    PROVE  /\ \A e \in F : e \in Incoming(ir, Current) /\ nodeStatus[e.source] = "completed"
           /\ F # {} \/ Current \in failureRoutes
           /\ answered = Current => F = firing
  BY DEF ActivatingSets, FiringSets, FiringInv

\* A step that leaves the current node and the completed ones alone keeps its edges.
LEMMA FiringKept ==
    ASSUME FiringInv, UNCHANGED <<ir, nodeStatus, failureRoutes, firing, answered, pos>>,
           pc' \in Working \cup {"finalise", "cleanup", "suspended"} /\ pos <= Len(ir.order)
              => pc \in Working \cup {"finalise", "cleanup", "suspended"} \/ answered = Current
    PROVE  FiringInv'
  BY DEF FiringInv, Current, Incoming

\* What is executed stays led to.
LEMMA FiringStep == TypeOK /\ OrderInv /\ FiringInv /\ [Next]_vars => FiringInv'
  <1> SUFFICES ASSUME TypeOK, OrderInv, FiringInv, [Next]_vars PROVE FiringInv'  OBVIOUS
  <1>1. CASE Start
    BY <1>1, FiringKept DEF Start, locals, caller, Working, Attempting
  <1>2. CASE Resolves
    <2>1. PICK s \in NodeStatus \ {"none"}, rs \in {"running", "failed", "cancelled"} :
             Resolve(s, rs)
      BY <1>2, ResolvesHow
    <2>2. pos <= Len(ir.order)
      BY <1>2, ResolvesHow
    <2>3. /\ firing' = {} /\ pos' = pos + 1 /\ UNCHANGED <<ir, answered>>
          /\ pc' = IF pos = Len(ir.order) THEN "finalise" ELSE "enter"
      BY <2>1, <2>2, ResolveFrame
    <2>4. pos' <= Len(ir'.order) => pc' = "enter" /\ answered' # Current'
      BY <2>2, <2>3, Positions DEF OrderInv, Current
    <2> QED  BY <2>3, <2>4 DEF FiringInv, Working, Attempting
  <1>3. CASE Schedule
    <2>1. /\ pos <= Len(ir.order) /\ firing' \in ActivatingSets
          /\ UNCHANGED <<ir, nodeStatus, failureRoutes, pos>>
      BY <1>3, ScheduleFrame
    <2>2. Current' = Current
      BY <2>1 DEF Current
    <2> QED  BY <2>1, <2>2, Activating DEF FiringInv, Incoming
  <1>4. CASE Works
    BY <1>4, WorksFrame, FiringKept
  <1>5. CASE Finalise
    BY <1>5, FiringKept DEF Finalise, state, locals
  <1>6. CASE ReturnResumed \/ Cleanup
    BY <1>6, FiringKept DEF ReturnResumed, Cleanup, state, locals, caller
  <1>7. CASE Resume
    BY <1>7 DEF Resume, state, FiringInv, Current, Incoming
  <1>8. CASE Abort
    BY <1>8, FiringKept DEF Abort, state, locals, caller, Working, Attempting
  <1>9. CASE Aside
    BY <1>9, FiringKept DEF Aside
  <1> QED
    BY <1>1, <1>2, <1>3, <1>4, <1>5, <1>6, <1>7, <1>8, <1>9, StepKinds

-----------------------------------------------------------------------------
(* The nodes whose providers were invoked.                                 *)

\* What leads to a node goes on leading to it.
LEMMA LedStays ==
    ASSUME TypeOK, OrderInv, [Next]_vars, NEW n, Led(n)
    PROVE  Led(n)'
  <1>1. CASE Resolves
    <2>1. failureRoutes \subseteq failureRoutes' /\ ir' = ir
      BY <1>1, ResolvesHow, ResolveFrame
    <2>2. \A e \in Incoming(ir, n) : nodeStatus[e.source] = "completed"
             => nodeStatus'[e.source] = "completed"
      BY <1>1, CompletedStays, ProcessShape DEF Incoming, Edge
    <2> QED  BY <2>1, <2>2 DEF Led, Incoming
  <1>2. CASE ~Resolves
    <2>1. UNCHANGED <<ir, nodeStatus, failureRoutes>>
      BY <1>2, StepKinds, ScheduleFrame, WorksFrame DEF Start, Finalise, ReturnResumed, Cleanup,
         Resume, Abort, Aside, state
    <2> QED  BY <2>1 DEF Led, Incoming
  <1> QED  BY <1>1, <1>2

\* Providers are invoked for the current node only.
LEMMA TaskStep == TypeOK /\ OrderInv /\ FiringInv /\ TaskInv /\ [Next]_vars => TaskInv'
  <1> SUFFICES ASSUME TypeOK, OrderInv, FiringInv, TaskInv, [Next]_vars,
                      NEW hd \in Handle, task'[hd] # "none"
               PROVE  /\ Led(hd[1])'
                      /\ \E i \in DOMAIN ir'.order : i <= pos' /\ ir'.order[i] = hd[1]
    BY DEF TaskInv
  <1>1. ir' = ir /\ pos' \in {pos, pos + 1}
    <2>1. CASE Resolves
      BY <2>1, ResolvesHow, ResolveFrame, Positions
    <2>2. CASE ~Resolves
      BY <2>2, StepKinds, ScheduleFrame, WorksFrame, Positions DEF Start, Finalise,
         ReturnResumed, Cleanup, Resume, Abort, Aside
    <2> QED  BY <2>1, <2>2
  <1>2. CASE task[hd] # "none"
    <2>1. Led(hd[1]) /\ \E i \in DOMAIN ir.order : i <= pos /\ ir.order[i] = hd[1]
      BY <1>2 DEF TaskInv
    <2>2. \E i \in DOMAIN ir'.order : i <= pos' /\ ir'.order[i] = hd[1]
      BY <1>1, <2>1, Positions
    <2> QED  BY <2>1, <2>2, LedStays
  <1>3. CASE task[hd] = "none"
    <2>1. Works
      <3>1. CASE Resolves
        BY <1>3, <3>1, ResolvesHow, ResolveFrame
      <3> QED
        BY <1>3, <3>1, StepKinds, ScheduleFrame DEF Start, Finalise, ReturnResumed, Cleanup,
           Resume, Abort, Aside, provider
    <2>2. hd = CurrentHandle /\ pos <= Len(ir.order) /\ pc \in Working
      BY <1>3, <2>1, WorksFrame
    <2>3. hd[1] = Current
      BY <2>2 DEF CurrentHandle
    <2>4. Led(hd[1])
      BY <2>2, <2>3 DEF FiringInv, Led
    <2>5. pos \in DOMAIN ir'.order /\ pos <= pos' /\ ir'.order[pos] = hd[1]
      BY <1>1, <2>2, <2>3, Positions
    <2> QED  BY <2>4, <2>5, LedStays
  <1> QED  BY <1>2, <1>3

-----------------------------------------------------------------------------
(* Events.                                                                 *)

\* The last event of a node when it is resolved.
LEMMA ResolvesTold ==
    ASSUME TypeOK, OrderInv, EventInv, Resolves, NEW n \in Node, n = Current
    PROVE  Told(n)'
  <1>1. pos <= Len(ir.order) /\ pos \in DOMAIN ir.order /\ n = ir.order[pos]
    BY ResolvesHow, Positions
  <1>2. ASSUME NEW s, NEW rs, Resolve(s, rs) PROVE ir' = ir /\ nodeStatus'[n] = s
    BY <1>1, <1>2, ResolveFrame DEF TypeOK
  <1>3. ASSUME NEW ev, EmitNode(ev) PROVE lastEvent'[n] = ev
    BY <1>3 DEF EmitNode, TypeOK
  <1>4. CASE SkipAfterFailure
    BY <1>1, <1>2, <1>4 DEF SkipAfterFailure, EventInv, NodesTold, Told
  <1>5. CASE CancelAtEntry \/ CompleteTrigger \/ SkipInactive
    BY <1>2, <1>3, <1>5 DEF CancelAtEntry, CompleteTrigger, SkipInactive, Told
  <1>6. CASE FailMapping \/ FailInput \/ BlockByPolicy \/ FailProvider \/ ReuseResult
    BY <1>2, <1>3, <1>6 DEF FailMapping, FailInput, BlockByPolicy, FailProvider, ReuseResult, Told
  <1>7. CASE TimeOutWithFallback
    BY <1>2, <1>3, <1>7 DEF TimeOutWithFallback, Told
  <1>8. CASE TimeOut \/ FailOutput \/ Complete
    BY <1>2, <1>3, <1>8 DEF TimeOut, FailOutput, Complete, Told
  <1>9. CASE Fail
    BY <1>2, <1>3, <1>9 DEF Fail, Told
  <1> QED
    BY <1>4, <1>5, <1>6, <1>7, <1>8, <1>9 DEF Resolves

\* Resolving the current node emits no event for another.
LEMMA ResolvesQuietly ==
    ASSUME TypeOK, OrderInv, Resolves, NEW n \in Node, n # Current
    PROVE  lastEvent'[n] = lastEvent[n]
  BY DEF Resolves, SkipAfterFailure, CancelAtEntry, CompleteTrigger, SkipInactive,
     FailMapping, FailInput, BlockByPolicy, FailProvider, ReuseResult, TimeOutWithFallback,
     TimeOut, Fail, FailOutput, Complete, EmitNode, TypeOK

\* Where no node is resolved and the run has not failed meanwhile, only the current
\* node may have an event more.
LEMMA EventKept ==
    ASSUME TypeOK, NodesTold, UNCHANGED <<ir, nodeStatus, pos>>,
           \A n \in Node : lastEvent'[n] = lastEvent[n]
              \/ (pos <= Len(ir.order) /\ n = Current /\ runStatus' = "running"),
           runStatus' = runStatus \/ runStatus' = "running"
    PROVE  NodesTold'
  <1> SUFFICES ASSUME NEW i \in DOMAIN ir.order
               PROVE  /\ i < pos => Told(ir.order[i])'
                      /\ i > pos => lastEvent'[ir.order[i]] = "none"
                      /\ i = pos => lastEvent'[ir.order[i]] = "none" \/ runStatus' # "failed"
    BY DEF NodesTold, Told
  <1>1. i # pos => lastEvent'[ir.order[i]] = lastEvent[ir.order[i]]
    BY Positions
  <1>2. i = pos => lastEvent'[ir.order[i]] = lastEvent[ir.order[i]] \/ runStatus' = "running"
    BY Positions
  <1> QED  BY <1>1, <1>2, Positions DEF NodesTold, Told

\* The events keep pace with the statuses.
LEMMA EventStep == TypeOK /\ OrderInv /\ EventInv /\ [Next]_vars => EventInv'
  <1> SUFFICES ASSUME TypeOK, OrderInv, EventInv, [Next]_vars PROVE EventInv'  OBVIOUS
  <1>1. CASE Start
    <2>1. UNCHANGED <<ir, nodeStatus, pos, lastEvent>>
      BY <1>1 DEF Start
    <2>2. runStatus' = runStatus \/ runStatus' = "running"
      BY <1>1 DEF Start
    <2>3. NodesTold
      BY DEF EventInv
    <2>4. NodesTold'
      BY <2>1, <2>2, <2>3, EventKept
    <2>5. pc' \notin {"cleanup", "done"}
      BY <1>1 DEF Start
    <2> QED  BY <2>4, <2>5 DEF EventInv
  <1>2. CASE Resolves
    <2>1. PICK s \in NodeStatus \ {"none"}, rs \in {"running", "failed", "cancelled"} :
             Resolve(s, rs)
      BY <1>2, ResolvesHow
    <2>2. pos <= Len(ir.order)
      BY <1>2, ResolvesHow
    <2>3. /\ nodeStatus' = [nodeStatus EXCEPT ![Current] = s] /\ ir' = ir
          /\ pos' = pos + 1 /\ pc' \in {"enter", "finalise"}
      BY <2>1, <2>2, ResolveFrame
    <2>4. ASSUME NEW i \in DOMAIN ir.order, NEW n \in Node, n = ir.order[i]
          PROVE  /\ i < pos + 1 => Told(n)'
                 /\ i > pos => lastEvent'[n] = lastEvent[n]
      <3>1. CASE i = pos
        BY <1>2, <2>2, <2>4, <3>1, ResolvesTold, Positions
      <3>2. CASE i # pos
        <4>1. n # Current
          BY <2>2, <2>4, <3>2, Positions
        <4>2. nodeStatus'[n] = nodeStatus[n] /\ lastEvent'[n] = lastEvent[n]
          BY <1>2, <2>3, <4>1, ResolvesQuietly DEF TypeOK
        <4>3. i < pos => Told(n)'
          BY <2>3, <2>4, <4>2 DEF EventInv, NodesTold, Told
        <4> QED  BY <3>2, <4>2, <4>3, Positions
      <3> QED  BY <3>1, <3>2
    <2> QED  BY <2>3, <2>4, Positions DEF EventInv, NodesTold, Told
  <1>3. CASE Schedule
    BY <1>3, ScheduleFrame, EventKept DEF EventInv
  <1>4. CASE Works
    <2>1. runStatus = "running"
      BY <1>4, WorksFrame DEF OrderInv
    <2> QED  BY <1>4, <2>1, WorksFrame, EventKept DEF EventInv, Working, Attempting
  <1>5. CASE Finalise
    BY <1>5, EventKept DEF Finalise, EventInv, FinalStatus, state
  <1>6. CASE ReturnResumed \/ Cleanup
    BY <1>6, EventKept DEF ReturnResumed, Cleanup, EventInv, AfterGraph, state, events, caller
  <1>7. CASE Resume
    BY <1>7, EventKept DEF Resume, EventInv, state, events
  <1>8. CASE Abort
    BY <1>8, EventKept DEF Abort, EventInv, state, events, caller
  <1>9. CASE Aside
    BY <1>9, EventKept DEF Aside, EventInv
  <1> QED
    BY <1>1, <1>2, <1>3, <1>4, <1>5, <1>6, <1>7, <1>8, <1>9, StepKinds

-----------------------------------------------------------------------------
(* Failures and their handlers.                                            *)

\* The handlers that Fail hands a failure to are handlers of the node.
LEMMA HandlersNamed ==
    ASSUME TypeOK, FiringInv, pos <= Len(ir.order)
    PROVE  FailureHandlers \subseteq HandlersOf(ir, Current)
  BY DEF FailureHandlers, HandlersOf, FiringInv

\* A step that leaves statuses and failure routes alone.
LEMMA HealthKept ==
    ASSUME HealthInv, UNCHANGED <<ir, nodeStatus, failureRoutes, recoverable, runStatus>>
    PROVE  HealthInv'
  BY DEF HealthInv

\* A node that fails in a run that goes on has been handed to a handler.
LEMMA ResolvesHealth ==
    ASSUME TypeOK, OrderInv, FiringInv, HealthInv, Resolves
    PROVE  HealthInv'
  <1>1. PICK s \in NodeStatus \ {"none"}, rs \in {"running", "failed", "cancelled"} :
           /\ Resolve(s, rs)
           /\ Halted => rs = runStatus
           /\ s = "cancelled" => rs = "cancelled"
    BY ResolvesHow
  <1>2. pos <= Len(ir.order) /\ Current \in Node /\ failureRoutes \subseteq failureRoutes'
    BY ResolvesHow, CurrentType
  <1>3. nodeStatus' = [nodeStatus EXCEPT ![Current] = s] /\ ir' = ir /\ runStatus' = rs
    BY <1>1, <1>2, ResolveFrame
  <1>4. runStatus' = "running" => runStatus = "running"
    <2>1. runStatus \in {"running", "failed", "cancelled"}
      BY ResolvesHow DEF OrderInv, Working, TypeOK
    <2> QED  BY <1>1, <1>3, <2>1 DEF Halted
  <1>5. ASSUME NEW n \in recoverable'
        PROVE  HandlersOf(ir, n) \cap failureRoutes' # {}
    <2>1. CASE n \in recoverable
      BY <1>2, <2>1 DEF HealthInv, TypeOK
    <2>2. CASE n \notin recoverable
      <3>1. Fail /\ n = Current /\ FailureHandlers # {}
        BY <1>5, <2>2 DEF Resolves, SkipAfterFailure, CancelAtEntry, CompleteTrigger,
           SkipInactive, FailMapping, FailInput, BlockByPolicy, FailProvider, ReuseResult,
           NoRoutes, TimeOutWithFallback, TimeOut, Fail, FailOutput, Complete
      <3>2. FailureHandlers \subseteq failureRoutes'
        BY <3>1 DEF Fail
      <3> QED  BY <1>2, <3>1, <3>2, HandlersNamed
    <2> QED  BY <2>1, <2>2
  <1>6. ASSUME NEW n \in Node, runStatus' = "running", nodeStatus'[n] = "timed_out"
        PROVE  Escalation(ir, n, "timeout") \cap failureRoutes' # {}
    <2>1. CASE n = Current
      <3>1. s = "timed_out"
        BY <1>2, <1>3, <1>6, <2>1 DEF TypeOK
      <3>2. TimeOut
        BY <1>2, <1>3, <3>1, ResolveFrame DEF Resolves, SkipAfterFailure, CancelAtEntry,
           CompleteTrigger, SkipInactive, FailMapping, FailInput, BlockByPolicy, FailProvider,
           ReuseResult, TimeOutWithFallback, Fail, FailOutput, Complete, Resolve, TypeOK
      <3>3. Escalation(ir, n, "timeout") # {} /\ Escalation(ir, n, "timeout") \subseteq failureRoutes'
        BY <1>2, <1>6, <2>1, <3>2 DEF TimeOut, Resolve
      <3> QED  BY <3>3
    <2>2. CASE n # Current
      <3>1. nodeStatus[n] = "timed_out"
        BY <1>3, <1>6, <2>2 DEF TypeOK
      <3> QED  BY <1>2, <1>4, <1>6, <3>1 DEF HealthInv
    <2> QED  BY <2>1, <2>2
  <1>7. ASSUME NEW n \in Node, runStatus' = "running"
        PROVE  nodeStatus'[n] # "cancelled"
    <2>1. CASE n = Current
      BY <1>1, <1>2, <1>3, <1>7, <2>1 DEF TypeOK
    <2>2. CASE n # Current
      BY <1>3, <1>4, <1>7, <2>2 DEF HealthInv, TypeOK
    <2> QED  BY <2>1, <2>2
  <1> QED  BY <1>3, <1>5, <1>6, <1>7 DEF HealthInv

\* No failure is forgotten.
LEMMA HealthStep ==
    TypeOK /\ OrderInv /\ FiringInv /\ HealthInv /\ [Next]_vars => HealthInv'
  <1> SUFFICES ASSUME TypeOK, OrderInv, FiringInv, HealthInv, [Next]_vars PROVE HealthInv'
    OBVIOUS
  <1>1. CASE Start
    <2>1. \A n \in Node : nodeStatus[n] \notin {"timed_out", "cancelled"}
      BY <1>1 DEF Start, OrderInv
    <2>2. UNCHANGED <<ir, nodeStatus, failureRoutes, recoverable>>
      BY <1>1 DEF Start
    <2> QED
      BY <2>1, <2>2 DEF HealthInv
  <1>2. CASE Resolves
    BY <1>2, ResolvesHealth
  <1>3. CASE Schedule
    BY <1>3, ScheduleFrame, HealthKept
  <1>4. CASE Works
    BY <1>4, WorksFrame, HealthKept
  <1>5. CASE Finalise \/ ReturnResumed \/ Cleanup \/ Resume \/ Abort
    BY <1>5, HealthKept DEF Finalise, ReturnResumed, Cleanup, Resume, Abort, state
  <1>6. CASE Aside
    BY <1>6, HealthKept DEF Aside
  <1> QED
    BY <1>1, <1>2, <1>3, <1>4, <1>5, <1>6, StepKinds

-----------------------------------------------------------------------------
(* Cancellation.                                                           *)

\* A node after the cancelled one is skipped or cancelled.
LEMMA ResolvesCancel ==
    ASSUME TypeOK, OrderInv, CancelInv, Resolves
    PROVE  CancelInv'
  <1>1. PICK s \in NodeStatus \ {"none"}, rs \in {"running", "failed", "cancelled"} :
           /\ Resolve(s, rs)
           /\ Halted => rs = runStatus
           /\ cancelEvent = "set" /\ pc = "enter"
                 => s \in {"skipped", "cancelled"} /\ rs \in {"failed", "cancelled"}
    BY ResolvesHow
  <1>2. pos <= Len(ir.order) /\ pc \in {"enter", "settle"}
    BY ResolvesHow
  <1>3. /\ nodeStatus' = [nodeStatus EXCEPT ![Current] = s] /\ runStatus' = rs
        /\ pos' = pos + 1 /\ pc' \in {"enter", "finalise"}
        /\ UNCHANGED <<ir, driver, result, cancelEvent, cancelPos, task>>
    BY <1>1, <1>2, ResolveFrame
  <1>4. cancelPos' <= pos'
    BY <1>3, Positions DEF CancelInv
  <1>5. ASSUME driver = "run", cancelPos > 0
        PROVE  /\ cancelEvent = "set"
               /\ pos > cancelPos =>
                    s \in {"skipped", "cancelled"} /\ rs \in {"failed", "cancelled"}
    BY <1>1, <1>2, <1>5 DEF CancelInv, Working
  <1>6. ASSUME driver = "run", cancelPos > 0, NEW i \in DOMAIN ir.order, i > cancelPos
        PROVE  nodeStatus'[ir.order[i]] \in {"none", "skipped", "cancelled"}
    <2>1. CASE i = pos
      BY <1>2, <1>3, <1>5, <1>6, <2>1, Positions DEF TypeOK
    <2>2. CASE i # pos
      <3>1. ir.order[i] # Current
        BY <1>2, <2>2, Positions
      <3> QED  BY <1>3, <1>6, <3>1, Positions DEF CancelInv, TypeOK
    <2> QED  BY <2>1, <2>2
  <1>7. ASSUME driver = "run", cancelPos > 0, pos + 1 > cancelPos + 1
        PROVE  rs \in {"failed", "cancelled"}
    BY <1>5, <1>7, Positions
  <1> QED
    BY <1>3, <1>4, <1>5, <1>6, <1>7 DEF CancelInv, Working, Attempting, Halted

\* No step gets past a cancel request.
LEMMA CancelStep ==
    TypeOK /\ OrderInv /\ TaskInv /\ CancelInv /\ [Next]_vars => CancelInv'
  <1> SUFFICES ASSUME TypeOK, OrderInv, TaskInv, CancelInv, [Next]_vars PROVE CancelInv'
    OBVIOUS
  <1>1. CASE Start
    <2>1. cancelPos' = 0 /\ pos' = pos
      BY <1>1 DEF Start, canceller, OrderInv
    <2> QED  BY <2>1, Positions DEF CancelInv
  <1>2. CASE Resolves
    BY <1>2, ResolvesCancel
  <1>3. CASE Schedule
    <2>1. ~(driver = "run" /\ cancelPos > 0)
      BY <1>3, ScheduleFrame DEF CancelInv
    <2>2. UNCHANGED <<driver, cancelPos, pos>>
      BY <1>3, ScheduleFrame
    <2> QED  BY <2>1, <2>2 DEF CancelInv
  <1>4. CASE Works
    <2>1. /\ pc \in Working /\ pos \in DOMAIN ir.order /\ pc' \in Working \cup {"finalise"}
          /\ UNCHANGED <<ir, nodeStatus, runStatus, driver, result, cancelEvent, cancelPos, pos>>
      BY <1>4, WorksFrame, Positions
    <2>2. ASSUME NEW i \in DOMAIN ir.order, i > pos, NEW k \in 1..MaxAttempts
          PROVE  task'[<<ir.order[i], k>>] = task[<<ir.order[i], k>>]
      <3>1. <<ir.order[i], k>> \in Handle /\ <<ir.order[i], k>> # CurrentHandle
        BY <2>1, <2>2, Positions DEF Handle, CurrentHandle
      <3> QED  BY <1>4, <3>1, WorksFrame
    <2>3. driver = "run" /\ cancelPos > 0 => cancelPos = pos
      BY <2>1, Positions DEF CancelInv
    <2> QED  BY <2>1, <2>2, <2>3 DEF CancelInv, Working, Attempting, Halted
  <1>5. CASE Finalise
    <2>1. /\ UNCHANGED <<ir, nodeStatus, runStatus, driver, cancelEvent, cancelPos, task, pos>>
          /\ pc' = "cleanup" /\ pc = "finalise" /\ result' = FinalStatus
      BY <1>5 DEF Finalise, state, shared, canceller, provider
    <2>2. Halted => result' \in {"failed", "cancelled"}
      BY <2>1 DEF FinalStatus, Halted
    <2> QED  BY <2>1, <2>2 DEF CancelInv, Halted, Working, Attempting
  <1>6. CASE ReturnResumed \/ Resume
    <2>1. driver' = "resume" /\ UNCHANGED <<cancelPos, pos>>
      BY <1>6 DEF ReturnResumed, Resume, canceller
    <2> QED  BY <2>1 DEF CancelInv
  <1>7. CASE Cleanup
    <2>1. /\ UNCHANGED <<ir, nodeStatus, runStatus, driver, result, cancelPos, task, pos>>
          /\ pc' \in {"suspended", "done"} /\ pc = "cleanup"
      BY <1>7 DEF Cleanup, AfterGraph, state, caller, canceller, provider
    <2> QED  BY <2>1 DEF CancelInv, Halted, Working, Attempting
  <1>8. CASE Abort
    <2>1. /\ UNCHANGED <<ir, nodeStatus, runStatus, driver, result, cancelEvent, cancelPos,
                         task, pos>>
          /\ pc' = "aborted" /\ pc \notin {"suspended", "done"}
      BY <1>8 DEF Abort, FirstVisit, Activates, Proceeds, state, caller, canceller, provider
    <2> QED  BY <2>1 DEF CancelInv, Halted, Working, Attempting
  <1>9. CASE Aside
    <2>1. /\ UNCHANGED <<ir, nodeStatus, runStatus, driver, result, pc, pos>>
          /\ \A hd \in Handle : task'[hd] = "none" <=> task[hd] = "none"
      BY <1>9 DEF Aside
    <2>2. \A i \in DOMAIN ir.order, k \in 1..MaxAttempts :
             task'[<<ir.order[i], k>>] = "none" <=> task[<<ir.order[i], k>>] = "none"
      BY <2>1, Positions DEF Handle
    <2>3. CASE UNCHANGED <<cancelEvent, cancelPos>>
      BY <2>1, <2>2, <2>3 DEF CancelInv, Halted
    <2>4. CASE CancelRun /\ cancelPos > 0
      BY <2>1, <2>2, <2>4 DEF CancelRun, CancelInv, Halted
    <2>5. CASE CancelRun /\ cancelPos = 0
      <3>1. cancelEvent' = "set" /\ cancelPos' = pos
        BY <2>5 DEF CancelRun
      <3>2. ASSUME NEW i \in DOMAIN ir.order, i > pos, NEW k \in 1..MaxAttempts
            PROVE  task[<<ir.order[i], k>>] = "none"
        <4>1. <<ir.order[i], k>> \in Handle
          BY Positions DEF Handle
        <4>2. ~ \E j \in DOMAIN ir.order : j <= pos /\ ir.order[j] = ir.order[i]
          BY <3>2, Positions
        <4> QED  BY <4>1, <4>2 DEF TaskInv
      <3>3. \A i \in DOMAIN ir.order : i > pos => nodeStatus[ir.order[i]] = "none"
        BY Positions DEF OrderInv
      <3> QED  BY <2>1, <2>2, <3>1, <3>2, <3>3, Positions DEF CancelInv
    <2> QED  BY <1>9, <2>3, <2>4, <2>5, Positions DEF Aside
  <1> QED
    BY <1>1, <1>2, <1>3, <1>4, <1>5, <1>6, <1>7, <1>8, <1>9, StepKinds

-----------------------------------------------------------------------------
(* The invariant holds, and what follows from it.                          *)

WalkInv ==
    TypeOK /\ OrderInv /\ FiringInv /\ TaskInv /\ EventInv /\ HealthInv /\ CancelInv

\* The walk has not begun.
LEMMA WalkInit == Init => OrderInv /\ FiringInv /\ TaskInv /\ EventInv /\ HealthInv /\ CancelInv
  <1> SUFFICES ASSUME Init
               PROVE  OrderInv /\ FiringInv /\ TaskInv /\ EventInv /\ HealthInv /\ CancelInv
    OBVIOUS
  <1>1. /\ ir.order \in Seq(Node) /\ ir.order # << >>
    BY ProcessesAssumption DEF Init, Compiled, Process
  <1>2. \A i \in DOMAIN ir.order : ~(i < 1) /\ ir.order[i] \in Node /\ ir.order[i] # NoNode
    <2>1. DOMAIN ir.order = 1..Len(ir.order) /\ Len(ir.order) \in Nat
      BY <1>1
    <2>2. \A i \in 1..Len(ir.order) : ir.order[i] \in Node
      BY <1>1
    <2> QED  BY <2>1, <2>2, NoNodeAssumption
  <1>3. OrderInv
    <2>1. /\ \A i \in DOMAIN ir.order : nodeStatus[ir.order[i]] # "none" <=> i < pos
          /\ \A i \in DOMAIN ir.order : i > pos => ir.order[i] # answered
      BY <1>2 DEF Init
    <2> QED  BY <2>1 DEF Init, OrderInv, Working, Attempting
  <1>4. FiringInv
    <2>1. answered # Current /\ firing = {} /\ pc = "new"
      BY <1>1, <1>2 DEF Init, Current
    <2> QED  BY <2>1 DEF FiringInv, Working, Attempting
  <1>5. TaskInv
    BY DEF Init, TaskInv
  <1>6. EventInv
    BY <1>2 DEF Init, EventInv, NodesTold
  <1>7. HealthInv
    BY DEF Init, HealthInv
  <1>8. CancelInv
    BY DEF Init, CancelInv
  <1> QED  BY <1>3, <1>4, <1>5, <1>6, <1>7, <1>8

\* In every reachable state: the nodes before the current one and no others have a
\* status, what was executed was led to, every failure has its handler, and a
\* cancelled run has resolved nothing since but by skipping and cancelling.
THEOREM WalkCorrect == Spec => []WalkInv
  <1>1. TypeOK /\ OrderInv /\ [Next]_vars => OrderInv'
    BY OrderStep
  <1>2. TypeOK /\ OrderInv /\ FiringInv /\ [Next]_vars => FiringInv'
    BY FiringStep
  <1>3. TypeOK /\ OrderInv /\ FiringInv /\ TaskInv /\ [Next]_vars => TaskInv'
    BY TaskStep
  <1>4. TypeOK /\ OrderInv /\ EventInv /\ [Next]_vars => EventInv'
    BY EventStep
  <1>5. TypeOK /\ OrderInv /\ FiringInv /\ HealthInv /\ [Next]_vars => HealthInv'
    BY HealthStep
  <1>6. TypeOK /\ OrderInv /\ TaskInv /\ CancelInv /\ [Next]_vars => CancelInv'
    BY CancelStep
  <1> QED
    BY <1>1, <1>2, <1>3, <1>4, <1>5, <1>6, WalkInit, TypeCorrect, PTL DEF Spec, WalkInv

\* A provider is invoked only for a node that an edge or a failure route leads to,
\* after every node before it has been resolved.
THEOREM OnlyActiveNodesRunCorrect == Spec => []OnlyActiveNodesRun
  <1>1. ASSUME WalkInv, NEW hd \in Handle, task[hd] # "none"
        PROVE  /\ \/ hd[1] \in failureRoutes
                  \/ \E e \in Incoming(ir, hd[1]) : nodeStatus[e.source] = "completed"
               /\ \A i, j \in DOMAIN ir.order :
                     i < j /\ ir.order[j] = hd[1] => nodeStatus[ir.order[i]] # "none"
    <2>1. Led(hd[1])
      BY <1>1 DEF WalkInv, TaskInv
    <2>2. PICK k \in DOMAIN ir.order : k <= pos /\ ir.order[k] = hd[1]
      BY <1>1 DEF WalkInv, TaskInv
    <2>3. ASSUME NEW i \in DOMAIN ir.order, NEW j \in DOMAIN ir.order, i < j,
                 ir.order[j] = hd[1]
          PROVE  nodeStatus[ir.order[i]] # "none"
      <3>1. j = k /\ i < pos
        BY <1>1, <2>2, <2>3, Positions DEF WalkInv
      <3> QED  BY <1>1, <3>1 DEF WalkInv, OrderInv
    <2> QED  BY <2>1, <2>3 DEF Led
  <1>2. WalkInv => OnlyActiveNodesRun
    BY <1>1 DEF OnlyActiveNodesRun
  <1> QED  BY <1>2, WalkCorrect, PTL

\* A cancel request stops every node after the current one, whatever cancel_run() and
\* the run thread do at the same time, and a run cancelled before its last node never
\* ends completed.
THEOREM CancelWinsCorrect == Spec => []CancelWins
  <1>1. WalkInv => CancelWins
    <2> SUFFICES ASSUME WalkInv, driver = "run", cancelPos > 0
                 PROVE  /\ \A i \in DOMAIN ir.order : i > cancelPos =>
                              /\ nodeStatus[ir.order[i]] \in {"none", "skipped", "cancelled"}
                              /\ \A k \in 1..MaxAttempts : task[<<ir.order[i], k>>] = "none"
                        /\ pc = "done" /\ cancelPos < Len(ir.order)
                              => result \in {"cancelled", "failed"}
      BY DEF CancelWins
    <2>1. pc = "done" /\ cancelPos < Len(ir.order) => pos > cancelPos + 1
      BY Positions DEF WalkInv, OrderInv
    <2> QED  BY <2>1 DEF WalkInv, CancelInv
  <1> QED  BY <1>1, WalkCorrect, PTL

\* The event stream of a run that has ended agrees with the statuses it returns.
THEOREM EventsTellStatusCorrect == Spec => []EventsTellStatus
  <1>1. WalkInv => EventsTellStatus
    <2> SUFFICES ASSUME WalkInv, pc = "done"
                 PROVE  /\ \A n \in NodesOf(ir) : Told(n)
                        /\ driver = "run" => (runEvent = "run_completed" <=> result = "completed")
      BY DEF EventsTellStatus, Told
    <2>1. \A i \in DOMAIN ir.order : i < pos
      BY Positions DEF WalkInv, OrderInv
    <2> QED  BY <2>1 DEF WalkInv, EventInv, NodesTold, NodesOf
  <1> QED  BY <1>1, WalkCorrect, PTL

\* Once a run has failed or been cancelled, no step invokes a provider, completes a
\* node, routes another failure or lets the run recover.
THEOREM HaltedStaysHaltedCorrect == Spec => HaltedStaysHalted
  <1>1. WalkInv /\ [Next]_vars => [Halted => Frozen]_vars
    <2> SUFFICES ASSUME WalkInv, [Next]_vars, Halted PROVE Frozen
      OBVIOUS
    <2>0. TypeOK /\ OrderInv
      BY DEF WalkInv
    <2>1. pc \notin Working /\ pc # "new" /\ runStatus # "running"
      BY <2>0 DEF OrderInv, Halted
    <2>2. CASE Resolves
      <3>1. PICK s \in NodeStatus \ {"none"}, rs \in {"running", "failed", "cancelled"} :
               /\ Resolve(s, rs)
               /\ s \in {"skipped", "cancelled"} /\ rs = runStatus
               /\ UNCHANGED failureRoutes
        BY <2>0, <2>2, ResolvesHow
      <3>2. pos <= Len(ir.order)
        BY <2>0, <2>2, ResolvesHow
      <3>3. nodeStatus' = [nodeStatus EXCEPT ![Current] = s] /\ runStatus' = rs /\ task' = task
        BY <2>0, <3>1, <3>2, ResolveFrame
      <3>4. nodeStatus[Current] = "none"
        BY <2>0, <3>2, Positions DEF OrderInv
      <3>5. \A n \in Node : nodeStatus'[n] = "completed" <=> nodeStatus[n] = "completed"
        BY <2>0, <3>1, <3>3, <3>4 DEF TypeOK
      <3>6. With("completed")' = With("completed")
        BY <3>5 DEF With
      <3> QED  BY <3>1, <3>3, <3>6 DEF Frozen
    <2>3. CASE ~Resolves
      <3>1. UNCHANGED <<runStatus, failureRoutes, nodeStatus>>
        BY <2>0, <2>1, <2>3, StepKinds, ScheduleFrame, WorksFrame DEF Start, Finalise,
           ReturnResumed, Cleanup, Resume, Abort, Aside, state
      <3>2. \A hd \in Handle : task[hd] = "none" => task'[hd] = "none"
        BY <2>0, <2>1, <2>3, StepKinds, ScheduleFrame, WorksFrame DEF Start, Finalise,
           ReturnResumed, Cleanup, Resume, Abort, Aside, provider
      <3> QED  BY <3>1, <3>2 DEF Frozen, With
    <2> QED  BY <2>2, <2>3
  <1> QED  BY <1>1, WalkCorrect, PTL DEF Spec, HaltedStaysHalted

-----------------------------------------------------------------------------
(* The runtime implements ProcessRun.                                      *)

\* The operators on compiled processes mean the same on both sides.
LEMMA SameProcess ==
    /\ \A n : Contract!Incoming(ir, n) = Incoming(ir, n)
    /\ \A n : Contract!HandlersOf(ir, n) = HandlersOf(ir, n)
    /\ \A n, ev : Contract!Escalation(ir, n, ev) = Escalation(ir, n, ev)
  BY DEF Contract!Incoming, Incoming, Contract!HandlersOf, HandlersOf, Contract!Escalation,
     Escalation

\* The current node is the first one without a status.
LEMMA AtCurrent ==
    ASSUME TypeOK, OrderInv, pos <= Len(ir.order)
    PROVE  /\ pos \in DOMAIN ir.order /\ Contract!NextAt(pos)
           /\ Current = ir.order[pos] /\ Current \in Node
  BY Positions DEF OrderInv, Contract!NextAt

\* What the contract sees of a node being resolved.
LEMMA ResolveView ==
    ASSUME TypeOK, pos <= Len(ir.order), NEW s, NEW rs, Resolve(s, rs)
    PROVE  /\ nodeStatus' = [nodeStatus EXCEPT ![Current] = s] /\ nodeStatus'[Current] = s
           /\ runStatus' = rs /\ UNCHANGED <<ir, result>>
  BY ResolveFrame, CurrentType DEF TypeOK

\* A node that is not due is skipped, and the nodes after the end of a run are.
LEMMA PassesContract ==
    ASSUME TypeOK, OrderInv, FiringInv,
           SkipAfterFailure \/ CancelAtEntry \/ SkipInactive
    PROVE  Contract!Pass(Current)
  <1>1. pos <= Len(ir.order) /\ runStatus # "none" /\ runStatus \in {"running", "failed", "cancelled"}
    BY ResolvesHow DEF Resolves, OrderInv, Working, TypeOK
  <1>2. CASE SkipAfterFailure
    BY <1>1, <1>2, ResolveView DEF SkipAfterFailure, NoRoutes, Contract!Pass
  <1>3. CASE CancelAtEntry
    BY <1>1, <1>3, ResolveView DEF CancelAtEntry, NoRoutes, Contract!Pass
  <1>4. CASE SkipInactive
    <2>1. {} \in FiringSets /\ Current \notin failureRoutes /\ Current # ir.trigger
      BY <1>4 DEF SkipInactive
    <2>2. answered # Current
      BY <1>1, <2>1 DEF FiringSets, FiringInv
    <2>3. \A e \in Incoming(ir, Current) : e.conditional \/ nodeStatus[e.source] # "completed"
      BY <2>1, <2>2 DEF FiringSets
    <2>4. ~Contract!Due(Current)
      BY <2>1, <2>3, SameProcess DEF Contract!Due
    <2> QED
      BY <1>1, <1>4, <2>4, ResolveView DEF SkipInactive, Proceeds, NoRoutes, Contract!Pass
  <1> QED  BY <1>2, <1>3, <1>4

\* A node that is executed is active.
LEMMA ActiveContract ==
    ASSUME TypeOK, OrderInv, FiringInv, pos <= Len(ir.order),
           pc \in Working \/ FirstVisit
    PROVE  Contract!Active(Current) /\ runStatus = "running"
  <1>1. CASE pc \in Working
    BY <1>1, SameProcess DEF OrderInv, FiringInv, Contract!Active
  <1>2. CASE FirstVisit
    <2>1. PICK F \in ActivatingSets : TRUE
      BY <1>2 DEF FirstVisit, Activates
    <2> QED
      BY <1>2, <2>1, Activating, SameProcess DEF FirstVisit, Activates, Proceeds, Contract!Active
  <1> QED  BY <1>1, <1>2

\* A node that completes was active, or is the trigger.
LEMMA SucceedsContract ==
    ASSUME TypeOK, OrderInv, FiringInv,
           CompleteTrigger \/ ReuseResult \/ TimeOutWithFallback \/ Complete
    PROVE  Contract!Succeed(Current)
  <1>1. pos <= Len(ir.order)
    BY ResolvesHow DEF Resolves
  <1>2. CASE CompleteTrigger
    BY <1>1, <1>2, ResolveView DEF CompleteTrigger, Proceeds, NoRoutes, Contract!Succeed
  <1>3. CASE ReuseResult
    BY <1>1, <1>3, ActiveContract, ResolveView DEF ReuseResult, NoRoutes, Contract!Succeed
  <1>4. CASE TimeOutWithFallback \/ Complete
    <2>1. pc \in Working
      BY <1>4 DEF TimeOutWithFallback, Complete, Working
    <2> QED
      BY <1>1, <1>4, <2>1, ActiveContract, ResolveView DEF TimeOutWithFallback, Complete,
         NoRoutes, Contract!Succeed
  <1> QED  BY <1>2, <1>3, <1>4

\* A failure stops the run or goes to handlers that the process names for the node.
LEMMA BreaksContract ==
    ASSUME TypeOK, OrderInv, FiringInv,
           FailMapping \/ FailInput \/ BlockByPolicy \/ FailProvider \/ TimeOut \/ Fail \/ FailOutput
    PROVE  Contract!Break(Current)
  <1>1. pos <= Len(ir.order)
    BY ResolvesHow DEF Resolves
  <1>2. Contract!Active(Current) /\ runStatus = "running"
    BY <1>1, ActiveContract DEF FailMapping, FailInput, BlockByPolicy, FailProvider, TimeOut,
       Fail, FailOutput, Working
  <1>3. {} \in SUBSET (Contract!HandlersOf(ir, Current)
                         \cup Contract!Escalation(ir, Current, "timeout"))
    OBVIOUS
  <1>4. CASE FailMapping \/ FailInput \/ BlockByPolicy \/ FailProvider \/ FailOutput
    <2>1. failureRoutes' = failureRoutes \cup {}
      BY <1>4 DEF FailMapping, FailInput, BlockByPolicy, FailProvider, FailOutput, NoRoutes
    <2>2. \E rs \in {"running", "failed"} : Resolve("failed", rs)
      BY <1>4 DEF FailMapping, FailInput, BlockByPolicy, FailProvider, FailOutput
    <2>3. /\ nodeStatus' = [nodeStatus EXCEPT ![Current] = "failed"]
          /\ nodeStatus'[Current] = "failed"
          /\ runStatus' \in {"running", "failed"} /\ UNCHANGED <<ir, result>>
      BY <1>1, <2>2, ResolveView
    <2> QED  BY <1>2, <1>3, <2>1, <2>3 DEF Contract!Break
  <1>5. CASE TimeOut
    <2> DEFINE routes == Escalation(ir, Current, "timeout")
    <2>1. /\ failureRoutes' = failureRoutes \cup routes
          /\ Resolve("timed_out", IF routes = {} THEN "failed" ELSE runStatus)
      BY <1>5 DEF TimeOut
    <2>2. routes \in SUBSET (Contract!HandlersOf(ir, Current)
                               \cup Contract!Escalation(ir, Current, "timeout"))
      BY SameProcess
    <2>3. /\ nodeStatus' = [nodeStatus EXCEPT ![Current] = "timed_out"]
          /\ nodeStatus'[Current] = "timed_out"
          /\ runStatus' = IF routes = {} THEN "failed" ELSE runStatus
          /\ UNCHANGED <<ir, result>>
      BY <1>1, <2>1, ResolveView
    <2> HIDE DEF routes
    <2> QED  BY <1>2, <2>1, <2>2, <2>3 DEF Contract!Break
  <1>6. CASE Fail
    <2>1. failureRoutes' = failureRoutes \cup FailureHandlers
      BY <1>6 DEF Fail
    <2>2. FailureHandlers \in SUBSET (Contract!HandlersOf(ir, Current)
                                        \cup Contract!Escalation(ir, Current, "timeout"))
      BY <1>1, HandlersNamed, SameProcess
    <2>3. CASE outcome = "cancelled"
      <3>1. Resolve("cancelled", "cancelled")
        BY <1>6, <2>3 DEF Fail
      <3>2. /\ nodeStatus' = [nodeStatus EXCEPT ![Current] = "cancelled"]
            /\ nodeStatus'[Current] = "cancelled"
            /\ runStatus' = "cancelled" /\ UNCHANGED <<ir, result>>
        BY <1>1, <3>1, ResolveView
      <3> QED  BY <1>2, <2>1, <2>2, <3>2 DEF Contract!Break
    <2>4. CASE outcome # "cancelled"
      <3>1. \E rs \in {"running", "failed"} : Resolve("failed", rs)
        BY <1>2, <1>6, <2>4 DEF Fail
      <3>2. /\ nodeStatus' = [nodeStatus EXCEPT ![Current] = "failed"]
            /\ nodeStatus'[Current] = "failed"
            /\ runStatus' \in {"running", "failed"} /\ UNCHANGED <<ir, result>>
        BY <1>1, <3>1, ResolveView
      <3> QED  BY <1>2, <2>1, <2>2, <3>2 DEF Contract!Break
    <2> QED  BY <2>3, <2>4
  <1> QED  BY <1>4, <1>5, <1>6

\* A run is reported completed only if every failure was handed to a handler.
LEMMA FinaliseContract ==
    ASSUME TypeOK, OrderInv, HealthInv, Finalise
    PROVE  Contract!Report
  <1>1. /\ result = "none" /\ runStatus # "none" /\ result' = FinalStatus
        /\ UNCHANGED <<ir, nodeStatus, failureRoutes, runStatus>>
    BY DEF Finalise, OrderInv, state
  <1>2. runStatus \in {"running", "failed", "cancelled"}
    BY <1>1 DEF TypeOK
  <1>3. FinalStatus = "completed" => \A n \in Node : Contract!Handled(n)
    <2> SUFFICES ASSUME FinalStatus = "completed", NEW n \in Node PROVE Contract!Handled(n)
      OBVIOUS
    <2>1. /\ runStatus = "running" /\ nodeStatus[n] # "cancelled"
          /\ nodeStatus[n] = "failed" => n \in recoverable
      BY <1>2 DEF FinalStatus, With
    <2>2. CASE nodeStatus[n] = "failed"
      BY <2>1, <2>2, SameProcess DEF HealthInv, Contract!Handled
    <2>3. CASE nodeStatus[n] = "timed_out"
      BY <2>1, <2>3, SameProcess DEF HealthInv, Contract!Handled
    <2>4. CASE nodeStatus[n] \notin {"failed", "timed_out"}
      BY <2>1, <2>4 DEF Contract!Handled
    <2> QED  BY <2>2, <2>3, <2>4
  <1>4. FinalStatus \in {runStatus, "completed", "failed"}
    <2>1. runStatus = "running" => With("cancelled") = {}
      BY DEF HealthInv, With
    <2> QED  BY <2>1 DEF FinalStatus
  <1>5. runStatus # "running" => FinalStatus = runStatus
    BY DEF FinalStatus
  <1> QED  BY <1>1, <1>2, <1>3, <1>4, <1>5 DEF Contract!Report

\* Every step of the runtime is a step of the contract or leaves its view alone.
LEMMA StepContract ==
    ASSUME WalkInv, [Next]_vars
    PROVE  Contract!RunNext \/ UNCHANGED Contract!runVars
  <1>1. TypeOK /\ OrderInv /\ FiringInv /\ HealthInv
    BY DEF WalkInv
  <1>2. CASE Start
    BY <1>1, <1>2 DEF Start, OrderInv, caller, Contract!RunNext, Contract!Begin, Contract!runVars
  <1>3. CASE Resolves
    <2>1. Contract!Pass(Current) \/ Contract!Succeed(Current) \/ Contract!Break(Current)
      BY <1>1, <1>3, PassesContract, SucceedsContract, BreaksContract DEF Resolves
    <2>2. pos <= Len(ir.order) /\ result = "none"
      BY <1>1, <1>3, ResolvesHow DEF OrderInv, Working
    <2> QED  BY <1>1, <2>1, <2>2, AtCurrent DEF Contract!RunNext
  <1>4. CASE Schedule \/ Works
    BY <1>1, <1>4, ScheduleFrame, WorksFrame DEF Contract!runVars
  <1>5. CASE Finalise
    BY <1>1, <1>5, FinaliseContract DEF Contract!RunNext
  <1>6. CASE ReturnResumed
    <2>1. /\ result = "none" /\ runStatus # "none" /\ result' = runStatus
          /\ UNCHANGED <<ir, nodeStatus, failureRoutes, runStatus>>
          /\ runStatus # "completed"
      BY <1>1, <1>6 DEF ReturnResumed, OrderInv, state, TypeOK
    <2> QED  BY <2>1 DEF Contract!RunNext, Contract!Report
  <1>7. CASE Resume
    <2>1. /\ result # "none" /\ result' = "none" /\ pos <= Len(ir.order)
          /\ UNCHANGED <<ir, nodeStatus, failureRoutes, runStatus>>
      BY <1>1, <1>7 DEF Resume, OrderInv, state, TypeOK
    <2> QED  BY <1>1, <2>1, AtCurrent DEF Contract!RunNext, Contract!Reopen
  <1>8. CASE Cleanup \/ Abort \/ Aside
    BY <1>8 DEF Cleanup, Abort, Aside, state, caller, Contract!runVars
  <1> QED
    BY <1>1, <1>2, <1>3, <1>4, <1>5, <1>6, <1>7, <1>8, StepKinds

\* Every run of the runtime, seen through its node statuses, failure routes, health and
\* verdict, is a run of the contract: nodes are resolved in order and once, only active
\* ones work, and completed is reported only if every failure reached a handler.
THEOREM Implementation == Spec => ImplementsProcessRun
  <1>1. Init => Contract!RunInit
    BY DEF Init, Contract!RunInit
  <1>2. WalkInv /\ [Next]_vars => [Contract!RunNext]_(Contract!runVars)
    BY StepContract
  <1> QED
    BY <1>1, <1>2, WalkCorrect, PTL DEF Spec, ImplementsProcessRun, Contract!RunSpec

=============================================================================
