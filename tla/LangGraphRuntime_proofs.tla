---------------------- MODULE LangGraphRuntime_proofs ----------------------
(***************************************************************************)
(* Proofs about LangGraphRuntime, for every set of processes, every number *)
(* of attempts, with and without checkpointer and failing sink.            *)
(***************************************************************************)
EXTENDS LangGraphRuntime, TLAPS

USE MaxAttemptsAssumption, NoNodeAssumption, NoHandleAssumption

-----------------------------------------------------------------------------
(* What the compiled process gives.                                        *)

\* A compiled process is a record of the declared shape.
LEMMA ProcessShape ==
    ASSUME TypeOK
    PROVE  /\ Compiled(ir) /\ ir \in Process
           /\ ir.order \in Seq(Node) /\ Len(ir.order) \in Nat
           /\ ir.order # << >> /\ Len(ir.order) # 0
           /\ ir.edges \in SUBSET Edge
           /\ ir.maxAttempts \in [Node -> 1..MaxAttempts]
           /\ ir.escalation \in SUBSET Rule
  <1>1. Compiled(ir) /\ ir \in Process
    BY ProcessesAssumption DEF TypeOK, Compiled
  <1> QED  BY <1>1 DEF Process, Compiled

\* While the run thread is at a node, that is a node and its attempt a handle.
LEMMA CurrentType ==
    ASSUME TypeOK, pos <= Len(ir.order)
    PROVE  /\ Current \in Node /\ CurrentHandle \in Handle
           /\ ir.maxAttempts[Current] \in 1..MaxAttempts
  <1>1. Current \in Node
    BY ProcessShape DEF Current, TypeOK
  <1> QED  BY <1>1, ProcessShape DEF CurrentHandle, Handle, TypeOK

\* Escalation rules and failure edges name nodes.
LEMMA RoutesType ==
    ASSUME TypeOK
    PROVE  /\ \A n, ev : Escalation(ir, n, ev) \subseteq Node
           /\ FailureHandlers \subseteq Node
  <1>1. \A n, ev : Escalation(ir, n, ev) \subseteq Node
    BY ProcessShape DEF Escalation, Rule
  <1>2. \A e \in firing : e.handler # NoNode => e.handler \in Node
    BY ProcessShape DEF Edge, TypeOK
  <1> QED  BY <1>1, <1>2 DEF FailureHandlers

-----------------------------------------------------------------------------
(* Type correctness.                                                       *)

\* What Resolve does to the types, whatever the caller adds.
LEMMA ResolveType ==
    ASSUME TypeOK, pos <= Len(ir.order),
           NEW s \in NodeStatus, NEW rs \in {"none", "running", "failed", "cancelled"},
           Resolve(s, rs),
           failureRoutes' \in SUBSET Node, recoverable' \in SUBSET Node,
           inflight' \in Handle \cup {NoHandle},
           lastEvent' \in [Node -> NodeEvent]
    PROVE  TypeOK'
  <1>1. nodeStatus' \in [Node -> NodeStatus]
    BY DEF Resolve, TypeOK
  <1>2. /\ pos' \in 1..(Len(ir'.order) + 1)
        /\ pc' \in {"enter", "finalise"} /\ (pc' = "enter" => pos' <= Len(ir'.order))
    BY ProcessShape DEF Resolve, TypeOK
  <1>3. /\ UNCHANGED <<ir, driver, answered, result, cancelEvent, cancelling,
                       cancelPos, task, cancelled, runEvent>>
        /\ runStatus' = rs /\ firing' = {} /\ attempt' = 1
        /\ outcome' = "none" /\ expired' = FALSE
    BY DEF Resolve, caller, canceller, provider
  <1>4. pc' \in Label
    BY <1>2 DEF Label
  <1>5. attempt' \in 1..MaxAttempts /\ outcome' \in Outcome
    BY <1>3 DEF Outcome
  <1>6. pc' \in Attempting \cup {"new", "enter", "settle", "suspended"}
        => pos' <= Len(ir'.order)
    BY <1>2 DEF Attempting
  <1> QED
    BY <1>1, <1>2, <1>3, <1>4, <1>5, <1>6 DEF TypeOK

LEMMA EnterNodeType == TypeOK /\ EnterNode => TypeOK'
  <1> SUFFICES ASSUME TypeOK, EnterNode PROVE TypeOK'  OBVIOUS
  <1>1. pc = "enter" /\ pos <= Len(ir.order)
    BY DEF EnterNode, SkipAfterFailure, CancelAtEntry, CompleteTrigger, SkipInactive,
       FailMapping, FailInput, BlockByPolicy, FailProvider, ReuseResult, Schedule, FirstVisit,
       Activates, Proceeds, TypeOK
  <1>2. Current \in Node
    BY <1>1, CurrentType
  <1>3. ASSUME NEW e \in NodeEvent, EmitNode(e) PROVE lastEvent' \in [Node -> NodeEvent]
    BY <1>3 DEF EmitNode, TypeOK
  <1>4. CASE SkipAfterFailure
    BY <1>1, <1>4, ResolveType DEF SkipAfterFailure, NoRoutes, NodeStatus, TypeOK
  <1>5. CASE CancelAtEntry
    BY <1>1, <1>3, <1>5, ResolveType
       DEF CancelAtEntry, NoRoutes, NodeStatus, NodeEvent, TypeOK
  <1>6. CASE CompleteTrigger
    BY <1>1, <1>3, <1>6, ResolveType
       DEF CompleteTrigger, NoRoutes, NodeStatus, NodeEvent, TypeOK
  <1>7. CASE SkipInactive
    BY <1>1, <1>3, <1>7, ResolveType
       DEF SkipInactive, NoRoutes, NodeStatus, NodeEvent, TypeOK
  <1>8. CASE FailMapping
    BY <1>1, <1>3, <1>8, ResolveType
       DEF FailMapping, NoRoutes, NodeStatus, NodeEvent, TypeOK
  <1>9. CASE FailInput
    BY <1>1, <1>3, <1>9, ResolveType
       DEF FailInput, NoRoutes, NodeStatus, NodeEvent, TypeOK
  <1>10. CASE BlockByPolicy
    BY <1>1, <1>3, <1>10, ResolveType
       DEF BlockByPolicy, NoRoutes, NodeStatus, NodeEvent, TypeOK
  <1>11. CASE ReuseResult
    BY <1>1, <1>3, <1>11, ResolveType
       DEF ReuseResult, NoRoutes, NodeStatus, NodeEvent, TypeOK
  <1>12. CASE FailProvider
    BY <1>1, <1>3, <1>12, ResolveType
       DEF FailProvider, NoRoutes, NodeStatus, NodeEvent, TypeOK
  <1>13. CASE Schedule
    <2>1. firing' \in SUBSET ir.edges
      BY <1>13 DEF Schedule, ActivatingSets, FiringSets, Incoming, TypeOK
    <2>2. lastEvent' \in [Node -> NodeEvent]
      BY <1>3, <1>13 DEF Schedule, NodeEvent
    <2> QED
      BY <1>1, <1>13, <2>1, <2>2 DEF Schedule, TypeOK, Label, Attempting, state,
         caller, shared, canceller, provider
  <1> QED
    BY <1>4, <1>5, <1>6, <1>7, <1>8, <1>9, <1>10, <1>11, <1>12, <1>13 DEF EnterNode

\* What a step of an attempt does to the types.
LEMMA AttemptType ==
    ASSUME TypeOK, pos <= Len(ir.order), AttemptFrame,
           pc' \in Attempting \cup {"settle", "finalise"}, outcome' \in Outcome,
           inflight' \in Handle \cup {NoHandle},
           task' \in [Handle -> TaskState], cancelled' \in SUBSET Handle
    PROVE  TypeOK'
  <1>1. UNCHANGED <<ir, nodeStatus, failureRoutes, recoverable, runStatus, firing,
                    attempt, expired, driver, answered, result, cancelEvent,
                    cancelling, cancelPos, lastEvent, runEvent, pos>>
    BY DEF AttemptFrame, state, caller, canceller, events
  <1>2. pc' \in Label
    BY DEF Label
  <1> QED  BY <1>1, <1>2 DEF TypeOK

LEMMA AttemptStepType == TypeOK /\ AttemptStep => TypeOK'
  <1> SUFFICES ASSUME TypeOK, AttemptStep PROVE TypeOK'  OBVIOUS
  <1>1. pc \in Attempting /\ pos <= Len(ir.order)
    BY DEF AttemptStep, InvokeInWorker, InvokeHuman, Suspend, JoinInvoke, CheckInvoke,
       Register, CheckCancel, AwaitHuman, PollCheck, Poll, AwaitBlocking, Attempting,
       TypeOK
  <1>2. CurrentHandle \in Handle
    BY <1>1, CurrentType
  <1>3. ASSUME NEW s \in TaskState, SetTask(s) PROVE task' \in [Handle -> TaskState]
    BY <1>3 DEF SetTask, TypeOK
  <1>4. CancelCurrent => cancelled' \in SUBSET Handle
    BY <1>2 DEF CancelCurrent, TypeOK
  <1>5. AwaitOutcomes \subseteq Outcome
    BY DEF AwaitOutcomes, Outcome
  <1>6. CASE InvokeInWorker
    BY <1>1, <1>3, <1>6, AttemptType DEF InvokeInWorker, Attempting, TaskState, TypeOK
  <1>7. CASE InvokeHuman
    <2>1. task' \in [Handle -> TaskState]
      BY <1>3, <1>7 DEF InvokeHuman, TaskState
    <2>2. /\ outcome' \in Outcome /\ pc' \in Attempting \cup {"settle"}
          /\ inflight' = inflight /\ cancelled' = cancelled /\ AttemptFrame
      BY <1>7 DEF InvokeHuman, EndAttempt, Outcome, Attempting, TypeOK
    <2> QED  BY <1>1, <2>1, <2>2, AttemptType DEF TypeOK
  <1>8. CASE Suspend
    BY <1>1, <1>8, AttemptType DEF Suspend, provider, TypeOK
  <1>9. CASE JoinInvoke
    <2>1. /\ outcome' \in Outcome /\ pc' \in Attempting \cup {"settle"}
          /\ UNCHANGED <<inflight, task, cancelled>> /\ AttemptFrame
      BY <1>9 DEF JoinInvoke, EndAttempt, Outcome, Attempting, provider, TypeOK
    <2> QED  BY <1>1, <2>1, AttemptType DEF TypeOK
  <1>10. CASE CheckInvoke
    <2>1. /\ outcome' \in Outcome /\ pc' \in Attempting \cup {"settle"}
          /\ UNCHANGED <<inflight, task, cancelled>> /\ AttemptFrame
      BY <1>10 DEF CheckInvoke, EndAttempt, Outcome, Attempting, provider, TypeOK
    <2> QED  BY <1>1, <2>1, AttemptType DEF TypeOK
  <1>11. CASE Register
    <2>1. /\ outcome' \in Outcome /\ pc' \in Attempting \cup {"settle"}
          /\ inflight' \in Handle \cup {NoHandle}
          /\ UNCHANGED <<task, cancelled>> /\ AttemptFrame
      BY <1>2, <1>11 DEF Register, Attempting, provider, TypeOK
    <2> QED  BY <1>1, <2>1, AttemptType DEF TypeOK
  <1>12. CASE CheckCancel
    <2>1. /\ outcome' \in Outcome /\ pc' \in Attempting \cup {"settle"}
          /\ UNCHANGED <<inflight, task>> /\ AttemptFrame
          /\ cancelled' \in SUBSET Handle
      BY <1>4, <1>12 DEF CheckCancel, EndAttempt, Outcome, Attempting, TypeOK
    <2> QED  BY <1>1, <2>1, AttemptType DEF TypeOK
  <1>13. CASE AwaitHuman
    <2>1. /\ outcome' \in Outcome /\ pc' \in Attempting \cup {"settle"}
          /\ UNCHANGED <<inflight, task, cancelled>> /\ AttemptFrame
      BY <1>5, <1>13 DEF AwaitHuman, EndAttempt, Outcome, provider
    <2> QED  BY <1>1, <2>1, AttemptType DEF TypeOK
  <1>14. CASE PollCheck
    <2>1. /\ outcome' \in Outcome /\ pc' \in Attempting \cup {"settle"}
          /\ UNCHANGED <<inflight, task>> /\ AttemptFrame
          /\ cancelled' \in SUBSET Handle
      BY <1>4, <1>14 DEF PollCheck, EndAttempt, Outcome, Attempting, TypeOK
    <2> QED  BY <1>1, <2>1, AttemptType DEF TypeOK
  <1>15. CASE Poll
    <2>1. /\ outcome' \in Outcome /\ pc' \in Attempting \cup {"settle"}
          /\ UNCHANGED <<inflight, task, cancelled>> /\ AttemptFrame
      BY <1>5, <1>15 DEF Poll, EndAttempt, Outcome, Attempting, provider, TypeOK
    <2> QED  BY <1>1, <2>1, AttemptType DEF TypeOK
  <1>16. CASE AwaitBlocking
    <2>1. /\ outcome' \in Outcome /\ pc' \in Attempting \cup {"settle"}
          /\ UNCHANGED <<inflight, task, cancelled>> /\ AttemptFrame
      BY <1>5, <1>16 DEF AwaitBlocking, EndAttempt, Outcome, provider
    <2> QED  BY <1>1, <2>1, AttemptType DEF TypeOK
  <1> QED
    BY <1>6, <1>7, <1>8, <1>9, <1>10, <1>11, <1>12, <1>13, <1>14, <1>15, <1>16
       DEF AttemptStep

LEMMA AwaitRaisesType == TypeOK /\ AwaitRaises => TypeOK'
  <1> SUFFICES ASSUME TypeOK, AwaitRaises PROVE TypeOK'  OBVIOUS
  <1>1. pc \in Attempting /\ pos <= Len(ir.order)
    BY DEF AwaitRaises, Attempting, TypeOK
  <1>2. /\ outcome' \in Outcome /\ pc' \in Attempting \cup {"settle"}
        /\ UNCHANGED <<inflight, task, cancelled>> /\ AttemptFrame
    BY DEF AwaitRaises, EndAttempt, Outcome, provider
  <1> QED  BY <1>1, <1>2, AttemptType DEF TypeOK

LEMMA SettleType == TypeOK /\ Settle => TypeOK'
  <1> SUFFICES ASSUME TypeOK, Settle PROVE TypeOK'  OBVIOUS
  <1>1. pc = "settle" /\ pos <= Len(ir.order)
    BY DEF Settle, Retry, TimeOutWithFallback, TimeOut, Fail, FailOutput, Complete, TypeOK
  <1>2. Current \in Node /\ ir.maxAttempts[Current] \in 1..MaxAttempts
    BY <1>1, CurrentType
  <1>3. ASSUME NEW e \in NodeEvent, EmitNode(e) PROVE lastEvent' \in [Node -> NodeEvent]
    BY <1>3 DEF EmitNode, TypeOK
  <1>4. runStatus \in {"none", "running", "failed", "cancelled"}
    BY DEF TypeOK
  <1>5. NoHandle \in Handle \cup {NoHandle}
    OBVIOUS
  <1>6. CASE Retry
    <2>1. attempt' \in 1..MaxAttempts
      BY <1>2, <1>6 DEF Retry, Retries, TypeOK
    <2>2. lastEvent' \in [Node -> NodeEvent]
      BY <1>3, <1>6 DEF Retry, NodeEvent
    <2> QED
      BY <1>1, <1>6, <2>1, <2>2 DEF Retry, TypeOK, Label, Attempting, Outcome, state,
         caller, canceller, provider
  <1>7. CASE TimeOutWithFallback
    BY <1>1, <1>3, <1>4, <1>5, <1>7, ResolveType
       DEF TimeOutWithFallback, NoRoutes, NodeStatus, NodeEvent, TypeOK
  <1>8. CASE TimeOut
    <2>1. failureRoutes' \in SUBSET Node /\ recoverable' \in SUBSET Node
      BY <1>8, RoutesType DEF TimeOut, TypeOK
    <2>2. PICK rs \in {"none", "running", "failed", "cancelled"} : Resolve("timed_out", rs)
      BY <1>4, <1>8 DEF TimeOut
    <2>3. lastEvent' \in [Node -> NodeEvent] /\ inflight' = NoHandle
      BY <1>3, <1>8 DEF TimeOut, NodeEvent
    <2>4. "timed_out" \in NodeStatus
      BY DEF NodeStatus
    <2> QED  BY <1>1, <1>5, <2>1, <2>2, <2>3, <2>4, ResolveType
  <1>9. CASE Fail
    <2>1. failureRoutes' \in SUBSET Node /\ recoverable' \in SUBSET Node
      BY <1>2, <1>9, RoutesType DEF Fail, TypeOK
    <2>2. PICK s \in {"failed", "cancelled"},
               rs \in {"none", "running", "failed", "cancelled"} : Resolve(s, rs)
      BY <1>4, <1>9 DEF Fail
    <2>3. lastEvent' \in [Node -> NodeEvent] /\ inflight' = NoHandle
      BY <1>3, <1>9 DEF Fail, NodeEvent
    <2>4. s \in NodeStatus
      BY DEF NodeStatus
    <2> QED  BY <1>1, <1>5, <2>1, <2>2, <2>3, <2>4, ResolveType
  <1>10. CASE FailOutput
    BY <1>1, <1>3, <1>5, <1>10, ResolveType
       DEF FailOutput, NoRoutes, NodeStatus, NodeEvent, TypeOK
  <1>11. CASE Complete
    BY <1>1, <1>3, <1>4, <1>5, <1>11, ResolveType
       DEF Complete, NoRoutes, NodeStatus, NodeEvent, TypeOK
  <1> QED
    BY <1>6, <1>7, <1>8, <1>9, <1>10, <1>11 DEF Settle

\* The runtime's state keeps its types; the run thread is past the last node
\* only when it has resolved them all.
THEOREM TypeCorrect == Spec => []TypeOK
  <1>1. Init => TypeOK
    <2> SUFFICES ASSUME Init PROVE TypeOK  OBVIOUS
    <2>1. /\ ir.order \in Seq(Node) /\ ir.order # << >>
      BY ProcessesAssumption DEF Init, Compiled, Process
    <2>2. pos \in 1..(Len(ir.order) + 1) /\ pos <= Len(ir.order)
      BY <2>1 DEF Init
    <2>3. pc \in Label
      BY DEF Init, Label
    <2>4. /\ nodeStatus \in [Node -> NodeStatus] /\ lastEvent \in [Node -> NodeEvent]
          /\ task \in [Handle -> TaskState]
      BY DEF Init, NodeStatus, NodeEvent, TaskState
    <2>5. attempt \in 1..MaxAttempts /\ outcome \in Outcome /\ result \in RunStatus
          /\ runEvent \in RunEvent
      BY DEF Init, Outcome, RunStatus, RunEvent
    <2> QED
      BY <2>2, <2>3, <2>4, <2>5 DEF Init, TypeOK
  <1>2. TypeOK /\ [Next]_vars => TypeOK'
    <2> SUFFICES ASSUME TypeOK, [Next]_vars PROVE TypeOK'  OBVIOUS
    <2>1. CASE Start
      <3>1. pos <= Len(ir.order) /\ pc' \in Label
        BY <2>1 DEF Start, TypeOK, Label, Attempting, Terminal
      <3>2. UNCHANGED <<ir, nodeStatus, failureRoutes, recoverable, firing, attempt,
                        outcome, expired, driver, answered, result, inflight, cancelling,
                        cancelPos, task, cancelled, lastEvent, pos>>
        BY <2>1 DEF Start, locals, caller, canceller, provider
      <3>3. /\ runStatus' \in {"none", "running", "failed", "cancelled"}
            /\ cancelEvent' \in {"absent", "clear", "set"} /\ runEvent' \in RunEvent
        BY <2>1 DEF Start, TypeOK, RunEvent
      <3> QED  BY <3>1, <3>2, <3>3 DEF TypeOK
    <2>2. CASE EnterNode
      BY <2>2, EnterNodeType
    <2>3. CASE AttemptStep
      BY <2>3, AttemptStepType
    <2>4. CASE Settle
      BY <2>4, SettleType
    <2>5. CASE Finalise
      <3>1. result' \in RunStatus
        BY <2>5 DEF Finalise, FinalStatus, RunStatus, TypeOK
      <3> QED
        BY <2>5, <3>1 DEF Finalise, TypeOK, Label, Attempting, RunEvent, state, locals,
           shared, canceller, provider
    <2>6. CASE Cleanup
      BY <2>6 DEF Cleanup, AfterGraph, TypeOK, Label, Attempting, Terminal, state, locals,
         caller, canceller, provider, events
    <2>7. CASE ReturnResumed
      BY <2>7 DEF ReturnResumed, AfterGraph, TypeOK, Label, Attempting, Terminal, RunStatus,
         state, locals, shared, canceller, provider, events
    <2>8. CASE Abort
      BY <2>8 DEF Abort, TypeOK, Label, Attempting, Terminal, state, locals, caller,
         canceller, provider, events
    <2>9. CASE Resume
      <3>1. Current \in Node
        BY <2>9, CurrentType DEF Resume, TypeOK
      <3> QED
        BY <2>9, <3>1 DEF Resume, TypeOK, Label, Attempting, Terminal, RunStatus, state,
           canceller, provider, events
    <2>10. CASE Expire
      BY <2>10 DEF Expire, TypeOK, state, caller, shared, canceller, provider, events
    <2>11. CASE CancelRun
      BY <2>11 DEF CancelRun, TypeOK, state, locals, caller, provider, events
    <2>12. ASSUME NEW hd \in Handle, DeliverCancel(hd) PROVE TypeOK'
      BY <2>12 DEF DeliverCancel, TypeOK, state, locals, caller, shared, events
    <2>13. ASSUME NEW hd \in Handle, InvokeReturns(hd) \/ ExecutionEnds(hd) PROVE TypeOK'
      <3>1. task' \in [Handle -> TaskState]
        BY <2>13 DEF InvokeReturns, ExecutionEnds, TypeOK, TaskState
      <3> QED
        BY <2>13, <3>1 DEF InvokeReturns, ExecutionEnds, ProviderFrame, TypeOK, state,
           locals, caller, shared, canceller, events
    <2>14. CASE UNCHANGED vars
      BY <2>14 DEF vars, TypeOK, state, locals, caller, shared, canceller, provider, events
    <2>15. CASE AwaitRaises
      BY <2>15, AwaitRaisesType
    <2> QED
      BY <2>1, <2>2, <2>3, <2>4, <2>5, <2>6, <2>7, <2>8, <2>9, <2>10, <2>11, <2>12,
         <2>13, <2>14, <2>15 DEF Next, RunThread, Providers, Over
  <1> QED  BY <1>1, <1>2, PTL DEF Spec

-----------------------------------------------------------------------------
(* The hand-over of handles and cancel requests between threads.           *)

\* The run thread owns a registered handle.
Registered == {"checkCancel", "await", "pollCheck", "poll", "awaitBlocking"}

\* The inductive invariant.  The in-flight table holds a handle exactly while
\* the run thread works with it, so that a cancel_run() that sets the event
\* after the run thread's check finds the right handle there.
HandoverInv ==
    /\ inflight # NoHandle /\ pc # "aborted"
          => pc \in Registered \cup {"settle"} /\ inflight = CurrentHandle
    /\ pc \in Registered => inflight = CurrentHandle
    /\ pc \in {"checkCancel", "await"} => IsHuman
    /\ cancelEvent = "set" /\ pc \in {"await", "poll", "awaitBlocking"}
          => CurrentHandle \in cancelled \cup cancelling
    /\ GivenUpIsCancelled

\* With no handle in flight and no attempt under way there is nothing to show.
LEMMA HandoverIdle ==
    ASSUME inflight' = NoHandle, pc' \notin Registered \cup {"settle"}
    PROVE  HandoverInv'
  BY DEF HandoverInv, GivenUpIsCancelled, Registered

\* Nor after an exception.
LEMMA HandoverAborted ==
    ASSUME pc' = "aborted"
    PROVE  HandoverInv'
  BY DEF HandoverInv, GivenUpIsCancelled, Registered

\* When a node is resolved, its handle must have left the table.
LEMMA HandoverResolve ==
    ASSUME NEW s, NEW rs, Resolve(s, rs), inflight' = NoHandle
    PROVE  HandoverInv'
  <1>1. pc' \in {"enter", "finalise"}
    BY DEF Resolve
  <1> QED  BY <1>1, HandoverIdle DEF Registered

LEMMA EnterNodeHandover == TypeOK /\ HandoverInv /\ EnterNode => HandoverInv'
  <1> SUFFICES ASSUME TypeOK, HandoverInv, EnterNode PROVE HandoverInv'  OBVIOUS
  <1>1. pc = "enter"
    BY DEF EnterNode, SkipAfterFailure, CancelAtEntry, CompleteTrigger, SkipInactive,
       FailMapping, FailInput, BlockByPolicy, FailProvider, ReuseResult, Schedule, FirstVisit,
       Activates, Proceeds
  <1>2. inflight = NoHandle
    BY <1>1 DEF HandoverInv, Registered
  <1>3. CASE Schedule
    <2>1. inflight' = NoHandle /\ pc' = "invoke"
      BY <1>2, <1>3 DEF Schedule, shared
    <2> QED  BY <2>1, HandoverIdle DEF Registered
  <1>4. CASE ~Schedule
    <2>1. inflight' = NoHandle /\ \E s, rs : Resolve(s, rs)
      BY <1>2, <1>4 DEF EnterNode, SkipAfterFailure, CancelAtEntry, CompleteTrigger,
         SkipInactive, FailMapping, FailInput, BlockByPolicy, FailProvider, ReuseResult
    <2> QED  BY <2>1, HandoverResolve
  <1> QED  BY <1>3, <1>4

LEMMA SettleHandover == TypeOK /\ HandoverInv /\ Settle => HandoverInv'
  <1> SUFFICES ASSUME TypeOK, HandoverInv, Settle PROVE HandoverInv'  OBVIOUS
  <1>1. inflight' = NoHandle
    BY DEF Settle, Retry, TimeOutWithFallback, TimeOut, Fail, FailOutput, Complete
  <1>2. CASE Retry
    <2>1. pc' = "invoke"
      BY <1>2 DEF Retry
    <2> QED  BY <1>1, <2>1, HandoverIdle DEF Registered
  <1>3. CASE ~Retry
    <2>1. \E s, rs : Resolve(s, rs)
      BY <1>3 DEF Settle, TimeOutWithFallback, TimeOut, Fail, FailOutput, Complete
    <2> QED  BY <1>1, <2>1, HandoverResolve
  <1> QED  BY <1>2, <1>3

LEMMA AttemptStepHandover == TypeOK /\ HandoverInv /\ AttemptStep => HandoverInv'
  <1> SUFFICES ASSUME TypeOK, HandoverInv, AttemptStep PROVE HandoverInv'  OBVIOUS
  <1>1. pc \in Attempting /\ pos <= Len(ir.order)
    BY DEF AttemptStep, InvokeInWorker, InvokeHuman, Suspend, JoinInvoke, CheckInvoke,
       Register, CheckCancel, AwaitHuman, PollCheck, Poll, AwaitBlocking, Attempting,
       TypeOK
  <1>2. CurrentHandle # NoHandle
    BY <1>1, CurrentType
  <1>3. AttemptFrame
    BY DEF AttemptStep, InvokeInWorker, InvokeHuman, Suspend, JoinInvoke, CheckInvoke,
       Register, CheckCancel, AwaitHuman, PollCheck, Poll, AwaitBlocking
  <1>4. /\ CurrentHandle' = CurrentHandle /\ IsHuman' = IsHuman
        /\ cancelEvent' = cancelEvent /\ cancelling' = cancelling
    BY <1>3 DEF AttemptFrame, CurrentHandle, Current, IsHuman, canceller
  <1>5. ASSUME pc \in {"invoke", "joinInvoke", "checkInvoke"}, pc' \notin Registered,
               inflight' = inflight
        PROVE  HandoverInv'
    <2>1. inflight' = NoHandle
      BY <1>5 DEF HandoverInv, Registered
    <2> QED
      BY <1>2, <1>4, <1>5, <2>1 DEF HandoverInv, GivenUpIsCancelled, Registered
  <1>6. CASE InvokeInWorker
    BY <1>5, <1>6 DEF InvokeInWorker, Registered
  <1>7. CASE InvokeHuman
    BY <1>5, <1>7 DEF InvokeHuman, EndAttempt, Registered
  <1>8. CASE Suspend
    BY <1>5, <1>8 DEF Suspend, Registered
  <1>9. CASE JoinInvoke
    BY <1>5, <1>9 DEF JoinInvoke, EndAttempt, Registered
  <1>10. CASE CheckInvoke
    BY <1>5, <1>10 DEF CheckInvoke, EndAttempt, Registered
  <1>11. CASE Register
    BY <1>4, <1>11 DEF Register, HandoverInv, GivenUpIsCancelled, Registered
  <1>12. CASE CheckCancel
    BY <1>4, <1>12 DEF CheckCancel, EndAttempt, CancelCurrent, HandoverInv,
       GivenUpIsCancelled, Registered
  <1>13. CASE AwaitHuman
    BY <1>4, <1>13 DEF AwaitHuman, EndAttempt, HandoverInv, GivenUpIsCancelled, Registered
  <1>14. CASE PollCheck
    BY <1>4, <1>14 DEF PollCheck, EndAttempt, CancelCurrent, HandoverInv,
       GivenUpIsCancelled, Registered
  <1>15. CASE Poll
    BY <1>4, <1>15 DEF Poll, EndAttempt, HandoverInv, GivenUpIsCancelled, Registered, provider
  <1>16. CASE AwaitBlocking
    BY <1>4, <1>16 DEF AwaitBlocking, EndAttempt, HandoverInv, GivenUpIsCancelled,
       Registered, provider
  <1> QED
    BY <1>6, <1>7, <1>8, <1>9, <1>10, <1>11, <1>12, <1>13, <1>14, <1>15, <1>16
       DEF AttemptStep

\* An await_ that raises leaves the handle registered, and is neither a timeout
\* nor a cancellation.
LEMMA AwaitRaisesHandover == TypeOK /\ HandoverInv /\ AwaitRaises => HandoverInv'
  <1> SUFFICES ASSUME TypeOK, HandoverInv, AwaitRaises PROVE HandoverInv'  OBVIOUS
  <1>1. /\ CurrentHandle' = CurrentHandle /\ IsHuman' = IsHuman
        /\ cancelEvent' = cancelEvent /\ cancelling' = cancelling
    BY DEF AwaitRaises, AttemptFrame, CurrentHandle, Current, IsHuman, canceller
  <1> QED
    BY <1>1 DEF AwaitRaises, EndAttempt, HandoverInv, GivenUpIsCancelled, Registered

\* A step that leaves the run thread and its handle where they are, and takes
\* back neither a cancel request nor the end of an execution, keeps the invariant.
LEMMA HandoverKept ==
    ASSUME HandoverInv, UNCHANGED <<ir, pc, pos, attempt, outcome, inflight>>,
           cancelled \subseteq cancelled',
           cancelled \cup cancelling \subseteq cancelled' \cup cancelling',
           cancelEvent' = cancelEvent \/ inflight \in cancelling' \cup {NoHandle},
           pc \in Registered => CurrentHandle # NoHandle,
           pc = "settle" /\ task[CurrentHandle] = "finished"
              => task'[CurrentHandle] = "finished"
    PROVE  HandoverInv'
  <1>1. CurrentHandle' = CurrentHandle /\ IsHuman' = IsHuman
    BY DEF CurrentHandle, Current, IsHuman
  <1> QED  BY <1>1 DEF HandoverInv, GivenUpIsCancelled, Registered

\* The hand-over invariant holds in every reachable state.
THEOREM HandoverCorrect == Spec => []HandoverInv
  <1>1. Init => HandoverInv
    BY DEF Init, HandoverInv, GivenUpIsCancelled, Registered
  <1>2. TypeOK /\ HandoverInv /\ [Next]_vars => HandoverInv'
    <2> SUFFICES ASSUME TypeOK, HandoverInv, [Next]_vars PROVE HandoverInv'  OBVIOUS
    <2>1. pc \in Registered => CurrentHandle # NoHandle
      BY CurrentType DEF TypeOK, Registered, Attempting
    <2>2. CASE Start
      <3>1. inflight' = NoHandle /\ pc' \in {"rejected", "enter"}
        BY <2>2 DEF Start, HandoverInv, Registered
      <3> QED  BY <3>1, HandoverIdle DEF Registered
    <2>3. CASE EnterNode
      BY <2>3, EnterNodeHandover
    <2>4. CASE AttemptStep
      BY <2>4, AttemptStepHandover
    <2>5. CASE Settle
      BY <2>5, SettleHandover
    <2>6. CASE Finalise
      <3>1. inflight' = NoHandle /\ pc' = "cleanup"
        BY <2>6 DEF Finalise, HandoverInv, Registered, shared
      <3> QED  BY <3>1, HandoverIdle DEF Registered
    <2>7. CASE Cleanup
      <3>1. inflight' = NoHandle /\ pc' \in {"suspended", "done"}
        BY <2>7 DEF Cleanup, AfterGraph
      <3> QED  BY <3>1, HandoverIdle DEF Registered
    <2>8. CASE ReturnResumed
      <3>1. inflight' = NoHandle /\ pc' \in {"suspended", "done"}
        BY <2>8 DEF ReturnResumed, AfterGraph, HandoverInv, Registered, shared
      <3> QED  BY <3>1, HandoverIdle DEF Registered
    <2>9. CASE Abort
      BY <2>9, HandoverAborted DEF Abort
    <2>10. CASE Resume
      <3>1. inflight' = NoHandle /\ pc' = "enter"
        BY <2>10 DEF Resume, HandoverInv, Registered
      <3> QED  BY <3>1, HandoverIdle DEF Registered
    <2>11. CASE Expire
      BY <2>1, <2>11, HandoverKept DEF Expire, shared, canceller, provider
    <2>12. CASE CancelRun
      BY <2>1, <2>12, HandoverKept DEF CancelRun, locals, provider
    <2>13. ASSUME NEW hd \in Handle, DeliverCancel(hd) PROVE HandoverInv'
      BY <2>1, <2>13, HandoverKept DEF DeliverCancel, locals, shared
    <2>14. ASSUME NEW hd \in Handle, InvokeReturns(hd) \/ ExecutionEnds(hd)
           PROVE  HandoverInv'
      <3>1. pc = "settle" => CurrentHandle \in Handle
        BY CurrentType DEF TypeOK
      <3>2. pc = "settle" /\ task[CurrentHandle] = "finished"
            => task'[CurrentHandle] = "finished"
        BY <2>14, <3>1 DEF InvokeReturns, ExecutionEnds, TypeOK
      <3> QED
        BY <2>1, <2>14, <3>2, HandoverKept DEF InvokeReturns, ExecutionEnds,
           ProviderFrame, locals, shared, canceller
    <2>15. CASE UNCHANGED vars
      BY <2>1, <2>15, HandoverKept DEF vars, locals, shared, canceller, provider
    <2>16. CASE AwaitRaises
      BY <2>16, AwaitRaisesHandover
    <2> QED
      BY <2>2, <2>3, <2>4, <2>5, <2>6, <2>7, <2>8, <2>9, <2>10, <2>11, <2>12, <2>13,
         <2>14, <2>15, <2>16 DEF Next, RunThread, Providers, Over
  <1> QED  BY <1>1, <1>2, TypeCorrect, PTL DEF Spec

\* No cancel request is lost between the check and the registration.
THEOREM CancelNeverLost == Spec => []NoLostCancel
  <1>1. HandoverInv => NoLostCancel
    BY DEF HandoverInv, NoLostCancel
  <1> QED  BY <1>1, HandoverCorrect, PTL

\* cancel_run() never finds the handle of an earlier attempt or node.
THEOREM InflightCorrect == Spec => []InflightIsCurrent
  <1>1. HandoverInv => InflightIsCurrent
    BY DEF HandoverInv, InflightIsCurrent, Registered, Attempting
  <1> QED  BY <1>1, HandoverCorrect, PTL

\* No attempt ends by timeout or cancellation leaving its execution untold.
THEOREM NothingAbandoned == Spec => []GivenUpIsCancelled
  <1>1. HandoverInv => GivenUpIsCancelled
    BY DEF HandoverInv
  <1> QED  BY <1>1, HandoverCorrect, PTL

=============================================================================
