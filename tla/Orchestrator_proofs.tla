------------------------ MODULE Orchestrator_proofs ------------------------
(***************************************************************************)
(* Proofs about Orchestrator, for every set of compiled processes.         *)
(***************************************************************************)
EXTENDS Orchestrator, TLAPS

-----------------------------------------------------------------------------
(* The inductive invariant.                                                *)

\* A turn in which nothing was started or resolved and no task is in flight has
\* left no pending node behind the cursor: its sources come before it in the order.
NothingPassedOver ==
    /\ pc \in {"poll", "decide"} => cursor = Len(ir.order) + 1
    /\ pc \notin Over /\ ~progressed /\ inflight = {} =>
          \A i \in 1..(cursor - 1) : ir.order[i] \notin pending

\* The run has failed exactly when a node has, and has been completed only at
\* the end of the loop, with nothing left.
VerdictInv ==
    /\ runStatus = "failed" <=> \E n \in NodesOf(ir) : nodeStatus[n] \in {"failed", "timed_out"}
    /\ runStatus = "completed" => pc = "returned" /\ pending = {} /\ inflight = {}
    /\ pc = "returned" => runStatus # "running"

-----------------------------------------------------------------------------
(* What the compiled process gives.                                        *)

\* The order is a sequence of nodes and precedes the edges.
LEMMA ProcessShape ==
    ASSUME TypeOK
    PROVE  /\ ir.order \in Seq(Node) /\ Len(ir.order) \in Nat
           /\ NodesOf(ir) \subseteq Node /\ ir.limited \subseteq Node
           /\ ir.trigger \in NodesOf(ir)
           /\ \A e \in ir.edges :
                 /\ e.target # ir.trigger
                 /\ \E i, j \in DOMAIN ir.order :
                       i < j /\ ir.order[i] = e.source /\ ir.order[j] = e.target
           /\ \A i, j \in DOMAIN ir.order : ir.order[i] = ir.order[j] => i = j
  <1>1. Compiled(ir) /\ ir \in Process
    BY ProcessesAssumption DEF TypeOK, Compiled
  <1>2. ir.order \in Seq(Node) /\ ir.limited \subseteq Node
    BY <1>1 DEF Process
  <1>3. NodesOf(ir) \subseteq Node
    BY <1>2 DEF NodesOf
  <1> QED  BY <1>1, <1>2, <1>3 DEF Compiled

\* The node at the cursor is a node of the process.
LEMMA CurrentIsNode ==
    ASSUME TypeOK, AtNode
    PROVE  Current \in NodesOf(ir) /\ Current \in Node /\ cursor \in DOMAIN ir.order
  <1>1. cursor \in DOMAIN ir.order
    BY ProcessShape DEF AtNode, TypeOK
  <1> QED  BY <1>1, ProcessShape DEF Current, NodesOf

\* The sources of the edges into a node are nodes of the process.
LEMMA SourcesAreNodes ==
    ASSUME TypeOK, NEW n, NEW e \in Incoming(ir, n)
    PROVE  e.source \in NodesOf(ir) /\ e \in ir.edges /\ e.target = n
  BY ProcessShape DEF Incoming, NodesOf

-----------------------------------------------------------------------------
(* The kinds of steps.                                                     *)

\* The node at the cursor is resolved without a task: skipped, or failed.
Resolves ==
    Ready /\ (Resolve("skipped", runStatus) \/ Resolve("failed", "failed"))

\* A task in flight ends.
Settles(n) ==
    /\ Visit(n)
    /\ \/ Settle(n, "timed_out", "failed") /\ n \in due /\ cancelled' = cancelled \cup {n}
       \/ Settle(n, "completed", runStatus) /\ n \notin executing /\ UNCHANGED cancelled
       \/ Settle(n, "failed", "failed") /\ UNCHANGED cancelled

\* The books are left alone.
Quiet == UNCHANGED <<ir, nodeStatus, pending, inflight, cancelled>> /\ executing' \subseteq executing

\* The actions that neither start nor resolve a node.
QuietStep ==
    \/ PassOver \/ EndSchedule \/ EndPoll \/ Decide \/ Raise \/ Stop \/ UNCHANGED vars
    \/ \E n \in toPoll : StillRunning(n)
    \/ \E n \in Node : ExecutionEnds(n) \/ Expire(n)

\* Every step resolves or starts the current node, ends a task or is quiet.
LEMMA StepKinds ==
    ASSUME [Next]_vars
    PROVE  Resolves \/ StartNode \/ (\E n \in toPoll : Settles(n)) \/ QuietStep
  <1>1. Skip \/ FailMapping \/ FailInput => Resolves
    BY DEF Skip, FailMapping, FailInput, MayFire, Resolves
  <1>2. \A n : TimeOut(n) \/ Complete(n) \/ Fail(n) => Settles(n)
    BY DEF TimeOut, Complete, Fail, Settles
  <1>3. CASE Next
    BY <1>1, <1>2, <1>3 DEF Next, Loop, SchedulePass, PollPass, QuietStep
  <1>4. CASE UNCHANGED vars
    BY <1>4 DEF QuietStep
  <1> QED  BY <1>3, <1>4

LEMMA QuietSteps == QuietStep => Quiet
  <1> SUFFICES ASSUME QuietStep PROVE Quiet  OBVIOUS
  <1>1. CASE PassOver \/ EndSchedule \/ EndPoll
    BY <1>1 DEF PassOver, Advance, EndSchedule, EndPoll, Quiet, state, tasks
  <1>2. CASE Decide \/ Raise
    BY <1>2 DEF Decide, Raise, Quiet, state, tasks
  <1>3. CASE Stop \/ UNCHANGED vars
    BY <1>3 DEF Stop, vars, Quiet, state, tasks
  <1>4. CASE \E n \in toPoll : StillRunning(n)
    BY <1>4 DEF StillRunning, Quiet, state, tasks
  <1>5. CASE \E n \in Node : ExecutionEnds(n) \/ Expire(n)
    BY <1>5 DEF ExecutionEnds, Expire, Quiet, state
  <1> QED  BY <1>1, <1>2, <1>3, <1>4, <1>5 DEF QuietStep

-----------------------------------------------------------------------------
(* Type correctness.                                                       *)

LEMMA InitType == Init => TypeOK
  <1> SUFFICES ASSUME Init PROVE TypeOK  OBVIOUS
  <1>1. Len(ir.order) \in Nat
    BY ProcessesAssumption DEF Init, Compiled, Process
  <1>2. nodeStatus \in [Node -> NodeStatus]
    BY DEF Init, NodeStatus
  <1>3. cursor \in 1..(Len(ir.order) + 1) /\ ir.limited \in SUBSET ir.limited
    BY <1>1 DEF Init
  <1> QED  BY <1>2, <1>3 DEF Init, TypeOK

LEMMA TypeStep == TypeOK /\ [Next]_vars => TypeOK'
  <1> SUFFICES ASSUME TypeOK, [Next]_vars PROVE TypeOK'  OBVIOUS
  <1> USE ProcessShape
  <1>1. CASE Resolves
    <2>1. Current \in pending /\ cursor <= Len(ir.order)
      BY <1>1 DEF Resolves, Ready, AtNode
    <2>2. nodeStatus' \in [Node -> NodeStatus] /\ runStatus' \in {"running", "completed", "failed"}
      BY <1>1 DEF Resolves, Resolve, TypeOK, NodeStatus, Terminal
    <2>3. /\ cursor' = cursor + 1 /\ UNCHANGED <<ir, pc, toPoll, due, inflight, tasks>>
          /\ pending' = pending \ {Current} /\ progressed' = TRUE
      BY <1>1 DEF Resolves, Resolve, Advance
    <2>4. cursor' \in 1..(Len(ir'.order) + 1)
      BY <2>1, <2>3 DEF TypeOK
    <2> QED  BY <2>2, <2>3, <2>4 DEF TypeOK, tasks
  <1>2. CASE StartNode
    <2>1. AtNode /\ cursor <= Len(ir.order)
      BY <1>2 DEF StartNode, MayFire, Ready, AtNode
    <2>2. Current \in NodesOf(ir) /\ Current \in Node
      BY <2>1, CurrentIsNode
    <2>3. executing' \in SUBSET Node
      BY <1>2, <2>2 DEF StartNode, TypeOK
    <2> QED
      BY <1>2, <2>1, <2>2, <2>3 DEF StartNode, Advance, TypeOK, NodeStatus
  <1>3. ASSUME NEW n \in toPoll, Settles(n) PROVE TypeOK'
    BY <1>3 DEF Settles, Settle, Visit, TypeOK, NodeStatus, Terminal
  <1>4. CASE QuietStep
    <2>1. CASE PassOver
      BY <1>4, <2>1 DEF PassOver, AtNode, Advance, TypeOK, state, tasks
    <2>2. CASE EndSchedule
      BY <2>2 DEF EndSchedule, TypeOK, state, tasks, Over
    <2>3. CASE EndPoll \/ Raise
      BY <2>3 DEF EndPoll, Raise, TypeOK, state, tasks, Over
    <2>4. CASE Decide
      <3>1. /\ runStatus' \in {"running", "completed", "failed"}
            /\ pc' \in {"schedule", "poll", "decide"} \cup Over
            /\ progressed' \in BOOLEAN
        BY <2>4 DEF Decide, TypeOK, Over
      <3>2. cursor' \in 1..(Len(ir.order) + 1)
        BY <2>4 DEF Decide, TypeOK
      <3> QED  BY <2>4, <3>1, <3>2 DEF Decide, TypeOK, tasks
    <2>5. CASE Stop \/ UNCHANGED vars
      BY <2>5 DEF Stop, vars, TypeOK, state, tasks
    <2>6. CASE \E n \in toPoll : StillRunning(n)
      BY <2>6 DEF StillRunning, Visit, TypeOK, state, tasks
    <2>7. CASE \E n \in Node : ExecutionEnds(n) \/ Expire(n)
      BY <2>7 DEF ExecutionEnds, Expire, TypeOK, state
    <2> QED  BY <1>4, <2>1, <2>2, <2>3, <2>4, <2>5, <2>6, <2>7 DEF QuietStep
  <1> QED  BY <1>1, <1>2, <1>3, <1>4, StepKinds

\* The types hold for every set of compiled processes.
THEOREM OrchestratorTypeCorrect == Spec => []TypeOK
  BY InitType, TypeStep, PTL DEF Spec

-----------------------------------------------------------------------------
(* The books: pending nodes, tasks in flight, statuses.                    *)

LEMMA BooksStep == TypeOK /\ BooksAgree /\ [Next]_vars => BooksAgree'
  <1> SUFFICES ASSUME TypeOK, BooksAgree, [Next]_vars PROVE BooksAgree'  OBVIOUS
  <1> USE ProcessShape
  <1>1. CASE Resolves
    BY <1>1 DEF Resolves, Ready, Resolve, Advance, BooksAgree, TypeOK
  <1>2. CASE StartNode
    BY <1>2 DEF StartNode, MayFire, Ready, Advance, BooksAgree, TypeOK
  <1>3. ASSUME NEW n \in toPoll, Settles(n) PROVE BooksAgree'
    BY <1>3 DEF Settles, Settle, Visit, BooksAgree, TypeOK
  <1>4. CASE QuietStep
    BY <1>4, QuietSteps DEF Quiet, BooksAgree
  <1> QED  BY <1>1, <1>2, <1>3, <1>4, StepKinds

\* A node is pending, in flight or resolved, for every process.
THEOREM BooksCorrect == Spec => []BooksAgree
  <1>1. Init => BooksAgree
    <2>1. ASSUME TypeOK, Init PROVE BooksAgree
      BY <2>1, ProcessShape DEF Init, BooksAgree
    <2> QED  BY <2>1, InitType
  <1> QED  BY <1>1, BooksStep, OrchestratorTypeCorrect, PTL DEF Spec

-----------------------------------------------------------------------------
(* A node leaves the pending ones after its sources, and no execution is lost. *)

\* What has been resolved stays resolved.
LEMMA ResolvedStays ==
    ASSUME TypeOK, BooksAgree, [Next]_vars, NEW n \in NodesOf(ir), nodeStatus[n] \in Terminal
    PROVE  nodeStatus'[n] \in Terminal
  <1> USE ProcessShape
  <1>1. n \notin pending /\ n \notin inflight
    BY DEF BooksAgree, Terminal
  <1>2. CASE Resolves
    BY <1>1, <1>2 DEF Resolves, Ready, Resolve, TypeOK
  <1>3. CASE StartNode
    BY <1>1, <1>3 DEF StartNode, MayFire, Ready, TypeOK
  <1>4. ASSUME NEW m \in toPoll, Settles(m) PROVE nodeStatus'[n] \in Terminal
    BY <1>1, <1>4 DEF Settles, Settle, TypeOK
  <1>5. CASE QuietStep
    BY <1>5, QuietSteps DEF Quiet
  <1> QED  BY <1>2, <1>3, <1>4, <1>5, StepKinds

LEMMA SourcesStep ==
    TypeOK /\ BooksAgree /\ SourcesFirst /\ [Next]_vars => SourcesFirst'
  <1> SUFFICES ASSUME TypeOK, BooksAgree, SourcesFirst, [Next]_vars,
                      NEW n \in NodesOf(ir)', n \notin pending',
                      NEW e \in Incoming(ir, n)'
               PROVE  nodeStatus'[e.source] \in Terminal
    BY DEF SourcesFirst
  <1>1. UNCHANGED ir
    <2>1. ASSUME NEW m \in toPoll, Settles(m) PROVE UNCHANGED ir
      BY <2>1 DEF Settles, Settle
    <2> QED
      BY <2>1, StepKinds, QuietSteps DEF Resolves, Resolve, StartNode, Advance, Quiet
  <1>2. n \in NodesOf(ir) /\ e \in Incoming(ir, n)
    BY <1>1
  <1>3. e.source \in NodesOf(ir)
    BY <1>2, SourcesAreNodes
  <1>4. nodeStatus[e.source] \in Terminal
    <2>1. CASE n \notin pending
      BY <2>1, <1>2 DEF SourcesFirst
    <2>2. CASE n \in pending
      <3>1. Ready /\ n = Current
        <4>1. ASSUME NEW m \in toPoll, Settles(m) PROVE UNCHANGED pending
          BY <4>1 DEF Settles, Settle
        <4> QED
          BY <2>2, <4>1, StepKinds, QuietSteps DEF Resolves, Resolve, StartNode, MayFire, Quiet
      <3>2. n # ir.trigger
        BY <1>2, SourcesAreNodes, ProcessShape
      <3> QED  BY <3>1, <3>2, <1>2 DEF Ready, SourcesResolved
    <2> QED  BY <2>1, <2>2
  <1> QED  BY <1>3, <1>4, ResolvedStays

\* The schedule pass respects the edges of every compiled process.
THEOREM SourcesCorrect == Spec => []SourcesFirst
  <1>1. Init => SourcesFirst
    BY DEF Init, SourcesFirst
  <1> QED
    BY <1>1, SourcesStep, OrchestratorTypeCorrect, BooksCorrect, PTL DEF Spec

LEMMA OrphansStep ==
    TypeOK /\ BooksAgree /\ NoOrphans /\ [Next]_vars => NoOrphans'
  <1> SUFFICES ASSUME TypeOK, BooksAgree, NoOrphans, [Next]_vars, NEW n \in executing'
               PROVE  n \in inflight' \cup cancelled' \/ nodeStatus'[n] = "failed"
    BY DEF NoOrphans
  <1> USE ProcessShape
  <1>1. CASE Resolves
    <2>1. n \in executing /\ nodeStatus[Current] = "none" /\ UNCHANGED <<inflight, cancelled>>
      BY <1>1, CurrentIsNode DEF Resolves, Resolve, Ready, BooksAgree, tasks
    <2>2. CASE n \in inflight \cup cancelled
      BY <2>1, <2>2
    <2>3. CASE nodeStatus[n] = "failed"
      BY <1>1, <2>1, <2>3 DEF Resolves, Resolve, TypeOK
    <2> QED  BY <2>1, <2>2, <2>3 DEF NoOrphans
  <1>2. CASE StartNode
    <2>1. /\ n = Current \/ n \in executing
          /\ inflight' = inflight \cup {Current} /\ UNCHANGED cancelled
          /\ nodeStatus' = [nodeStatus EXCEPT ![Current] = "running"]
      BY <1>2 DEF StartNode
    <2> QED  BY <2>1 DEF NoOrphans, TypeOK
  <1>3. ASSUME NEW m \in toPoll, Settles(m)
        PROVE  n \in inflight' \cup cancelled' \/ nodeStatus'[n] = "failed"
    <2>1. n \in executing /\ inflight' = inflight \ {m} /\ cancelled \subseteq cancelled'
      BY <1>3 DEF Settles, Settle
    <2>2. CASE n # m
      BY <1>3, <2>1, <2>2 DEF Settles, Settle, NoOrphans, TypeOK
    <2>3. CASE n = m
      BY <1>3, <2>1, <2>3 DEF Settles, Settle, TypeOK
    <2> QED  BY <2>2, <2>3
  <1>4. CASE QuietStep
    BY <1>4, QuietSteps DEF Quiet, NoOrphans
  <1> QED  BY <1>1, <1>2, <1>3, <1>4, StepKinds

\* Nothing goes on behind the loop's back, for every process.
THEOREM NoExecutionOrphaned == Spec => []NoOrphans
  <1>1. Init => NoOrphans
    BY DEF Init, NoOrphans
  <1> QED
    BY <1>1, OrphansStep, OrchestratorTypeCorrect, BooksCorrect, PTL DEF Spec

-----------------------------------------------------------------------------
(* The verdict.                                                            *)

\* Going past the node at the cursor extends what has been left behind.
LEMMA Extends ==
    ASSUME TypeOK, AtNode, NEW S,
           \A i \in 1..(cursor - 1) : ir.order[i] \notin S, Current \notin S
    PROVE  \A i \in 1..cursor : ir.order[i] \notin S
  BY DEF Current, TypeOK

\* A node whose sources all come before the cursor and are resolved is not passed over.
LEMMA PassOverStep ==
    ASSUME TypeOK, BooksAgree, NothingPassedOver, PassOver, ~progressed, inflight = {}
    PROVE  Current \notin pending
  <1> SUFFICES ASSUME Current \in pending PROVE FALSE  OBVIOUS
  <1>1. AtNode /\ ~Ready /\ pc = "schedule" /\ cursor \in DOMAIN ir.order
    BY CurrentIsNode DEF PassOver, AtNode
  <1>2. PICK e \in Incoming(ir, Current) : nodeStatus[e.source] \notin Terminal
    BY <1>1 DEF Ready, SourcesResolved
  <1>3. e.source \in NodesOf(ir) /\ e \in ir.edges /\ e.target = Current
    BY <1>2, SourcesAreNodes
  <1>4. PICK i, j \in DOMAIN ir.order : i < j /\ ir.order[i] = e.source /\ ir.order[j] = e.target
    BY <1>3, ProcessShape
  <1>5. j = cursor
    BY <1>1, <1>3, <1>4, ProcessShape DEF Current
  <1>6. ir.order[i] \notin pending
    BY <1>1, <1>4, <1>5, ProcessShape DEF NothingPassedOver, Over
  <1>7. nodeStatus[e.source] \in NodeStatus \ (Terminal \cup {"none", "running"})
    BY <1>2, <1>3, <1>4, <1>6, ProcessShape DEF BooksAgree, TypeOK
  <1> QED  BY <1>7 DEF NodeStatus

LEMMA PassStep ==
    TypeOK /\ BooksAgree /\ NothingPassedOver /\ [Next]_vars => NothingPassedOver'
  <1> SUFFICES ASSUME TypeOK, BooksAgree, NothingPassedOver, [Next]_vars
               PROVE  NothingPassedOver'
    OBVIOUS
  <1> USE ProcessShape
  <1>1. CASE Resolves \/ StartNode
    BY <1>1 DEF Resolves, Resolve, StartNode, MayFire, Ready, AtNode, Advance, NothingPassedOver
  <1>2. ASSUME NEW n \in toPoll, Settles(n) PROVE NothingPassedOver'
    BY <1>2 DEF Settles, Settle, NothingPassedOver
  <1>3. CASE PassOver
    <2> SUFFICES ASSUME ~progressed', inflight' = {}
                 PROVE  \A i \in 1..(cursor' - 1) : ir'.order[i] \notin pending'
      BY <1>3 DEF PassOver, AtNode, Advance, NothingPassedOver
    <2>1. UNCHANGED <<ir, pending, inflight, progressed>> /\ cursor' - 1 = cursor /\ AtNode
      BY <1>3 DEF PassOver, Advance, TypeOK
    <2>2. Current \notin pending
      BY <1>3, <2>1, PassOverStep
    <2>3. \A i \in 1..(cursor - 1) : ir.order[i] \notin pending
      BY <2>1 DEF NothingPassedOver, AtNode, Over
    <2> QED  BY <2>1, <2>2, <2>3, Extends
  <1>4. CASE EndSchedule
    BY <1>4 DEF EndSchedule, NothingPassedOver, TypeOK, Over
  <1>5. CASE Decide
    BY <1>5 DEF Decide, NothingPassedOver, Over
  <1>6. CASE EndPoll \/ Raise
    BY <1>6 DEF EndPoll, Raise, NothingPassedOver, Over
  <1>7. CASE \/ Stop \/ UNCHANGED vars
             \/ \E n \in toPoll : StillRunning(n)
             \/ \E n \in Node : ExecutionEnds(n) \/ Expire(n)
    BY <1>7 DEF Stop, vars, StillRunning, ExecutionEnds, Expire, NothingPassedOver
  <1> QED
    BY <1>1, <1>2, <1>3, <1>4, <1>5, <1>6, <1>7, StepKinds DEF QuietStep

\* A turn that changes nothing while no task is in flight leaves nothing pending.
LEMMA NothingLeft ==
    ASSUME TypeOK, NothingPassedOver, pc = "decide", ~Continues
    PROVE  pending = {} /\ inflight = {}
  <1>1. inflight = {} /\ (progressed => pending = {})
    BY DEF Continues
  <1>2. CASE ~progressed
    <2>1. \A i \in 1..Len(ir.order) : ir.order[i] \notin pending
      BY <1>1, <1>2, ProcessShape DEF NothingPassedOver, Over
    <2> QED  BY <1>1, <2>1, ProcessShape DEF NodesOf, TypeOK
  <1> QED  BY <1>1, <1>2 DEF TypeOK

LEMMA VerdictStep ==
    TypeOK /\ BooksAgree /\ NothingPassedOver /\ VerdictInv /\ [Next]_vars => VerdictInv'
  <1> SUFFICES ASSUME TypeOK, BooksAgree, NothingPassedOver, VerdictInv, [Next]_vars
               PROVE  VerdictInv'
    OBVIOUS
  <1> USE ProcessShape
  <1>1. CASE Resolves
    <2>1. /\ pc = "schedule" /\ pc' = pc /\ UNCHANGED ir /\ Current \in NodesOf(ir)
          /\ nodeStatus[Current] = "none"
      BY <1>1, CurrentIsNode DEF Resolves, Resolve, Ready, AtNode, Advance, BooksAgree
    <2>2. \A n \in NodesOf(ir) : n # Current => nodeStatus'[n] = nodeStatus[n]
      BY <1>1 DEF Resolves, Resolve, TypeOK
    <2>3. \/ nodeStatus'[Current] = "skipped" /\ UNCHANGED runStatus
          \/ nodeStatus'[Current] = "failed" /\ runStatus' = "failed"
      BY <1>1, <2>1 DEF Resolves, Resolve, TypeOK
    <2> QED  BY <2>1, <2>2, <2>3 DEF VerdictInv
  <1>2. CASE StartNode
    <2>1. /\ pc = "schedule" /\ pc' = pc /\ UNCHANGED <<ir, runStatus>> /\ Current \in NodesOf(ir)
          /\ nodeStatus[Current] = "none" /\ nodeStatus'[Current] = "running"
      BY <1>2, CurrentIsNode DEF StartNode, MayFire, Ready, AtNode, Advance, BooksAgree, TypeOK
    <2>2. \A n \in NodesOf(ir) : n # Current => nodeStatus'[n] = nodeStatus[n]
      BY <1>2 DEF StartNode, TypeOK
    <2> QED  BY <2>1, <2>2 DEF VerdictInv
  <1>3. ASSUME NEW m \in toPoll, Settles(m) PROVE VerdictInv'
    <2>1. /\ pc = "poll" /\ pc' = pc /\ UNCHANGED ir
          /\ m \in NodesOf(ir) /\ nodeStatus[m] = "running"
      BY <1>3 DEF Settles, Settle, Visit, BooksAgree, TypeOK
    <2>2. \A n \in NodesOf(ir) : n # m => nodeStatus'[n] = nodeStatus[n]
      BY <1>3 DEF Settles, Settle, TypeOK
    <2>3. \/ nodeStatus'[m] = "completed" /\ UNCHANGED runStatus
          \/ nodeStatus'[m] \in {"failed", "timed_out"} /\ runStatus' = "failed"
      BY <1>3, <2>1 DEF Settles, Settle, TypeOK
    <2> QED  BY <2>1, <2>2, <2>3 DEF VerdictInv
  <1>4. CASE Decide
    <2>1. UNCHANGED <<ir, nodeStatus, pending, inflight>> /\ pc = "decide"
      BY <1>4 DEF Decide
    <2>2. CASE Continues
      BY <1>4, <2>1, <2>2 DEF Decide, VerdictInv
    <2>3. CASE ~Continues
      BY <1>4, <2>1, <2>3, NothingLeft DEF Decide, VerdictInv
    <2> QED  BY <2>2, <2>3
  <1>5. CASE QuietStep /\ ~Decide
    <2>1. UNCHANGED <<ir, nodeStatus, runStatus, pending, inflight>>
      <3>1. UNCHANGED runStatus
        BY <1>5 DEF QuietStep, PassOver, EndSchedule, EndPoll, Raise, Stop, vars,
           StillRunning, ExecutionEnds, Expire, state
      <3> QED  BY <1>5, <3>1, QuietSteps DEF Quiet
    <2>2. /\ pc' = "returned" => pc = "returned" \/ runStatus = "failed"
          /\ pc = "returned" => pc' = "returned"
      BY <1>5 DEF QuietStep, PassOver, AtNode, Advance, EndSchedule, EndPoll, Raise, MayFire,
         Ready, Stop, vars, StillRunning, ExecutionEnds, Expire
    <2> QED  BY <2>1, <2>2 DEF VerdictInv
  <1> QED  BY <1>1, <1>2, <1>3, <1>4, <1>5, StepKinds

\* The inductive invariant behind the next theorem.
THEOREM VerdictCorrect == Spec => [](NothingPassedOver /\ VerdictInv)
  <1>1. Init => NothingPassedOver /\ VerdictInv
    <2> SUFFICES ASSUME Init PROVE NothingPassedOver /\ VerdictInv  OBVIOUS
    <2>1. NodesOf(ir) \subseteq Node
      BY InitType, ProcessShape
    <2> QED  BY <2>1 DEF Init, NothingPassedOver, VerdictInv
  <1> QED
    BY <1>1, PassStep, VerdictStep, OrchestratorTypeCorrect, BooksCorrect, PTL DEF Spec

\* A run is reported completed exactly when all its work has been done.
THEOREM CompletedCorrect == Spec => []CompletedMeansDone
  <1>1. TypeOK /\ BooksAgree /\ VerdictInv => CompletedMeansDone
    <2> SUFFICES ASSUME TypeOK, BooksAgree, VerdictInv, pc = "returned"
                 PROVE  runStatus = "completed" <=>
                            \A n \in NodesOf(ir) : nodeStatus[n] \in {"completed", "skipped"}
      BY DEF CompletedMeansDone
    <2>1. \A n \in NodesOf(ir) : nodeStatus[n] \in NodeStatus
      BY ProcessShape DEF TypeOK
    <2>2. CASE runStatus = "completed"
      BY <2>1, <2>2 DEF VerdictInv, BooksAgree, NodeStatus, Terminal
    <2>3. CASE runStatus = "failed"
      BY <2>3 DEF VerdictInv
    <2> QED  BY <2>2, <2>3 DEF VerdictInv, TypeOK
  <1> QED
    BY <1>1, VerdictCorrect, OrchestratorTypeCorrect, BooksCorrect, PTL

=============================================================================
