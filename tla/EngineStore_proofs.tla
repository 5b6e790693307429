------------------------- MODULE EngineStore_proofs -------------------------
(***************************************************************************)
(* Proofs about EngineStore, for every set of deployments, any number of   *)
(* workers and runs, and any bound on executions.                          *)
(***************************************************************************)
EXTENDS EngineStore, TLAPS

-----------------------------------------------------------------------------
(* Types.                                                                  *)

\* The process of the deployment: a sequence of nodes that is not empty.
LEMMA OrderType ==
    ASSUME DeploymentsAssumption, deployment \in Deployments
    PROVE  /\ Order \in Seq(Node) /\ Len(Order) \in Nat /\ Len(Order) > 0
           /\ Range(Order) \subseteq Node /\ deployment.workers \subseteq Worker
           /\ deployment.runs \subseteq Run
           /\ \A i \in 1..Len(Order) : Order[i] \in Range(Order)
  <1>1. /\ Order \in Seq(Range(Order)) /\ Order # << >>
        /\ deployment.workers \subseteq Worker /\ deployment.runs \subseteq Run
    BY DEF DeploymentsAssumption, Order
  <1>2. Range(Order) \subseteq Node
    BY DEF Node, Order
  <1>3. Order \in Seq(Node)
    BY <1>1, <1>2
  <1> QED  BY <1>1, <1>2, <1>3

\* What goto leaves of a worker's record.
LEMMA GotoType ==
    ASSUME TypeOK, NEW w \in Worker, NEW label \in Labels, Goto(w, label)
    PROVE  /\ worker' \in [Worker -> WorkerState]
           /\ worker'[w] = [worker[w] EXCEPT !.pc = label]
           /\ \A v \in Worker \ {w} : worker'[v] = worker[v]
  <1>1. worker[w] \in WorkerState
    BY DEF TypeOK
  <1>2. [worker[w] EXCEPT !.pc = label] \in WorkerState
    BY <1>1 DEF WorkerState
  <1>3. worker' = [worker EXCEPT ![w] = [worker[w] EXCEPT !.pc = label]]
    BY DEF Goto
  <1> QED  BY <1>2, <1>3 DEF TypeOK

LEMMA InitType == ASSUME DeploymentsAssumption, Init PROVE TypeOK
  <1>1. Idle \in WorkerState
    BY DEF Idle, WorkerState, Labels, Value, RunStatus, Answer
  <1>2. NoFile("unused") \in RunFile /\ NoNodeFile \in NodeFile
    BY DEF NoFile, RunFile, NoNodeFile, NodeFile
  <1>3. log \in [Run -> Seq(Event)]
    BY DEF Init
  <1>4. response \in [Run -> ResponseFile]
    BY DEF Init, ResponseFile
  <1> QED  BY <1>1, <1>2, <1>3, <1>4 DEF Init, TypeOK

-----------------------------------------------------------------------------
(* The inductive invariant.                                                *)

Writing == {"start", "append", "record", "update", "truncate", "write", "end", "audit"}

\* In memory: what a worker has of its run agrees with where it is in it.
Started(x) == x.run # Nothing => runFile[x.run].kind # "unused"
ExecutedSoFar(x) ==
    /\ x.position <= Len(Order) /\ Len(x.entries) = x.position - 1
    /\ \A i \in 1..Len(x.entries) :
          x.entries[i].node = Order[i] /\ x.entries[i].status = "completed"
VerdictExplained(x) ==
    /\ x.status = "completed" =>
          \A n \in Range(Order) : \E i \in DOMAIN x.entries :
              x.entries[i].node = n /\ x.entries[i].status = "completed"
    /\ x.status \in Verdict \ {"completed"} =>
          \E i \in DOMAIN x.entries :
              x.entries[i].node \in Range(Order) /\ x.entries[i].status = x.status
Progress(x) ==
    /\ x.pc \notin {"idle", "prune"} => x.run \in Run
    /\ Started(x)
    /\ x.pc \in {"create", "load"} => x.position = 1 /\ x.entries = << >>
    /\ x.pc = "execute" => ExecutedSoFar(x)
    /\ x.pc \in Writing => VerdictExplained(x)
    /\ x.pc = "start" => x.position = 1
    /\ x.pc = "record" => x.position <= Len(x.entries)
    /\ x.pc = "answer" => x.answer \in Answer

ProgressInv == \A w \in Worker : Progress(worker[w])

\* How far the execution log of a worker is in the event log.
LoggedUpTo(x) ==
    IF x.pc = "append" THEN x.position - 1
    ELSE IF x.pc = "record" THEN x.position
    ELSE IF x.pc \in {"update", "truncate", "write", "end", "audit"} THEN Len(x.entries)
    ELSE 0

\* On disk: a run that was not removed has the events of the entries before that, and
\* its artifacts when they come before what its worker does next.
Written(x) ==
    x.run # Nothing /\ Exists(x.run) =>
        /\ \A i \in DOMAIN x.entries :
              i <= LoggedUpTo(x) => Occurs(x.run, x.entries[i].node, x.entries[i].status)
        /\ x.pc \in {"update", "truncate", "write"} /\ deployment.artifacts
              => x.run \in artifact

WrittenInv == \A w \in Worker : Written(worker[w])

\* A run with an interaction was triggered.
AnswerInv == \A r \in pending : runFile[r].kind # "unused"

-----------------------------------------------------------------------------
(* Type correctness.                                                       *)

\* What the backend changes in a worker's record.
LEMMA Progressed ==
    ASSUME NEW x \in WorkerState, NEW pc \in Labels, NEW input \in Value,
           NEW position \in Nat \ {0}, NEW entries \in Seq(Entry),
           NEW status \in RunStatus
    PROVE  [x EXCEPT !.entries = entries, !.input = input, !.position = position,
                     !.status = status, !.pc = pc] \in WorkerState
  BY DEF WorkerState

\* Resolving a node, as Continue and GiveUp do.
LEMMA ContinueStep ==
    ASSUME DeploymentsAssumption, TypeOK, NEW w \in Worker, NEW n \in Node,
           NEW output \in Value, Continue(w, n, output)
    PROVE  /\ worker' \in [Worker -> WorkerState]
           /\ worker'[w].run = worker[w].run
           /\ worker'[w].entries = Append(worker[w].entries, Done(n, worker[w].input, output))
           /\ IF worker[w].position = Len(Order)
              THEN /\ worker'[w].pc = "start" /\ worker'[w].position = 1
                   /\ worker'[w].status = "completed"
              ELSE /\ worker'[w].pc = worker[w].pc
                   /\ worker'[w].position = worker[w].position + 1
                   /\ worker'[w].status = worker[w].status
  <1> DEFINE last == worker[w].position = Len(Order)
             x == [worker[w] EXCEPT
                     !.entries = Append(@, Done(n, worker[w].input, output)),
                     !.input = output,
                     !.position = IF last THEN 1 ELSE @ + 1,
                     !.status = IF last THEN "completed" ELSE @,
                     !.pc = IF last THEN "start" ELSE @]
  <1>1. worker[w] \in WorkerState
    BY DEF TypeOK
  <1>2. worker' = [worker EXCEPT ![w] = x]
    BY DEF Continue
  <1>3. Done(n, worker[w].input, output) \in Entry
    BY <1>1 DEF Done, Entry, Logged, Value, WorkerState, NodeStatus, Verdict
  <1>4. Append(worker[w].entries, Done(n, worker[w].input, output)) \in Seq(Entry)
    BY <1>1, <1>3 DEF WorkerState
  <1>5. x \in WorkerState
    <2> DEFINE entries == Append(worker[w].entries, Done(n, worker[w].input, output))
               position == IF last THEN 1 ELSE worker[w].position + 1
               status == IF last THEN "completed" ELSE worker[w].status
               pc == IF last THEN "start" ELSE worker[w].pc
    <2>1. /\ entries \in Seq(Entry) /\ position \in Nat \ {0} /\ pc \in Labels
          /\ status \in RunStatus
      BY <1>1, <1>4 DEF WorkerState, Labels, RunStatus, Verdict
    <2>2. x = [worker[w] EXCEPT !.entries = entries, !.input = output,
                                !.position = position, !.status = status, !.pc = pc]
      OBVIOUS
    <2> HIDE DEF x, entries, position, status, pc
    <2> QED  BY <1>1, <2>1, <2>2, Progressed
  <1>6. worker'[w] = x
    BY <1>2 DEF TypeOK
  <1>7. worker' \in [Worker -> WorkerState]
    BY <1>2, <1>5 DEF TypeOK
  <1> QED  BY <1>1, <1>6, <1>7 DEF WorkerState

LEMMA GiveUpStep ==
    ASSUME DeploymentsAssumption, TypeOK, NEW w \in Worker, NEW n \in Node,
           NEW verdict \in Verdict \ {"completed"}, GiveUp(w, n, verdict)
    PROVE  /\ worker' \in [Worker -> WorkerState]
           /\ worker'[w].run = worker[w].run
           /\ worker'[w].pc = "start" /\ worker'[w].position = 1 /\ worker'[w].status = verdict
           /\ \E i \in DOMAIN worker'[w].entries :
                 worker'[w].entries[i].node = n /\ worker'[w].entries[i].status = verdict
  <1> DEFINE rest == SubSeq(Order, worker[w].position + 1, Len(Order))
             left == [i \in DOMAIN rest |-> Left(rest[i], verdict)]
             ended == Ended(n, worker[w].input, verdict)
             entries == Append(worker[w].entries, ended) \o left
             x == [worker[w] EXCEPT !.entries = entries,
                                    !.position = 1, !.status = verdict, !.pc = "start"]
  <1>1. worker[w] \in WorkerState
    BY DEF TypeOK
  <1>2. worker' = [worker EXCEPT ![w] = x]
    BY DEF GiveUp
  <1>3. ended \in Entry
    BY <1>1 DEF Ended, Entry, WorkerState, NodeStatus
  <1>4. rest \in Seq(Node)
    BY <1>1, OrderType DEF TypeOK, WorkerState
  <1>5. left \in Seq(Entry)
    <2> HIDE DEF rest
    <2>1. \A i \in 1..Len(rest) : Left(rest[i], verdict) \in Entry
      BY <1>4 DEF Left, Entry, NodeStatus, Verdict
    <2>2. DOMAIN rest = 1..Len(rest) /\ Len(rest) \in Nat
      BY <1>4
    <2> QED  BY <2>1, <2>2
  <1>6. Append(worker[w].entries, ended) \in Seq(Entry)
    BY <1>1, <1>3 DEF WorkerState
  <1>7. entries \in Seq(Entry)
    <2> HIDE DEF left, ended
    <2> QED  BY <1>5, <1>6
  <1>8. LET i == Len(worker[w].entries) + 1
        IN i \in DOMAIN entries /\ entries[i] = ended
    <2> HIDE DEF left, ended
    <2> QED  BY <1>1, <1>3, <1>5, <1>6 DEF WorkerState
  <1>9. ended.node = n /\ ended.status = verdict
    BY DEF Ended
  <1> HIDE DEF entries, ended
  <1>10. x \in WorkerState
    <2>1. "start" \in Labels /\ 1 \in Nat \ {0} /\ verdict \in RunStatus
      BY DEF Labels, RunStatus
    <2> QED  BY <1>1, <1>7, <2>1 DEF WorkerState
  <1>11. worker'[w] = x
    BY <1>2 DEF TypeOK
  <1>12. worker' \in [Worker -> WorkerState]
    BY <1>2, <1>10 DEF TypeOK
  <1>13. /\ x.run = worker[w].run /\ x.entries = entries
         /\ x.pc = "start" /\ x.position = 1 /\ x.status = verdict
    BY <1>1 DEF WorkerState
  <1>14. \E i \in DOMAIN entries : entries[i].node = n /\ entries[i].status = verdict
    BY <1>8, <1>9
  <1> HIDE DEF x
  <1> QED  BY <1>11, <1>12, <1>13, <1>14

\* A call that begins, or none.
LEMMA FreshCalls ==
    /\ Idle \in WorkerState
    /\ \A r \in Run : /\ [Idle EXCEPT !.pc = "create", !.run = r] \in WorkerState
                      /\ \A a \in Answer :
                            [Idle EXCEPT !.pc = "answer", !.run = r, !.answer = a] \in WorkerState
                      /\ Stepping(r) \in WorkerState
    /\ \A runs \in SUBSET Run : [Idle EXCEPT !.pc = "prune", !.matched = runs] \in WorkerState
  <1>1. {"create", "answer", "load", "prune"} \subseteq Labels /\ {"clear", "empty"} \subseteq Value
    BY DEF Labels, Value
  <1>2. Idle \in WorkerState
    BY DEF Idle, WorkerState, Labels, Value, RunStatus
  <1>3. ASSUME NEW r \in Run
        PROVE  /\ [Idle EXCEPT !.pc = "create", !.run = r] \in WorkerState
               /\ \A a \in Answer :
                     [Idle EXCEPT !.pc = "answer", !.run = r, !.answer = a] \in WorkerState
    BY <1>1, <1>2 DEF WorkerState
  <1>4. ASSUME NEW r \in Run PROVE Stepping(r) \in WorkerState
    <2>1. (IF runFile[r].whole THEN "clear" ELSE "empty") \in Value
      BY <1>1
    <2>2. \A input \in Value :
             [Idle EXCEPT !.pc = "load", !.run = r, !.input = input] \in WorkerState
      BY <1>1, <1>2 DEF WorkerState
    <2> QED  BY <2>1, <2>2 DEF Stepping
  <1>5. ASSUME NEW runs \in SUBSET Run
        PROVE  [Idle EXCEPT !.pc = "prune", !.matched = runs] \in WorkerState
    BY <1>1, <1>2 DEF WorkerState
  <1> QED  BY <1>2, <1>3, <1>4, <1>5

LEMMA EventType ==
    /\ RunEvent("run_started", "running") \in Event
    /\ RunEvent("run_completed", "completed") \in Event
    /\ \A status \in RunStatus : RunEvent("run_failed", status) \in Event
    /\ \A entry \in Entry : NormalizeEvent(entry) \in Event
  BY DEF RunEvent, NormalizeEvent, Event, Entry, RunStatus, NodeStatus, Verdict

LEMMA AppendType ==
    ASSUME TypeOK, NEW r \in Run, NEW event \in Event, AppendEvent(r, event)
    PROVE  /\ log' \in [Run -> Seq(Event)] /\ Exists(r)
           /\ log'[r] = Append(log[r], event) /\ \A q \in Run \ {r} : log'[q] = log[q]
  <1>1. Append(log[r], event) \in Seq(Event)
    BY DEF TypeOK
  <1>2. log' = [log EXCEPT ![r] = Append(log[r], event)] /\ Exists(r)
    BY DEF AppendEvent
  <1> QED  BY <1>1, <1>2 DEF TypeOK

LEMMA RemoveType ==
    ASSUME TypeOK, NEW runs \in SUBSET Run, RemoveRuns(runs)
    PROVE  /\ runFile' \in [Run -> RunFile] /\ nodeFile' \in [Run -> [Node -> NodeFile]]
           /\ log' \in [Run -> Seq(Event)] /\ artifact' \subseteq Run
  <1>1. NoFile("pruned") \in RunFile /\ NoNodeFile \in NodeFile /\ << >> \in Seq(Event)
    BY DEF NoFile, RunFile, NoNodeFile, NodeFile
  <1>2. runFile' \in [Run -> RunFile] /\ artifact' \subseteq Run
    BY <1>1 DEF RemoveRuns, TypeOK
  <1>3. nodeFile' \in [Run -> [Node -> NodeFile]]
    BY <1>1 DEF RemoveRuns, TypeOK
  <1>4. log' \in [Run -> Seq(Event)]
    BY <1>1 DEF RemoveRuns, TypeOK
  <1> QED  BY <1>2, <1>3, <1>4

\* The runs that retention removes are runs of the store.
LEMMA RetentionRuns ==
    ASSUME NEW w
    PROVE  (IF deployment.retention THEN (ListedRuns \cap old) \ {At(w)} ELSE {}) \in SUBSET Run
  BY DEF ListedRuns

LEMMA ExecuteType ==
    ASSUME DeploymentsAssumption, TypeOK, ProgressInv, NEW w \in Worker, Execute(w)
    PROVE  TypeOK'
  <1> USE DEF Serving
  <1>0. /\ worker[w] \in WorkerState /\ worker[w].pc # "idle" /\ worker[w].pc # "prune"
        /\ At(w) = worker[w].run /\ At(w) \in Run
    <2>1. worker[w].pc \notin {"idle", "prune"}
      BY DEF Execute, CreateRun, LoadCache, NodeFromCache, NodeFromProvider, LogStarted, LogEntry,
             SaveNodeRecord, SaveArtifacts, UpdateRead, UpdateTruncate, UpdateWrite, LogEnded,
             ApplyRetention
    <2> QED  BY <2>1 DEF TypeOK, ProgressInv, Progress, At
  <1>1. CASE CreateRun(w)
    <2>1. [kind |-> "record", status |-> "running", whole |-> TRUE] \in RunFile
      BY DEF RunFile, RunRecord, RunStatus
    <2>2. worker' \in [Worker -> WorkerState]
      BY <1>1, GotoType DEF CreateRun, Labels
    <2> QED  BY <1>0, <1>1, <2>1, <2>2 DEF CreateRun, TypeOK, interactions
  <1>2. CASE LoadCache(w)
    <2>1. CachedResults(At(w)) \in SUBSET CacheEntry
      BY <1>0 DEF CachedResults, CacheEntry, TypeOK, NodeFile
    <2>2. worker' = [worker EXCEPT ![w] = [worker[w] EXCEPT !.pc = "execute",
                                                          !.cache = CachedResults(At(w))]]
      BY <1>2 DEF LoadCache
    <2>3. [worker[w] EXCEPT !.pc = "execute", !.cache = CachedResults(At(w))] \in WorkerState
      BY <1>0, <2>1 DEF WorkerState, Labels
    <2>4. worker' \in [Worker -> WorkerState]
      BY <2>2, <2>3 DEF TypeOK
    <2> QED  BY <1>2, <2>4 DEF LoadCache, TypeOK, interactions
  <1>3. CASE NodeFromCache(w) \/ NodeFromProvider(w)
    <2> DEFINE n == Order[worker[w].position]
    <2>1. n \in Node /\ worker[w].input \in Value
      <3>1. worker[w].position \in 1..Len(Order)
        BY <1>0, <1>3, OrderType DEF NodeFromCache, NodeFromProvider, ProgressInv, Progress,
                                     ExecutedSoFar, WorkerState
      <3>2. n \in Node
        BY <1>0, <3>1, OrderType DEF TypeOK
      <3> QED  BY <1>0, <3>2 DEF WorkerState
    <2>2. CASE NodeFromCache(w)
      <3>1. PICK c \in Hits(w, n) : Continue(w, n, c.output)
        BY <2>2 DEF NodeFromCache
      <3>2. c.output \in Value
        BY <1>0, <3>1 DEF Hits, WorkerState, CacheEntry
      <3>3. worker' \in [Worker -> WorkerState]
        BY <2>1, <3>1, <3>2, ContinueStep
      <3> QED  BY <2>2, <3>3 DEF NodeFromCache, TypeOK, interactions
    <2>3. CASE NodeFromProvider(w)
      <3>1. Continue(w, n, worker[w].input)
               \/ \E verdict \in Verdict \ {"completed"} : GiveUp(w, n, verdict)
        BY <2>3 DEF NodeFromProvider
      <3>2. worker' \in [Worker -> WorkerState]
        BY <2>1, <3>1, ContinueStep, GiveUpStep
      <3>3. calls' \subseteq Call
        <4> DEFINE repeated == \E c \in worker[w].cache : c.node = n
        <4>1. repeated \in BOOLEAN
          OBVIOUS
        <4>2. calls' = calls \cup {[run |-> At(w), node |-> n, input |-> worker[w].input,
                                   repeated |-> repeated]}
          BY <2>3 DEF NodeFromProvider
        <4> HIDE DEF repeated, n
        <4> QED  BY <1>0, <2>1, <4>1, <4>2 DEF Call, TypeOK
      <3> QED  BY <2>3, <3>2, <3>3 DEF NodeFromProvider, TypeOK, interactions
    <2> QED  BY <1>3, <2>2, <2>3
  <1>4. CASE LogStarted(w)
    <2>1. log' \in [Run -> Seq(Event)] /\ worker' \in [Worker -> WorkerState]
      BY <1>0, <1>4, EventType, AppendType, GotoType DEF LogStarted, Labels
    <2> QED  BY <1>4, <2>1 DEF LogStarted, TypeOK, interactions
  <1>5. CASE LogEntry(w)
    <2>1. worker[w].entries[worker[w].position] \in Entry
      BY <1>0, <1>5 DEF LogEntry, WorkerState
    <2>2. log' \in [Run -> Seq(Event)] /\ worker' \in [Worker -> WorkerState]
      BY <1>0, <1>5, <2>1, EventType, AppendType, GotoType DEF LogEntry, Labels
    <2> QED  BY <1>5, <2>2 DEF LogEntry, TypeOK, interactions
  <1>6. CASE SaveNodeRecord(w)
    <2> DEFINE entry == worker[w].entries[worker[w].position]
    <2>1. entry \in Entry
      BY <1>0, <1>6 DEF SaveNodeRecord, ProgressInv, Progress, WorkerState
    <2>2. Merged(nodeFile[At(w)][entry.node], entry) \in NodeFile /\ entry.node \in Node
      <3>1. nodeFile[At(w)][entry.node] \in NodeFile /\ entry.node \in Node
        BY <1>0, <2>1 DEF Entry, TypeOK
      <3>2. \A rec \in NodeFile, e \in Entry : Merged(rec, e) \in NodeFile
        BY DEF Merged, NodeFile, Entry
      <3> QED  BY <2>1, <3>1, <3>2
    <2>3. nodeFile' \in [Run -> [Node -> NodeFile]]
      BY <1>0, <1>6, <2>2 DEF SaveNodeRecord, TypeOK
    <2>4. [worker[w] EXCEPT !.pc = "append", !.position = @ + 1] \in WorkerState
      <3>1. "append" \in Labels /\ worker[w].position + 1 \in Nat \ {0}
        BY <1>0 DEF WorkerState, Labels
      <3> QED  BY <1>0, <3>1 DEF WorkerState
    <2>5. worker' = [worker EXCEPT ![w] = [worker[w] EXCEPT !.pc = "append", !.position = @ + 1]]
      BY <1>6 DEF SaveNodeRecord
    <2>6. worker' \in [Worker -> WorkerState]
      BY <2>4, <2>5 DEF TypeOK
    <2> QED  BY <1>6, <2>3, <2>6 DEF SaveNodeRecord, TypeOK, interactions
  <1>7. CASE SaveArtifacts(w)
    <2>1. worker' \in [Worker -> WorkerState]
      BY <1>7, GotoType DEF SaveArtifacts, Labels
    <2> QED  BY <1>0, <1>7, <2>1 DEF SaveArtifacts, SaveRunArtifact, TypeOK, interactions
  <1>8. CASE UpdateRead(w)
    <2>1. runFile[At(w)].whole \in BOOLEAN
      BY <1>0 DEF TypeOK, RunFile, RunRecord
    <2>2. [worker[w] EXCEPT !.pc = "truncate", !.whole = runFile[At(w)].whole] \in WorkerState
      BY <1>0, <2>1 DEF WorkerState, Labels
    <2>3. worker' = [worker EXCEPT ![w] = [worker[w] EXCEPT !.pc = "truncate",
                                                          !.whole = runFile[At(w)].whole]]
      BY <1>8 DEF UpdateRead
    <2>4. worker' \in [Worker -> WorkerState]
      BY <2>2, <2>3 DEF TypeOK
    <2> QED  BY <1>8, <2>4 DEF UpdateRead, TypeOK, interactions
  <1>9. CASE UpdateTruncate(w)
    <2>1. worker' \in [Worker -> WorkerState]
      BY <1>9, GotoType DEF UpdateTruncate, Labels
    <2>2. NoFile("torn") \in RunFile
      BY DEF NoFile, RunFile
    <2> QED  BY <1>0, <1>9, <2>1, <2>2 DEF UpdateTruncate, TypeOK, interactions
  <1>10. CASE UpdateWrite(w)
    <2>1. worker' \in [Worker -> WorkerState]
      BY <1>10, GotoType DEF UpdateWrite, Labels
    <2>2. [kind |-> "record", status |-> worker[w].status, whole |-> worker[w].whole] \in RunFile
      BY <1>0 DEF RunFile, RunRecord, WorkerState
    <2> QED  BY <1>0, <1>10, <2>1, <2>2 DEF UpdateWrite, TypeOK, interactions
  <1>11. CASE LogEnded(w)
    <2>1. worker' \in [Worker -> WorkerState]
      BY <1>11, GotoType DEF LogEnded, Labels
    <2>2. RunEvent(IF worker[w].status = "completed" THEN "run_completed" ELSE "run_failed",
                   worker[w].status) \in Event
      BY <1>0, EventType DEF WorkerState
    <2>3. log' \in [Run -> Seq(Event)]
      BY <1>0, <1>11, <2>2, AppendType DEF LogEnded
    <2> QED  BY <1>11, <2>1, <2>3 DEF LogEnded, TypeOK, interactions
  <1>12. CASE ApplyRetention(w)
    <2>1. /\ runFile' \in [Run -> RunFile] /\ nodeFile' \in [Run -> [Node -> NodeFile]]
          /\ log' \in [Run -> Seq(Event)] /\ artifact' \subseteq Run
      BY <1>12, RetentionRuns, RemoveType DEF ApplyRetention
    <2>2. worker' \in [Worker -> WorkerState]
      BY <1>12, FreshCalls DEF ApplyRetention, TypeOK
    <2> QED  BY <1>12, <2>1, <2>2 DEF ApplyRetention, TypeOK, interactions
  <1> QED
    BY <1>1, <1>2, <1>3, <1>4, <1>5, <1>6, <1>7, <1>8, <1>9, <1>10, <1>11, <1>12 DEF Execute

LEMMA CallType ==
    ASSUME DeploymentsAssumption, TypeOK, ProgressInv, NEW w \in Worker, Serve(w), ~ Execute(w)
    PROVE  TypeOK'
  <1>1. CASE Trigger(w)
    <2>1. NoFile("torn") \in RunFile
      BY DEF NoFile, RunFile
    <2>2. PICK r \in Run :
            /\ runFile' = [runFile EXCEPT ![r] = NoFile("torn")]
            /\ worker' = [worker EXCEPT ![w] = [Idle EXCEPT !.pc = "create", !.run = r]]
      BY <1>1, OrderType DEF Trigger, TypeOK
    <2>3. worker' \in [Worker -> WorkerState] /\ runFile' \in [Run -> RunFile]
      BY <2>1, <2>2, FreshCalls DEF TypeOK
    <2> QED  BY <1>1, <2>3 DEF Trigger, TypeOK, interactions
  <1>2. CASE Step(w)
    <2>1. worker' \in [Worker -> WorkerState]
      BY <1>2, FreshCalls DEF Step, TypeOK
    <2> QED  BY <1>2, <2>1 DEF Step, TypeOK, interactions
  <1>3. CASE Stop(w)
    <2>1. worker' \in [Worker -> WorkerState]
      BY <1>3, FreshCalls DEF Stop, TypeOK
    <2> QED  BY <1>3, <2>1 DEF Stop, TypeOK, interactions
  <1>4. ASSUME NEW r \in Run, NEW answer \in Answer, OpenResponse(w, r, answer) PROVE TypeOK'
    <2>1. worker' \in [Worker -> WorkerState]
      BY <1>4, FreshCalls DEF OpenResponse, TypeOK
    <2>2. response' \in [Run -> ResponseFile]
      BY <1>4 DEF OpenResponse, TypeOK, ResponseFile
    <2> QED  BY <1>4, <2>1, <2>2 DEF OpenResponse, TypeOK
  <1>5. CASE StepAnswered(w)
    <2>1. Serving(w, "answered") => At(w) \in Run \cup {Nothing}
      BY DEF At, TypeOK, WorkerState
    <2>2. Steppable(At(w)) => Stepping(At(w)) \in WorkerState
      <3>1. CASE At(w) \in Run
        BY <3>1, FreshCalls
      <3>2. CASE At(w) = Nothing
        <4>1. "load" \in Labels /\ Nothing \in Run \cup {Nothing} /\ {"clear", "empty"} \subseteq Value
          BY DEF Labels, Value
        <4>2. (IF runFile[At(w)].whole THEN "clear" ELSE "empty") \in Value
          BY <4>1
        <4>3. \A input \in Value :
                 [Idle EXCEPT !.pc = "load", !.run = Nothing, !.input = input] \in WorkerState
          BY <4>1, FreshCalls DEF WorkerState
        <4> QED  BY <3>2, <4>2, <4>3 DEF Stepping
      <3> QED  BY <1>5, <2>1, <3>1, <3>2 DEF StepAnswered
    <2>3. worker' \in [Worker -> WorkerState]
      BY <1>5, <2>2, FreshCalls DEF StepAnswered, TypeOK
    <2> QED  BY <1>5, <2>3 DEF StepAnswered, TypeOK, interactions
  <1>6. ASSUME NEW statuses, NEW olderThan, PruneSelect(w, statuses, olderThan) PROVE TypeOK'
    <2>1. Matched(statuses, olderThan) \in SUBSET Run
      BY DEF Matched, ListedRuns
    <2>2. worker' = [worker EXCEPT ![w] =
             [Idle EXCEPT !.pc = "prune", !.matched = Matched(statuses, olderThan)]]
      BY <1>6 DEF PruneSelect
    <2>3. worker' \in [Worker -> WorkerState]
      BY <2>1, <2>2, FreshCalls DEF TypeOK
    <2> QED  BY <1>6, <2>3 DEF PruneSelect, TypeOK, interactions
  <1>7. CASE PruneDelete(w)
    <2>1. worker[w].matched \in SUBSET Run
      BY DEF TypeOK, WorkerState
    <2>2. /\ runFile' \in [Run -> RunFile] /\ nodeFile' \in [Run -> [Node -> NodeFile]]
          /\ log' \in [Run -> Seq(Event)] /\ artifact' \subseteq Run
      BY <1>7, <2>1, RemoveType DEF PruneDelete
    <2>3. worker' \in [Worker -> WorkerState]
      BY <1>7, FreshCalls DEF PruneDelete, TypeOK
    <2> QED  BY <1>7, <2>2, <2>3 DEF PruneDelete, TypeOK, interactions
  <1>8. CASE WriteResponse(w)
    <2>1. worker' \in [Worker -> WorkerState]
      BY <1>8, GotoType DEF WriteResponse, Labels
    <2>2. worker[w].answer \in Answer
      BY <1>8 DEF WriteResponse, Serving, ProgressInv, Progress
    <2>3. response' \in [Run -> ResponseFile]
      BY <1>8, <2>2 DEF WriteResponse, TypeOK, ResponseFile
    <2> QED  BY <1>8, <2>1, <2>3 DEF WriteResponse, TypeOK
  <1>9. \A label : ActionToOutput(label) \in Answer
    BY DEF ActionToOutput, Answer
  <1> QED
    BY <1>1, <1>2, <1>3, <1>4, <1>5, <1>6, <1>7, <1>8, <1>9
    DEF Serve, Respond, SlackInteraction, Cleanup

LEMMA TypeStep ==
    ASSUME DeploymentsAssumption, TypeOK, ProgressInv, [Next]_vars
    PROVE  TypeOK'
  <1>1. CASE UNCHANGED vars
    BY <1>1 DEF TypeOK, vars
  <1>2. ASSUME NEW w \in Worker, Serve(w) PROVE TypeOK'
    BY <1>2, ExecuteType, CallType
  <1>3. ASSUME NEW r \in Run, PostInteraction(r) \/ Age(r) PROVE TypeOK'
    BY <1>3 DEF PostInteraction, Age, TypeOK, interactions
  <1> QED  BY <1>1, <1>2, <1>3 DEF Next

-----------------------------------------------------------------------------
(* What a step does to the other workers and to the store.                 *)

Removed(r) ==
    runFile'[r] = NoFile("pruned") /\ nodeFile'[r] = [n \in Node |-> NoNodeFile]

Kept(r) ==
    /\ \A i \in DOMAIN log[r] : i \in DOMAIN log'[r] /\ log'[r][i] = log[r][i]
    /\ r \in artifact => r \in artifact'
    /\ runFile[r].kind # "unused" =>
          runFile'[r].kind # "unused" /\ (Exists(r)' => Exists(r))

LEMMA WorkerFrame ==
    ASSUME TypeOK, NEW w \in Worker, Serve(w)
    PROVE  UNCHANGED deployment /\ \A v \in Worker \ {w} : worker'[v] = worker[v]
  <1>1. CASE Execute(w)
    BY <1>1 DEF Execute, CreateRun, LoadCache, NodeFromCache, NodeFromProvider, LogStarted, LogEntry,
           SaveNodeRecord, SaveArtifacts, UpdateRead, UpdateTruncate, UpdateWrite, LogEnded,
           ApplyRetention, Continue, GiveUp, Goto, TypeOK
  <1>2. CASE Trigger(w) \/ Step(w) \/ Stop(w) \/ WriteResponse(w) \/ StepAnswered(w)
             \/ PruneDelete(w)
    BY <1>2 DEF Trigger, Step, Stop, WriteResponse, StepAnswered, PruneDelete, Goto, TypeOK
  <1>3. CASE Respond(w) \/ SlackInteraction(w) \/ Cleanup(w)
    BY <1>3 DEF Respond, SlackInteraction, Cleanup, OpenResponse, PruneSelect, TypeOK
  <1> QED  BY <1>1, <1>2, <1>3 DEF Serve

\* Nothing but the log, a node's record or the list of artifacts grows.
LEMMA SameFiles ==
    ASSUME TypeOK, NEW r \in Run, runFile'[r] = runFile[r],
           log'[r] = log[r] \/ \E event \in Event : log'[r] = Append(log[r], event),
           artifact \subseteq artifact'
    PROVE  Kept(r)
  <1>1. log[r] \in Seq(Event)
    BY DEF TypeOK
  <1>2. \A i \in DOMAIN log[r] : i \in DOMAIN log'[r] /\ log'[r][i] = log[r][i]
    BY <1>1
  <1> QED  BY <1>2 DEF Kept, Exists

LEMMA RemoveStep ==
    ASSUME TypeOK, NEW runs, RemoveRuns(runs), NEW r \in Run
    PROVE  Removed(r) \/ Kept(r)
  <1>1. CASE r \in runs
    BY <1>1 DEF RemoveRuns, Removed
  <1>2. CASE r \notin runs
    BY <1>2 DEF RemoveRuns, Kept, Exists
  <1> QED  BY <1>1, <1>2

\* A run is removed, or it keeps its log and its artifacts; a removed run stays removed.
LEMMA StoreFrame ==
    ASSUME DeploymentsAssumption, TypeOK, ProgressInv, [Next]_vars, NEW r \in Run
    PROVE  Removed(r) \/ Kept(r)
  <1>1. CASE UNCHANGED <<runFile, log, artifact>>
    BY <1>1 DEF Kept, Exists
  <1>2. ASSUME NEW w \in Worker, Execute(w) PROVE Removed(r) \/ Kept(r)
    <2> USE DEF Serving
    <2>0. worker[w].pc \notin {"idle", "prune"} => At(w) \in Run /\ worker[w] \in WorkerState
      BY DEF TypeOK, ProgressInv, Progress, At
    <2>1. CASE CreateRun(w) \/ UpdateTruncate(w) \/ UpdateWrite(w)
      <3>1. /\ UNCHANGED <<log, artifact>>
            /\ runFile'[r] = runFile[r] \/ (Exists(r) /\ runFile'[r].kind \in {"record", "torn"})
        BY <2>1 DEF CreateRun, UpdateTruncate, UpdateWrite, TypeOK, NoFile
      <3> QED  BY <3>1 DEF Kept, Exists
    <2>2. CASE LogStarted(w) \/ LogEntry(w) \/ LogEnded(w)
      <3>1. PICK event \in Event : AppendEvent(At(w), event)
        <4>1. CASE LogStarted(w)
          BY <4>1, EventType DEF LogStarted
        <4>2. CASE LogEntry(w)
          <5>1. worker[w].entries[worker[w].position] \in Entry
            BY <2>0, <4>2 DEF LogEntry, WorkerState
          <5> QED  BY <4>2, <5>1, EventType DEF LogEntry
        <4>3. CASE LogEnded(w)
          <5>1. RunEvent(IF worker[w].status = "completed" THEN "run_completed" ELSE "run_failed",
                         worker[w].status) \in Event
            BY <2>0, <4>3, EventType DEF LogEnded, WorkerState
          <5> QED  BY <4>3, <5>1 DEF LogEnded
        <4> QED  BY <2>2, <4>1, <4>2, <4>3
      <3>2. At(w) \in Run /\ UNCHANGED <<runFile, artifact>>
        BY <2>0, <2>2 DEF LogStarted, LogEntry, LogEnded
      <3> QED  BY <3>1, <3>2, AppendType, SameFiles
    <2>3. CASE SaveArtifacts(w)
      BY <2>3, SameFiles DEF SaveArtifacts, SaveRunArtifact
    <2>4. CASE ApplyRetention(w)
      BY <2>4, RemoveStep DEF ApplyRetention
    <2>5. CASE LoadCache(w) \/ NodeFromCache(w) \/ NodeFromProvider(w) \/ SaveNodeRecord(w)
               \/ UpdateRead(w)
      BY <2>5, <1>1 DEF LoadCache, NodeFromCache, NodeFromProvider, SaveNodeRecord, UpdateRead
    <2> QED  BY <1>2, <2>1, <2>2, <2>3, <2>4, <2>5 DEF Execute
  <1>3. ASSUME NEW w \in Worker, Serve(w), ~ Execute(w) PROVE Removed(r) \/ Kept(r)
    <2>1. CASE Trigger(w)
      BY <2>1 DEF Trigger, Kept, Exists, TypeOK
    <2>2. CASE PruneDelete(w)
      BY <2>2, RemoveStep DEF PruneDelete
    <2>3. CASE Step(w) \/ Stop(w) \/ WriteResponse(w) \/ StepAnswered(w)
      BY <2>3, <1>1 DEF Step, Stop, WriteResponse, StepAnswered
    <2>4. CASE Respond(w) \/ SlackInteraction(w) \/ Cleanup(w)
      BY <2>4, <1>1 DEF Respond, SlackInteraction, Cleanup, OpenResponse, PruneSelect
    <2> QED  BY <1>3, <2>1, <2>2, <2>3, <2>4 DEF Serve
  <1> QED  BY <1>1, <1>2, <1>3 DEF Next, vars, PostInteraction, Age

\* What that means for the events a run has.
LEMMA OccursKept ==
    ASSUME NEW r, Kept(r), NEW n, NEW status, Occurs(r, n, status)
    PROVE  Occurs(r, n, status)'
  BY DEF Kept, Occurs

-----------------------------------------------------------------------------
(* Progress.                                                               *)

\* A record that a goto left, with the run, the entries and the verdict it had.
LEMMA ProgressGoto ==
    ASSUME NEW x, NEW y, Progress(x), x.pc \in Writing, y.pc \in Writing \ {"start"},
           y.run = x.run, y.entries = x.entries, y.status = x.status,
           y.pc = "record" => y.position <= Len(y.entries)
    PROVE  Progress(y)
  BY DEF Progress, Started, VerdictExplained, Writing

\* A worker whose record is its own: only what it says of the run's file may change.
LEMMA ProgressStays ==
    ASSUME DeploymentsAssumption, TypeOK, ProgressInv, [Next]_vars, UNCHANGED deployment,
           NEW x, Progress(x), x.run # Nothing => x.run \in Run
    PROVE  Progress(x)'
  <1>1. Started(x)'
    <2> SUFFICES ASSUME x.run # Nothing PROVE runFile'[x.run].kind # "unused"
      BY DEF Started
    <2>1. runFile[x.run].kind # "unused"
      BY DEF Progress, Started
    <2>2. CASE Kept(x.run)
      BY <2>1, <2>2 DEF Kept
    <2>3. CASE Removed(x.run)
      BY <2>3 DEF Removed, NoFile
    <2> QED  BY <2>2, <2>3, StoreFrame
  <1>2. ExecutedSoFar(x)' <=> ExecutedSoFar(x)
    BY DEF ExecutedSoFar, Order
  <1>3. VerdictExplained(x)' <=> VerdictExplained(x)
    BY DEF VerdictExplained, Order
  <1> QED  BY <1>1, <1>2, <1>3 DEF Progress, Writing

\* The backend is done.
LEMMA ProgressVerdict ==
    ASSUME NEW x, NEW y, x.run \in Run, Started(x), y.run = x.run,
           y.pc = "start", y.position = 1, VerdictExplained(y)
    PROVE  Progress(y)
  BY DEF Progress, Started

\* One more entry.
LEMMA OneMore ==
    ASSUME NEW entries \in Seq(Entry), NEW done, NEW position \in Nat \ {0},
           Len(entries) = position - 1,
           \A i \in 1..Len(entries) :
              entries[i].node = Order[i] /\ entries[i].status = "completed",
           done.node = Order[position], done.status = "completed"
    PROVE  LET more == Append(entries, done) IN
           /\ Len(more) = position /\ DOMAIN more = 1..position
           /\ \A i \in 1..position : more[i].node = Order[i] /\ more[i].status = "completed"
  <1> DEFINE more == Append(entries, done)
  <1>1. Len(more) = position /\ DOMAIN more = 1..position
    OBVIOUS
  <1>2. \A i \in 1..Len(entries) : more[i] = entries[i]
    OBVIOUS
  <1>3. more[position] = done
    OBVIOUS
  <1>4. ASSUME NEW i \in 1..position
        PROVE  more[i].node = Order[i] /\ more[i].status = "completed"
    <2>1. CASE i = position
      BY <2>1, <1>3
    <2>2. CASE i # position
      <3>1. i \in 1..Len(entries)
        BY <2>2
      <3> QED  BY <3>1, <1>2
    <2> QED  BY <2>1, <2>2
  <1> HIDE DEF more
  <1> QED  BY <1>1, <1>4 DEF more

\* The backend takes the next node of the order.
LEMMA ProgressNode ==
    ASSUME DeploymentsAssumption, NamesAssumption, TypeOK, ProgressInv, NEW w \in Worker,
           NodeFromCache(w) \/ NodeFromProvider(w)
    PROVE  Progress(worker'[w])
  <1> DEFINE n == Order[worker[w].position]
             x == worker[w]
             y == worker'[w]
  <1>1. /\ x \in WorkerState /\ x.pc = "execute" /\ x.run \in Run /\ Started(x)
        /\ ExecutedSoFar(x)
    BY DEF NodeFromCache, NodeFromProvider, Serving, TypeOK, ProgressInv, Progress
  <1>2. n \in Node /\ n \in Range(Order) /\ x.position \in 1..Len(Order)
    BY <1>1, OrderType DEF ExecutedSoFar, WorkerState, TypeOK
  <1>3. ASSUME NEW verdict \in Verdict \ {"completed"}, GiveUp(w, n, verdict) PROVE Progress(y)
    <2>1. /\ y.run = x.run /\ y.pc = "start" /\ y.position = 1 /\ y.status = verdict
          /\ \E i \in DOMAIN y.entries : y.entries[i].node = n /\ y.entries[i].status = verdict
      BY <1>2, <1>3, GiveUpStep
    <2>2. VerdictExplained(y)
      BY <1>2, <2>1 DEF VerdictExplained
    <2> QED  BY <1>1, <2>1, <2>2, ProgressVerdict
  <1>4. ASSUME NEW output \in Value, Continue(w, n, output) PROVE Progress(y)
    <2> DEFINE done == Done(n, x.input, output)
    <2>1. /\ y.run = x.run /\ y.entries = Append(x.entries, done)
          /\ IF x.position = Len(Order)
             THEN y.pc = "start" /\ y.position = 1 /\ y.status = "completed"
             ELSE y.pc = x.pc /\ y.position = x.position + 1 /\ y.status = x.status
      BY <1>2, <1>4, ContinueStep
    <2>2. done.node = n /\ done.status = "completed"
      BY DEF Done
    <2>3. x.entries \in Seq(Entry) /\ Len(x.entries) \in Nat /\ x.position \in Nat /\ Len(Order) \in Nat
      BY <1>1, OrderType DEF WorkerState, TypeOK
    <2>4. /\ Len(y.entries) = x.position
          /\ DOMAIN y.entries = 1..x.position
          /\ \A i \in 1..x.position :
                y.entries[i].node = Order[i] /\ y.entries[i].status = "completed"
      <3>1. /\ done.node = Order[x.position] /\ x.position \in Nat \ {0}
            /\ Len(x.entries) = x.position - 1
            /\ \A i \in 1..Len(x.entries) :
                  x.entries[i].node = Order[i] /\ x.entries[i].status = "completed"
        BY <1>1, <2>2 DEF WorkerState, ExecutedSoFar
      <3>2. PICK entries, position, entry :
               entries = x.entries /\ position = x.position /\ entry = done
        OBVIOUS
      <3> HIDE DEF done
      <3>3. /\ Len(Append(entries, entry)) = position /\ DOMAIN Append(entries, entry) = 1..position
            /\ \A i \in 1..position : Append(entries, entry)[i].node = Order[i]
                                     /\ Append(entries, entry)[i].status = "completed"
        <4>1. /\ entries \in Seq(Entry) /\ position \in Nat \ {0} /\ Len(entries) = position - 1
              /\ entry.node = Order[position] /\ entry.status = "completed"
              /\ \A i \in 1..Len(entries) :
                    entries[i].node = Order[i] /\ entries[i].status = "completed"
          BY <2>2, <2>3, <3>1, <3>2
        <4> QED  BY <4>1, OneMore
      <3> QED  BY <2>1, <3>2, <3>3
    <2>5. CASE x.position = Len(Order)
      <3>1. \A m \in Range(Order) : \E i \in 1..Len(Order) : Order[i] = m
        <4>1. Order \in Seq(Node)
          BY OrderType DEF TypeOK
        <4> QED  BY <4>1 DEF Range
      <3>2. VerdictExplained(y)
        BY <2>1, <2>4, <2>5, <3>1 DEF VerdictExplained
      <3> QED  BY <1>1, <2>1, <2>5, <3>2, ProgressVerdict
    <2>6. CASE x.position # Len(Order)
      <3>1. ExecutedSoFar(y)
        <4>1. y.position = x.position + 1 /\ x.position + 1 <= Len(Order)
          BY <1>1, <2>1, <2>3, <2>6 DEF ExecutedSoFar
        <4> QED  BY <2>3, <2>4, <4>1 DEF ExecutedSoFar
      <3> QED  BY <1>1, <2>1, <2>6, <3>1 DEF Progress, Started, Writing
    <2> QED  BY <2>5, <2>6
  <1>5. \A c \in Hits(w, n) : c.output \in Value
    BY <1>1 DEF Hits, WorkerState, CacheEntry
  <1> QED
    BY <1>1, <1>3, <1>4, <1>5 DEF NodeFromCache, NodeFromProvider, WorkerState

\* The steps that write down what happened.
WriteDown(w) ==
    \/ LogStarted(w) \/ LogEntry(w) \/ SaveNodeRecord(w) \/ SaveArtifacts(w) \/ UpdateRead(w)
    \/ UpdateTruncate(w) \/ UpdateWrite(w) \/ LogEnded(w)

\* They keep the run, the entries and the verdict, and go from one to the next.
LEMMA WriteDownStep ==
    ASSUME TypeOK, NEW w \in Worker, WriteDown(w),
           NEW x, NEW y, x = worker[w], y = worker'[w]
    PROVE  /\ y.run = x.run /\ y.entries = x.entries /\ y.status = x.status
           /\ \/ LogStarted(w) /\ x.pc = "start" /\ y.pc = "append" /\ y.position = x.position
              \/ LogEntry(w) /\ x.pc = "append" /\ y.pc = "record" /\ y.position = x.position
                           /\ x.position <= Len(x.entries)
              \/ SaveNodeRecord(w) /\ x.pc = "record" /\ y.pc = "append"
                                  /\ y.position = x.position + 1
              \/ SaveArtifacts(w) /\ x.pc = "append" /\ y.pc = "update"
                                 /\ x.position > Len(x.entries)
              \/ UpdateRead(w) /\ x.pc = "update" /\ y.pc = "truncate"
              \/ UpdateTruncate(w) /\ x.pc = "truncate" /\ y.pc = "write"
              \/ UpdateWrite(w) /\ x.pc = "write" /\ y.pc = "end"
              \/ LogEnded(w) /\ x.pc = "end" /\ y.pc = "audit"
  <1>1. x \in WorkerState
    BY DEF TypeOK
  <1>2. ASSUME NEW label \in Labels, Goto(w, label)
        PROVE  /\ y.run = x.run /\ y.entries = x.entries /\ y.status = x.status /\ y.pc = label
               /\ y.position = x.position
    <2>1. y = [x EXCEPT !.pc = label]
      BY <1>2, GotoType
    <2> QED  BY <1>1, <2>1 DEF WorkerState
  <1>3. {"append", "record", "update", "write", "end", "audit"} \subseteq Labels
    BY DEF Labels
  <1>4. CASE SaveNodeRecord(w)
    <2>1. y = [x EXCEPT !.pc = "append", !.position = @ + 1] /\ x.pc = "record"
      BY <1>4 DEF SaveNodeRecord, Serving, TypeOK
    <2>2. /\ y.run = x.run /\ y.entries = x.entries /\ y.status = x.status
          /\ y.pc = "append" /\ y.position = x.position + 1
      BY <1>1, <2>1 DEF WorkerState
    <2> QED  BY <1>4, <2>1, <2>2
  <1>5. CASE UpdateRead(w)
    <2>1. y = [x EXCEPT !.pc = "truncate", !.whole = runFile[At(w)].whole] /\ x.pc = "update"
      BY <1>5 DEF UpdateRead, Serving, TypeOK
    <2>2. y.run = x.run /\ y.entries = x.entries /\ y.status = x.status /\ y.pc = "truncate"
      BY <1>1, <2>1 DEF WorkerState
    <2> QED  BY <1>5, <2>1, <2>2
  <1>6. CASE LogStarted(w)
    <2>1. Goto(w, "append") /\ x.pc = "start"
      BY <1>6 DEF LogStarted, Serving
    <2> QED  BY <1>2, <1>3, <1>6, <2>1
  <1>7. CASE LogEntry(w)
    <2>1. Goto(w, "record") /\ x.pc = "append" /\ x.position <= Len(x.entries)
      BY <1>7 DEF LogEntry, Serving
    <2> QED  BY <1>2, <1>3, <1>7, <2>1
  <1>8. CASE SaveArtifacts(w)
    <2>1. Goto(w, "update") /\ x.pc = "append" /\ x.position > Len(x.entries)
      BY <1>8 DEF SaveArtifacts, Serving
    <2> QED  BY <1>2, <1>3, <1>8, <2>1
  <1>9. CASE LogEnded(w)
    <2>1. Goto(w, "audit") /\ x.pc = "end"
      BY <1>9 DEF LogEnded, Serving
    <2> QED  BY <1>2, <1>3, <1>9, <2>1
  <1>10. CASE UpdateTruncate(w)
    <2>1. Goto(w, "write") /\ x.pc = "truncate"
      BY <1>10 DEF UpdateTruncate, Serving
    <2> QED  BY <1>2, <1>3, <1>10, <2>1
  <1>11. CASE UpdateWrite(w)
    <2>1. Goto(w, "end") /\ x.pc = "write"
      BY <1>11 DEF UpdateWrite, Serving
    <2> QED  BY <1>2, <1>3, <1>11, <2>1
  <1> QED  BY <1>4, <1>5, <1>6, <1>7, <1>8, <1>9, <1>10, <1>11 DEF WriteDown

\* What the other steps of a worker make of its record.
LEMMA OtherStep ==
    ASSUME DeploymentsAssumption, NamesAssumption, TypeOK, ProgressInv, AnswerInv, NEW w \in Worker,
           Serve(w), ~ WriteDown(w), ~ NodeFromCache(w), ~ NodeFromProvider(w), ~ LoadCache(w),
           NEW y, y = worker'[w]
    PROVE  \/ y = Idle
           \/ /\ y.run \in Run /\ runFile'[y.run].kind # "unused"
              /\ \/ y.pc = "answer" /\ y.answer \in Answer
                 \/ y.pc = "answered"
                 \/ y.pc \in {"create", "load"} /\ y.position = 1 /\ y.entries = << >>
           \/ y.pc = "prune" /\ y.run = Nothing /\ y.entries = << >>
  <1>1. CASE Trigger(w)
    <2>1. PICK r \in Run : /\ runFile' = [runFile EXCEPT ![r] = NoFile("torn")]
                          /\ worker' = [worker EXCEPT ![w] = [Idle EXCEPT !.pc = "create", !.run = r]]
      BY <1>1, OrderType DEF Trigger, TypeOK
    <2> QED  BY <2>1 DEF Idle, TypeOK, NoFile
  <1>2. CASE CreateRun(w)
    <2>1. /\ worker[w] \in WorkerState /\ worker[w].run \in Run /\ At(w) = worker[w].run
          /\ worker[w].position = 1 /\ worker[w].entries = << >>
      BY <1>2 DEF CreateRun, Serving, TypeOK, ProgressInv, Progress, At
    <2>2. y = [worker[w] EXCEPT !.pc = "load"]
      BY <1>2, GotoType DEF CreateRun, Labels
    <2>3. runFile'[worker[w].run].kind = "record"
      BY <1>2, <2>1 DEF CreateRun, TypeOK
    <2> QED  BY <2>1, <2>2, <2>3 DEF WorkerState
  <1>3. ASSUME NEW r \in Run, Readable(r), worker' = [worker EXCEPT ![w] = Stepping(r)],
               UNCHANGED runFile
        PROVE  /\ y.run \in Run /\ runFile'[y.run].kind # "unused"
               /\ y.pc \in {"create", "load"} /\ y.position = 1 /\ y.entries = << >>
    <2>1. y = Stepping(r)
      BY <1>3 DEF TypeOK
    <2>2. y.run = r /\ y.pc = "load" /\ y.position = 1 /\ y.entries = << >>
      BY <2>1 DEF Stepping, Idle
    <2>3. runFile[r].kind = "record"
      BY <1>3 DEF Readable
    <2> QED  BY <1>3, <2>2, <2>3
  <1>4. CASE Step(w)
    BY <1>3, <1>4 DEF Step, Steppable
  <1>5. CASE StepAnswered(w)
    <2>1. At(w) \in Run
      BY <1>5 DEF StepAnswered, Serving, ProgressInv, Progress, At
    <2> QED  BY <1>3, <1>5, <2>1 DEF StepAnswered, Steppable, TypeOK
  <1>6. ASSUME NEW r \in Run, NEW answer \in Answer, OpenResponse(w, r, answer)
        PROVE  /\ y.run \in Run /\ runFile'[y.run].kind # "unused"
               /\ y.pc = "answer" /\ y.answer \in Answer
    <2>1. y = [Idle EXCEPT !.pc = "answer", !.run = r, !.answer = answer]
      BY <1>6 DEF OpenResponse, TypeOK
    <2>2. y.run = r /\ y.pc = "answer" /\ y.answer = answer
      BY <2>1 DEF Idle
    <2> QED  BY <1>6, <2>2 DEF OpenResponse, AnswerInv
  <1>7. CASE Respond(w) \/ SlackInteraction(w)
    BY <1>6, <1>7 DEF Respond, SlackInteraction, ActionToOutput, Answer
  <1>8. CASE Cleanup(w)
    <2>1. PICK statuses, olderThan : PruneSelect(w, statuses, olderThan)
      BY <1>8 DEF Cleanup
    <2>2. y = [Idle EXCEPT !.pc = "prune", !.matched = Matched(statuses, olderThan)]
      BY <2>1 DEF PruneSelect, TypeOK
    <2> QED  BY <2>2 DEF Idle
  <1>9. CASE ApplyRetention(w) \/ Stop(w) \/ PruneDelete(w)
    BY <1>9 DEF ApplyRetention, Stop, PruneDelete, TypeOK
  <1>10. CASE WriteResponse(w)
    <2>1. /\ worker[w] \in WorkerState /\ worker[w].run \in Run
          /\ runFile[worker[w].run].kind # "unused" \/ worker[w].run = Nothing
          /\ UNCHANGED runFile
      BY <1>10 DEF WriteResponse, Serving, TypeOK, ProgressInv, Progress, Started
    <2>2. y = [worker[w] EXCEPT !.pc = "answered"]
      BY <1>10, GotoType DEF WriteResponse, Labels
    <2>3. y.run = worker[w].run /\ y.pc = "answered" /\ worker[w].run # Nothing
      BY <2>1, <2>2 DEF WorkerState, NamesAssumption, Nothing
    <2> QED  BY <2>1, <2>3
  <1> QED
    BY <1>1, <1>2, <1>4, <1>5, <1>7, <1>8, <1>9, <1>10 DEF Serve, Execute, WriteDown

\* A record that was there before the step and one that the step makes.
LEMMA ProgressNext ==
    ASSUME DeploymentsAssumption, TypeOK, ProgressInv, [Next]_vars, UNCHANGED deployment,
           NEW v \in Worker, NEW y, y = worker'[v], Progress(y), y.run # Nothing => y.run \in Run
    PROVE  Progress(worker[v])'
  <1>1. Progress(y)'
    BY ProgressStays
  <1> QED  BY <1>1 DEF Progress, Started, ExecutedSoFar, VerdictExplained, Writing, Order

LEMMA ProgressStep ==
    ASSUME DeploymentsAssumption, NamesAssumption, TypeOK, ProgressInv, AnswerInv, [Next]_vars
    PROVE  ProgressInv'
  <1> SUFFICES ASSUME NEW v \in Worker PROVE Progress(worker[v])'
    BY DEF ProgressInv
  <1> PICK y : y = worker'[v]
    OBVIOUS
  <1> PICK x : x = worker[v]
    OBVIOUS
  <1>0. /\ x \in WorkerState /\ (x.run # Nothing => x.run \in Run) /\ Progress(x)
        /\ (y.run # Nothing => y.run \in Run)
    BY TypeStep DEF TypeOK, WorkerState, ProgressInv
  <1>1. CASE UNCHANGED <<deployment, worker>>
    BY <1>0, <1>1, ProgressNext
  <1>2. ASSUME NEW w \in Worker, Serve(w), w # v PROVE Progress(worker[v])'
    <2>1. UNCHANGED deployment /\ y = x
      BY <1>2, WorkerFrame
    <2> QED  BY <1>0, <2>1, ProgressNext
  <1>3. ASSUME Serve(v) PROVE Progress(worker[v])'
    <2>1. UNCHANGED deployment
      BY <1>3, WorkerFrame
    <2>2. CASE WriteDown(v)
      <3>1. x.pc \in Writing /\ y.pc \in Writing \ {"start"} /\ y.run = x.run
            /\ y.entries = x.entries /\ y.status = x.status
            /\ (y.pc = "record" => y.position <= Len(y.entries))
        <4> HIDE <1>3, <2>1
        <4> QED  BY <2>2, WriteDownStep DEF Writing
      <3>2. Progress(y)
        BY <1>0, <3>1, ProgressGoto
      <3> QED  BY <1>0, <2>1, <3>2, ProgressNext
    <2>3. CASE NodeFromCache(v) \/ NodeFromProvider(v)
      <3>1. Progress(y)
        BY <2>3, ProgressNode
      <3> QED  BY <1>0, <2>1, <3>1, ProgressNext
    <2>4. CASE LoadCache(v)
      <3>1. x.pc = "load" /\ y = [x EXCEPT !.pc = "execute", !.cache = CachedResults(At(v))]
        BY <2>4 DEF LoadCache, Serving, TypeOK
      <3>2. /\ y.run = x.run /\ y.pc = "execute" /\ y.position = 1 /\ y.entries = << >>
            /\ x.run \in Run /\ Started(x)
        BY <1>0, <3>1 DEF WorkerState, Progress
      <3>3. ExecutedSoFar(y)
        BY <3>2, OrderType DEF ExecutedSoFar, TypeOK
      <3>4. Progress(y)
        BY <3>2, <3>3 DEF Progress, Started, Writing
      <3> QED  BY <1>0, <2>1, <3>4, ProgressNext
    <2>5. CASE ~ WriteDown(v) /\ ~ NodeFromCache(v) /\ ~ NodeFromProvider(v) /\ ~ LoadCache(v)
      <3>1. \/ y = Idle
            \/ /\ y.run \in Run /\ runFile'[y.run].kind # "unused"
               /\ \/ y.pc = "answer" /\ y.answer \in Answer
                  \/ y.pc = "answered"
                  \/ y.pc \in {"create", "load"} /\ y.position = 1 /\ y.entries = << >>
            \/ y.pc = "prune" /\ y.run = Nothing
        BY <1>3, <2>5, OtherStep
      <3> QED  BY <3>1 DEF Progress, Idle, Started, Writing
    <2> QED  BY <2>2, <2>3, <2>4, <2>5
  <1> QED  BY <1>1, <1>2, <1>3 DEF Next, vars, PostInteraction, Age

-----------------------------------------------------------------------------
(* What is on disk.                                                        *)

\* Interactions are added for runs that exist.
LEMMA InteractionFrame ==
    ASSUME TypeOK, [Next]_vars
    PROVE  \A r \in pending' \ pending : r \in Run /\ runFile'[r].kind = "record"
  <1>1. ASSUME NEW w \in Worker, Execute(w) PROVE UNCHANGED pending
    BY <1>1 DEF Execute, CreateRun, LoadCache, NodeFromCache, NodeFromProvider, LogStarted, LogEntry,
                SaveNodeRecord, SaveArtifacts, UpdateRead, UpdateTruncate, UpdateWrite, LogEnded,
                ApplyRetention, interactions
  <1>2. ASSUME NEW w \in Worker, Serve(w), ~ Execute(w) PROVE UNCHANGED pending
    BY <1>2 DEF Serve, Trigger, Step, Stop, StepAnswered, PruneDelete, Cleanup, PruneSelect, Respond,
                SlackInteraction, OpenResponse, WriteResponse, interactions
  <1>3. ASSUME NEW r \in Run, PostInteraction(r)
        PROVE  pending' = pending \cup {r} /\ runFile'[r].kind = "record"
    BY <1>3 DEF PostInteraction, Readable
  <1>4. ASSUME NEW r \in Run, Age(r) PROVE UNCHANGED pending
    BY <1>4 DEF Age, interactions
  <1> QED  BY <1>1, <1>2, <1>3, <1>4 DEF Next, vars

LEMMA AnswerStep ==
    ASSUME DeploymentsAssumption, TypeOK, ProgressInv, AnswerInv, [Next]_vars
    PROVE  AnswerInv'
  <1>1. ASSUME NEW r \in pending' PROVE runFile'[r].kind # "unused"
    <2>1. CASE r \in pending
      <3>1. r \in Run /\ runFile[r].kind # "unused"
        BY <2>1 DEF TypeOK, AnswerInv
      <3>2. Removed(r) => runFile'[r].kind = "pruned"
        BY DEF Removed, NoFile
      <3>3. Kept(r) => runFile'[r].kind # "unused"
        BY <3>1 DEF Kept
      <3> QED  BY <3>1, <3>2, <3>3, StoreFrame
    <2>2. CASE r \notin pending
      BY <2>2, InteractionFrame
    <2> QED  BY <2>1, <2>2
  <1> QED  BY <1>1 DEF AnswerInv

\* Before a worker logs, and after its call, there is nothing to find in the log.
LEMMA NothingLogged ==
    ASSUME NEW y, y.pc \in {"idle", "create", "load", "execute", "start", "answer", "answered", "prune"}
    PROVE  LoggedUpTo(y) = 0
  BY DEF LoggedUpTo

\* An event that was appended occurs.
LEMMA Logged1 ==
    ASSUME TypeOK, NEW r \in Run, NEW event \in Event, AppendEvent(r, event)
    PROVE  Occurs(r, event.node, event.status)'
  <1>1. log'[r] = Append(log[r], event) /\ log[r] \in Seq(Event)
    BY AppendType DEF TypeOK
  <1>2. Len(log[r]) + 1 \in DOMAIN log'[r] /\ log'[r][Len(log[r]) + 1] = event
    BY <1>1
  <1> QED  BY <1>2 DEF Occurs

\* What a worker that writes down has written after the step.
LEMMA WrittenDown ==
    ASSUME NamesAssumption, TypeOK, ProgressInv, NEW v \in Worker, WriteDown(v),
           NEW x, NEW y, x = worker[v], y = worker'[v], x.run \in Run, Written(x), Exists(x.run),
           Kept(x.run)
    PROVE  /\ \A i \in DOMAIN y.entries :
                 i <= LoggedUpTo(y) => Occurs(x.run, y.entries[i].node, y.entries[i].status)'
           /\ y.pc \in {"update", "truncate", "write"} /\ deployment.artifacts
                 => x.run \in artifact'
  <1>1. /\ x \in WorkerState /\ Progress(x) /\ x.run # Nothing
        /\ x.entries \in Seq(Entry) /\ Len(x.entries) \in Nat /\ x.position \in Nat
    BY DEF TypeOK, ProgressInv, WorkerState, NamesAssumption, Nothing
  <1>2. /\ \A i \in DOMAIN x.entries :
              i <= LoggedUpTo(x) => Occurs(x.run, x.entries[i].node, x.entries[i].status)
        /\ x.pc \in {"update", "truncate", "write"} /\ deployment.artifacts => x.run \in artifact
    BY <1>1 DEF Written
  <1>3. \A i \in DOMAIN x.entries :
           i <= LoggedUpTo(x) => Occurs(x.run, x.entries[i].node, x.entries[i].status)'
    BY <1>2, OccursKept
  <1>4. x.run \in artifact => x.run \in artifact'
    BY DEF Kept
  <1>5. y.entries = x.entries /\ DOMAIN x.entries = 1..Len(x.entries)
    BY <1>1, WriteDownStep
  <1>6. ASSUME NEW i \in 1..Len(x.entries), i <= LoggedUpTo(y)
        PROVE  i <= LoggedUpTo(x) \/ (LogEntry(v) /\ i = x.position)
    <2>1. x.pc = "start" => x.position = 1
      BY <1>1 DEF Progress
    <2>2. CASE x.pc \in {"start", "append", "record"}
      BY <1>1, <1>5, <1>6, <2>1, <2>2, WriteDownStep DEF LoggedUpTo
    <2>3. CASE x.pc \notin {"start", "append", "record"}
      <3>1. x.pc \in {"update", "truncate", "write", "end"}
        BY <2>3, WriteDownStep
      <3> QED  BY <1>1, <3>1 DEF LoggedUpTo
    <2> QED  BY <2>2, <2>3
  <1>7. ASSUME LogEntry(v)
        PROVE  LET e == x.entries[x.position] IN Occurs(x.run, e.node, e.status)'
    <2> DEFINE e == x.entries[x.position]
    <2>1. e \in Entry /\ AppendEvent(x.run, NormalizeEvent(e))
      <3>1. x.position <= Len(x.entries) /\ AppendEvent(x.run, NormalizeEvent(e))
        BY <1>7 DEF LogEntry, At
      <3>2. x.position \in 1..Len(x.entries)
        BY <1>1, <3>1 DEF WorkerState
      <3> QED  BY <1>1, <3>1, <3>2
    <2>2. NormalizeEvent(e) \in Event
      BY <2>1, EventType
    <2>3. NormalizeEvent(e).node = e.node /\ NormalizeEvent(e).status = e.status
      BY DEF NormalizeEvent
    <2> PICK event, r : event = NormalizeEvent(e) /\ r = x.run
      OBVIOUS
    <2>4. Occurs(r, event.node, event.status)'
      BY <2>1, <2>2, Logged1
    <2> QED  BY <2>3, <2>4
  <1>8. ASSUME NEW i \in DOMAIN y.entries, i <= LoggedUpTo(y)
        PROVE  Occurs(x.run, y.entries[i].node, y.entries[i].status)'
    BY <1>3, <1>5, <1>6, <1>7, <1>8
  <1>9. ASSUME y.pc \in {"update", "truncate", "write"}, deployment.artifacts
        PROVE  x.run \in artifact'
    <2>1. CASE SaveArtifacts(v)
      BY <1>9, <2>1 DEF SaveArtifacts, SaveRunArtifact, At
    <2>2. CASE ~ SaveArtifacts(v)
      <3>1. x.pc \in {"update", "truncate", "write"}
        BY <1>9, <2>2, WriteDownStep
      <3> QED  BY <1>2, <1>4, <1>9, <3>1
    <2> QED  BY <2>1, <2>2
  <1> QED  BY <1>8, <1>9

\* The other steps of a worker leave it nothing that it has logged.
LEMMA NotWritingDown ==
    ASSUME DeploymentsAssumption, NamesAssumption, TypeOK, ProgressInv, AnswerInv, NEW v \in Worker, Serve(v),
           ~ WriteDown(v), NEW y, y = worker'[v]
    PROVE  y.pc \in {"idle", "create", "load", "execute", "start", "answer", "answered", "prune"}
  <1>1. CASE NodeFromCache(v) \/ NodeFromProvider(v)
    <2> PICK x : x = worker[v]
      OBVIOUS
    <2>1. x.pc = "execute" /\ x.input \in Value /\ x \in WorkerState
      BY <1>1 DEF NodeFromCache, NodeFromProvider, Serving, TypeOK, WorkerState
    <2>2. Order[x.position] \in Node
      BY <1>1, <2>1, OrderType DEF ProgressInv, Progress, ExecutedSoFar, WorkerState, TypeOK
    <2>3. PICK output \in Value :
             \/ Continue(v, Order[x.position], output)
             \/ \E verdict \in Verdict \ {"completed"} : GiveUp(v, Order[x.position], verdict)
      BY <1>1, <2>1 DEF NodeFromCache, NodeFromProvider, Hits, WorkerState, CacheEntry
    <2>4. worker'[v].pc = "start" \/ worker'[v].pc = worker[v].pc
      BY <2>2, <2>3, ContinueStep, GiveUpStep
    <2> QED  BY <2>1, <2>4
  <1>2. CASE LoadCache(v)
    BY <1>2 DEF LoadCache, TypeOK, WorkerState
  <1>3. CASE ~ NodeFromCache(v) /\ ~ NodeFromProvider(v) /\ ~ LoadCache(v)
    BY <1>3, OtherStep DEF Idle
  <1> QED  BY <1>1, <1>2, <1>3

LEMMA WrittenStep ==
    ASSUME DeploymentsAssumption, NamesAssumption, TypeOK, ProgressInv, AnswerInv, WrittenInv,
           [Next]_vars
    PROVE  WrittenInv'
  <1> SUFFICES ASSUME NEW v \in Worker PROVE Written(worker[v])'
    BY DEF WrittenInv
  <1> PICK y : y = worker'[v]
    OBVIOUS
  <1> PICK x : x = worker[v]
    OBVIOUS
  <1> PICK r : r = y.run
    OBVIOUS
  <1> SUFFICES ASSUME r # Nothing, Exists(r)'
               PROVE  /\ \A i \in DOMAIN y.entries : i <= LoggedUpTo(y) =>
                            Occurs(r, y.entries[i].node, y.entries[i].status)'
                      /\ y.pc \in {"update", "truncate", "write"} /\ deployment'.artifacts
                            => r \in artifact'
    BY DEF Written, LoggedUpTo, Exists, Occurs
  <1>1. x \in WorkerState /\ y \in WorkerState /\ r \in Run /\ Progress(x) /\ Written(x)
    BY TypeStep DEF TypeOK, WorkerState, ProgressInv, WrittenInv
  <1>2. Kept(r)
    <2>1. ~ Removed(r)
      BY DEF Removed, NoFile, Exists
    <2> QED  BY <1>1, <2>1, StoreFrame
  <1>3. x.run = r => Exists(r)
    BY <1>1, <1>2 DEF Kept, Progress, Started
  <1>4. ASSUME y = x, UNCHANGED deployment
        PROVE  /\ \A i \in DOMAIN y.entries : i <= LoggedUpTo(y) =>
                     Occurs(r, y.entries[i].node, y.entries[i].status)'
               /\ y.pc \in {"update", "truncate", "write"} /\ deployment'.artifacts
                     => r \in artifact'
    <2>1. /\ \A i \in DOMAIN y.entries : i <= LoggedUpTo(y) =>
                Occurs(r, y.entries[i].node, y.entries[i].status)
          /\ y.pc \in {"update", "truncate", "write"} /\ deployment.artifacts => r \in artifact
      BY <1>1, <1>3, <1>4 DEF Written
    <2>2. r \in artifact => r \in artifact'
      BY <1>2 DEF Kept
    <2> QED  BY <1>2, <1>4, <2>1, <2>2, OccursKept
  <1>5. CASE UNCHANGED <<deployment, worker>>
    BY <1>4, <1>5
  <1>6. ASSUME NEW w \in Worker, Serve(w), w # v PROVE y = x /\ UNCHANGED deployment
    BY <1>6, WorkerFrame
  <1>7. CASE WriteDown(v) /\ Serve(v)
    <2>1. x.run = r /\ UNCHANGED deployment
      BY <1>7, WriteDownStep, WorkerFrame
    <2>2. Exists(r)
      BY <1>3, <2>1
    <2> QED  BY <1>1, <1>2, <1>7, <2>1, <2>2, WrittenDown
  <1>8. CASE ~ WriteDown(v) /\ Serve(v)
    <2>1. y.pc \in {"idle", "create", "load", "execute", "start", "answer", "answered", "prune"}
      BY <1>8, NotWritingDown
    <2>2. LoggedUpTo(y) = 0
      BY <2>1, NothingLogged
    <2>3. \A i \in DOMAIN y.entries : i > 0 /\ i \in Nat
      BY <1>1 DEF WorkerState
    <2> QED  BY <2>1, <2>2, <2>3
  <1> QED  BY <1>4, <1>5, <1>6, <1>7, <1>8 DEF Next, vars, PostInteraction, Age

-----------------------------------------------------------------------------
(* The event log is ahead of the records.                                  *)

\* Who writes a node's record, and what.
LEMMA NodeFileFrame ==
    ASSUME TypeOK, ProgressInv, [Next]_vars, NEW r \in Run, NEW n \in Node
    PROVE  \/ nodeFile'[r][n].status \in {nodeFile[r][n].status, Nothing}
           \/ \E w \in Worker :
                 LET entry == worker[w].entries[worker[w].position]
                 IN /\ SaveNodeRecord(w) /\ At(w) = r /\ entry.node = n
                    /\ nodeFile'[r][n].status = entry.status
  <1> DEFINE Same == nodeFile'[r][n].status \in {nodeFile[r][n].status, Nothing}
  <1>1. ASSUME NEW runs, RemoveRuns(runs) PROVE Same
    BY <1>1 DEF RemoveRuns, NoNodeFile
  <1>2. ASSUME NEW w \in Worker, SaveNodeRecord(w), ~ Same
        PROVE  LET entry == worker[w].entries[worker[w].position]
               IN /\ SaveNodeRecord(w) /\ At(w) = r /\ entry.node = n
                  /\ nodeFile'[r][n].status = entry.status
    <2> DEFINE entry == worker[w].entries[worker[w].position]
    <2>1. /\ nodeFile' = [nodeFile EXCEPT ![At(w)][entry.node] =
                             Merged(nodeFile[At(w)][entry.node], entry)]
          /\ At(w) \in Run
      BY <1>2 DEF SaveNodeRecord, Serving, ProgressInv, Progress, At
    <2>2. \A rec, e : Merged(rec, e).status = e.status
      BY DEF Merged
    <2> HIDE DEF entry
    <2>3. r = At(w) /\ entry.node = n
      BY <1>2, <2>1 DEF TypeOK
    <2>4. nodeFile'[r][n] = Merged(nodeFile[r][n], entry)
      BY <2>1, <2>3 DEF TypeOK
    <2> QED  BY <1>2, <2>2, <2>3, <2>4 DEF entry
  <1>3. ASSUME NEW w \in Worker, Execute(w), ~ SaveNodeRecord(w) PROVE Same
    BY <1>1, <1>3
    DEF Execute, CreateRun, LoadCache, NodeFromCache, NodeFromProvider, LogStarted, LogEntry,
        SaveArtifacts, UpdateRead, UpdateTruncate, UpdateWrite, LogEnded, ApplyRetention
  <1>4. ASSUME NEW w \in Worker, Serve(w), ~ Execute(w) PROVE Same
    BY <1>1, <1>4
    DEF Serve, Trigger, Step, Stop, Respond, SlackInteraction, OpenResponse, WriteResponse,
        StepAnswered, Cleanup, PruneSelect, PruneDelete
  <1>5. CASE UNCHANGED nodeFile
    BY <1>5
  <1>6. Same \/ \E w \in Worker : SaveNodeRecord(w)
    <2>1. UNCHANGED nodeFile \/ \E w \in Worker : Serve(w)
      BY DEF Next, vars, PostInteraction, Age
    <2> QED  BY <1>3, <1>4, <1>5, <2>1
  <1> QED  BY <1>2, <1>6

\* Who records the verdict of a run, and when.
LEMMA RunFileFrame ==
    ASSUME TypeOK, ProgressInv, [Next]_vars, NEW r \in Run
    PROVE  \/ runFile'[r].status \in {runFile[r].status, "running", Nothing}
           \/ \E w \in Worker :
                 /\ UpdateWrite(w) /\ At(w) = r /\ Exists(r)
                 /\ runFile'[r].status = worker[w].status
  <1> DEFINE Same == runFile'[r].status \in {runFile[r].status, "running", Nothing}
  <1>1. ASSUME NEW runs, RemoveRuns(runs) PROVE Same
    BY <1>1 DEF RemoveRuns, NoFile
  <1>2. ASSUME NEW w \in Worker, UpdateWrite(w), ~ Same
        PROVE  At(w) = r /\ Exists(r) /\ runFile'[r].status = worker[w].status
    BY <1>2 DEF UpdateWrite, TypeOK
  <1>3. ASSUME NEW w \in Worker, CreateRun(w) \/ UpdateTruncate(w) PROVE Same
    <2>1. runFile \in [Run -> RunFile]
      BY DEF TypeOK
    <2>2. CASE CreateRun(w)
      <3>1. runFile'[r] \in {runFile[r], [kind |-> "record", status |-> "running", whole |-> TRUE]}
        BY <2>1, <2>2 DEF CreateRun
      <3> QED  BY <2>1, <3>1
    <2>3. CASE UpdateTruncate(w)
      <3>1. runFile'[r] \in {runFile[r], [kind |-> "torn", status |-> Nothing, whole |-> FALSE]}
        BY <2>1, <2>3 DEF UpdateTruncate, NoFile
      <3> QED  BY <2>1, <3>1
    <2> QED  BY <1>3, <2>2, <2>3
  <1>4. ASSUME NEW w \in Worker, Execute(w), ~ UpdateWrite(w) PROVE Same
    BY <1>1, <1>3, <1>4
    DEF Execute, LoadCache, NodeFromCache, NodeFromProvider, LogStarted, LogEntry,
        SaveNodeRecord, SaveArtifacts, UpdateRead, LogEnded, ApplyRetention
  <1>5. ASSUME NEW w \in Worker, Serve(w), ~ Execute(w) PROVE Same
    <2>1. Trigger(w) => Same
      BY DEF Trigger, NoFile, TypeOK
    <2> QED
      BY <1>1, <1>5, <2>1
      DEF Serve, Step, Stop, Respond, SlackInteraction, OpenResponse, WriteResponse, StepAnswered,
          Cleanup, PruneSelect, PruneDelete
  <1>6. CASE UNCHANGED runFile
    BY <1>6
  <1>7. Same \/ \E w \in Worker : UpdateWrite(w)
    <2>1. UNCHANGED runFile \/ \E w \in Worker : Serve(w)
      BY DEF Next, vars, PostInteraction, Age
    <2> QED  BY <1>4, <1>5, <1>6, <2>1
  <1> QED  BY <1>2, <1>7

\* The deployment never changes.
LEMMA DeploymentFrame ==
    ASSUME TypeOK, [Next]_vars PROVE UNCHANGED deployment
  BY WorkerFrame DEF Next, vars, PostInteraction, Age

\* A worker at the point where it writes a verdict down.
LEMMA VerdictWritten ==
    ASSUME DeploymentsAssumption, NamesAssumption, TypeOK, ProgressInv, WrittenInv,
           NEW w \in Worker, UpdateWrite(w), NEW r, r = At(w), Exists(r)
    PROVE  /\ worker[w].status = "completed" =>
                 /\ \A n \in Range(Order) : Occurs(r, n, "completed")
                 /\ deployment.artifacts => r \in artifact
           /\ worker[w].status \in Verdict \ {"completed"} =>
                 \E n \in Range(Order) : Occurs(r, n, worker[w].status)
  <1> PICK x : x = worker[w]
    OBVIOUS
  <1>1. /\ x \in WorkerState /\ x.pc = "write" /\ x.run = r /\ r # Nothing
        /\ Progress(x) /\ Written(x)
    BY DEF UpdateWrite, Serving, TypeOK, ProgressInv, Progress, WrittenInv, At, NamesAssumption, Nothing
  <1>2. VerdictExplained(x)
    BY <1>1 DEF Progress, Writing
  <1>3. LoggedUpTo(x) = Len(x.entries) /\ DOMAIN x.entries = 1..Len(x.entries)
    BY <1>1 DEF LoggedUpTo, WorkerState
  <1>4. /\ \A i \in DOMAIN x.entries : Occurs(r, x.entries[i].node, x.entries[i].status)
        /\ deployment.artifacts => r \in artifact
    BY <1>1, <1>3 DEF Written
  <1> QED  BY <1>2, <1>4 DEF VerdictExplained

LEMMA LogIsAheadStep ==
    ASSUME DeploymentsAssumption, NamesAssumption, TypeOK, ProgressInv, WrittenInv, LogIsAhead,
           [Next]_vars
    PROVE  LogIsAhead'
  <1> SUFFICES ASSUME NEW r \in Run
               PROVE  /\ \A n \in Node : nodeFile'[r][n].status # Nothing
                                            => Occurs(r, n, nodeFile[r][n].status)'
                      /\ runFile'[r].status = "completed" =>
                            /\ \A n \in Range(Order') : Occurs(r, n, "completed")'
                            /\ deployment'.artifacts => r \in artifact'
                      /\ runFile'[r].status \in Verdict \ {"completed"} =>
                            \E n \in Range(Order') : Occurs(r, n, runFile[r].status)'
    BY DEF LogIsAhead
  <1>1. UNCHANGED <<deployment, Order>>
    BY DeploymentFrame DEF Order
  <1>2. CASE Removed(r)
    BY <1>2 DEF Removed, NoFile, NoNodeFile, Nothing, Verdict
  <1>3. CASE Kept(r)
    <2>1. ASSUME NEW n \in Node, nodeFile'[r][n].status # Nothing
          PROVE  Occurs(r, n, nodeFile[r][n].status)'
      <3> PICK status : status = nodeFile'[r][n].status
        OBVIOUS
      <3>1. Occurs(r, n, status)
        <4>1. CASE status = nodeFile[r][n].status
          BY <2>1, <4>1 DEF LogIsAhead
        <4>2. ASSUME NEW w \in Worker, SaveNodeRecord(w), At(w) = r,
                     worker[w].entries[worker[w].position].node = n,
                     status = worker[w].entries[worker[w].position].status
              PROVE  Occurs(r, n, status)
          <5> PICK x : x = worker[w]
            OBVIOUS
          <5>1. /\ x \in WorkerState /\ x.pc = "record" /\ x.run = r /\ r # Nothing /\ Exists(r)
                /\ Progress(x) /\ Written(x)
            BY <4>2 DEF SaveNodeRecord, Serving, TypeOK, ProgressInv, WrittenInv, At, NamesAssumption,
                        Nothing
          <5>2. x.position \in DOMAIN x.entries /\ LoggedUpTo(x) = x.position
            BY <5>1 DEF LoggedUpTo, Progress, WorkerState
          <5>3. x.position <= LoggedUpTo(x)
            BY <5>1, <5>2 DEF WorkerState
          <5> QED  BY <4>2, <5>1, <5>2, <5>3 DEF Written
        <4> QED  BY <2>1, <4>1, <4>2, NodeFileFrame
      <3>2. Occurs(r, n, status)'
        BY <1>3, <3>1, OccursKept
      <3> QED  BY <3>2 DEF Occurs
    <2> PICK verdict : verdict = runFile'[r].status
      OBVIOUS
    <2>2. ASSUME verdict \in Verdict
          PROVE  /\ verdict = "completed" =>
                       /\ \A n \in Range(Order) : Occurs(r, n, "completed")
                       /\ deployment.artifacts => r \in artifact
                 /\ verdict # "completed" => \E n \in Range(Order) : Occurs(r, n, verdict)
      <3>1. CASE verdict = runFile[r].status
        BY <2>2, <3>1 DEF LogIsAhead
      <3>2. ASSUME NEW w \in Worker, UpdateWrite(w), At(w) = r, Exists(r),
                   verdict = worker[w].status
            PROVE  /\ verdict = "completed" =>
                         /\ \A n \in Range(Order) : Occurs(r, n, "completed")
                         /\ deployment.artifacts => r \in artifact
                   /\ verdict # "completed" => \E n \in Range(Order) : Occurs(r, n, verdict)
        BY <2>2, <3>2, VerdictWritten
      <3> QED  BY <2>2, <3>1, <3>2, RunFileFrame DEF Nothing, Verdict
    <2>3. r \in artifact => r \in artifact'
      BY <1>3 DEF Kept
    <2>4. \A n : Occurs(r, n, "completed") => Occurs(r, n, "completed")'
      BY <1>3, OccursKept
    <2>5. \A n : Occurs(r, n, verdict) => Occurs(r, n, verdict)'
      BY <1>3, OccursKept
    <2>6. ASSUME runFile'[r].status = "completed"
          PROVE  /\ \A n \in Range(Order') : Occurs(r, n, "completed")'
                 /\ deployment'.artifacts => r \in artifact'
      BY <1>1, <2>2, <2>3, <2>4, <2>6 DEF Verdict
    <2>7. ASSUME runFile'[r].status \in Verdict \ {"completed"}
          PROVE  \E n \in Range(Order') : Occurs(r, n, runFile[r].status)'
      <3>1. PICK n \in Range(Order) : Occurs(r, n, verdict)'
        BY <2>2, <2>5, <2>7
      <3>2. Occurs(r, n, runFile[r].status)'
        BY <3>1 DEF Occurs
      <3> QED  BY <1>1, <3>2
    <2> QED  BY <2>1, <2>6, <2>7
  <1> QED  BY <1>2, <1>3, StoreFrame

-----------------------------------------------------------------------------
(* One worker at a time.                                                   *)

Held == {"load", "execute", "start", "append", "record", "update", "truncate"}

\* The worker found a record that is whole and not of an ended run, and nobody else touched
\* it; while the file is open for writing, the worker has what was read.
Sole(x) ==
    /\ x.pc \in Held => runFile[x.run].kind = "record"
                        /\ runFile[x.run].status \notin {"completed", "cancelled"}
    /\ x.pc \in {"create", "write"} => runFile[x.run].kind = "torn"
    /\ x.pc \in {"truncate", "write"} => x.whole = TRUE

SoleInv ==
    Alone => /\ \A r \in Run : runFile[r].kind = "record" => runFile[r].whole
             /\ \A w \in Worker : Sole(worker[w])
             /\ \A w \in Worker \ deployment.workers : worker[w].pc = "idle"

\* What a step does to run r: its record stays whole, and final if the run has ended.
Preserved(r) ==
    /\ runFile'[r].kind = "record" => runFile'[r].whole
    /\ runFile[r].status \in {"completed", "cancelled"} => runFile'[r] \in {runFile[r], NoFile("pruned")}

\* The steps of the worker that leave run.yaml as it is.
LEMMA SoleMemory ==
    ASSUME DeploymentsAssumption, NamesAssumption, TypeOK, ProgressInv, AnswerInv,
           \A r \in Run : runFile[r].kind = "record" => runFile[r].whole,
           NEW w \in Worker, Serve(w), ~ Trigger(w), ~ CreateRun(w), ~ UpdateTruncate(w),
           ~ UpdateWrite(w), ~ ApplyRetention(w), ~ PruneDelete(w),
           NEW x, NEW y, x = worker[w], y = worker'[w], Sole(x)
    PROVE  UNCHANGED runFile /\ Sole(y)
  <1>1. x \in WorkerState /\ (x.pc \notin {"idle", "prune"} => x.run \in Run)
    BY DEF TypeOK, ProgressInv, Progress
  <1>2. CASE LogStarted(w) \/ LogEntry(w) \/ SaveNodeRecord(w) \/ SaveArtifacts(w) \/ LogEnded(w)
    <2>1. UNCHANGED runFile
      BY <1>2 DEF LogStarted, LogEntry, SaveNodeRecord, SaveArtifacts, LogEnded
    <2>2. /\ x.pc \in {"start", "append", "record", "end"}
          /\ y.pc \in {"append", "record", "update", "audit"} /\ y.run = x.run
          /\ (x.pc = "end" => y.pc = "audit")
      <3>1. WriteDown(w) /\ ~ UpdateRead(w)
        BY <1>2 DEF WriteDown, LogStarted, LogEntry, SaveNodeRecord, SaveArtifacts, LogEnded,
                    UpdateRead, Serving
      <3> QED  BY <3>1, WriteDownStep
    <2> QED  BY <2>1, <2>2 DEF Sole, Held
  <1>3. CASE UpdateRead(w)
    <2>1. /\ x.pc = "update" /\ UNCHANGED runFile
          /\ y = [x EXCEPT !.pc = "truncate", !.whole = runFile[x.run].whole]
      BY <1>3 DEF UpdateRead, Serving, TypeOK, At
    <2>2. y.pc = "truncate" /\ y.run = x.run /\ y.whole = runFile[x.run].whole
      BY <1>1, <2>1 DEF WorkerState
    <2>3. runFile[x.run].whole = TRUE
      BY <1>1, <2>1 DEF Sole, Held, TypeOK, RunFile, RunRecord
    <2> QED  BY <2>1, <2>2, <2>3 DEF Sole, Held
  <1>4. CASE LoadCache(w)
    <2>1. /\ x.pc = "load" /\ UNCHANGED runFile
          /\ y = [x EXCEPT !.pc = "execute", !.cache = CachedResults(At(w))]
      BY <1>4 DEF LoadCache, Serving, TypeOK
    <2>2. y.pc = "execute" /\ y.run = x.run
      BY <1>1, <2>1 DEF WorkerState
    <2> QED  BY <2>1, <2>2 DEF Sole, Held
  <1>5. CASE NodeFromCache(w) \/ NodeFromProvider(w)
    <2>1. x.pc = "execute" /\ x.input \in Value /\ UNCHANGED runFile
      BY <1>1, <1>5 DEF NodeFromCache, NodeFromProvider, Serving, WorkerState
    <2>2. Order[x.position] \in Node
      BY <1>5, <2>1, OrderType DEF ProgressInv, Progress, ExecutedSoFar, WorkerState, TypeOK
    <2>3. PICK output \in Value :
             \/ Continue(w, Order[x.position], output)
             \/ \E verdict \in Verdict \ {"completed"} : GiveUp(w, Order[x.position], verdict)
      BY <1>1, <1>5, <2>1 DEF NodeFromCache, NodeFromProvider, Hits, WorkerState, CacheEntry
    <2>4. /\ worker'[w].pc = "start" \/ worker'[w].pc = worker[w].pc
          /\ worker'[w].run = worker[w].run
      BY <2>2, <2>3, ContinueStep, GiveUpStep
    <2> QED  BY <2>1, <2>4 DEF Sole, Held
  <1>6. ASSUME NEW r \in Run, Steppable(r), worker' = [worker EXCEPT ![w] = Stepping(r)]
        PROVE  Sole(y)
    <2>1. y = Stepping(r)
      BY <1>6 DEF TypeOK
    <2>2. y.pc = "load" /\ y.run = r
      BY <2>1 DEF Stepping, Idle
    <2> QED  BY <1>6, <2>2 DEF Sole, Held, Steppable, Readable
  <1>7. CASE Step(w)
    BY <1>6, <1>7 DEF Step
  <1>8. CASE StepAnswered(w)
    <2>1. At(w) \in Run
      BY <1>1, <1>8 DEF StepAnswered, Serving, At
    <2>2. y = Idle \/ (Steppable(At(w)) /\ worker' = [worker EXCEPT ![w] = Stepping(At(w))])
      BY <1>8 DEF StepAnswered, TypeOK
    <2>3. Sole(Idle)
      BY DEF Sole, Held, Idle
    <2> QED  BY <1>6, <1>8, <2>1, <2>2, <2>3 DEF StepAnswered
  <1>9. CASE Stop(w)
    <2>1. y = Idle
      BY <1>9 DEF Stop, TypeOK
    <2> QED  BY <1>9, <2>1 DEF Stop, Sole, Held, Idle
  <1>10. CASE Respond(w) \/ SlackInteraction(w)
    <2>1. PICK r \in Run, answer \in Answer : OpenResponse(w, r, answer)
      BY <1>10 DEF Respond, SlackInteraction, ActionToOutput, Answer
    <2>2. /\ y = [Idle EXCEPT !.pc = "answer", !.run = r, !.answer = answer]
          /\ UNCHANGED runFile
      BY <2>1 DEF OpenResponse, TypeOK
    <2>3. y.pc = "answer"
      BY <2>2 DEF Idle
    <2> QED  BY <2>2, <2>3 DEF Sole, Held
  <1>11. CASE Cleanup(w)
    <2>1. PICK statuses, olderThan : PruneSelect(w, statuses, olderThan)
      BY <1>11 DEF Cleanup
    <2>2. /\ UNCHANGED runFile
          /\ y = [Idle EXCEPT !.pc = "prune", !.matched = Matched(statuses, olderThan)]
      BY <2>1 DEF PruneSelect, TypeOK
    <2>3. y.pc = "prune"
      BY <2>2 DEF Idle
    <2> QED  BY <2>2, <2>3 DEF Sole, Held
  <1>12. CASE WriteResponse(w)
    <2>1. y = [x EXCEPT !.pc = "answered"] /\ UNCHANGED runFile
      BY <1>12, GotoType DEF WriteResponse, Labels
    <2>2. y.pc = "answered"
      BY <1>1, <2>1 DEF WorkerState
    <2> QED  BY <2>1, <2>2 DEF Sole, Held
  <1> QED
    BY <1>2, <1>3, <1>4, <1>5, <1>7, <1>8, <1>9, <1>10, <1>11, <1>12 DEF Serve, Execute, Step

\* Those that write or remove it.
LEMMA SoleDisk ==
    ASSUME DeploymentsAssumption, TypeOK, ProgressInv,
           \A r \in Run : runFile[r].kind = "record" => runFile[r].whole,
           NEW w \in Worker,
           Trigger(w) \/ CreateRun(w) \/ UpdateTruncate(w) \/ UpdateWrite(w)
               \/ ApplyRetention(w) \/ PruneDelete(w),
           NEW x, NEW y, x = worker[w], y = worker'[w], Sole(x)
    PROVE  Sole(y)' /\ \A r \in Run : Preserved(r)
  <1>1. /\ x \in WorkerState /\ (x.pc \notin {"idle", "prune"} => x.run \in Run)
        /\ runFile \in [Run -> RunFile]
    BY DEF TypeOK, ProgressInv, Progress
  <1>2. CASE Trigger(w)
    <2>1. PICK r \in Run : /\ runFile[r].kind = "unused"
                          /\ runFile' = [runFile EXCEPT ![r] = NoFile("torn")]
                          /\ worker' = [worker EXCEPT ![w] = [Idle EXCEPT !.pc = "create", !.run = r]]
      BY <1>2, OrderType DEF Trigger, TypeOK
    <2>2. y.pc = "create" /\ y.run = r
      BY <2>1 DEF Idle, TypeOK
    <2>3. runFile'[r].kind = "torn" /\ runFile[r].status \notin {"completed", "cancelled"}
      BY <1>1, <2>1 DEF NoFile, RunFile, RunRecord, Nothing
    <2>4. \A q \in Run \ {r} : runFile'[q] = runFile[q]
      BY <1>1, <2>1
    <2> QED  BY <2>2, <2>3, <2>4 DEF Sole, Held, Preserved
  <1>3. CASE CreateRun(w)
    <2>1. x.pc = "create" /\ y = [x EXCEPT !.pc = "load"]
      BY <1>3, GotoType DEF CreateRun, Serving, Labels
    <2>2. y.pc = "load" /\ y.run = x.run /\ x.run \in Run
      BY <1>1, <2>1 DEF WorkerState
    <2>3. runFile' = [runFile EXCEPT ![x.run] =
                         [kind |-> "record", status |-> "running", whole |-> TRUE]]
      BY <1>3 DEF CreateRun, At
    <2>4. runFile'[x.run] = [kind |-> "record", status |-> "running", whole |-> TRUE]
      BY <1>1, <2>2, <2>3
    <2>5. \A q \in Run \ {x.run} : runFile'[q] = runFile[q]
      BY <1>1, <2>3
    <2>6. runFile[x.run].status \notin {"completed", "cancelled"}
      BY <1>1, <2>1, <2>2 DEF Sole, RunFile, RunRecord, Nothing
    <2> QED  BY <2>2, <2>4, <2>5, <2>6 DEF Sole, Held, Preserved
  <1>4. CASE UpdateTruncate(w)
    <2>1. x.pc = "truncate" /\ y = [x EXCEPT !.pc = "write"]
      BY <1>4, GotoType DEF UpdateTruncate, Serving, Labels
    <2>2. y.pc = "write" /\ y.run = x.run /\ x.run \in Run /\ y.whole = x.whole
      BY <1>1, <2>1 DEF WorkerState
    <2>3. runFile' = [runFile EXCEPT ![x.run] = NoFile("torn")]
      BY <1>4 DEF UpdateTruncate, At
    <2>4. runFile'[x.run].kind = "torn"
      BY <1>1, <2>2, <2>3 DEF NoFile
    <2>5. \A q \in Run \ {x.run} : runFile'[q] = runFile[q]
      BY <1>1, <2>3
    <2>6. x.whole = TRUE /\ runFile[x.run].status \notin {"completed", "cancelled"}
      BY <2>1 DEF Sole, Held
    <2> QED  BY <2>2, <2>4, <2>5, <2>6 DEF Sole, Held, Preserved
  <1>5. CASE UpdateWrite(w)
    <2>1. x.pc = "write" /\ y = [x EXCEPT !.pc = "end"]
      BY <1>5, GotoType DEF UpdateWrite, Serving, Labels
    <2>2. y.pc = "end" /\ x.run \in Run /\ x.whole = TRUE /\ runFile[x.run].kind = "torn"
      BY <1>1, <2>1 DEF WorkerState, Sole
    <2>3. runFile' = [runFile EXCEPT ![x.run] =
                         [kind |-> "record", status |-> x.status, whole |-> x.whole]]
      BY <1>5, <2>2 DEF UpdateWrite, At, Exists
    <2>4. runFile'[x.run] = [kind |-> "record", status |-> x.status, whole |-> TRUE]
      BY <1>1, <2>2, <2>3
    <2>5. \A q \in Run \ {x.run} : runFile'[q] = runFile[q]
      BY <1>1, <2>3
    <2>6. runFile[x.run].status \notin {"completed", "cancelled"}
      BY <1>1, <2>2 DEF RunFile, RunRecord, Nothing
    <2> QED  BY <2>2, <2>4, <2>5, <2>6 DEF Sole, Held, Preserved
  <1>6. CASE ApplyRetention(w) \/ PruneDelete(w)
    <2>1. y = Idle
      BY <1>6 DEF ApplyRetention, PruneDelete, TypeOK
    <2>2. PICK runs : RemoveRuns(runs)
      BY <1>6 DEF ApplyRetention, PruneDelete
    <2>3. \A r \in Run : runFile'[r] \in {runFile[r], NoFile("pruned")}
      BY <2>2 DEF RemoveRuns
    <2>4. NoFile("pruned").kind # "record"
      BY DEF NoFile
    <2> QED  BY <2>1, <2>3, <2>4 DEF Sole, Held, Idle, Preserved
  <1> QED  BY <1>2, <1>3, <1>4, <1>5, <1>6

LEMMA SoleStep ==
    ASSUME DeploymentsAssumption, NamesAssumption, TypeOK, ProgressInv, AnswerInv, SoleInv,
           [Next]_vars
    PROVE  SoleInv' /\ (Alone => \A r \in Run : Preserved(r))
  <1>0. UNCHANGED deployment
    BY DeploymentFrame
  <1> SUFFICES ASSUME Alone
               PROVE  /\ \A r \in Run : Preserved(r)
                      /\ \A v \in Worker : Sole(worker[v])'
                      /\ \A v \in Worker \ deployment.workers : worker'[v].pc = "idle"
    BY <1>0 DEF SoleInv, Alone, Preserved
  <1>1. /\ \A r \in Run : runFile[r].kind = "record" => runFile[r].whole
        /\ \A v \in Worker : Sole(worker[v])
        /\ \A v \in Worker \ deployment.workers : worker[v].pc = "idle"
    BY DEF SoleInv
  <1>2. ASSUME UNCHANGED <<runFile, worker>>
        PROVE  /\ \A r \in Run : Preserved(r)
               /\ \A v \in Worker : Sole(worker[v])'
               /\ \A v \in Worker \ deployment.workers : worker'[v].pc = "idle"
    BY <1>1, <1>2 DEF Sole, Preserved
  <1>3. ASSUME NEW w \in Worker, Serve(w)
        PROVE  /\ \A r \in Run : Preserved(r)
               /\ \A v \in Worker : Sole(worker[v])'
               /\ \A v \in Worker \ deployment.workers : worker'[v].pc = "idle"
    <2>1. deployment.workers = {w}
      <3>1. w \in deployment.workers
        BY <1>3 DEF Serve, Trigger, Step, Execute, CreateRun, LoadCache, NodeFromCache,
                    NodeFromProvider, LogStarted, LogEntry, SaveNodeRecord, SaveArtifacts, UpdateRead,
                    UpdateTruncate, UpdateWrite, LogEnded, ApplyRetention, Stop, Respond,
                    SlackInteraction, WriteResponse, StepAnswered, Cleanup, PruneDelete, Serving
      <3> QED  BY <3>1 DEF Alone
    <2>2. \A v \in Worker \ {w} : worker'[v] = worker[v] /\ worker[v].pc = "idle"
      BY <1>1, <1>3, <2>1, WorkerFrame
    <2> PICK x : x = worker[w]
      OBVIOUS
    <2> PICK y : y = worker'[w]
      OBVIOUS
    <2>3. Sole(y)' /\ \A r \in Run : Preserved(r)
      <3>1. Sole(x)
        BY <1>1
      <3>2. CASE Trigger(w) \/ CreateRun(w) \/ UpdateTruncate(w) \/ UpdateWrite(w)
                     \/ ApplyRetention(w) \/ PruneDelete(w)
        BY <1>1, <3>1, <3>2, SoleDisk
      <3>3. CASE ~ (Trigger(w) \/ CreateRun(w) \/ UpdateTruncate(w) \/ UpdateWrite(w)
                     \/ ApplyRetention(w) \/ PruneDelete(w))
        <4>1. UNCHANGED runFile /\ Sole(y)
          BY <1>1, <1>3, <3>1, <3>3, SoleMemory
        <4> QED  BY <1>1, <4>1 DEF Sole, Preserved
      <3> QED  BY <3>2, <3>3
    <2>4. ASSUME NEW v \in Worker PROVE Sole(worker[v])'
      <3>1. CASE v = w
        BY <2>3, <3>1 DEF Sole
      <3>2. CASE v # w
        BY <2>2, <3>2 DEF Sole, Held
      <3> QED  BY <3>1, <3>2
    <2> QED  BY <2>1, <2>2, <2>3, <2>4
  <1> QED  BY <1>2, <1>3 DEF Next, vars, PostInteraction, Age

-----------------------------------------------------------------------------
(* The theorems.                                                           *)

EngineIInv ==
    TypeOK /\ ProgressInv /\ AnswerInv /\ WrittenInv /\ LogIsAhead /\ SoleInv

LEMMA EngineInit ==
    ASSUME DeploymentsAssumption, Init PROVE EngineIInv
  <1>1. /\ TypeOK /\ pending = {}
        /\ \A w \in Worker : worker[w] = Idle
        /\ \A r \in Run : runFile[r].kind = "unused" /\ runFile[r].status = Nothing
        /\ \A r \in Run, n \in Node : nodeFile[r][n].status = Nothing
    BY InitType DEF Init, NoFile, NoNodeFile
  <1>2. ProgressInv
    BY <1>1 DEF ProgressInv, Progress, Started, Idle, Writing
  <1>3. AnswerInv
    BY <1>1 DEF AnswerInv
  <1>4. WrittenInv
    BY <1>1 DEF WrittenInv, Written, Idle
  <1>5. LogIsAhead
    BY <1>1 DEF LogIsAhead, Nothing, Verdict
  <1>6. SoleInv
    BY <1>1 DEF SoleInv, Sole, Held, Idle
  <1> QED  BY <1>1, <1>2, <1>3, <1>4, <1>5, <1>6 DEF EngineIInv

\* The inductive invariant holds: what a worker has in memory agrees with where it is in
\* its call, the log has what it has logged, and its files follow the log.
THEOREM EngineInvariant == Spec => []EngineIInv
  <1>1. Init => EngineIInv
    BY EngineInit, DeploymentsAssumption
  <1>2. EngineIInv /\ [Next]_vars => EngineIInv'
    BY TypeStep, ProgressStep, AnswerStep, WrittenStep, LogIsAheadStep, SoleStep,
       DeploymentsAssumption, NamesAssumption DEF EngineIInv
  <1> QED  BY <1>1, <1>2, PTL DEF Spec

\* Every variable of the engine and the store keeps its type.
THEOREM EngineTypeCorrect == Spec => []TypeOK
  BY EngineInvariant, PTL DEF EngineIInv

\* The event log is ahead of the records: engine.py appends the events, saves the node
\* records, and only then records the verdict.
THEOREM LogIsAheadCorrect == Spec => []LogIsAhead
  BY EngineInvariant, PTL DEF EngineIInv

\* A single worker never loses the input of a run, wherever its calls are cut off.
THEOREM InputKeptCorrect == Spec => []InputKept
  <1>1. EngineIInv => InputKept
    BY DEF EngineIInv, SoleInv, InputKept
  <1> QED  BY <1>1, EngineInvariant, PTL

\* Nor does it write over the record of a completed or cancelled run.
THEOREM CompletedIsFinalCorrect == Spec => CompletedIsFinal
  <1>1. EngineIInv /\ [Next]_vars =>
           [Alone => \A r \in Run : runFile[r].status \in {"completed", "cancelled"}
                        => runFile'[r] \in {runFile[r], NoFile("pruned")}]_vars
    BY SoleStep, DeploymentsAssumption, NamesAssumption DEF EngineIInv, Preserved
  <1> QED  BY <1>1, EngineInvariant, PTL DEF Spec, CompletedIsFinal

=============================================================================
