---------------------------- MODULE EngineStore ----------------------------
(***************************************************************************)
(* The engine (src/src/bpg/runtime/engine.py) over the state store         *)
(* (src/src/bpg/state/store.py), and those who call them: `bpg run`,       *)
(* `bpg cleanup`, the dashboard's requests.  A worker is a process or      *)
(* request thread that serves one call at a time.  Nothing locks the       *)
(* store, so workers interleave between any two file operations, and a     *)
(* worker may stop at any point.                                           *)
(*                                                                         *)
(* The backend is reduced to what the engine sees of it: a chain of nodes, *)
(* each answered from the cache or by a provider call whose key is the     *)
(* node and its input, and an execution log.  A payload is "clear",        *)
(* "masked" by PII redaction, or "empty" ({}, the default of a record      *)
(* without an input); a node's output is of the kind of its input.         *)
(***************************************************************************)
EXTENDS Naturals, Sequences, FiniteSets, SequencesExt

CONSTANTS
    Run,            \* the run ids that trigger may generate
    Worker,         \* processes and request threads
    Deployments,    \* the deployments under study, see Deployment
    MaxExecutions   \* bound on the executions of one run

Node == UNION {Range(d.order) : d \in Deployments}

\* The process: its nodes in order, those with a pii_redaction policy, whether it has
\* artifacts, an audit retention and interactions that are stored.  Its use: the
\* workers, and the run ids they may generate.
Deployment == [order : Seq(Node), masked : SUBSET Node, artifacts : BOOLEAN,
               retention : BOOLEAN, interactive : BOOLEAN,
               workers : SUBSET Worker, runs : SUBSET Run]

ASSUME DeploymentsAssumption ==
    \A d \in Deployments :
        /\ d.order \in Seq(Range(d.order)) /\ d.order # << >>
        /\ IsInjective(d.order)    \* the topological sort takes a node once
        /\ d.masked \subseteq Range(d.order)
        /\ {d.artifacts, d.retention, d.interactive} \subseteq BOOLEAN
        /\ d.workers \subseteq Worker /\ d.runs \subseteq Run
ASSUME NamesAssumption == "nothing" \notin Run \cup Node
ASSUME MaxExecutionsAssumption == MaxExecutions \in Nat

VARIABLES
    deployment,
    runFile,     \* run.yaml of every run
    nodeFile,    \* nodes/<node>.yaml of every run
    log,         \* events.jsonl of every run
    artifact,    \* the runs with a file in artifacts/
    old,         \* the runs that started before the retention cutoff
    pending,     \* the runs with a pending interaction
    response,    \* its response.yaml
    worker,      \* the call every worker is serving
    calls        \* history: the provider calls made

vars == <<deployment, runFile, nodeFile, log, artifact, old, pending, response,
          worker, calls>>
interactions == <<pending, response>>

Answer == {"approved", "rejected"}

\* response.yaml: there is none, an answer, "torn" if it was opened for writing and
\* not yet written, "mixed" if one request wrote over what another had just written.
NoAnswer == "no answer"
ResponseFile == Answer \cup {NoAnswer, "torn", "mixed"}

\* What a run and a node end with.  A node that times out ends its run like one that
\* fails, and counts as failed here.
Verdict == {"completed", "failed", "cancelled"}
RunStatus == {"running"} \cup Verdict
NodeStatus == {"skipped"} \cup Verdict

Value == {"clear", "masked", "empty"}
Nothing == "nothing"        \* a field the entry or the record does not have

\* "torn" is a run.yaml that was opened for writing and not yet written.  A record
\* is whole if it has run_id, process_name, started_at and input, which are
\* written together.
RunRecord == [kind : {"record"}, status : RunStatus, whole : BOOLEAN]
RunFile == RunRecord \cup [kind : {"unused", "torn", "pruned"},
                           status : {Nothing}, whole : {FALSE}]
NoFile(k) == [kind |-> k, status |-> Nothing, whole |-> FALSE]

\* An entry of the execution log, and what it leaves in the node's record.
Entry == [node : Node, status : NodeStatus,
          input : Value \cup {Nothing}, output : Value \cup {Nothing}]
NodeFile == [status : NodeStatus \cup {Nothing},
             input : Value \cup {Nothing}, output : Value \cup {Nothing}]
NoNodeFile == [status |-> Nothing, input |-> Nothing, output |-> Nothing]

\* A run event has no node; its node field is Nothing.
Event == [type : {"run_started", "node_completed", "run_completed", "run_failed"},
          node : Node \cup {Nothing},
          status : {"running"} \cup NodeStatus]

Labels == {"idle", "create", "load", "execute", "start", "append", "record",
           "update", "truncate", "write", "end", "audit",
           "answer", "answered", "prune"}

Call == [run : Run, node : Node, input : Value, repeated : BOOLEAN]

CacheEntry == [node : Node, input : Value, output : Value]

\* The run it serves and its input; the cache; the position in the order and then in
\* the execution log; the status so far; what update_run read; what prune_runs found;
\* the answer it is to save.
WorkerState == [pc : Labels, run : Run \cup {Nothing}, input : Value,
                cache : SUBSET CacheEntry, position : Nat \ {0}, entries : Seq(Entry),
                status : RunStatus, whole : BOOLEAN, matched : SUBSET Run,
                answer : Answer \cup {Nothing}]

Idle == [pc |-> "idle", run |-> Nothing, input |-> "clear", cache |-> {},
         position |-> 1, entries |-> << >>, status |-> "running",
         whole |-> FALSE, matched |-> {}, answer |-> Nothing]

Order == deployment.order
Exists(r) == runFile[r].kind \notin {"unused", "pruned"}    \* the run directory
Readable(r) == runFile[r].kind = "record"    \* load_run and list_runs find a record
Serving(w, label) == w \in deployment.workers /\ worker[w].pc = label
Goto(w, label) == worker' = [worker EXCEPT ![w].pc = label]
At(w) == worker[w].run

Init ==
    /\ deployment \in Deployments
    /\ runFile = [r \in Run |-> NoFile("unused")]
    /\ nodeFile = [r \in Run |-> [n \in Node |-> NoNodeFile]]
    /\ log = [r \in Run |-> << >>]
    /\ artifact = {} /\ old = {} /\ pending = {}
    /\ response = [r \in Run |-> NoAnswer]
    /\ worker = [w \in Worker |-> Idle]
    /\ calls = {}

-----------------------------------------------------------------------------
(* Calls of the engine.                                                    *)

Executions(r) ==
    Cardinality({i \in DOMAIN log[r] : log[r][i].type = "run_started"})
    + Cardinality({w \in Worker : At(w) = r})

\* trigger(): a fresh run id; create_run makes the directory and opens run.yaml.
Trigger(w) ==
    /\ Serving(w, "idle")
    /\ MaxExecutions > 0
    /\ \E r \in deployment.runs :
          /\ runFile[r].kind = "unused"
          /\ runFile' = [runFile EXCEPT ![r] = NoFile("torn")]
          /\ worker' = [worker EXCEPT ![w] = [Idle EXCEPT !.pc = "create", !.run = r]]
    /\ UNCHANGED <<deployment, nodeFile, log, artifact, old, interactions, calls>>

\* create_run writes the record.
CreateRun(w) ==
    /\ Serving(w, "create") /\ Exists(At(w))
    /\ runFile' = [runFile EXCEPT ![At(w)] =
                      [kind |-> "record", status |-> "running", whole |-> TRUE]]
    /\ Goto(w, "load")
    /\ UNCHANGED <<deployment, nodeFile, log, artifact, old, interactions, calls>>

\* Mutant: a truncated file is taken for a record without fields.
SteppableTorn(r) == Exists(r) /\ runFile[r].status \notin {"completed", "cancelled"}
\* Mutant: a completed run is executed again.
SteppableCompleted(r) == Readable(r)

\* What step() finds: load_run gives None for a missing or truncated file.
Steppable(r) ==
    /\ Readable(r)
    /\ runFile[r].status \notin {"completed", "cancelled"}

Stepping(r) ==
    [Idle EXCEPT !.pc = "load", !.run = r,
                 !.input = IF runFile[r].whole THEN "clear" ELSE "empty"]

\* step(run_id), called by an application or a test: nothing happens unless
\* Steppable.
Step(w) ==
    /\ Serving(w, "idle")
    /\ \E r \in Run :
          /\ Steppable(r) /\ Executions(r) < MaxExecutions
          /\ worker' = [worker EXCEPT ![w] = Stepping(r)]
    /\ UNCHANGED <<deployment, runFile, nodeFile, log, artifact, old, interactions, calls>>

\* _execute_run begins with the outputs of the completed node records.
CachedResults(r) ==
    {[node |-> n, input |-> nodeFile[r][n].input, output |-> nodeFile[r][n].output] :
        n \in {m \in Node : /\ nodeFile[r][m].status = "completed"
                            /\ nodeFile[r][m].input # Nothing
                            /\ nodeFile[r][m].output # Nothing}}

LoadCache(w) ==
    /\ Serving(w, "load")
    /\ worker' = [worker EXCEPT ![w].pc = "execute", ![w].cache = CachedResults(At(w))]
    /\ UNCHANGED <<deployment, runFile, nodeFile, log, artifact, old, interactions, calls>>

-----------------------------------------------------------------------------
(* backend.run: the nodes of the chain, in memory.                         *)

\* _redact: the execution log shows the output of a redacted node masked.
Logged(n, value) == IF n \in deployment.masked THEN "masked" ELSE value

Done(n, input, output) ==
    [node |-> n, status |-> "completed", input |-> input, output |-> Logged(n, output)]
Ended(n, input, verdict) ==
    [node |-> n, status |-> verdict, input |-> input, output |-> Nothing]
Left(n, verdict) ==
    [node |-> n, status |-> IF verdict = "cancelled" THEN "cancelled" ELSE "skipped",
     input |-> Nothing, output |-> Nothing]

\* Node n is resolved with this output and the next node's input is set.
Continue(w, n, output) ==
    LET last == worker[w].position = Len(Order)
    IN worker' = [worker EXCEPT
            ![w].entries = Append(@, Done(n, worker[w].input, output)),
            ![w].input = output,
            ![w].position = IF last THEN 1 ELSE @ + 1,
            ![w].status = IF last THEN "completed" ELSE @,
            ![w].pc = IF last THEN "start" ELSE @]

\* Once a node has failed the others are skipped; once one was cancelled, the others
\* are cancelled as well.
GiveUp(w, n, verdict) ==
    LET rest == SubSeq(Order, worker[w].position + 1, Len(Order))
    IN worker' = [worker EXCEPT
            ![w].entries = Append(@, Ended(n, worker[w].input, verdict))
                           \o [i \in DOMAIN rest |-> Left(rest[i], verdict)],
            ![w].position = 1, ![w].status = verdict, ![w].pc = "start"]

\* Mutant: the runtime does not get the outputs of earlier executions.
HitsForgotten(w, n) == {}

Hits(w, n) == {c \in worker[w].cache : c.node = n /\ c.input = worker[w].input}

NodeFromCache(w) ==
    /\ Serving(w, "execute")
    /\ LET n == Order[worker[w].position]
       IN \E c \in Hits(w, n) : Continue(w, n, c.output)
    /\ UNCHANGED <<deployment, runFile, nodeFile, log, artifact, old, interactions, calls>>

\* The provider answers, fails, or reports the error "cancelled".  (The backend keeps
\* the runtime to itself: nobody calls the cancel_run of a run of the engine.)
NodeFromProvider(w) ==
    LET n == Order[worker[w].position]
        input == worker[w].input
    IN /\ Serving(w, "execute") /\ Hits(w, n) = {}
       /\ calls' = calls \cup
             {[run |-> At(w), node |-> n, input |-> input,
               repeated |-> \E c \in worker[w].cache : c.node = n]}
       /\ \/ Continue(w, n, input)
          \/ \E verdict \in Verdict \ {"completed"} : GiveUp(w, n, verdict)
       /\ UNCHANGED <<deployment, runFile, nodeFile, log, artifact, old, interactions>>

-----------------------------------------------------------------------------
(* The rest of _execute_run: writing down what happened.                   *)

RunEvent(type, status) == [type |-> type, node |-> Nothing, status |-> status]

\* Mutant: the status is taken for the type.
NormalizeEventByStatus(entry) ==
    [type |-> entry.status, node |-> entry.node, status |-> entry.status]

\* normalize_event: an entry of the execution log has neither an event_type nor
\* an event, so _infer_event_type falls through to node_completed.
NormalizeEvent(entry) ==
    [type |-> "node_completed", node |-> entry.node, status |-> entry.status]

\* append_execution_event raises if the directory is gone.
AppendEvent(r, event) == Exists(r) /\ log' = [log EXCEPT ![r] = Append(@, event)]

LogStarted(w) ==
    /\ Serving(w, "start")
    /\ AppendEvent(At(w), RunEvent("run_started", "running"))
    /\ Goto(w, "append")
    /\ UNCHANGED <<deployment, runFile, nodeFile, artifact, old, interactions, calls>>

\* Mutant: the record is saved, the entry is not logged.
LogEntryLost(w) ==
    /\ Serving(w, "append") /\ worker[w].position <= Len(worker[w].entries)
    /\ Goto(w, "record")
    /\ UNCHANGED <<deployment, runFile, nodeFile, log, artifact, old, interactions, calls>>

LogEntry(w) ==
    /\ Serving(w, "append") /\ worker[w].position <= Len(worker[w].entries)
    /\ AppendEvent(At(w), NormalizeEvent(worker[w].entries[worker[w].position]))
    /\ Goto(w, "record")
    /\ UNCHANGED <<deployment, runFile, nodeFile, artifact, old, interactions, calls>>

\* Mutant: the fields that are there win.
MergedOldFirst(rec, entry) ==
    IF rec.status = Nothing
    THEN [status |-> entry.status, input |-> entry.input, output |-> entry.output] ELSE rec

\* save_node_record merges the entry into the record that is there: a field the
\* entry lacks keeps the value of an earlier execution.
Merged(rec, entry) ==
    [status |-> entry.status,
     input |-> IF entry.input = Nothing THEN rec.input ELSE entry.input,
     output |-> IF entry.output = Nothing THEN rec.output ELSE entry.output]

SaveNodeRecord(w) ==
    LET entry == worker[w].entries[worker[w].position]
    IN /\ Serving(w, "record") /\ Exists(At(w))
       /\ nodeFile' = [nodeFile EXCEPT ![At(w)][entry.node] = Merged(@, entry)]
       /\ worker' = [worker EXCEPT ![w].pc = "append", ![w].position = @ + 1]
       /\ UNCHANGED <<deployment, runFile, log, artifact, old, interactions, calls>>

SaveRunArtifact(r) == Exists(r) /\ artifact' = artifact \cup {r}

\* _materialize_artifacts.
SaveArtifacts(w) ==
    /\ Serving(w, "append") /\ worker[w].position > Len(worker[w].entries)
    /\ IF deployment.artifacts THEN SaveRunArtifact(At(w)) ELSE UNCHANGED artifact
    /\ Goto(w, "update")
    /\ UNCHANGED <<deployment, runFile, nodeFile, log, old, interactions, calls>>

\* update_run reads the record (nothing, from a truncated file), truncates the
\* file and writes the merged record.
UpdateRead(w) ==
    /\ Serving(w, "update") /\ Exists(At(w))
    /\ worker' = [worker EXCEPT ![w].pc = "truncate", ![w].whole = runFile[At(w)].whole]
    /\ UNCHANGED <<deployment, runFile, nodeFile, log, artifact, old, interactions, calls>>

UpdateTruncate(w) ==
    /\ Serving(w, "truncate") /\ Exists(At(w))
    /\ runFile' = [runFile EXCEPT ![At(w)] = NoFile("torn")]
    /\ Goto(w, "write")
    /\ UNCHANGED <<deployment, nodeFile, log, artifact, old, interactions, calls>>

\* Writing to a file that was deleted meanwhile has no effect.
UpdateWrite(w) ==
    /\ Serving(w, "write")
    /\ runFile' = [runFile EXCEPT ![At(w)] =
          IF Exists(At(w))
          THEN [kind |-> "record", status |-> worker[w].status, whole |-> worker[w].whole]
          ELSE @]
    /\ Goto(w, "end")
    /\ UNCHANGED <<deployment, nodeFile, log, artifact, old, interactions, calls>>

LogEnded(w) ==
    /\ Serving(w, "end")
    /\ AppendEvent(At(w),
           RunEvent(IF worker[w].status = "completed" THEN "run_completed" ELSE "run_failed",
                    worker[w].status))
    /\ Goto(w, "audit")
    /\ UNCHANGED <<deployment, runFile, nodeFile, artifact, old, interactions, calls>>

\* rmtree of run directories.  Interactions are kept elsewhere.
RemoveRuns(runs) ==
    /\ runFile' = [r \in Run |-> IF r \in runs THEN NoFile("pruned") ELSE runFile[r]]
    /\ nodeFile' = [r \in Run |-> IF r \in runs THEN [n \in Node |-> NoNodeFile]
                                               ELSE nodeFile[r]]
    /\ log' = [r \in Run |-> IF r \in runs THEN << >> ELSE log[r]]
    /\ artifact' = artifact \ runs

\* list_runs(process_name): records that are readable and name the process.
ListedRuns == {r \in Run : Readable(r) /\ runFile[r].whole}

\* apply_audit_policy removes every other old run of the process, whatever its
\* status.  The call ends here.
ApplyRetention(w) ==
    /\ Serving(w, "audit")
    /\ RemoveRuns(IF deployment.retention THEN (ListedRuns \cap old) \ {At(w)} ELSE {})
    /\ worker' = [worker EXCEPT ![w] = Idle]
    /\ UNCHANGED <<deployment, old, interactions, calls>>

\* The process dies, the backend or an artifact raises, or a store operation
\* finds the directory gone: the call ends and what it has written stays.
Stop(w) ==
    /\ w \in deployment.workers /\ worker[w].pc # "idle"
    /\ worker' = [worker EXCEPT ![w] = Idle]
    /\ UNCHANGED <<deployment, runFile, nodeFile, log, artifact, old, interactions, calls>>

-----------------------------------------------------------------------------
(* Interactions, cleanup and time.                                         *)

\* SlackInteractiveProvider.invoke, in an application that gives the provider a
\* store (the engine's registry does not): posts once and saves the interaction.
PostInteraction(r) ==
    /\ deployment.interactive
    /\ Readable(r) /\ r \notin pending
    /\ pending' = pending \cup {r}
    /\ UNCHANGED <<deployment, runFile, nodeFile, log, artifact, old, response, worker, calls>>

\* save_interaction_response opens the file, which empties it, whether there is an
\* answer or not,
OpenResponse(w, r, answer) ==
    /\ r \in pending
    /\ response' = [response EXCEPT ![r] = "torn"]
    /\ worker' = [worker EXCEPT ![w] =
                     [Idle EXCEPT !.pc = "answer", !.run = r, !.answer = answer]]
    /\ UNCHANGED <<deployment, runFile, nodeFile, log, artifact, old, pending, calls>>

\* and writes the answer: from the start of the file, so that the end of a longer
\* answer that another request wrote meanwhile may remain.
WriteResponse(w) ==
    /\ Serving(w, "answer")
    /\ \E written \in {worker[w].answer, "mixed"} :
          /\ written = "mixed" => response[At(w)] # "torn"
          /\ response' = [response EXCEPT ![At(w)] = written]
    /\ Goto(w, "answered")
    /\ UNCHANGED <<deployment, runFile, nodeFile, log, artifact, old, pending, calls>>

\* POST /api/interactions/<key>/respond.
Respond(w) ==
    /\ Serving(w, "idle")
    /\ \E r \in Run, answer \in Answer : OpenResponse(w, r, answer)

\* POST /api/slack/interactions: only two labels mean yes.
ActionToOutput(label) == IF label \in {"approve", "yes"} THEN "approved" ELSE "rejected"

SlackInteraction(w) ==
    /\ Serving(w, "idle")
    /\ \E r \in Run, label \in {"approve", "yes", "reject"} :
          OpenResponse(w, r, ActionToOutput(label))

\* Both then step the run; a run that is missing or completed ends the request.
StepAnswered(w) ==
    /\ Serving(w, "answered")
    /\ worker' = [worker EXCEPT ![w] =
          IF Steppable(At(w)) /\ Executions(At(w)) <= MaxExecutions
          THEN Stepping(At(w)) ELSE Idle]
    /\ UNCHANGED <<deployment, runFile, nodeFile, log, artifact, old, interactions, calls>>

\* prune_runs selects runs by status and age, then deletes them.
Matched(statuses, olderThan) ==
    {r \in ListedRuns : runFile[r].status \in statuses /\ (olderThan => r \in old)}

PruneSelect(w, statuses, olderThan) ==
    /\ Matched(statuses, olderThan) # {}
    /\ worker' = [worker EXCEPT ![w] =
                     [Idle EXCEPT !.pc = "prune", !.matched = Matched(statuses, olderThan)]]
    /\ UNCHANGED <<deployment, runFile, nodeFile, log, artifact, old, interactions, calls>>

\* `bpg cleanup`; without --status every run is eligible, also a running one.
Cleanup(w) ==
    /\ Serving(w, "idle")
    /\ \E statuses \in {{"completed", "failed"}, RunStatus},
          olderThan \in BOOLEAN : PruneSelect(w, statuses, olderThan)

PruneDelete(w) ==
    /\ Serving(w, "prune")
    /\ RemoveRuns(worker[w].matched)
    /\ worker' = [worker EXCEPT ![w] = Idle]
    /\ UNCHANGED <<deployment, old, interactions, calls>>

Age(r) ==
    /\ runFile[r].kind # "unused" /\ r \notin old
    /\ old' = old \cup {r}
    /\ UNCHANGED <<deployment, runFile, nodeFile, log, artifact, interactions, worker, calls>>

-----------------------------------------------------------------------------
Execute(w) ==
    \/ CreateRun(w) \/ LoadCache(w) \/ NodeFromCache(w) \/ NodeFromProvider(w)
    \/ LogStarted(w) \/ LogEntry(w) \/ SaveNodeRecord(w) \/ SaveArtifacts(w)
    \/ UpdateRead(w) \/ UpdateTruncate(w) \/ UpdateWrite(w) \/ LogEnded(w)
    \/ ApplyRetention(w)

Serve(w) ==
    \/ Trigger(w) \/ Step(w) \/ Execute(w) \/ Stop(w)
    \/ Respond(w) \/ SlackInteraction(w) \/ WriteResponse(w) \/ StepAnswered(w)
    \/ Cleanup(w) \/ PruneDelete(w)

Next ==
    \/ \E w \in Worker : Serve(w)
    \/ \E r \in Run : PostInteraction(r) \/ Age(r)

Spec == Init /\ [][Next]_vars

-----------------------------------------------------------------------------
(* replay_state_from_events (runtime/events.py), as `bpg replay` uses it.  *)

LastOf(events, P(_)) ==
    LET found == {i \in DOMAIN events : P(events[i])}
    IN {events[i] : i \in {j \in found : \A k \in found : k <= j}}

\* The status of a node is that of its last event.
ReplayNode(events, n) ==
    LET OfNode(e) == e.node = n
        last == LastOf(events, OfNode)
    IN IF last = {} THEN Nothing ELSE (CHOOSE e \in last : TRUE).status

\* The type of the last verdict counts; without one the status is inferred from the
\* nodes.
ReplayRun(events) ==
    LET IsVerdict(e) == e.type \in {"run_completed", "run_failed"}
        last == LastOf(events, IsVerdict)
        statuses == {ReplayNode(events, n) : n \in Node} \ {Nothing}
    IN IF last # {}
       THEN IF (CHOOSE e \in last : TRUE).type = "run_completed" THEN "completed" ELSE "failed"
       ELSE IF "failed" \in statuses THEN "failed"
       ELSE IF statuses # {} /\ statuses \subseteq {"completed", "skipped"} THEN "completed"
       ELSE "running"

\* `bpg replay` prints both statuses of a run.
ReplayCommand(r) == [stored |-> runFile[r].status, replayed |-> ReplayRun(log[r])]

-----------------------------------------------------------------------------
(* Properties.                                                             *)

\* Every variable has its type.
TypeOK ==
    /\ deployment \in Deployments
    /\ runFile \in [Run -> RunFile]
    /\ nodeFile \in [Run -> [Node -> NodeFile]]
    /\ log \in [Run -> Seq(Event)]
    /\ artifact \subseteq Run /\ old \subseteq Run /\ pending \subseteq Run
    /\ response \in [Run -> ResponseFile]
    /\ worker \in [Worker -> WorkerState]
    /\ calls \subseteq Call

Occurs(r, n, status) ==
    \E i \in DOMAIN log[r] : log[r][i].node = n /\ log[r][i].status = status

\* The event log is ahead of the records, whatever stops or interleaves: a node
\* record's status was logged, a run is recorded completed only if all its nodes
\* were logged completed and its artifacts are there, and failed or cancelled only if
\* a node was logged so (engine.py:177-200 writes in this order).
LogIsAhead ==
    \A r \in Run :
        /\ \A n \in Node : nodeFile[r][n].status # Nothing
                              => Occurs(r, n, nodeFile[r][n].status)
        /\ runFile[r].status = "completed" =>
              /\ \A n \in Range(Order) : Occurs(r, n, "completed")
              /\ deployment.artifacts => r \in artifact
        /\ runFile[r].status \in Verdict \ {"completed"} =>
              \E n \in Range(Order) : Occurs(r, n, runFile[r].status)

\* A replayed run calls the provider of a node again only with the key it used
\* before, and never that of a node it found completed ("Replays the run
\* idempotently ... so provider calls can deduplicate", engine.py:126).
ReplayIsIdempotent ==
    \A c, d \in calls :
        (c.run = d.run /\ c.node = d.node) => (c.input = d.input /\ ~c.repeated)

\* This holds unless a redacted node has successors or the run's record lost its
\* input to a concurrent update.
ReplaySkipsCompleted ==
    LET used == {c \in calls : \A d \in calls : d.run = c.run => d.input # "empty"}
    IN deployment.masked \subseteq {Last(Order)} =>
           \A c, d \in used :
              (c.run = d.run /\ c.node = d.node) => (c.input = d.input /\ ~c.repeated)

Alone == \E w \in Worker : deployment.workers = {w}

\* The last execution of run r wrote everything it had to.
Settled(r) ==
    /\ \A w \in Worker : At(w) # r
    /\ log[r] # << >>
    /\ Last(log[r]).type \in {"run_completed", "run_failed"}

\* The event that ends a run tells completed runs from others, no more.
Replayed(status) == IF status = "cancelled" THEN "failed" ELSE status

\* When the executions of a run come one after the other and the last one ended, the
\* replay of its log gives the statuses in its records (`bpg replay` shows both):
\* after failures, cancellations, retries from the cache, and earlier executions that
\* were cut off.  Of the run's own status it gives what the last event's type tells
\* (events.py:334): a cancelled run is replayed as failed, its nodes as cancelled.
ReplayAgrees ==
    Alone => \A r \in Run : Settled(r) =>
        /\ LET report == ReplayCommand(r) IN report.replayed = Replayed(report.stored)
        /\ \A n \in Node : nodeFile[r][n].status = ReplayNode(log[r], n)

\* One worker at a time never loses the input of a run: a record that can be read
\* is whole, even after a stop in the middle of update_run.  Two may.
InputKept ==
    Alone => \A r \in Run : runFile[r].kind = "record" => runFile[r].whole

\* Nor does it change a run that is recorded completed or cancelled, whoever asks for
\* a step of it, but to prune it.
CompletedIsFinal ==
    [][Alone => \A r \in Run :
          runFile[r].status \in {"completed", "cancelled"}
             => runFile'[r] \in {runFile[r], NoFile("pruned")}]_vars
=============================================================================
