# BPG in TLA+

BPG compiles a business process, written in YAML, to a graph of nodes and edges
and executes it: every node calls a *provider* (an HTTP call, a model, a person),
edges carry conditions, mappings, deadlines and failure routes. This directory
holds TLA+ models of the parts of BPG whose behaviour depends on order,
interleaving, failure and time, the TLC runs that check them, and theorems about
them that TLAPS checks.

## The system

| part | source (under `src/src/bpg` unless said otherwise) | state it keeps | operations | what makes it correct |
|---|---|---|---|---|
| Compiler | `compiler/ir.py`, `validator.py`, `normalize.py` | none | normalise, validate, inline modules, topological sort | the order respects the edges, every reference is typed, no cycle |
| LangGraph runtime | `runtime/langgraph_runtime.py`, `runtime/state.py` | the run state; cancel events and in-flight handles shared between threads; a result cache | `run`, `resume`, `cancel_run`, `node_fn` | only activated nodes work, failures stop the run or reach a handler, a cancel request is never lost, the run ends |
| Orchestrator | `runtime/orchestrator.py`, `engines/local` | running tasks, node statuses | schedule pass, poll pass | as above, with several tasks at a time; nothing left running |
| Engine | `runtime/engine.py`, `runtime/backends.py` | none of its own | `trigger`, `step` | a step repeats no completed work; records say what happened |
| State store | `state/store.py` | process, run and node records, event log, artifacts, interactions: files | create, update, list, prune, save response | records are not lost or mixed; running runs are not pruned |
| Dashboard | `dashboard/server.py` | none | answer an interaction, then step the run | one answer counts |
| Events | `runtime/events.py`, `runtime/observability.py` | event log, spans | convert, replay | replay gives the statuses of the run |
| Audit ledger | `audit/postgres.py`, `policy.py`, `inspection.py` | hash-chained events and checkpoints in PostgreSQL | emit, checkpoint, verify | one chain per run; a checkpoint covers what it says |
| Temporal package | `src/packages/bpg-temporal` | approval state, workflow checkpoints | signal, timeout, node workflow | a decision is made once |
| Planner, apply | `compiler/planner.py`, `patching.py`, `cli.py` | the deployed process | plan, patch, apply | what is deployed is what was planned |
| Expressions | `runtime/expr.py`, `compiler/expr_lint.py` | none | evaluate conditions and mappings | linter and evaluator agree |
| Providers | `providers/*`, `src/packages/bpg-nodes-*` | their own | `invoke`, `poll`, `await_result`, `cancel` | the contract in `providers/base.py` |

Every backend name resolves to the Temporal package's runtime, which executes
the process on the LangGraph runtime in the same Python process; only the `local`
backend uses the orchestrator. The engine calls the backend and writes the records
and the event log when it has returned. The dashboard and the CLI call the engine.

What is hard here: `cancel_run` races with the thread that executes the run;
provider calls block, fail, outlive their deadline and are retried; failures are
routed to nodes whose place in the order was fixed before; a human node suspends
the graph in the middle of a run; the engine can die between execution and
persistence; several processes append to one audit chain; several operators
apply drafts over one stored process; and a record file is empty between the
moment it is opened for writing and the moment it is written.

## Modules

    ProcessIR              the compiled process: records, guarantees of the compiler
      ProcessRun           what a run promises, seen through the node statuses
      LangGraphRuntime     the runtime, its callers and its providers
        MCLangGraphRuntime       small processes for TLC; hosts ProviderChecks
        LangGraphRuntime_proofs  theorems: types, cancellation and handles
          LangGraphRuntimeContract_proofs  theorems: the walk, and ProcessRun implemented
      Orchestrator         the loop of the local backend and its tasks
        MCOrchestrator           small processes for TLC; hosts ExpressionChecks
        Orchestrator_proofs      theorems
      Compiler             validation, inlining, topological sort (uses ProcessIR's Compiled)
        Compiler_proofs          theorems: sorting, flattening, what compilation guarantees
        Deploy                   bpg apply: plan, drift check, deployments, record
          MCDeploy                 process files for TLC
          Deploy_proofs            theorems (extends Compiler_proofs too)
    EngineStore            the engine over the state store, and those who call it
      MCEngineStore            small deployments for TLC; hosts TemporalChecks
      EngineStore_proofs       theorems: the log and the records
        EngineStoreReplay_proofs theorems: replay
    AuditLedger            hash chains, checkpoints, bundles
      MCAuditLedger            two runs, two connections
      AuditLedger_proofs       theorems
    Expressions            conditions, mappings, references, as operators
      ExpressionChecks         what they promise each other, as assumptions
    Providers              every provider of src/src/bpg/providers, as operators
      ProviderChecks           what they promise the runtime, as assumptions
    Temporal               gates, policies, sliced workflows, identifiers, as operators
      TemporalChecks           what they promise, as assumptions

The composition is by what one module guarantees and another assumes:
`Deploy!CompiledForRuntime` says, and `CompileSound` proves, that every definition that
validation accepts compiles into an order that satisfies `ProcessIR!Compiled`, which
`LangGraphRuntime` and `Orchestrator` assume of their processes; `EngineStore` takes of a run what it
does to the store, its execution log and the cached results; `AuditLedger` begins
where an event reaches the audit sink.

### ProcessIR

A process is a record: the topological order, the trigger, the edges (condition or
not, deadline or not, failure action and handler), the human nodes, the nodes with
a deadline of their type, those with a timeout of their own (`limited`, which only
the orchestrator heeds), those with an output for a timeout, the retry policy and
the escalation rules. `Compiled` states what validation guarantees. It does *not*
say that a failure handler is a node of the process, nor that it comes later in
the order: nothing in the compiler checks that.

### LangGraphRuntime

Three parties share the runtime object: the run thread, any number of threads in
`cancel_run`, and the providers.

*The run thread.* `pc` says where it is, `pos` at which node. LangGraph executes
the nodes as one chain, so one node is under way at a time. `EnterNode` is
`node_fn` up to the provider's invocation, one disjunct per way out:
skipped after a failure, cancelled, trigger, no edge fires, mappings conflict,
input invalid, policy blocks, no provider, cached result, scheduled. The attempt
loop has a label for every point between two accesses to what other threads can
touch:

    invoke -> joinInvoke <-> checkInvoke        worker thread in provider.invoke
           -> register -> pollCheck <-> poll -> awaitBlocking     automatic node
           -> register -> checkCancel -> await                    human node
           -> settle                            outcome of the attempt

`AwaitRaises` leaves `await` and `awaitBlocking` by an error of the provider while the
execution goes on; it is beside `RunThread`, so that fairness never forces it.

`Settle` retries, times out (with the fallback output, an escalation or a failure),
fails with its routes, rejects the output or completes. `Finalise`, `Cleanup`,
`Resume` and `ReturnResumed` are `run()` and `resume()` around `graph.invoke`.
`Abort` is an exception that nothing catches: a sink that raises, a reference that
cannot be resolved, a human provider with an unexpected exception.

*Cancellers.* `CancelRun` is what happens under the lock (set the event, read the
handle), `DeliverCancel` the call of `provider.cancel` after it; `cancelling` holds
the handles in between, so any number of calls may overlap.

*Providers.* `task` is the execution behind a handle (a node and the number of the
attempt): being invoked, running, finished. `InvokeReturns` and `ExecutionEnds` happen at
any time. Human providers are invoked by the run thread itself.

*Data.* Payloads are not represented. Whether a condition holds, mappings conflict,
a payload validates, a policy blocks or a cached result exists is a choice of the
action that asks. Time is one flag, `expired`: the deadline of this attempt has
passed; `Expire` sets it at any moment after the deadline was started. The backoff
between attempts has no duration. Providers may fail at every call, `cancel` included, but keep
to the types and promises of `providers/base.py`: `invoke` gives a handle, and
`await_result` without a timeout does not raise a `TimeoutError` for an execution that goes on.

### ProcessRun

The contract of a run for someone who sees only statuses, failure routes, the
run's health and the verdict: nodes are resolved in order and once; a node that is
due (a failure was routed to it, or an unconditional edge from a completed node
leads to it) is not skipped while the run is healthy; a node works only if active;
after a failure or cancellation nothing works; "completed" is reported only if
every failed or timed-out node has a handler that was told. `ImplementsProcessRun`
is the refinement, with the four variables mapped to `nodeStatus`,
`failureRoutes`, `runStatus` and `result`.

### Orchestrator

`run()` of the local backend. `pc` names the pass: `schedule` walks the order with
`cursor`, `poll` visits the tasks of `toPoll`, `decide` is the end of a turn, and
`returned` and `raised` are the two ends. `PassOver`, `Skip`, `FailMapping`,
`FailInput` and `StartNode` are the ways out of `_schedule_if_ready`; `TimeOut`,
`StillRunning`, `Complete` and `Fail` those of the body of the poll loop. `Raise` is
any exception that leaves `run()`. The tasks go on beside the loop: `ExecutionEnds`
and `Expire` happen between any two of its steps. `executing`, `expired` and
`cancelled` belong to the providers and to the clock; the code reads the clock once
per poll pass, which is `due`. A poll pass visits the tasks in any order; the code
takes the order of their start, which allows fewer behaviours.

### EngineStore

A *worker* is a process or a request thread that serves one call at a time:
`Trigger` and `Step` (`engine.py`), `Respond` and `SlackInteraction` (`dashboard/server.py`),
`Cleanup` (`bpg cleanup`). Nothing locks the store, so the steps of a call are its file
operations, and a `Stop` may come between any two:

    create -> load -> execute* -> start -> (append -> record)* -> update -> truncate -> write -> end -> audit

`create_run` and `update_run` open `run.yaml` for writing, which empties it (`"torn"`),
and then write it; `update_run` writes back what it read before. A record is `whole`
if it still has its input: the record of an update that read an empty file has not.
`Merged` is the merge of `save_node_record`, `CachedResults` and `Hits` the cache that
`_execute_run` gives the backend, `Logged` the redaction of an output, `RemoveRuns` the `rmtree` of
retention and pruning. The backend is a chain of nodes: each is answered from the cache
or by a provider call, and may fail, after which the others are skipped, or be cancelled, after
which they are cancelled too (a timeout counts as a failure). Payloads are "clear", "masked" or "empty".
`ReplayNode` and `ReplayRun` are `replay_state_from_events`.

An answer is saved in two steps as well, `OpenResponse` and `WriteResponse`. Between them the file of the
response is empty, also when it held an earlier answer ("torn"), and two requests at a time may
leave a mixture ("mixed"); the step of the run follows in `StepAnswered`.
A store operation that finds its directory gone raises; that is a `Stop`.

### AuditLedger

A *session* is a database connection. `insert_event` is `Emit`, `Lock`, `NextVal`, `ReadHead`,
`Insert` or `Duplicate`, `Commit`; `Fail` rolls back all but the sequence, and `Commit`
may lose its acknowledgement. Advisory locks are taken on a hash of the chain,
so two chains may share one. `create_checkpoint` is `BuildCheckpoint`, `Anchor`,
`SaveCheckpoint`, and takes no lock. `Raised` and `Returned` are what
`EventSinkGroup` makes of the sink's result under `fail_run` and `warn`. A row's hash covers its
sequence id, chain, event and previous hash, so the model names it by its sequence id.
The export of an evidence bundle is four reads at four moments.

### Compiler and Deploy

`Compiler` has no state: `Valid` is `validate_process`, `Flat` the inlining of nested
module instances, `TopologicalSort` Kahn's algorithm as it is written, `Compile` all of
`compile_process`. `Deploy` is `bpg apply` by several operators, one action from a read or
write of the record, or a call of a provider, to the next. `live` is what the providers hold.
Four history variables name what the properties have to except: `touched` (nodes
an unsaved apply has deployed), `strays`, `previous` (what the file last held)
and `tainted` (a save over a record it was not planned against). A node is a stray when it has
artifacts that no record will list again, because it moved to another provider or because the
record that listed it was lost, or when the record keeps an entry for it whose provider it
no longer has, because the new one is not registered (`if provider_cls:` skips both the
deployment and the entry).

Three things are abstracted there. A record that is written in part is seen as an empty one. The check of the
artifacts' checksums after the drift check (`cli.py:1695`) is left out: every save computes the checksums
it stores, so it refuses only what something else wrote. And of the fields of a
configuration the model has whether they are required, not their types; names that the new definition
drops are not compared, as in the code.

### Expressions, Providers, Temporal

Pure code, as operators, one per function. The modules of checks state what they promise, over
every short input, as assumptions that TLC evaluates at the start of a run:

| checks | evaluated in | what |
|---|---|---|
| `ExpressionChecks` | `orchestrator_*` | the linter accepts the documented grammar and nothing else (all sequences of up to 5 tokens of 11, all derivations of 6); linter and evaluator agree; conditions mean what their trees mean, without short circuit; accepted references resolve; merging mappings does not depend on the order |
| `ProviderChecks` | `runtime_*` | typed errors; a completed handle keeps its output, a cancelled one gives none; timers; chunks cover the text; upserts are idempotent; search returns the best; rows follow the ids; mails and Slack messages are counted; polling and waiting agree; models' answers conform |
| `TemporalChecks` | `engine_*` | the first answer to a gate wins, whatever arrives with it; no signal is dropped silently; policies; a workflow cut into slices, in line or spilled, ends like one in one piece; events carry the run |

## Runs

| run | question | result |
|---|---|---|
| `runtime_safety` | types; `NoLostCancel`, `InflightIsCurrent`, `GivenUpIsCancelled`; `OnlyActiveNodesRun`, `CancelWins`, `HaltedStaysHalted`; `EventsTellStatus`; the refinement | hold |
| `runtime_liveness` | does `run()` return | holds, under the premises each property names |
| `runtime_cancelled_handle` | is a cancelled handle never polled (`providers/base.py:260`) | violated: `cancel_run` between the check and the poll |
| `runtime_suspended_completed` | has a run reported completed executed all nodes (`langgraph_runtime.py:1341`) | violated: `interrupt()` |
| `runtime_unreached_handler` | does a routed failure reach a handler (`models/schema.py:325`) | violated: a handler without incoming edges has already been skipped |
| `orchestrator_safety` | types; `SourcesFirst`, `BooksAgree`, `CompletedMeansDone`, `NoOrphans`; `LoopEnds` | hold |
| `orchestrator_after_failure` | does nothing start once the run has failed, as on the LangGraph runtime (`engines/local/backend.py:14`) | violated: the rest of the schedule pass goes on |
| `engine_safety` | types; `LogIsAhead`, `ReplaySkipsCompleted`, `ReplayAgrees`, `InputKept`, `CompletedIsFinal` | hold |
| `engine_redacted_replay` | does a replay call a provider only with the key it used before (`engine.py:126`) | violated: the cache of a redacted node holds the masked output |
| `audit_safety` | types; `LedgerVerifies`, `CheckpointCoversPrefix`, `FailRunRecords` | hold |
| `deploy_safety` | types; `CompiledForRuntime`, `RecordIsLive`, `PublishedStays` | hold |
| `deploy_mapping_change` | is a draft deployed of which apply says that nothing changed (`planner.py:122`) | violated: the mapping is not part of an edge's identity |

*Bounds.* The runtime: nodes `t` (trigger), `a`, `b`, `h`; up to two attempts per node; one
run of one process. The processes (`MCLangGraphRuntime`): a failure routed to a later node
with and without a deadline, two edges into one node with all combinations of
forced failure and escalation, a human approval with and without a deadline, a
handler that precedes the failing node, and a process in which every node has a
deadline. Chains of three and four nodes are enough for a node before, at and after
the one that fails, is cancelled or suspends; the nodes are executed one at a time,
so more nodes add only more of the same steps. Two attempts are enough for an
attempt to inherit something from an earlier one.

The engine: one worker with two runs and retention, with two nodes, artifacts and
redaction, or with an approval; two workers with one run of two nodes, or
with an approval; two executions of a run, which is what it takes to replay one
(`MaxExecutions` counts them in the log, so that a call that stopped before it logged
anything comes on top). That is 1.5 million states. The proofs cover any number of each.

`CompletedIsFinal`, `InputKept` and `ReplayAgrees` are stated for calls that come one after the other
(one worker): with two workers on one run a late writer does overwrite what the other one has stored, and
the code has nothing against it. `LogIsAhead` and `ReplaySkipsCompleted` hold for any number of workers.
`ReplayAgrees` covers cancelled runs with the status that the code gives them: the event that
ends a run is `run_completed` or `run_failed`, so a cancelled run is replayed as failed
(`Replayed`), and its nodes as cancelled. About the answers to an interaction no property is
checked, since what `slack_interactive.py:254` says of them ("durable even if the resume
fails and must be retried") is not so once there are two answers (see "What was noticed").

The ledger: a `fail_run` run with two events, a `warn` run with one, two connections,
two emissions, repetitions included, and two checkpoints. The `warn` chain and the chain of the checkpoints share
a lock. Two connections suffice because the properties relate two
transactions, or a transaction and a reader; the proofs cover any number.

Deploy: two operators, one with six files that validation accepts and four that it refuses, the other
one with the file that has the most in common with them, two registered providers and one that is not, and records of up to two versions,
which covers every first apply and every
change of one definition into another. The proofs cover any files, operators, providers and
versions. Nobody confirms a plan after a save that raced
(`tainted`): what follows it is outside of what the properties promise.

The orchestrator's processes (`MCOrchestrator`) have up to four nodes: two branches
that meet in a node, with a deadline on one or on both, a chain with a node that
nothing leads to (which the orchestrator runs, and the LangGraph runtime skips),
and two branches whose trigger has a deadline itself. Two branches are what it takes
for a task to end, fail or expire while another one is polled or started.

*Fairness.* The runtime's `FairSpec` assumes that the run thread is scheduled, that time passes
and that `provider.cancel` returns. `RunThread` excludes `Abort`, so that fairness
never forces an exception. Nothing is assumed of executions, of callers of
`cancel_run` and `resume`, or of invocations in the worker thread; what a
liveness property needs of them it states as its premise: `TimedRunsEnd` needs nothing
(every node has a deadline), `RunsEnd` that invocations and executions end,
`CancelledRunsEnd` that cancelled executions end. Scheduling the run thread includes
that `poll`, and `invoke` of a human provider, return: the runtime calls them
on its own thread without a bound. The liveness run excludes the failing sink, which
only ends runs earlier. The orchestrator's `FairSpec` assumes that its loop is
scheduled and that time passes; `LoopEnds` states as its premise that executions
without a deadline end. The other modules state no liveness: the engine, apply and the sink may
be stopped at any moment, and nothing in the code takes their work up again. Their runs
do not check for deadlocks where everything may come to rest (engine and ledger, when
their bounds are used up).

## Theorems

`LangGraphRuntime_proofs` proves, for every set of compiled processes, every bound
on the attempts and both settings of the flags:

- `TypeCorrect`: `Spec => []TypeOK`. One lemma for what resolving a node does
  (`ResolveType`) and one for the frame of an attempt (`AttemptType`) carry the
  37 actions.
- `HandoverCorrect`: `Spec => []HandoverInv`, the inductive invariant behind the
  next three. `NoLostCancel` is not inductive: when the run thread blocks in
  `await_`, whether a request was delivered depends on what `cancel_run` found
  in the table when it set the event. `HandoverInv` adds that the table holds the
  current handle exactly while the run thread is past `register`, and that a request
  made after the check of the event, already at `poll`, is on its way to this handle.
- `CancelNeverLost`, `InflightCorrect`, `NothingAbandoned`: the three safety
  properties of the run, from `HandoverInv`.

`LangGraphRuntimeContract_proofs` proves in the same generality what the walk over the
nodes gives, and that the runtime implements `ProcessRun`:

- `WalkCorrect`: `Spec => []WalkInv`. `OrderInv` (a node has a status exactly when
  the walk is past it) and `FiringInv` (the edges kept in `firing` come from completed nodes
  and lead to the current one, also over a suspension and `resume`) are what makes the others
  inductive: a provider is invoked long after the edges were evaluated, so
  `OnlyActiveNodesRun` alone says nothing about the node being executed. `HealthInv`
  keeps the handler that each failure was handed to while the run goes on; `CancelInv`
  says where the run thread may be once a request was made at `cancelPos`: past that
  node it executes nothing, and past the next one the run has stopped. `StepKinds`
  divides the steps, and `ResolvesHow` says what the 14 ways of resolving a node share.
- `OnlyActiveNodesRunCorrect`, `CancelWinsCorrect`, `EventsTellStatusCorrect` and
  `HaltedStaysHaltedCorrect` follow from it.
- `Implementation`: `Spec => ImplementsProcessRun`. Every way of resolving a node is a
  `Pass`, `Succeed` or `Break` of the contract, `Finalise` and `ReturnResumed` are its `Report`,
  `Resume` its `Reopen`, and all other steps stutter.

`Orchestrator_proofs` proves for every set of compiled processes:

- `OrchestratorTypeCorrect`, `BooksCorrect`, `SourcesCorrect`, `NoExecutionOrphaned`:
  each of these invariants is inductive relative to the ones before it. `StepKinds`
  divides the steps into those that resolve the current node, start it, end a task or
  leave the books alone, so that every proof has four cases.
- `VerdictCorrect` and `CompletedCorrect`: a run is reported completed exactly when
  every node was completed or skipped. The loop leaves silently when a turn has
  changed nothing and no task is in flight; that this never leaves a node pending
  is `NothingPassedOver`: in such a turn no node behind the cursor is pending, since
  its sources come before it in the order and are therefore resolved.

`AuditLedger_proofs` proves, for any number of runs, chains, events, connections and locks
(two chains may hash to one lock) and for all bounds:

- `LedgerInvariant`: the inductive invariant. That a chain links is not inductive: what matters is
  that no two transactions of a chain are past `Lock` at a time, and that the one that has
  drawn a sequence id commits before the next one draws its own. So the invariant
  ties the lock to its holder, the sequence id of a transaction to the value of the sequence
  (above every committed row of its chain), and its previous hash to the
  head of its chain.
- `VerificationIsSound`, `CheckpointsAreFinal` and `FailRunIsHonoured` are the properties
  of the run; `CheckpointInvariant` and `BundleInvariant` what they need of
  heads that were read earlier: a head is a committed row, and whatever commits later has a higher id.
- `AuditTypeCorrect`: types.

`EngineStore_proofs` proves, for any set of deployments, any number of workers and runs, and
any number of executions:

- `EngineInvariant`: the inductive invariant. `ProgressInv` says what a worker has in
  memory at each step of its call (before the end of the backend: one completed entry for
  every node it is past; after it: entries that explain the verdict). `WrittenInv` ties
  that to the disk: unless the run's directory was removed, the entries up to where the
  worker is are in the log and, from `update` on, the artifacts are there. Without it
  `LogIsAhead` is not inductive: whether `save_node_record` and `update_run` are covered by
  the log depends on what the same worker appended before. `StoreFrame` is why it
  survives the other workers: a step either keeps the log and the artifacts of a run or
  removes the run, and a removed run never comes back. `SoleInv` is about a worker that serves alone:
  from `load` to `truncate` the record it works on is there, whole and neither completed nor
  cancelled, and while it is open for writing the worker has what it read.
- `LogIsAheadCorrect`, `InputKeptCorrect` and `CompletedIsFinalCorrect`: the properties of the
  run. `EngineTypeCorrect`: types.

`EngineStoreReplay_proofs` adds what `bpg replay` and the cache promise:

- `ReplayInvariant`: the inductive invariant, on top of `EngineInvariant`. `ReplayAgrees` compares
  two folds, one over the event log and one over the node records; what is inductive is
  that they agree node by node. `Agrees` says that the last event of a node has the status of its
  record, or that there is neither. Between `append` and `record` they differ for one
  node, so `Telling` says for each step of a call how far a worker that serves alone has come. `KnownInv`
  follows the input of a run through the cache: what was computed from it, and only that, is in
  the records and in the memory of every worker, so that a replay computes the same keys. It
  holds for any number of workers.
- `ReplayAgreesCorrect` and `ReplaySkipsCompletedCorrect`: the two properties of the run.

`Compiler_proofs` proves the compiler right, for any alphabet of names and any definition:

- `SortCorrect`: Kahn's algorithm orders every node of an acyclic graph, once and after the
  sources of its edges. `Sorting` is the invariant of its loop: queue and order hold different nodes,
  and a node is in one of them exactly when all its incoming edges come from the order;
  parallel edges, which the code counts one by one, are what makes `Freed` delicate.
- `CompileSound`: what `Valid` accepts and `Compilable` lets start compiles into a process that
  satisfies `ProcessIR!Compiled`, and what a mapping reads is a node, but for the one case
  that the code leaves wrong (`Unrenamed`: an edge of the process from one module instance into
  another). The invariant of flattening is `Level`: after `k` rounds the nodes are
  distinct and the instances that are left are all of depth `k + 1`; edges end in nodes, or
  around an instance of the next round; the graph is acyclic when the entrance and the exit of
  an instance are taken for the instance (a cycle would stay inside one instance, where
  validation has ruled it out); human nodes keep their timeouts; and the modules that may
  still be instantiated have become fewer, so that as many rounds as there are
  modules leave no instance (`LeftOver`, `FlatLevel`).
- Below them, `Induction` says that a set of naturals that contains 0, and with each number the
  next one, contains all of them (from `LeastElement`); `SelectRange` and `FlattenRange` say what
  selecting from and concatenating sequences gives, `NormalizeFits` that a normalised definition
  is as valid as the definition, `FlatPlain` that flattening leaves a process
  without module instances as it is, and `FlatModules` that it leaves any other one
  with a node inside of an instance.

The proof changed the model where it was wrong: a node type with the name of a
module comes first at the top level, but the module does inside of a module (`IsInstance`); and
`compile_process` needs a trigger among the nodes (`Compilable`).

`Deploy_proofs` proves, for any number of operators, providers and versions and any process files:

- `DeployInvariant`: the inductive invariant. `RecordIsLive` speaks of the record; what has to
  be kept is that a command which is about to replace it is on its way to a state in which it
  holds again. So `Kept` says, node by node, that the deployments a command has noted and what the
  providers hold are those of its draft for a node that is done, and those of the record it
  started from for one that is in `todo`. This is only so for a command that nobody
  has overtaken: `RaceInv` says that whoever is past the drift check while another one
  writes knows that it is late, `PlanInv` that a command which is not late was planned against the
  record that is there, and `LostInv` that where a record was lost, so was the trace of what it listed.
- `RecordIsLiveCorrect`, `PublishedStaysCorrect`, `CompiledForRuntimeCorrect` and
  `DeployTypeCorrect`: the properties of the run.
- `ModulesStayOutCorrect`: a process with module instances is never stored. On the first apply the
  instance itself is looked up and not found to be a node, later a node inside of it is
  not, and either ends the command before it saves.
- `UndeployFindsCorrect`: the look-up of a removed node, in the definition the plan was
  made against, never fails. `Missing` has no counterpart for it, and needs none.

The attempt to prove `RecordIsLive` in an earlier form failed for good reasons. It is false when a node changes to a
provider that is not registered (its old entry stays in the record), and when a
node that moved between providers is removed (only the last one takes its artifacts away).
Both are what the code does; they are part of `strays` now.

The proofs rest on the assumptions in the modules: the processes are compiled
(`ProcessesAssumption`), `NoHandle` and `NoNode` are not handles and nodes, the
deployments are what `DeploymentsAssumption` says (the order lists each node once), no run or
node is called as the mark for no value (`NamesAssumption`), the constants of the ledger fit together
(`LedgerAssumption`), process files have the sections that parsing gives them, over
names of the alphabet (`DraftAssumption`, `AlphabetAssumption`), and no operator is
called as the mark for a command that has ended (`OperatorAssumption`). The alphabet lists no
name twice and has neither `__input__` nor the two marks, which the code uses
for itself and refuses nowhere: of process files that use them, or names which collide when the
code joins them with `__`, nothing is shown.

*Only model-checked*: all liveness properties, which need fairness and `ENABLED`; and
the checks of operators, whose recursion the provers cannot reach.

## What was noticed

Six runs end in a violation: each is a disagreement of the code with a sentence of the repository, and
`PROJECT.json` quotes it under "findings". Besides, the models contain these facts of the
code, which no document contradicts:

- A process with module instances can never be applied: `apply` looks the expanded nodes up in
  the process (`cli.py:1710`) and ends with a `KeyError`. It is `Missing` in `Deploy`, and
  `ModulesStayOutCorrect` is the proof.
- A node that changes its provider leaves its artifacts with the old one: `apply` deploys it anew and
  calls no `undeploy`. If the new provider is not registered the record keeps the old entry.
- The configurations of nodes inside modules are not validated; a module without
  outputs has an exit that nothing leads to; an inner node that nothing leads to runs as a root.
- A trigger called `__input__` passes `validate_process`, whose check of the trigger takes the
  process for a module, and ends `compile_process` in a `KeyError` (`headless` in `MCDeploy`).
- The names of flat nodes are joined with `__` and nothing refuses a collision: a node `m__n`
  beside an instance `m` of a module with a node `n` takes its place. In the models names are paths.
- Mappings of edges of the process into a module instance that read another instance keep its
  name, which is no node any more. Mappings inside of modules do not.
- A second answer to an interaction empties the file of the first one and replaces it. A stop in
  between leaves no answer, although the inbox still shows "responded"
  (`list_interactions` asks whether the file is there); two requests at a time may mix their answers.
- `bpg replay` reports a cancelled run as failed.
- The audit policy `warn` lets a run go on without the event; nothing marks the gap.
- The latest checkpoint by id may cover less than an earlier one: heads are
  read before ids are drawn.
- The hash of an audit row covers a rendering of its timestamp that depends on the session's
  time zone; the model has no time zones.
- Conditions have no short circuit: a `when` that asks whether a node ran still fails on the
  path of one that did not.
- Asynchronous webhooks never end: `poll_url` and `cancel_url` of the configuration do not reach the handle.
- A mail or a Slack message is sent again when the connection breaks after the server took it:
  the error is retryable.
- Two upserts into one store file at a time lose items; providers keep no lock either.
- A gate that is escalated is resolved: it takes no approval afterwards, and
  `escalation_actor_ids` are not used.
- Checkpoints of a node workflow kept in line share nested values with the running state.

## Not modelled

In the runtime: conditions, mappings, types and redaction (choices, or left out; conditions and
mappings are in `Expressions`); the audit fields of the returned state; the interval between polls
and the length of a backoff; several runs on one runtime object (they share only tables keyed by run).

In the engine: a write of a node record, an append to the log and an `rmtree` are one step each;
only `run.yaml` and `response.yaml` are seen between truncation and write, because update,
pruning and answers race on the one and a second answer on the other. Formats of artifacts, exports and the dashboard's pages only render the store.

In the ledger: signatures, payload retention, redaction, and tampering (verification
is shown to raise no false alarm; that it raises a true one is the hash function's doing).

In the compiler: field types, built-in types, artifact declarations, failure handlers.
Patching of process files, packaging, scaffolding, the SDK and the other commands of the command line
generate or print text around the components above. The spans and exporters of
`observability.py` have no state that a run depends on. The Temporal package runs a
process on `LangGraphRuntime` in the same Python process; there is no Temporal
server whose crashes could be modelled. The copies of providers in `src/packages` repeat those
in `src/src/bpg/providers`.
