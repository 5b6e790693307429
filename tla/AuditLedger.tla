----------------------------- MODULE AuditLedger -----------------------------
(***************************************************************************)
(* The durable audit ledger: runs whose events reach a Postgres table      *)
(* through the audit sink, one hash chain per run, and the checkpoints,    *)
(* anchors and evidence bundles made of it while runs still append.        *)
(*                                                                         *)
(* A row's hash covers its sequence id, chain, event and previous hash, so *)
(* a sequence id stands for the hash of the row that has it; 0 is the null *)
(* previous_hash of a chain's first row.  Payloads, redaction, signatures  *)
(* and the tracing sink in front of the audit sink are left out.           *)
(***************************************************************************)
EXTENDS Integers, FiniteSets

CONSTANTS
    Runs,              \* runs: each is the id of its chain
    CheckpointChain,   \* chain of the checkpoint events, "__audit_checkpoint__"
    Events,            \* ids of the events the runs emit (uuids)
    RunOf,             \* the run of each event
    FailRun,           \* runs whose audit failure_policy is fail_run, not warn
    IgnoreDuplicates,  \* runs whose duplicate_strategy is ignore, not reject
    LockKeys, LockKey, \* hashtext(chain): two chains may share a lock
    Sessions,          \* database connections: threads and processes of all runs
    Nobody,            \* no session holds the lock
    LocalFile,         \* whether checkpoints are anchored in local files
    MaxEmits,          \* bound: events given to the sink, repetitions included
    MaxCheckpoints     \* bound: checkpoints begun

Chains == Runs \cup {CheckpointChain}

ASSUME LedgerAssumption ==
    /\ CheckpointChain \notin Runs
    /\ RunOf \in [Events -> Runs]
    /\ FailRun \subseteq Runs /\ IgnoreDuplicates \subseteq Runs
    /\ LockKey \in [Chains -> LockKeys]
    /\ Nobody \notin Sessions
    /\ LocalFile \in BOOLEAN
    /\ MaxEmits \in Nat /\ MaxCheckpoints \in Nat
    /\ \A e \in Events : e \notin Nat

VARIABLES
    ledger,       \* committed rows of audit_events
    sequence,     \* last value nextval() gave, of transactions that failed too
    lock,         \* holder of each advisory transaction lock
    tx,           \* what each session is doing
    emitted,      \* events that were given to the sink
    emits,        \* how many times an event was
    passed,       \* events that went on to the sinks behind the audit sink
    aborted,      \* runs a raised AuditSinkFailure ended
    checkpoints,  \* committed rows of audit_chain_checkpoints
    builds,       \* checkpoints begun
    anchors,      \* checkpoint material written to the anchor directory
    bundle        \* the evidence bundle being exported

vars == <<ledger, sequence, lock, tx, emitted, emits, passed, aborted,
          checkpoints, builds, anchors, bundle>>
chainVars == <<ledger, sequence, lock>>
sinkVars  == <<emitted, emits, passed, aborted>>
pointVars == <<checkpoints, builds, anchors>>

(* What a session does.  pc: the transaction of insert_event goes through   *)
(* connected, locked, numbered, linked, inserted; that of create_checkpoint *)
(* through built and anchored.                                              *)
Idle == [pc |-> "idle"]
Append(c, e) == [pc |-> "connected", chain |-> c, event |-> e, seq |-> 0, prev |-> 0]

(* a checkpoint's id names its event *)
EventId == Events \cup Nat
RowsOf(S, c) == {row \in S : row.chain = c}
Recorded(e) == \E row \in ledger : row.event = e

(* order by sequence_id desc limit 1, or base when there is no row *)
HeadOf(S, base) ==
    IF S = {} THEN base
    ELSE CHOOSE n \in {row.seq : row \in S} : \A row \in S : row.seq <= n

Init ==
    /\ ledger = {} /\ sequence = 0
    /\ lock = [k \in LockKeys |-> Nobody]
    /\ tx = [s \in Sessions |-> Idle]
    /\ emitted = {} /\ emits = 0
    /\ passed = {} /\ aborted = {}
    /\ checkpoints = {} /\ builds = 0 /\ anchors = {}
    /\ bundle = [pc |-> "none"]

(***************************************************************************)
(* Appending an event.                                                     *)
(***************************************************************************)

(* A thread of a run emits an event, perhaps one it emitted before.  The    *)
(* other threads of a run that was aborted may still emit.                  *)
Emit(s, e) ==
    /\ tx[s].pc = "idle"
    /\ emits < MaxEmits
    /\ \A t \in Sessions : tx[t].pc \in {"connected", "locked", "numbered", "linked", "inserted"}
                             => tx[t].event # e
    /\ emits' = emits + 1
    /\ emitted' = emitted \cup {e}
    /\ tx' = [tx EXCEPT ![s] = Append(RunOf[e], e)]
    /\ UNCHANGED <<chainVars, passed, aborted, pointVars, bundle>>

\* Mutant: the advisory lock is not waited for.
Free_NoWait(k) == k \in LockKeys

Free(k) == lock[k] = Nobody
(* pg_advisory_xact_lock, held to the end of the transaction *)
Lock(s) ==
    /\ tx[s].pc = "connected"
    /\ Free(LockKey[tx[s].chain])
    /\ lock' = [lock EXCEPT ![LockKey[tx[s].chain]] = s]
    /\ tx' = [tx EXCEPT ![s].pc = "locked"]
    /\ UNCHANGED <<ledger, sequence, sinkVars, pointVars, bundle>>

\* Mutant: the row takes the last value of the sequence, not the next one.
NextVal_Current(s) ==
    /\ tx[s].pc = "locked"
    /\ sequence' = sequence + 1
    /\ tx' = [tx EXCEPT ![s].pc = "numbered", ![s].seq = sequence]
    /\ UNCHANGED <<ledger, lock, sinkVars, pointVars, bundle>>

NextVal(s) ==
    /\ tx[s].pc = "locked"
    /\ sequence' = sequence + 1
    /\ tx' = [tx EXCEPT ![s].pc = "numbered", ![s].seq = sequence + 1]
    /\ UNCHANGED <<ledger, lock, sinkVars, pointVars, bundle>>

\* Mutant: a lock held for the statement only, not for the transaction.
ReadHead_Unlocks(s) ==
    /\ tx[s].pc = "numbered"
    /\ lock' = [lock EXCEPT ![LockKey[tx[s].chain]] = Nobody]
    /\ tx' = [tx EXCEPT ![s].pc = "linked",
                        ![s].prev = HeadOf(RowsOf(ledger, tx[s].chain), 0)]
    /\ UNCHANGED <<ledger, sequence, sinkVars, pointVars, bundle>>

(* READ COMMITTED: the statement sees what was committed before it *)
ReadHead(s) ==
    /\ tx[s].pc = "numbered"
    /\ tx' = [tx EXCEPT ![s].pc = "linked",
                        ![s].prev = HeadOf(RowsOf(ledger, tx[s].chain), 0)]
    /\ UNCHANGED <<chainVars, sinkVars, pointVars, bundle>>

(* The end of a transaction gives the lock back, whatever its outcome. *)
Unlocked(s) == [k \in LockKeys |-> IF lock[k] = s THEN Nobody ELSE lock[k]]

Insert(s) ==
    /\ tx[s].pc = "linked"
    /\ ~ Recorded(tx[s].event)
    /\ tx' = [tx EXCEPT ![s].pc = "inserted"]
    /\ UNCHANGED <<chainVars, sinkVars, pointVars, bundle>>

(* insert_event returned: EventSinkGroup goes on to the next sink *)
Returned(s) ==
    /\ passed' = IF tx[s].chain \in Runs THEN passed \cup {tx[s].event} ELSE passed
    /\ UNCHANGED aborted

\* Mutant: the group swallows the sink's exception whatever the policy.
Raised_Swallowed(s) == Returned(s)

(* insert_event raised: emit raises AuditSinkFailure under fail_run, which  *)
(* the group lets through, and only warns otherwise                         *)
Raised(s) ==
    IF tx[s].chain \in FailRun
    THEN aborted' = aborted \cup {tx[s].chain} /\ UNCHANGED passed
    ELSE Returned(s)

(* The unique index on event_id refuses the row. *)
Duplicate(s) ==
    /\ tx[s].pc = "linked"
    /\ Recorded(tx[s].event)
    /\ lock' = Unlocked(s)
    /\ tx' = [tx EXCEPT ![s] = Idle]
    /\ IF tx[s].chain \in IgnoreDuplicates THEN Returned(s) ELSE Raised(s)
    /\ UNCHANGED <<ledger, sequence, emitted, emits, pointVars, bundle>>

Row(s) == [seq |-> tx[s].seq, chain |-> tx[s].chain,
           event |-> tx[s].event, prev |-> tx[s].prev]

(* The transaction commits; the session may learn of it or lose the         *)
(* connection before it does.                                               *)
Commit(s) ==
    /\ tx[s].pc = "inserted"
    /\ ledger' = ledger \cup {Row(s)}
    /\ lock' = Unlocked(s)
    /\ tx' = [tx EXCEPT ![s] = Idle]
    /\ Returned(s) \/ Raised(s)
    /\ UNCHANGED <<sequence, emitted, emits, pointVars, bundle>>

(* Connecting, a statement or the commit fails: Postgres rolls back all but *)
(* the sequence.                                                            *)
Fail(s) ==
    /\ tx[s].pc \in {"connected", "locked", "numbered", "linked", "inserted"}
    /\ lock' = Unlocked(s)
    /\ tx' = [tx EXCEPT ![s] = Idle]
    /\ Raised(s)
    /\ UNCHANGED <<ledger, sequence, emitted, emits, pointVars, bundle>>

(***************************************************************************)
(* Checkpoints.  No advisory lock is taken.                                *)
(***************************************************************************)

(* _build_checkpoint: the head of one run's chain, or of every chain *)
BuildCheckpoint(s, scope) ==
    /\ tx[s].pc = "idle" /\ builds < MaxCheckpoints
    /\ \E c \in scope : RowsOf(ledger, c) # {}
    /\ builds' = builds + 1
    /\ tx' = [tx EXCEPT ![s] =
                [pc |-> "built",
                 heads |-> [c \in {d \in scope : RowsOf(ledger, d) # {}} |->
                              HeadOf(RowsOf(ledger, c), 0)]]]
    /\ UNCHANGED <<chainVars, sinkVars, checkpoints, anchors, bundle>>

CheckpointRun(s) == \E r \in Runs : BuildCheckpoint(s, {r})
CheckpointGlobal(s) == BuildCheckpoint(s, Chains)

(* anchor_provider.anchor: a file, written before the row is *)
Anchor(s) ==
    /\ tx[s].pc = "built"
    /\ anchors' = IF LocalFile THEN anchors \cup {tx[s].heads} ELSE anchors
    /\ tx' = [tx EXCEPT ![s].pc = "anchored"]
    /\ UNCHANGED <<chainVars, sinkVars, checkpoints, builds, bundle>>

(* Insert and commit the checkpoint, then emit its own event. *)
SaveCheckpoint(s) ==
    /\ tx[s].pc = "anchored"
    /\ \E id \in 1..MaxCheckpoints :
         /\ \A cp \in checkpoints : cp.id < id
         /\ \A n \in 1..(id - 1) : \E cp \in checkpoints : cp.id = n
         /\ checkpoints' = checkpoints \cup
              {[id |-> id, heads |-> tx[s].heads, anchored |-> LocalFile]}
         /\ tx' = [tx EXCEPT ![s] = Append(CheckpointChain, id)]
    /\ UNCHANGED <<chainVars, sinkVars, builds, anchors, bundle>>

AbandonCheckpoint(s) ==
    /\ tx[s].pc \in {"built", "anchored"}
    /\ tx' = [tx EXCEPT ![s] = Idle]
    /\ UNCHANGED <<chainVars, sinkVars, pointVars, bundle>>

(***************************************************************************)
(* Verification and the evidence bundle.                                   *)
(***************************************************************************)

(* verify_audit_chain over rows of one chain, after the head `from` *)
Linked(rows, from) ==
    \A row \in rows : row.seq > from =>
        row.prev = HeadOf({q \in rows : from < q.seq /\ q.seq < row.seq}, from)

ScopedTo(cp, c) == DOMAIN cp.heads = {c}

Verdict(rows, cp, c, requireAnchor) ==
    CASE rows = {} -> "no audit rows"
      [] requireAnchor /\ ~ cp.anchored -> "anchor missing"
      [] Linked(rows, cp.heads[c]) -> "verified"
      [] OTHER -> "mismatch"
Unpointed(c) == [id |-> 0, heads |-> [d \in {c} |-> 0], anchored |-> TRUE]

(* latest_checkpoint: order by checkpoint_id desc limit 1 *)
Latest(c) ==
    LET scoped == {cp \in checkpoints : ScopedTo(cp, c)}
    IN IF scoped = {} THEN Unpointed(c)
       ELSE CHOOSE cp \in scoped : \A other \in scoped : other.id <= cp.id

(* build_audit_export_bundle: four reads, each on its own connection, at    *)
(* any moment; one bundle is enough to see them all                         *)
ExportRows ==
    /\ bundle.pc = "none"
    /\ \E r \in Runs :
         /\ RowsOf(ledger, r) # {}
         /\ bundle' = [pc |-> "rows", run |-> r, rows |-> RowsOf(ledger, r)]
    /\ UNCHANGED <<chainVars, tx, sinkVars, pointVars>>

ExportCheckpoints ==
    /\ bundle.pc = "rows"
    /\ bundle' = [pc |-> "checkpoints", run |-> bundle.run, rows |-> bundle.rows,
                  points |-> {cp \in checkpoints : ScopedTo(cp, bundle.run)}]
    /\ UNCHANGED <<chainVars, tx, sinkVars, pointVars>>

ReadPoint ==
    /\ bundle.pc = "checkpoints"
    /\ \E cp \in {Unpointed(bundle.run), Latest(bundle.run)} :
         bundle' = [pc |-> "point", run |-> bundle.run, rows |-> bundle.rows,
                    points |-> bundle.points, point |-> cp]
    /\ UNCHANGED <<chainVars, tx, sinkVars, pointVars>>

ExportVerdict ==
    /\ bundle.pc = "point"
    /\ \E requireAnchor \in BOOLEAN :
         bundle' = [pc |-> "done", run |-> bundle.run, rows |-> bundle.rows,
                    points |-> bundle.points,
                    verdict |-> Verdict(RowsOf(ledger, bundle.run), bundle.point,
                                        bundle.run, requireAnchor)]
    /\ UNCHANGED <<chainVars, tx, sinkVars, pointVars>>

(***************************************************************************)
(* The specification.                                                      *)
(***************************************************************************)
Export == ExportRows \/ ExportCheckpoints \/ ReadPoint \/ ExportVerdict

SessionStep(s) ==
    \/ \E e \in Events : Emit(s, e)
    \/ Lock(s) \/ NextVal(s) \/ ReadHead(s) \/ Insert(s) \/ Duplicate(s)
    \/ Commit(s) \/ Fail(s)
    \/ CheckpointRun(s) \/ CheckpointGlobal(s) \/ Anchor(s)
    \/ SaveCheckpoint(s) \/ AbandonCheckpoint(s)

Next == Export \/ \E s \in Sessions : SessionStep(s)

Spec == Init /\ [][Next]_vars

(***************************************************************************)
(* Properties.                                                             *)
(***************************************************************************)
Holding == {"locked", "numbered", "linked", "inserted"}
Appending == Holding \cup {"connected"}
Pointing == {"built", "anchored"}
IsHeads(h) == DOMAIN h \subseteq Chains /\ h \in [DOMAIN h -> Nat]
AppendTx == [pc : Appending, chain : Chains, event : EventId, seq : Nat, prev : Nat]
IsPointTx(x) == x = [pc |-> x.pc, heads |-> x.heads] /\ x.pc \in Pointing /\ IsHeads(x.heads)

(* Every variable holds what its declaration says it holds. *)
TypeOK ==
    /\ ledger \subseteq [seq : Nat \ {0}, chain : Chains, event : EventId, prev : Nat]
    /\ sequence \in Nat
    /\ lock \in [LockKeys -> Sessions \cup {Nobody}]
    /\ tx = [s \in Sessions |-> tx[s]]
    /\ \A s \in Sessions : tx[s] = Idle \/ tx[s] \in AppendTx \/ IsPointTx(tx[s])
    /\ emitted \subseteq Events /\ emits \in 0..MaxEmits
    /\ passed \subseteq EventId /\ aborted \subseteq Runs
    /\ \A cp \in checkpoints :
         /\ cp = [id |-> cp.id, heads |-> cp.heads, anchored |-> LocalFile]
         /\ cp.id \in Nat \ {0} /\ IsHeads(cp.heads)
    /\ builds \in 0..MaxCheckpoints
    /\ \A h \in anchors : IsHeads(h)
    /\ bundle.pc \in {"none", "rows", "checkpoints", "point", "done"}

(* Each chain of a ledger nobody tampered with verifies from its first row, *)
(* however many threads and processes append to it.                         *)
ChainsVerify == \A c \in Chains : Linked(RowsOf(ledger, c), 0)

(* So it does from any checkpoint of it, taken while rows were appended,    *)
(* and the checkpoint has its evidence outside the table.                   *)
CheckpointsVerify ==
    \A cp \in checkpoints :
        /\ cp.anchored => cp.heads \in anchors
        /\ \A c \in DOMAIN cp.heads : Linked(RowsOf(ledger, c), cp.heads[c])

(* An exported bundle verifies by itself and from each checkpoint in it,    *)
(* and its verdict, of a later read, never is a mismatch.                   *)
BundlesVerify ==
    bundle.pc = "done" =>
        /\ bundle.verdict # "mismatch"
        /\ \A cp \in bundle.points \cup {Unpointed(bundle.run)} :
             Linked(bundle.rows, cp.heads[bundle.run])

(* Verification never raises a false alarm (postgres.py:417, 842): every    *)
(* way to read the ledger at any moment gives rows that verify.             *)
LedgerVerifies == ChainsVerify /\ CheckpointsVerify /\ BundlesVerify

(* Heads that a checkpoint has, or will have once its transaction ends. *)
PointedHeads == {cp.heads : cp \in checkpoints}
                  \cup {tx[s].heads : s \in {t \in Sessions : tx[t].pc \in Pointing}}
Covered(h, c) == {row \in RowsOf(ledger, c) : row.seq <= h[c]}

(* What a checkpoint covers is final from the moment its head is read       *)
(* (postgres.py:858): no row of the chain commits later with a lower        *)
(* sequence id.                                                             *)
CheckpointCoversPrefix ==
    [][\A h \in PointedHeads : \A c \in DOMAIN h : Covered(h, c)' = Covered(h, c)]_vars

InFlight(e) == \E s \in Sessions : tx[s].pc \in Appending /\ tx[s].event = e

(* Under fail_run (policy.py:46, observability.py:141, postgres.py:641) an  *)
(* event that reached the sinks behind the audit sink is in the ledger, and *)
(* one that never got there has ended its run.                              *)
FailRunRecords ==
    \A e \in Events : RunOf[e] \in FailRun /\ ~ Recorded(e) =>
        /\ e \notin passed
        /\ e \in emitted => InFlight(e) \/ RunOf[e] \in aborted
=============================================================================
