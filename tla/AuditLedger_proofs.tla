------------------------- MODULE AuditLedger_proofs -------------------------
(***************************************************************************)
(* Proofs about AuditLedger, for any number of runs, events, connections   *)
(* and checkpoints, and any assignment of chains to lock keys.             *)
(***************************************************************************)
EXTENDS AuditLedger, TLAPS

-----------------------------------------------------------------------------
(* The inductive invariant.                                                *)

\* n is the sequence id of the last row of S, or base when there is no row.
IsHead(n, S, base) ==
    IF S = {} THEN n = base
    ELSE (\E row \in S : row.seq = n) /\ (\A row \in S : row.seq <= n)

Before(row) == {q \in RowsOf(ledger, row.chain) : q.seq < row.seq}

\* A transaction past the lock holds it; one that has drawn its sequence id has drawn
\* it after every committed row of its chain, and has read the chain's head.
LockInv ==
    \A s \in Sessions :
        /\ tx[s].pc \in Holding => lock[LockKey[tx[s].chain]] = s
        /\ tx[s].pc \in Holding \ {"locked"} =>
              /\ tx[s].seq \in 1..sequence
              /\ \A row \in RowsOf(ledger, tx[s].chain) : row.seq < tx[s].seq
        /\ tx[s].pc \in {"linked", "inserted"} =>
              IsHead(tx[s].prev, RowsOf(ledger, tx[s].chain), 0)

\* Every chain that has rows has a last one, and every row links to the one before it.
LedgerInv ==
    /\ \A row \in ledger : row.seq <= sequence
    /\ \A c \in Chains : \E n \in Nat : IsHead(n, RowsOf(ledger, c), 0)
    /\ \A row \in ledger : IsHead(row.prev, Before(row), 0)

\* Heads are those of rows that are committed.
ArePoints(h) == \A c \in DOMAIN h : \E row \in RowsOf(ledger, c) : row.seq = h[c]

LatestExists(S) == S # {} => \E cp \in S : \A other \in S : other.id <= cp.id

CheckpointInv ==
    /\ \A h \in PointedHeads : ArePoints(h)
    /\ \A s \in Sessions : tx[s].pc = "anchored" /\ LocalFile => tx[s].heads \in anchors
    /\ \A cp \in checkpoints : cp.anchored => cp.heads \in anchors
    /\ \A c \in Chains : LatestExists({cp \in checkpoints : ScopedTo(cp, c)})

IsPoint(cp, c) == cp = Unpointed(c) \/ (cp \in checkpoints /\ ScopedTo(cp, c))

\* The rows of the bundle are the first of their chain, its checkpoints were saved.
BundleInv ==
    bundle.pc # "none" =>
        /\ bundle.run \in Runs
        /\ bundle.rows \subseteq RowsOf(ledger, bundle.run)
        /\ \A row \in RowsOf(ledger, bundle.run) \ bundle.rows :
              \A q \in bundle.rows : q.seq < row.seq
        /\ bundle.pc \in {"checkpoints", "point", "done"} =>
              \A cp \in bundle.points : IsPoint(cp, bundle.run)
        /\ bundle.pc = "point" => IsPoint(bundle.point, bundle.run)
        /\ bundle.pc = "done" => bundle.verdict # "mismatch"

\* An event is appended to the chain of its run.
OwnChain ==
    \A s \in Sessions : tx[s].pc \in Appending /\ tx[s].event \in Events
                           => tx[s].chain = RunOf[tx[s].event]

-----------------------------------------------------------------------------
(* Types.                                                                  *)

\* What a session's record is, from its program counter.
LEMMA Shapes ==
    ASSUME TypeOK, NEW s \in Sessions
    PROVE  /\ tx[s].pc \in Appending => tx[s] \in AppendTx
           /\ tx[s].pc \in Pointing => IsPointTx(tx[s])
           /\ tx[s].pc \in Appending \cup Pointing \cup {"idle"}
           /\ tx[s].pc = "idle" => tx[s] = Idle
  BY DEF TypeOK, AppendTx, IsPointTx, Idle, Appending, Holding, Pointing

\* HeadOf computes the head.
LEMMA HeadIs ==
    ASSUME NEW S, \A row \in S : row.seq \in Nat, NEW base, NEW n, IsHead(n, S, base)
    PROVE  HeadOf(S, base) = n
  <1> SUFFICES ASSUME S # {} PROVE HeadOf(S, base) = n
    BY DEF IsHead, HeadOf
  <1> DEFINE M == {m \in {row.seq : row \in S} : \A row \in S : row.seq <= m}
  <1>1. n \in M
    BY DEF IsHead
  <1>2. \A m \in M : m = n
    BY DEF IsHead
  <1> QED  BY <1>1, <1>2 DEF HeadOf

\* A row that is about to be committed has the type of a row.
LEMMA RowType ==
    ASSUME TypeOK, NEW s \in Sessions, tx[s].pc = "inserted", tx[s].seq # 0
    PROVE  Row(s) \in [seq : Nat \ {0}, chain : Chains, event : EventId, prev : Nat]
  <1>1. tx[s] \in AppendTx
    BY Shapes DEF Appending, Holding
  <1> QED  BY <1>1 DEF Row, AppendTx

LEMMA InitType == ASSUME LedgerAssumption, Init PROVE TypeOK
  BY DEF LedgerAssumption, Init, TypeOK, Idle

LEMMA TypeStep ==
    ASSUME LedgerAssumption, TypeOK, LedgerInv, LockInv, [Next]_vars
    PROVE  TypeOK'
  <1> USE LedgerAssumption DEF Appending, Holding
  <1>1. CASE UNCHANGED vars
    BY <1>1 DEF TypeOK, vars, AppendTx, IsPointTx, IsHeads
  <1>2. CASE Export
    BY <1>2 DEF Export, ExportRows, ExportCheckpoints, ReadPoint, ExportVerdict, TypeOK,
                chainVars, sinkVars, pointVars
  <1>3. ASSUME NEW s \in Sessions, NEW e \in Events, Emit(s, e) PROVE TypeOK'
    <2>1. Append(RunOf[e], e) \in AppendTx
      BY DEF Append, AppendTx, Chains, EventId, LedgerAssumption
    <2> QED  BY <1>3, <2>1 DEF Emit, TypeOK, chainVars, pointVars
  <1>4. ASSUME NEW s \in Sessions, Lock(s) PROVE TypeOK'
    <2>1. tx[s] \in AppendTx
      BY <1>4, Shapes DEF Lock
    <2>2. tx'[s] \in AppendTx
      BY <1>4, <2>1 DEF Lock, AppendTx, TypeOK
    <2> QED  BY <1>4, <2>2 DEF Lock, TypeOK, sinkVars, pointVars
  <1>5. ASSUME NEW s \in Sessions, NextVal(s) PROVE TypeOK'
    <2>1. tx[s] \in AppendTx
      BY <1>5, Shapes DEF NextVal
    <2>2. tx'[s] \in AppendTx
      BY <1>5, <2>1 DEF NextVal, AppendTx, TypeOK
    <2>3. /\ sequence' \in Nat /\ tx' = [t \in Sessions |-> tx'[t]]
          /\ \A t \in Sessions \ {s} : tx'[t] = tx[t]
      BY <1>5 DEF NextVal, TypeOK
    <2>4. UNCHANGED <<ledger, lock, sinkVars, pointVars, bundle>>
      BY <1>5 DEF NextVal
    <2> QED  BY <2>2, <2>3, <2>4 DEF TypeOK, sinkVars, pointVars
  <1>6. ASSUME NEW s \in Sessions, ReadHead(s) PROVE TypeOK'
    <2>1. tx[s] \in AppendTx
      BY <1>6, Shapes DEF ReadHead
    <2>2. PICK n \in Nat : IsHead(n, RowsOf(ledger, tx[s].chain), 0)
      BY <2>1 DEF AppendTx, LedgerInv
    <2>3. HeadOf(RowsOf(ledger, tx[s].chain), 0) = n
      BY <2>2, HeadIs DEF TypeOK, RowsOf
    <2>4. tx'[s] \in AppendTx
      BY <1>6, <2>1, <2>3 DEF ReadHead, AppendTx, TypeOK
    <2> QED  BY <1>6, <2>4 DEF ReadHead, TypeOK, sinkVars, chainVars, pointVars
  <1>7. ASSUME NEW s \in Sessions, Insert(s) PROVE TypeOK'
    <2>1. tx[s] \in AppendTx
      BY <1>7, Shapes DEF Insert
    <2>2. tx'[s] \in AppendTx
      BY <1>7, <2>1 DEF Insert, AppendTx, TypeOK
    <2> QED  BY <1>7, <2>2 DEF Insert, TypeOK, sinkVars, chainVars, pointVars
  <1>8. ASSUME NEW s \in Sessions, Duplicate(s) \/ Fail(s) \/ Commit(s) PROVE TypeOK'
    <2>1. tx[s] \in AppendTx
      BY <1>8, Shapes DEF Duplicate, Fail, Commit
    <2>2. Unlocked(s) \in [LockKeys -> Sessions \cup {Nobody}]
      BY DEF Unlocked, TypeOK
    <2>3. Returned(s) \/ Raised(s) => passed' \subseteq EventId /\ aborted' \subseteq Runs
      BY <2>1 DEF Returned, Raised, AppendTx, TypeOK, LedgerAssumption
    <2>4. passed' \subseteq EventId /\ aborted' \subseteq Runs
      BY <1>8, <2>3 DEF Duplicate, Fail, Commit
    <2>5. ledger' \subseteq [seq : Nat \ {0}, chain : Chains, event : EventId, prev : Nat]
      <3>1. CASE Commit(s)
        <4>1. tx[s].seq # 0
          BY <3>1 DEF Commit, LockInv, TypeOK
        <4> QED  BY <3>1, <4>1, RowType DEF Commit, TypeOK
      <3> QED  BY <1>8, <3>1 DEF Duplicate, Fail, TypeOK
    <2> QED
      BY <1>8, <2>2, <2>4, <2>5 DEF Duplicate, Fail, Commit, TypeOK, pointVars
  <1>9. ASSUME NEW s \in Sessions, NEW scope \in SUBSET Chains, BuildCheckpoint(s, scope)
        PROVE  TypeOK'
    <2> DEFINE heads == [c \in {d \in scope : RowsOf(ledger, d) # {}} |->
                            HeadOf(RowsOf(ledger, c), 0)]
    <2>1. ASSUME NEW c \in Chains PROVE HeadOf(RowsOf(ledger, c), 0) \in Nat
      <3>1. PICK n \in Nat : IsHead(n, RowsOf(ledger, c), 0)
        BY DEF LedgerInv
      <3> QED  BY <3>1, HeadIs DEF TypeOK, RowsOf
    <2>2. IsHeads(heads)
      BY <2>1 DEF IsHeads
    <2>3. IsPointTx([pc |-> "built", heads |-> heads])
      BY <2>2 DEF IsPointTx, Pointing
    <2>4. builds' \in 0..MaxCheckpoints
      BY <1>9 DEF BuildCheckpoint, TypeOK
    <2>5. tx' = [tx EXCEPT ![s] = [pc |-> "built", heads |-> heads]]
      BY <1>9 DEF BuildCheckpoint
    <2> HIDE DEF heads
    <2> QED  BY <1>9, <2>3, <2>4, <2>5 DEF BuildCheckpoint, TypeOK, chainVars, sinkVars
  <1>10. ASSUME NEW s \in Sessions, Anchor(s) PROVE TypeOK'
    <2>1. IsPointTx(tx[s])
      BY <1>10, Shapes DEF Anchor, Pointing
    <2>2. IsPointTx(tx'[s])
      BY <1>10, <2>1 DEF Anchor, IsPointTx, Pointing, TypeOK
    <2> QED  BY <1>10, <2>1, <2>2 DEF Anchor, TypeOK, IsPointTx, sinkVars, chainVars
  <1>11. ASSUME NEW s \in Sessions, SaveCheckpoint(s) PROVE TypeOK'
    <2>1. IsPointTx(tx[s])
      BY <1>11, Shapes DEF SaveCheckpoint, Pointing
    <2>2. \A id \in Nat : Append(CheckpointChain, id) \in AppendTx
      BY DEF Append, AppendTx, Chains, EventId
    <2>3. PICK id \in 1..MaxCheckpoints :
            /\ checkpoints' = checkpoints \cup
                 {[id |-> id, heads |-> tx[s].heads, anchored |-> LocalFile]}
            /\ tx' = [tx EXCEPT ![s] = Append(CheckpointChain, id)]
      BY <1>11 DEF SaveCheckpoint
    <2> QED  BY <1>11, <2>1, <2>2, <2>3 DEF SaveCheckpoint, TypeOK, IsPointTx, sinkVars, chainVars
  <1>12. ASSUME NEW s \in Sessions, AbandonCheckpoint(s) PROVE TypeOK'
    BY <1>12 DEF AbandonCheckpoint, TypeOK, sinkVars, chainVars, pointVars
  <1> QED
    BY <1>1, <1>2, <1>3, <1>4, <1>5, <1>6, <1>7, <1>8, <1>9, <1>10, <1>11, <1>12
    DEF Next, SessionStep, CheckpointRun, CheckpointGlobal, Chains

-----------------------------------------------------------------------------
(* Steps.                                                                  *)

\* A session's step leaves the other sessions alone, and gives the lock only from
\* nobody to itself and from itself to nobody.
LEMMA Frame ==
    ASSUME LedgerAssumption, TypeOK, NEW s \in Sessions, SessionStep(s)
    PROVE  /\ \A t \in Sessions \ {s} : tx'[t] = tx[t]
           /\ \A k \in LockKeys : lock[k] \in Sessions \ {s} => lock'[k] = lock[k]
           /\ sequence' \in {sequence, sequence + 1}
           /\ UNCHANGED bundle
  <1>1. \A t \in Sessions \ {s} : tx'[t] = tx[t]
    BY DEF TypeOK, SessionStep, Emit, Lock, NextVal, ReadHead, Insert, Duplicate, Commit, Fail,
           CheckpointRun, CheckpointGlobal, BuildCheckpoint, Anchor, SaveCheckpoint,
           AbandonCheckpoint
  <1>2. \A k \in LockKeys : lock[k] \in Sessions \ {s} => lock'[k] = lock[k]
    BY DEF LedgerAssumption, TypeOK, SessionStep, Emit, Lock, Free, NextVal, ReadHead, Insert,
           Duplicate, Commit, Fail, CheckpointRun, CheckpointGlobal, BuildCheckpoint, Anchor,
           SaveCheckpoint, AbandonCheckpoint, Unlocked, chainVars
  <1>3. sequence' \in {sequence, sequence + 1} /\ UNCHANGED bundle
    BY DEF SessionStep, Emit, Lock, NextVal, ReadHead, Insert,
           Duplicate, Commit, Fail, CheckpointRun, CheckpointGlobal, BuildCheckpoint, Anchor,
           SaveCheckpoint, AbandonCheckpoint, chainVars
  <1> QED  BY <1>1, <1>2, <1>3

\* Only a commit changes the ledger: it adds a row after every other of its chain.
LEMMA CommitRows ==
    ASSUME LedgerAssumption, TypeOK, LockInv, NEW s \in Sessions, Commit(s)
    PROVE  /\ tx[s] \in AppendTx /\ tx[s].pc = "inserted"
           /\ ledger' = ledger \cup {Row(s)}
           /\ Row(s).chain = tx[s].chain /\ Row(s).seq \in 1..sequence
           /\ \A row \in RowsOf(ledger, tx[s].chain) : row.seq < Row(s).seq
           /\ IsHead(Row(s).prev, RowsOf(ledger, tx[s].chain), 0)
           /\ RowsOf(ledger', tx[s].chain) = RowsOf(ledger, tx[s].chain) \cup {Row(s)}
           /\ \A c \in Chains \ {tx[s].chain} : RowsOf(ledger', c) = RowsOf(ledger, c)
  <1>1. tx[s] \in AppendTx /\ tx[s].pc = "inserted" /\ ledger' = ledger \cup {Row(s)}
    BY Shapes DEF Commit, Appending, Holding
  <1>2. /\ Row(s).chain = tx[s].chain /\ Row(s).seq = tx[s].seq /\ Row(s).prev = tx[s].prev
    BY DEF Row
  <1>3. /\ tx[s].seq \in 1..sequence
        /\ \A row \in RowsOf(ledger, tx[s].chain) : row.seq < tx[s].seq
        /\ IsHead(tx[s].prev, RowsOf(ledger, tx[s].chain), 0)
    BY <1>1 DEF LockInv, Holding
  <1>4. /\ RowsOf(ledger', tx[s].chain) = RowsOf(ledger, tx[s].chain) \cup {Row(s)}
        /\ \A c \in Chains \ {tx[s].chain} : RowsOf(ledger', c) = RowsOf(ledger, c)
    BY <1>1, <1>2 DEF RowsOf
  <1> QED  BY <1>1, <1>2, <1>3, <1>4

LEMMA LedgerGrows ==
    ASSUME NEW s \in Sessions, SessionStep(s)
    PROVE  Commit(s) \/ UNCHANGED ledger
  BY DEF SessionStep, Emit, Lock, NextVal, ReadHead, Insert, Duplicate, Fail, CheckpointRun,
         CheckpointGlobal, BuildCheckpoint, Anchor, SaveCheckpoint, AbandonCheckpoint, chainVars

\* Two sessions never hold the lock of one chain.
LEMMA Exclusive ==
    ASSUME LedgerAssumption, TypeOK, LockInv, NEW s \in Sessions, NEW t \in Sessions \ {s},
           tx[s].pc \in Holding, tx[t].pc \in Holding
    PROVE  tx[s].chain # tx[t].chain
  BY DEF LockInv

LEMMA LockStep ==
    ASSUME LedgerAssumption, TypeOK, LockInv, LedgerInv, [Next]_vars
    PROVE  LockInv'
  <1>1. CASE UNCHANGED vars
    BY <1>1 DEF LockInv, vars, RowsOf
  <1>2. CASE Export
    BY <1>2 DEF Export, ExportRows, ExportCheckpoints, ReadPoint, ExportVerdict, LockInv,
                chainVars, RowsOf
  <1>3. ASSUME NEW s \in Sessions, SessionStep(s) PROVE LockInv'
    <2> SUFFICES ASSUME NEW t \in Sessions, tx'[t].pc \in Holding
                 PROVE  /\ lock'[LockKey[tx'[t].chain]] = t
                        /\ tx'[t].pc # "locked" =>
                              /\ tx'[t].seq \in 1..sequence'
                              /\ \A row \in RowsOf(ledger', tx'[t].chain) : row.seq < tx'[t].seq
                        /\ tx'[t].pc \in {"linked", "inserted"} =>
                              IsHead(tx'[t].prev, RowsOf(ledger', tx'[t].chain), 0)
      BY DEF LockInv, Holding
    <2>1. CASE t # s
      <3>1. tx'[t] = tx[t] /\ tx[t] \in AppendTx
        BY <2>1, <1>3, Frame, Shapes DEF Appending
      <3>2. lock'[LockKey[tx[t].chain]] = t
        <4>1. LockKey[tx[t].chain] \in LockKeys
          BY <3>1 DEF LedgerAssumption, AppendTx
        <4>2. lock[LockKey[tx[t].chain]] = t
          BY <3>1 DEF LockInv
        <4> QED  BY <1>3, <2>1, <4>1, <4>2, Frame
      <3>3. RowsOf(ledger', tx[t].chain) = RowsOf(ledger, tx[t].chain)
        <4>1. CASE Commit(s)
          <5>1. tx[s].chain # tx[t].chain
            BY <4>1, <3>1, <2>1, Exclusive DEF Commit, Holding
          <5> QED  BY <4>1, <5>1, <3>1, CommitRows DEF AppendTx
        <4> QED  BY <4>1, <1>3, LedgerGrows
      <3>4. \A n \in 1..sequence : n \in 1..sequence'
        BY <1>3, Frame DEF TypeOK
      <3>5. tx[t].pc # "locked" => tx[t].seq \in 1..sequence'
        BY <3>1, <3>4 DEF LockInv
      <3> QED  BY <3>1, <3>2, <3>3, <3>5 DEF LockInv
    <2>2. CASE t = s
      <3>1. Lock(s) \/ NextVal(s) \/ ReadHead(s) \/ Insert(s)
        <4>1. CASE Anchor(s)
          <5>1. IsPointTx(tx[s])
            BY <4>1, Shapes DEF Anchor, Pointing
          <5>2. tx'[s].pc = "anchored"
            BY <4>1, <5>1 DEF Anchor, IsPointTx, TypeOK
          <5> QED  BY <5>2, <2>2 DEF Holding
        <4>2. CASE Duplicate(s) \/ Commit(s) \/ Fail(s) \/ AbandonCheckpoint(s)
          <5>1. tx'[s] = Idle
            BY <4>2 DEF Duplicate, Commit, Fail, AbandonCheckpoint, TypeOK
          <5> QED  BY <5>1, <2>2 DEF Idle, Holding
        <4>3. CASE (\E e \in Events : Emit(s, e)) \/ SaveCheckpoint(s)
          <5>1. tx'[s].pc = "connected"
            BY <4>3 DEF Emit, SaveCheckpoint, Append, TypeOK
          <5> QED  BY <5>1, <2>2 DEF Holding
        <4>4. CASE CheckpointRun(s) \/ CheckpointGlobal(s)
          <5>1. PICK scope : BuildCheckpoint(s, scope)
            BY <4>4 DEF CheckpointRun, CheckpointGlobal
          <5>2. tx'[s].pc = "built"
            BY <5>1, Zenon DEF BuildCheckpoint, TypeOK
          <5> QED  BY <5>2, <2>2 DEF Holding
        <4> QED  BY <1>3, <4>1, <4>2, <4>3, <4>4 DEF SessionStep
      <3>2. tx[s] \in AppendTx /\ UNCHANGED ledger
        BY <3>1, Shapes DEF Lock, NextVal, ReadHead, Insert, Appending, Holding, chainVars
      <3>3. CASE Lock(s)
        BY <2>2, <3>2, <3>3 DEF Lock, AppendTx, TypeOK, LedgerAssumption
      <3>4. CASE NextVal(s)
        <4>1. /\ tx'[s].seq = sequence + 1 /\ sequence' = sequence + 1
              /\ tx'[s].pc = "numbered" /\ tx'[s].chain = tx[s].chain
              /\ UNCHANGED lock /\ tx[s].pc = "locked"
          BY <3>4, <3>2 DEF NextVal, AppendTx, TypeOK
        <4>2. \A row \in RowsOf(ledger, tx[s].chain) : row.seq < sequence + 1
          BY DEF LedgerInv, RowsOf, TypeOK
        <4>3. lock[LockKey[tx[s].chain]] = s
          BY <4>1 DEF LockInv, Holding
        <4>4. sequence + 1 \in 1..(sequence + 1)
          BY DEF TypeOK
        <4> QED  BY <2>2, <3>2, <4>1, <4>2, <4>3, <4>4
      <3>5. CASE ReadHead(s)
        <4>1. PICK n \in Nat : IsHead(n, RowsOf(ledger, tx[s].chain), 0)
          BY <3>2 DEF AppendTx, LedgerInv
        <4>2. HeadOf(RowsOf(ledger, tx[s].chain), 0) = n
          BY <4>1, HeadIs DEF TypeOK, RowsOf
        <4>3. /\ tx'[s].prev = n /\ tx'[s].seq = tx[s].seq /\ tx'[s].chain = tx[s].chain
              /\ UNCHANGED <<lock, sequence>> /\ tx[s].pc = "numbered"
          BY <3>5, <3>2, <4>2 DEF ReadHead, AppendTx, TypeOK, chainVars
        <4> QED  BY <2>2, <3>2, <4>1, <4>3 DEF LockInv, Holding
      <3>6. CASE Insert(s)
        <4>1. /\ tx'[s].prev = tx[s].prev /\ tx'[s].seq = tx[s].seq
              /\ tx'[s].chain = tx[s].chain
              /\ UNCHANGED <<lock, sequence>> /\ tx[s].pc = "linked"
          BY <3>6, <3>2 DEF Insert, AppendTx, TypeOK, chainVars
        <4> QED  BY <2>2, <3>2, <4>1 DEF LockInv, Holding
      <3> QED  BY <3>1, <3>3, <3>4, <3>5, <3>6
    <2> QED  BY <2>1, <2>2
  <1> QED  BY <1>1, <1>2, <1>3 DEF Next

\* What any step does to the ledger.
LEMMA LedgerCases ==
    ASSUME LedgerAssumption, TypeOK, [Next]_vars
    PROVE  /\ sequence' \in Nat /\ sequence <= sequence'
           /\ UNCHANGED ledger \/ \E s \in Sessions : Commit(s)
  <1>1. CASE UNCHANGED vars \/ Export
    BY <1>1 DEF vars, Export, ExportRows, ExportCheckpoints, ReadPoint, ExportVerdict, chainVars,
                TypeOK
  <1>2. ASSUME NEW s \in Sessions, SessionStep(s)
        PROVE  sequence' \in {sequence, sequence + 1} /\ (UNCHANGED ledger \/ Commit(s))
    BY <1>2, Frame, LedgerGrows
  <1> QED  BY <1>1, <1>2 DEF Next, TypeOK

LEMMA LedgerStep ==
    ASSUME LedgerAssumption, TypeOK, LockInv, LedgerInv, [Next]_vars
    PROVE  LedgerInv'
  <1>1. CASE UNCHANGED ledger
    <2>1. \A row \in ledger : row.seq <= sequence'
      BY LedgerCases DEF LedgerInv, TypeOK
    <2>2. \A row : Before(row)' = Before(row)
      BY <1>1 DEF Before, RowsOf
    <2>3. \A c : RowsOf(ledger', c) = RowsOf(ledger, c)
      BY <1>1
    <2> QED  BY <1>1, <2>1, <2>2, <2>3 DEF LedgerInv
  <1>2. ASSUME NEW s \in Sessions, Commit(s) PROVE LedgerInv'
    <2>1. PICK new \in {Row(s)}, c0 \in Chains :
            /\ ledger' = ledger \cup {new}
            /\ new.chain = c0 /\ new.seq \in 1..sequence
            /\ \A row \in RowsOf(ledger, c0) : row.seq < new.seq
            /\ IsHead(new.prev, RowsOf(ledger, c0), 0)
            /\ RowsOf(ledger', c0) = RowsOf(ledger, c0) \cup {new}
            /\ \A c \in Chains \ {c0} : RowsOf(ledger', c) = RowsOf(ledger, c)
      BY <1>2, CommitRows DEF AppendTx
    <2>2. sequence \in Nat /\ sequence' \in Nat /\ sequence <= sequence'
      BY LedgerCases DEF TypeOK
    <2>3. \A row \in ledger : row.seq \in Nat /\ row.chain \in Chains
      BY DEF TypeOK
    <2>4. \A row \in ledger' : row.seq <= sequence'
      BY <2>1, <2>2, <2>3 DEF LedgerInv
    <2>5. \A c \in Chains : \E n \in Nat : IsHead(n, RowsOf(ledger', c), 0)
      <3>1. IsHead(new.seq, RowsOf(ledger', c0), 0)
        BY <2>1, <2>2, <2>3 DEF IsHead, RowsOf
      <3>2. new.seq \in Nat
        BY <2>1, <2>2
      <3>3. \A c \in Chains \ {c0} : \E n \in Nat : IsHead(n, RowsOf(ledger', c), 0)
        BY <2>1 DEF LedgerInv
      <3> QED  BY <3>1, <3>2, <3>3
    <2>6. ASSUME NEW row \in ledger PROVE Before(row)' = Before(row)
      BY <2>1, <2>2, <2>3, <2>6 DEF Before, RowsOf
    <2>7. Before(new)' = RowsOf(ledger, c0)
      BY <2>1, <2>2, <2>3 DEF Before, RowsOf
    <2>8. \A row \in ledger' : IsHead(row.prev, Before(row)', 0)
      BY <2>1, <2>6, <2>7 DEF LedgerInv
    <2> QED  BY <2>4, <2>5, <2>8 DEF LedgerInv
  <1> QED  BY <1>1, <1>2, LedgerCases

-----------------------------------------------------------------------------
(* Verification.                                                           *)

\* A prefix of a chain's rows verifies from its first row and from any committed row.
LEMMA PrefixVerifies ==
    ASSUME TypeOK, LedgerInv, NEW c \in Chains,
           NEW rows \in SUBSET RowsOf(ledger, c),
           \A row \in RowsOf(ledger, c) \ rows : \A q \in rows : q.seq < row.seq,
           NEW from \in Nat, from = 0 \/ \E row \in RowsOf(ledger, c) : row.seq = from
    PROVE  Linked(rows, from)
  <1>1. \A row \in ledger : row.seq \in Nat \ {0} /\ row.chain \in Chains
    BY DEF TypeOK
  <1> SUFFICES ASSUME NEW row \in rows, row.seq > from
               PROVE  row.prev = HeadOf({q \in rows : from < q.seq /\ q.seq < row.seq}, from)
    BY DEF Linked
  <1> DEFINE between == {q \in rows : from < q.seq /\ q.seq < row.seq}
  <1>2. Before(row) = {q \in rows : q.seq < row.seq}
    BY <1>1 DEF Before, RowsOf
  <1>3. IsHead(row.prev, Before(row), 0)
    BY DEF LedgerInv, RowsOf
  <1>4. IsHead(row.prev, between, from)
    <2>1. CASE from = 0
      <3>1. between = Before(row)
        BY <1>1, <1>2, <2>1 DEF RowsOf
      <3> QED  BY <2>1, <3>1, <1>3
    <2>2. CASE from # 0
      <3>1. PICK first \in RowsOf(ledger, c) : first.seq = from
        BY <2>2
      <3>2. first \in Before(row)
        BY <3>1, <1>1 DEF Before, RowsOf
      <3>3. PICK last \in Before(row) : last.seq = row.prev /\ \A q \in Before(row) : q.seq <= row.prev
        BY <3>2, <1>3 DEF IsHead
      <3>4. CASE last.seq = from
        <4>1. between = {}
          BY <3>3, <3>4, <1>1, <1>2 DEF RowsOf
        <4> QED  BY <4>1, <3>3, <3>4 DEF IsHead
      <3>5. CASE last.seq # from
        <4>1. last \in between
          BY <3>1, <3>2, <3>3, <3>5, <1>1, <1>2 DEF RowsOf
        <4>2. \A q \in between : q.seq <= row.prev
          BY <3>3, <1>2
        <4> QED  BY <4>1, <4>2, <3>3 DEF IsHead
      <3> QED  BY <3>4, <3>5
    <2> QED  BY <2>1, <2>2
  <1>5. \A q \in between : q.seq \in Nat
    BY <1>1 DEF RowsOf
  <1> HIDE DEF between
  <1> QED  BY <1>4, <1>5, HeadIs DEF between

-----------------------------------------------------------------------------
(* Checkpoints and bundles.                                                *)

\* A committed row stays, so a head that names one does.
LEMMA PointsStay ==
    ASSUME LedgerAssumption, TypeOK, [Next]_vars, NEW h, ArePoints(h)
    PROVE  ArePoints(h)'
  <1>1. ledger \subseteq ledger'
    BY LedgerCases DEF Commit
  <1> QED  BY <1>1 DEF ArePoints, RowsOf

\* The steps that touch neither a checkpoint nor a session that makes one.
Ordinary(s) ==
    \/ \E e \in Events : Emit(s, e)
    \/ Lock(s) \/ NextVal(s) \/ ReadHead(s) \/ Insert(s) \/ Duplicate(s)
    \/ Commit(s) \/ Fail(s) \/ AbandonCheckpoint(s)

LEMMA OrdinaryStep ==
    ASSUME TypeOK, NEW s \in Sessions, Ordinary(s)
    PROVE  tx'[s].pc \notin Pointing /\ UNCHANGED <<checkpoints, anchors>>
  <1>1. CASE (\E e \in Events : Emit(s, e))
    BY <1>1 DEF Emit, Append, Pointing, TypeOK, pointVars
  <1>2. CASE Lock(s) \/ NextVal(s) \/ ReadHead(s) \/ Insert(s)
    <2>1. tx[s] \in AppendTx
      BY <1>2, Shapes DEF Lock, NextVal, ReadHead, Insert, Appending, Holding
    <2>2. tx'[s].pc \in {"locked", "numbered", "linked", "inserted"}
      BY <1>2, <2>1 DEF Lock, NextVal, ReadHead, Insert, AppendTx, TypeOK
    <2> QED  BY <1>2, <2>2 DEF Lock, NextVal, ReadHead, Insert, Pointing, pointVars
  <1>3. CASE Duplicate(s) \/ Commit(s) \/ Fail(s) \/ AbandonCheckpoint(s)
    BY <1>3 DEF Duplicate, Commit, Fail, AbandonCheckpoint, Idle, Pointing, TypeOK, pointVars
  <1> QED  BY <1>1, <1>2, <1>3 DEF Ordinary

\* The heads that _build_checkpoint reads are those of committed rows.
LEMMA BuiltHeads ==
    ASSUME LedgerAssumption, TypeOK, LedgerInv, NEW s \in Sessions, NEW scope \in SUBSET Chains,
           BuildCheckpoint(s, scope)
    PROVE  /\ tx'[s].pc = "built" /\ ArePoints(tx'[s].heads)
           /\ UNCHANGED <<ledger, checkpoints, anchors>>
  <1> DEFINE heads == [c \in {d \in scope : RowsOf(ledger, d) # {}} |->
                          HeadOf(RowsOf(ledger, c), 0)]
  <1>1. tx' = [tx EXCEPT ![s] = [pc |-> "built", heads |-> heads]]
    BY DEF BuildCheckpoint
  <1>2. tx'[s] = [pc |-> "built", heads |-> heads]
    BY <1>1, Zenon DEF TypeOK
  <1>3. ASSUME NEW c \in Chains, RowsOf(ledger, c) # {}
        PROVE  \E row \in RowsOf(ledger, c) : row.seq = HeadOf(RowsOf(ledger, c), 0)
    <2>1. PICK n \in Nat : IsHead(n, RowsOf(ledger, c), 0)
      BY DEF LedgerInv
    <2>2. HeadOf(RowsOf(ledger, c), 0) = n
      BY <2>1, HeadIs DEF TypeOK, RowsOf
    <2> QED  BY <1>3, <2>1, <2>2 DEF IsHead
  <1>4. ArePoints(heads)
    BY <1>3 DEF ArePoints
  <1>5. UNCHANGED <<ledger, checkpoints, anchors>>
    BY DEF BuildCheckpoint, chainVars
  <1> HIDE DEF heads
  <1> QED  BY <1>2, <1>4, <1>5

\* A bundle's steps leave the rest alone.
LEMMA ExportFrame ==
    ASSUME Export \/ UNCHANGED vars
    PROVE  UNCHANGED <<ledger, sequence, lock, tx, emitted, passed, aborted, checkpoints, anchors>>
  BY DEF Export, ExportRows, ExportCheckpoints, ReadPoint, ExportVerdict, chainVars, sinkVars,
         pointVars, vars

LEMMA CheckpointStep ==
    ASSUME LedgerAssumption, TypeOK, LedgerInv, CheckpointInv, [Next]_vars
    PROVE  CheckpointInv'
  <1> USE DEF Pointing
  <1>1. CASE UNCHANGED vars \/ Export
    <2>1. UNCHANGED <<ledger, tx, checkpoints, anchors>>
      BY <1>1, ExportFrame
    <2> QED  BY <2>1 DEF CheckpointInv, PointedHeads, ArePoints, RowsOf
  <1>2. ASSUME NEW s \in Sessions, Ordinary(s) PROVE CheckpointInv'
    <2>1. tx'[s].pc \notin Pointing /\ UNCHANGED <<checkpoints, anchors>>
      BY <1>2, OrdinaryStep
    <2>2. \A t \in Sessions \ {s} : tx'[t] = tx[t]
      BY <1>2, Frame DEF Ordinary, SessionStep
    <2>3. \A h \in PointedHeads' : h \in PointedHeads
      BY <2>1, <2>2 DEF PointedHeads
    <2>4. \A h \in PointedHeads' : ArePoints(h)'
      BY <2>3, PointsStay DEF CheckpointInv
    <2> QED  BY <2>1, <2>2, <2>4 DEF CheckpointInv
  <1>3. ASSUME NEW s \in Sessions, NEW scope \in SUBSET Chains, BuildCheckpoint(s, scope),
               SessionStep(s)
        PROVE  CheckpointInv'
    <2>1. /\ tx'[s].pc = "built" /\ ArePoints(tx'[s].heads)
          /\ UNCHANGED <<ledger, checkpoints, anchors>>
      BY <1>3, BuiltHeads
    <2>2. \A t \in Sessions \ {s} : tx'[t] = tx[t]
      BY <1>3, Frame
    <2>3. \A h \in PointedHeads' : h \in PointedHeads \/ h = tx'[s].heads
      BY <2>1, <2>2 DEF PointedHeads
    <2>4. \A h : ArePoints(h)' <=> ArePoints(h)
      BY <2>1 DEF ArePoints, RowsOf
    <2>5. \A h \in PointedHeads' : ArePoints(h)'
      BY <2>1, <2>3, <2>4 DEF CheckpointInv
    <2> QED  BY <2>1, <2>2, <2>5 DEF CheckpointInv
  <1>4. ASSUME NEW s \in Sessions, Anchor(s) PROVE CheckpointInv'
    <2>1. IsPointTx(tx[s])
      BY <1>4, Shapes DEF Anchor
    <2>2. tx'[s].heads = tx[s].heads /\ tx[s].pc = "built" /\ tx'[s].pc = "anchored"
      BY <1>4, <2>1 DEF Anchor, IsPointTx, TypeOK
    <2>3. UNCHANGED <<ledger, checkpoints>>
      BY <1>4 DEF Anchor, chainVars
    <2>4. anchors \subseteq anchors' /\ (LocalFile => tx[s].heads \in anchors')
      BY <1>4 DEF Anchor
    <2>5. \A t \in Sessions \ {s} : tx'[t] = tx[t]
      BY <1>4 DEF Anchor, TypeOK
    <2>6. \A h \in PointedHeads' : h \in PointedHeads
      BY <2>2, <2>3, <2>5 DEF PointedHeads
    <2>7. \A h \in PointedHeads' : ArePoints(h)'
      BY <2>6, PointsStay DEF CheckpointInv
    <2> QED  BY <2>2, <2>3, <2>4, <2>5, <2>7 DEF CheckpointInv
  <1>5. ASSUME NEW s \in Sessions, SaveCheckpoint(s) PROVE CheckpointInv'
    <2>1. PICK id \in 1..MaxCheckpoints :
            /\ \A cp \in checkpoints : cp.id < id
            /\ checkpoints' = checkpoints \cup
                 {[id |-> id, heads |-> tx[s].heads, anchored |-> LocalFile]}
            /\ tx' = [tx EXCEPT ![s] = Append(CheckpointChain, id)]
      BY <1>5 DEF SaveCheckpoint
    <2> DEFINE new == [id |-> id, heads |-> tx[s].heads, anchored |-> LocalFile]
    <2>2. UNCHANGED <<ledger, anchors>> /\ tx[s].pc = "anchored"
      BY <1>5 DEF SaveCheckpoint, chainVars
    <2>3. tx'[s].pc = "connected" /\ \A t \in Sessions \ {s} : tx'[t] = tx[t]
      BY <2>1 DEF Append, TypeOK
    <2>4. \A h \in PointedHeads' : h \in PointedHeads
      BY <2>1, <2>2, <2>3 DEF PointedHeads
    <2>5. \A h \in PointedHeads' : ArePoints(h)'
      BY <2>4, PointsStay DEF CheckpointInv
    <2>6. \A cp \in checkpoints' : cp.anchored => cp.heads \in anchors'
      BY <2>1, <2>2 DEF CheckpointInv
    <2>7. ASSUME NEW c \in Chains
          PROVE  LatestExists({cp \in checkpoints' : ScopedTo(cp, c)})
      <3>1. CASE ScopedTo(new, c)
        <4>1. \A cp \in checkpoints' : cp.id <= new.id
          BY <2>1 DEF TypeOK, LedgerAssumption
        <4> QED  BY <2>1, <3>1, <4>1 DEF LatestExists
      <3>2. CASE ~ ScopedTo(new, c)
        <4>1. {cp \in checkpoints' : ScopedTo(cp, c)} = {cp \in checkpoints : ScopedTo(cp, c)}
          BY <2>1, <3>2
        <4> QED  BY <4>1 DEF LatestExists, CheckpointInv
      <3> QED  BY <3>1, <3>2
    <2>8. \A t \in Sessions : tx'[t].pc = "anchored" /\ LocalFile => tx'[t].heads \in anchors'
      BY <2>2, <2>3 DEF CheckpointInv
    <2> QED  BY <2>5, <2>6, <2>7, <2>8 DEF CheckpointInv, LatestExists, ScopedTo
  <1> QED
    BY <1>1, <1>2, <1>3, <1>4, <1>5
    DEF Next, SessionStep, Ordinary, CheckpointRun, CheckpointGlobal, Chains

\* From a point of chain c, its committed rows never are a mismatch.
LEMMA PointVerifies ==
    ASSUME LedgerAssumption, TypeOK, LedgerInv, CheckpointInv, NEW c \in Runs,
           NEW cp, IsPoint(cp, c),
           NEW rows \in SUBSET RowsOf(ledger, c),
           \A row \in RowsOf(ledger, c) \ rows : \A q \in rows : q.seq < row.seq
    PROVE  Linked(rows, cp.heads[c])
  <1>1. CASE cp = Unpointed(c)
    <2>1. cp.heads[c] = 0
      BY <1>1 DEF Unpointed
    <2> QED  BY <2>1, PrefixVerifies DEF Chains
  <1>2. CASE cp \in checkpoints /\ ScopedTo(cp, c)
    <2>1. IsHeads(cp.heads) /\ ArePoints(cp.heads) /\ c \in DOMAIN cp.heads
      BY <1>2 DEF TypeOK, CheckpointInv, PointedHeads, ScopedTo
    <2>2. cp.heads[c] \in Nat
      BY <2>1 DEF IsHeads
    <2> QED  BY <2>1, <2>2, PrefixVerifies DEF ArePoints, Chains
  <1> QED  BY <1>1, <1>2 DEF IsPoint

\* The latest checkpoint, read at any moment, is a point.
LEMMA LatestIsPoint ==
    ASSUME CheckpointInv, NEW c \in Runs
    PROVE  IsPoint(Latest(c), c) /\ IsPoint(Unpointed(c), c)
  <1> DEFINE scoped == {cp \in checkpoints : ScopedTo(cp, c)}
  <1>1. CASE scoped = {}
    BY <1>1 DEF Latest, IsPoint
  <1>2. CASE scoped # {}
    <2>1. \E cp \in scoped : \A other \in scoped : other.id <= cp.id
      BY <1>2 DEF CheckpointInv, LatestExists, Chains
    <2>2. Latest(c) \in scoped
      BY <1>2, <2>1 DEF Latest
    <2> QED  BY <2>2 DEF IsPoint
  <1> QED  BY <1>1, <1>2

\* Checkpoints are never removed, and a commit adds a row after the bundle's.
LEMMA BundleKept ==
    ASSUME LedgerAssumption, TypeOK, LockInv, BundleInv, NEW s \in Sessions, SessionStep(s)
    PROVE  BundleInv'
  <1> SUFFICES ASSUME bundle.pc # "none" PROVE BundleInv'
    BY Frame DEF BundleInv
  <1>1. UNCHANGED bundle
    BY Frame
  <1>2. checkpoints \subseteq checkpoints'
    BY OrdinaryStep DEF SessionStep, Ordinary, CheckpointRun, CheckpointGlobal, BuildCheckpoint,
                        Anchor, SaveCheckpoint
  <1>3. \A cp, c : IsPoint(cp, c) => IsPoint(cp, c)'
    BY <1>2 DEF IsPoint, Unpointed, ScopedTo
  <1>4. /\ bundle.rows \subseteq RowsOf(ledger', bundle.run)
        /\ \A row \in RowsOf(ledger', bundle.run) \ bundle.rows :
              \A q \in bundle.rows : q.seq < row.seq
    <2>1. CASE Commit(s)
      BY <2>1, CommitRows DEF BundleInv, Chains
    <2>2. CASE UNCHANGED ledger
      BY <2>2 DEF BundleInv
    <2> QED  BY <2>1, <2>2, LedgerGrows
  <1> QED  BY <1>1, <1>3, <1>4 DEF BundleInv

LEMMA BundleStep ==
    ASSUME LedgerAssumption, TypeOK, LockInv, LedgerInv, CheckpointInv, BundleInv, [Next]_vars
    PROVE  BundleInv'
  <1>1. CASE UNCHANGED vars
    BY <1>1 DEF vars, BundleInv, RowsOf, IsPoint, Unpointed, ScopedTo
  <1>2. CASE Export
    <2>1. \A c : RowsOf(ledger', c) = RowsOf(ledger, c)
      BY <1>2, ExportFrame
    <2>2. \A cp, c : IsPoint(cp, c)' <=> IsPoint(cp, c)
      BY <1>2, ExportFrame DEF IsPoint, Unpointed, ScopedTo
    <2>3. CASE ExportRows
      BY <2>1, <2>3 DEF ExportRows, BundleInv
    <2>4. CASE ExportCheckpoints
      <3>1. \A cp \in {q \in checkpoints : ScopedTo(q, bundle.run)} : IsPoint(cp, bundle.run)
        BY DEF IsPoint
      <3> QED  BY <2>1, <2>2, <2>4, <3>1 DEF ExportCheckpoints, BundleInv
    <2>5. CASE ReadPoint
      <3>1. IsPoint(Latest(bundle.run), bundle.run) /\ IsPoint(Unpointed(bundle.run), bundle.run)
        BY <2>5, LatestIsPoint DEF ReadPoint, BundleInv
      <3> QED  BY <2>1, <2>2, <2>5, <3>1 DEF ReadPoint, BundleInv
    <2>6. CASE ExportVerdict
      <3>1. bundle.run \in Runs /\ IsPoint(bundle.point, bundle.run)
        BY <2>6 DEF ExportVerdict, BundleInv
      <3>2. Linked(RowsOf(ledger, bundle.run), bundle.point.heads[bundle.run])
        BY <3>1, PointVerifies
      <3>3. \A requireAnchor \in BOOLEAN :
               Verdict(RowsOf(ledger, bundle.run), bundle.point, bundle.run, requireAnchor)
                  # "mismatch"
        BY <3>2 DEF Verdict
      <3> QED  BY <2>1, <2>2, <2>6, <3>3 DEF ExportVerdict, BundleInv
    <2> QED  BY <1>2, <2>3, <2>4, <2>5, <2>6 DEF Export
  <1> QED  BY <1>1, <1>2, BundleKept DEF Next

LEMMA OwnChainStep ==
    ASSUME LedgerAssumption, TypeOK, OwnChain, [Next]_vars
    PROVE  OwnChain'
  <1>1. CASE UNCHANGED vars \/ Export
    BY <1>1, ExportFrame DEF OwnChain
  <1>2. ASSUME NEW s \in Sessions, SessionStep(s) PROVE OwnChain'
    <2> SUFFICES ASSUME tx'[s].pc \in Appending, tx'[s].event \in Events
                 PROVE  tx'[s].chain = RunOf[tx'[s].event]
      BY <1>2, Frame DEF OwnChain
    <2>1. CASE \E e \in Events : Emit(s, e)
      BY <2>1 DEF Emit, Append, TypeOK
    <2>2. CASE Lock(s) \/ NextVal(s) \/ ReadHead(s) \/ Insert(s)
      <3>1. tx[s] \in AppendTx /\ tx[s].pc \in Appending
        BY <2>2, Shapes DEF Lock, NextVal, ReadHead, Insert, Appending, Holding
      <3>2. tx'[s].chain = tx[s].chain /\ tx'[s].event = tx[s].event
        BY <2>2, <3>1 DEF Lock, NextVal, ReadHead, Insert, AppendTx, TypeOK
      <3> QED  BY <3>1, <3>2 DEF OwnChain
    <2>3. CASE Duplicate(s) \/ Commit(s) \/ Fail(s) \/ AbandonCheckpoint(s)
      BY <2>3 DEF Duplicate, Commit, Fail, AbandonCheckpoint, Idle, Appending, Holding, TypeOK
    <2>4. ASSUME NEW scope, BuildCheckpoint(s, scope) PROVE FALSE
      <3>1. tx'[s].pc = "built"
        BY <2>4, Zenon DEF BuildCheckpoint, TypeOK
      <3> QED  BY <3>1 DEF Appending, Holding
    <2>5. CASE Anchor(s)
      <3>1. IsPointTx(tx[s])
        BY <2>5, Shapes DEF Anchor, Pointing
      <3>2. tx'[s].pc = "anchored"
        BY <2>5, <3>1 DEF Anchor, IsPointTx, TypeOK
      <3> QED  BY <3>2 DEF Appending, Holding
    <2>6. CASE SaveCheckpoint(s)
      <3>1. PICK id \in 1..MaxCheckpoints : tx' = [tx EXCEPT ![s] = Append(CheckpointChain, id)]
        BY <2>6 DEF SaveCheckpoint
      <3>2. tx'[s].event = id /\ id \in Nat
        BY <3>1 DEF Append, TypeOK
      <3> QED  BY <3>2 DEF LedgerAssumption
    <2> QED
      BY <1>2, <2>1, <2>2, <2>3, <2>4, <2>5, <2>6
      DEF SessionStep, CheckpointRun, CheckpointGlobal
  <1> QED  BY <1>1, <1>2 DEF Next

-----------------------------------------------------------------------------
(* fail_run.                                                               *)

LEMMA FailRunStep ==
    ASSUME LedgerAssumption, TypeOK, OwnChain, FailRunRecords, [Next]_vars
    PROVE  FailRunRecords'
  <1>1. CASE UNCHANGED vars \/ Export
    BY <1>1, ExportFrame DEF FailRunRecords, Recorded, InFlight
  <1>2. ASSUME NEW s \in Sessions, SessionStep(s) PROVE FailRunRecords'
    <2> SUFFICES ASSUME NEW e \in Events, RunOf[e] \in FailRun, ~ Recorded(e)'
                 PROVE  /\ e \notin passed'
                        /\ e \in emitted' => InFlight(e)' \/ RunOf[e] \in aborted'
      BY DEF FailRunRecords
    <2>1. /\ ~ Recorded(e) /\ e \notin passed
          /\ e \in emitted => InFlight(e) \/ RunOf[e] \in aborted
      BY LedgerCases DEF Commit, Recorded, FailRunRecords
    <2>2. \A t \in Sessions \ {s} : tx'[t] = tx[t]
      BY <1>2, Frame
    <2>3. ASSUME NEW f \in Events, Emit(s, f)
          PROVE  e \notin passed' /\ (e \in emitted' => InFlight(e)' \/ RunOf[e] \in aborted')
      <3>1. tx[s].pc = "idle" /\ tx'[s].pc = "connected" /\ tx'[s].event = f
        BY <2>3 DEF Emit, Append, TypeOK
      <3>2. emitted' = emitted \cup {f} /\ UNCHANGED <<passed, aborted>>
        BY <2>3 DEF Emit
      <3> QED  BY <2>1, <2>2, <3>1, <3>2 DEF InFlight, Appending, Holding
    <2>4. CASE Lock(s) \/ NextVal(s) \/ ReadHead(s) \/ Insert(s)
      <3>1. tx[s] \in AppendTx
        BY <2>4, Shapes DEF Lock, NextVal, ReadHead, Insert, Appending, Holding
      <3>2. tx'[s].event = tx[s].event /\ tx'[s].pc \in Appending
        BY <2>4, <3>1 DEF Lock, NextVal, ReadHead, Insert, AppendTx, TypeOK, Appending, Holding
      <3>3. UNCHANGED <<passed, aborted, emitted>>
        BY <2>4 DEF Lock, NextVal, ReadHead, Insert, sinkVars
      <3> QED  BY <2>1, <2>2, <3>2, <3>3 DEF InFlight
    <2>5. CASE Duplicate(s) \/ Commit(s) \/ Fail(s)
      <3>1. tx[s] \in AppendTx /\ tx[s].pc \in Appending /\ UNCHANGED emitted
        BY <2>5, Shapes DEF Duplicate, Commit, Fail, Appending, Holding
      <3>2. tx[s].event = e => tx[s].chain = RunOf[e] /\ tx[s].chain \in FailRun /\ Fail(s)
        <4>1. Duplicate(s) => tx[s].event # e
          BY <2>1 DEF Duplicate
        <4>2. Commit(s) => tx[s].event # e
          <5>1. Commit(s) => Row(s) \in ledger' /\ Row(s).event = tx[s].event
            BY DEF Commit, Row
          <5> QED  BY <5>1 DEF Recorded
        <4> QED  BY <2>5, <3>1, <4>1, <4>2 DEF OwnChain
      <3>3. /\ aborted \subseteq aborted'
            /\ passed' \subseteq passed \cup {tx[s].event}
            /\ tx[s].event = e => e \notin passed' /\ RunOf[e] \in aborted'
        <4>1. Returned(s) \/ Raised(s)
          BY <2>5 DEF Duplicate, Commit, Fail
        <4>2. Fail(s) => Raised(s)
          BY DEF Fail
        <4> QED  BY <2>1, <3>2, <4>1, <4>2 DEF Returned, Raised
      <3> QED  BY <2>1, <2>2, <3>1, <3>3 DEF InFlight
    <2>6. CASE AbandonCheckpoint(s) \/ Anchor(s) \/ SaveCheckpoint(s)
      <3>1. tx[s].pc \notin Appending /\ UNCHANGED <<passed, aborted, emitted>>
        BY <2>6 DEF AbandonCheckpoint, Anchor, SaveCheckpoint, Appending, Holding, sinkVars
      <3> QED  BY <2>1, <2>2, <3>1 DEF InFlight
    <2>7. ASSUME NEW scope, BuildCheckpoint(s, scope)
          PROVE  e \notin passed' /\ (e \in emitted' => InFlight(e)' \/ RunOf[e] \in aborted')
      <3>1. tx[s].pc \notin Appending /\ UNCHANGED <<passed, aborted, emitted>>
        BY <2>7 DEF BuildCheckpoint, Appending, Holding, sinkVars
      <3> QED  BY <2>1, <2>2, <3>1 DEF InFlight
    <2> QED
      BY <1>2, <2>3, <2>4, <2>5, <2>6, <2>7 DEF SessionStep, CheckpointRun, CheckpointGlobal
  <1> QED  BY <1>1, <1>2 DEF Next

-----------------------------------------------------------------------------
(* The theorems.                                                           *)

LedgerIInv == TypeOK /\ LockInv /\ LedgerInv

LEMMA InitInv ==
    ASSUME LedgerAssumption, Init
    PROVE  LedgerIInv /\ CheckpointInv /\ BundleInv /\ OwnChain /\ FailRunRecords
  <1>1. TypeOK
    BY InitType
  <1>2. \A s \in Sessions : tx[s] = Idle
    BY DEF Init
  <1>3. LockInv /\ OwnChain
    BY <1>2 DEF LockInv, OwnChain, Idle, Holding, Appending
  <1>4. LedgerInv
    BY DEF Init, LedgerInv, RowsOf, IsHead
  <1>5. CheckpointInv
    BY <1>2 DEF Init, CheckpointInv, LatestExists, PointedHeads, Pointing, Idle
  <1> QED
    BY <1>1, <1>3, <1>4, <1>5 DEF Init, LedgerIInv, BundleInv, FailRunRecords

\* The inductive invariant of the ledger: the advisory lock orders the transactions of a
\* chain, so that the one that has drawn a sequence id commits before the next draws its.
THEOREM LedgerInvariant == Spec => []LedgerIInv
  <1>1. Init => LedgerIInv
    BY InitInv, LedgerAssumption
  <1>2. LedgerIInv /\ [Next]_vars => LedgerIInv'
    BY TypeStep, LockStep, LedgerStep, LedgerAssumption DEF LedgerIInv
  <1> QED  BY <1>1, <1>2, PTL DEF Spec

\* Every variable of the ledger has its type.
THEOREM AuditTypeCorrect == Spec => []TypeOK
  <1>1. LedgerIInv => TypeOK
    BY DEF LedgerIInv
  <1> QED  BY <1>1, LedgerInvariant, PTL

\* Checkpoints name committed rows and have their anchors, whatever was appended
\* between reading the heads and saving them.
THEOREM CheckpointInvariant == Spec => []CheckpointInv
  <1>1. Init => CheckpointInv
    BY InitInv, LedgerAssumption
  <1>2. LedgerIInv /\ CheckpointInv /\ [Next]_vars => CheckpointInv'
    BY CheckpointStep, LedgerAssumption DEF LedgerIInv
  <1> QED  BY <1>1, <1>2, LedgerInvariant, PTL DEF Spec

\* The rows of a bundle are a prefix of their chain.
THEOREM BundleInvariant == Spec => []BundleInv
  <1>1. Init => BundleInv
    BY InitInv, LedgerAssumption
  <1>2. LedgerIInv /\ CheckpointInv /\ BundleInv /\ [Next]_vars => BundleInv'
    BY BundleStep, LedgerAssumption DEF LedgerIInv
  <1> QED  BY <1>1, <1>2, LedgerInvariant, CheckpointInvariant, PTL DEF Spec

\* Verification of the ledger, from the first row or any checkpoint, and of any bundle
\* exported while runs append, never raises a false alarm.
THEOREM VerificationIsSound == Spec => []LedgerVerifies
  <1>1. LedgerIInv /\ CheckpointInv /\ BundleInv => LedgerVerifies
    <2> SUFFICES ASSUME LedgerIInv, CheckpointInv, BundleInv PROVE LedgerVerifies  OBVIOUS
    <2> USE LedgerAssumption DEF LedgerIInv
    <2>1. ChainsVerify
      BY PrefixVerifies DEF ChainsVerify
    <2>2. CheckpointsVerify
      <3>1. ASSUME NEW cp \in checkpoints, NEW c \in DOMAIN cp.heads
            PROVE  Linked(RowsOf(ledger, c), cp.heads[c])
        <4>1. IsHeads(cp.heads) /\ ArePoints(cp.heads)
          BY DEF TypeOK, CheckpointInv, PointedHeads
        <4>2. c \in Chains /\ cp.heads[c] \in Nat
          BY <4>1 DEF IsHeads
        <4> QED  BY <4>1, <4>2, PrefixVerifies DEF ArePoints
      <3> QED  BY <3>1 DEF CheckpointsVerify, CheckpointInv
    <2>3. BundlesVerify
      <3> SUFFICES ASSUME bundle.pc = "done" PROVE BundlesVerify  BY DEF BundlesVerify
      <3>1. /\ bundle.verdict # "mismatch" /\ bundle.run \in Runs
            /\ bundle.rows \subseteq RowsOf(ledger, bundle.run)
            /\ \A row \in RowsOf(ledger, bundle.run) \ bundle.rows :
                  \A q \in bundle.rows : q.seq < row.seq
            /\ \A cp \in bundle.points : IsPoint(cp, bundle.run)
        BY DEF BundleInv
      <3>2. IsPoint(Unpointed(bundle.run), bundle.run)
        BY DEF IsPoint
      <3>3. \A cp \in bundle.points \cup {Unpointed(bundle.run)} :
               Linked(bundle.rows, cp.heads[bundle.run])
        BY <3>1, <3>2, PointVerifies
      <3> QED  BY <3>1, <3>3 DEF BundlesVerify
    <2> QED  BY <2>1, <2>2, <2>3 DEF LedgerVerifies
  <1> QED  BY <1>1, LedgerInvariant, CheckpointInvariant, BundleInvariant, PTL

\* What a checkpoint covers is final from the moment its heads are read.
THEOREM CheckpointsAreFinal == Spec => CheckpointCoversPrefix
  <1>1. LedgerIInv /\ CheckpointInv /\ [Next]_vars =>
           [\A h \in PointedHeads : \A c \in DOMAIN h : Covered(h, c)' = Covered(h, c)]_vars
    <2> SUFFICES ASSUME LedgerIInv, CheckpointInv, [Next]_vars,
                        NEW h \in PointedHeads, NEW c \in DOMAIN h
                 PROVE  Covered(h, c)' = Covered(h, c)
      OBVIOUS
    <2> USE LedgerAssumption DEF LedgerIInv
    <2>1. CASE UNCHANGED ledger
      BY <2>1 DEF Covered, RowsOf
    <2>2. ASSUME NEW s \in Sessions, Commit(s) PROVE Covered(h, c)' = Covered(h, c)
      <3>1. ArePoints(h) /\ IsHeads(h)
        BY Shapes DEF CheckpointInv, PointedHeads, TypeOK, IsPointTx
      <3>2. PICK row \in RowsOf(ledger, c) : row.seq = h[c]
        BY <3>1 DEF ArePoints
      <3>3. c \in Chains /\ h[c] \in Nat
        BY <3>1 DEF IsHeads
      <3>4. CASE c = tx[s].chain
        <4>1. h[c] < Row(s).seq /\ RowsOf(ledger', c) = RowsOf(ledger, c) \cup {Row(s)}
              /\ Row(s).seq \in 1..sequence
          BY <2>2, <3>2, <3>4, CommitRows
        <4>2. ~ Row(s).seq <= h[c]
          BY <3>3, <4>1 DEF TypeOK
        <4> QED  BY <4>1, <4>2 DEF Covered
      <3>5. CASE c # tx[s].chain
        BY <2>2, <3>3, <3>5, CommitRows DEF Covered
      <3> QED  BY <3>4, <3>5
    <2> QED  BY <2>1, <2>2, LedgerCases
  <1> QED
    BY <1>1, LedgerInvariant, CheckpointInvariant, PTL DEF Spec, CheckpointCoversPrefix

\* Under fail_run the ledger has every event that went further, and an event that is not
\* in it is on its way or has ended its run.
THEOREM FailRunIsHonoured == Spec => []FailRunRecords
  <1>1. Init => OwnChain /\ FailRunRecords
    BY InitInv, LedgerAssumption
  <1>2. TypeOK /\ OwnChain /\ FailRunRecords /\ [Next]_vars => (OwnChain /\ FailRunRecords)'
    BY OwnChainStep, FailRunStep, LedgerAssumption
  <1> QED  BY <1>1, <1>2, AuditTypeCorrect, PTL DEF Spec

=============================================================================
