---------------------------- MODULE MCAuditLedger ----------------------------
(***************************************************************************)
(* Instance of AuditLedger: a fail_run run with two events and a warn run  *)
(* with one share two connections and, for the lock, one hash key with the *)
(* chain of the checkpoint events.                                         *)
(***************************************************************************)
EXTENDS AuditLedger, TLC

CONSTANTS strict, lax, e1, e2, e3, k1, k2, s1, s2

MCRunOf == e1 :> strict @@ e2 :> strict @@ e3 :> lax
MCLockKey == strict :> k1 @@ lax :> k2 @@ CheckpointChain :> k2
MCSymmetry == {p @@ q : p \in Permutations(Sessions), q \in Permutations({e1, e2})}
=============================================================================
