----------------------------- MODULE MCTokenPool -----------------------------
(***************************************************************************)
(* Instances of TokenPool for TLC: which operations a deployment runs, and *)
(* the symmetry of coroutines that differ only in name.                    *)
(***************************************************************************)
EXTENDS TokenPool, TLC

RaceOps == AllOperations \ {"publish", "at_expiry"}
RecoveryOps ==
    AllOperations \ {"sweep", "record_error", "record_success", "delete", "disable"}
RetireOps == {"refresh", "observe"}

Symmetry == Permutations(Service)
=============================================================================
