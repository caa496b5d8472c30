----------------------------- MODULE MCValidate -----------------------------
(***************************************************************************)
(* Model-checking instance of Validate: two edges and one candidate, so  *)
(* the candidate validates the edges and may draw itself, and a round     *)
(* counter bounded so that a round can follow a round.                    *)
(***************************************************************************)
EXTENDS Validate, TLC

CONSTANTS e1, e2, c1

MCEdges == {e1, e2}
MCCandidates == {c1}

(* Reports the handler answers without crashing the process.             *)
WellFormedKinds == {"match", "mismatch"}

(* Every report, including the two the handler dereferences badly.       *)
AnyKinds == AllReportKinds

(* One report the handler records and one on which it panics.           *)
RecordOrPanicKinds == {"match", "noFids"}

(* Storing a target always succeeds, or may hit any of the error paths.  *)
StoreAlwaysOk == {"ok"}
StoreAny == TargetOutcomes

(* The two edges are interchangeable.                                    *)
EdgeSymmetry == Permutations(MCEdges)

=============================================================================
