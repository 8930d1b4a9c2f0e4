--------------------------- MODULE MCRestoreJobs ---------------------------
(* Restores to the empty project; to the first change or the first snapshot. *)
EXTENDS RestoreJobs, TLC

ToSequence(n) == [snap |-> 0, seq |-> n]
ToSnapshot(s) == [snap |-> s, seq |-> 0]

TargetsOfTakeover == {ToSequence(0)}
TargetsOfSequence == {ToSequence(1), ToSnapshot(1)}

Symmetry == Permutations(Workers) \cup Permutations(Jobs)
=============================================================================
