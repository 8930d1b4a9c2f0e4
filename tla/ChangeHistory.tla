---------------------------- MODULE ChangeHistory ----------------------------
(***************************************************************************)
(* What a project promises to the devices that replicate it: one sequence  *)
(* of changes that only ever grows at its end.  A device that has read n   *)
(* changes is up to date once it has read the ones after n; a restore is   *)
(* an extension too, it never rewinds the sequence, and it starts a new    *)
(* epoch (the project's generation).                                       *)
(***************************************************************************)
EXTENDS Integers, Sequences

CONSTANTS Objects, Bodies

VARIABLES history, epoch

Change == [obj: Objects, body: Bodies]

ExtensionOf(h, g) == Len(g) <= Len(h) /\ SubSeq(h, 1, Len(g)) = g

Init == history = << >> /\ epoch = 1

\* A batch becomes visible as a whole.
Publish == ExtensionOf(history', history) /\ history' \in Seq(Change) /\ UNCHANGED epoch

\* A restore publishes its changes together with the next epoch.
Restore == ExtensionOf(history', history) /\ history' \in Seq(Change) /\ epoch' = epoch + 1

Next == Publish \/ Restore

Spec == Init /\ [][Next]_<<history, epoch>>
=============================================================================
