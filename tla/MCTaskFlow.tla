----------------------------- MODULE MCTaskFlow -----------------------------
(* Two steps, the second depends on the first, and two calls at a time. *)
EXTENDS TaskFlow, TLC
CONSTANTS a, b, c1, c2
MCDeps == a :> {} @@ b :> {a}
(* What an update may pass: a step that claims a child and a retry, and one     *)
(* settled by hand.                                                             *)
MCEditSteps == {[Planned({}, TRUE) EXCEPT !.key = 1, !.n = 1],
                [Absent EXCEPT !.st = "done"]}
Symmetry == Permutations(Callers)
=============================================================================
