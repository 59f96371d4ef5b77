-------------------------- MODULE ReportLifecycleMC --------------------------
(* Instances of ReportLifecycle: two files that share one of two dates.    *)
EXTENDS ReportLifecycle, TLC

CONSTANTS f1, f2, d1, d2, u1, u2, u3

Overlapping == (f1 :> {d1}) @@ (f2 :> {d1, d2})

(* The first two send the same file, perhaps to resume or to upload again. *)
MCFileOf == [u \in Upload |-> IF u = u3 THEN f2 ELSE f1]
MCNameOf == [u \in Upload |-> FileOf[u]]
Symmetric == Permutations(Report) \cup Permutations(Worker) \cup Permutations(Handler)
=============================================================================
