---- MODULE MCSessions ----
(***************************************************************************)
(* Small instances of Sessions for TLC.                                    *)
(***************************************************************************)
EXTENDS Sessions, TLC

Symmetry == Permutations(Calls) \cup Permutations(Sessions)

====
