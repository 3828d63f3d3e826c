---- MODULE MCMiddleware ----
(***************************************************************************)
(* Small instances of Middleware for TLC.                                  *)
(***************************************************************************)
EXTENDS Middleware, TLC

Symmetry == Permutations(Requests \ Scrapes)

====
