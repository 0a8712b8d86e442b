------------------------ MODULE MCDbPoolManager ------------------------
(* DbPoolManager on small instances.                                         *)
EXTENDS DbPoolManager, TLC

\* Requests are alike.
Symmetry == Permutations(Callers)
========================================================================
