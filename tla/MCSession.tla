----------------------------- MODULE MCSession -----------------------------
(* TLC instances of Session. *)
EXTENDS Session, TLC

\* Requests and ids are interchangeable: no definition names one of them.
Symmetry == Permutations(Requests) \cup Permutations(Ids)
===========================================================================
