------------------------------ MODULE MCLogin ------------------------------
(* A small instance of Login: browsers, tasks and subjects are             *)
(* interchangeable; logins are not, because Start takes them in turn.      *)
EXTENDS Login, TLC

Symmetry ==
    Permutations(Browsers) \cup Permutations(Tasks) \cup Permutations(Subjects)
=============================================================================
