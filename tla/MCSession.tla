------------------------------ MODULE MCSession ------------------------------
(* Session on small instances.  The sign-out threads are interchangeable, *)
(* and so are the lanes other than the full refresh.                      *)
EXTENDS Session, TLC

Symmetry == Permutations(Thread) \cup Permutations(Lane \ {Full})
===============================================================================
