------------------------ MODULE MCRedshowCallbacks ------------------------
(***************************************************************************)
(* The threads are interchangeable: the runs check one of each set of      *)
(* states that differ only in which thread is which.                       *)
(***************************************************************************)
EXTENDS RedshowCallbacks, TLC

\* The programs as functions, which TLC evaluates once.
View     == [c \in DOMAIN ViewPrograms |-> ViewPrograms[c]]
Liveness == [c \in DOMAIN LivenessPrograms |-> LivenessPrograms[c]]

ThreadSymmetry == Permutations(Threads)
=============================================================================
