---------------------------- MODULE MCExamTaking ----------------------------
(* Small instances of ExamTaking for TLC. *)
EXTENDS ExamTaking, TLC

Symmetry == Permutations(Request) \cup Permutations(Link)
=============================================================================
