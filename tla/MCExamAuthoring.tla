---------------------------- MODULE MCExamAuthoring ----------------------------
EXTENDS ExamAuthoring, TLC

Symmetry == Permutations(Request)
=============================================================================
