---------------------------- MODULE MCInterviewInvite ----------------------------
EXTENDS InterviewInvite, TLC

Symmetry == Permutations(Request)
=============================================================================
