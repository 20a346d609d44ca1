---------------------------- MODULE MCApprovals ----------------------------
EXTENDS Approvals, TLC

TurnSymmetry == Permutations(Turns)
=============================================================================
