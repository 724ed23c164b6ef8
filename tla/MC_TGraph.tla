------------------------------ MODULE MC_TGraph ------------------------------
EXTENDS TGraph, TLC

MCSymmetry == Permutations(Threads)
=============================================================================
