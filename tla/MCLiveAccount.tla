----------------------------- MODULE MCLiveAccount -----------------------------
(* Two cells of one scanner; the first rests its entries as maker limits.       *)
EXTENDS LiveAccount, TLC
CONSTANTS c1, c2, s1, long, short
TheScanner == [c \in Cells |-> s1]
Mirror == Permutations(Sides)
================================================================================
