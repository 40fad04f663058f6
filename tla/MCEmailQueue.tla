---------------------------- MODULE MCEmailQueue ----------------------------
(* Instances of EmailQueue for TLC.                                        *)
EXTENDS EmailQueue, TLC

CONSTANTS e1, e2, b1, i1, w1

OneBroadcast == [e \in Entries |-> b1]

EntrySymmetry == Permutations(Entries)
=============================================================================
