---------------------------- MODULE MCQdmaDescq ----------------------------
(* Instances of QdmaDescq for TLC.  The ring has two usable descriptors. *)
EXTENDS QdmaDescqProps, TLC

CONSTANTS r1, r2, r3, r4

MCNDesc == [r \in Req |-> CASE r = r1 -> 2 [] r = r3 -> 3 [] OTHER -> 1]

NoBatch  == <<>>
TwoBatch == <<r2, r4>>
=============================================================================
