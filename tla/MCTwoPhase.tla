----------------------------- MODULE MCTwoPhase -----------------------------
(* Instances of TwoPhase for TLC.                                          *)
EXTENDS TwoPhase, TLC

CONSTANTS r1, r2, r3, q1, q2, q3, k1, k2

MCKeyOf == [q \in Req |-> k1]
MCKeyMix == [q \in Req |-> IF q = q3 THEN k2 ELSE k1]
MCHomeMix == [q \in Req |-> IF q = q3 THEN r1 ELSE Primary]
MCHome  == [q \in Req |-> Primary]
Symm    == Permutations(Replica) \cup Permutations(Req)
=============================================================================
