---------------------------- MODULE MCWrapupGate ----------------------------
(* WrapupGate for TLC.  Two casts: sessions s1, with two places that start *)
(* hooks, and s2; and session s1 with a place for hooks and a shell.       *)
EXTENDS WrapupGate, TLC

CONSTANTS s1, s2, h1, h2, t1, p1

\* The places of s1 that run the same things are interchangeable.
RunnerSymmetry == Permutations(Hosts \ {h2}) \cup Permutations(Shells)

MCOwner == [r \in Runner |-> IF r = h2 /\ s2 \in Session THEN s2 ELSE s1]
MCClaims == [t \in Task |-> IF t = t1 THEN {p1} ELSE {}]
=============================================================================
