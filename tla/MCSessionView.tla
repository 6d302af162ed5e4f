---------------------------- MODULE MCSessionView ----------------------------
(* Two sessions and two select calls for TLC.                      *)
EXTENDS SessionView, TLC

CONSTANTS s1, s2, c1, c2

TwoSessions == {s1, s2}
TwoCalls == {c1, c2}

Symmetry == Permutations(TwoSessions) \cup Permutations(TwoCalls)
=============================================================================
