------------------------- MODULE MCPromptAdmission -------------------------
(* Two sessions and interchangeable prompts for TLC.                        *)
EXTENDS PromptAdmission, TLC

CONSTANTS s1, s2, p1, p2, p3

TwoSessions == {s1, s2}
OneSession == {s1}
TwoPrompts == {p1, p2}
ThreePrompts == {p1, p2, p3}
PlainAndConfig == {"plain", "config"}
PlainOnly == {"plain"}

PromptSymmetry == Permutations(TwoPrompts)
SessionAndPromptSymmetry == Permutations(TwoSessions) \cup Permutations(TwoPrompts)
ThreePromptSymmetry == Permutations(ThreePrompts)
=============================================================================
