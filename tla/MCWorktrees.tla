----------------------------- MODULE MCWorktrees -----------------------------
(* Two sessions and the user of the main checkout for TLC.                  *)
EXTENDS Worktrees

CONSTANTS s1, s2

TwoSessions == {s1, s2}

(* One run of each kind: a crash, two merges that cross, failing git.       *)
Kinds ==
  {[create |-> 2, crash |-> 1, fail |-> 0, edit |-> 0, merge |-> 0],
   [create |-> 1, crash |-> 0, fail |-> 0, edit |-> 3, merge |-> 2],
   [create |-> 1, crash |-> 1, fail |-> 1, edit |-> 1, merge |-> 1]}
=============================================================================
