---------------------------- MODULE MCPersistence ----------------------------
(***************************************************************************)
(* What the extension keeps or looks up outside its memory, for one run of  *)
(* TLC: a component of SavedState steps, or one of PromptState.  A behaviour *)
(* of FullSpec is one of SavedState's Spec and one of PromptState's         *)
(* PromptSpec.                                                              *)
(***************************************************************************)
EXTENDS SavedState, PromptState, TLC

allVars == <<vars, promptVars>>

(* Where it is none of PromptState's components that steps, they are in one *)
(* of their initial states.                                                 *)
FullInit ==
  /\ Init /\ PromptInit
  /\ focus # "elsewhere" => tool = "mention"

SavedSteps == Next /\ UNCHANGED promptVars
PromptSteps == focus = "elsewhere" /\ PromptNext /\ UNCHANGED vars

FullNext == SavedSteps \/ PromptSteps

FullSpec == FullInit /\ [][FullNext]_allVars

-----------------------------------------------------------------------------
(* One old home, and archives that hold what is awkward: a listed file that *)
(* is only there under another spelling, directories, files past a limit.   *)
Offers == [a |-> "topic", b |-> "curated", suite |-> "builtin"]

OneHome == <<"home">>

Entry(name, root, dotted, size) == [name |-> name, root |-> root, dotted |-> dotted, size |-> size]

Zips == {
  <<Entry("session.jsonl", TRUE, TRUE, 1), Entry("a/session.jsonl", FALSE, FALSE, 2)>>,
  <<Entry("b/conversations.json", FALSE, FALSE, 1), Entry("conversations.json", TRUE, FALSE, 1),
    Entry("x", TRUE, FALSE, 9)>>,
  <<Entry("session.jsonl", TRUE, FALSE, 2), Entry("session.jsonl", TRUE, TRUE, 2)>>,
  <<Entry("x", TRUE, FALSE, 1)>> }

(* Of two views the panel's user types once and gets the answers to the     *)
(* sidebar's questions, too.                                                *)
MatchesOf == "qa" :> {"f1", "f2"} @@ "qb" :> {"f2"}
InputsOf == "side" :> 2 @@ "panel" :> 1

(* Two promises the code does not keep, for configurations of their own:    *)
(* links are checked for the session on screen, and a menu takes no answer  *)
(* of another webview.                                                      *)
LinksOfSession == Links!LinksOfSession
AnswersAreOwn == Mention!AnswersAreOwn
=============================================================================
