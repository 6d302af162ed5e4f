------------------------------ MODULE QueueDock ------------------------------
(***************************************************************************)
(* The queue dock: the prompts that wait in the host's inbox of a session,  *)
(* as the control stream and the snapshots of the session bring them to the *)
(* gateway and the webview draws them, and what a click on one of them      *)
(* does.  steerQueued answers a prompt now: where the host refuses, it      *)
(* takes the prompt out and sends its text again.  From                     *)
(* HarnessGatewayService, gateway/inbox-projection.ts, gateway-helpers.ts   *)
(* and webview/chat/composer-core.ts.  The host's inbox and its turns are   *)
(* external.                                                                *)
(***************************************************************************)
EXTENDS Naturals, Sequences, FiniteSets, SequencesExt

CONSTANTS
  Queued,      \* prompts in the inbox at the start
  Media,       \* those with an image
  MaxCommands, \* bound: clicks that reach the gateway
  MaxLosses,   \* bound: losses of the control stream
  MaxMoves,    \* bound: the user leaves the session
  MaxFaults    \* bound: requests that fail or whose answer is lost

QueueAssumption ==
  /\ IsFiniteSet(Queued) /\ Media \subseteq Queued
  /\ {MaxCommands, MaxLosses, MaxMoves, MaxFaults} \subseteq Nat

VARIABLES
  inbox,     \* host: the items that wait
  running,   \* host: a turn is under way
  answered,  \* host: the items a turn took, with the texts they had
  link,      \* the control stream is up
  wire,      \* its frames under way
  open,      \* the session is the active one
  follow,    \* its snapshot: asked for, built, overtaken by a frame
  queue,     \* what the gateway knows of the inbox, and the dock shows
  edit,      \* webview: the row that is edited, typed in or not
  calls,     \* the commands, as far as they are
  withdrawn, passed, edited, \* history, for the properties
  losses, moves, faults

vars == <<inbox, running, answered, link, wire, open, follow, queue, edit, calls, withdrawn, passed,
          edited, losses, moves, faults>>
hostVars == <<inbox, running, answered>>
shownVars == <<queue, edit>>
streamVars == <<link, wire, open, follow, shownVars>>
history == <<withdrawn, passed, edited>>
bounds == <<losses, moves, faults>>

(* An item and its place: next-step when steered into the running turn,     *)
(* next-turn before.  A prompt that is sent again is an item of its own.    *)
Item(p, copy, text, steered) == [id |-> <<p, copy>>, text |-> text, steered |-> steered]
PromptOf(id) == id[1]

Found(items, id) == \E i \in DOMAIN items : items[i].id = id
With(items, id) == CHOOSE i \in DOMAIN items : items[i].id = id
Without(items, id) == RemoveAt(items, With(items, id))

NoItem == <<>>
NoSnapshot == [at |-> "none", items |-> <<>>, overtaken |-> FALSE]
NoEdit == [id |-> NoItem, typed |-> FALSE]

Init ==
  /\ inbox \in {s \in [1..Cardinality(Queued) -> {Item(p, 0, 0, FALSE) : p \in Queued}] : IsInjective(s)}
  /\ running \in BOOLEAN /\ answered = {}
  /\ link = TRUE /\ wire = <<>> /\ open = TRUE /\ follow = NoSnapshot
  /\ queue = inbox /\ edit = NoEdit
  /\ calls = <<>> /\ withdrawn = {} /\ passed = FALSE /\ edited = {}
  /\ losses = 0 /\ moves = 0 /\ faults = 0

Faulty == faults < MaxFaults /\ faults' = faults + 1

-----------------------------------------------------------------------------
(* The host.  Every change of the inbox is a projection frame.              *)

InboxBecomes(items) == inbox' = items /\ wire' = IF link THEN Append(wire, items) ELSE wire

(* A turn takes what was steered into it, an idle agent begins a turn with  *)
(* what waits.                                                              *)
Claims ==
  \E i \in DOMAIN inbox :
    /\ running => inbox[i].steered
    /\ InboxBecomes(RemoveAt(inbox, i)) /\ running' = TRUE
    /\ answered' = answered \cup {inbox[i]}
    /\ UNCHANGED <<link, open, follow, shownVars, calls, history, bounds>>

TurnEnds ==
  /\ running /\ running' = FALSE
  /\ UNCHANGED <<inbox, answered, streamVars, calls, history, bounds>>

-----------------------------------------------------------------------------
(* The streams.                                                             *)

Rows(items) == SelectSeq(items, LAMBDA item : ~item.steered)

(* The webview draws what the gateway shows: renderQueued, when the rows    *)
(* changed.  What was typed is gone then, and so is an edit whose item is.  *)
Shows(items) ==
  /\ queue' = items
  /\ edit' = IF Rows(items) = Rows(queue) THEN edit
             ELSE IF Found(Rows(items), edit.id) THEN [edit EXCEPT !.typed = FALSE] ELSE NoEdit

(* handleControl: a projection frame of the active session, or the baseline *)
(* of a new stream.  Frames of other sessions are for their summaries.      *)
FrameArrives ==
  /\ wire # <<>> /\ wire' = Tail(wire)
  /\ IF open THEN Shows(Head(wire)) /\ follow' = [follow EXCEPT !.overtaken = @ \/ follow.at = "built"]
     ELSE UNCHANGED <<follow, shownVars>>
  /\ UNCHANGED <<hostVars, link, open, calls, history, bounds>>

StreamLost ==
  /\ link /\ losses < MaxLosses /\ losses' = losses + 1
  /\ link' = FALSE /\ wire' = <<>>
  /\ UNCHANGED <<hostVars, open, follow, shownVars, calls, history, moves, faults>>

StreamBack ==
  /\ ~link /\ link' = TRUE /\ wire' = <<inbox>>
  /\ UNCHANGED <<hostVars, open, follow, shownVars, calls, history, bounds>>

(* selectSession: the queue is emptied, a snapshot is asked for.            *)
Leaves ==
  /\ open /\ moves < MaxMoves /\ moves' = moves + 1
  /\ open' = FALSE /\ Shows(<<>>) /\ follow' = NoSnapshot
  /\ UNCHANGED <<hostVars, link, wire, calls, history, losses, faults>>

Returns ==
  /\ ~open /\ open' = TRUE /\ follow' = [NoSnapshot EXCEPT !.at = "asked"]
  /\ UNCHANGED <<hostVars, link, wire, shownVars, calls, history, bounds>>

SnapshotBuilt ==
  /\ follow.at = "asked" /\ follow' = [at |-> "built", items |-> inbox, overtaken |-> FALSE]
  /\ UNCHANGED <<hostVars, link, wire, open, shownVars, calls, history, bounds>>

(* handleFollowFrame: the snapshot has the queue, however old it is.        *)
SnapshotArrives ==
  /\ follow.at = "built" /\ follow' = NoSnapshot /\ Shows(follow.items)
  /\ passed' = (passed \/ follow.overtaken)
  /\ UNCHANGED <<hostVars, link, wire, open, calls, withdrawn, edited, bounds>>

-----------------------------------------------------------------------------
(* The dock.                                                                *)

Starts(id) == edit' = [id |-> id, typed |-> FALSE]
Edits ==
  /\ \/ \E i \in DOMAIN Rows(queue) : Rows(queue)[i].id # edit.id /\ Starts(Rows(queue)[i].id)
     \/ edit.id # NoItem /\ ~edit.typed /\ edit' = [edit EXCEPT !.typed = TRUE]
     \/ edit.id # NoItem /\ edit' = NoEdit
  /\ UNCHANGED <<hostVars, link, wire, open, follow, queue, calls, history, bounds>>

(* A command is for the session that is active: where another one is by the *)
(* time it comes, that one has no such item.                                *)
Command(kind, item, text) ==
  /\ Len(calls) < MaxCommands
  /\ calls' = Append(calls, [kind |-> kind, id |-> item.id, text |-> text, at |-> "asking"])
  /\ UNCHANGED <<hostVars, link, wire, open, follow, queue, history, bounds>>

Clicks ==
  \E i \in DOMAIN Rows(queue) : LET row == Rows(queue)[i] IN
    \/ /\ row.id # edit.id /\ UNCHANGED edit
       /\ \E kind \in {"steer", "remove"} : Command(kind, row, row.text)
    \/ /\ row.id = edit.id /\ edit' = NoEdit
       /\ Command("edit", row, IF edit.typed THEN row.text + 1 ELSE row.text)

-----------------------------------------------------------------------------
(* The commands.                                                            *)

Goes(c, at) == calls' = [calls EXCEPT ![c].at = at]

(* What the host did, and whether its answer comes.                         *)
Ends(c, at) == \/ Goes(c, at) /\ UNCHANGED faults
               \/ Goes(c, "failed") /\ Faulty

(* updateQueue with steer: into the running turn.                           *)
SteerAsked(c) ==
  LET call == calls[c] IN
  /\ call.kind = "steer" /\ call.at = "asking"
  /\ IF ~Found(inbox, call.id) THEN Ends(c, "done") /\ UNCHANGED <<inbox, wire>>
     ELSE LET i == With(inbox, call.id) IN
          IF running /\ ~inbox[i].steered
          THEN InboxBecomes([inbox EXCEPT ![i].steered = TRUE]) /\ Ends(c, "done")
          ELSE Ends(c, "refused") /\ UNCHANGED <<inbox, wire>>
  /\ UNCHANGED <<running, answered, link, open, follow, shownVars, history, losses, moves>>

(* The text is what the gateway shows of the item by now.                   *)
SteerRefused(c) ==
  LET call == calls[c] IN
  /\ call.at = "refused"
  /\ IF Found(queue, call.id) /\ PromptOf(call.id) \notin Media
     THEN calls' = [calls EXCEPT ![c].at = "removing", ![c].text = queue[With(queue, call.id)].text]
     ELSE Goes(c, "failed")
  /\ UNCHANGED <<hostVars, streamVars, history, bounds>>

(* Of the item of a steered prompt, or of one that is withdrawn.            *)
Removed(c) ==
  LET call == calls[c]
      next == IF call.kind = "remove" THEN "done" ELSE "steering" IN
  /\ call.at = "removing" \/ (call.kind = "remove" /\ call.at = "asking")
  /\ IF Found(inbox, call.id)
     THEN /\ InboxBecomes(Without(inbox, call.id)) /\ Ends(c, next)
          /\ withdrawn' = IF call.kind = "remove" THEN withdrawn \cup {PromptOf(call.id)} ELSE withdrawn
     ELSE Goes(c, "failed") /\ UNCHANGED <<inbox, wire, withdrawn, faults>>
  /\ UNCHANGED <<running, answered, link, open, follow, shownVars, passed, edited, losses, moves>>

Edited(c) ==
  LET call == calls[c] IN
  /\ call.kind = "edit" /\ call.at = "asking"
  /\ IF Found(inbox, call.id)
     THEN /\ InboxBecomes([inbox EXCEPT ![With(inbox, call.id)].text = call.text])
          /\ Ends(c, "done") /\ edited' = edited \cup {<<call.id, call.text>>}
     ELSE Goes(c, "failed") /\ UNCHANGED <<inbox, wire, edited, faults>>
  /\ UNCHANGED <<running, answered, link, open, follow, shownVars, withdrawn, passed, losses, moves>>

(* sessionPrompt: the text as a new item, its place the mode.               *)
Resent(c, steered) ==
  LET call == calls[c]
      copy == IF steered THEN 2 * c - 1 ELSE 2 * c IN
  InboxBecomes(Append(inbox, Item(PromptOf(call.id), copy, call.text, steered)))

(* Into the running turn, or else to the queue: a refusal, a failure and an *)
(* answer that is lost look the same.                                       *)
Resteered(c) ==
  /\ calls[c].at = "steering"
  /\ \/ running /\ Resent(c, TRUE) /\ Goes(c, "done") /\ UNCHANGED faults
     \/ running /\ Resent(c, TRUE) /\ Goes(c, "queueing") /\ Faulty
     \/ Goes(c, "queueing") /\ UNCHANGED <<inbox, wire>> /\ IF running THEN Faulty ELSE UNCHANGED faults
  /\ UNCHANGED <<running, answered, link, open, follow, shownVars, history, losses, moves>>

QueuedAgain(c) ==
  /\ calls[c].at = "queueing" /\ Resent(c, FALSE) /\ Ends(c, "done")
  /\ UNCHANGED <<running, answered, link, open, follow, shownVars, history, losses, moves>>

(* Mutant of QueueingFails: the error of the last request is swallowed too. *)
QueueingFailsSilently(c) ==
  /\ calls[c].at = "queueing" /\ Faulty /\ Goes(c, "done")
  /\ UNCHANGED <<hostVars, streamVars, history, losses, moves>>

(* The user is told.                                                        *)
QueueingFails(c) ==
  /\ calls[c].at = "queueing" /\ Faulty /\ Goes(c, "failed")
  /\ UNCHANGED <<hostVars, streamVars, history, losses, moves>>

(* A request that never reached the host.                                   *)
RequestFails(c) ==
  /\ calls[c].at \in {"asking", "removing"} /\ Faulty /\ Goes(c, "failed")
  /\ UNCHANGED <<hostVars, streamVars, history, losses, moves>>

Next ==
  \/ Claims \/ TurnEnds
  \/ FrameArrives \/ StreamLost \/ StreamBack \/ Leaves \/ Returns \/ SnapshotBuilt \/ SnapshotArrives
  \/ Edits \/ Clicks
  \/ \E c \in DOMAIN calls :
       \/ SteerAsked(c) \/ SteerRefused(c) \/ Removed(c) \/ Edited(c)
       \/ Resteered(c) \/ QueuedAgain(c) \/ QueueingFails(c) \/ RequestFails(c)

Spec == Init /\ [][Next]_vars

-----------------------------------------------------------------------------
(* A prompt the user did not withdraw waits, was taken by a turn, is on its *)
(* way between two requests of a steer, or its steer failed and the user    *)
(* was told so.                                                             *)
Told(p) == \E c \in DOMAIN calls : PromptOf(calls[c].id) = p /\ calls[c].at = "failed"
UnderWay(p) == \E c \in DOMAIN calls : PromptOf(calls[c].id) = p /\ calls[c].at \in {"steering", "queueing"}
Waits(p) == \E i \in DOMAIN inbox : PromptOf(inbox[i].id) = p
PromptKept ==
  \A p \in Queued \ withdrawn :
    Waits(p) \/ (\E item \in answered : PromptOf(item.id) = p) \/ UnderWay(p) \/ Told(p)

(* Once nothing is under way the dock has the rows of the inbox, unless a   *)
(* snapshot came after a frame newer than it; and it edits one of its rows  *)
(* or none.                                                                 *)
Quiet == open /\ link /\ wire = <<>> /\ follow = NoSnapshot
DockInStep ==
  /\ Quiet /\ ~passed => queue = inbox
  /\ edit.id # NoItem => Found(Rows(queue), edit.id)

QueueKept == PromptKept /\ DockInStep

(* Not kept: an answer that was lost sends the prompt a second time.        *)
SentOnce ==
  \A x, y \in answered : PromptOf(x.id) = PromptOf(y.id) => x = y

(* Not kept: a steer sends the text the gateway shows, which may be older   *)
(* than an edit the host confirmed.                                         *)
EditKept ==
  \A item \in answered : \A e \in edited :
    PromptOf(item.id) = PromptOf(e[1]) => item.text >= e[2]

(* Not kept: a snapshot that was overtaken by a frame stands.               *)
NeverBehind == Quiet => queue = inbox
=============================================================================
