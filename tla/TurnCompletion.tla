---------------------------- MODULE TurnCompletion ----------------------------
(***************************************************************************)
(* Completion notices: the TurnCompletionTracker of the gateway service     *)
(* over the $events stream and cancel(), and the serial queue of the        *)
(* CompletionNotifications.  A turn is its number in its session.  Child    *)
(* agents are left out: their turns are tracked and never announced.        *)
(***************************************************************************)
EXTENDS Naturals, Sequences, FiniteSets

CONSTANTS
  Sessions,   \* conversations
  MaxTurns,   \* bound: turns of one session
  MaxCancels, \* bound: calls of cancel()
  MaxLosses   \* bound: lost streams

CompletionAssumption ==
  MaxTurns \in Nat /\ MaxCancels \in Nat /\ MaxLosses \in Nat

VARIABLES
  turns,     \* the tracker: the live turn of each session, or NoTurn
  summaries, \* sessions of the list
  wire,      \* events under way
  linked,    \* the stream is open
  calls,     \* cancel() under way: the turn it marked, and the turn it ends
  cancels,
  notices,   \* completions fired, oldest first
  queue,     \* notices waiting for the operating system
  showing,   \* notices it is given
  disposed,
  history,   \* the host: the turns of each session
  losses

trackVars == <<turns, summaries>>
noticeVars == <<notices, queue, showing, disposed>>
callVars == <<calls, cancels>>
vars == <<trackVars, wire, linked, callVars, noticeVars, history, losses>>

NoTurn == [number |-> 0, since |-> 0, failed |-> FALSE, cancelled |-> FALSE]
Turn == [running |-> TRUE, errors |-> FALSE, stopped |-> FALSE, restored |-> FALSE, cut |-> FALSE]
Number(s) == Len(history[s])
Runs(s) == history[s] # <<>> /\ history[s][Number(s)].running

Init ==
  /\ turns = [s \in Sessions |-> NoTurn] /\ summaries = Sessions
  /\ wire = <<>> /\ linked = TRUE /\ calls = {} /\ cancels = 0
  /\ notices = <<>> /\ queue = <<>> /\ showing = {} /\ disposed = FALSE
  /\ history = [s \in Sessions |-> <<>>] /\ losses = 0

-----------------------------------------------------------------------------
(* The host.                                                                *)

Sends(event) == wire' = IF linked THEN Append(wire, event) ELSE wire

HostStarts(s) ==
  /\ ~Runs(s) /\ Number(s) < MaxTurns
  /\ history' = [history EXCEPT ![s] = Append(@, [Turn EXCEPT !.cut = ~linked])]
  /\ Sends([type |-> "status", session |-> s, running |-> TRUE, number |-> Number(s) + 1])
  /\ UNCHANGED <<trackVars, linked, callVars, noticeVars, losses>>

(* A busy session may announce itself again.                                *)
HostRepeats(s) ==
  /\ Runs(s) /\ Len(wire) < 2
  /\ Sends([type |-> "status", session |-> s, running |-> TRUE, number |-> Number(s)])
  /\ UNCHANGED <<trackVars, linked, callVars, noticeVars, history, losses>>

HostErrs(s) ==
  /\ Runs(s) /\ ~history[s][Number(s)].errors
  /\ history' = [history EXCEPT ![s][Number(s)].errors = TRUE]
  /\ Sends([type |-> "error", session |-> s])
  /\ UNCHANGED <<trackVars, linked, callVars, noticeVars, losses>>

HostEnds(s) ==
  /\ Runs(s)
  /\ history' = [history EXCEPT ![s][Number(s)].running = FALSE]
  /\ Sends([type |-> "status", session |-> s, running |-> FALSE, number |-> Number(s)])
  /\ UNCHANGED <<trackVars, linked, callVars, noticeVars, losses>>

HostRemoves(s) ==
  /\ s \in summaries /\ ~Runs(s) /\ Number(s) = MaxTurns
  /\ \A i \in DOMAIN wire : wire[i].type # "removed"
  /\ Sends([type |-> "removed", session |-> s])
  /\ UNCHANGED <<trackVars, linked, callVars, noticeVars, history, losses>>

-----------------------------------------------------------------------------
(* TurnCompletionTracker and handleRemoteEvent.                             *)

Starts(turn, number) ==
  IF turn = NoTurn THEN [NoTurn EXCEPT !.number = number, !.since = losses] ELSE turn

Due(s) == turns[s] # NoTurn /\ ~turns[s].cancelled /\ s \in summaries

Complete(s) ==
  LET notice == [session |-> s, number |-> turns[s].number, failed |-> turns[s].failed] IN
    IF ~Due(s) THEN UNCHANGED noticeVars
    ELSE /\ notices' = Append(notices, notice)
         /\ \/ queue' = IF disposed THEN queue ELSE Append(queue, notice)
            \/ queue' = queue                             \* switched off in the settings
         /\ UNCHANGED <<showing, disposed>>

HandleStatus(event) ==
  /\ event.type = "status"
  /\ IF event.running
     THEN /\ turns' = [turns EXCEPT ![event.session] = Starts(@, event.number)]
          /\ UNCHANGED noticeVars
     ELSE turns' = [turns EXCEPT ![event.session] = NoTurn] /\ Complete(event.session)
  /\ UNCHANGED summaries

HandleError(event) ==
  /\ event.type = "error"
  /\ turns' = IF turns[event.session] = NoTurn THEN turns
              ELSE [turns EXCEPT ![event.session].failed = TRUE]
  /\ UNCHANGED <<summaries, noticeVars>>

HandleRemoved(event) ==
  /\ event.type = "removed"
  /\ summaries' = summaries \ {event.session}
  /\ turns' = [turns EXCEPT ![event.session] = NoTurn]
  /\ UNCHANGED noticeVars

Receive ==
  /\ wire # <<>> /\ wire' = Tail(wire)
  /\ LET event == Head(wire) IN HandleStatus(event) \/ HandleError(event) \/ HandleRemoved(event)
  /\ UNCHANGED <<linked, callVars, history, losses>>

(* The pump clears the tracker: what ends unseen is not announced.          *)
StreamLost ==
  /\ linked /\ losses < MaxLosses
  /\ linked' = FALSE /\ losses' = losses + 1 /\ wire' = <<>>
  /\ turns' = [s \in Sessions |-> NoTurn]
  /\ history' = [s \in Sessions |-> [i \in DOMAIN history[s] |-> [history[s][i] EXCEPT !.cut = TRUE]]]
  /\ UNCHANGED <<summaries, callVars, noticeVars>>

StreamBack ==
  /\ ~linked /\ linked' = TRUE
  /\ UNCHANGED <<trackVars, wire, callVars, noticeVars, history, losses>>

-----------------------------------------------------------------------------
(* cancel(): the live turn is marked before the host is asked.              *)

Cancel(s) ==
  /\ cancels < MaxCancels /\ cancels' = cancels + 1
  /\ turns' = IF turns[s] = NoTurn THEN turns ELSE [turns EXCEPT ![s].cancelled = TRUE]
  /\ calls' = calls \cup {[id |-> cancels', session |-> s, number |-> turns[s].number,
                            since |-> turns[s].since]}
  /\ UNCHANGED <<summaries, wire, linked, noticeVars, history, losses>>

Answered(call, answer) ==
  /\ calls' = calls \ {call}
  /\ history' = IF call.number = 0 THEN history
                ELSE [history EXCEPT ![call.session][call.number].stopped = @ \/ answer.stopped,
                                     ![call.session][call.number].restored = @ \/ answer.restored]

CancelSucceeds(call) ==
  /\ Answered(call, [stopped |-> TRUE, restored |-> FALSE])
  /\ UNCHANGED <<trackVars, wire, linked, cancels, noticeVars, losses>>

(* Mutant of Restored: the rollback finds whatever turn runs now.           *)
RestoredInLaterTurn(turn, call) == [turn EXCEPT !.cancelled = FALSE]

(* The rollback keeps the object it marked.                                 *)
Restored(turn, call) ==
  IF call.number # 0 /\ turn.number = call.number /\ turn.since = call.since
  THEN [turn EXCEPT !.cancelled = FALSE] ELSE turn

CancelFails(call) ==
  /\ turns' = [turns EXCEPT ![call.session] = Restored(@, call)]
  /\ Answered(call, [stopped |-> FALSE, restored |-> TRUE])
  /\ UNCHANGED <<summaries, wire, linked, cancels, noticeVars, losses>>

-----------------------------------------------------------------------------
(* CompletionNotifications: one notice at a time, whatever the notifier     *)
(* throws; nothing is shown once disposed.                                  *)

Show ==
  /\ queue # <<>> /\ showing = {}
  /\ queue' = Tail(queue)
  /\ showing' = IF disposed THEN {} ELSE {Head(queue)}
  /\ UNCHANGED <<trackVars, wire, linked, callVars, notices, disposed, history, losses>>

ShowEnds ==
  /\ showing # {} /\ showing' = {}
  /\ UNCHANGED <<trackVars, wire, linked, callVars, notices, queue, disposed, history, losses>>

Dispose ==
  /\ ~disposed /\ disposed' = TRUE
  /\ UNCHANGED <<trackVars, wire, linked, callVars, notices, queue, showing, history, losses>>

Next ==
  \/ \E s \in Sessions : HostStarts(s) \/ HostRepeats(s) \/ HostErrs(s) \/ HostEnds(s)
                         \/ HostRemoves(s) \/ Cancel(s)
  \/ Receive \/ StreamLost \/ StreamBack
  \/ \E call \in calls : CancelSucceeds(call) \/ CancelFails(call)
  \/ Show \/ ShowEnds \/ Dispose

Spec == Init /\ [][Next]_vars

-----------------------------------------------------------------------------
Noticed(s, n) == {i \in DOMAIN notices : notices[i].session = s /\ notices[i].number = n}

Marked(s, n) ==
  history[s][n].stopped \/ \E call \in calls : call.session = s /\ call.number = n

(* turn-completion-tracker.ts:6 and :28: each turn that ended in front of   *)
(* an open stream is announced once, as failed just when it reported an     *)
(* error; one that runs or was cancelled is not, even when                  *)
(* the cancel() of an earlier turn fails late.                              *)
NoticesAreDue ==
  /\ \A i \in DOMAIN notices :
       LET s == notices[i].session
           n == notices[i].number
       IN /\ ~history[s][n].running
          /\ Cardinality(Noticed(s, n)) = 1
          /\ history[s][n].cut \/ notices[i].failed = history[s][n].errors
          /\ Marked(s, n) => history[s][n].restored \/ history[s][n].cut
  /\ wire = <<>> =>
       \A s \in summaries : \A n \in DOMAIN history[s] :
         LET turn == history[s][n] IN
           ~turn.running /\ ~turn.cut /\ ~turn.restored /\ ~Marked(s, n) => Noticed(s, n) # {}
=============================================================================
