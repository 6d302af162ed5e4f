--------------------------- MODULE AssistantStream ---------------------------
(***************************************************************************)
(* The text an assistant is writing: AssistantStreamState and the follow   *)
(* stream that feeds it.  Frames of the agent's own revision clock and     *)
(* durable events share one stream; a frame that does not fit closes it,   *)
(* and the snapshot of the next one carries a baseline.                     *)
(*                                                                         *)
(* A chunk is the number of its frame; expanding one into presentation     *)
(* entries is left out.  All attempts belong to the one step of their turn. *)
(***************************************************************************)
EXTENDS Naturals, Sequences

CONSTANTS
  MaxAttempts,  \* bound: attempts the agents start
  MaxChunks,    \* bound: chunks of one attempt
  MaxLosses     \* bound: streams lost and agents attached anew

StreamAssumption == MaxAttempts \in Nat /\ MaxChunks \in Nat /\ MaxLosses \in Nat

VARIABLES
  revision,   \* the client's copy of the agent's clock
  attempt,    \* the attempt on screen: NoAttempt, or its number and its chunks
  entries,    \* the durable log on screen
  link,       \* "down", "snapshot" asked for, "up"
  wire,       \* frames under way
  \* the host
  clock,      \* revision of the last frame of this agent
  writing,    \* the attempt under way
  log,        \* durable events
  turn,       \* number of the turn
  started,    \* attempts begun
  ended,      \* the outcome of the last attempt, until its message is durable
  losses

clientVars == <<revision, attempt, entries>>
agentVars == <<clock, writing, turn, started, ended>>
vars == <<clientVars, link, wire, agentVars, log, losses>>

NoAttempt == [id |-> 0, after |-> 0, turn |-> 0, chunks |-> <<>>]

Init ==
  /\ revision = 0 /\ attempt = NoAttempt /\ entries = <<>> /\ link = "down" /\ wire = <<>>
  /\ clock = 0 /\ writing = NoAttempt /\ log = <<>> /\ turn = 1
  /\ started = 0 /\ ended = "none" /\ losses = 0

-----------------------------------------------------------------------------
(* AssistantStreamState.  Seqs of events are their places in the log.       *)

(* Mutant of Settles: the durable clock is not asked.                       *)
SettlesAnyAge(seq, event, att) ==
  \/ event.type \in {"message", "attempt"} /\ event.turn = att.turn
  \/ event.type = "end" /\ event.turn = att.turn

Settles(seq, event, att) ==
  \/ event.type \in {"message", "attempt"} /\ event.turn = att.turn /\ seq > att.after
  \/ event.type = "end" /\ event.turn = att.turn

Settled(seqs, events, att) ==
  IF \E i \in seqs : Settles(i, events[i], att) THEN NoAttempt ELSE att

(* reset(baseline), and every event on screen settles it.                   *)
Reset(baseline, events) ==
  /\ revision' = baseline.revision
  /\ attempt' = Settled(DOMAIN events, events, baseline.attempt)

(* A gap or a mismatch throws: the pump reopens the stream.                 *)
Throw(rev) ==
  /\ link' = "down" /\ wire' = <<>>
  /\ revision' = rev
  /\ UNCHANGED <<attempt, entries>>

Took == UNCHANGED <<link, entries>> /\ wire' = Tail(wire)

(* accept().  A start with revision one of another attempt is a new clock.  *)
AcceptStart(frame) ==
  /\ frame.type = "start"
  /\ LET known == IF frame.revision = 1 /\ frame.id # attempt.id THEN 0 ELSE revision
         shown == IF frame.revision = 1 /\ frame.id # attempt.id THEN NoAttempt ELSE attempt
     IN \/ /\ frame.revision <= known
           /\ revision' = known /\ attempt' = shown /\ Took
        \/ frame.revision > known + 1 /\ Throw(known)
        \/ /\ frame.revision = known + 1
           /\ revision' = frame.revision
           /\ attempt' = [id |-> frame.id, after |-> frame.after, turn |-> frame.turn, chunks |-> <<>>]
           /\ Took

AcceptChunk(frame) ==
  /\ frame.type = "chunk"
  /\ \/ frame.revision <= revision /\ UNCHANGED <<revision, attempt>> /\ Took
     \/ frame.revision > revision + 1 /\ Throw(revision)
     \/ /\ frame.revision = revision + 1
        /\ IF attempt.id = frame.id /\ Len(attempt.chunks) = frame.index
           THEN /\ revision' = frame.revision
                /\ attempt' = [attempt EXCEPT !.chunks = Append(@, frame.index + 1)] /\ Took
           ELSE Throw(frame.revision)

(* Mutant of AcceptEnd: a committed prefix goes before its message is there. *)
AcceptEndEagerly(frame) ==
  /\ frame.type = "done"
  /\ revision' = frame.revision /\ attempt' = NoAttempt /\ Took

(* The end of an attempt: an abandoned one disappears, a committed one      *)
(* stays until its message.                                                 *)
AcceptEnd(frame) ==
  /\ frame.type = "done"
  /\ \/ frame.revision <= revision /\ UNCHANGED <<revision, attempt>> /\ Took
     \/ frame.revision > revision + 1 /\ Throw(revision)
     \/ /\ frame.revision = revision + 1
        /\ IF attempt = NoAttempt \/ (attempt.id = frame.id /\ Len(attempt.chunks) = frame.index)
           THEN /\ revision' = frame.revision
                /\ attempt' = IF frame.abandoned THEN NoAttempt ELSE attempt
                /\ Took
           ELSE Throw(frame.revision)

(* handleFollowFrame: a snapshot, a durable event, or a stream frame.       *)
TakeSnapshot(frame) ==
  /\ frame.type = "snapshot"
  /\ entries' = frame.log
  /\ Reset(frame, frame.log)
  /\ wire' = Tail(wire) /\ UNCHANGED link

TakeEvent(frame) ==
  /\ frame.type = "event"
  /\ entries' = Append(entries, frame.event)
  /\ attempt' = Settled({Len(entries')}, entries', attempt)
  /\ wire' = Tail(wire) /\ UNCHANGED <<revision, link>>

Receive ==
  /\ wire # <<>>
  /\ LET frame == Head(wire) IN
       \/ TakeSnapshot(frame) \/ TakeEvent(frame)
       \/ AcceptStart(frame) \/ AcceptChunk(frame) \/ AcceptEnd(frame)
  /\ UNCHANGED <<agentVars, log, losses>>

-----------------------------------------------------------------------------
(* The host and the stream.                                                 *)

Sends(frame) == wire' = IF link = "up" THEN Append(wire, frame) ELSE wire

Open ==
  /\ link = "down"
  /\ link' = "up"
  /\ wire' = <<[type |-> "snapshot", log |-> log, revision |-> clock, attempt |-> writing]>>
  /\ UNCHANGED <<clientVars, agentVars, log, losses>>

Lose ==
  /\ link = "up" /\ losses < MaxLosses
  /\ link' = "down" /\ wire' = <<>> /\ losses' = losses + 1
  /\ UNCHANGED <<clientVars, agentVars, log>>

Start ==
  /\ writing = NoAttempt /\ ended = "none" /\ started < MaxAttempts
  /\ started' = started + 1 /\ clock' = clock + 1
  /\ writing' = [id |-> started', after |-> Len(log), turn |-> turn, chunks |-> <<>>]
  /\ Sends([type |-> "start", revision |-> clock', id |-> started', after |-> Len(log), turn |-> turn])
  /\ UNCHANGED <<clientVars, link, log, turn, ended, losses>>

Write ==
  /\ writing # NoAttempt /\ Len(writing.chunks) < MaxChunks
  /\ clock' = clock + 1
  /\ writing' = [writing EXCEPT !.chunks = Append(@, Len(@) + 1)]
  /\ Sends([type |-> "chunk", revision |-> clock', id |-> writing.id, index |-> Len(writing.chunks)])
  /\ UNCHANGED <<clientVars, link, log, turn, started, ended, losses>>

Ended(abandoned) ==
  /\ clock' = clock + 1 /\ writing' = NoAttempt
  /\ Sends([type |-> "done", revision |-> clock', id |-> writing.id,
            index |-> Len(writing.chunks), abandoned |-> abandoned])

(* The end marker goes before or after the durable message.                 *)
EndFirst ==
  /\ writing # NoAttempt
  /\ \E abandoned \in BOOLEAN :
       Ended(abandoned) /\ ended' = IF abandoned THEN "none" ELSE "committed"
  /\ UNCHANGED <<clientVars, link, log, turn, started, losses>>

Logs(event) ==
  /\ log' = Append(log, event)
  /\ Sends([type |-> "event", event |-> event])

MessageLater ==
  /\ ended = "committed"
  /\ ended' = "none"
  /\ Logs([type |-> "message", turn |-> turn])
  /\ UNCHANGED <<clientVars, link, clock, writing, turn, started, losses>>

MessageFirst ==
  /\ writing # NoAttempt /\ ended = "none"
  /\ \E type \in {"message", "attempt"} : Logs([type |-> type, turn |-> turn])
  /\ ended' = "logged"
  /\ UNCHANGED <<clientVars, link, clock, writing, turn, started, losses>>

EndLater ==
  /\ ended = "logged"
  /\ Ended(FALSE) /\ ended' = "none"
  /\ UNCHANGED <<clientVars, link, log, turn, started, losses>>

TurnEnds ==
  /\ writing = NoAttempt /\ ended = "none" /\ started < MaxAttempts
  /\ Len(log) > 0 /\ log[Len(log)].type # "end"
  /\ Logs([type |-> "end", turn |-> turn]) /\ turn' = turn + 1
  /\ UNCHANGED <<clientVars, link, clock, writing, started, ended, losses>>

(* Another agent takes the session over, with a clock of its own.           *)
Reattach ==
  /\ writing = NoAttempt /\ ended = "none" /\ clock > 0 /\ losses < MaxLosses
  /\ clock' = 0 /\ losses' = losses + 1
  /\ UNCHANGED <<clientVars, link, wire, log, writing, turn, started, ended>>

Next ==
  \/ Receive \/ Open \/ Lose \/ Start \/ Write \/ EndFirst \/ MessageLater \/ MessageFirst
  \/ EndLater \/ TurnEnds \/ Reattach

Spec == Init /\ [][Next]_vars

-----------------------------------------------------------------------------
CaughtUp == link = "up" /\ wire = <<>>

(* AssistantStreamState: once the frames under way are taken, the screen    *)
(* shows exactly what the agent has written of its attempt, and text that   *)
(* is neither in the log nor being written does not stay: not the attempt   *)
(* before it in the same step, nor one of an agent that is gone.            *)
LiveTextIsWriting ==
  CaughtUp =>
    CASE writing # NoAttempt /\ ended = "none" -> attempt = writing
      [] ended = "logged" -> attempt = NoAttempt
      [] ended = "committed" -> attempt.id \in {0, started}
      [] OTHER -> attempt = NoAttempt

(* assistant-stream-state.ts:69: text that was on screen stays there until  *)
(* the event that settles it, or the loss of the stream, takes it away.     *)
NoFlicker ==
  [][attempt # NoAttempt /\ attempt'.id # attempt.id /\ link' = "up" /\ wire # <<>>
       => Head(wire).type \in {"snapshot", "start"} \/ Len(entries') > Len(entries)
          \/ (Head(wire).type = "done" /\ Head(wire).abandoned)]_vars
=============================================================================
