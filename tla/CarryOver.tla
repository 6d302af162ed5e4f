------------------------------ MODULE CarryOver ------------------------------
(***************************************************************************)
(* The context that travels when a conversation goes on in a fresh session: *)
(* a prompt that asks for another mode, or that was typed in a session      *)
(* without a worktree of its own, opens a session, and a digest of the old  *)
(* one rides hidden with the next prompt.  From HarnessGatewayService:      *)
(* sendPrompt, migrateUnisolatedSession, applyPromptConfiguration,          *)
(* createSession, and domain/carry-over.ts.  Parking and admission are      *)
(* PromptAdmission's; here every configuration is applied before its prompt *)
(* is sent.  The armed digest lives as long as the window.                  *)
(***************************************************************************)
EXTENDS Naturals, Sequences, FiniteSets, SequencesExt

CONSTANTS
  Sessions,   \* session ids
  First,      \* the session that is open at the start, in mode FirstMode
  FirstMode,
  NoSession,  \* no session, no digest armed
  Modes,      \* agent presets
  AsIs,       \* a prompt without a configuration
  Prompts,    \* sendPrompt calls, each made once
  Before,     \* a prompt of an earlier window
  MaxTurns,   \* turns a digest takes, the newest (MAX_TURNS)
  MaxText,    \* texts that fit into a turn of a digest (MAX_TURN_CHARS)
  MaxMoves,   \* bound: the user selects a session
  MaxFaults   \* bound: requests that fail or whose answer is lost

CarryAssumption ==
  /\ First \in Sessions /\ FirstMode \in Modes /\ NoSession \notin Sessions /\ AsIs \notin Modes
  /\ Before \notin Prompts
  /\ {MaxTurns, MaxText} \subseteq Nat \ {0} /\ {MaxMoves, MaxFaults} \subseteq Nat

VARIABLES
  mode,       \* the sessions there are, and their mode (summaries)
  isolated,   \* sessions with a worktree
  log,        \* host: the prompts of a session, each with the digest it carried
  active,     \* activeSessionId
  seen,       \* how much of its log is on screen (entries)
  carry,      \* pendingCarryOver
  creating,   \* creatingSessions, by mode
  call,       \* progress of the calls
  armed,      \* history: the digest armed for a session
  displaced,  \* history: sessions whose digest made room for another's
  early,      \* history: sessions with a send that began before they were ready
  moves, faults

vars == <<mode, isolated, log, active, seen, carry, creating, call, armed, displaced, early, moves,
          faults>>
screenVars == <<active, seen>>
history == <<armed, displaced, early>>

NoCarry == [target |-> NoSession, text |-> <<>>]
NotCreating == [at |-> "none", session |-> NoSession]
Unused == [at |-> "unused", want |-> AsIs, opens |-> FirstMode, digest |-> <<>>,
           target |-> NoSession, migrated |-> FALSE]

NowAt(at) == [Unused EXCEPT !.at = at]
Blank(s) == log[s] = <<>>

Init ==
  /\ mode = [s \in {First} |-> FirstMode]
  /\ isolated \in {{}, {First}}
  /\ \E earlier \in {<<>>, <<[prompt |-> Before, digest |-> <<>>]>>} :
       log = [s \in Sessions |-> IF s = First THEN earlier ELSE <<>>]
  /\ active = First /\ seen = 0
  /\ carry = NoCarry /\ creating = [m \in Modes |-> NotCreating]
  /\ call = [p \in Prompts |-> Unused]
  /\ armed = [s \in Sessions |-> <<>>] /\ displaced = {} /\ early = {}
  /\ moves = 0 /\ faults = 0

Faulty == faults < MaxFaults /\ faults' = faults + 1

-----------------------------------------------------------------------------
(* buildCarryOverMessage.  The text of a turn begins with the digest it     *)
(* carried itself, and what does not fit is cut at the end.                 *)
Clipped(text) == SubSeq(text, 1, IF Len(text) < MaxText THEN Len(text) ELSE MaxText)
TurnText(turn) == Clipped(turn.digest \o <<turn.prompt>>)
Newest(turns) == SubSeq(turns, IF Len(turns) > MaxTurns THEN Len(turns) - MaxTurns + 1 ELSE 1, Len(turns))

(* buildCarryOverForActiveSession: of what is on screen now.                *)
Digest == FlattenSeq([i \in DOMAIN Newest(SubSeq(log[active], 1, seen)) |->
                        TurnText(Newest(SubSeq(log[active], 1, seen))[i])])

(* createSession: a creation under way for the same mode is joined.         *)
Creates(p, want, m, moved) ==
  /\ call' = [call EXCEPT ![p].at = "creating", ![p].want = want, ![p].opens = m,
                          ![p].digest = Digest, ![p].migrated = moved]
  /\ creating' = IF creating[m].at = "none" THEN [creating EXCEPT ![m].at = "preparing"] ELSE creating

(* The configuration of a prompt meets the session that is active now: a    *)
(* blank one takes the mode, one with a conversation is left for a new one. *)
Configures(p, want) ==
  IF want \in {AsIs, mode[active]}
  THEN call' = [call EXCEPT ![p] = NowAt("applying")] /\ UNCHANGED <<mode, creating>>
  ELSE IF Blank(active)
  THEN /\ mode' = [mode EXCEPT ![active] = want]
       /\ call' = [call EXCEPT ![p] = NowAt("applying")] /\ UNCHANGED creating
  ELSE Creates(p, want, want, FALSE) /\ UNCHANGED mode

(* sendPrompt up to its first await.                                        *)
Sends(p, want) ==
  /\ call[p].at = "unused"
  /\ IF active \in isolated THEN Configures(p, want)
     ELSE /\ call' = [call EXCEPT ![p].at = "checking", ![p].want = want, ![p].target = active]
          /\ UNCHANGED <<mode, creating>>
  /\ UNCHANGED <<isolated, log, screenVars, carry, history, moves, faults>>

(* A checkout with changes keeps its session.  Otherwise the mode is that   *)
(* of the session the prompt was typed in, the digest that of the session   *)
(* active by now.                                                           *)
Checked(p) ==
  /\ call[p].at = "checking"
  /\ \/ Configures(p, call[p].want)
     \/ Creates(p, call[p].want, mode[call[p].target], TRUE) /\ UNCHANGED mode
  /\ UNCHANGED <<isolated, log, screenVars, carry, history, moves, faults>>

Callers(m) == {p \in Prompts : call[p].at = "creating" /\ call[p].opens = m}
FailCallers(m) == call' = [p \in Prompts |-> IF p \in Callers(m) THEN NowAt("failed") ELSE call[p]]

(* The worktree, if there is to be one, and the session: it is selected.    *)
SessionCreated(m) ==
  /\ creating[m].at = "preparing"
  /\ \/ \E s \in Sessions \ DOMAIN mode :
          /\ mode' = [t \in DOMAIN mode \cup {s} |-> IF t = s THEN m ELSE mode[t]]
          /\ \/ isolated' = isolated \cup {s}
             \/ UNCHANGED isolated
          /\ active' = s /\ seen' = 0
          /\ creating' = [creating EXCEPT ![m] = [at |-> "selected", session |-> s]]
          /\ UNCHANGED <<call, faults>>
     \/ /\ Faulty /\ FailCallers(m) /\ creating' = [creating EXCEPT ![m] = NotCreating]
        /\ UNCHANGED <<mode, isolated, screenVars>>
  /\ UNCHANGED <<log, carry, history, moves>>

(* pendingCarryOver has room for one digest.                                *)
Arms(s, digest) ==
  IF digest = <<>> THEN UNCHANGED <<carry, armed, displaced>>
  ELSE /\ carry' = [target |-> s, text |-> digest]
       /\ armed' = [armed EXCEPT ![s] = digest]
       /\ displaced' = displaced \cup ({carry.target} \ {NoSession, s})

(* Its catalogues are read, its model and permission set: whoever waited    *)
(* goes on, and arms the digest only now.  When a request fails the session *)
(* is there, and nobody arms anything.                                      *)
CreationEnds(m) ==
  /\ creating[m].at = "selected"
  /\ creating' = [creating EXCEPT ![m] = NotCreating]
  /\ \/ /\ \E p \in Callers(m) :
             /\ \A q \in Callers(m) : call[q].digest # <<>> => call[p].digest # <<>>
             /\ Arms(creating[m].session, call[p].digest)
        /\ call' = [p \in Prompts |-> IF p \notin Callers(m) THEN call[p]
                      ELSE IF call[p].migrated
                      THEN [NowAt("migrated") EXCEPT !.want = call[p].want] ELSE NowAt("applying")]
        /\ UNCHANGED faults
     \/ Faulty /\ FailCallers(m) /\ UNCHANGED <<carry, armed, displaced>>
  /\ UNCHANGED <<mode, isolated, log, screenVars, early, moves>>

(* The prompt of a session that was moved goes on with its configuration.   *)
Moved(p) ==
  /\ call[p].at = "migrated" /\ Configures(p, call[p].want)
  /\ UNCHANGED <<isolated, log, screenVars, carry, history, moves, faults>>

(* The session active by now is the target; an armed digest is looked at.   *)
Applied(p) ==
  /\ call[p].at = "applying"
  /\ \/ /\ call' = [call EXCEPT ![p].at = "sending", ![p].target = active,
              ![p].digest = IF carry.target = active THEN carry.text ELSE <<>>]
        /\ early' = early \cup ({active} \cap {creating[m].session : m \in Modes})
        /\ UNCHANGED faults
     \/ Faulty /\ call' = [call EXCEPT ![p] = NowAt("failed")] /\ UNCHANGED early
  /\ UNCHANGED <<mode, isolated, log, screenVars, carry, creating, armed, displaced, moves>>

HostAccepts(p) ==
  /\ call[p].at = "sending"
  /\ log' = [log EXCEPT ![call[p].target] = Append(@, [prompt |-> p, digest |-> call[p].digest])]
  /\ call' = [call EXCEPT ![p] = [NowAt("accepted") EXCEPT !.target = call[p].target]]
  /\ UNCHANGED <<mode, isolated, screenVars, carry, creating, history, moves, faults>>

ClearCarryOver(s) == carry' = IF carry.target = s THEN NoCarry ELSE carry

Confirmed(p) ==
  /\ call[p].at = "accepted"
  /\ call' = [call EXCEPT ![p] = NowAt("done")] /\ ClearCarryOver(call[p].target)
  /\ UNCHANGED <<mode, isolated, log, screenVars, creating, history, moves, faults>>

(* Mutant of SendFails: a failed send has used the digest up.               *)
SendFailsCleared(p) ==
  /\ call[p].at \in {"sending", "accepted"} /\ Faulty
  /\ call' = [call EXCEPT ![p] = NowAt("failed")] /\ ClearCarryOver(call[p].target)
  /\ UNCHANGED <<mode, isolated, log, screenVars, creating, history, moves>>

(* An upload or the prompt failed, or only its answer was lost: the digest  *)
(* stays armed.                                                             *)
SendFails(p) ==
  /\ call[p].at \in {"sending", "accepted"} /\ Faulty
  /\ call' = [call EXCEPT ![p] = NowAt("failed")]
  /\ UNCHANGED <<mode, isolated, log, screenVars, carry, creating, history, moves>>

-----------------------------------------------------------------------------
(* The transcript of the active session arrives: a snapshot, or an event.   *)
Arrives ==
  /\ seen < Len(log[active]) /\ \E n \in {seen + 1, Len(log[active])} : seen' = n
  /\ UNCHANGED <<mode, isolated, log, active, carry, creating, call, history, moves, faults>>

SelectSession(s) ==
  /\ s \in DOMAIN mode \ {active} /\ moves < MaxMoves /\ moves' = moves + 1
  /\ active' = s /\ seen' = 0
  /\ UNCHANGED <<mode, isolated, log, carry, creating, call, history, faults>>

(* A call that goes on without waiting goes first.                          *)
Next ==
  \/ \E p \in Prompts : Moved(p)
  \/ /\ \A p \in Prompts : call[p].at # "migrated"
     /\ \/ \E p \in Prompts :
             \/ \E want \in Modes \cup {AsIs} : Sends(p, want)
             \/ Checked(p) \/ Applied(p) \/ HostAccepts(p) \/ Confirmed(p) \/ SendFails(p)
        \/ \E m \in Modes : SessionCreated(m) \/ CreationEnds(m)
        \/ Arrives
        \/ \E s \in Sessions : SelectSession(s)

Spec == Init /\ [][Next]_vars

-----------------------------------------------------------------------------
Kept(s) ==
  \/ carry = [target |-> s, text |-> armed[s]] \/ s \in displaced
  \/ \E i \in DOMAIN log[s] : log[s][i].digest = armed[s]

(* A digest that was armed is not lost, whatever fails and whoever sends in *)
(* between: until its session got it, it is armed, unless another session's *)
(* digest took its place.  Not promised for a session that was sent to      *)
(* while it was being opened.                                               *)
ArmedContextKept == \A s \in Sessions \ early : armed[s] # <<>> => Kept(s)

(* Claimed by sendPrompt ("The payload stays armed until the                *)
(* ordinary-session send succeeds") and not kept: the send that succeeds    *)
(* may be one that began before the digest was armed and does not carry it. *)
StaysArmed == \A s \in Sessions : armed[s] # <<>> => Kept(s)
=============================================================================
