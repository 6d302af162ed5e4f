----------------------------- MODULE SessionView -----------------------------
(***************************************************************************)
(* The conversation on screen: which session is selected, the transcript   *)
(* built from the follow stream, from older pages and from repairs, and    *)
(* the catalogs loaded for the selection.  From HarnessGatewayService:      *)
(* selectSession, selectSubagent, pumpActiveFollow, handleFollowFrame,      *)
(* acceptEvent, waitForFollowSnapshot, loadOlder, waitToReconnect and       *)
(* repairHistory, with mergeHistory.                                       *)
(*                                                                         *)
(* One thread, interleaved at awaits.  A session's log only grows, so a    *)
(* page is the same whenever the host reads it.                            *)
(***************************************************************************)
EXTENDS Naturals, Sequences, FiniteSets, SequencesExt

CONSTANTS
  Sessions,      \* session ids, sub-agents included
  NoSession,     \* nothing selected, nothing loaded, no cursor
  Calls,         \* selectSession and selectSubagent calls, each made once
  NoCall,        \* nobody waits for a snapshot
  Window,        \* events in a snapshot or a page (maxMessages)
  MaxSeq,        \* bound: length of a session's log
  MaxLosses,     \* bound: losses of the follow stream
  OtherStreams   \* may a pump other than pumpActiveFollow reconnect

ASSUME ViewAssumption ==
  /\ NoSession \notin Sessions
  /\ NoCall \notin Calls
  /\ Window \in Nat \ {0}
  /\ MaxSeq \in Nat \ {0}
  /\ MaxLosses \in Nat
  /\ OtherStreams \in BOOLEAN

VARIABLES
  active,      \* activeSessionId
  generation,  \* selectionGeneration
  entries,     \* the transcript: log entries, each with its session
  hasMore,     \* older entries can be paged in
  cursor,      \* followCursor, NoSession while undefined
  catalog,     \* the session whose skills and sub-agents are shown
  calls,       \* progress of the select calls
  waiter,      \* followSnapshotWaiters: who waits for a session's snapshot
  follow,      \* pumpActiveFollow: its phase, session and unhandled frames
  repair,      \* repairHistory under way, by the caller that started it
  older,       \* the loadOlder call under way
  log,         \* host: length of each session's log
  losses,      \* counter for MaxLosses
  disturbed    \* history: a late page was installed since the selection

selectionVars == <<active, generation, calls, waiter>>
transcriptVars == <<entries, hasMore, cursor, disturbed>>
vars == <<selectionVars, transcriptVars, catalog, follow, repair, older, log,
          losses>>

Callers == {"follow", "other", "gap"}
Cursor == 0..MaxSeq \cup {NoSession}

Entry == [session : Sessions, seq : 1..MaxSeq]
Call == [phase : {"unused", "snapshot", "models", "catalogs", "listing", "returned"},
         session : Sessions \cup {NoSession}, generation : Nat, timer : BOOLEAN]
Frame == [type : {"snapshot", "event"}, seq : 1..MaxSeq]
Follow == [phase : {"ready", "open", "waiting"},
           session : Sessions \cup {NoSession}, wire : Seq(Frame)]
Repair == [phase : {"none", "pause", "list", "page"},
           session : Sessions \cup {NoSession}, through : Cursor]
Older == [session : Sessions \cup {NoSession}, through : 0..MaxSeq, before : 0..MaxSeq]

Seqs(es) == {es[i].seq : i \in DOMAIN es}

NoRepair == [phase |-> "none", session |-> NoSession, through |-> NoSession]
NoOlder == [session |-> NoSession, through |-> 0, before |-> 0]
NoFollow(phase) == [phase |-> phase, session |-> NoSession, wire |-> <<>>]

-----------------------------------------------------------------------------
(* The host's pages: at most Window entries of session s up to seq top.     *)
Records(s, top) ==
  LET last == IF top > log[s] THEN log[s] ELSE top
      first == IF last > Window THEN last - Window + 1 ELSE 1
  IN [i \in 1..(last + 1 - first) |-> [session |-> s, seq |-> first + i - 1]]

MoreBefore(es) == es # <<>> /\ Head(es).seq > 1

(* Mutant of mergeHistory: the snapshot replaces what is on screen.         *)
ReplaceHistory(base, live) == base

(* Entries with distinct seqs, in the order of their seqs.                  *)
Ordered(es) ==
  [i \in 1..Cardinality(es) |->
     CHOOSE e \in es : Cardinality({d \in es : d.seq < e.seq}) = i - 1]

(* mergeHistory: by seq, what is on screen wins.                            *)
MergeHistory(base, live) ==
  Ordered(Range(live) \cup {e \in Range(base) : e.seq \notin Seqs(live)})

-----------------------------------------------------------------------------
Init ==
  /\ active = NoSession
  /\ generation = 0
  /\ entries = <<>>
  /\ hasMore = FALSE
  /\ cursor = [s \in Sessions |-> NoSession]
  /\ catalog = NoSession
  /\ calls = [c \in Calls |-> [phase |-> "unused", session |-> NoSession,
                               generation |-> 0, timer |-> FALSE]]
  /\ waiter = [s \in Sessions |-> NoCall]
  /\ follow = NoFollow("ready")
  /\ repair = [c \in Callers |-> NoRepair]
  /\ older = NoOlder
  /\ log = [s \in Sessions |-> 1]
  /\ losses = 0
  /\ disturbed = FALSE

-----------------------------------------------------------------------------
(* Selection.                                                               *)

(* Mutant of AbortFollow: the stream is left to notice the change itself.   *)
KeepFollow ==
  follow' = IF follow.phase = "open" /\ active' # follow.session
            THEN NoFollow("ready") ELSE follow

(* The stream of the selection left behind is aborted with the frames it    *)
(* holds; a pump that is waiting to reconnect stays where it is.            *)
AbortFollow ==
  follow' = IF follow.phase = "open" THEN NoFollow("ready") ELSE follow

ClearTranscript ==
  /\ entries' = <<>>
  /\ hasMore' = FALSE
  /\ disturbed' = FALSE

(* selectSession up to its first await after the switch.  A waiter that was *)
(* registered for the same session is overwritten.                          *)
SelectSession(c, s) ==
  /\ calls[c].phase = "unused"
  /\ generation' = generation + 1
  /\ active' = s
  /\ calls' = [calls EXCEPT ![c] = [phase |-> "snapshot", session |-> s,
                                    generation |-> generation + 1,
                                    timer |-> TRUE]]
  /\ waiter' = [waiter EXCEPT ![s] = c]
  /\ catalog' = NoSession
  /\ AbortFollow /\ ClearTranscript
  /\ UNCHANGED <<cursor, repair, older, log, losses>>

(* selectSubagent: the generation moves at once, the selection only once    *)
(* the child's own sub-agents are listed.                                   *)
SelectSubagent(c, s) ==
  /\ calls[c].phase = "unused"
  /\ active \notin {NoSession, s}
  /\ generation' = generation + 1
  /\ calls' = [calls EXCEPT ![c] = [phase |-> "listing", session |-> s,
                                    generation |-> generation + 1,
                                    timer |-> FALSE]]
  /\ UNCHANGED <<active, waiter, transcriptVars, catalog, follow, repair, older,
                 log, losses>>

Returns(c) == calls' = [calls EXCEPT ![c].phase = "returned", ![c].timer = FALSE]

SubagentListed(c) ==
  /\ calls[c].phase = "listing"
  /\ Returns(c)
  /\ IF calls[c].generation = generation
     THEN /\ active' = calls[c].session
          /\ cursor' = [cursor EXCEPT ![calls[c].session] = 0]
          /\ catalog' = calls[c].session
          /\ AbortFollow /\ ClearTranscript
     ELSE UNCHANGED <<active, transcriptVars, catalog, follow>>
  /\ UNCHANGED <<generation, waiter, repair, older, log, losses>>

(* The list request failed: the generation has moved all the same.          *)
SubagentFails(c) ==
  /\ calls[c].phase = "listing"
  /\ Returns(c)
  /\ UNCHANGED <<active, generation, waiter, transcriptVars, catalog, follow,
                 repair, older, log, losses>>

(* Mutant of IsCurrentSelection: a select call is never superseded.         *)
AlwaysCurrent(c) == TRUE

IsCurrentSelection(c) ==
  active = calls[c].session /\ generation = calls[c].generation

(* resolveFollowSnapshotWaiter: whoever is registered goes on, or returns   *)
(* if its selection is no longer current.                                   *)
ResolveWaiter(s) ==
  /\ waiter' = [waiter EXCEPT ![s] = NoCall]
  /\ calls' = IF waiter[s] = NoCall THEN calls
              ELSE [calls EXCEPT
                      ![waiter[s]].phase =
                         IF IsCurrentSelection(waiter[s]) THEN "models" ELSE "returned",
                      ![waiter[s]].timer = FALSE]

(* The timer of call c resolves the waiter of its session, whoever that is. *)
TimerFires(c) ==
  /\ calls[c].timer
  /\ LET s == calls[c].session
         fired == [calls EXCEPT ![c].timer = FALSE]
     IN /\ waiter' = [waiter EXCEPT ![s] = NoCall]
        /\ calls' = IF waiter[s] = NoCall THEN fired
                    ELSE [fired EXCEPT
                            ![waiter[s]].phase =
                               IF IsCurrentSelection(waiter[s]) THEN "models"
                                                                ELSE "returned",
                            ![waiter[s]].timer = FALSE]
  /\ UNCHANGED <<active, generation, transcriptVars, catalog, follow, repair,
                 older, log, losses>>

(* sessionModelCatalog settled, or failed and was logged.                   *)
ModelsLoaded(c) ==
  /\ calls[c].phase = "models"
  /\ calls' = [calls EXCEPT ![c].phase =
                 IF IsCurrentSelection(c) THEN "catalogs" ELSE "returned"]
  /\ UNCHANGED <<active, generation, waiter, transcriptVars, catalog, follow,
                 repair, older, log, losses>>

(* skills/list, subagent/list and commands settled.                         *)
CatalogsLoaded(c) ==
  /\ calls[c].phase = "catalogs"
  /\ Returns(c)
  /\ \/ catalog' = IF IsCurrentSelection(c) THEN calls[c].session ELSE catalog
     \/ UNCHANGED catalog
  /\ UNCHANGED <<active, generation, waiter, transcriptVars, follow, repair,
                 older, log, losses>>

-----------------------------------------------------------------------------
(* The follow stream.                                                       *)

(* pumpActiveFollow opens a stream; the host answers with a snapshot.       *)
FollowOpens ==
  /\ follow.phase = "ready" /\ active # NoSession
  /\ follow' = [phase |-> "open", session |-> active,
                wire |-> <<[type |-> "snapshot", seq |-> log[active]]>>]
  /\ UNCHANGED <<selectionVars, transcriptVars, catalog, repair, older, log,
                 losses>>

(* Nothing is selected yet: the pump waits as it does between connections.  *)
FollowIdles ==
  /\ follow.phase = "ready" /\ active = NoSession
  /\ follow' = NoFollow("waiting")
  /\ repair' = [repair EXCEPT !["follow"].phase = "pause"]
  /\ UNCHANGED <<selectionVars, transcriptVars, catalog, older, log, losses>>

(* A change of selection aborts the stream, so its session is the active    *)
(* one whenever a frame is handled.                                         *)
Handles(type) ==
  /\ follow.phase = "open" /\ follow.wire # <<>>
  /\ Head(follow.wire).type = type
  /\ follow' = [follow EXCEPT !.wire = Tail(@)]

HandleSnapshot ==
  /\ Handles("snapshot")
  /\ LET s == follow.session
         top == Head(follow.wire).seq
         records == Records(s, top)
     IN /\ cursor' = [cursor EXCEPT ![s] = top]
        /\ entries' = MergeHistory(records, entries)
        /\ hasMore' = MoreBefore(records)
        /\ ResolveWaiter(s)
  /\ UNCHANGED <<active, generation, disturbed, catalog, repair, older, log,
                 losses>>

(* acceptEvent: an event beyond the next one is dropped and the history is  *)
(* repaired (one such repair at a time is modelled); one that is on screen  *)
(* already is replaced.                                                     *)
IsGap(seq) == entries # <<>> /\ seq > Last(entries).seq + 1

HandleGap ==
  /\ Handles("event") /\ IsGap(Head(follow.wire).seq)
  /\ repair' = IF repair["gap"] = NoRepair
               THEN [repair EXCEPT !["gap"] = [phase |-> "list", session |-> active,
                                               through |-> NoSession]]
               ELSE repair
  /\ UNCHANGED <<selectionVars, transcriptVars, catalog, older, log, losses>>

HandleEvent ==
  /\ Handles("event") /\ ~IsGap(Head(follow.wire).seq)
  /\ LET e == [session |-> follow.session, seq |-> Head(follow.wire).seq]
     IN entries' = IF e.seq \in Seqs(entries)
                   THEN [i \in DOMAIN entries |->
                           IF entries[i].seq = e.seq THEN e ELSE entries[i]]
                   ELSE Append(entries, e)
  /\ UNCHANGED <<selectionVars, cursor, hasMore, disturbed, catalog, repair,
                 older, log, losses>>

FollowLost ==
  /\ follow.phase = "open" /\ losses < MaxLosses
  /\ losses' = losses + 1
  /\ follow' = NoFollow("waiting")
  /\ repair' = [repair EXCEPT !["follow"].phase = "pause"]
  /\ UNCHANGED <<selectionVars, transcriptVars, catalog, older, log>>

-----------------------------------------------------------------------------
(* waitToReconnect and repairHistory.                                       *)

(* The control, $events or workspace pump lost its stream.                  *)
OtherStreamLost ==
  /\ OtherStreams
  /\ repair["other"].phase = "none"
  /\ repair' = [repair EXCEPT !["other"].phase = "pause"]
  /\ UNCHANGED <<selectionVars, transcriptVars, catalog, follow, older, log,
                 losses>>

Repaired(k) ==
  /\ repair' = [repair EXCEPT ![k] = NoRepair]
  /\ follow' = IF k = "follow" THEN [follow EXCEPT !.phase = "ready"] ELSE follow

(* The pause and the list are over: repairHistory captures its address.     *)
RepairStarts(k) ==
  /\ repair[k].phase = "pause"
  /\ IF active = NoSession
     THEN Repaired(k)
     ELSE /\ repair' = [repair EXCEPT ![k] = [phase |-> "list", session |-> active,
                                              through |-> NoSession]]
          /\ UNCHANGED follow
  /\ UNCHANGED <<selectionVars, transcriptVars, catalog, older, log, losses>>

(* The list is refreshed again: the cursor is that of the session active    *)
(* now, the address the one captured before.                                *)
RepairReads(k) ==
  /\ repair[k].phase = "list"
  /\ IF cursor[active] = NoSession
     THEN Repaired(k)
     ELSE /\ repair' = [repair EXCEPT ![k].phase = "page",
                                      ![k].through = cursor[active]]
          /\ UNCHANGED follow
  /\ UNCHANGED <<selectionVars, transcriptVars, catalog, older, log, losses>>

(* The page up to that cursor replaces the transcript.                      *)
RepairLands(k) ==
  /\ repair[k].phase = "page"
  /\ LET page == Records(repair[k].session, repair[k].through)
     IN /\ entries' = page
        /\ hasMore' = MoreBefore(page)
  /\ disturbed' = (disturbed \/ follow.phase = "open" \/ repair[k].session # active)
  /\ Repaired(k)
  /\ UNCHANGED <<selectionVars, cursor, catalog, older, log, losses>>

RepairFails(k) ==
  /\ repair[k].phase \in {"list", "page"}
  /\ Repaired(k)
  /\ UNCHANGED <<selectionVars, transcriptVars, catalog, older, log, losses>>

-----------------------------------------------------------------------------
(* loadOlder.                                                               *)

(* Mutant of LoadOlder: a missing cursor is sent as it is.                  *)
LoadOlderUnread ==
  /\ active # NoSession /\ entries # <<>> /\ hasMore
  /\ older = NoOlder
  /\ older' = [session |-> active, before |-> Head(entries).seq,
               through |-> cursor[active]]
  /\ UNCHANGED <<selectionVars, transcriptVars, catalog, follow, repair, log,
                 losses>>

(* One page at a time is modelled.                                          *)
LoadOlder ==
  /\ active # NoSession /\ entries # <<>> /\ hasMore
  /\ older = NoOlder
  /\ older' = [session |-> active, before |-> Head(entries).seq,
               through |-> IF cursor[active] = NoSession THEN 0 ELSE cursor[active]]
  /\ UNCHANGED <<selectionVars, transcriptVars, catalog, follow, repair, log,
                 losses>>

OlderPage ==
  LET top == IF older.before - 1 < older.through THEN older.before - 1
                                                 ELSE older.through
  IN Records(older.session, top)

(* Mutant of OlderPrepended: the page is not compared with what is shown.   *)
OlderPrependedAll(page) == page \o entries

(* A page is in order, so what is left of it is, too.                       *)
OlderPrepended(page) ==
  Ordered({e \in Range(page) : e.seq \notin Seqs(entries)}) \o entries

(* Asked for under another selection, or before an entry that no longer is  *)
(* the first: what comes before may be on screen already.                   *)
OlderIsLate ==
  \/ older.session # active
  \/ entries # <<>> /\ Head(entries).seq < older.before

OlderLands ==
  /\ older # NoOlder
  /\ entries' = OlderPrepended(OlderPage)
  /\ hasMore' = MoreBefore(OlderPage)
  /\ disturbed' = (disturbed \/ OlderIsLate)
  /\ older' = NoOlder
  /\ UNCHANGED <<selectionVars, cursor, catalog, follow, repair, log, losses>>

OlderFails ==
  /\ older # NoOlder
  /\ older' = NoOlder
  /\ UNCHANGED <<selectionVars, transcriptVars, catalog, follow, repair, log,
                 losses>>

-----------------------------------------------------------------------------
(* The host appends an event and sends it to the stream that follows it     *)
(* (external).                                                              *)
HostAppends(s) ==
  /\ log[s] < MaxSeq
  /\ log' = [log EXCEPT ![s] = @ + 1]
  /\ follow' = IF follow.phase = "open" /\ follow.session = s
               THEN [follow EXCEPT !.wire = Append(@, [type |-> "event",
                                                       seq |-> log[s] + 1])]
               ELSE follow
  /\ UNCHANGED <<selectionVars, transcriptVars, catalog, repair, older, losses>>

-----------------------------------------------------------------------------
HandleFrame == HandleSnapshot \/ HandleGap \/ HandleEvent

CallStep(c) ==
  \/ SubagentListed(c) \/ SubagentFails(c)
  \/ TimerFires(c) \/ ModelsLoaded(c) \/ CatalogsLoaded(c)

RepairStep(k) == RepairStarts(k) \/ RepairReads(k) \/ RepairLands(k) \/ RepairFails(k)

OlderStep == OlderLands \/ OlderFails

Next ==
  \/ \E c \in Calls : \/ \E s \in Sessions : SelectSession(c, s) \/ SelectSubagent(c, s)
                      \/ CallStep(c)
  \/ FollowIdles \/ FollowOpens \/ FollowLost \/ HandleFrame
  \/ OtherStreamLost
  \/ \E k \in Callers : RepairStep(k)
  \/ LoadOlder \/ OlderStep
  \/ \E s \in Sessions : HostAppends(s)

(* Requests settle or time out, timers fire, frames are handled and pumps   *)
(* reconnect; the user, the agents and the network owe nothing.             *)
Fairness ==
  /\ \A c \in Calls : WF_vars(CallStep(c))
  /\ WF_vars(FollowIdles \/ FollowOpens) /\ WF_vars(HandleFrame)
  /\ \A k \in Callers : WF_vars(RepairStep(k))
  /\ WF_vars(OlderStep)

Spec == Init /\ [][Next]_vars
FairSpec == Spec /\ Fairness

-----------------------------------------------------------------------------
TypeOK ==
  /\ active \in Sessions \cup {NoSession}
  /\ generation \in Nat
  /\ entries \in Seq(Entry)
  /\ hasMore \in BOOLEAN
  /\ cursor \in [Sessions -> Cursor]
  /\ catalog \in Sessions \cup {NoSession}
  /\ calls \in [Calls -> Call]
  /\ waiter \in [Sessions -> Calls \cup {NoCall}]
  /\ follow \in Follow
  /\ repair \in [Callers -> Repair]
  /\ older \in Older
  /\ log \in [Sessions -> 1..MaxSeq]
  /\ losses \in 0..MaxLosses
  /\ disturbed \in BOOLEAN

(* No seq is on screen twice, whatever pages, repairs, snapshots and live   *)
(* events overlapped, even across a change of selection: the webview keys   *)
(* its messages by it (acceptEvent, loadOlder, mergeHistory).               *)
NoDuplicates ==
  \A i, j \in DOMAIN entries : entries[i].seq = entries[j].seq => i = j

(* Skills and sub-agents on screen are those of the selected session: a     *)
(* load that a later selection overtook changes nothing.                    *)
CatalogOfSelection == catalog \in {NoSession, active}

(* A frame of the follow stream never takes an entry off the screen: the    *)
(* snapshot is merged into what arrived while it was read.                  *)
FramesNeverRemove ==
  [][HandleFrame => Seqs(entries) \subseteq Seqs(entries')]_vars

(* Once the frames under way are handled the transcript ends where the      *)
(* session's log ends, in order, after any number of selections, losses and *)
(* pages of the same session, as long as no late page was installed.        *)
CaughtUp ==
  (~disturbed /\ follow.phase = "open") =>
    /\ \A i \in 2..Len(entries) : entries[i - 1].seq < entries[i].seq
    /\ follow.wire = <<>> => entries # <<>> /\ Last(entries).seq = log[active]

(* Claimed, and not kept: a gap or a reconnect reads the tail again, so the *)
(* end of the transcript never moves back within a selection.               *)
RepairKeepsTail ==
  [][(active' = active /\ generation' = generation /\ entries # <<>>)
       => entries' # <<>> /\ Last(entries').seq >= Last(entries).seq]_vars

(* Claimed, and not kept: what is on screen comes from the selected session.*)
EntriesOfSelection == \A i \in DOMAIN entries : entries[i].session = active

(* Claimed, and not kept: a select call waits a bounded time for its        *)
(* snapshot and moves on without it.                                        *)
SelectionMovesOn ==
  \A c \in Calls : calls[c].phase = "snapshot" ~> calls[c].phase # "snapshot"
=============================================================================
