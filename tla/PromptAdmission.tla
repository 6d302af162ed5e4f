-------------------------- MODULE PromptAdmission --------------------------
(***************************************************************************)
(* How the gateway service admits prompts and carries their staged         *)
(* configuration: HarnessGatewayService.sendPrompt and                     *)
(* applyPromptConfiguration together with PendingConfigurationQueue, the   *)
(* turn/end events of the follow stream, the api-session/status events of  *)
(* the $events stream, the session list that is read again on reconnect,   *)
(* and the user switching the active session between any two awaits.       *)
(*                                                                         *)
(* The service is one JavaScript thread: what runs between two awaits is   *)
(* one action.  The two streams are separate sockets, so frames keep their *)
(* order within a stream and have none across streams.                     *)
(***************************************************************************)
EXTENDS Naturals, Sequences, FiniteSets, SequencesExt

CONSTANTS
  Sessions,        \* session ids
  Prompts,         \* sendPrompt calls, each made at most once
  NoPrompt,        \* no turn, or no configuration chosen yet
  Kinds,           \* the kinds of prompt the user may send
  AnswersGetLost,  \* may a prompt RPC fail after the host accepted it
  MaxCalls,        \* bound: sendPrompt calls awaiting something at once
  MaxDisruptions   \* bound: stream losses and spontaneous list refreshes

AllKinds == {"plain", "config", "image", "command"}

ASSUME AdmissionAssumption ==
  /\ Sessions # {}
  /\ NoPrompt \notin Prompts
  /\ Kinds \subseteq AllKinds
  /\ AnswersGetLost \in BOOLEAN
  /\ MaxCalls \in Nat
  /\ MaxDisruptions \in Nat

VARIABLES
  active,       \* activeSessionId
  running,      \* summaries.get(id).running, as this client believes it
  admitted,     \* PendingConfigurationQueue.admitted
  slots,        \* PendingConfigurationQueue.pending
  call,         \* progress of each sendPrompt call
  flushing,     \* the apply() a boundary started, by the prompt whose turn ended
  rewriting,    \* a removeQueued/editQueued call awaits its answer
  hostQueue,    \* host: accepted prompts waiting for a turn
  hostTurn,     \* host: the prompt of the running turn
  hostConfig,   \* host: whose configuration is selected
  startConfig,  \* host: whose configuration was selected when the turn began
  hostStatus,   \* host: the running flag it last announced
  accepted,     \* host: prompts it has accepted
  follow,       \* turn/end frames under way on the follow stream
  events,       \* status frames under way on the $events stream
  link,         \* state of the two streams' pumps
  listing,      \* a session/list answer under way: <<>> or one record
  disruptions,  \* counter for MaxDisruptions
  order,        \* history: prompts in the order they took a slot
  applied,      \* history: prompts whose configuration reached the host
  dropped       \* history: prompts whose slot a queue rewrite dropped

queueVars == <<admitted, slots>>
hostVars == <<hostQueue, hostTurn, hostConfig, startConfig, hostStatus, accepted>>
wireVars == <<follow, events, link, listing, disruptions>>
historyVars == <<order, applied, dropped>>
vars == <<active, running, call, flushing, rewriting, queueVars, hostVars,
          wireVars, historyVars>>

Streams == {"follow", "events"}
Configures(kind) == kind # "plain"

Slot == [owner : Prompts, none : BOOLEAN]
CallPhase == {"unsent", "configuring", "selecting", "sending", "confirmed",
              "failed", "command"}
Call == [phase : CallPhase, kind : AllKinds, home : Sessions,
         target : Sessions, parked : BOOLEAN]
Flush == [phase : {"idle", "configuring", "selecting", "settled"},
          home : Sessions, owner : Prompts \cup {NoPrompt}, target : Sessions]
Listing == [for : Streams \cup {"added"}, status : [Sessions -> BOOLEAN]]

Awaiting == {p \in Prompts :
               call[p].phase \in {"configuring", "selecting", "sending"}}
Owners(s) == {slots[s][i].owner : i \in DOMAIN slots[s]}

-----------------------------------------------------------------------------
(* PendingConfigurationQueue.                                              *)

Busy(s) == running[s] \/ s \in admitted

Admit(s) == admitted' = admitted \cup {s}

Forget(s) == admitted' = admitted \ {s}

(* Mutant of Pend: the new slot goes to the head of the list.               *)
PendInFront(s, p, none) ==
  /\ slots' = [slots EXCEPT ![s] = <<[owner |-> p, none |-> none]>> \o @]
  /\ order' = Append(order, p)

Pend(s, p, none) ==
  /\ slots' = [slots EXCEPT ![s] = Append(@, [owner |-> p, none |-> none])]
  /\ order' = Append(order, p)

(* Mutant of Unpend: the rollback looks in the session active now.          *)
UnpendFromActive(s, p) ==
  slots' = [slots EXCEPT ![active] =
              SelectSeq(@, LAMBDA slot : slot.owner # p)]

(* A prompt owns at most one slot, so the entry object is told by its owner. *)
Unpend(s, p) ==
  slots' = [slots EXCEPT ![s] =
              IF \E i \in DOMAIN @ : @[i].owner = p
              THEN RemoveAt(@, CHOOSE i \in DOMAIN @ : @[i].owner = p)
              ELSE @]

DropForSession(s) ==
  /\ slots' = [slots EXCEPT ![s] = <<>>]
  /\ dropped' = dropped \cup Owners(s)

(* Mutant of FlushHead: an empty list is not told from a configuration.     *)
FlushUnchecked(s, b) ==
  /\ flushing' = [flushing EXCEPT ![b] =
                    [phase |-> "configuring", home |-> s, target |-> s,
                     owner |-> IF slots[s] = <<>> THEN NoPrompt
                                                  ELSE Head(slots[s]).owner]]
  /\ UNCHANGED slots

(* flush() at the boundary left by prompt b: a none marker is consumed at   *)
(* once, a configuration starts an asynchronous apply() and keeps its slot.  *)
FlushHead(s, b) ==
  \/ /\ slots[s] = <<>>
     /\ UNCHANGED <<slots, flushing>>
  \/ /\ slots[s] # <<>> /\ Head(slots[s]).none
     /\ slots' = [slots EXCEPT ![s] = Tail(@)]
     /\ UNCHANGED flushing
  \/ /\ slots[s] # <<>> /\ ~Head(slots[s]).none
     /\ flushing' = [flushing EXCEPT ![b] =
                       [phase |-> "configuring", home |-> s,
                        owner |-> Head(slots[s]).owner, target |-> s]]
     /\ UNCHANGED slots

Release(s, b) ==
  /\ admitted' = admitted \ {s}
  /\ IF running[s] THEN UNCHANGED <<slots, flushing>> ELSE FlushHead(s, b)

(* Mutant of ShiftApplied: whatever slot is the head by now is shifted.     *)
ShiftAny(s, p) ==
  slots' = [slots EXCEPT ![s] = IF @ # <<>> THEN Tail(@) ELSE @]

(* The settled apply() shifts the queue only if its slot is still the head. *)
ShiftApplied(s, p) ==
  slots' = [slots EXCEPT ![s] =
              IF @ # <<>> /\ Head(@).owner = p THEN Tail(@) ELSE @]

-----------------------------------------------------------------------------
Init ==
  /\ active \in Sessions
  /\ running = [s \in Sessions |-> FALSE]
  /\ admitted = {}
  /\ slots = [s \in Sessions |-> <<>>]
  /\ call = [p \in Prompts |-> [phase |-> "unsent", kind |-> "plain",
                                home |-> active, target |-> active,
                                parked |-> FALSE]]
  /\ flushing = [p \in Prompts |-> [phase |-> "idle", home |-> active,
                                    owner |-> NoPrompt, target |-> active]]
  /\ rewriting = [s \in Sessions |-> FALSE]
  /\ hostQueue = [s \in Sessions |-> <<>>]
  /\ hostTurn = [s \in Sessions |-> NoPrompt]
  /\ hostConfig = [s \in Sessions |-> NoPrompt]
  /\ startConfig = [s \in Sessions |-> NoPrompt]
  /\ hostStatus = [s \in Sessions |-> FALSE]
  /\ accepted = {}
  /\ follow = <<>>
  /\ events = <<>>
  /\ link = [x \in Streams |-> "up"]
  /\ listing = <<>>
  /\ disruptions = 0
  /\ order = <<>>
  /\ applied = {}
  /\ dropped = {}

-----------------------------------------------------------------------------
(* sendPrompt.                                                             *)

(* A call that has returned keeps nothing of where it was sent.             *)
Returned(p, phase) ==
  call' = [call EXCEPT ![p].phase = phase, ![p].target = call[p].home]

Called(p, kind, phase, parked) ==
  call' = [call EXCEPT ![p] = [phase |-> phase, kind |-> kind, home |-> active,
                               target |-> active, parked |-> parked]]

MayCall(p, kind) ==
  /\ call[p].phase = "unsent"
  /\ kind \in Kinds
  /\ Cardinality(Awaiting) < MaxCalls

(* Idle fast path, and an image prompt that moves the route: the            *)
(* configuration is applied, awaited, before admission.                     *)
SendApplying(p, kind) ==
  /\ MayCall(p, kind) /\ Configures(kind)
  /\ ~Busy(active) \/ kind = "image"
  /\ Called(p, kind, "configuring", FALSE)
  /\ UNCHANGED <<active, running, flushing, rewriting, queueVars, hostVars,
                 wireVars, historyVars>>

(* Busy path: the prompt takes a slot and its RPC leaves in the same step.  *)
SendParking(p, kind) ==
  /\ MayCall(p, kind) /\ kind # "image"
  /\ Busy(active)
  /\ Pend(active, p, ~Configures(kind))
  /\ IF kind = "command"
     THEN /\ Called(p, kind, "command", TRUE)
          /\ UNCHANGED admitted
     ELSE /\ Called(p, kind, "sending", TRUE)
          /\ Admit(active)
  /\ UNCHANGED <<active, running, flushing, rewriting, hostVars, wireVars,
                 applied, dropped>>

SendPlain(p) ==
  /\ MayCall(p, "plain")
  /\ ~Busy(active)
  /\ Called(p, "plain", "sending", FALSE)
  /\ Admit(active)
  /\ UNCHANGED <<active, running, slots, flushing, rewriting, hostVars,
                 wireVars, historyVars>>

(* selectModel reads the active session again after the awaits before it.   *)
ConfigurationIssued(p) ==
  /\ call[p].phase = "configuring"
  /\ call' = [call EXCEPT ![p].phase = "selecting", ![p].target = active]
  /\ UNCHANGED <<active, running, flushing, rewriting, queueVars, hostVars,
                 wireVars, historyVars>>

(* The selection took effect; the prompt leaves for the session active now. *)
ConfigurationLands(p) ==
  /\ call[p].phase = "selecting"
  /\ hostConfig' = [hostConfig EXCEPT ![call[p].target] = p]
  /\ applied' = applied \cup {p}
  /\ IF call[p].kind = "command"
     THEN /\ Returned(p, "command")
          /\ UNCHANGED admitted
     ELSE /\ call' = [call EXCEPT ![p].phase = "sending", ![p].target = active]
          /\ Admit(active)
  /\ UNCHANGED <<active, running, slots, flushing, rewriting, hostQueue,
                 hostTurn, startConfig, hostStatus, accepted, wireVars, order,
                 dropped>>

(* Also when the answer is lost, or what follows it fails, after the host   *)
(* took the selection.                                                      *)
ConfigurationFails(p) ==
  /\ call[p].phase \in {"configuring", "selecting"}
  /\ Returned(p, "failed")
  /\ \/ UNCHANGED <<hostConfig, applied>>
     \/ /\ AnswersGetLost /\ call[p].phase = "selecting"
        /\ hostConfig' = [hostConfig EXCEPT ![call[p].target] = p]
        /\ applied' = applied \cup {p}
  /\ UNCHANGED <<active, running, flushing, rewriting, queueVars, hostQueue,
                 hostTurn, startConfig, hostStatus, accepted, wireVars, order,
                 dropped>>

PromptConfirmed(p) ==
  /\ call[p].phase = "sending" /\ p \in accepted
  /\ Returned(p, "confirmed")
  /\ UNCHANGED <<active, running, flushing, rewriting, queueVars, hostVars,
                 wireVars, historyVars>>

(* The RPC was refused, or its answer was lost after the host accepted.     *)
PromptFails(p) ==
  /\ call[p].phase = "sending"
  /\ p \notin accepted \/ AnswersGetLost
  /\ Returned(p, "failed")
  /\ Forget(call[p].target)
  /\ IF call[p].parked THEN Unpend(call[p].home, p) ELSE UNCHANGED slots
  /\ UNCHANGED <<active, running, flushing, rewriting, hostVars, wireVars,
                 historyVars>>

-----------------------------------------------------------------------------
(* apply() of a flushed slot: applyPromptConfiguration works on whatever    *)
(* session is active, not on the session the slot was queued for.           *)
Flushed(b) ==
  flushing' = [flushing EXCEPT ![b].phase = "settled",
                               ![b].target = flushing[b].home]

SelectFlushed(b) ==
  /\ hostConfig' = [hostConfig EXCEPT ![flushing[b].target] = flushing[b].owner]
  /\ applied' = applied \cup {flushing[b].owner}

FlushIssued(b) ==
  /\ flushing[b].phase = "configuring"
  /\ flushing' = [flushing EXCEPT ![b].phase = "selecting",
                                  ![b].target = active]
  /\ UNCHANGED <<active, running, call, rewriting, queueVars, hostVars,
                 wireVars, historyVars>>

FlushLands(b) ==
  /\ flushing[b].phase = "selecting"
  /\ Flushed(b)
  /\ SelectFlushed(b)
  /\ ShiftApplied(flushing[b].home, flushing[b].owner)
  /\ UNCHANGED <<active, running, admitted, call, rewriting, hostQueue,
                 hostTurn, startConfig, hostStatus, accepted, wireVars, order,
                 dropped>>

FlushFails(b) ==
  /\ flushing[b].phase \in {"configuring", "selecting"}
  /\ Flushed(b)
  /\ \/ UNCHANGED <<hostConfig, applied>>
     \/ /\ AnswersGetLost /\ flushing[b].phase = "selecting"
        /\ SelectFlushed(b)
  /\ UNCHANGED <<active, running, call, rewriting, queueVars, hostQueue,
                 hostTurn, startConfig, hostStatus, accepted, wireVars, order,
                 dropped>>

-----------------------------------------------------------------------------
(* removeQueued and editQueued: the host rewrites its queue, and the answer *)
(* drops every slot of the session captured before the await.               *)
RewriteQueue(p) ==
  /\ hostTurn[active] # NoPrompt
  /\ ~rewriting[active]
  /\ rewriting' = [rewriting EXCEPT ![active] = TRUE]
  /\ \E i \in DOMAIN hostQueue[active] :
       /\ hostQueue[active][i] = p
       /\ \/ hostQueue' = [hostQueue EXCEPT ![active] = RemoveAt(@, i)]
          \/ UNCHANGED hostQueue
  /\ UNCHANGED <<active, running, call, flushing, queueVars, hostTurn,
                 hostConfig, startConfig, hostStatus, accepted, wireVars,
                 historyVars>>

RewriteAnswered(s) ==
  /\ rewriting[s]
  /\ rewriting' = [rewriting EXCEPT ![s] = FALSE]
  /\ DropForSession(s)
  /\ UNCHANGED <<active, running, admitted, call, flushing, hostVars, wireVars,
                 order, applied>>

(* selectSession: the follow stream of the session left behind is aborted   *)
(* with the frames it still held; a pump in its reconnect pause stays there. *)
SelectSession(s) ==
  /\ s # active
  /\ active' = s
  /\ follow' = <<>>
  /\ link' = [link EXCEPT !["follow"] = IF @ = "up" THEN "opening" ELSE @]
  /\ UNCHANGED <<running, call, flushing, rewriting, queueVars, hostVars,
                 events, listing, disruptions, historyVars>>

-----------------------------------------------------------------------------
(* The host's agent loop (external).                                        *)
Announce(s, status) ==
  events' = IF link["events"] = "up"
            THEN Append(events, [session |-> s, running |-> status])
            ELSE events

HostAccepts(p) ==
  /\ call[p].phase = "sending" /\ p \notin accepted
  /\ accepted' = accepted \cup {p}
  /\ hostQueue' = [hostQueue EXCEPT ![call[p].target] = Append(@, p)]
  /\ UNCHANGED <<active, running, call, flushing, rewriting, queueVars,
                 hostTurn, hostConfig, startConfig, hostStatus, wireVars,
                 historyVars>>

HostStartsTurn(s) ==
  /\ hostTurn[s] = NoPrompt /\ hostQueue[s] # <<>>
  /\ hostTurn' = [hostTurn EXCEPT ![s] = Head(hostQueue[s])]
  /\ hostQueue' = [hostQueue EXCEPT ![s] = Tail(@)]
  /\ startConfig' = [startConfig EXCEPT ![s] = hostConfig[s]]
  /\ IF hostStatus[s]
     THEN UNCHANGED <<hostStatus, events>>
     ELSE /\ hostStatus' = [hostStatus EXCEPT ![s] = TRUE]
          /\ Announce(s, TRUE)
  /\ UNCHANGED <<active, running, call, flushing, rewriting, queueVars,
                 hostConfig, accepted, follow, link, listing, disruptions,
                 historyVars>>

(* Between two queued turns the host may or may not announce an idle edge.  *)
HostEndsTurn(s) ==
  /\ hostTurn[s] # NoPrompt
  /\ hostTurn' = [hostTurn EXCEPT ![s] = NoPrompt]
  /\ startConfig' = [startConfig EXCEPT ![s] = NoPrompt]
  /\ follow' = IF s = active /\ link["follow"] = "up"
               THEN Append(follow, hostTurn[s]) ELSE follow
  /\ \/ /\ hostStatus' = [hostStatus EXCEPT ![s] = FALSE]
        /\ Announce(s, FALSE)
     \/ /\ hostQueue[s] # <<>>
        /\ UNCHANGED <<hostStatus, events>>
  /\ UNCHANGED <<active, running, call, flushing, rewriting, queueVars,
                 hostQueue, hostConfig, accepted, link, listing,
                 disruptions, historyVars>>

-----------------------------------------------------------------------------
(* Stream handlers and the pumps' reconnect loops.                          *)

(* Mutant of HandleStatus: an idle status leaves the marker to turn/end.    *)
HandleStatusKeepingMarker ==
  /\ events # <<>>
  /\ events' = Tail(events)
  /\ running' = [running EXCEPT ![Head(events).session] = Head(events).running]
  /\ UNCHANGED <<active, queueVars, call, flushing, rewriting, hostVars, follow,
                 link, listing, disruptions, historyVars>>

(* handleRemoteEvent, api-session/status.                                   *)
HandleStatus ==
  /\ events # <<>>
  /\ events' = Tail(events)
  /\ running' = [running EXCEPT ![Head(events).session] = Head(events).running]
  /\ IF Head(events).running THEN UNCHANGED admitted
                             ELSE Forget(Head(events).session)
  /\ UNCHANGED <<active, slots, call, flushing, rewriting, hostVars, follow,
                 link, listing, disruptions, historyVars>>

(* handleFollowFrame, turn/end.                                             *)
HandleTurnEnd ==
  /\ follow # <<>>
  /\ follow' = Tail(follow)
  /\ Release(active, Head(follow))
  /\ UNCHANGED <<active, running, call, rewriting, hostVars, events, link,
                 listing, disruptions, historyVars>>

StreamLost(x) ==
  /\ disruptions < MaxDisruptions
  /\ disruptions' = disruptions + 1
  /\ link[x] = "up"
  /\ link' = [link EXCEPT ![x] = "down"]
  /\ follow' = IF x = "follow" THEN <<>> ELSE follow
  /\ events' = IF x = "events" THEN <<>> ELSE events
  /\ UNCHANGED <<active, running, call, flushing, rewriting, queueVars,
                 hostVars, listing, historyVars>>

(* waitToReconnect reads session/list before its pump opens a new stream;   *)
(* an api-session/added event reads it too.  The answer carries the status  *)
(* the host had when it took the list.                                      *)
ListTaken(why) ==
  /\ listing = <<>>
  /\ IF why = "added"
     THEN /\ disruptions < MaxDisruptions
          /\ disruptions' = disruptions + 1
          /\ UNCHANGED link
     ELSE /\ link[why] = "down"
          /\ link' = [link EXCEPT ![why] = "listing"]
          /\ UNCHANGED disruptions
  /\ listing' = <<[for |-> why, status |-> hostStatus]>>
  /\ UNCHANGED <<active, running, call, flushing, rewriting, queueVars,
                 hostVars, follow, events, historyVars>>

(* refreshSessionList answered, or failed and was logged.                   *)
ListSettles ==
  /\ listing # <<>>
  /\ listing' = <<>>
  /\ link' = [x \in Streams |-> IF x = Head(listing).for THEN "opening"
                                                         ELSE link[x]]
  /\ \/ running' = Head(listing).status
     \/ UNCHANGED running
  /\ UNCHANGED <<active, call, flushing, rewriting, queueVars, hostVars,
                 follow, events, disruptions, historyVars>>

StreamOpened(x) ==
  /\ link[x] = "opening"
  /\ link' = [link EXCEPT ![x] = "up"]
  /\ UNCHANGED <<active, running, call, flushing, rewriting, queueVars,
                 hostVars, follow, events, listing, disruptions, historyVars>>

-----------------------------------------------------------------------------
UserStep ==
  \/ \E p \in Prompts, kind \in Kinds :
       SendApplying(p, kind) \/ SendParking(p, kind)
  \/ \E p \in Prompts : SendPlain(p) \/ RewriteQueue(p)
  \/ \E s \in Sessions : SelectSession(s)

CallStep(p) ==
  \/ ConfigurationIssued(p)
  \/ ConfigurationLands(p)
  \/ ConfigurationFails(p)
  \/ HostAccepts(p)
  \/ PromptConfirmed(p)
  \/ PromptFails(p)

FlushStep(b) == FlushIssued(b) \/ FlushLands(b) \/ FlushFails(b)

HostStep(s) == HostStartsTurn(s) \/ HostEndsTurn(s)

StreamStep(x) == ListTaken(x) \/ StreamOpened(x)

Next ==
  \/ UserStep
  \/ \E p \in Prompts : CallStep(p) \/ FlushStep(p)
  \/ \E s \in Sessions : HostStep(s) \/ RewriteAnswered(s)
  \/ HandleStatus
  \/ HandleTurnEnd
  \/ ListSettles
  \/ ListTaken("added")
  \/ \E x \in Streams : StreamStep(x) \/ StreamLost(x)

(* RPCs settle (they time out), turns end, buffered frames are handled and  *)
(* pumps reconnect; nothing obliges the user to act or a stream to fail.    *)
Fairness ==
  /\ \A p \in Prompts : WF_vars(CallStep(p)) /\ WF_vars(FlushStep(p))
  /\ \A s \in Sessions : WF_vars(HostStep(s)) /\ WF_vars(RewriteAnswered(s))
  /\ WF_vars(HandleStatus) /\ WF_vars(HandleTurnEnd) /\ WF_vars(ListSettles)
  /\ \A x \in Streams : WF_vars(StreamStep(x))

Spec == Init /\ [][Next]_vars
FairSpec == Spec /\ Fairness

-----------------------------------------------------------------------------
(* Type invariant.                                                          *)
TypeOK ==
  /\ active \in Sessions
  /\ running \in [Sessions -> BOOLEAN]
  /\ admitted \subseteq Sessions
  /\ slots \in [Sessions -> Seq(Slot)]
  /\ call \in [Prompts -> Call]
  /\ flushing \in [Prompts -> Flush]
  /\ rewriting \in [Sessions -> BOOLEAN]
  /\ hostQueue \in [Sessions -> Seq(Prompts)]
  /\ hostTurn \in [Sessions -> Prompts \cup {NoPrompt}]
  /\ hostConfig \in [Sessions -> Prompts \cup {NoPrompt}]
  /\ startConfig \in [Sessions -> Prompts \cup {NoPrompt}]
  /\ hostStatus \in [Sessions -> BOOLEAN]
  /\ accepted \subseteq Prompts
  /\ follow \in Seq(Prompts)
  /\ events \in Seq([session : Sessions, running : BOOLEAN])
  /\ link \in [Streams -> {"up", "down", "listing", "opening"}]
  /\ listing \in Seq(Listing)
  /\ disruptions \in 0..MaxDisruptions
  /\ order \in Seq(Prompts)
  /\ applied \subseteq Prompts
  /\ dropped \subseteq Prompts

(* A prompt whose admission failed leaves no slot behind in any session,    *)
(* whatever was selected, flushed or queued while its RPC was under way     *)
(* (the catch block of sendPrompt).                                         *)
FailedPromptOwnsNoSlot ==
  \A p \in Prompts : call[p].phase = "failed" =>
    \A s \in Sessions : p \notin Owners(s)

(* A parked configuration is never lost: until its prompt fails or the user *)
(* rewrites the queue, it is in its session's queue or it has been applied  *)
(* (sendPrompt: "the configuration is never dropped").                      *)
ParkedConfigurationKept ==
  \A p \in Prompts :
    (call[p].parked /\ Configures(call[p].kind) /\ call[p].phase # "failed")
      => p \in Owners(call[p].home) \cup applied \cup dropped

(* Parked configurations of one session reach the host in the order the     *)
(* prompts were sent: a later one is not applied before an earlier one that *)
(* is still wanted (PendingConfigurationQueue is a FIFO).                   *)
AppliedInFifoOrder ==
  \A i, j \in DOMAIN order :
    LET p == order[i]
        q == order[j]
        wanted(r) == /\ Configures(call[r].kind)
                     /\ call[r].phase # "failed"
                     /\ r \notin dropped
    IN (/\ i < j
        /\ call[p].home = call[q].home
        /\ wanted(p) /\ wanted(q)
        /\ q \in applied) => p \in applied

(* An admission marker does not outlive the prompt it was set for: as long  *)
(* as no stream has been lost, a session marked busy is released in the end *)
(* (status and turn/end handlers, failed sends), so that a later            *)
(* configuration or a runtime mutation does not wait on it for ever.        *)
MarkerReleased ==
  \A s \in Sessions :
    s \in admitted ~> (s \notin admitted \/ disruptions > 0)

(* Claimed by sendPrompt ("The configuration is never dropped and never     *)
(* mutates a running turn") and by flush ("never mutates a live turn"), and *)
(* not kept: the configuration selected for a session does not change while *)
(* a turn of it runs.  Images, the stated exception, are not in the run.    *)
RunningTurnKeepsConfiguration ==
  \A s \in Sessions :
    hostTurn[s] # NoPrompt => hostConfig[s] = startConfig[s]

=============================================================================
