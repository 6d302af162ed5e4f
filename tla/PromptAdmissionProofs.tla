----------------------- MODULE PromptAdmissionProofs -----------------------
(***************************************************************************)
(* Proofs about PromptAdmission, for every set of sessions and prompts and *)
(* every value of the bounds.                                              *)
(***************************************************************************)
EXTENDS PromptAdmission, SequenceTheorems, TLAPS

-----------------------------------------------------------------------------
(* Sequences.                                                              *)

(* Taking one element out of a sequence closes the gap.                     *)
LEMMA RemoveAtProperties ==
  ASSUME NEW S, NEW s \in Seq(S), NEW k \in DOMAIN s
  PROVE  /\ RemoveAt(s, k) \in Seq(S)
         /\ Len(RemoveAt(s, k)) = Len(s) - 1
         /\ \A i \in 1..(Len(s) - 1) :
              RemoveAt(s, k)[i] = IF i < k THEN s[i] ELSE s[i + 1]
  <1> DEFINE front == SubSeq(s, 1, k - 1)
             back == SubSeq(s, k + 1, Len(s))
  <1>1. Len(s) \in Nat /\ DOMAIN s = 1..Len(s) /\ k \in 1..Len(s)
    BY LenProperties
  <1>2. /\ front \in Seq(S) /\ Len(front) = k - 1
        /\ \A i \in 1..(k - 1) : front[i] = s[i]
    <2>1. \A i \in 1..(k - 1) : s[i] \in S
      BY <1>1, ElementOfSeq
    <2> QED
      BY <1>1, <2>1, SubSeqProperties
  <1>3. /\ back \in Seq(S) /\ Len(back) = Len(s) - k
        /\ \A i \in 1..(Len(s) - k) : back[i] = s[k + i]
    <2>1. \A i \in (k + 1)..Len(s) : s[i] \in S
      BY <1>1, ElementOfSeq
    <2> QED
      BY <1>1, <2>1, SubSeqProperties
  <1> HIDE DEF front, back
  <1>4. /\ front \o back \in Seq(S)
        /\ Len(front \o back) = Len(s) - 1
        /\ \A i \in 1..(Len(s) - 1) :
             (front \o back)[i] = IF i <= k - 1 THEN front[i] ELSE back[i - (k - 1)]
    <2>1. /\ front \o back \in Seq(S)
          /\ Len(front \o back) = Len(front) + Len(back)
          /\ \A i \in 1..(Len(front) + Len(back)) :
               (front \o back)[i] = IF i <= Len(front) THEN front[i]
                                                     ELSE back[i - Len(front)]
      BY <1>2, <1>3, ConcatProperties, Zenon
    <2>2. Len(front) + Len(back) = Len(s) - 1
      BY <1>1, <1>2, <1>3
    <2> QED
      BY <1>2, <2>1, <2>2, Zenon
  <1>5. \A i \in 1..(Len(s) - 1) :
          (front \o back)[i] = IF i < k THEN s[i] ELSE s[i + 1]
    <2> SUFFICES ASSUME NEW i \in 1..(Len(s) - 1)
                 PROVE  (front \o back)[i] = IF i < k THEN s[i] ELSE s[i + 1]
      OBVIOUS
    <2>1. CASE i < k
      <3>1. i \in 1..(k - 1) /\ i <= k - 1
        BY <1>1, <2>1
      <3> QED
        BY <1>2, <1>4, <2>1, <3>1, Zenon
    <2>2. CASE ~(i < k)
      <3>1. /\ i - (k - 1) \in 1..(Len(s) - k) /\ ~(i <= k - 1)
            /\ k + (i - (k - 1)) = i + 1
        BY <1>1, <2>2
      <3> QED
        BY <1>3, <1>4, <2>2, <3>1, Zenon
    <2> QED
      BY <2>1, <2>2
  <1> QED
    BY <1>4, <1>5 DEF RemoveAt, front, back

-----------------------------------------------------------------------------
(* Types.                                                                  *)

(* A call keeps its type when it is made, and when its phase changes.       *)
LEMMA CalledTyped ==
  ASSUME TypeOK, NEW p \in Prompts, NEW kind \in Kinds, NEW phase \in CallPhase,
         NEW parked \in BOOLEAN, Called(p, kind, phase, parked)
  PROVE  call' \in [Prompts -> Call]
  <1>1. active \in Sessions /\ kind \in AllKinds /\ call \in [Prompts -> Call]
    BY AdmissionAssumption DEF TypeOK, AdmissionAssumption
  <1>2. [phase |-> phase, kind |-> kind, home |-> active, target |-> active,
         parked |-> parked] \in Call
    BY <1>1 DEF Call
  <1> QED
    BY <1>1, <1>2 DEF Called

(* A call that moves to another phase or session is still a call.           *)
LEMMA PhaseTyped ==
  ASSUME NEW c \in [Prompts -> Call], NEW p \in Prompts,
         NEW phase \in CallPhase, NEW s \in Sessions
  PROVE  /\ [c EXCEPT ![p].phase = phase] \in [Prompts -> Call]
         /\ [c EXCEPT ![p].phase = phase, ![p].target = s] \in [Prompts -> Call]
  <1>1. /\ [c[p] EXCEPT !.phase = phase] \in Call
        /\ [[c[p] EXCEPT !.phase = phase] EXCEPT !.target = s] \in Call
    BY DEF Call
  <1> QED
    BY <1>1

(* A call that returns (sendPrompt settles) is still a call.                *)
LEMMA ReturnedTyped ==
  ASSUME TypeOK, NEW p \in Prompts, NEW phase \in CallPhase, Returned(p, phase)
  PROVE  call' \in [Prompts -> Call]
  <1>1. call \in [Prompts -> Call] /\ call[p].home \in Sessions
    BY DEF TypeOK, Call
  <1> QED
    BY <1>1, PhaseTyped DEF Returned

(* So does an apply() when its phase changes.                               *)
LEMMA FlushTyped ==
  ASSUME NEW f \in [Prompts -> Flush], NEW b \in Prompts, NEW s \in Sessions,
         NEW phase \in {"configuring", "selecting", "settled"}
  PROVE  [f EXCEPT ![b].phase = phase, ![b].target = s] \in [Prompts -> Flush]
  <1>1. [[f[b] EXCEPT !.phase = phase] EXCEPT !.target = s] \in Flush
    BY DEF Flush
  <1> QED
    BY <1>1

(* What a boundary does to the queue of its session keeps its type.         *)
LEMMA FlushHeadTyped ==
  ASSUME TypeOK, NEW s \in Sessions, NEW b \in Prompts, FlushHead(s, b)
  PROVE  slots' \in [Sessions -> Seq(Slot)] /\ flushing' \in [Prompts -> Flush]
  <1> slots[s] \in Seq(Slot)
    BY DEF TypeOK
  <1>1. CASE slots[s] = <<>>
    BY <1>1 DEF FlushHead, TypeOK
  <1>2. CASE slots[s] # <<>>
    <2>1. Head(slots[s]) \in Slot /\ Tail(slots[s]) \in Seq(Slot)
      BY <1>2, HeadTailProperties
    <2>2. [phase |-> "configuring", home |-> s, owner |-> Head(slots[s]).owner,
           target |-> s] \in Flush
      BY <2>1 DEF Slot, Flush
    <2>3. slots' \in [Sessions -> Seq(Slot)]
      BY <1>2, <2>1 DEF FlushHead, TypeOK
    <2>4. flushing' \in [Prompts -> Flush]
      BY <1>2, <2>2 DEF FlushHead, TypeOK
    <2> QED
      BY <2>3, <2>4
  <1> QED
    BY <1>1, <1>2

Flushing(b) == flushing[b].phase \in {"configuring", "selecting"}

(* The strengthening that makes the types inductive: an apply() under way   *)
(* works for a prompt, never for an empty slot.                             *)
FlushHasOwner == \A b \in Prompts : Flushing(b) => flushing[b].owner \in Prompts

(* A selection of an apply() that is under way keeps the host's types.      *)
LEMMA SelectFlushedTyped ==
  ASSUME TypeOK, FlushHasOwner, NEW b \in Prompts, Flushing(b), SelectFlushed(b)
  PROVE  /\ hostConfig' \in [Sessions -> Prompts \cup {NoPrompt}]
         /\ applied' \subseteq Prompts
  <1>1. flushing[b].owner \in Prompts
    BY DEF FlushHasOwner
  <1> QED
    BY <1>1 DEF SelectFlushed, TypeOK

Status == [session : Sessions, running : BOOLEAN]

(* An announcement of the host is a status frame.                           *)
LEMMA AnnounceTyped ==
  ASSUME events \in Seq(Status), NEW s \in Sessions, NEW status \in BOOLEAN,
         Announce(s, status)
  PROVE  events' \in Seq(Status)
  <1>1. [session |-> s, running |-> status] \in Status
    BY DEF Status
  <1> QED
    BY <1>1, AppendProperties DEF Announce

(* Every action of the service, the user, the streams and the host keeps    *)
(* the types.                                                               *)
LEMMA TypeInductive == TypeOK /\ FlushHasOwner /\ [Next]_vars => TypeOK'
  <1> SUFFICES ASSUME TypeOK, FlushHasOwner, [Next]_vars PROVE TypeOK'
    OBVIOUS
  <1> USE AdmissionAssumption DEF AdmissionAssumption, queueVars,
          hostVars, wireVars, historyVars
  <1>1. ASSUME NEW p \in Prompts, NEW kind \in Kinds, SendApplying(p, kind)
        PROVE  TypeOK'
    <2>1. call' \in [Prompts -> Call]
      BY <1>1, CalledTyped DEF SendApplying, CallPhase
    <2> QED
      BY <1>1, <2>1 DEF SendApplying, TypeOK
  <1>2. ASSUME NEW p \in Prompts, NEW kind \in Kinds, SendParking(p, kind)
        PROVE  TypeOK'
    <2>1. call' \in [Prompts -> Call]
      BY <1>2, CalledTyped DEF SendParking, CallPhase
    <2>2. slots' \in [Sessions -> Seq(Slot)] /\ order' \in Seq(Prompts)
      <3>1. [owner |-> p, none |-> ~Configures(kind)] \in Slot
        BY DEF Slot, Configures
      <3> QED
        BY <1>2, <3>1, AppendProperties DEF SendParking, Pend, TypeOK
    <2> QED
      BY <1>2, <2>1, <2>2 DEF SendParking, Admit, TypeOK
  <1>3. ASSUME NEW p \in Prompts, SendPlain(p) PROVE TypeOK'
    <2>1. call' \in [Prompts -> Call]
      BY <1>3, CalledTyped DEF SendPlain, MayCall, CallPhase
    <2> QED
      BY <1>3, <2>1 DEF SendPlain, Admit, TypeOK
  <1>4. ASSUME NEW p \in Prompts, RewriteQueue(p) PROVE TypeOK'
    <2>1. hostQueue' \in [Sessions -> Seq(Prompts)]
      <3>1. PICK i \in DOMAIN hostQueue[active] :
              \/ hostQueue' = [hostQueue EXCEPT ![active] = RemoveAt(@, i)]
              \/ UNCHANGED hostQueue
        BY <1>4 DEF RewriteQueue
      <3>2. RemoveAt(hostQueue[active], i) \in Seq(Prompts)
        BY <3>1, RemoveAtProperties DEF TypeOK
      <3> QED
        BY <3>1, <3>2 DEF TypeOK
    <2> QED
      BY <1>4, <2>1 DEF RewriteQueue, TypeOK
  <1>5. ASSUME NEW s \in Sessions, SelectSession(s) PROVE TypeOK'
    BY <1>5 DEF SelectSession, Streams, TypeOK
  <1>6. ASSUME NEW p \in Prompts, CallStep(p) PROVE TypeOK'
    <2>1. CASE ConfigurationIssued(p)
      <3>1. call' \in [Prompts -> Call]
        BY <2>1, PhaseTyped DEF ConfigurationIssued, CallPhase, TypeOK
      <3> QED
        BY <2>1, <3>1 DEF ConfigurationIssued, TypeOK
    <2>2. CASE ConfigurationLands(p)
      <3>1. call' \in [Prompts -> Call]
        <4>1. CASE call[p].kind = "command"
          BY <2>2, <4>1, ReturnedTyped DEF ConfigurationLands, CallPhase
        <4>2. CASE call[p].kind # "command"
          <5>1. call' = [call EXCEPT ![p].phase = "sending", ![p].target = active]
            BY <2>2, <4>2 DEF ConfigurationLands
          <5>2. call \in [Prompts -> Call] /\ active \in Sessions
            BY DEF TypeOK
          <5> QED
            BY <5>1, <5>2, PhaseTyped DEF CallPhase
        <4> QED
          BY <4>1, <4>2
      <3>2. admitted' \subseteq Sessions
        BY <2>2 DEF ConfigurationLands, Admit, TypeOK
      <3> QED
        BY <2>2, <3>1, <3>2 DEF ConfigurationLands, TypeOK
    <2>3. CASE ConfigurationFails(p)
      <3>1. call' \in [Prompts -> Call]
        BY <2>3, ReturnedTyped DEF ConfigurationFails, CallPhase
      <3>2. /\ hostConfig' \in [Sessions -> Prompts \cup {NoPrompt}]
            /\ applied' \subseteq Prompts
        <4>1. \/ UNCHANGED <<hostConfig, applied>>
              \/ /\ hostConfig' = [hostConfig EXCEPT ![call[p].target] = p]
                 /\ applied' = applied \cup {p}
          BY <2>3 DEF ConfigurationFails
        <4>2. /\ hostConfig \in [Sessions -> Prompts \cup {NoPrompt}]
              /\ applied \subseteq Prompts
          BY DEF TypeOK
        <4> QED
          BY <4>1, <4>2
      <3> QED
        BY <2>3, <3>1, <3>2 DEF ConfigurationFails, TypeOK
    <2>4. CASE HostAccepts(p)
      <3>1. hostQueue' \in [Sessions -> Seq(Prompts)]
        <4>1. call[p].target \in Sessions
          <5>1. call[p] \in Call
            BY DEF TypeOK
          <5> QED
            BY <5>1 DEF Call
        <4>2. Append(hostQueue[call[p].target], p) \in Seq(Prompts)
          BY <4>1, AppendProperties DEF TypeOK
        <4> QED
          BY <2>4, <4>1, <4>2 DEF HostAccepts, TypeOK
      <3> QED
        BY <2>4, <3>1 DEF HostAccepts, TypeOK
    <2>5. CASE PromptConfirmed(p)
      <3>1. call' \in [Prompts -> Call]
        BY <2>5, ReturnedTyped DEF PromptConfirmed, CallPhase
      <3> QED
        BY <2>5, <3>1 DEF PromptConfirmed, TypeOK
    <2>6. CASE PromptFails(p)
      <3>1. call' \in [Prompts -> Call]
        BY <2>6, ReturnedTyped DEF PromptFails, CallPhase
      <3>2. slots' \in [Sessions -> Seq(Slot)]
        <4> DEFINE home == call[p].home
        <4>1. home \in Sessions /\ slots[home] \in Seq(Slot)
          BY DEF Call, TypeOK
        <4>2. \A i \in DOMAIN slots[home] : RemoveAt(slots[home], i) \in Seq(Slot)
          BY <4>1, RemoveAtProperties
        <4>3. CASE slots' = slots
          BY <4>3 DEF TypeOK
        <4>4. CASE Unpend(home, p)
          <5>1. PICK t \in Seq(Slot) : slots' = [slots EXCEPT ![home] = t]
            BY <4>1, <4>2, <4>4 DEF Unpend
          <5> QED
            BY <5>1 DEF TypeOK
        <4> QED
          BY <2>6, <4>3, <4>4 DEF PromptFails
      <3> QED
        BY <2>6, <3>1, <3>2 DEF PromptFails, Forget, TypeOK
    <2> QED
      BY <1>6, <2>1, <2>2, <2>3, <2>4, <2>5, <2>6 DEF CallStep
  <1>7. ASSUME NEW b \in Prompts, FlushStep(b) PROVE TypeOK'
    <2> flushing \in [Prompts -> Flush] /\ flushing[b].home \in Sessions
      BY DEF TypeOK, Flush
    <2>1. CASE FlushIssued(b)
      <3>1. flushing' \in [Prompts -> Flush]
        BY <2>1, FlushTyped DEF FlushIssued, TypeOK
      <3> QED
        BY <2>1, <3>1 DEF FlushIssued, TypeOK
    <2>2. CASE FlushLands(b)
      <3>1. flushing' \in [Prompts -> Flush]
        BY <2>2, FlushTyped DEF FlushLands, Flushed
      <3>2. slots' \in [Sessions -> Seq(Slot)]
        BY <2>2, HeadTailProperties DEF FlushLands, ShiftApplied, TypeOK
      <3>3. /\ hostConfig' \in [Sessions -> Prompts \cup {NoPrompt}]
            /\ applied' \subseteq Prompts
        BY <2>2, SelectFlushedTyped DEF FlushLands, Flushing
      <3> QED
        BY <2>2, <3>1, <3>2, <3>3 DEF FlushLands, TypeOK
    <2>3. CASE FlushFails(b)
      <3>1. flushing' \in [Prompts -> Flush]
        BY <2>3, FlushTyped DEF FlushFails, Flushed
      <3>2. /\ hostConfig' \in [Sessions -> Prompts \cup {NoPrompt}]
            /\ applied' \subseteq Prompts
        BY <2>3, SelectFlushedTyped DEF FlushFails, Flushing, TypeOK
      <3> QED
        BY <2>3, <3>1, <3>2 DEF FlushFails, TypeOK
    <2> QED
      BY <1>7, <2>1, <2>2, <2>3 DEF FlushStep
  <1>8. ASSUME NEW s \in Sessions, HostStep(s) PROVE TypeOK'
    <2>1. CASE HostStartsTurn(s)
      <3>1. hostQueue[s] \in Seq(Prompts) /\ hostQueue[s] # <<>>
        BY <2>1 DEF HostStartsTurn, TypeOK
      <3>2. Head(hostQueue[s]) \in Prompts /\ Tail(hostQueue[s]) \in Seq(Prompts)
        BY <3>1, HeadTailProperties
      <3>3. events' \in Seq(Status)
        BY <2>1, AnnounceTyped DEF HostStartsTurn, Status, TypeOK
      <3> QED
        BY <2>1, <3>2, <3>3 DEF HostStartsTurn, TypeOK, Status
    <2>2. CASE HostEndsTurn(s)
      <3>1. events' \in Seq(Status)
        BY <2>2, AnnounceTyped DEF HostEndsTurn, Status, TypeOK
      <3>2. follow' \in Seq(Prompts)
        <4>1. hostTurn[s] \in Prompts
          BY <2>2 DEF HostEndsTurn, TypeOK
        <4> QED
          BY <2>2, <4>1, AppendProperties DEF HostEndsTurn, TypeOK
      <3>3. hostStatus' \in [Sessions -> BOOLEAN]
        BY <2>2 DEF HostEndsTurn, TypeOK
      <3> QED
        BY <2>2, <3>1, <3>2, <3>3 DEF HostEndsTurn, TypeOK, Status
    <2> QED
      BY <1>8, <2>1, <2>2 DEF HostStep
  <1>9. ASSUME NEW s \in Sessions, RewriteAnswered(s) PROVE TypeOK'
    <2>1. Owners(s) \subseteq Prompts
      <3>1. \A i \in DOMAIN slots[s] : slots[s][i] \in Slot
        BY LenProperties DEF TypeOK
      <3> QED
        BY <3>1 DEF Owners, Slot
    <2> QED
      BY <1>9, <2>1 DEF RewriteAnswered, DropForSession, TypeOK
  <1>10. CASE HandleStatus
    <2>1. Head(events) \in Status /\ Tail(events) \in Seq(Status)
      BY <1>10, HeadTailProperties DEF HandleStatus, TypeOK, Status
    <2>2. Head(events).session \in Sessions /\ Head(events).running \in BOOLEAN
      BY <2>1 DEF Status
    <2>3. running' \in [Sessions -> BOOLEAN]
      BY <1>10, <2>2 DEF HandleStatus, TypeOK
    <2> QED
      BY <1>10, <2>1, <2>3 DEF HandleStatus, Forget, TypeOK, Status
  <1>11. CASE HandleTurnEnd
    <2>1. Head(follow) \in Prompts /\ follow' \in Seq(Prompts)
      BY <1>11, HeadTailProperties DEF HandleTurnEnd, TypeOK
    <2>2. slots' \in [Sessions -> Seq(Slot)] /\ flushing' \in [Prompts -> Flush]
      BY <1>11, <2>1, FlushHeadTyped DEF HandleTurnEnd, Release, TypeOK
    <2> QED
      BY <1>11, <2>1, <2>2 DEF HandleTurnEnd, Release, TypeOK
  <1>12. CASE ListSettles
    <2>1. Head(listing) \in Listing
      BY <1>12, HeadTailProperties DEF ListSettles, TypeOK
    <2>2. Head(listing).status \in [Sessions -> BOOLEAN]
      BY <2>1 DEF Listing
    <2>3. running' \in [Sessions -> BOOLEAN]
      BY <1>12, <2>2 DEF ListSettles, TypeOK
    <2>4. listing' \in Seq(Listing)
      BY <1>12 DEF ListSettles
    <2>5. link' \in [Streams -> {"up", "down", "listing", "opening"}]
      BY <1>12 DEF ListSettles, TypeOK
    <2> QED
      BY <1>12, <2>3, <2>4, <2>5 DEF ListSettles, TypeOK
  <1>13. ASSUME NEW why \in Streams \cup {"added"}, ListTaken(why) PROVE TypeOK'
    <2>1. <<[for |-> why, status |-> hostStatus]>> \in Seq(Listing)
      BY DEF Listing, TypeOK
    <2> QED
      BY <1>13, <2>1 DEF ListTaken, Streams, TypeOK
  <1>14. ASSUME NEW x \in Streams, StreamOpened(x) \/ StreamLost(x) PROVE TypeOK'
    <2>1. CASE StreamOpened(x)
      BY <2>1 DEF StreamOpened, TypeOK
    <2>2. CASE StreamLost(x)
      <3>1. disruptions' \in 0..MaxDisruptions
        BY <2>2 DEF StreamLost, TypeOK
      <3>2. follow' \in Seq(Prompts) /\ events' \in Seq(Status)
        BY <2>2 DEF StreamLost, TypeOK, Status
      <3>3. link' \in [Streams -> {"up", "down", "listing", "opening"}]
        BY <2>2 DEF StreamLost, TypeOK
      <3> QED
        BY <2>2, <3>1, <3>2, <3>3 DEF StreamLost, TypeOK, Status
    <2> QED
      BY <1>14, <2>1, <2>2
  <1>15. CASE UNCHANGED vars
    BY <1>15 DEF vars, TypeOK
  <1> QED
    BY <1>1, <1>2, <1>3, <1>4, <1>5, <1>6, <1>7, <1>8, <1>9, <1>10, <1>11,
       <1>12, <1>13, <1>14, <1>15 DEF Next, UserStep, StreamStep

(* Only a turn's end and the steps of an apply() change an apply().         *)
LEMMA FlushingFrame ==
  [Next]_vars => \/ UNCHANGED flushing
                 \/ HandleTurnEnd
                 \/ \E b \in Prompts : FlushStep(b)
  <1> SUFFICES ASSUME [Next]_vars
               PROVE  \/ UNCHANGED flushing
                      \/ HandleTurnEnd
                      \/ \E b \in Prompts : FlushStep(b)
    OBVIOUS
  <1>1. CASE UserStep
    BY <1>1 DEF UserStep, SendApplying, SendParking, SendPlain, RewriteQueue,
       SelectSession
  <1>2. ASSUME NEW p \in Prompts, CallStep(p) PROVE UNCHANGED flushing
    BY <1>2 DEF CallStep, ConfigurationIssued, ConfigurationLands,
       ConfigurationFails, HostAccepts, PromptConfirmed, PromptFails
  <1>3. ASSUME NEW s \in Sessions, HostStep(s) \/ RewriteAnswered(s)
        PROVE  UNCHANGED flushing
    BY <1>3 DEF HostStep, HostStartsTurn, HostEndsTurn, RewriteAnswered
  <1>4. CASE HandleStatus \/ ListSettles
    BY <1>4 DEF HandleStatus, ListSettles
  <1>5. ASSUME NEW x, ListTaken(x) \/ StreamOpened(x) \/ StreamLost(x)
        PROVE  UNCHANGED flushing
    BY <1>5 DEF ListTaken, StreamOpened, StreamLost
  <1>6. CASE UNCHANGED vars
    BY <1>6 DEF vars
  <1> QED
    BY <1>1, <1>2, <1>3, <1>4, <1>5, <1>6 DEF Next, StreamStep

(* Only a boundary that finds a configuration at the head of the queue      *)
(* starts an apply().                                                       *)
LEMMA FlushHasOwnerInductive == TypeOK /\ FlushHasOwner /\ [Next]_vars => FlushHasOwner'
  <1> SUFFICES ASSUME TypeOK, FlushHasOwner, [Next]_vars PROVE FlushHasOwner'
    OBVIOUS
  <1>1. CASE UNCHANGED flushing
    BY <1>1 DEF FlushHasOwner, Flushing
  <1>2. ASSUME NEW b \in Prompts, FlushStep(b) PROVE FlushHasOwner'
    <2>1. flushing \in [Prompts -> Flush]
      BY DEF TypeOK
    <2>2. PICK phase, s :
            /\ phase \in {"selecting", "settled"}
            /\ flushing' = [flushing EXCEPT ![b].phase = phase, ![b].target = s]
            /\ Flushing(b)
      BY <1>2 DEF FlushStep, FlushIssued, FlushLands, FlushFails, Flushed, Flushing
    <2> QED
      BY <2>1, <2>2 DEF FlushHasOwner, Flushing, Flush
  <1>3. CASE HandleTurnEnd
    <2>1. slots[active] \in Seq(Slot) /\ flushing \in [Prompts -> Flush]
      BY DEF TypeOK
    <2>2. \/ UNCHANGED flushing
          \/ /\ slots[active] # <<>>
             /\ flushing' = [flushing EXCEPT ![Head(follow)] =
                               [phase |-> "configuring", home |-> active,
                                owner |-> Head(slots[active]).owner,
                                target |-> active]]
      <3>1. UNCHANGED flushing \/ FlushHead(active, Head(follow))
        BY <1>3 DEF HandleTurnEnd, Release
      <3> QED
        BY <3>1 DEF FlushHead
    <2>3. slots[active] # <<>> => Head(slots[active]).owner \in Prompts
      <3>1. slots[active] # <<>> => Head(slots[active]) \in Slot
        BY <2>1, HeadTailProperties
      <3> QED
        BY <3>1 DEF Slot
    <2> QED
      BY <1>1, <2>1, <2>2, <2>3 DEF FlushHasOwner, Flushing
  <1> QED
    BY <1>1, <1>2, <1>3, FlushingFrame

(* The service starts with empty queues.                                    *)
LEMMA TypeInit == Init => TypeOK /\ FlushHasOwner
  BY AdmissionAssumption DEF Init, TypeOK, AdmissionAssumption, AllKinds,
     Call, CallPhase, Flush, Streams, FlushHasOwner, Flushing

(* Type correctness: whatever the user, the host and the streams do, the    *)
(* service's queues, markers and calls hold what their types say.           *)
THEOREM TypeCorrect == Spec => []TypeOK
  <1>1. Init => TypeOK /\ FlushHasOwner
    BY TypeInit
  <1>2. TypeOK /\ FlushHasOwner /\ [Next]_vars => (TypeOK /\ FlushHasOwner)'
    BY TypeInductive, FlushHasOwnerInductive
  <1> QED
    BY <1>1, <1>2, PTL DEF Spec
-----------------------------------------------------------------------------
(* Queues only lose slots, except when a prompt is parked.                  *)

(* What is left of a sequence, in the order it had.                         *)
Thinned(t, s) ==
  \E f \in [DOMAIN t -> DOMAIN s] :
    /\ \A i \in DOMAIN t : t[i] = s[f[i]]
    /\ \A i, j \in DOMAIN t : i < j => f[i] < f[j]

(* A sequence that is kept, emptied, shifted, or loses one element.         *)
LEMMA ThinnedSelf ==
  ASSUME NEW S, NEW s \in Seq(S)
  PROVE  Thinned(s, s)
  <1> DEFINE f == [i \in DOMAIN s |-> i]
  <1>1. f \in [DOMAIN s -> DOMAIN s] /\ \A i \in DOMAIN s : f[i] = i
    OBVIOUS
  <1> HIDE DEF f
  <1> QED
    BY <1>1 DEF Thinned

(* Emptying a queue (dropForSession) keeps the order of what is left.       *)
LEMMA ThinnedEmpty ==
  ASSUME NEW S, NEW s \in Seq(S)
  PROVE  Thinned(<<>>, s)
  <1> DEFINE f == [i \in {} |-> 1]
  <1>1. f \in [DOMAIN <<>> -> DOMAIN s] /\ DOMAIN <<>> = {}
    OBVIOUS
  <1> HIDE DEF f
  <1> QED
    BY <1>1 DEF Thinned

(* Shifting the head keeps the order of what is left.                       *)
LEMMA ThinnedTail ==
  ASSUME NEW S, NEW s \in Seq(S), s # <<>>
  PROVE  Thinned(Tail(s), s)
  <1> DEFINE f == [i \in DOMAIN Tail(s) |-> i + 1]
  <1>1. /\ Len(s) \in Nat /\ DOMAIN s = 1..Len(s) /\ s \in [1..Len(s) -> S]
        /\ Tail(s) \in Seq(S) /\ Len(Tail(s)) = Len(s) - 1
        /\ \A i \in 1..Len(Tail(s)) : Tail(s)[i] = s[i + 1]
    BY LenProperties, HeadTailProperties
  <1>2. DOMAIN Tail(s) = 1..(Len(s) - 1)
    BY <1>1, LenProperties
  <1>3. f \in [DOMAIN Tail(s) -> DOMAIN s]
    BY <1>1, <1>2
  <1>4. \A i \in DOMAIN Tail(s) : f[i] = i + 1
    OBVIOUS
  <1> HIDE DEF f
  <1>5. \A i \in DOMAIN Tail(s) : Tail(s)[i] = s[f[i]]
    BY <1>1, <1>2, <1>4
  <1>6. \A i, j \in DOMAIN Tail(s) : i < j => f[i] < f[j]
    BY <1>2, <1>4
  <1> QED
    BY <1>3, <1>5, <1>6 DEF Thinned

(* Splicing one entry out keeps the order of the others, and all of them.   *)
LEMMA ThinnedRemoveAt ==
  ASSUME NEW S, NEW s \in Seq(S), NEW k \in DOMAIN s
  PROVE  /\ Thinned(RemoveAt(s, k), s)
         /\ \A i \in DOMAIN RemoveAt(s, k) :
              \E j \in DOMAIN s : j # k /\ RemoveAt(s, k)[i] = s[j]
         /\ \A j \in DOMAIN s : j # k =>
              \E i \in DOMAIN RemoveAt(s, k) : RemoveAt(s, k)[i] = s[j]
  <1> DEFINE t == RemoveAt(s, k)
             f == [i \in 1..(Len(s) - 1) |-> IF i < k THEN i ELSE i + 1]
  <1>1. Len(s) \in Nat /\ DOMAIN s = 1..Len(s) /\ k \in 1..Len(s)
    BY LenProperties
  <1>2. /\ t \in Seq(S) /\ Len(t) = Len(s) - 1
        /\ \A i \in 1..(Len(s) - 1) : t[i] = IF i < k THEN s[i] ELSE s[i + 1]
    BY RemoveAtProperties
  <1> HIDE DEF t
  <1>3. DOMAIN t = 1..(Len(s) - 1)
    BY <1>2, LenProperties
  <1>4. /\ f \in [DOMAIN t -> DOMAIN s]
        /\ \A i \in DOMAIN t : f[i] = IF i < k THEN i ELSE i + 1
    BY <1>1, <1>3
  <1> HIDE DEF f
  <1>5. \A i \in DOMAIN t : t[i] = s[f[i]] /\ f[i] # k
    BY <1>1, <1>2, <1>3, <1>4
  <1>6. \A i, j \in DOMAIN t : i < j => f[i] < f[j]
    BY <1>1, <1>3, <1>4
  <1>7. ASSUME NEW j \in DOMAIN s, j # k
        PROVE  \E i \in DOMAIN t : t[i] = s[j]
    <2>1. CASE j < k
      BY <1>1, <1>2, <1>3, <2>1
    <2>2. CASE j > k
      <3>1. j - 1 \in DOMAIN t /\ ~(j - 1 < k) /\ (j - 1) + 1 = j
        BY <1>1, <1>3, <2>2
      <3> QED
        BY <1>2, <1>3, <3>1
    <2> QED
      BY <1>1, <1>7, <2>1, <2>2
  <1> QED
    BY <1>4, <1>5, <1>6, <1>7 DEF Thinned, t

(* Whoever stays in a queue that was thinned was in it.                     *)
LEMMA ThinnedOwners ==
  ASSUME NEW s \in Sessions, Thinned(slots'[s], slots[s])
  PROVE  Owners(s)' \subseteq Owners(s)
  BY DEF Thinned, Owners

ThinnedSlots == \A s \in Sessions : Thinned(slots'[s], slots[s])

(* A step that leaves the queues alone keeps their order.                   *)
LEMMA SlotsUnchanged ==
  ASSUME TypeOK, UNCHANGED slots
  PROVE  ThinnedSlots
  BY ThinnedSelf DEF ThinnedSlots, TypeOK

(* Thinning the queue of one session leaves the others as they are.         *)
LEMMA OneQueueThinned ==
  ASSUME TypeOK, NEW s \in Sessions, NEW t, Thinned(t, slots[s]),
         slots' = [slots EXCEPT ![s] = t]
  PROVE  ThinnedSlots
  <1> SUFFICES ASSUME NEW x \in Sessions PROVE Thinned(slots'[x], slots[x])
    BY DEF ThinnedSlots
  <1>1. slots \in [Sessions -> Seq(Slot)] /\ slots[x] \in Seq(Slot)
    BY DEF TypeOK
  <1>2. CASE x = s
    BY <1>1, <1>2
  <1>3. CASE x # s
    BY <1>1, <1>3, ThinnedSelf
  <1> QED
    BY <1>2, <1>3

(* turn/end consumes a none marker at the head of the active queue, or      *)
(* nothing.                                                                 *)
LEMMA HandleTurnEndThins ==
  ASSUME TypeOK, HandleTurnEnd
  PROVE  /\ ThinnedSlots
         /\ \/ UNCHANGED slots
            \/ /\ slots[active] # <<>> /\ Head(slots[active]).none
               /\ slots' = [slots EXCEPT ![active] = Tail(slots[active])]
  <1>1. active \in Sessions /\ slots[active] \in Seq(Slot)
    BY DEF TypeOK
  <1>2. UNCHANGED slots \/ FlushHead(active, Head(follow))
    BY DEF HandleTurnEnd, Release
  <1>3. \/ UNCHANGED slots
        \/ /\ slots[active] # <<>> /\ Head(slots[active]).none
           /\ slots' = [slots EXCEPT ![active] = Tail(slots[active])]
    BY <1>2 DEF FlushHead
  <1> QED
    BY <1>1, <1>3, SlotsUnchanged, ThinnedTail, OneQueueThinned

(* A flushed apply() takes a slot away only by applying it, at the head.    *)
LEMMA FlushStepThins ==
  ASSUME TypeOK, NEW b \in Prompts, FlushStep(b)
  PROVE  /\ ThinnedSlots
         /\ \/ UNCHANGED slots
            \/ LET s == flushing[b].home
               IN /\ s \in Sessions /\ slots[s] # <<>>
                  /\ Head(slots[s]).owner = flushing[b].owner
                  /\ slots' = [slots EXCEPT ![s] = Tail(slots[s])]
                  /\ applied' = applied \cup {flushing[b].owner}
  <1> DEFINE s == flushing[b].home
  <1>1. s \in Sessions /\ slots[s] \in Seq(Slot) /\ slots \in [Sessions -> Seq(Slot)]
    <2>1. flushing[b] \in Flush
      BY DEF TypeOK
    <2> QED
      BY <2>1 DEF Flush, TypeOK
  <1>2. \/ UNCHANGED slots
        \/ /\ ShiftApplied(s, flushing[b].owner)
           /\ applied' = applied \cup {flushing[b].owner}
    BY DEF FlushStep, FlushIssued, FlushLands, FlushFails, SelectFlushed, queueVars
  <1>3. \/ UNCHANGED slots
        \/ /\ slots[s] # <<>> /\ Head(slots[s]).owner = flushing[b].owner
           /\ slots' = [slots EXCEPT ![s] = Tail(slots[s])]
           /\ applied' = applied \cup {flushing[b].owner}
    BY <1>1, <1>2 DEF ShiftApplied
  <1> HIDE DEF s
  <1>4. ThinnedSlots
    BY <1>1, <1>3, SlotsUnchanged, ThinnedTail, OneQueueThinned
  <1> QED
    BY <1>1, <1>3, <1>4 DEF s

(* The answer of a queue rewrite empties one queue.                         *)
LEMMA RewriteAnsweredThins ==
  ASSUME TypeOK, NEW s \in Sessions, RewriteAnswered(s)
  PROVE  ThinnedSlots
  BY ThinnedEmpty, OneQueueThinned DEF RewriteAnswered, DropForSession, TypeOK

(* The rollback of a failed prompt takes out its own slot and no other.     *)
LEMMA PromptFailsThins ==
  ASSUME TypeOK, NEW p \in Prompts, PromptFails(p)
  PROVE  /\ ThinnedSlots
         /\ \A s \in Sessions : Owners(s) \subseteq Owners(s)' \cup {p}
  <1>0. PICK s \in Sessions : s = call[p].home
    <2>1. call[p] \in Call
      BY DEF TypeOK
    <2> QED
      BY <2>1 DEF Call
  <1>1. slots[s] \in Seq(Slot) /\ slots \in [Sessions -> Seq(Slot)]
    BY DEF TypeOK
  <1>2. UNCHANGED slots \/ Unpend(s, p)
    BY <1>0 DEF PromptFails
  <1>3. \/ UNCHANGED slots
        \/ \E k \in DOMAIN slots[s] :
             /\ slots[s][k].owner = p
             /\ slots' = [slots EXCEPT ![s] = RemoveAt(slots[s], k)]
    BY <1>1, <1>2 DEF Unpend
  <1>4. CASE UNCHANGED slots
    BY <1>4, SlotsUnchanged DEF Owners
  <1>5. ASSUME NEW k \in DOMAIN slots[s], slots[s][k].owner = p,
               slots' = [slots EXCEPT ![s] = RemoveAt(slots[s], k)]
        PROVE  /\ ThinnedSlots
               /\ \A x \in Sessions : Owners(x) \subseteq Owners(x)' \cup {p}
    <2>1. ThinnedSlots
      BY <1>1, <1>5, ThinnedRemoveAt, OneQueueThinned
    <2>2. Owners(s) \subseteq Owners(s)' \cup {p}
      <3>1. slots'[s] = RemoveAt(slots[s], k)
        BY <1>1, <1>5
      <3>2. \A j \in DOMAIN slots[s] : j # k =>
              \E i \in DOMAIN slots'[s] : slots'[s][i] = slots[s][j]
        BY <1>1, <3>1, ThinnedRemoveAt
      <3> QED
        BY <1>5, <3>2 DEF Owners
    <2>3. \A x \in Sessions : x # s => Owners(x)' = Owners(x)
      <3>1. \A x \in Sessions : x # s => slots'[x] = slots[x]
        BY <1>1, <1>5
      <3> QED
        BY <3>1 DEF Owners
    <2> QED
      BY <2>1, <2>2, <2>3
  <1> QED
    BY <1>3, <1>4, <1>5

-----------------------------------------------------------------------------
(* Calls.                                                                  *)

Holding == {"sending", "confirmed", "command"}

(* sendPrompt makes a call that was not made before, and parks it only on   *)
(* the busy path.                                                           *)
LEMMA CallMade ==
  ASSUME NEW p \in Prompts, NEW kind \in Kinds,
         SendApplying(p, kind) \/ SendParking(p, kind)
  PROVE  /\ call[p].phase = "unsent"
         /\ \E phase \in CallPhase \ {"unsent", "failed"}, parked \in BOOLEAN :
              /\ call' = [call EXCEPT ![p] =
                            [phase |-> phase, kind |-> kind, home |-> active,
                             target |-> active, parked |-> parked]]
              /\ parked => SendParking(p, kind) /\ phase \in Holding
  BY DEF SendApplying, SendParking, MayCall, Called, CallPhase, Holding

(* A plain prompt is sent once, and takes no slot.                          *)
LEMMA PlainCallMade ==
  ASSUME NEW p \in Prompts, SendPlain(p)
  PROVE  /\ call[p].phase = "unsent"
         /\ call' = [call EXCEPT ![p] =
                       [phase |-> "sending", kind |-> "plain", home |-> active,
                        target |-> active, parked |-> FALSE]]
  BY DEF SendPlain, MayCall, Called

(* A step of a call under way.                                              *)
LEMMA CallStepMoves ==
  ASSUME NEW p \in Prompts, CallStep(p)
  PROVE  \/ UNCHANGED <<call, slots, applied>>
         \/ \E phase \in CallPhase \ {"unsent"} : \E s :
              /\ call' = [call EXCEPT ![p].phase = phase, ![p].target = s]
              /\ call[p].phase \in {"configuring", "selecting", "sending"}
              /\ call[p].phase = "sending" =>
                   phase = "confirmed" \/ (phase = "failed" /\ PromptFails(p))
              /\ PromptFails(p) \/ UNCHANGED slots
              /\ applied' \subseteq applied \cup {q \in {p} : call[p].phase = "selecting"}
  <1>1. CASE ConfigurationIssued(p)
    <2>1. call' = [call EXCEPT ![p].phase = "selecting", ![p].target = active]
      BY <1>1 DEF ConfigurationIssued
    <2> QED
      BY <1>1, <2>1 DEF ConfigurationIssued, queueVars, historyVars, CallPhase
  <1>2. CASE ConfigurationLands(p)
    <2>1. \E phase \in {"command", "sending"} : \E s :
            call' = [call EXCEPT ![p].phase = phase, ![p].target = s]
      BY <1>2 DEF ConfigurationLands, Returned
    <2> QED
      BY <1>2, <2>1 DEF ConfigurationLands, CallPhase
  <1>3. CASE ConfigurationFails(p)
    <2>1. call' = [call EXCEPT ![p].phase = "failed", ![p].target = call[p].home]
      BY <1>3 DEF ConfigurationFails, Returned
    <2>2. UNCHANGED slots /\ call[p].phase \in {"configuring", "selecting"}
      BY <1>3 DEF ConfigurationFails, queueVars
    <2>3. applied' \subseteq applied \cup {q \in {p} : call[p].phase = "selecting"}
      BY <1>3 DEF ConfigurationFails
    <2> QED
      BY <2>1, <2>2, <2>3 DEF CallPhase
  <1>4. CASE HostAccepts(p)
    BY <1>4 DEF HostAccepts, queueVars, historyVars
  <1>5. CASE PromptConfirmed(p)
    <2>1. /\ call' = [call EXCEPT ![p].phase = "confirmed", ![p].target = call[p].home]
          /\ UNCHANGED <<slots, applied>>
      BY <1>5 DEF PromptConfirmed, Returned, queueVars, historyVars
    <2> QED
      BY <1>5, <2>1 DEF PromptConfirmed, CallPhase
  <1>6. CASE PromptFails(p)
    <2>1. call' = [call EXCEPT ![p].phase = "failed", ![p].target = call[p].home]
      BY <1>6 DEF PromptFails, Returned
    <2> QED
      BY <1>6, <2>1 DEF PromptFails, historyVars, CallPhase
  <1> QED
    BY <1>1, <1>2, <1>3, <1>4, <1>5, <1>6 DEF CallStep

(* What the other actions leave alone.                                      *)
LEMMA OtherSteps ==
  ASSUME [Next]_vars
  PROVE  \/ \E p \in Prompts, kind \in Kinds : SendApplying(p, kind)
         \/ \E p \in Prompts, kind \in Kinds : SendParking(p, kind)
         \/ \E p \in Prompts : SendPlain(p) \/ CallStep(p) \/ FlushStep(p)
         \/ \E s \in Sessions : RewriteAnswered(s)
         \/ HandleTurnEnd
         \/ UNCHANGED <<call, slots, flushing, historyVars>>
  <1>1. CASE \/ \E p \in Prompts : RewriteQueue(p)
             \/ \E s \in Sessions : SelectSession(s)
    BY <1>1 DEF RewriteQueue, SelectSession, queueVars
  <1>2. CASE \E s \in Sessions : HostStep(s)
    BY <1>2 DEF HostStep, HostStartsTurn, HostEndsTurn, queueVars
  <1>3. CASE HandleStatus
    BY <1>3 DEF HandleStatus
  <1>4. CASE ListSettles
    BY <1>4 DEF ListSettles, queueVars
  <1>5. ASSUME NEW x, ListTaken(x) \/ StreamOpened(x) \/ StreamLost(x)
        PROVE  UNCHANGED <<call, slots, flushing, historyVars>>
    BY <1>5 DEF ListTaken, StreamOpened, StreamLost, queueVars
  <1>6. CASE UNCHANGED vars
    BY <1>6 DEF vars, queueVars
  <1> QED
    BY <1>1, <1>2, <1>3, <1>4, <1>5, <1>6 DEF Next, UserStep, StreamStep

(* A call once made keeps its kind, its session and whether it is parked,   *)
(* and a failure is final.                                                  *)
Continues(p) ==
  /\ call'[p].kind = call[p].kind
  /\ call'[p].home = call[p].home
  /\ call'[p].parked = call[p].parked
  /\ call'[p].phase # "unsent"
  /\ call[p].phase = "failed" => call'[p].phase = "failed"

(* No step of anybody changes what a made call was made for.                *)
LEMMA CallsContinue ==
  ASSUME TypeOK, [Next]_vars, NEW p \in Prompts, call[p].phase # "unsent"
  PROVE  Continues(p)
  <1>1. call \in [Prompts -> Call] /\ call[p] \in Call
    BY DEF TypeOK
  <1>2. CASE UNCHANGED call
    BY <1>1, <1>2 DEF Continues
  <1>3. ASSUME NEW q \in Prompts, call[q].phase = "unsent", NEW r,
               call' = [call EXCEPT ![q] = r]
        PROVE  Continues(p)
    BY <1>1, <1>3 DEF Continues
  <1>4. ASSUME NEW q \in Prompts, CallStep(q)
        PROVE  Continues(p)
    <2>1. CASE UNCHANGED call
      BY <1>2, <2>1
    <2>2. CASE call' # call
      <3>1. PICK phase, s :
              /\ phase \in CallPhase \ {"unsent"}
              /\ call' = [call EXCEPT ![q].phase = phase, ![q].target = s]
              /\ call[q].phase \in {"configuring", "selecting", "sending"}
        BY <1>4, <2>2, CallStepMoves
      <3> QED
        BY <1>1, <3>1 DEF Continues, Call
    <2> QED
      BY <2>1, <2>2
  <1>5. ASSUME NEW q \in Prompts, NEW kind \in Kinds,
               SendApplying(q, kind) \/ SendParking(q, kind)
        PROVE  Continues(p)
    BY <1>3, <1>5, CallMade
  <1>6. ASSUME NEW q \in Prompts, SendPlain(q)
        PROVE  Continues(p)
    BY <1>3, <1>6, PlainCallMade
  <1>7. CASE \/ \E b \in Prompts : FlushStep(b)
             \/ \E s \in Sessions : RewriteAnswered(s)
             \/ HandleTurnEnd
    BY <1>2, <1>7 DEF FlushStep, FlushIssued, FlushLands, FlushFails,
       RewriteAnswered, HandleTurnEnd
  <1> QED
    BY <1>2, <1>4, <1>5, <1>6, <1>7, OtherSteps

-----------------------------------------------------------------------------
(* Who owns a slot.                                                         *)

(* Every slot belongs to a parked prompt of its session that has not        *)
(* failed, and is a none marker just when that prompt configures nothing.   *)
Owned(c, s, slot) ==
  /\ c[slot.owner].parked
  /\ c[slot.owner].home = s
  /\ c[slot.owner].phase \in Holding
  /\ slot.none = ~Configures(c[slot.owner].kind)

SlotsOwned ==
  \A s \in Sessions : \A i \in DOMAIN slots[s] : Owned(call, s, slots[s][i])

OneSlotEach ==
  \A s \in Sessions : \A i, j \in DOMAIN slots[s] :
    slots[s][i].owner = slots[s][j].owner => i = j

ParkedAreSent ==
  \A p \in Prompts :
    call[p].parked => call[p].phase \in Holding \cup {"failed"}

Ownership == SlotsOwned /\ OneSlotEach /\ ParkedAreSent

(* Owners are prompts.                                                      *)
LEMMA OwnersTyped ==
  ASSUME TypeOK, NEW s \in Sessions
  PROVE  Owners(s) \subseteq Prompts
  <1>1. \A i \in DOMAIN slots[s] : slots[s][i] \in Slot
    BY LenProperties DEF TypeOK
  <1> QED
    BY <1>1 DEF Owners, Slot

(* A prompt that was not sent yet, or whose configuration is being applied, *)
(* owns no slot.                                                            *)
LEMMA OwnersAreParked ==
  ASSUME SlotsOwned, NEW s \in Sessions, NEW p \in Owners(s)
  PROVE  /\ call[p].parked /\ call[p].home = s
         /\ call[p].phase \in Holding
  BY DEF Owners, SlotsOwned, Owned

(* Thinning a queue cannot give a prompt a second slot.                     *)
LEMMA OneSlotEachThinned ==
  ASSUME TypeOK, OneSlotEach, ThinnedSlots, slots' \in [Sessions -> Seq(Slot)]
  PROVE  OneSlotEach'
  <1> SUFFICES ASSUME NEW s \in Sessions,
                      NEW i \in DOMAIN slots'[s], NEW j \in DOMAIN slots'[s],
                      slots'[s][i].owner = slots'[s][j].owner
               PROVE  i = j
    BY DEF OneSlotEach
  <1>1. PICK f \in [DOMAIN slots'[s] -> DOMAIN slots[s]] :
          /\ \A x \in DOMAIN slots'[s] : slots'[s][x] = slots[s][f[x]]
          /\ \A x, y \in DOMAIN slots'[s] : x < y => f[x] < f[y]
    BY DEF ThinnedSlots, Thinned
  <1>2. f[i] = f[j]
    BY <1>1 DEF OneSlotEach
  <1>3. /\ DOMAIN slots'[s] = 1..Len(slots'[s]) /\ Len(slots'[s]) \in Nat
        /\ DOMAIN slots[s] = 1..Len(slots[s]) /\ Len(slots[s]) \in Nat
    BY LenProperties DEF TypeOK
  <1>4. i \in Int /\ j \in Int /\ f[i] \in Int /\ ~(f[i] < f[j]) /\ ~(f[j] < f[i])
    BY <1>1, <1>2, <1>3
  <1> QED
    BY <1>1, <1>4

(* A slot that stays is still owned, when its owner's call went on.         *)
LEMMA SlotsOwnedThinned ==
  ASSUME SlotsOwned, ThinnedSlots,
         \A s \in Sessions : \A p \in Owners(s)' :
           /\ call'[p].kind = call[p].kind /\ call'[p].home = call[p].home
           /\ call'[p].parked = call[p].parked
           /\ call'[p].phase \in Holding
  PROVE  SlotsOwned'
  <1> SUFFICES ASSUME NEW s \in Sessions, NEW i \in DOMAIN slots'[s]
               PROVE  Owned(call', s, slots'[s][i])
    BY DEF SlotsOwned
  <1>1. PICK j \in DOMAIN slots[s] : slots'[s][i] = slots[s][j]
    BY DEF ThinnedSlots, Thinned
  <1>2. Owned(call, s, slots[s][j]) /\ slots[s][j].owner \in Owners(s)'
    BY <1>1 DEF SlotsOwned, Owners
  <1>3. Owned(call', s, slots[s][j])
    BY <1>2 DEF Owned
  <1> QED
    BY <1>1, <1>3

(* A prompt takes a slot behind those that are there, and it had none.      *)
LEMMA ParkingOwns ==
  ASSUME TypeOK, Ownership, NEW p \in Prompts, NEW kind \in Kinds,
         SendParking(p, kind), slots' \in [Sessions -> Seq(Slot)]
  PROVE  SlotsOwned' /\ OneSlotEach'
  <1> DEFINE slot == [owner |-> p, none |-> ~Configures(kind)]
  <1>1. active \in Sessions /\ slots[active] \in Seq(Slot)
        /\ slots \in [Sessions -> Seq(Slot)] /\ call \in [Prompts -> Call]
    BY DEF TypeOK
  <1>2. slots' = [slots EXCEPT ![active] = Append(slots[active], slot)]
    BY DEF SendParking, Pend
  <1>3. slot \in Slot
    BY DEF Slot, Configures
  <1>4. PICK phase \in Holding :
          call' = [call EXCEPT ![p] =
                     [phase |-> phase, kind |-> kind, home |-> active,
                      target |-> active, parked |-> TRUE]]
    BY DEF SendParking, Called, Holding
  <1>5. call[p].phase = "unsent"
    BY DEF SendParking, MayCall
  <1>6. \A s \in Sessions : p \notin Owners(s)
    BY <1>5, OwnersAreParked DEF Ownership, Holding
  <1>7. /\ \A i \in DOMAIN slots[active] : slots'[active][i] = slots[active][i]
        /\ slots'[active][Len(slots[active]) + 1] = slot
        /\ DOMAIN slots'[active] = DOMAIN slots[active] \cup {Len(slots[active]) + 1}
    <2>1. slots'[active] = Append(slots[active], slot)
      BY <1>1, <1>2
    <2> HIDE DEF slot
    <2> QED
      BY <1>1, <1>3, <2>1, AppendProperties, LenProperties
  <1>8. \A s \in Sessions : s # active => slots'[s] = slots[s]
    BY <1>1, <1>2
  <1>9. ASSUME NEW s \in Sessions, NEW i \in DOMAIN slots'[s]
        PROVE  Owned(call', s, slots'[s][i])
    <2>1. CASE s = active /\ i = Len(slots[active]) + 1
      <3>1. slots'[s][i] = slot
        BY <1>7, <2>1
      <3>2. call'[p] = [phase |-> phase, kind |-> kind, home |-> active,
                        target |-> active, parked |-> TRUE]
        BY <1>1, <1>4
      <3> QED
        BY <2>1, <3>1, <3>2 DEF Owned, Configures
    <2>2. CASE ~(s = active /\ i = Len(slots[active]) + 1)
      <3>1. i \in DOMAIN slots[s] /\ slots'[s][i] = slots[s][i]
        BY <1>7, <1>8, <2>2
      <3>2. slots[s][i].owner # p /\ Owned(call, s, slots[s][i])
        BY <1>6, <3>1 DEF Owners, Ownership, SlotsOwned
      <3>3. call'[slots[s][i].owner] = call[slots[s][i].owner]
        BY <1>1, <1>4, <3>2
      <3> QED
        BY <3>1, <3>2, <3>3 DEF Owned
    <2> QED
      BY <2>1, <2>2
  <1>10. ASSUME NEW s \in Sessions, NEW i \in DOMAIN slots'[s], NEW j \in DOMAIN slots'[s],
                slots'[s][i].owner = slots'[s][j].owner
         PROVE  i = j
    <2>1. CASE i \in DOMAIN slots[s] /\ j \in DOMAIN slots[s]
      <3>1. slots'[s][i] = slots[s][i] /\ slots'[s][j] = slots[s][j]
        BY <1>7, <1>8, <2>1
      <3> QED
        BY <1>10, <2>1, <3>1 DEF Ownership, OneSlotEach
    <2>2. ASSUME NEW x \in DOMAIN slots'[s], x \notin DOMAIN slots[s]
          PROVE  s = active /\ x = Len(slots[active]) + 1 /\ slots'[s][x].owner = p
      BY <1>7, <1>8, <2>2
    <2>3. ASSUME NEW x \in DOMAIN slots'[s], x \in DOMAIN slots[s]
          PROVE  slots'[s][x].owner # p
      <3>1. slots'[s][x] = slots[s][x]
        BY <1>7, <1>8, <2>3
      <3> QED
        BY <1>6, <2>3, <3>1 DEF Owners
    <2>4. CASE i \notin DOMAIN slots[s] /\ j \notin DOMAIN slots[s]
      BY <2>2, <2>4
    <2>5. CASE i \in DOMAIN slots[s] /\ j \notin DOMAIN slots[s]
      BY <1>10, <2>2, <2>3, <2>5
    <2>6. CASE i \notin DOMAIN slots[s] /\ j \in DOMAIN slots[s]
      BY <1>10, <2>2, <2>3, <2>6
    <2> QED
      BY <2>1, <2>4, <2>5, <2>6
  <1> QED
    BY <1>9, <1>10 DEF SlotsOwned, OneSlotEach

(* The steps that leave the calls alone.                                    *)
LEMMA OwnershipThinned ==
  ASSUME TypeOK, Ownership, ThinnedSlots, UNCHANGED call,
         slots' \in [Sessions -> Seq(Slot)]
  PROVE  Ownership'
  <1>1. \A s \in Sessions : \A p \in Owners(s)' : call[p].phase \in Holding
    BY ThinnedOwners, OwnersAreParked DEF ThinnedSlots, Ownership
  <1>2. SlotsOwned'
    BY <1>1, SlotsOwnedThinned DEF Ownership
  <1>3. OneSlotEach'
    BY OneSlotEachThinned DEF Ownership
  <1>4. ParkedAreSent'
    BY DEF Ownership, ParkedAreSent
  <1> QED
    BY <1>2, <1>3, <1>4 DEF Ownership

(* A call that is made without parking.                                     *)
LEMMA OwnershipUnparked ==
  ASSUME TypeOK, Ownership, UNCHANGED slots, NEW p \in Prompts,
         call[p].phase = "unsent", NEW r, r.parked = FALSE,
         call' = [call EXCEPT ![p] = r]
  PROVE  Ownership'
  <1>1. call \in [Prompts -> Call] /\ slots \in [Sessions -> Seq(Slot)]
    BY DEF TypeOK
  <1>2. \A s \in Sessions : \A q \in Owners(s) :
          call'[q] = call[q] /\ call[q].phase \in Holding
    <2>1. \A s \in Sessions : \A q \in Owners(s) :
            call[q].phase \in Holding /\ q # p /\ q \in Prompts
      BY OwnersAreParked, OwnersTyped DEF Ownership, Holding
    <2> QED
      BY <1>1, <2>1
  <1>3. \A s \in Sessions : Owners(s)' = Owners(s)
    BY DEF Owners
  <1>4. SlotsOwned'
    BY <1>2, <1>3, SlotsUnchanged, SlotsOwnedThinned DEF Ownership
  <1>5. OneSlotEach'
    BY <1>1, SlotsUnchanged, OneSlotEachThinned DEF Ownership
  <1>6. ParkedAreSent'
    BY <1>1 DEF Ownership, ParkedAreSent
  <1> QED
    BY <1>4, <1>5, <1>6 DEF Ownership

(* The rollback of a failed prompt leaves it no slot in any session.        *)
LEMMA PromptFailsClears ==
  ASSUME TypeOK, Ownership, NEW p \in Prompts, PromptFails(p), NEW s \in Sessions
  PROVE  p \notin Owners(s)'
  <1>1. slots \in [Sessions -> Seq(Slot)] /\ slots[s] \in Seq(Slot)
    BY DEF TypeOK
  <1>2. p \in Owners(s) => call[p].parked /\ call[p].home = s
    BY OwnersAreParked DEF Ownership
  <1>3. CASE p \notin Owners(s)
    BY <1>3, PromptFailsThins, ThinnedOwners DEF ThinnedSlots
  <1>4. CASE p \in Owners(s)
    <2>1. Unpend(s, p) /\ \E k \in DOMAIN slots[s] : slots[s][k].owner = p
      BY <1>2, <1>4 DEF PromptFails, Owners
    <2>2. PICK k \in DOMAIN slots[s] :
            /\ slots[s][k].owner = p
            /\ slots' = [slots EXCEPT ![s] = RemoveAt(slots[s], k)]
      BY <1>1, <2>1 DEF Unpend
    <2>3. slots'[s] = RemoveAt(slots[s], k)
      BY <1>1, <2>2
    <2>4. \A i \in DOMAIN slots'[s] :
            \E j \in DOMAIN slots[s] : j # k /\ slots'[s][i] = slots[s][j]
      BY <1>1, <2>2, <2>3, ThinnedRemoveAt
    <2>5. \A j \in DOMAIN slots[s] : j # k => slots[s][j].owner # p
      BY <2>2 DEF Ownership, OneSlotEach
    <2> QED
      BY <2>4, <2>5 DEF Owners
  <1> QED
    BY <1>3, <1>4

(* A step of a call under way.                                              *)
LEMMA OwnershipCallStep ==
  ASSUME TypeOK, Ownership, NEW p \in Prompts, CallStep(p),
         slots' \in [Sessions -> Seq(Slot)]
  PROVE  Ownership'
  <1>1. CASE UNCHANGED <<call, slots>>
    BY <1>1, SlotsUnchanged, OwnershipThinned
  <1>2. CASE ~UNCHANGED <<call, slots>>
    <2>1. PICK phase, t :
            /\ phase \in CallPhase \ {"unsent"}
            /\ call' = [call EXCEPT ![p].phase = phase, ![p].target = t]
            /\ call[p].phase \in {"configuring", "selecting", "sending"}
            /\ call[p].phase = "sending" =>
                 phase = "confirmed" \/ (phase = "failed" /\ PromptFails(p))
            /\ PromptFails(p) \/ UNCHANGED slots
      BY <1>2, CallStepMoves
    <2>2. call \in [Prompts -> Call] /\ call[p] \in Call
      BY DEF TypeOK
    <2>3. /\ \A q \in Prompts : q # p => call'[q] = call[q]
          /\ call'[p].kind = call[p].kind /\ call'[p].home = call[p].home
          /\ call'[p].parked = call[p].parked /\ call'[p].phase = phase
      BY <2>1, <2>2 DEF Call
    <2>4. ThinnedSlots
      BY <2>1, PromptFailsThins, SlotsUnchanged
    <2>5. ParkedAreSent'
      BY <2>1, <2>2, <2>3 DEF Ownership, ParkedAreSent, Holding
    <2>6. OneSlotEach'
      BY <2>4, OneSlotEachThinned DEF Ownership
    <2>7. \A s \in Sessions : \A q \in Owners(s)' : q = p => phase \in Holding
      <3> SUFFICES ASSUME NEW s \in Sessions, p \in Owners(s)' PROVE phase \in Holding
        OBVIOUS
      <3>1. p \in Owners(s)
        BY <2>4, ThinnedOwners DEF ThinnedSlots
      <3>2. call[p].phase = "sending"
        BY <2>1, <3>1, OwnersAreParked DEF Ownership, Holding
      <3>3. ~PromptFails(p)
        BY PromptFailsClears
      <3> QED
        BY <2>1, <3>2, <3>3 DEF Holding
    <2>8. \A s \in Sessions : \A q \in Owners(s)' :
            /\ call'[q].kind = call[q].kind /\ call'[q].home = call[q].home
            /\ call'[q].parked = call[q].parked
            /\ call'[q].phase \in Holding
      <3> SUFFICES ASSUME NEW s \in Sessions, NEW q \in Owners(s)'
                   PROVE  /\ call'[q].kind = call[q].kind
                          /\ call'[q].home = call[q].home
                          /\ call'[q].parked = call[q].parked
                          /\ call'[q].phase \in Holding
        OBVIOUS
      <3>1. CASE q = p
        BY <2>3, <2>7, <3>1
      <3>2. CASE q # p
        <4>1. q \in Owners(s)
          BY <2>4, ThinnedOwners DEF ThinnedSlots
        <4>2. call'[q] = call[q]
          BY <2>3, <3>2, <4>1, OwnersTyped
        <4> QED
          BY <4>1, <4>2, OwnersAreParked DEF Ownership
      <3> QED
        BY <3>1, <3>2
    <2>9. SlotsOwned'
      BY <2>4, <2>8, SlotsOwnedThinned DEF Ownership
    <2> QED
      BY <2>5, <2>6, <2>9 DEF Ownership
  <1> QED
    BY <1>1, <1>2

(* Ownership is kept by every step.                                         *)
LEMMA OwnershipInductive ==
  TypeOK /\ FlushHasOwner /\ Ownership /\ [Next]_vars => Ownership'
  <1> SUFFICES ASSUME TypeOK, FlushHasOwner, Ownership, [Next]_vars
               PROVE  Ownership'
    OBVIOUS
  <1>1. slots' \in [Sessions -> Seq(Slot)] /\ call \in [Prompts -> Call]
    BY TypeInductive DEF TypeOK
  <1>2. ASSUME NEW p \in Prompts, NEW kind \in Kinds, SendParking(p, kind)
        PROVE  Ownership'
    <2>1. SlotsOwned' /\ OneSlotEach'
      BY <1>1, <1>2, ParkingOwns
    <2>2. PICK phase \in Holding :
            call' = [call EXCEPT ![p] =
                       [phase |-> phase, kind |-> kind, home |-> active,
                        target |-> active, parked |-> TRUE]]
      BY <1>2 DEF SendParking, Called, Holding
    <2>3. ParkedAreSent'
      BY <1>1, <2>2 DEF Ownership, ParkedAreSent
    <2> QED
      BY <2>1, <2>3 DEF Ownership
  <1>3. ASSUME NEW p \in Prompts, NEW kind \in Kinds, SendApplying(p, kind)
        PROVE  Ownership'
    <2> DEFINE r == [phase |-> "configuring", kind |-> kind, home |-> active,
                     target |-> active, parked |-> FALSE]
    <2>1. /\ call[p].phase = "unsent" /\ UNCHANGED slots
          /\ call' = [call EXCEPT ![p] = r] /\ r.parked = FALSE
      BY <1>3 DEF SendApplying, MayCall, Called, queueVars
    <2> HIDE DEF r
    <2> QED
      BY <2>1, OwnershipUnparked
  <1>4. ASSUME NEW p \in Prompts, SendPlain(p) PROVE Ownership'
    <2> DEFINE r == [phase |-> "sending", kind |-> "plain", home |-> active,
                     target |-> active, parked |-> FALSE]
    <2>1. /\ call[p].phase = "unsent" /\ UNCHANGED slots
          /\ call' = [call EXCEPT ![p] = r] /\ r.parked = FALSE
      BY <1>4 DEF SendPlain, MayCall, Called
    <2> HIDE DEF r
    <2> QED
      BY <2>1, OwnershipUnparked
  <1>5. ASSUME NEW p \in Prompts, CallStep(p) PROVE Ownership'
    BY <1>1, <1>5, OwnershipCallStep
  <1>6. ASSUME NEW b \in Prompts, FlushStep(b) PROVE Ownership'
    <2>1. UNCHANGED call
      BY <1>6 DEF FlushStep, FlushIssued, FlushLands, FlushFails
    <2> QED
      BY <1>1, <1>6, <2>1, FlushStepThins, OwnershipThinned
  <1>7. ASSUME NEW s \in Sessions, RewriteAnswered(s) PROVE Ownership'
    <2>1. UNCHANGED call
      BY <1>7 DEF RewriteAnswered
    <2> QED
      BY <1>1, <1>7, <2>1, RewriteAnsweredThins, OwnershipThinned
  <1>8. CASE HandleTurnEnd
    <2>1. UNCHANGED call
      BY <1>8 DEF HandleTurnEnd
    <2> QED
      BY <1>1, <1>8, <2>1, HandleTurnEndThins, OwnershipThinned
  <1>9. CASE UNCHANGED <<call, slots>>
    BY <1>1, <1>9, SlotsUnchanged, OwnershipThinned
  <1> QED
    BY <1>2, <1>3, <1>4, <1>5, <1>6, <1>7, <1>8, <1>9, OtherSteps

(* Nobody owns a slot at the start.                                         *)
LEMMA OwnershipInit == Init => Ownership
  BY DEF Init, Ownership, SlotsOwned, OneSlotEach, ParkedAreSent

(* The catch block of sendPrompt: a prompt whose admission failed leaves no *)
(* slot behind in any session, whatever was selected, flushed or queued     *)
(* while its RPC was under way.                                             *)
THEOREM FailuresLeaveNoSlot == Spec => []FailedPromptOwnsNoSlot
  <1>1. Init => TypeOK /\ FlushHasOwner /\ Ownership
    BY TypeInit, OwnershipInit
  <1>2. TypeOK /\ FlushHasOwner /\ Ownership /\ [Next]_vars
          => (TypeOK /\ FlushHasOwner /\ Ownership)'
    BY TypeInductive, FlushHasOwnerInductive, OwnershipInductive
  <1>3. Ownership => FailedPromptOwnsNoSlot
    BY OwnersAreParked DEF Ownership, FailedPromptOwnsNoSlot, Holding
  <1> QED
    BY <1>1, <1>2, <1>3, PTL DEF Spec

-----------------------------------------------------------------------------
(* No parked configuration is lost.                                         *)

(* A call that is parked keeps its claim on the queue of its session.       *)
Claims(p) ==
  call[p].parked /\ Configures(call[p].kind) /\ call[p].phase # "failed"

(* Only the busy path of sendPrompt gives a prompt its claim to a slot.     *)
LEMMA ClaimsContinue ==
  ASSUME TypeOK, Ownership, [Next]_vars, NEW p \in Prompts, Claims(p)',
         \A kind \in Kinds : ~SendParking(p, kind)
  PROVE  Claims(p) /\ call'[p].home = call[p].home
  <1>1. CASE call[p].phase # "unsent"
    BY <1>1, CallsContinue DEF Claims, Continues
  <1>2. CASE call[p].phase = "unsent"
    <2>1. call \in [Prompts -> Call] /\ ~call[p].parked
      BY <1>2 DEF TypeOK, Ownership, ParkedAreSent, Holding
    <2>2. call'[p] # call[p]
      BY <2>1 DEF Claims
    <2>3. ASSUME NEW q \in Prompts, NEW kind \in Kinds,
                 SendApplying(q, kind) \/ SendParking(q, kind)
          PROVE  FALSE
      <3>1. PICK phase \in CallPhase \ {"unsent", "failed"}, parked \in BOOLEAN :
              /\ call' = [call EXCEPT ![q] =
                            [phase |-> phase, kind |-> kind, home |-> active,
                             target |-> active, parked |-> parked]]
              /\ parked => SendParking(q, kind) /\ phase \in Holding
        BY <2>3, CallMade
      <3>2. q = p
        BY <2>1, <2>2, <3>1
      <3>3. parked
        BY <2>1, <3>1, <3>2 DEF Claims
      <3> QED
        BY <3>1, <3>2, <3>3
    <2>4. ASSUME NEW q \in Prompts, SendPlain(q) PROVE FALSE
      BY <2>1, <2>2, <2>4, PlainCallMade DEF Claims
    <2>5. ASSUME NEW q \in Prompts, CallStep(q) PROVE FALSE
      <3>1. CASE q = p
        BY <1>2, <2>2, <2>5, <3>1, CallStepMoves
      <3>2. CASE q # p
        BY <2>1, <2>2, <2>5, <3>2, CallStepMoves
      <3> QED
        BY <3>1, <3>2
    <2>6. CASE \/ \E b \in Prompts : FlushStep(b)
               \/ \E s \in Sessions : RewriteAnswered(s)
               \/ HandleTurnEnd
      BY <2>2, <2>6 DEF FlushStep, FlushIssued, FlushLands, FlushFails,
         RewriteAnswered, HandleTurnEnd
    <2> QED
      BY <2>2, <2>3, <2>4, <2>5, <2>6, OtherSteps
  <1> QED
    BY <1>1, <1>2

(* What has been applied or dropped stays so.                               *)
LEMMA HistoryGrows ==
  ASSUME TypeOK, [Next]_vars
  PROVE  applied \subseteq applied' /\ dropped \subseteq dropped'
  <1>1. ASSUME NEW p \in Prompts, CallStep(p)
        PROVE  applied \subseteq applied' /\ dropped \subseteq dropped'
    BY <1>1 DEF CallStep, ConfigurationIssued, ConfigurationLands,
       ConfigurationFails, HostAccepts, PromptConfirmed, PromptFails, historyVars
  <1>2. ASSUME NEW p \in Prompts, NEW kind \in Kinds,
               SendApplying(p, kind) \/ SendParking(p, kind) \/ SendPlain(p)
        PROVE  applied \subseteq applied' /\ dropped \subseteq dropped'
    BY <1>2 DEF SendApplying, SendParking, SendPlain, historyVars
  <1>3. ASSUME NEW p \in Prompts, SendPlain(p)
        PROVE  applied \subseteq applied' /\ dropped \subseteq dropped'
    BY <1>3 DEF SendPlain, historyVars
  <1>4. ASSUME NEW b \in Prompts, FlushStep(b)
        PROVE  applied \subseteq applied' /\ dropped \subseteq dropped'
    BY <1>4 DEF FlushStep, FlushIssued, FlushLands, FlushFails, SelectFlushed,
       historyVars
  <1>5. ASSUME NEW s \in Sessions, RewriteAnswered(s)
        PROVE  applied \subseteq applied' /\ dropped \subseteq dropped'
    BY <1>5 DEF RewriteAnswered, DropForSession
  <1>6. CASE HandleTurnEnd
    BY <1>6 DEF HandleTurnEnd, historyVars
  <1> QED
    BY <1>1, <1>2, <1>3, <1>4, <1>5, <1>6, OtherSteps DEF historyVars

(* A shifted queue has lost its head and nothing else.                      *)
LEMMA ShiftedOwners ==
  ASSUME TypeOK, NEW s \in Sessions, slots[s] # <<>>,
         slots' = [slots EXCEPT ![s] = Tail(slots[s])], NEW x \in Sessions
  PROVE  Owners(x) \subseteq Owners(x)' \cup {q \in {Head(slots[s]).owner} : x = s}
  <1>1. slots \in [Sessions -> Seq(Slot)] /\ slots[s] \in Seq(Slot)
    BY DEF TypeOK
  <1>2. CASE x # s
    <2>1. slots'[x] = slots[x]
      BY <1>1, <1>2
    <2> QED
      BY <2>1 DEF Owners
  <1>3. CASE x = s
    <2>1. slots'[s] = Tail(slots[s])
      BY <1>1
    <2>2. /\ Len(slots[s]) \in Nat /\ DOMAIN slots[s] = 1..Len(slots[s])
          /\ slots'[s] \in Seq(Slot) /\ Len(slots'[s]) = Len(slots[s]) - 1
          /\ \A i \in 1..Len(slots'[s]) : slots'[s][i] = slots[s][i + 1]
      BY <1>1, <2>1, LenProperties, HeadTailProperties
    <2>3. DOMAIN slots'[s] = 1..(Len(slots[s]) - 1)
      BY <2>2, LenProperties
    <2>4. ASSUME NEW i \in DOMAIN slots[s]
          PROVE  \/ slots[s][i] = Head(slots[s])
                 \/ slots[s][i].owner \in Owners(s)'
      <3>1. CASE i = 1
        BY <1>1, <3>1
      <3>2. CASE i # 1
        <4>1. i - 1 \in DOMAIN slots'[s] /\ slots'[s][i - 1] = slots[s][i]
          BY <2>2, <2>3, <3>2
        <4> QED
          BY <4>1 DEF Owners
      <3> QED
        BY <3>1, <3>2
    <2> QED
      BY <1>3, <2>4 DEF Owners
  <1> QED
    BY <1>2, <1>3

(* Who leaves a queue has failed, configures nothing, was applied or        *)
(* dropped.                                                                 *)
LEMMA LeavingTheQueue ==
  ASSUME TypeOK, Ownership, [Next]_vars,
         NEW s \in Sessions, NEW p \in Owners(s), p \notin Owners(s)'
  PROVE  \/ PromptFails(p)
         \/ ~Configures(call[p].kind)
         \/ p \in applied' \cup dropped'
  <1>1. slots \in [Sessions -> Seq(Slot)] /\ p \in Prompts
    BY OwnersTyped DEF TypeOK
  <1>2. slots'[s] # slots[s]
    BY DEF Owners
  <1>3. ASSUME NEW q \in Prompts, NEW kind \in Kinds, SendParking(q, kind) PROVE FALSE
    <2> DEFINE slot == [owner |-> q, none |-> ~Configures(kind)]
    <2>1. slots' = [slots EXCEPT ![active] = Append(slots[active], slot)] /\ slot \in Slot
      BY <1>3 DEF SendParking, Pend, Slot, Configures
    <2> HIDE DEF slot
    <2>2. s = active /\ slots[s] \in Seq(Slot) /\ slots'[s] = Append(slots[s], slot)
      BY <1>1, <1>2, <2>1
    <2>3. /\ DOMAIN slots[s] = 1..Len(slots[s]) /\ Len(slots[s]) \in Nat
          /\ DOMAIN slots'[s] = 1..(Len(slots[s]) + 1)
          /\ \A i \in 1..Len(slots[s]) : slots'[s][i] = slots[s][i]
      BY <2>1, <2>2, LenProperties, AppendProperties
    <2>4. \A i \in DOMAIN slots[s] : i \in DOMAIN slots'[s] /\ slots'[s][i] = slots[s][i]
      BY <2>3
    <2> QED
      BY <2>4 DEF Owners
  <1>4. ASSUME NEW q \in Prompts, CallStep(q)
        PROVE  PromptFails(p)
    <2>1. PromptFails(q)
      BY <1>2, <1>4, CallStepMoves
    <2>2. q = p
      BY <1>1, <2>1, PromptFailsThins
    <2> QED
      BY <2>1, <2>2
  <1>5. ASSUME NEW b \in Prompts, FlushStep(b)
        PROVE  p \in applied'
    <2>1. PICK x \in Sessions :
            /\ slots[x] # <<>> /\ Head(slots[x]).owner = flushing[b].owner
            /\ slots' = [slots EXCEPT ![x] = Tail(slots[x])]
            /\ applied' = applied \cup {flushing[b].owner}
      BY <1>2, <1>5, FlushStepThins
    <2> QED
      BY <2>1, ShiftedOwners
  <1>6. ASSUME NEW x \in Sessions, RewriteAnswered(x)
        PROVE  p \in dropped'
    <2>1. x = s
      BY <1>1, <1>2, <1>6 DEF RewriteAnswered, DropForSession
    <2> QED
      BY <1>6, <2>1 DEF RewriteAnswered, DropForSession
  <1>7. CASE HandleTurnEnd
    <2>1. /\ slots[active] # <<>> /\ Head(slots[active]).none
          /\ slots' = [slots EXCEPT ![active] = Tail(slots[active])]
      BY <1>2, <1>7, HandleTurnEndThins
    <2>2. active \in Sessions /\ slots[active] \in Seq(Slot)
      BY DEF TypeOK
    <2>3. p = Head(slots[active]).owner
      BY <2>1, <2>2, ShiftedOwners
    <2>4. Owned(call, active, Head(slots[active]))
      <3>1. 1 \in DOMAIN slots[active] /\ Head(slots[active]) = slots[active][1]
        BY <2>1, <2>2
      <3> QED
        BY <2>2, <3>1 DEF Ownership, SlotsOwned
    <2> QED
      BY <2>1, <2>3, <2>4 DEF Owned
  <1>8. ASSUME NEW q \in Prompts, NEW kind \in Kinds, SendApplying(q, kind) PROVE FALSE
    BY <1>2, <1>8 DEF SendApplying, queueVars
  <1>9. ASSUME NEW q \in Prompts, SendPlain(q) PROVE FALSE
    BY <1>2, <1>9 DEF SendPlain
  <1> QED
    BY <1>2, <1>3, <1>4, <1>5, <1>6, <1>7, <1>8, <1>9, OtherSteps

(* Only a prompt that fails, a boundary that applied its configuration, or  *)
(* a rewrite of the queue takes a parked configuration out of it.           *)
LEMMA KeptInductive ==
  TypeOK /\ FlushHasOwner /\ Ownership /\ ParkedConfigurationKept /\ [Next]_vars
    => ParkedConfigurationKept'
  <1> SUFFICES ASSUME TypeOK, FlushHasOwner, Ownership, ParkedConfigurationKept,
                      [Next]_vars, NEW p \in Prompts, Claims(p)'
               PROVE  (p \in Owners(call[p].home) \cup applied \cup dropped)'
    BY DEF ParkedConfigurationKept, Claims
  <1>1. CASE \E kind \in Kinds : SendParking(p, kind)
    <2>1. PICK kind \in Kinds : SendParking(p, kind)
      BY <1>1
    <2> DEFINE slot == [owner |-> p, none |-> ~Configures(kind)]
    <2>2. /\ slots' = [slots EXCEPT ![active] = Append(slots[active], slot)]
          /\ slot \in Slot /\ slot.owner = p
      BY <2>1 DEF SendParking, Pend, Slot, Configures
    <2> HIDE DEF slot
    <2>3. active \in Sessions /\ slots \in [Sessions -> Seq(Slot)]
          /\ slots[active] \in Seq(Slot) /\ call \in [Prompts -> Call]
      BY DEF TypeOK
    <2>4. call'[p].home = active
      BY <2>1, <2>3 DEF SendParking, Called
    <2>5. /\ Len(slots[active]) + 1 \in DOMAIN slots'[active]
          /\ slots'[active][Len(slots[active]) + 1] = slot
      <3>1. slots'[active] = Append(slots[active], slot)
        BY <2>2, <2>3
      <3> QED
        BY <2>2, <2>3, <3>1, AppendProperties, LenProperties
    <2>6. \E i \in DOMAIN slots'[active] : slots'[active][i].owner = p
      BY <2>2, <2>5
    <2> QED
      BY <2>4, <2>6 DEF Owners
  <1>2. CASE \A kind \in Kinds : ~SendParking(p, kind)
    <2>1. Claims(p) /\ call'[p].home = call[p].home
      BY <1>2, ClaimsContinue
    <2>2. PICK s \in Sessions : s = call[p].home
      <3>1. call[p] \in Call
        BY DEF TypeOK
      <3> QED
        BY <3>1 DEF Call
    <2>3. p \in Owners(s) \cup applied \cup dropped
      BY <2>1, <2>2 DEF Claims, ParkedConfigurationKept
    <2>4. CASE p \in applied \cup dropped
      BY <2>4, HistoryGrows
    <2>5. CASE p \in Owners(s) /\ p \notin Owners(s)'
      <3>1. ~PromptFails(p)
        <4>1. PromptFails(p) => call'[p].phase = "failed"
          BY DEF PromptFails, Returned, TypeOK, Call
        <4> QED
          BY <4>1 DEF Claims
      <3> QED
        BY <2>1, <2>5, <3>1, LeavingTheQueue DEF Claims
    <2>6. CASE p \in Owners(s)'
      BY <2>1, <2>2, <2>6 DEF Owners
    <2> QED
      BY <2>3, <2>4, <2>5, <2>6
  <1> QED
    BY <1>1, <1>2

(* "The configuration is never dropped" (sendPrompt): a configuration that  *)
(* was parked waits in its session's queue until it has been applied, unless *)
(* its prompt failed or the user rewrote the queue.                         *)
THEOREM ConfigurationsAreKept == Spec => []ParkedConfigurationKept
  <1> DEFINE IInv == TypeOK /\ FlushHasOwner /\ Ownership /\ ParkedConfigurationKept
  <1>1. Init => IInv
    BY TypeInit, OwnershipInit DEF Init, ParkedConfigurationKept
  <1>2. IInv /\ [Next]_vars => IInv'
    BY TypeInductive, FlushHasOwnerInductive, OwnershipInductive, KeptInductive
  <1>3. IInv => ParkedConfigurationKept
    OBVIOUS
  <1> QED
    BY <1>1, <1>2, <1>3, PTL DEF Spec

-----------------------------------------------------------------------------
(* Configurations reach the host in the order of their prompts.             *)

(* A configuration that was parked and is still to be carried out.          *)
Wanted(r) ==
  Configures(call[r].kind) /\ call[r].phase # "failed" /\ r \notin dropped

OrderParked == \A i \in DOMAIN order : call[order[i]].parked

OrderOnce == \A i, j \in DOMAIN order : order[i] = order[j] => i = j

(* The queue of a session lists its owners in the order they were parked.   *)
SlotsInOrder ==
  \A s \in Sessions : \A i, j \in DOMAIN slots[s] : \A m, n \in DOMAIN order :
    (i < j /\ order[m] = slots[s][i].owner /\ order[n] = slots[s][j].owner)
      => m < n

(* Nothing that is wanted was parked before what an apply() under way works *)
(* for and is still to be applied.                                          *)
FlushInOrder ==
  \A b \in Prompts : Flushing(b) =>
    \A m, n \in DOMAIN order :
      (/\ m < n /\ order[n] = flushing[b].owner
       /\ call[order[m]].home = call[order[n]].home
       /\ Wanted(order[m])) => order[m] \in applied

FlushParked == \A b \in Prompts : Flushing(b) => call[flushing[b].owner].parked

AppliedSent == \A p \in applied : call[p].phase # "unsent"

Ordering == /\ OrderParked /\ OrderOnce /\ SlotsInOrder
            /\ FlushInOrder /\ FlushParked /\ AppliedSent

(* The order the prompts were parked in only grows.                         *)
LEMMA OrderGrows ==
  ASSUME [Next]_vars
  PROVE  \/ UNCHANGED order
         \/ \E p \in Prompts, kind \in Kinds : SendParking(p, kind)
  <1>1. ASSUME NEW p \in Prompts, CallStep(p) PROVE UNCHANGED order
    BY <1>1 DEF CallStep, ConfigurationIssued, ConfigurationLands,
       ConfigurationFails, HostAccepts, PromptConfirmed, PromptFails, historyVars
  <1>2. ASSUME NEW p \in Prompts, NEW kind \in Kinds, SendApplying(p, kind)
        PROVE  UNCHANGED order
    BY <1>2 DEF SendApplying, historyVars
  <1>3. ASSUME NEW p \in Prompts, SendPlain(p) PROVE UNCHANGED order
    BY <1>3 DEF SendPlain, historyVars
  <1>4. ASSUME NEW b \in Prompts, FlushStep(b) PROVE UNCHANGED order
    BY <1>4 DEF FlushStep, FlushIssued, FlushLands, FlushFails, historyVars
  <1>5. ASSUME NEW s \in Sessions, RewriteAnswered(s) PROVE UNCHANGED order
    BY <1>5 DEF RewriteAnswered
  <1>6. CASE HandleTurnEnd
    BY <1>6 DEF HandleTurnEnd, historyVars
  <1> QED
    BY <1>1, <1>2, <1>3, <1>4, <1>5, <1>6, OtherSteps DEF historyVars

(* What has been parked is told from what is parked now.                    *)
LEMMA OrderStep ==
  ASSUME TypeOK, Ownership, OrderParked, [Next]_vars
  PROVE  /\ \A m \in DOMAIN order : m \in DOMAIN order' /\ order'[m] = order[m]
         /\ \A n \in DOMAIN order' : n \notin DOMAIN order =>
              /\ n = Len(order) + 1
              /\ call[order'[n]].phase = "unsent" /\ order'[n] \in Prompts
              /\ call'[order'[n]].parked
              /\ \E kind \in Kinds : SendParking(order'[n], kind)
         /\ DOMAIN order = 1..Len(order) /\ Len(order) \in Nat
         /\ \A m \in DOMAIN order : /\ order[m] \in Prompts
                                    /\ call[order[m]].parked
                                    /\ call[order[m]].phase # "unsent"
                                    /\ Continues(order[m])
  <1>1. /\ order \in Seq(Prompts) /\ call \in [Prompts -> Call]
        /\ DOMAIN order = 1..Len(order) /\ Len(order) \in Nat
        /\ \A m \in DOMAIN order : order[m] \in Prompts
    BY LenProperties DEF TypeOK
  <1>2. \A m \in DOMAIN order : /\ call[order[m]].parked
                                /\ call[order[m]].phase # "unsent"
    BY <1>1 DEF OrderParked, Ownership, ParkedAreSent, Holding
  <1>3. \A m \in DOMAIN order : Continues(order[m])
    BY <1>1, <1>2, CallsContinue
  <1>4. CASE UNCHANGED order
    BY <1>1, <1>2, <1>3, <1>4
  <1>5. ASSUME NEW p \in Prompts, NEW kind \in Kinds, SendParking(p, kind)
        PROVE  /\ \A m \in DOMAIN order : m \in DOMAIN order' /\ order'[m] = order[m]
               /\ \A n \in DOMAIN order' : n \notin DOMAIN order =>
                    n = Len(order) + 1 /\ order'[n] = p
               /\ call[p].phase = "unsent" /\ call'[p].parked
    <2>1. order' = Append(order, p) /\ call[p].phase = "unsent"
      BY <1>5 DEF SendParking, Pend, MayCall
    <2>2. call'[p].parked
      BY <1>1, <1>5 DEF SendParking, Called
    <2>3. /\ DOMAIN order' = 1..(Len(order) + 1)
          /\ \A m \in 1..Len(order) : order'[m] = order[m]
          /\ order'[Len(order) + 1] = p
      BY <1>1, <2>1, AppendProperties, LenProperties
    <2> QED
      BY <1>1, <2>1, <2>2, <2>3
  <1> QED
    BY <1>1, <1>2, <1>3, <1>4, <1>5, OrderGrows

(* A prompt enters the history of parked prompts once, when it is parked.   *)
LEMMA OrderedOnce ==
  ASSUME TypeOK, Ownership, OrderParked, OrderOnce, [Next]_vars
  PROVE  OrderParked' /\ OrderOnce'
  <1>1. OrderParked'
    BY OrderStep DEF OrderParked, Continues
  <1>2. OrderOnce'
    <2> SUFFICES ASSUME NEW i \in DOMAIN order', NEW j \in DOMAIN order',
                        order'[i] = order'[j]
                 PROVE  i = j
      BY DEF OrderOnce
    <2>1. CASE i \in DOMAIN order /\ j \in DOMAIN order
      BY <2>1, OrderStep DEF OrderOnce
    <2>2. CASE i \notin DOMAIN order /\ j \notin DOMAIN order
      BY <2>2, OrderStep
    <2>3. CASE i \in DOMAIN order /\ j \notin DOMAIN order
      BY <2>3, OrderStep
    <2>4. CASE i \notin DOMAIN order /\ j \in DOMAIN order
      BY <2>4, OrderStep
    <2> QED
      BY <2>1, <2>2, <2>3, <2>4
  <1> QED
    BY <1>1, <1>2

(* A prompt parks behind those that are there.                              *)
LEMMA QueueStep ==
  ASSUME TypeOK, Ownership, [Next]_vars
  PROVE  \/ ThinnedSlots
         \/ \E p \in Prompts, kind \in Kinds :
              /\ SendParking(p, kind)
              /\ \A s \in Sessions : \A i \in DOMAIN slots'[s] :
                   \/ i \in DOMAIN slots[s] /\ slots'[s][i] = slots[s][i]
                   \/ /\ i = Len(slots[s]) + 1
                      /\ slots'[s][i].owner = p
  <1>1. ASSUME NEW p \in Prompts, NEW kind \in Kinds, SendParking(p, kind),
               NEW s \in Sessions, NEW i \in DOMAIN slots'[s]
        PROVE  \/ i \in DOMAIN slots[s] /\ slots'[s][i] = slots[s][i]
               \/ /\ i = Len(slots[s]) + 1
                  /\ slots'[s][i].owner = p
    <2> DEFINE slot == [owner |-> p, none |-> ~Configures(kind)]
    <2>1. /\ slots' = [slots EXCEPT ![active] = Append(slots[active], slot)]
          /\ slot \in Slot /\ slot.owner = p
      BY <1>1 DEF SendParking, Pend, Slot, Configures
    <2> HIDE DEF slot
    <2>2. slots \in [Sessions -> Seq(Slot)] /\ slots[s] \in Seq(Slot)
      BY DEF TypeOK
    <2>3. CASE s # active
      BY <2>1, <2>2, <2>3
    <2>4. CASE s = active
      <3>1. slots'[s] = Append(slots[s], slot)
        BY <2>1, <2>2, <2>4
      <3>2. /\ DOMAIN slots[s] = 1..Len(slots[s]) /\ Len(slots[s]) \in Nat
            /\ DOMAIN slots'[s] = 1..(Len(slots[s]) + 1)
            /\ \A x \in 1..Len(slots[s]) : slots'[s][x] = slots[s][x]
            /\ slots'[s][Len(slots[s]) + 1] = slot
        BY <2>1, <2>2, <3>1, LenProperties, AppendProperties
      <3> QED
        BY <1>1, <2>1, <3>2
    <2> QED
      BY <2>3, <2>4
  <1>2. ASSUME NEW p \in Prompts, NEW kind \in Kinds, SendApplying(p, kind)
        PROVE  ThinnedSlots
    BY <1>2, SlotsUnchanged DEF SendApplying, queueVars
  <1>3. ASSUME NEW p \in Prompts, SendPlain(p) PROVE ThinnedSlots
    BY <1>3, SlotsUnchanged DEF SendPlain
  <1>4. ASSUME NEW p \in Prompts, CallStep(p) PROVE ThinnedSlots
    BY <1>4, CallStepMoves, PromptFailsThins, SlotsUnchanged
  <1> QED
    BY <1>1, <1>2, <1>3, <1>4, FlushStepThins, RewriteAnsweredThins,
       HandleTurnEndThins, SlotsUnchanged, OtherSteps

(* The slots of a queue stay in the order their prompts were sent.          *)
LEMMA SlotsStayInOrder ==
  ASSUME TypeOK, Ownership, OrderParked, SlotsInOrder, [Next]_vars,
         slots' \in [Sessions -> Seq(Slot)]
  PROVE  SlotsInOrder'
  <1> SUFFICES ASSUME NEW s \in Sessions,
                      NEW i \in DOMAIN slots'[s], NEW j \in DOMAIN slots'[s],
                      NEW m \in DOMAIN order', NEW n \in DOMAIN order', i < j,
                      order'[m] = slots'[s][i].owner, order'[n] = slots'[s][j].owner
               PROVE  m < n
    BY DEF SlotsInOrder
  <1>1. \A x \in Sessions : \A p \in Owners(x) : call[p].phase # "unsent"
    BY OwnersAreParked DEF Ownership, Holding
  <1>2. CASE ThinnedSlots
    <2>1. PICK f \in [DOMAIN slots'[s] -> DOMAIN slots[s]] :
            /\ \A x \in DOMAIN slots'[s] : slots'[s][x] = slots[s][f[x]]
            /\ \A x, y \in DOMAIN slots'[s] : x < y => f[x] < f[y]
      BY <1>2 DEF ThinnedSlots, Thinned
    <2>2. /\ f[i] \in DOMAIN slots[s] /\ f[j] \in DOMAIN slots[s] /\ f[i] < f[j]
          /\ order'[m] = slots[s][f[i]].owner /\ order'[n] = slots[s][f[j]].owner
      BY <2>1
    <2>3. order'[m] \in Owners(s) /\ order'[n] \in Owners(s)
      BY <2>2 DEF Owners
    <2>4. m \in DOMAIN order /\ n \in DOMAIN order
      BY <1>1, <2>3, OrderStep
    <2>5. order[m] = order'[m] /\ order[n] = order'[n]
      BY <2>4, OrderStep
    <2> QED
      BY <2>2, <2>4, <2>5 DEF SlotsInOrder
  <1>3. ASSUME NEW p \in Prompts, NEW kind \in Kinds, SendParking(p, kind),
               \A x \in Sessions : \A k \in DOMAIN slots'[x] :
                 \/ k \in DOMAIN slots[x] /\ slots'[x][k] = slots[x][k]
                 \/ /\ k = Len(slots[x]) + 1
                    /\ slots'[x][k].owner = p
        PROVE  m < n
    <2>1. call[p].phase = "unsent"
      BY <1>3 DEF SendParking, MayCall
    <2>2. DOMAIN slots[s] = 1..Len(slots[s]) /\ Len(slots[s]) \in Nat
      BY LenProperties DEF TypeOK
    <2>3. i \in DOMAIN slots[s] /\ slots'[s][i] = slots[s][i]
      <3>1. \A k \in DOMAIN slots'[s] : k \in 1..(Len(slots[s]) + 1)
        BY <1>3, <2>2
      <3>2. i # Len(slots[s]) + 1
        BY <2>2, <3>1
      <3> QED
        BY <1>3, <3>2
    <2>4. order'[m] \in Owners(s)
      BY <2>3 DEF Owners
    <2>5. m \in DOMAIN order /\ order[m] = order'[m] /\ order'[m] # p
      BY <1>1, <2>1, <2>4, OrderStep
    <2>6. CASE j \in DOMAIN slots[s] /\ slots'[s][j] = slots[s][j]
      <3>1. order'[n] \in Owners(s)
        BY <2>6 DEF Owners
      <3>2. n \in DOMAIN order /\ order[n] = order'[n]
        BY <1>1, <3>1, OrderStep
      <3> QED
        BY <2>3, <2>5, <2>6, <3>2 DEF SlotsInOrder
    <2>7. CASE slots'[s][j].owner = p
      <3>1. n \notin DOMAIN order
        BY <2>1, <2>7, OrderStep
      <3> QED
        BY <2>5, <3>1, OrderStep
    <2> QED
      BY <1>3, <2>6, <2>7
  <1> QED
    BY <1>2, <1>3, QueueStep

(* What an apply() under way was started for, and when.                     *)
LEMMA FlushStarts ==
  ASSUME TypeOK, [Next]_vars, NEW b \in Prompts, Flushing(b)'
  PROVE  \/ Flushing(b) /\ flushing'[b].owner = flushing[b].owner
         \/ /\ HandleTurnEnd /\ slots[active] # <<>>
            /\ flushing'[b].owner = Head(slots[active]).owner
  <1>1. flushing \in [Prompts -> Flush]
    BY DEF TypeOK
  <1>2. CASE UNCHANGED flushing
    BY <1>2 DEF Flushing
  <1>3. ASSUME NEW c \in Prompts, FlushStep(c)
        PROVE  Flushing(b) /\ flushing'[b].owner = flushing[b].owner
    <2>1. PICK phase, s :
            /\ phase \in {"selecting", "settled"}
            /\ flushing' = [flushing EXCEPT ![c].phase = phase, ![c].target = s]
            /\ Flushing(c)
      BY <1>3 DEF FlushStep, FlushIssued, FlushLands, FlushFails, Flushed, Flushing
    <2>2. flushing'[b].owner = flushing[b].owner
      BY <1>1, <2>1 DEF Flush
    <2>3. CASE b = c
      BY <2>1, <2>2, <2>3
    <2>4. CASE b # c
      <3>1. flushing'[b] = flushing[b]
        BY <1>1, <2>1, <2>4
      <3> QED
        BY <3>1 DEF Flushing
    <2> QED
      BY <2>2, <2>3, <2>4
  <1>4. CASE HandleTurnEnd /\ ~UNCHANGED flushing
    <2>1. FlushHead(active, Head(follow))
      BY <1>4 DEF HandleTurnEnd, Release
    <2>2. /\ slots[active] # <<>>
          /\ flushing' = [flushing EXCEPT ![Head(follow)] =
                            [phase |-> "configuring", home |-> active,
                             owner |-> Head(slots[active]).owner,
                             target |-> active]]
      BY <1>4, <2>1 DEF FlushHead
    <2>3. CASE b = Head(follow)
      BY <1>1, <1>4, <2>2, <2>3
    <2>4. CASE b # Head(follow)
      <3>1. flushing'[b] = flushing[b]
        BY <1>1, <2>2, <2>4
      <3> QED
        BY <3>1 DEF Flushing
    <2> QED
      BY <2>3, <2>4
  <1> QED
    BY <1>2, <1>3, <1>4, FlushingFrame

(* Who owns the head of a queue.                                            *)
LEMMA HeadOwner ==
  ASSUME TypeOK, NEW s \in Sessions, slots[s] # <<>>
  PROVE  /\ 1 \in DOMAIN slots[s] /\ Head(slots[s]) = slots[s][1]
         /\ Head(slots[s]).owner \in Owners(s)
         /\ DOMAIN slots[s] = 1..Len(slots[s]) /\ Len(slots[s]) \in Nat
  <1>1. slots[s] \in Seq(Slot)
    BY DEF TypeOK
  <1>2. /\ 1 \in DOMAIN slots[s] /\ Head(slots[s]) = slots[s][1]
        /\ DOMAIN slots[s] = 1..Len(slots[s]) /\ Len(slots[s]) \in Nat
    BY <1>1, LenProperties
  <1> QED
    BY <1>2 DEF Owners

(* A flush under way is of a prompt that was parked.                        *)
LEMMA FlushParkedInductive ==
  ASSUME TypeOK, FlushHasOwner, Ownership, FlushParked, [Next]_vars
  PROVE  FlushParked'
  <1> SUFFICES ASSUME NEW b \in Prompts, Flushing(b)'
               PROVE  call'[flushing'[b].owner].parked
    BY DEF FlushParked
  <1>1. PICK p \in Prompts : p = flushing'[b].owner /\ call[p].parked
    <2>1. CASE Flushing(b) /\ flushing'[b].owner = flushing[b].owner
      BY <2>1 DEF FlushHasOwner, FlushParked
    <2>2. CASE /\ slots[active] # <<>>
               /\ flushing'[b].owner = Head(slots[active]).owner
      <3>1. active \in Sessions
        BY DEF TypeOK
      <3> QED
        BY <2>2, <3>1, HeadOwner, OwnersTyped, OwnersAreParked DEF Ownership
    <2> QED
      BY <2>1, <2>2, FlushStarts
  <1>2. call[p].phase # "unsent"
    BY <1>1 DEF Ownership, ParkedAreSent, Holding
  <1> QED
    BY <1>1, <1>2, CallsContinue DEF Continues

(* What is applied in a step: the configuration of an apply() under way, or *)
(* that of a prompt that was never parked.                                  *)
LEMMA AppliedStep ==
  ASSUME [Next]_vars, NEW q \in applied'
  PROVE  \/ q \in applied
         \/ \E b \in Prompts : Flushing(b) /\ q = flushing[b].owner
         \/ q \in Prompts /\ call[q].phase = "selecting"
  <1>1. ASSUME NEW p \in Prompts, CallStep(p)
        PROVE  q \in applied \/ (q \in Prompts /\ call[q].phase = "selecting")
    BY <1>1, CallStepMoves
  <1>2. ASSUME NEW p \in Prompts, NEW kind \in Kinds,
               SendApplying(p, kind) \/ SendParking(p, kind)
        PROVE  q \in applied
    BY <1>2 DEF SendApplying, SendParking, historyVars
  <1>3. ASSUME NEW p \in Prompts, SendPlain(p) PROVE q \in applied
    BY <1>3 DEF SendPlain, historyVars
  <1>4. ASSUME NEW b \in Prompts, FlushStep(b)
        PROVE  q \in applied \/ (Flushing(b) /\ q = flushing[b].owner)
    BY <1>4 DEF FlushStep, FlushIssued, FlushLands, FlushFails, SelectFlushed,
       historyVars, Flushing
  <1>5. ASSUME NEW s \in Sessions, RewriteAnswered(s) PROVE q \in applied
    BY <1>5 DEF RewriteAnswered
  <1>6. CASE HandleTurnEnd
    BY <1>6 DEF HandleTurnEnd, historyVars
  <1> QED
    BY <1>1, <1>2, <1>3, <1>4, <1>5, <1>6, OtherSteps DEF historyVars

(* Only a prompt that was sent has its configuration applied.               *)
LEMMA AppliedSentInductive ==
  ASSUME TypeOK, FlushHasOwner, Ownership, FlushParked, AppliedSent, [Next]_vars
  PROVE  AppliedSent'
  <1> SUFFICES ASSUME NEW q \in applied' PROVE call'[q].phase # "unsent"
    BY DEF AppliedSent
  <1>1. q \in Prompts /\ call[q].phase # "unsent"
    <2>1. CASE q \in applied
      BY <2>1 DEF AppliedSent, TypeOK
    <2>2. ASSUME NEW b \in Prompts, Flushing(b), q = flushing[b].owner
          PROVE  q \in Prompts /\ call[q].phase # "unsent"
      BY <2>2 DEF FlushHasOwner, FlushParked, Ownership, ParkedAreSent, Holding
    <2>3. CASE q \in Prompts /\ call[q].phase = "selecting"
      BY <2>3
    <2> QED
      BY <2>1, <2>2, <2>3, AppliedStep
  <1> QED
    BY <1>1, CallsContinue DEF Continues

(* Wishes only lapse, and what was applied stays applied.                   *)
LEMMA WantedBefore ==
  ASSUME TypeOK, Ownership, OrderParked, [Next]_vars, NEW m \in DOMAIN order,
         Wanted(order[m])'
  PROVE  Wanted(order[m])
  <1>1. /\ call'[order'[m]].kind = call[order[m]].kind
        /\ call[order[m]].phase = "failed" => call'[order'[m]].phase = "failed"
        /\ order'[m] = order[m]
    BY OrderStep DEF Continues
  <1>2. dropped \subseteq dropped'
    BY HistoryGrows
  <1> QED
    BY <1>1, <1>2 DEF Wanted

(* All that is wanted and was parked in a session before the head of its    *)
(* queue has been applied: it cannot be further back.                       *)
LEMMA HeadIsNext ==
  ASSUME TypeOK, Ownership, ParkedConfigurationKept, OrderParked, OrderOnce,
         SlotsInOrder, NEW s \in Sessions, slots[s] # <<>>,
         NEW m \in DOMAIN order, NEW n \in DOMAIN order, m < n,
         order[n] = Head(slots[s]).owner,
         call[order[m]].home = call[order[n]].home, Wanted(order[m])
  PROVE  order[m] \in applied
  <1>1. /\ DOMAIN order = 1..Len(order) /\ Len(order) \in Nat
        /\ order[m] \in Prompts /\ order[n] \in Prompts
    BY LenProperties DEF TypeOK
  <1>2. call[order[n]].home = s
    BY HeadOwner, OwnersAreParked DEF Ownership
  <1>3. order[m] \in Owners(s) \cup applied
    BY <1>1, <1>2 DEF ParkedConfigurationKept, OrderParked, Wanted
  <1>4. CASE order[m] \in Owners(s)
    <2>1. PICK k \in DOMAIN slots[s] : slots[s][k].owner = order[m]
      BY <1>4 DEF Owners
    <2>2. CASE k = 1
      BY <1>1, <2>1, <2>2, HeadOwner DEF OrderOnce
    <2>3. CASE k # 1
      <3>1. 1 < k
        BY <2>3, HeadOwner
      <3>2. n < m
        BY <2>1, <3>1, HeadOwner DEF SlotsInOrder
      <3> QED
        BY <1>1, <3>2
    <2> QED
      BY <2>2, <2>3
  <1> QED
    BY <1>3, <1>4

(* A flush under way is of the earliest configuration still wanted.         *)
LEMMA FlushInOrderInductive ==
  ASSUME TypeOK, FlushHasOwner, Ownership, ParkedConfigurationKept, Ordering,
         [Next]_vars
  PROVE  FlushInOrder'
  <1> SUFFICES ASSUME NEW b \in Prompts, Flushing(b)',
                      NEW m \in DOMAIN order', NEW n \in DOMAIN order', m < n,
                      order'[n] = flushing'[b].owner,
                      call'[order'[m]].home = call'[order'[n]].home,
                      Wanted(order[m])'
               PROVE  order'[m] \in applied'
    BY DEF FlushInOrder
  <1>1. OrderParked
    BY DEF Ordering
  <1>2. call[order'[n]].parked
    <2>1. CASE Flushing(b) /\ flushing'[b].owner = flushing[b].owner
      BY <2>1 DEF Ordering, FlushParked
    <2>2. CASE /\ slots[active] # <<>>
               /\ flushing'[b].owner = Head(slots[active]).owner
      <3>1. active \in Sessions
        BY DEF TypeOK
      <3> QED
        BY <2>2, <3>1, HeadOwner, OwnersAreParked DEF Ownership
    <2> QED
      BY <2>1, <2>2, FlushStarts
  <1>3. n \in DOMAIN order
    <2> SUFFICES ASSUME n \notin DOMAIN order PROVE FALSE
      OBVIOUS
    <2>1. call[order'[n]].phase = "unsent" /\ order'[n] \in Prompts
      BY <1>1, OrderStep
    <2> QED
      BY <1>2, <2>1 DEF Ownership, ParkedAreSent, Holding
  <1>4. m \in DOMAIN order
    BY <1>1, <1>3, OrderStep
  <1>5. /\ order'[m] = order[m] /\ order'[n] = order[n]
        /\ Continues(order[m]) /\ Continues(order[n])
    BY <1>1, <1>3, <1>4, OrderStep
  <1>6. call[order[m]].home = call[order[n]].home /\ Wanted(order[m])
    BY <1>1, <1>4, <1>5, WantedBefore DEF Continues
  <1>7. order[m] \in applied
    <2>1. CASE Flushing(b) /\ flushing'[b].owner = flushing[b].owner
      BY <1>3, <1>4, <1>5, <1>6, <2>1 DEF Ordering, FlushInOrder
    <2>2. CASE /\ slots[active] # <<>>
               /\ flushing'[b].owner = Head(slots[active]).owner
      <3>1. active \in Sessions
        BY DEF TypeOK
      <3> QED
        BY <1>3, <1>4, <1>5, <1>6, <2>2, <3>1, HeadIsNext DEF Ordering
    <2> QED
      BY <2>1, <2>2, FlushStarts
  <1> QED
    BY <1>5, <1>7, HistoryGrows

(* Every step keeps the order of the queues and of the flushes.             *)
LEMMA OrderingInductive ==
  TypeOK /\ FlushHasOwner /\ Ownership /\ ParkedConfigurationKept /\ Ordering
    /\ [Next]_vars => Ordering'
  <1> SUFFICES ASSUME TypeOK, FlushHasOwner, Ownership, ParkedConfigurationKept,
                      Ordering, [Next]_vars
               PROVE  Ordering'
    OBVIOUS
  <1>1. OrderParked' /\ OrderOnce'
    BY OrderedOnce DEF Ordering
  <1>2. SlotsInOrder'
    <2>1. slots' \in [Sessions -> Seq(Slot)]
      BY TypeInductive DEF TypeOK
    <2> QED
      BY <2>1, SlotsStayInOrder DEF Ordering
  <1>3. FlushInOrder'
    BY FlushInOrderInductive
  <1>4. FlushParked' /\ AppliedSent'
    BY FlushParkedInductive, AppliedSentInductive DEF Ordering
  <1> QED
    BY <1>1, <1>2, <1>3, <1>4 DEF Ordering

(* Every step keeps the order in which configurations reach the host.       *)
LEMMA FifoInductive ==
  TypeOK /\ FlushHasOwner /\ Ownership /\ Ordering /\ AppliedInFifoOrder
    /\ [Next]_vars => AppliedInFifoOrder'
  <1> SUFFICES ASSUME TypeOK, FlushHasOwner, Ownership, Ordering,
                      AppliedInFifoOrder, [Next]_vars,
                      NEW m \in DOMAIN order', NEW n \in DOMAIN order', m < n,
                      call'[order'[m]].home = call'[order'[n]].home,
                      Wanted(order[m])', Wanted(order[n])',
                      order'[n] \in applied'
               PROVE  order'[m] \in applied'
    BY DEF AppliedInFifoOrder, Wanted
  <1>1. OrderParked
    BY DEF Ordering
  <1>2. \/ order'[n] \in applied
        \/ \E b \in Prompts : Flushing(b) /\ order'[n] = flushing[b].owner
        \/ order'[n] \in Prompts /\ call[order'[n]].phase = "selecting"
    BY AppliedStep
  <1>3. n \in DOMAIN order
    <2> SUFFICES ASSUME n \notin DOMAIN order PROVE FALSE
      OBVIOUS
    <2>1. call[order'[n]].phase = "unsent" /\ order'[n] \in Prompts
      BY <1>1, OrderStep
    <2> QED
      BY <1>2, <2>1 DEF Ordering, AppliedSent, FlushParked, Ownership,
         ParkedAreSent, Holding
  <1>4. m \in DOMAIN order
    BY <1>1, <1>3, OrderStep
  <1>5. /\ order'[m] = order[m] /\ order'[n] = order[n]
        /\ Continues(order[m]) /\ Continues(order[n])
    BY <1>1, <1>3, <1>4, OrderStep
  <1>6. /\ call[order[m]].home = call[order[n]].home
        /\ Wanted(order[m]) /\ Wanted(order[n])
    BY <1>1, <1>3, <1>4, <1>5, WantedBefore DEF Continues
  <1>7. order[m] \in applied
    <2>1. CASE order[n] \in applied
      BY <1>3, <1>4, <1>6, <2>1 DEF AppliedInFifoOrder, Wanted
    <2>2. ASSUME NEW b \in Prompts, Flushing(b), order[n] = flushing[b].owner
          PROVE  order[m] \in applied
      BY <1>3, <1>4, <1>6, <2>2 DEF Ordering, FlushInOrder
    <2>3. CASE order[n] \in Prompts /\ call[order[n]].phase = "selecting"
      <3>1. call[order[n]].parked
        BY <1>1, <1>3 DEF OrderParked
      <3> QED
        BY <2>3, <3>1 DEF Ownership, ParkedAreSent, Holding
    <2> QED
      BY <1>2, <1>5, <2>1, <2>2, <2>3
  <1> QED
    BY <1>5, <1>7, HistoryGrows

(* PendingConfigurationQueue is a FIFO: parked configurations of a session  *)
(* reach the host in the order their prompts were sent, so that a later one *)
(* is not applied before an earlier one that is still wanted.               *)
THEOREM ConfigurationsApplyInOrder == Spec => []AppliedInFifoOrder
  <1> DEFINE IInv == /\ TypeOK /\ FlushHasOwner /\ Ownership
                     /\ ParkedConfigurationKept /\ Ordering /\ AppliedInFifoOrder
  <1>1. Init => IInv
    <2> SUFFICES ASSUME Init PROVE IInv
      OBVIOUS
    <2>1. TypeOK /\ FlushHasOwner /\ Ownership
      BY TypeInit, OwnershipInit
    <2>2. ParkedConfigurationKept /\ FlushParked /\ FlushInOrder
      BY DEF Init, ParkedConfigurationKept, FlushParked, FlushInOrder, Flushing
    <2>3. order = <<>> /\ DOMAIN order = {} /\ applied = {}
      BY DEF Init
    <2> QED
      BY <2>1, <2>2, <2>3 DEF Ordering, OrderParked, OrderOnce, SlotsInOrder,
         AppliedSent, AppliedInFifoOrder
  <1>2. IInv /\ [Next]_vars => IInv'
    BY TypeInductive, FlushHasOwnerInductive, OwnershipInductive, KeptInductive,
       OrderingInductive, FifoInductive
  <1>3. IInv => AppliedInFifoOrder
    OBVIOUS
  <1> QED
    BY <1>1, <1>2, <1>3, PTL DEF Spec

=============================================================================
