----------------------- MODULE RuntimeLifecycleProofs -----------------------
(***************************************************************************)
(* Proofs about RuntimeLifecycle, for any calls, kinds, recoveries and      *)
(* number of configurations.                                               *)
(***************************************************************************)
EXTENDS RuntimeLifecycle, TLAPS

RuntimeTyped ==
  /\ state \in Runtime
  /\ {child, bootTask, stopTask, preparation} \subseteq Threads \cup {NoOne}
  /\ identity \in 0..NoIdentity
  /\ boots \in [Threads -> BootState]
  /\ procs \in [Threads -> {"none", "booting", "serving", "dying", "dead"}]

ThreadsTyped == threads \in [Threads -> Thread]

(* Where a settled await leads.                                             *)
LEMMA StopMap ==
  ASSUME NEW pc \in DOMAIN AfterStop
  PROVE  /\ AfterStop[pc] \in PCs
         /\ AfterStop[pc] \notin DOMAIN AfterStop
         /\ AfterStop[pc] \in GatePCs <=> pc \in GatePCs
         /\ AfterStop[pc] \in StartPCs <=> pc \in StartPCs
         /\ AfterStop[pc] \notin {"starting", "reconnecting", "gate", "booting", "baseline"}
  BY DEF AfterStop, PCs, GatePCs, StartPCs, RuntimePCs

LEMMA StartMap ==
  ASSUME NEW pc \in DOMAIN AfterStart
  PROVE  /\ AfterStart[pc] \in {"started", "reconnected"}
         /\ pc \in {"starting", "reconnecting"}
         /\ AfterStart[pc] \in GatePCs <=> pc \in GatePCs
  BY DEF AfterStart, GatePCs

LEMMA GateMap == DOMAIN AfterGate = {"gate"} /\ AfterGate["gate"] = "opened"
  BY DEF AfterGate

LEMMA GoesTyped ==
  ASSUME NEW ts \in [Threads -> Thread], NEW t \in Threads, NEW pc \in PCs
  PROVE  /\ Goes(ts, t, pc) \in [Threads -> Thread]
         /\ Goes(ts, t, pc)[t].pc = pc
         /\ Goes(ts, t, pc)[t].on = ts[t].on
         /\ \A u \in Threads \ {t} : Goes(ts, t, pc)[u] = ts[u]
  BY DEF Goes, Thread

LEMMA WokenTyped ==
  ASSUME NEW ts \in [Threads -> Thread], NEW after,
         \A pc \in DOMAIN after : after[pc] \in PCs
  PROVE  /\ Woken(ts, after) \in [Threads -> Thread]
         /\ \A t \in Threads :
              IF ts[t].pc \in DOMAIN after
              THEN /\ Woken(ts, after)[t].pc = after[ts[t].pc]
                   /\ Woken(ts, after)[t].on = ts[t].on
              ELSE Woken(ts, after)[t] = ts[t]
  BY DEF Woken, Thread

LEMMA MapsTyped ==
  /\ \A pc \in DOMAIN AfterStop : AfterStop[pc] \in PCs
  /\ \A pc \in DOMAIN AfterStart : AfterStart[pc] \in PCs
  /\ \A pc \in DOMAIN AfterGate : AfterGate[pc] \in PCs
  <1>1. {"started", "reconnected", "opened"} \subseteq PCs
    BY DEF PCs, GatePCs
  <1> QED
    BY <1>1, StopMap, StartMap, GateMap

(* A step of boot b to another phase.                                       *)
LEMMA PhaseSet ==
  ASSUME NEW bs \in [Threads -> BootState], NEW b \in Threads,
         NEW p \in BootPhases
  PROVE  /\ [bs EXCEPT ![b].phase = p] \in [Threads -> BootState]
         /\ [bs EXCEPT ![b].phase = p][b].phase = p
         /\ \A t \in Threads \ {b} : [bs EXCEPT ![b].phase = p][t] = bs[t]
  BY DEF BootState

LEMMA StopTyped ==
  ASSUME RuntimeTyped, StopRuntime
  PROVE  /\ RuntimeTyped'
         /\ bootTask' = bootTask
         /\ \A t \in Threads : boots'[t].phase = boots[t].phase
         /\ stopTask' = IF stopTask # NoOne THEN stopTask ELSE child
  <1>1. CASE stopTask # NoOne
    BY <1>1 DEF StopRuntime, RuntimeTyped, runtimeVars
  <1>2. CASE stopTask = NoOne
    <2>1. boots' \in [Threads -> BootState] /\ \A t \in Threads : boots'[t].phase = boots[t].phase
      <3> SUFFICES ASSUME NEW t \in Threads
                   PROVE  boots'[t] \in BootState /\ boots'[t].phase = boots[t].phase
        BY <1>2 DEF StopRuntime
      <3>1. boots[t] \in BootState
        BY DEF RuntimeTyped
      <3>2. boots'[t] = boots[t] \/ boots'[t] = [boots[t] EXCEPT !.aborted = TRUE]
        BY <1>2 DEF StopRuntime
      <3> QED
        BY <3>1, <3>2 DEF BootState
    <2>2. procs' \in [Threads -> {"none", "booting", "serving", "dying", "dead"}]
      BY <1>2 DEF StopRuntime, RuntimeTyped
    <2>3. state' \in Runtime
      BY <1>2 DEF StopRuntime, RuntimeTyped, State, Runtime
    <2>4. identity' \in 0..NoIdentity
      BY <1>2, LifecycleAssumption DEF StopRuntime, NoIdentity, LifecycleAssumption
    <2> QED
      BY <1>2, <2>1, <2>2, <2>3, <2>4 DEF StopRuntime, RuntimeTyped
  <1> QED
    BY <1>1, <1>2

LEMMA BootTyped ==
  ASSUME RuntimeTyped, NEW ts \in [Threads -> Thread], NEW t \in Threads,
         NEW wanted \in 0..MaxChanges, Boot(t, ts, wanted)
  PROVE  /\ RuntimeTyped' /\ ThreadsTyped'
         /\ bootTask' = t /\ boots'[t].phase = "preparing"
         /\ \A b \in Threads \ {t} : boots'[b] = boots[b]
         /\ threads'[t].pc = "booting" /\ threads'[t].on = t
         /\ \A u \in Threads \ {t} : threads'[u] = ts[u]
         /\ stopTask' = stopTask
  <1>1. threads' \in [Threads -> Thread] /\ threads'[t].pc = "booting" /\ threads'[t].on = t
        /\ \A u \in Threads \ {t} : threads'[u] = ts[u]
    <2>1. ts[t] \in Thread /\ "booting" \in PCs /\ 0 \in 0..MaxChanges
      BY LifecycleAssumption DEF PCs, StartPCs, RuntimePCs, LifecycleAssumption
    <2> QED
      BY <2>1 DEF Boot, Thread
  <1>2. boots' \in [Threads -> BootState] /\ boots'[t].phase = "preparing"
        /\ \A b \in Threads \ {t} : boots'[b] = boots[b]
    <2>1. "preparing" \in BootPhases
      BY DEF BootPhases
    <2> QED
      BY <2>1, PhaseSet DEF Boot, RuntimeTyped
  <1>3. identity' \in 0..NoIdentity
    BY LifecycleAssumption DEF Boot, NoIdentity, LifecycleAssumption
  <1>4. state' \in Runtime
    BY DEF Boot, State, Runtime
  <1> QED
    BY <1>1, <1>2, <1>3, <1>4 DEF Boot, RuntimeTyped, ThreadsTyped

-----------------------------------------------------------------------------
(* A boot that callers may join is under way.                               *)
BootInv == bootTask # NoOne => boots[bootTask].phase \in BootPhases

(* What boots, and who waits for a stop, is not given up by this step.      *)
Lasting ==
  /\ \A b \in Threads : boots[b].phase \in BootPhases => boots'[b].phase \in BootPhases
  /\ stopTask # NoOne => stopTask' # NoOne

(* Thread t of ts has gone into the runtime's start, the others stay.       *)
GoneToRuntime(t, ts) ==
  /\ RuntimeTyped' /\ ThreadsTyped' /\ BootInv' /\ Lasting
  /\ threads'[t].pc \in {"entering", "evicting", "booting", "booted"}
  /\ threads'[t].pc \in {"entering", "evicting"} => stopTask' # NoOne
  /\ threads'[t].pc = "booting" =>
       threads'[t].on \in Threads /\ boots'[threads'[t].on].phase \in BootPhases
  /\ \A u \in Threads \ {t} : threads'[u] = ts[u]

LEMMA NoOneIsNoThread == NoOne \notin Threads
  BY LifecycleAssumption DEF LifecycleAssumption, Threads

LEMMA BootGoes ==
  ASSUME RuntimeTyped, NEW ts \in [Threads -> Thread], NEW t \in Threads,
         NEW wanted \in 0..MaxChanges, Boot(t, ts, wanted)
  PROVE  GoneToRuntime(t, ts)
  <1>1. "preparing" \in BootPhases
    BY DEF BootPhases
  <1> QED
    BY <1>1, BootTyped DEF GoneToRuntime, Lasting, BootInv

LEMMA JoinGoes ==
  ASSUME RuntimeTyped, BootInv, config \in 0..MaxChanges,
         NEW ts \in [Threads -> Thread], NEW t \in Threads, JoinOrBoot(t, ts)
  PROVE  GoneToRuntime(t, ts)
  <1>1. ts[t] \in Thread /\ {"booted", "booting", "evicting"} \subseteq PCs
    BY DEF PCs, StartPCs, RuntimePCs
  <1>2. CASE state.phase = "ready" /\ identity = config
    <2>1. threads' = [ts EXCEPT ![t].pc = "booted", ![t].on = state.url] /\ UNCHANGED runtimeVars
      BY <1>2 DEF JoinOrBoot
    <2>2. state.url \in Threads \cup {NoOne}
      BY DEF RuntimeTyped, Runtime
    <2>3. ThreadsTyped' /\ threads'[t].pc = "booted" /\ \A u \in Threads \ {t} : threads'[u] = ts[u]
      BY <1>1, <2>1, <2>2 DEF Thread, ThreadsTyped
    <2> QED
      BY <2>1, <2>3 DEF GoneToRuntime, RuntimeTyped, runtimeVars, BootInv, Lasting
  <1>3. CASE state.phase # "ready" /\ bootTask # NoOne /\ identity = config
    <2>1. threads' = [ts EXCEPT ![t].pc = "booting", ![t].on = bootTask] /\ UNCHANGED runtimeVars
      BY <1>3 DEF JoinOrBoot
    <2>2. bootTask \in Threads
      BY <1>3 DEF RuntimeTyped
    <2>3. ThreadsTyped' /\ threads'[t].pc = "booting" /\ threads'[t].on = bootTask
          /\ \A u \in Threads \ {t} : threads'[u] = ts[u]
      BY <1>1, <2>1, <2>2 DEF Thread, ThreadsTyped
    <2> QED
      BY <1>3, <2>1, <2>3 DEF GoneToRuntime, RuntimeTyped, runtimeVars, BootInv, Lasting
  <1>4. CASE ~(identity = config /\ (state.phase = "ready" \/ bootTask # NoOne))
    <2>1. CASE child # NoOne
      <3>1. StopRuntime /\ threads' = [ts EXCEPT ![t].pc = "evicting", ![t].config = config]
        BY <1>4, <2>1 DEF JoinOrBoot
      <3>2. ThreadsTyped' /\ threads'[t].pc = "evicting" /\ \A u \in Threads \ {t} : threads'[u] = ts[u]
        BY <1>1, <3>1 DEF Thread, ThreadsTyped
      <3>3. stopTask' # NoOne
        BY <2>1, <3>1, StopTyped
      <3> QED
        BY <3>1, <3>2, <3>3, StopTyped, NoOneIsNoThread
           DEF GoneToRuntime, RuntimeTyped, BootInv, Lasting
    <2>2. CASE child = NoOne
      <3>1. Boot(t, ts, config)
        BY <1>4, <2>2 DEF JoinOrBoot
      <3> QED
        BY <3>1, BootGoes
    <2> QED
      BY <2>1, <2>2
  <1> QED
    BY <1>2, <1>3, <1>4

LEMMA StartGoes ==
  ASSUME RuntimeTyped, BootInv, config \in 0..MaxChanges,
         NEW ts \in [Threads -> Thread], NEW t \in Threads, StartRuntime(t, ts)
  PROVE  GoneToRuntime(t, ts)
  <1>1. CASE stopTask # NoOne
    <2>1. threads' = Goes(ts, t, "entering") /\ UNCHANGED runtimeVars
      BY <1>1 DEF StartRuntime
    <2>2. "entering" \in PCs
      BY DEF PCs, StartPCs, RuntimePCs
    <2> QED
      BY <1>1, <2>1, <2>2, GoesTyped
         DEF GoneToRuntime, ThreadsTyped, RuntimeTyped, runtimeVars, BootInv, Lasting
  <1>2. CASE stopTask = NoOne
    BY <1>2, JoinGoes DEF StartRuntime
  <1> QED
    BY <1>1, <1>2

-----------------------------------------------------------------------------
(* The inductive invariant.                                                 *)

(* The start task is at work, and no other start task is.                   *)
StartInv ==
  /\ \A s \in Starts : threads[s].pc \in StartPCs => startTask = s
  /\ startTask # NoOne => threads[startTask].pc \in StartPCs

(* The holder of the gate is a call at work, and nobody else is past it.    *)
GateInv ==
  /\ \A t \in Threads : threads[t].pc \in GatePCs => gate = t
  /\ gate # NoOne => threads[gate].pc \in GatePCs
  /\ gate \notin Starts

WaitOK(t) ==
  /\ threads[t].pc \in DOMAIN AfterStart => startTask # NoOne
  /\ threads[t].pc = "booting" =>
       threads[t].on \in Threads /\ boots[threads[t].on].phase \in BootPhases
  /\ threads[t].pc \in DOMAIN AfterStop => stopTask # NoOne
  /\ threads[t].pc = "gate" => gate # NoOne

WaitInv == \A t \in Threads : WaitOK(t)

(* A baseline whose client was not closed belongs to the start under way.   *)
Open(stage) == stage \in {"settings", "lists", "session"}

BaselineInv ==
  \A s \in Starts :
    Open(baselines[s]) /\ s \notin closed => client = s /\ threads[s].pc = "baseline"

ServiceTyped ==
  /\ config \in 0..MaxChanges
  /\ phase \in Phases
  /\ {client, streams, startTask} \subseteq Starts \cup {NoOne}
  /\ closed \subseteq Starts
  /\ gate \in Threads \cup {NoOne}
  /\ baselines \in [Threads -> {"none", "settings", "lists", "session", "over"}]
  /\ marker \in BOOLEAN /\ running \in BOOLEAN

Typed == RuntimeTyped /\ ThreadsTyped /\ ServiceTyped

LEMMA TypedIsTypeOK == Typed <=> TypeOK
  BY DEF Typed, TypeOK, RuntimeTyped, ThreadsTyped, ServiceTyped

Inv == Typed /\ BootInv /\ StartInv /\ GateInv /\ WaitInv /\ BaselineInv

(* Thread t stays on the same side of every task it may own.                *)
SameRole(t) ==
  /\ threads'[t].pc \in GatePCs <=> threads[t].pc \in GatePCs
  /\ t \in Starts => (threads'[t].pc \in StartPCs <=> threads[t].pc \in StartPCs)
  /\ t \in Starts /\ threads[t].pc = "baseline" /\ Open(baselines'[t])
       => threads'[t].pc = "baseline" \/ t \in closed'

Roles == \A t \in Threads : threads'[t] = threads[t] \/ SameRole(t)

(* The connection stays as it is or is closed, no baseline is begun.        *)
Connection ==
  /\ UNCHANGED <<client, closed>> \/ Disconnect
  /\ \A s \in Starts : Open(baselines'[s]) => Open(baselines[s])

LEMMA StartsAreThreads == Starts \subseteq Threads /\ \A c \in Calls : Call(c) \in Threads \ Starts
  BY DEF Starts, Threads, Call

LEMMA StartInvKept ==
  ASSUME Typed, StartInv, Roles, startTask' = startTask
  PROVE  StartInv'
  BY StartsAreThreads DEF StartInv, Roles, SameRole, Typed, ServiceTyped

LEMMA GateInvKept ==
  ASSUME Typed, GateInv, Roles, gate' = gate
  PROVE  GateInv'
  BY DEF GateInv, Roles, SameRole, Typed, ServiceTyped

LEMMA BaselineInvKept ==
  ASSUME Typed, BaselineInv, Roles, Connection
  PROVE  BaselineInv'
  <1> SUFFICES ASSUME NEW s \in Starts, Open(baselines'[s]), s \notin closed'
               PROVE  client' = s /\ threads'[s].pc = "baseline"
    BY DEF BaselineInv, Open
  <1>1. Open(baselines[s]) /\ s \notin closed
    BY DEF Connection, Disconnect
  <1>2. client = s /\ threads[s].pc = "baseline"
    BY <1>1 DEF BaselineInv
  <1>3. client' = client
    BY <1>2, NoOneIsNoThread, StartsAreThreads DEF Connection, Disconnect
  <1> QED
    BY <1>2, <1>3, StartsAreThreads DEF Roles, SameRole

LEMMA WaitInvKept ==
  ASSUME WaitInv, Lasting,
         startTask # NoOne => startTask' # NoOne,
         gate # NoOne => gate' # NoOne,
         \A t \in Threads : threads'[t] = threads[t] \/ WaitOK(t)'
  PROVE  WaitInv'
  <1> SUFFICES ASSUME NEW t \in Threads, threads'[t] = threads[t] PROVE WaitOK(t)'
    BY DEF WaitInv
  <1>1. WaitOK(t)
    BY DEF WaitInv
  <1> QED
    BY <1>1 DEF WaitOK, Lasting

(* Most steps leave the tasks with their owners.                            *)
LEMMA Ordinary ==
  ASSUME Inv, Typed', BootInv', WaitInv', Roles, Connection,
         startTask' = startTask, gate' = gate
  PROVE  Inv'
  BY StartInvKept, GateInvKept, BaselineInvKept DEF Inv

-----------------------------------------------------------------------------
(* The runtime's steps.                                                     *)

LEMMA InitInv == Init => Inv
  <1> SUFFICES ASSUME Init PROVE Inv
    OBVIOUS
  <1>1. NoIdentity \in 0..NoIdentity /\ 0 \in 0..MaxChanges
    BY LifecycleAssumption DEF LifecycleAssumption, NoIdentity
  <1>2. RuntimeTyped
    <2>1. state \in Runtime
      BY DEF Init, State, Runtime
    <2>2. boots \in [Threads -> BootState]
      BY DEF Init, BootState
    <2> QED
      BY <1>1, <2>1, <2>2 DEF Init, RuntimeTyped
  <1>3. ThreadsTyped /\ \A t \in Threads : threads[t].pc = "unused"
    BY <1>1 DEF Init, ThreadsTyped, Thread, PCs
  <1>4. ServiceTyped
    BY <1>1 DEF Init, ServiceTyped, Phases
  <1>5. WaitInv
    BY <1>3 DEF WaitInv, WaitOK, AfterStart, AfterStop
  <1>6. StartInv /\ GateInv /\ BaselineInv /\ BootInv
    BY <1>3, StartsAreThreads, NoOneIsNoThread
       DEF Init, StartInv, GateInv, BaselineInv, Open, BootInv, StartPCs, RuntimePCs, GatePCs
  <1> QED
    BY <1>2, <1>3, <1>4, <1>5, <1>6 DEF Inv, Typed

(* A thread that goes into the runtime's start and owned its task before.   *)
LEMMA GoneOrdinary ==
  ASSUME Inv, NEW t \in Threads, GoneToRuntime(t, threads),
         threads[t].pc \notin GatePCs \cup {"baseline"},
         t \in Starts => threads[t].pc \in StartPCs,
         UNCHANGED <<connectionVars, turnVars, config, phase, startTask, gate, baselines>>
  PROVE  Inv'
  <1>1. Typed'
    BY DEF Inv, Typed, ServiceTyped, GoneToRuntime, connectionVars, turnVars
  <1>2. threads'[t].pc \in StartPCs /\ threads'[t].pc \notin GatePCs
    BY DEF GoneToRuntime, StartPCs, RuntimePCs, GatePCs
  <1>3. Roles
    BY <1>2 DEF Roles, SameRole, GoneToRuntime
  <1>4. WaitOK(t)'
    BY DEF GoneToRuntime, WaitOK, AfterStart, AfterStop
  <1>5. WaitInv'
    BY <1>4, WaitInvKept DEF GoneToRuntime, Inv
  <1>6. Connection
    BY DEF Connection, connectionVars
  <1> QED
    BY <1>1, <1>3, <1>5, <1>6, Ordinary DEF GoneToRuntime

LEMMA EnterKeeps ==
  ASSUME Inv, NEW t \in Threads, Enter(t)
  PROVE  Inv'
  <1>1. GoneToRuntime(t, threads)
    BY JoinGoes DEF Inv, Typed, ThreadsTyped, ServiceTyped, Enter
  <1> QED
    BY <1>1, GoneOrdinary DEF Enter, GatePCs, StartPCs, RuntimePCs

LEMMA EvictedKeeps ==
  ASSUME Inv, NEW t \in Threads, Evicted(t)
  PROVE  Inv'
  <1>1. threads[t].config \in 0..MaxChanges
    BY DEF Inv, Typed, ThreadsTyped, Thread
  <1>2. GoneToRuntime(t, threads)
    BY <1>1, BootGoes DEF Inv, Typed, ThreadsTyped, Evicted
  <1> QED
    BY <1>2, GoneOrdinary DEF Evicted, GatePCs, StartPCs, RuntimePCs

LEMMA StopSettlesKeeps ==
  ASSUME Inv, StopSettles
  PROVE  Inv'
  <1>1. threads \in [Threads -> Thread] /\ threads' = Woken(threads, AfterStop)
    BY DEF Inv, Typed, ThreadsTyped, StopSettles
  <1>2. ThreadsTyped'
    BY <1>1, WokenTyped, MapsTyped DEF ThreadsTyped
  <1>3. state' \in Runtime
    BY DEF StopSettles, State, Runtime
  <1>4. Typed'
    BY <1>2, <1>3 DEF Inv, Typed, RuntimeTyped, ServiceTyped, StopSettles, connectionVars, turnVars
  <1>5. ASSUME NEW t \in Threads
        PROVE  /\ threads'[t] = threads[t] \/ SameRole(t)
               /\ WaitOK(t)'
    <2>1. CASE threads[t].pc \in DOMAIN AfterStop
      <3>1. threads'[t].pc = AfterStop[threads[t].pc]
        BY <1>1, <2>1, WokenTyped, MapsTyped
      <3>2. threads[t].pc # "baseline"
        BY <2>1 DEF AfterStop
      <3>3. SameRole(t)
        BY <2>1, <3>1, <3>2, StopMap DEF SameRole
      <3>4. WaitOK(t)'
        BY <2>1, <3>1, StopMap, StartMap DEF WaitOK
      <3> QED
        BY <3>3, <3>4
    <2>2. CASE threads[t].pc \notin DOMAIN AfterStop
      <3>1. threads'[t] = threads[t]
        BY <1>1, <2>2, WokenTyped, MapsTyped
      <3> QED
        BY <2>2, <3>1 DEF Inv, WaitInv, WaitOK, StopSettles
    <2> QED
      BY <2>1, <2>2
  <1>6. Roles /\ WaitInv'
    BY <1>5 DEF Roles, WaitInv
  <1>7. BootInv' /\ Connection /\ startTask' = startTask /\ gate' = gate
    BY DEF Inv, BootInv, StopSettles, Connection, connectionVars
  <1> QED
    BY <1>4, <1>6, <1>7, Ordinary

(* The end of a boot wakes its callers and leaves no task behind.           *)
LEMMA SettleBootKeeps ==
  ASSUME Inv, NEW b \in Threads, NEW pc \in {"booted", "refused"}, SettleBoot(b, pc),
         boots' = [boots EXCEPT ![b] = Over],
         UNCHANGED <<stopTask, startTask, gate>>
  PROVE  /\ ThreadsTyped' /\ boots' \in [Threads -> BootState]
         /\ {bootTask', preparation'} \subseteq Threads \cup {NoOne}
         /\ BootInv' /\ WaitInv' /\ Roles
  <1>1. threads \in [Threads -> Thread] /\ boots \in [Threads -> BootState]
        /\ {bootTask, preparation} \subseteq Threads \cup {NoOne}
    BY DEF Inv, Typed, ThreadsTyped, RuntimeTyped
  <1>2. Over \in BootState
    BY DEF Over, BootState
  <1>3. boots' \in [Threads -> BootState] /\ \A t \in Threads \ {b} : boots'[t] = boots[t]
    BY <1>1, <1>2
  <1>4. {bootTask', preparation'} \subseteq Threads \cup {NoOne}
    BY <1>1 DEF SettleBoot
  <1>5. BootInv'
    BY <1>1, <1>3 DEF BootInv, Inv, SettleBoot
  <1>6. ASSUME NEW t \in Threads
        PROVE  /\ threads'[t] \in Thread
               /\ threads'[t] = threads[t] \/ SameRole(t)
               /\ WaitOK(t)'
    <2>1. CASE threads[t].pc = "booting" /\ threads[t].on = b
      <3>1. threads'[t] = [threads[t] EXCEPT !.pc = pc]
        BY <2>1 DEF SettleBoot
      <3>2. threads[t] \in Thread /\ pc \in PCs
        BY <1>1 DEF PCs, StartPCs, RuntimePCs
      <3>3. threads'[t] \in Thread /\ threads'[t].pc = pc
        BY <3>1, <3>2 DEF Thread
      <3>4. SameRole(t)
        BY <2>1, <3>3 DEF SameRole, GatePCs, StartPCs, RuntimePCs
      <3>5. WaitOK(t)'
        BY <3>3 DEF WaitOK, AfterStart, AfterStop
      <3> QED
        BY <3>3, <3>4, <3>5
    <2>2. CASE ~(threads[t].pc = "booting" /\ threads[t].on = b)
      <3>1. threads'[t] = threads[t] /\ threads[t] \in Thread
        BY <1>1, <2>2 DEF SettleBoot
      <3>2. WaitOK(t)
        BY DEF Inv, WaitInv
      <3>3. WaitOK(t)'
        BY <1>3, <2>2, <3>1, <3>2 DEF WaitOK
      <3> QED
        BY <3>1, <3>3
    <2> QED
      BY <2>1, <2>2
  <1>7. ThreadsTyped'
    BY <1>6 DEF ThreadsTyped, SettleBoot
  <1> QED
    BY <1>3, <1>4, <1>5, <1>6, <1>7 DEF WaitInv, Roles

(* A boot that goes on to another phase.                                    *)
LEMMA BootGoesOn ==
  ASSUME Inv, NEW b \in Threads, boots[b].phase \in BootPhases,
         boots' \in [Threads -> BootState], boots'[b].phase \in BootPhases,
         \A t \in Threads \ {b} : boots'[t] = boots[t],
         UNCHANGED <<bootTask, stopTask, startTask, gate, threads>>
  PROVE  BootInv' /\ WaitInv' /\ Roles
  <1>1. Lasting
    BY DEF Lasting
  <1>2. WaitInv'
    BY <1>1, WaitInvKept DEF Inv
  <1> QED
    BY <1>2 DEF BootInv, Inv, Roles, Typed, RuntimeTyped

LEMMA RefusedKeeps ==
  ASSUME Inv, NEW b \in Threads, BootFails(b),
         child' \in Threads \cup {NoOne},
         procs' \in [Threads -> {"none", "booting", "serving", "dying", "dead"}],
         UNCHANGED <<connectionVars, turnVars, config, startTask, gate, baselines>>
  PROVE  Inv'
  <1>1. /\ ThreadsTyped' /\ boots' \in [Threads -> BootState]
        /\ {bootTask', preparation'} \subseteq Threads \cup {NoOne}
        /\ BootInv' /\ WaitInv' /\ Roles
    BY SettleBootKeeps DEF BootFails
  <1>2. state' \in Runtime /\ phase' \in Phases
    BY DEF BootFails, State, Runtime, Phases
  <1>3. Typed'
    BY <1>1, <1>2 DEF Inv, Typed, RuntimeTyped, ServiceTyped, BootFails, connectionVars, turnVars
  <1>4. Connection
    BY DEF Connection, connectionVars
  <1> QED
    BY <1>1, <1>3, <1>4, Ordinary

LEMMA PreparedKeeps ==
  ASSUME Inv, NEW b \in Threads, Prepared(b)
  PROVE  Inv'
  <1>1. CASE boots' = [boots EXCEPT ![b].phase = "writing"]
             /\ UNCHANGED <<state, identity, bootTask, stopTask, preparation, phase, threads>>
    <2>1. {"preparing", "writing"} \subseteq BootPhases
      BY DEF BootPhases
    <2>2. boots' \in [Threads -> BootState] /\ boots'[b].phase = "writing"
          /\ \A t \in Threads \ {b} : boots'[t] = boots[t]
      BY <1>1, <2>1, PhaseSet DEF Inv, Typed, RuntimeTyped
    <2>3. BootInv' /\ WaitInv' /\ Roles
      BY <1>1, <2>1, <2>2, BootGoesOn DEF Prepared
    <2>4. Typed' /\ Connection
      BY <1>1, <2>2 DEF Prepared, Inv, Typed, RuntimeTyped, ThreadsTyped, ServiceTyped,
         connectionVars, turnVars, Connection
    <2> QED
      BY <2>3, <2>4, Ordinary DEF Prepared
  <1>2. CASE BootFails(b)
    BY <1>2, RefusedKeeps DEF Prepared, Inv, Typed, RuntimeTyped
  <1> QED
    BY <1>1, <1>2 DEF Prepared

LEMMA SpawnKeeps ==
  ASSUME Inv, NEW b \in Threads, Spawn(b)
  PROVE  Inv'
  <1>1. {"writing", "repairing", "booting"} \subseteq BootPhases
    BY DEF BootPhases
  <1>2. boots' \in [Threads -> BootState] /\ boots'[b].phase = "booting"
        /\ \A t \in Threads \ {b} : boots'[t] = boots[t]
    BY <1>1, PhaseSet DEF Inv, Typed, RuntimeTyped, Spawn
  <1>3. BootInv' /\ WaitInv' /\ Roles
    BY <1>1, <1>2, BootGoesOn DEF Spawn
  <1>4. Typed' /\ Connection
    BY <1>2 DEF Spawn, Inv, Typed, RuntimeTyped, ThreadsTyped, ServiceTyped,
       connectionVars, turnVars, Connection
  <1> QED
    BY <1>3, <1>4, Ordinary DEF Spawn

LEMMA AnnounceKeeps ==
  ASSUME Inv, NEW b \in Threads, Announce(b)
  PROVE  Inv'
  <1>1. /\ ThreadsTyped' /\ boots' \in [Threads -> BootState]
        /\ {bootTask', preparation'} \subseteq Threads \cup {NoOne}
        /\ BootInv' /\ WaitInv' /\ Roles
    BY SettleBootKeeps DEF Announce, BootSucceeds
  <1>2. state' \in Runtime
    BY DEF Announce, BootSucceeds, Runtime
  <1>3. procs' \in [Threads -> {"none", "booting", "serving", "dying", "dead"}]
    BY DEF Announce, Inv, Typed, RuntimeTyped
  <1>4. Typed' /\ Connection
    BY <1>1, <1>2, <1>3 DEF Inv, Typed, RuntimeTyped, ServiceTyped, Announce, BootSucceeds,
       connectionVars, turnVars, Connection
  <1> QED
    BY <1>1, <1>4, Ordinary DEF Announce

LEMMA BootTimeoutKeeps ==
  ASSUME Inv, NEW b \in Threads, BootTimeout(b)
  PROVE  Inv'
  BY RefusedKeeps DEF BootTimeout, Inv, Typed, RuntimeTyped

(* A step that changes neither a thread nor a task.                         *)
LEMMA QuietKeeps ==
  ASSUME Inv, Typed', Connection,
         UNCHANGED <<boots, bootTask, stopTask, startTask, gate, threads>>
  PROVE  Inv'
  <1>1. BootInv' /\ WaitInv' /\ Roles
    BY DEF Inv, BootInv, WaitInv, WaitOK, Roles
  <1> QED
    BY <1>1, Ordinary

(* A step that moves one thread, which gives up and takes up no task.       *)
LEMMA MoveKeeps ==
  ASSUME Inv, Typed', Connection, NEW t \in Threads, SameRole(t), WaitOK(t)',
         \A u \in Threads \ {t} : threads'[u] = threads[u],
         UNCHANGED <<boots, bootTask, stopTask, startTask, gate>>
  PROVE  Inv'
  <1>1. BootInv' /\ Lasting /\ Roles
    BY DEF Inv, BootInv, Lasting, Roles
  <1>2. WaitInv'
    BY <1>1, WaitInvKept DEF Inv
  <1> QED
    BY <1>1, <1>2, Ordinary

LEMMA ExitKeeps ==
  ASSUME Inv, NEW b \in Threads, Exit(b)
  PROVE  Inv'
  <1>1. child' \in Threads \cup {NoOne}
        /\ procs' \in [Threads -> {"none", "booting", "serving", "dying", "dead"}]
    BY DEF Exit, Inv, Typed, RuntimeTyped
  <1>2. CASE ExitSettled(b)
    <2>1. state' \in Runtime /\ phase' \in Phases
      BY <1>2 DEF ExitSettled, Inv, Typed, RuntimeTyped, ServiceTyped, State, Runtime, Phases
    <2>2. ASSUME NEW t \in Threads
          PROVE  /\ threads'[t] \in Thread
                 /\ threads'[t] = threads[t] \/ SameRole(t)
                 /\ threads'[t] = threads[t] \/ WaitOK(t)'
      <3>1. threads[t] \in Thread /\ "returned" \in PCs
        BY DEF Inv, Typed, ThreadsTyped, PCs
      <3>2. CASE threads'[t] = threads[t]
        BY <3>1, <3>2
      <3>3. CASE threads[t].pc = "running" /\ threads'[t] = [threads[t] EXCEPT !.pc = "returned"]
        <4>1. threads'[t] \in Thread /\ threads'[t].pc = "returned"
          BY <3>1, <3>3 DEF Thread
        <4> QED
          BY <3>3, <4>1 DEF SameRole, WaitOK, AfterStart, AfterStop, GatePCs, StartPCs, RuntimePCs
      <3> QED
        BY <1>2, <3>2, <3>3 DEF ExitSettled, Interrupt
    <2>3. ThreadsTyped'
      BY <1>2, <2>2 DEF ThreadsTyped, ExitSettled, Interrupt
    <2>4. Typed'
      BY <1>1, <1>2, <2>1, <2>3 DEF Inv, Typed, RuntimeTyped, ServiceTyped, Exit, ExitSettled,
         connectionVars, turnVars
    <2>5. Lasting /\ BootInv' /\ Connection /\ Roles
      BY <1>2, <2>2 DEF Lasting, Inv, BootInv, Exit, ExitSettled, Connection, connectionVars, Roles
    <2>6. WaitInv'
      BY <2>2, <2>5, WaitInvKept DEF Exit, Inv
    <2> QED
      BY <2>4, <2>5, <2>6, Ordinary DEF Exit
  <1>3. CASE ExitBooting(b)
    <2>1. CASE BootFails(b)
      BY <1>1, <2>1, RefusedKeeps DEF Exit
    <2>2. ASSUME NEW r \in boots[b].left,
                 boots' = [boots EXCEPT ![b].phase = "repairing", ![b].left = @ \ {r}],
                 UNCHANGED <<state, identity, bootTask, stopTask, preparation, phase, threads>>
          PROVE  Inv'
      <3>1. boots[b] \in BootState /\ boots \in [Threads -> BootState]
        BY DEF Inv, Typed, RuntimeTyped
      <3>2. {"booting", "repairing"} \subseteq BootPhases
        BY DEF BootPhases
      <3>3. boots' \in [Threads -> BootState] /\ boots'[b].phase = "repairing"
            /\ \A t \in Threads \ {b} : boots'[t] = boots[t]
        BY <2>2, <3>1, <3>2 DEF BootState
      <3>4. BootInv' /\ WaitInv' /\ Roles
        BY <1>3, <2>2, <3>2, <3>3, BootGoesOn DEF Exit, ExitBooting
      <3>5. Typed' /\ Connection
        BY <1>1, <2>2, <3>3 DEF Exit, Inv, Typed, RuntimeTyped, ThreadsTyped, ServiceTyped,
           connectionVars, turnVars, Connection
      <3> QED
        BY <3>4, <3>5, Ordinary DEF Exit
    <2> QED
      BY <1>3, <2>1, <2>2 DEF ExitBooting
  <1> QED
    BY <1>2, <1>3 DEF Exit

LEMMA SurroundingsKeep ==
  ASSUME Inv, ChangeConfiguration \/ StreamLost \/ FrameArrives \/ TurnReported
  PROVE  Inv'
  <1>1. CASE ChangeConfiguration
    <2>1. config' \in 0..MaxChanges
      BY <1>1, LifecycleAssumption
         DEF ChangeConfiguration, Inv, Typed, ServiceTyped, LifecycleAssumption
    <2> QED
      BY <1>1, <2>1, QuietKeeps DEF ChangeConfiguration, Inv, Typed, RuntimeTyped, ThreadsTyped,
         ServiceTyped, runtimeVars, connectionVars, turnVars, Connection
  <1>2. CASE StreamLost \/ FrameArrives \/ TurnReported
    <2>1. Typed' /\ Connection
      BY <1>2 DEF StreamLost, FrameArrives, TurnReported, Inv, Typed, RuntimeTyped, ThreadsTyped,
         ServiceTyped, runtimeVars, connectionVars, turnVars, Connection, Phases
    <2> QED
      BY <1>2, <2>1, QuietKeeps DEF StreamLost, FrameArrives, TurnReported, runtimeVars
  <1> QED
    BY <1>1, <1>2

-----------------------------------------------------------------------------
(* The connection's steps.                                                  *)

LEMMA DisconnectTyped ==
  ASSUME ServiceTyped, Disconnect
  PROVE  {client', streams'} \subseteq Starts \cup {NoOne} /\ closed' \subseteq Starts
  BY DEF ServiceTyped, Disconnect

LEMMA AwaitStopGoes ==
  ASSUME RuntimeTyped, BootInv, NEW ts \in [Threads -> Thread], NEW t \in Threads,
         NEW pc \in DOMAIN AfterStop, StopRuntime, threads' = AwaitStop(ts, t, pc)
  PROVE  /\ RuntimeTyped' /\ ThreadsTyped' /\ BootInv' /\ Lasting
         /\ threads'[t].pc \in {pc, AfterStop[pc]} /\ WaitOK(t)'
         /\ \A u \in Threads \ {t} : threads'[u] = ts[u]
  <1> DEFINE next == IF stopTask = NoOne /\ child = NoOne THEN AfterStop[pc] ELSE pc
  <1>1. next \in PCs
    BY StopMap DEF AfterStop, PCs, StartPCs, RuntimePCs, GatePCs
  <1>2. threads' = Goes(ts, t, next)
    BY DEF AwaitStop
  <1>3. ThreadsTyped' /\ threads'[t].pc = next /\ \A u \in Threads \ {t} : threads'[u] = ts[u]
    <2> HIDE DEF next
    <2> QED
      BY <1>1, <1>2, GoesTyped DEF ThreadsTyped
  <1>4. stopTask' = NoOne => next = AfterStop[pc]
    BY StopTyped
  <1>5. pc \notin {"starting", "reconnecting", "gate", "booting"}
    BY DEF AfterStop
  <1>6. WaitOK(t)'
    BY <1>3, <1>4, <1>5, StopMap, StartMap DEF WaitOK
  <1>7. RuntimeTyped' /\ BootInv' /\ Lasting
    BY StopTyped, NoOneIsNoThread DEF RuntimeTyped, BootInv, Lasting
  <1> QED
    BY <1>3, <1>6, <1>7

LEMMA TearDownKeeps ==
  ASSUME Inv, NEW s \in Starts, threads[s].pc \in StartPCs, TearDown(s, threads),
         baselines' \in [Threads -> {"none", "settings", "lists", "session", "over"}],
         \A t \in Starts : Open(baselines'[t]) => Open(baselines[t]),
         UNCHANGED <<turnVars, config, startTask, gate>>
  PROVE  Inv'
  <1>1. s \in Threads /\ "teardown" \in DOMAIN AfterStop /\ AfterStop["teardown"] = "tornDown"
    BY StartsAreThreads DEF AfterStop
  <1>2. /\ RuntimeTyped' /\ ThreadsTyped' /\ BootInv' /\ Lasting
        /\ threads'[s].pc \in {"teardown", "tornDown"} /\ WaitOK(s)'
        /\ \A u \in Threads \ {s} : threads'[u] = threads[u]
    BY <1>1, AwaitStopGoes DEF TearDown, Inv, Typed, ThreadsTyped
  <1>3. Typed'
    BY <1>2, DisconnectTyped DEF Inv, Typed, ServiceTyped, TearDown, turnVars, Phases
  <1>4. Connection
    BY DEF TearDown, Connection
  <1>5. Open(baselines'[s]) => s \in closed'
    BY NoOneIsNoThread, StartsAreThreads DEF Inv, BaselineInv, TearDown, Disconnect
  <1>6. SameRole(s)
    BY <1>2, <1>5 DEF SameRole, StartPCs, RuntimePCs, GatePCs
  <1>7. Roles
    BY <1>2, <1>6 DEF Roles
  <1>8. WaitInv'
    BY <1>2, WaitInvKept DEF Inv
  <1> QED
    BY <1>2, <1>3, <1>4, <1>7, <1>8, Ordinary

LEMMA RefusalsKeep ==
  ASSUME Inv, NEW s \in Threads, BootRefused(s) \/ Watchdog(s)
  PROVE  Inv'
  <1>1. s \in Starts /\ threads[s].pc \in StartPCs /\ TearDown(s, threads)
        /\ UNCHANGED <<turnVars, config, startTask, gate, baselines>>
    BY DEF BootRefused, Watchdog, StartPCs, RuntimePCs
  <1> QED
    BY <1>1, TearDownKeeps DEF Inv, Typed, ServiceTyped

(* Only the baseline of the start under way is begun, for its own client.   *)
LEMMA OpenBaselineKeeps ==
  ASSUME Inv, NEW s \in Threads, OpenBaseline(s)
  PROVE  Inv'
  <1>1. s \in Starts /\ threads[s].pc = "booted" /\ threads' = Goes(threads, s, "baseline")
    BY DEF OpenBaseline
  <1>2. "baseline" \in PCs /\ threads \in [Threads -> Thread]
    BY DEF PCs, StartPCs, Inv, Typed, ThreadsTyped
  <1>3. ThreadsTyped' /\ threads'[s].pc = "baseline"
        /\ \A u \in Threads \ {s} : threads'[u] = threads[u]
    BY <1>1, <1>2, GoesTyped DEF ThreadsTyped
  <1>4. Typed'
    BY <1>1, <1>3 DEF OpenBaseline, Inv, Typed, RuntimeTyped, ServiceTyped, runtimeVars, turnVars
  <1>5. Roles
    BY <1>1, <1>3 DEF Roles, SameRole, StartPCs, RuntimePCs, GatePCs
  <1>6. BootInv' /\ Lasting /\ WaitOK(s)'
    BY <1>3 DEF OpenBaseline, Inv, BootInv, Lasting, runtimeVars, WaitOK, AfterStart, AfterStop
  <1>7. WaitInv'
    BY <1>3, <1>6, WaitInvKept DEF OpenBaseline, Inv
  <1>8. StartInv' /\ GateInv'
    BY <1>5, StartInvKept, GateInvKept DEF Inv, OpenBaseline
  <1>9. BaselineInv'
    <2> SUFFICES ASSUME NEW t \in Starts, t # s, Open(baselines'[t]), t \notin closed'
                 PROVE  FALSE
      BY <1>3 DEF BaselineInv, Open, OpenBaseline
    <2>1. threads[t].pc = "baseline"
      BY StartsAreThreads DEF Inv, Typed, ServiceTyped, BaselineInv, OpenBaseline
    <2>2. startTask = t /\ startTask = s
      BY <1>1, <2>1 DEF Inv, StartInv, StartPCs, RuntimePCs
    <2> QED
      BY <2>2
  <1> QED
    BY <1>4, <1>6, <1>7, <1>8, <1>9 DEF Inv

LEMMA EndStartKeeps ==
  ASSUME Inv, NEW s \in Starts, threads[s].pc \in StartPCs, NEW result \in Phases,
         EndStart(s, result),
         baselines' \in [Threads -> {"none", "settings", "lists", "session", "over"}],
         \A t \in Starts : Open(baselines'[t]) => Open(baselines[t]),
         threads[s].pc = "baseline" => ~Open(baselines'[s]),
         UNCHANGED <<runtimeVars, connectionVars, turnVars, config, gate>>
  PROVE  Inv'
  <1> DEFINE woken == Woken(threads, AfterStart)
  <1>1. s \in Threads /\ "ended" \in PCs /\ threads \in [Threads -> Thread]
    BY StartsAreThreads DEF PCs, Inv, Typed, ThreadsTyped
  <1>2. woken \in [Threads -> Thread]
    BY <1>1, WokenTyped, MapsTyped
  <1>3. ThreadsTyped' /\ threads'[s].pc = "ended" /\ \A t \in Threads \ {s} : threads'[t] = woken[t]
    <2> HIDE DEF woken
    <2>1. threads' = Goes(woken, s, "ended")
      BY DEF EndStart, woken
    <2> QED
      BY <1>1, <1>2, <2>1, GoesTyped DEF ThreadsTyped
  <1>4. Typed'
    BY <1>3 DEF Inv, Typed, RuntimeTyped, ServiceTyped, EndStart, runtimeVars,
       connectionVars, turnVars
  <1>5. startTask = s /\ startTask' = NoOne
    BY DEF Inv, StartInv, EndStart
  <1>6. ASSUME NEW t \in Threads \ {s}
        PROVE  /\ threads'[t] = threads[t] \/ SameRole(t)
               /\ WaitOK(t)'
    <2>1. CASE threads[t].pc \in DOMAIN AfterStart
      <3>1. threads'[t].pc = AfterStart[threads[t].pc]
        BY <1>1, <1>3, <2>1, WokenTyped, MapsTyped
      <3>2. threads'[t].pc \in {"started", "reconnected"} /\ threads[t].pc \in {"starting", "reconnecting"}
        BY <2>1, <3>1, StartMap
      <3>3. SameRole(t)
        BY <2>1, <3>1, <3>2, StartMap DEF SameRole, StartPCs, RuntimePCs
      <3>4. WaitOK(t)'
        BY <3>2 DEF WaitOK, AfterStart, AfterStop
      <3> QED
        BY <3>3, <3>4
    <2>2. CASE threads[t].pc \notin DOMAIN AfterStart
      <3>1. threads'[t] = threads[t]
        BY <1>1, <1>3, <2>2, WokenTyped, MapsTyped
      <3> QED
        BY <2>2, <3>1 DEF Inv, WaitInv, WaitOK, runtimeVars
    <2> QED
      BY <2>1, <2>2
  <1>7. WaitInv'
    <2>1. WaitOK(s)'
      BY <1>3 DEF WaitOK, AfterStart, AfterStop
    <2> QED
      BY <1>6, <2>1 DEF WaitInv
  <1>8. BootInv'
    BY DEF Inv, BootInv, runtimeVars
  <1>10. StartInv'
    <2> SUFFICES ASSUME NEW t \in Starts, threads'[t].pc \in StartPCs PROVE FALSE
      BY <1>5 DEF StartInv
    <2>1. t # s
      BY <1>3 DEF StartPCs, RuntimePCs
    <2>2. threads[t].pc \in StartPCs
      BY <1>6, <2>1, StartsAreThreads DEF SameRole
    <2> QED
      BY <1>5, <2>1, <2>2 DEF Inv, StartInv
  <1>11. GateInv'
    <2>1. \A t \in Threads : threads'[t].pc \in GatePCs <=> threads[t].pc \in GatePCs
      BY <1>3, <1>6 DEF SameRole, GatePCs, StartPCs, RuntimePCs
    <2> QED
      BY <2>1 DEF Inv, GateInv, Typed, ServiceTyped
  <1>12. BaselineInv'
    <2> SUFFICES ASSUME NEW t \in Starts, Open(baselines'[t]), t \notin closed
                 PROVE  client = t /\ threads'[t].pc = "baseline"
      BY DEF BaselineInv, Open, connectionVars
    <2>1. client = t /\ threads[t].pc = "baseline"
      BY DEF Inv, BaselineInv
    <2> QED
      BY <1>6, <2>1, StartsAreThreads DEF SameRole, connectionVars
  <1> QED
    BY <1>4, <1>7, <1>8, <1>10, <1>11, <1>12 DEF Inv

LEMMA StartFailedKeeps ==
  ASSUME Inv, NEW s \in Threads, StartFailed(s)
  PROVE  Inv'
  <1>1. s \in Starts /\ threads[s].pc = "tornDown" /\ EndStart(s, "error")
        /\ UNCHANGED <<runtimeVars, connectionVars, turnVars, config, gate, baselines>>
    BY DEF StartFailed
  <1>2. threads[s].pc \in StartPCs /\ threads[s].pc # "baseline" /\ "error" \in Phases
    BY <1>1 DEF StartPCs, Phases
  <1> QED
    BY <1>1, <1>2, EndStartKeeps DEF Inv, Typed, ServiceTyped

LEMMA StagesKeep ==
  ASSUME Inv, NEW s \in Threads, StartStreams(s) \/ ListsAnswered(s)
  PROVE  Inv'
  <1>1. s \in Starts /\ Open(baselines[s])
        /\ (baselines' = [baselines EXCEPT ![s] = "lists"]
            \/ baselines' = [baselines EXCEPT ![s] = "session"])
    BY DEF StartStreams, ListsAnswered, BaselineAt, Open
  <1>2. baselines' \in [Threads -> {"none", "settings", "lists", "session", "over"}]
        /\ \A t \in Starts : Open(baselines'[t]) => Open(baselines[t])
    BY <1>1, StartsAreThreads DEF Inv, Typed, ServiceTyped, Open
  <1>3. running' \in BOOLEAN
    <2>1. CASE StartStreams(s)
      BY <2>1 DEF StartStreams, Inv, Typed, ServiceTyped, turnVars
    <2>2. CASE ListsAnswered(s)
      BY <2>2, Zenon DEF ListsAnswered
    <2> QED
      BY <2>1, <2>2
  <1>4. {client', streams'} \subseteq Starts \cup {NoOne} /\ UNCHANGED <<client, closed, marker>>
    BY <1>1 DEF StartStreams, ListsAnswered, Inv, Typed, ServiceTyped, connectionVars, turnVars
  <1>5. UNCHANGED <<runtimeVars, config, phase, startTask, gate, threads>>
    BY DEF StartStreams, ListsAnswered
  <1>6. Typed' /\ Connection
    BY <1>2, <1>3, <1>4, <1>5 DEF Inv, Typed, RuntimeTyped, ThreadsTyped, ServiceTyped,
       runtimeVars, Connection
  <1> QED
    BY <1>5, <1>6, QuietKeeps DEF runtimeVars

LEMMA BaselineEndsKeep ==
  ASSUME Inv, NEW s \in Threads, BaselineSettled(s) \/ BaselineFailed(s)
  PROVE  Inv'
  <1>1. s \in Starts /\ baselines' = [baselines EXCEPT ![s] = "over"]
    BY DEF BaselineSettled, BaselineFailed, BaselineAt
  <1>2. baselines' \in [Threads -> {"none", "settings", "lists", "session", "over"}]
        /\ ~Open(baselines'[s])
        /\ \A t \in Starts : Open(baselines'[t]) => Open(baselines[t])
    BY <1>1, StartsAreThreads DEF Inv, Typed, ServiceTyped, Open
  <1>3. "baseline" \in StartPCs /\ "connected" \in Phases
    BY DEF StartPCs, Phases
  <1>4. CASE BaselineSettled(s) /\ threads[s].pc = "baseline"
    <2>1. EndStart(s, "connected")
          /\ UNCHANGED <<runtimeVars, connectionVars, turnVars, config, gate>>
      BY <1>4 DEF BaselineSettled
    <2> QED
      BY <1>1, <1>2, <1>3, <1>4, <2>1, EndStartKeeps
  <1>5. CASE BaselineFailed(s) /\ threads[s].pc = "baseline"
    <2>1. TearDown(s, threads) /\ UNCHANGED <<turnVars, config, startTask, gate>>
      BY <1>5 DEF BaselineFailed
    <2> QED
      BY <1>1, <1>2, <1>3, <1>5, <2>1, TearDownKeeps
  <1>6. CASE threads[s].pc # "baseline"
    <2>1. UNCHANGED <<runtimeVars, connectionVars, turnVars, config, gate, phase, startTask, threads>>
      BY <1>6 DEF BaselineSettled, BaselineFailed
    <2>2. Typed' /\ Connection
      BY <1>2, <2>1 DEF Inv, Typed, RuntimeTyped, ThreadsTyped, ServiceTyped, runtimeVars,
         connectionVars, turnVars, Connection
    <2> QED
      BY <2>1, <2>2, QuietKeeps DEF runtimeVars
  <1> QED
    BY <1>4, <1>5, <1>6

-----------------------------------------------------------------------------
(* The calls' steps.                                                        *)

(* Call c goes to wait for a start, which it makes when there is none.      *)
LEMMA StartServiceKeeps ==
  ASSUME Inv, NEW c \in Calls, NEW s \in Starts, NEW ts \in [Threads -> Thread],
         \A t \in Threads \ {Call(c)} : ts[t] = threads[t],
         NEW wait \in DOMAIN AfterStart, StartService(c, s, ts, wait),
         wait \in GatePCs <=> threads[Call(c)].pc \in GatePCs,
         UNCHANGED <<connectionVars, turnVars, config, gate, baselines>>
  PROVE  Inv'
  <1>1. Call(c) \in Threads /\ s \in Threads /\ Call(c) \notin Starts /\ Call(c) # s
    BY StartsAreThreads
  <1>2. wait \in PCs /\ AfterStart[wait] \in PCs
    BY MapsTyped DEF AfterStart, PCs, GatePCs
  <1>3. wait \notin {"gate", "booting"} /\ wait \notin DOMAIN AfterStop
    BY DEF AfterStart, AfterStop
  <1>4. Connection
    BY DEF Connection, connectionVars
  <1>5. ASSUME NEW pc \in {wait, AfterStart[wait]}, threads' = Goes(ts, Call(c), pc),
               pc = wait => startTask # NoOne,
               UNCHANGED <<runtimeVars, phase, startTask>>
        PROVE  Inv'
    <2>1. ThreadsTyped' /\ threads'[Call(c)].pc = pc
          /\ \A t \in Threads \ {Call(c)} : threads'[t] = threads[t]
      BY <1>1, <1>2, <1>5, GoesTyped DEF ThreadsTyped
    <2>2. Typed'
      BY <1>5, <2>1 DEF Inv, Typed, RuntimeTyped, ServiceTyped, runtimeVars, connectionVars, turnVars
    <2>3. pc \in GatePCs <=> threads[Call(c)].pc \in GatePCs
      BY StartMap
    <2>4. SameRole(Call(c))
      BY <1>1, <2>1, <2>3 DEF SameRole
    <2>5. WaitOK(Call(c))'
      <3>1. CASE pc = wait
        BY <1>3, <1>5, <2>1, <3>1 DEF WaitOK
      <3>2. CASE pc = AfterStart[wait]
        BY <2>1, <3>2, StartMap DEF WaitOK, AfterStart, AfterStop
      <3> QED
        BY <3>1, <3>2
    <2> QED
      BY <1>1, <1>4, <1>5, <2>1, <2>2, <2>4, <2>5, MoveKeeps DEF runtimeVars
  <1>6. ASSUME startTask = NoOne, startTask' = s, phase' = "starting",
               StartRuntime(s, [Goes(ts, Call(c), wait) EXCEPT ![s].kind = "start"])
        PROVE  Inv'
    <2> DEFINE g == Goes(ts, Call(c), wait)
               ts2 == [g EXCEPT ![s].kind = "start"]
    <2>1. g \in [Threads -> Thread] /\ g[Call(c)].pc = wait
          /\ \A t \in Threads \ {Call(c)} : g[t] = threads[t]
      BY <1>1, <1>2, GoesTyped
    <2>2. ts2 \in [Threads -> Thread] /\ \A t \in Threads \ {s} : ts2[t] = g[t]
      <3> HIDE DEF g
      <3>1. g[s] \in Thread
        BY <1>1, <2>1
      <3> QED
        BY <1>1, <2>1, <3>1 DEF Thread
    <2>3. GoneToRuntime(s, ts2)
      <3>1. StartRuntime(s, ts2)
        BY <1>6
      <3> HIDE DEF ts2
      <3> QED
        BY <1>1, <2>2, <3>1, StartGoes DEF Inv, Typed, ServiceTyped
    <2> HIDE DEF g, ts2
    <2>4. threads'[Call(c)].pc = wait
          /\ \A t \in Threads \ {s, Call(c)} : threads'[t] = threads[t]
      BY <1>1, <2>1, <2>2, <2>3 DEF GoneToRuntime
    <2>5. threads'[s].pc \in StartPCs /\ threads'[s].pc \notin GatePCs
      BY <2>3 DEF GoneToRuntime, StartPCs, RuntimePCs, GatePCs
    <2>6. \A t \in Starts : threads[t].pc \notin StartPCs
      BY <1>6, StartsAreThreads, NoOneIsNoThread DEF Inv, StartInv
    <2>7. Typed'
      BY <1>6, <2>3 DEF GoneToRuntime, Inv, Typed, ServiceTyped, connectionVars, turnVars, Phases
    <2>8. StartInv'
      BY <1>6, <2>4, <2>5, <2>6, StartsAreThreads DEF StartInv
    <2>9. GateInv'
      <3>1. threads[s].pc \notin GatePCs
        BY <1>1 DEF Inv, GateInv
      <3>2. \A t \in Threads : threads'[t].pc \in GatePCs <=> threads[t].pc \in GatePCs
        BY <1>1, <2>4, <2>5, <3>1
      <3> QED
        BY <3>2 DEF Inv, GateInv, Typed, ServiceTyped
    <2>10. BaselineInv'
      BY <2>6 DEF Inv, BaselineInv, connectionVars, StartPCs, Open
    <2>11. WaitOK(s)' /\ WaitOK(Call(c))'
      BY <1>1, <1>3, <1>6, <2>3, <2>4, NoOneIsNoThread DEF WaitOK, GoneToRuntime, AfterStart, AfterStop
    <2>12. WaitInv'
      BY <1>6, <2>3, <2>4, <2>11, WaitInvKept DEF Inv, GoneToRuntime
    <2> QED
      BY <2>3, <2>7, <2>8, <2>9, <2>10, <2>12 DEF Inv, GoneToRuntime
  <1>7. CASE startTask # NoOne
    <2>1. threads' = Goes(ts, Call(c), wait) /\ UNCHANGED <<runtimeVars, phase, startTask>>
      BY <1>7 DEF StartService
    <2> QED
      BY <1>5, <1>7, <2>1
  <1>8. CASE startTask = NoOne /\ Connected
    <2>1. threads' = Goes(ts, Call(c), AfterStart[wait]) /\ UNCHANGED <<runtimeVars, phase, startTask>>
      BY <1>8 DEF StartService
    <2>2. AfterStart[wait] # wait
      BY DEF AfterStart
    <2> QED
      BY <1>5, <2>1, <2>2
  <1>9. CASE startTask = NoOne /\ ~Connected
    <2>1. startTask' = s /\ phase' = "starting"
          /\ StartRuntime(s, [Goes(ts, Call(c), wait) EXCEPT ![s].kind = "start"])
      BY <1>9 DEF StartService
    <2> QED
      BY <1>6, <1>9, <2>1
  <1> QED
    BY <1>7, <1>8, <1>9

LEMMA MadeTyped ==
  ASSUME Inv, NEW c \in Calls, NEW kind \in CallKinds
  PROVE  /\ Made(c, kind) \in [Threads -> Thread]
         /\ Made(c, kind)[Call(c)].pc = threads[Call(c)].pc
         /\ \A t \in Threads \ {Call(c)} : Made(c, kind)[t] = threads[t]
  <1>1. Call(c) \in Threads /\ threads[Call(c)] \in Thread /\ threads \in [Threads -> Thread]
    BY StartsAreThreads DEF Inv, Typed, ThreadsTyped
  <1> QED
    BY <1>1 DEF Made, Thread

LEMMA StartsKeep ==
  ASSUME Inv, NEW c \in Calls,
         CallStart(c) \/ Reconnect(c) \/ CallMutation(c) \/ MutationEnds(c)
  PROVE  Inv'
  <1>1. <<c, "start">> \in Starts /\ <<c, "reconnect">> \in Starts
    BY DEF Starts
  <1>2. {"starting", "reconnecting"} \subseteq DOMAIN AfterStart
        /\ "starting" \notin GatePCs /\ "reconnecting" \in GatePCs
    BY DEF AfterStart, GatePCs
  <1>3. "start" \in CallKinds /\ "mutation" \in CallKinds /\ threads \in [Threads -> Thread]
    BY DEF CallKinds, Inv, Typed, ThreadsTyped
  <1>4. {"unused", "booted"} \cap GatePCs = {} /\ "mutating" \in GatePCs
    BY DEF GatePCs
  <1>5. CASE CallStart(c)
    BY <1>1, <1>2, <1>3, <1>4, <1>5, MadeTyped, StartServiceKeeps DEF CallStart, Unused
  <1>6. CASE Reconnect(c)
    BY <1>1, <1>2, <1>3, <1>4, <1>6, StartServiceKeeps DEF Reconnect, At
  <1>7. CASE CallMutation(c)
    BY <1>1, <1>2, <1>3, <1>4, <1>7, MadeTyped, StartServiceKeeps DEF CallMutation, Unused
  <1>8. CASE MutationEnds(c)
    BY <1>1, <1>2, <1>3, <1>4, <1>8, StartServiceKeeps DEF MutationEnds, At
  <1> QED
    BY <1>5, <1>6, <1>7, <1>8

(* A call disconnects and goes to wait for the runtime's stop.              *)
LEMMA StopKeeps ==
  ASSUME Inv, NEW c \in Calls, NEW ts \in [Threads -> Thread], NEW pc \in DOMAIN AfterStop,
         \A t \in Threads \ {Call(c)} : ts[t] = threads[t],
         Disconnect, phase' = "idle", StopRuntime, threads' = AwaitStop(ts, Call(c), pc),
         gate' \in Threads \cup {NoOne}, UNCHANGED <<turnVars, config, startTask, baselines>>
  PROVE  /\ Typed' /\ BootInv' /\ Connection /\ Lasting /\ WaitOK(Call(c))'
         /\ threads'[Call(c)].pc \in {pc, AfterStop[pc]}
         /\ \A t \in Threads \ {Call(c)} : threads'[t] = threads[t]
  <1>1. Call(c) \in Threads
    BY StartsAreThreads
  <1>2. /\ RuntimeTyped' /\ ThreadsTyped' /\ BootInv' /\ Lasting
        /\ threads'[Call(c)].pc \in {pc, AfterStop[pc]} /\ WaitOK(Call(c))'
        /\ \A t \in Threads \ {Call(c)} : threads'[t] = ts[t]
    BY <1>1, AwaitStopGoes DEF Inv, Typed
  <1>3. Connection
    BY DEF Connection
  <1>4. Typed'
    BY <1>2, DisconnectTyped DEF Inv, Typed, ServiceTyped, turnVars, Phases
  <1> QED
    BY <1>2, <1>3, <1>4

LEMMA CallRestartKeeps ==
  ASSUME Inv, NEW c \in Calls, CallRestart(c)
  PROVE  Inv'
  <1>1. Call(c) \in Threads \ Starts /\ "restart" \in CallKinds
        /\ "restarting" \in DOMAIN AfterStop /\ AfterStop["restarting"] = "restarted"
    BY StartsAreThreads DEF CallKinds, AfterStop
  <1>2. Made(c, "restart") \in [Threads -> Thread]
        /\ \A t \in Threads \ {Call(c)} : Made(c, "restart")[t] = threads[t]
    BY <1>1, MadeTyped
  <1>3. gate' = gate /\ gate \in Threads \cup {NoOne} /\ startTask' = startTask
    BY DEF CallRestart, Inv, Typed, ServiceTyped
  <1>4. /\ Typed' /\ BootInv' /\ Connection /\ Lasting /\ WaitOK(Call(c))'
        /\ threads'[Call(c)].pc \in {"restarting", "restarted"}
        /\ \A t \in Threads \ {Call(c)} : threads'[t] = threads[t]
    BY <1>1, <1>2, <1>3, StopKeeps DEF CallRestart
  <1>5. threads[Call(c)].pc \notin GatePCs /\ threads'[Call(c)].pc \notin GatePCs
    BY <1>4 DEF CallRestart, Unused, GatePCs
  <1>6. Roles
    BY <1>1, <1>4, <1>5 DEF Roles, SameRole
  <1>7. WaitInv'
    BY <1>3, <1>4, WaitInvKept DEF Inv
  <1> QED
    BY <1>3, <1>4, <1>6, <1>7, Ordinary

LEMMA RestartRuntimeKeeps ==
  ASSUME Inv, NEW c \in Calls, RestartRuntime(c)
  PROVE  Inv'
  <1>1. Call(c) \in Threads \ Starts
    BY StartsAreThreads
  <1>2. GoneToRuntime(Call(c), threads)
    BY <1>1, StartGoes DEF Inv, Typed, ThreadsTyped, ServiceTyped, RestartRuntime
  <1>3. threads[Call(c)].pc \notin GatePCs \cup {"baseline"}
    BY DEF RestartRuntime, At, GatePCs
  <1> QED
    BY <1>1, <1>2, <1>3, GoneOrdinary DEF RestartRuntime

(* Steps that move one call to where it owns no task and waits for none.    *)
LEMMA CallMoves ==
  ASSUME Inv, NEW c \in Calls, NEW to \in {"returned", "opened", "idle", "sending", "running"},
         threads'[Call(c)].pc = to, to \in GatePCs <=> threads[Call(c)].pc \in GatePCs,
         \A u \in Threads \ {Call(c)} : threads'[u] = threads[u],
         ThreadsTyped', marker' \in BOOLEAN, running' \in BOOLEAN,
         UNCHANGED <<runtimeVars, connectionVars, config, phase, startTask, gate, baselines>>
  PROVE  Inv'
  <1>1. Call(c) \in Threads \ Starts
    BY StartsAreThreads
  <1>2. SameRole(Call(c))
    BY <1>1 DEF SameRole
  <1>3. WaitOK(Call(c))'
    BY DEF WaitOK, AfterStart, AfterStop
  <1>4. Typed' /\ Connection
    BY DEF Inv, Typed, RuntimeTyped, ServiceTyped, runtimeVars, connectionVars, Connection
  <1> QED
    BY <1>1, <1>2, <1>3, <1>4, MoveKeeps DEF runtimeVars

LEMMA RefusedMutationKeeps ==
  ASSUME Inv, NEW c \in Calls, MutationRefused(c)
  PROVE  Inv'
  <1>1. Call(c) \in Threads /\ threads \in [Threads -> Thread] /\ "returned" \in PCs
    BY StartsAreThreads DEF Inv, Typed, ThreadsTyped, PCs
  <1>2. ThreadsTyped' /\ threads'[Call(c)].pc = "returned"
        /\ \A u \in Threads \ {Call(c)} : threads'[u] = threads[u]
    BY <1>1, GoesTyped DEF MutationRefused, ThreadsTyped
  <1>3. "returned" \notin GatePCs /\ threads[Call(c)].pc \notin GatePCs
    BY DEF MutationRefused, At, GatePCs
  <1> QED
    BY <1>2, <1>3, CallMoves DEF MutationRefused, Inv, Typed, ServiceTyped, turnVars

LEMMA WaitForGateKeeps ==
  ASSUME Inv, NEW c \in Calls, WaitForGate(c)
  PROVE  Inv'
  <1>1. Call(c) \in Threads \ Starts /\ threads \in [Threads -> Thread] /\ "gate" \in PCs
    BY StartsAreThreads DEF Inv, Typed, ThreadsTyped, PCs
  <1>2. ThreadsTyped' /\ threads'[Call(c)].pc = "gate"
        /\ \A u \in Threads \ {Call(c)} : threads'[u] = threads[u]
    BY <1>1, GoesTyped DEF WaitForGate, ThreadsTyped
  <1>3. SameRole(Call(c))
    BY <1>1, <1>2 DEF WaitForGate, AtGate, At, SameRole, GatePCs
  <1>4. WaitOK(Call(c))'
    BY <1>2 DEF WaitForGate, WaitOK, AfterStart, AfterStop
  <1>5. Typed' /\ Connection
    BY <1>2 DEF WaitForGate, Inv, Typed, RuntimeTyped, ServiceTyped, runtimeVars, connectionVars,
       turnVars, Connection
  <1> QED
    BY <1>1, <1>2, <1>3, <1>4, <1>5, MoveKeeps DEF WaitForGate, runtimeVars

LEMMA CallPromptKeeps ==
  ASSUME Inv, NEW c \in Calls, CallPrompt(c)
  PROVE  Inv'
  <1> DEFINE to == IF gate = NoOne THEN "opened" ELSE "gate"
             made == Made(c, "prompt")
  <1>1. Call(c) \in Threads \ Starts /\ to \in PCs /\ "prompt" \in CallKinds
    BY StartsAreThreads DEF PCs, CallKinds
  <1>2. made \in [Threads -> Thread] /\ \A u \in Threads \ {Call(c)} : made[u] = threads[u]
    BY <1>1, MadeTyped
  <1>3. threads' = Goes(made, Call(c), to)
    BY DEF CallPrompt
  <1>4. ThreadsTyped' /\ threads'[Call(c)].pc = to
        /\ \A u \in Threads \ {Call(c)} : threads'[u] = threads[u]
    <2> HIDE DEF made, to
    <2> QED
      BY <1>1, <1>2, <1>3, GoesTyped DEF ThreadsTyped
  <1>5. SameRole(Call(c))
    BY <1>1, <1>4 DEF CallPrompt, Unused, SameRole, GatePCs
  <1>6. WaitOK(Call(c))'
    BY <1>4 DEF CallPrompt, WaitOK, AfterStart, AfterStop
  <1>7. Typed' /\ Connection
    BY <1>4 DEF CallPrompt, Inv, Typed, RuntimeTyped, ServiceTyped, runtimeVars, connectionVars,
       turnVars, Connection
  <1> QED
    BY <1>1, <1>4, <1>5, <1>6, <1>7, MoveKeeps DEF CallPrompt, runtimeVars

LEMMA TurnsKeep ==
  ASSUME Inv, NEW c \in Calls,
         Admit(c) \/ PromptAccepted(c) \/ PromptFailed(c) \/ TurnEnds(c)
  PROVE  Inv'
  <1>1. Call(c) \in Threads /\ threads \in [Threads -> Thread] /\ threads[Call(c)] \in Thread
        /\ {"returned", "sending", "running"} \subseteq PCs
    BY StartsAreThreads DEF Inv, Typed, ThreadsTyped, PCs
  <1>2. {"opened", "sending", "running", "returned"} \cap GatePCs = {}
    BY DEF GatePCs
  <1>3. threads[Call(c)].pc \in {"opened", "sending", "running"}
    BY DEF Admit, PromptAccepted, PromptFailed, TurnEnds, At
  <1>4. marker' \in BOOLEAN /\ running' \in BOOLEAN
    BY DEF Admit, PromptAccepted, PromptFailed, TurnEnds, turnVars, Inv, Typed, ServiceTyped
  <1>5. UNCHANGED <<runtimeVars, connectionVars, config, phase, startTask, gate, baselines>>
    BY DEF Admit, PromptAccepted, PromptFailed, TurnEnds
  <1>6. ASSUME NEW to \in {"returned", "running"}, threads' = Goes(threads, Call(c), to)
        PROVE  Inv'
    <2>1. ThreadsTyped' /\ threads'[Call(c)].pc = to
          /\ \A u \in Threads \ {Call(c)} : threads'[u] = threads[u]
      BY <1>1, <1>6, GoesTyped DEF ThreadsTyped
    <2> QED
      BY <1>2, <1>3, <1>4, <1>5, <2>1, CallMoves
  <1>7. CASE threads' = [threads EXCEPT ![Call(c)].pc = "sending", ![Call(c)].on = client]
    <2>1. client \in Threads \cup {NoOne}
      BY StartsAreThreads DEF Inv, Typed, ServiceTyped
    <2>2. ThreadsTyped' /\ threads'[Call(c)].pc = "sending"
          /\ \A u \in Threads \ {Call(c)} : threads'[u] = threads[u]
      BY <1>1, <1>7, <2>1 DEF ThreadsTyped, Thread
    <2> QED
      BY <1>2, <1>3, <1>4, <1>5, <2>2, CallMoves
  <1> QED
    BY <1>6, <1>7 DEF Admit, PromptAccepted, PromptFailed, TurnEnds

(* A mutation that took the gate, or held it, goes on alone.                *)
LEMMA HolderGoesOn ==
  ASSUME Inv, NEW c \in Calls, gate \in {NoOne, Call(c)}, gate' = Call(c), startTask' = startTask,
         threads[Call(c)].pc \notin {"baseline"}, threads'[Call(c)].pc \in GatePCs,
         \A t \in Threads \ {Call(c)} : threads'[t] = threads[t],
         Typed', BootInv', Connection, Lasting, WaitOK(Call(c))'
  PROVE  Inv'
  <1>1. Call(c) \in Threads \ Starts /\ Call(c) # NoOne
    BY StartsAreThreads, NoOneIsNoThread
  <1>2. GateInv'
    BY <1>1, NoOneIsNoThread DEF Inv, GateInv
  <1>3. StartInv'
    BY <1>1, StartsAreThreads DEF Inv, StartInv, Typed, ServiceTyped
  <1>4. BaselineInv'
    <2> SUFFICES ASSUME NEW s \in Starts, Open(baselines'[s]), s \notin closed'
                 PROVE  client' = s /\ threads'[s].pc = "baseline"
      BY DEF BaselineInv, Open
    <2>1. Open(baselines[s]) /\ s \notin closed
      BY DEF Connection, Disconnect
    <2>2. client = s /\ threads[s].pc = "baseline"
      BY <2>1 DEF Inv, BaselineInv
    <2>3. client' = client
      BY <2>2, NoOneIsNoThread, StartsAreThreads DEF Connection, Disconnect
    <2> QED
      BY <1>1, <2>2, <2>3, StartsAreThreads
  <1>5. WaitInv'
    BY <1>1, WaitInvKept DEF Inv
  <1> QED
    BY <1>2, <1>3, <1>4, <1>5 DEF Inv

LEMMA StopHostKeeps ==
  ASSUME Inv, NEW c \in Calls, threads[Call(c)].pc # "baseline",
         gate \in {NoOne, Call(c)}, gate' = Call(c),
         StopHost(c), UNCHANGED <<turnVars, config, startTask, baselines>>
  PROVE  Inv'
  <1>1. Call(c) \in Threads /\ threads \in [Threads -> Thread]
    BY StartsAreThreads DEF Inv, Typed, ThreadsTyped
  <1>2. "stopping" \in DOMAIN AfterStop /\ {"stopping", AfterStop["stopping"]} \subseteq GatePCs
    BY DEF AfterStop, GatePCs
  <1>3. /\ Typed' /\ BootInv' /\ Connection /\ Lasting /\ WaitOK(Call(c))'
        /\ threads'[Call(c)].pc \in {"stopping", AfterStop["stopping"]}
        /\ \A t \in Threads \ {Call(c)} : threads'[t] = threads[t]
    BY <1>1, <1>2, StopKeeps DEF StopHost
  <1> QED
    BY <1>2, <1>3, HolderGoesOn

LEMMA TakeGateKeeps ==
  ASSUME Inv, NEW c \in Calls, TakeGate(c)
  PROVE  Inv'
  <1>1. Call(c) \in Threads /\ threads \in [Threads -> Thread] /\ threads[Call(c)].pc # "baseline"
    BY StartsAreThreads DEF Inv, Typed, ThreadsTyped, TakeGate, AtGate, At
  <1>2. CASE Busy
    <2>1. "idle" \in PCs /\ "idle" \in GatePCs
      BY DEF PCs, GatePCs
    <2>2. threads' = Goes(threads, Call(c), "idle") /\ UNCHANGED <<runtimeVars, connectionVars, phase>>
      BY <1>2 DEF TakeGate, TestIdle
    <2>3. ThreadsTyped' /\ threads'[Call(c)].pc = "idle"
          /\ \A t \in Threads \ {Call(c)} : threads'[t] = threads[t]
      BY <1>1, <2>1, <2>2, GoesTyped DEF ThreadsTyped
    <2>4. WaitOK(Call(c))'
      BY <2>3 DEF WaitOK, AfterStart, AfterStop
    <2>5. Typed' /\ BootInv' /\ Connection /\ Lasting
      BY <1>1, <2>2, <2>3 DEF TakeGate, Inv, Typed, RuntimeTyped, ServiceTyped, BootInv, Lasting,
         runtimeVars, connectionVars, turnVars, Connection
    <2> QED
      BY <1>1, <2>1, <2>3, <2>4, <2>5, HolderGoesOn DEF TakeGate
  <1>3. CASE ~Busy
    <2>1. StopHost(c)
      BY <1>3 DEF TakeGate, TestIdle
    <2> QED
      BY <1>1, <2>1, StopHostKeeps DEF TakeGate
  <1> QED
    BY <1>2, <1>3

LEMMA StopForMutationKeeps ==
  ASSUME Inv, NEW c \in Calls, StopForMutation(c)
  PROVE  Inv'
  <1>1. Call(c) \in Threads /\ threads[Call(c)].pc = "idle"
    BY StartsAreThreads DEF StopForMutation, At
  <1>2. gate = Call(c)
    BY <1>1 DEF Inv, GateInv, GatePCs
  <1> QED
    BY <1>1, <1>2, StopHostKeeps DEF StopForMutation

LEMMA ReleaseGateKeeps ==
  ASSUME Inv, NEW c \in Calls, ReleaseGate(c)
  PROVE  Inv'
  <1> DEFINE woken == Woken(threads, AfterGate)
  <1>1. Call(c) \in Threads \ Starts /\ "returned" \in PCs /\ threads \in [Threads -> Thread]
    BY StartsAreThreads DEF PCs, Inv, Typed, ThreadsTyped
  <1>2. woken \in [Threads -> Thread]
    BY <1>1, WokenTyped, MapsTyped
  <1>3. ThreadsTyped' /\ threads'[Call(c)].pc = "returned"
        /\ \A t \in Threads \ {Call(c)} : threads'[t] = woken[t]
    <2> HIDE DEF woken
    <2>1. threads' = Goes(woken, Call(c), "returned")
      BY DEF ReleaseGate, woken
    <2> QED
      BY <1>1, <1>2, <2>1, GoesTyped DEF ThreadsTyped
  <1>4. Typed' /\ BootInv'
    BY <1>3 DEF Inv, Typed, RuntimeTyped, ServiceTyped, BootInv, ReleaseGate, runtimeVars,
       connectionVars, turnVars
  <1>5. gate = Call(c) /\ gate' = NoOne
    BY <1>1 DEF Inv, GateInv, ReleaseGate, At, GatePCs
  <1>6. ASSUME NEW t \in Threads \ {Call(c)}
        PROVE  /\ threads'[t].pc \notin GatePCs
               /\ t \in Starts => (threads'[t].pc \in StartPCs <=> threads[t].pc \in StartPCs)
               /\ threads[t].pc = "baseline" => threads'[t].pc = "baseline"
               /\ WaitOK(t)'
    <2>1. threads[t].pc \notin GatePCs
      BY <1>5 DEF Inv, GateInv
    <2>2. CASE threads[t].pc = "gate"
      <3>1. threads'[t].pc = "opened"
        BY <1>1, <1>3, <2>2, WokenTyped, MapsTyped, GateMap
      <3> QED
        BY <2>2, <3>1 DEF GatePCs, StartPCs, RuntimePCs, WaitOK, AfterStart, AfterStop
    <2>3. CASE threads[t].pc # "gate"
      <3>1. threads'[t] = threads[t]
        BY <1>1, <1>3, <2>3, WokenTyped, MapsTyped, GateMap
      <3>2. WaitOK(t)'
        BY <2>3, <3>1 DEF Inv, WaitInv, WaitOK, ReleaseGate, runtimeVars
      <3> QED
        BY <2>1, <3>1, <3>2
    <2> QED
      BY <2>2, <2>3
  <1>7. WaitOK(Call(c))'
    BY <1>3 DEF WaitOK, AfterStart, AfterStop
  <1>8. WaitInv'
    BY <1>6, <1>7 DEF WaitInv
  <1>9. StartInv'
    BY <1>1, <1>6, StartsAreThreads DEF Inv, StartInv, ReleaseGate, Typed, ServiceTyped
  <1>10. GateInv'
    BY <1>3, <1>5, <1>6, StartsAreThreads, NoOneIsNoThread DEF GateInv, GatePCs
  <1>11. BaselineInv'
    BY <1>1, <1>6, StartsAreThreads DEF Inv, BaselineInv, ReleaseGate, connectionVars, Open
  <1> QED
    BY <1>4, <1>8, <1>9, <1>10, <1>11 DEF Inv

-----------------------------------------------------------------------------
LEMMA StepInv == Inv /\ [Next]_vars => Inv'
  <1> SUFFICES ASSUME Inv, [Next]_vars PROVE Inv'
    OBVIOUS
  <1>1. ASSUME NEW t \in Threads, RuntimeStep(t) PROVE Inv'
    BY <1>1, EnterKeeps, EvictedKeeps, PreparedKeeps, SpawnKeeps, OpenBaselineKeeps, RefusalsKeep,
       StartFailedKeeps, StagesKeep, BaselineEndsKeep DEF RuntimeStep
  <1>2. ASSUME NEW t \in Threads, ProcessStep(t) PROVE Inv'
    BY <1>2, AnnounceKeeps, BootTimeoutKeeps, ExitKeeps DEF ProcessStep
  <1>3. ASSUME NEW c \in Calls, Make(c) PROVE Inv'
    BY <1>3, StartsKeep, CallRestartKeeps, CallPromptKeeps DEF Make
  <1>4. ASSUME NEW c \in Calls, CallStep(c) PROVE Inv'
    BY <1>4, RestartRuntimeKeeps, StartsKeep, RefusedMutationKeeps, WaitForGateKeeps, TakeGateKeeps,
       StopForMutationKeeps, ReleaseGateKeeps, TurnsKeep DEF CallStep
  <1>5. CASE StopSettles
    BY <1>5, StopSettlesKeeps
  <1>6. CASE ChangeConfiguration \/ StreamLost \/ FrameArrives \/ TurnReported
    BY <1>6, SurroundingsKeep
  <1>7. CASE UNCHANGED vars
    <2>1. Typed' /\ Connection
      BY <1>7 DEF vars, Inv, Typed, RuntimeTyped, ThreadsTyped, ServiceTyped, runtimeVars,
         connectionVars, turnVars, Connection
    <2> QED
      BY <1>7, <2>1, QuietKeeps DEF vars, runtimeVars
  <1> QED
    BY <1>1, <1>2, <1>3, <1>4, <1>5, <1>6, <1>7 DEF Next

(* The inductive invariant holds of every reachable state: who holds the    *)
(* start task and the gate, what every waiting thread waits for, and which  *)
(* baseline may still touch the connection, whatever calls cross.           *)
THEOREM Invariant == Spec => []Inv
  BY InitInv, StepInv, PTL DEF Spec

(* Every variable of the runtime and of the service holds what the program  *)
(* can put there; in particular disconnect() closes clients only.           *)
THEOREM TypeCorrect == Spec => []TypeOK
  <1>1. Inv => TypeOK
    BY TypedIsTypeOK DEF Inv
  <1> QED
    BY <1>1, Invariant, PTL

(* mutateRuntime: for any number of calls, two profile mutations never run  *)
(* at the same time, because only the holder of the gate gets past it.      *)
THEOREM MutationsExclude == Spec => []MutationsExclusive
  <1>1. Inv => MutationsExclusive
    <2> SUFFICES ASSUME Inv, NEW c \in Calls, NEW d \in Calls,
                        At(c, "mutation", "mutating"), At(d, "mutation", "mutating")
                 PROVE  c = d
      BY DEF MutationsExclusive
    <2>1. gate = Call(c) /\ gate = Call(d)
      BY StartsAreThreads DEF Inv, GateInv, At, GatePCs
    <2> QED
      BY <2>1 DEF Call
  <1> QED
    BY <1>1, Invariant, PTL

(* start, stop, spawnRuntime, mutateRuntime: whoever awaits a start, a boot, *)
(* a stop or the gate awaits one that is under way, for any number of calls *)
(* that replace each other's tasks.                                         *)
THEOREM NobodyWaitsInVain == Spec => []NoWaitInVain
  <1>1. Inv => NoWaitInVain
    BY DEF Inv, NoWaitInVain, WaitInv, WaitOK, StartInv, GateInv
  <1> QED
    BY <1>1, Invariant, PTL

(* A baseline opens streams on the connection it belongs to, and no other   *)
(* step opens any.                                                          *)
LEMMA StreamsStep ==
  ASSUME Inv, [Next]_vars, streams' # streams, streams' # NoOne
  PROVE  streams' = client'
  <1>1. ASSUME UNCHANGED connectionVars \/ UNCHANGED streams \/ Disconnect PROVE FALSE
    BY <1>1 DEF connectionVars, Disconnect
  <1>2. ASSUME NEW t \in Threads, RuntimeStep(t) PROVE streams' = client'
    <2>1. CASE StartStreams(t)
      <3>1. t \in Starts /\ Open(baselines[t]) /\ t \notin closed /\ streams' = t /\ client' = client
        BY <2>1 DEF StartStreams, BaselineAt, Answers, Open
      <3> QED
        BY <3>1 DEF Inv, BaselineInv
    <2>2. CASE Enter(t) \/ Evicted(t) \/ Prepared(t) \/ Spawn(t) \/ StartFailed(t)
      BY <1>1, <2>2 DEF Enter, Evicted, Prepared, Spawn, StartFailed
    <2>3. CASE OpenBaseline(t) \/ BootRefused(t) \/ Watchdog(t)
      BY <1>1, <2>3 DEF OpenBaseline, BootRefused, Watchdog, TearDown
    <2>4. CASE ListsAnswered(t) \/ BaselineSettled(t) \/ BaselineFailed(t)
      BY <1>1, <2>4 DEF ListsAnswered, BaselineSettled, BaselineFailed, TearDown
    <2> QED
      BY <1>2, <2>1, <2>2, <2>3, <2>4 DEF RuntimeStep
  <1>3. ASSUME NEW t \in Threads, ProcessStep(t) PROVE FALSE
    BY <1>1, <1>3 DEF ProcessStep, Announce, BootTimeout, Exit
  <1>4. ASSUME NEW c \in Calls, Make(c) PROVE FALSE
    BY <1>1, <1>4 DEF Make, CallStart, CallRestart, CallMutation, CallPrompt
  <1>5. ASSUME NEW c \in Calls, CallStep(c) PROVE FALSE
    <2>1. CASE RestartRuntime(c) \/ Reconnect(c) \/ MutationRefused(c) \/ WaitForGate(c)
               \/ MutationEnds(c) \/ ReleaseGate(c)
      BY <1>1, <2>1 DEF RestartRuntime, Reconnect, MutationRefused, WaitForGate, MutationEnds, ReleaseGate
    <2>2. CASE TakeGate(c) \/ StopForMutation(c)
      BY <1>1, <2>2 DEF TakeGate, TestIdle, StopForMutation, StopHost
    <2>3. CASE Admit(c) \/ PromptAccepted(c) \/ PromptFailed(c) \/ TurnEnds(c)
      BY <1>1, <2>3 DEF Admit, PromptAccepted, PromptFailed, TurnEnds
    <2> QED
      BY <1>5, <2>1, <2>2, <2>3 DEF CallStep
  <1>6. CASE StopSettles \/ StreamLost \/ FrameArrives \/ TurnReported \/ ChangeConfiguration
    BY <1>1, <1>6 DEF StopSettles, StreamLost, FrameArrives, TurnReported, ChangeConfiguration
  <1>7. CASE UNCHANGED vars
    BY <1>1, <1>7 DEF vars
  <1> QED
    BY <1>2, <1>3, <1>4, <1>5, <1>6, <1>7 DEF Next

(* settleBaseline and disconnect: a baseline that outlived its watchdog or  *)
(* a restart never opens the event streams of a later connection, for any   *)
(* number of starts and restarts.                                           *)
THEOREM StreamsAreCurrent == Spec => StreamsOfCurrentClient
  <1>1. Inv /\ [Next]_vars => [streams' # streams /\ streams' # NoOne => streams' = client']_vars
    BY StreamsStep
  <1> QED
    BY <1>1, Invariant, PTL DEF Spec, StreamsOfCurrentClient

-----------------------------------------------------------------------------
(* Who will still say what became of the connection.                        *)

Unsettled == {"idle", "starting"}

(* A call that has stopped the runtime, or is to start it, and has not      *)
(* reached the service's start yet.                                         *)
DuePCs == {"restarting", "restarted", "entering", "entered", "evicting", "evicted",
           "booting", "booted", "stopping", "mutating"}

(* A thread that has not started, stopped or mutated anything.              *)
Untouched(r) ==
  \/ r.pc = "unused"
  \/ r.kind = "prompt" /\ r.pc \in {"gate", "opened", "sending", "running", "returned"}

(* The call that created the start task awaits it.                          *)
OwnerWaits == startTask # NoOne => threads[Call(startTask[1])].pc \in DOMAIN AfterStart

(* As long as the phase is no outcome, a start task or a call is at work    *)
(* that will see to one; or nothing was ever asked for.                     *)
PhaseInv ==
  phase \in Unsettled =>
    \/ startTask # NoOne
    \/ \E c \in Calls : threads[Call(c)].pc \in DuePCs
    \/ \A c \in Calls : Untouched(threads[Call(c)])

OutcomeInv == OwnerWaits /\ PhaseInv

(* A step after which call c still owes what it owed, and no more.          *)
Kept(c) ==
  /\ threads[Call(c)].pc \in DOMAIN AfterStart => threads'[Call(c)].pc \in DOMAIN AfterStart
  /\ threads[Call(c)].pc \in DuePCs => threads'[Call(c)].pc \in DuePCs
  /\ Untouched(threads[Call(c)]) => Untouched(threads'[Call(c)])

LEMMA OwnerKept ==
  ASSUME Inv, OwnerWaits, startTask' = startTask,
         \A c \in Calls : threads[Call(c)].pc \in DOMAIN AfterStart
                            => threads'[Call(c)].pc \in DOMAIN AfterStart
  PROVE  OwnerWaits'
  <1> SUFFICES ASSUME startTask # NoOne
               PROVE  threads'[Call(startTask[1])].pc \in DOMAIN AfterStart
    BY DEF OwnerWaits
  <1>1. startTask[1] \in Calls
    BY DEF Inv, Typed, ServiceTyped, Starts
  <1> QED
    BY <1>1 DEF OwnerWaits

LEMMA OutcomeKept ==
  ASSUME Inv, OutcomeInv, \A c \in Calls : Kept(c), startTask' = startTask,
         phase' = phase \/ phase' \notin Unsettled \/ startTask # NoOne
  PROVE  OutcomeInv'
  <1>1. OwnerWaits'
    BY OwnerKept DEF OutcomeInv, Kept
  <1>2. PhaseInv'
    BY DEF OutcomeInv, PhaseInv, Kept
  <1> QED
    BY <1>1, <1>2 DEF OutcomeInv

(* A step of a start task, or of no thread.                                 *)
LEMMA CallsStay ==
  ASSUME Inv, OutcomeInv, \A c \in Calls : threads'[Call(c)] = threads[Call(c)],
         startTask' = startTask,
         phase' = phase \/ phase' \notin Unsettled \/ startTask # NoOne
  PROVE  OutcomeInv'
  BY OutcomeKept DEF Kept

(* A step of thread t, which keeps what it owes if it is a call.            *)
LEMMA ThreadMoves ==
  ASSUME Inv, OutcomeInv, NEW t \in Threads,
         \A u \in Threads \ {t} : threads'[u] = threads[u],
         \A c \in Calls : t = Call(c) => Kept(c),
         startTask' = startTask,
         phase' = phase \/ phase' \notin Unsettled \/ startTask # NoOne
  PROVE  OutcomeInv'
  <1>1. ASSUME NEW c \in Calls PROVE Kept(c)
    <2>1. CASE t # Call(c)
      BY <2>1, StartsAreThreads DEF Kept
    <2> QED
      BY <2>1
  <1> QED
    BY <1>1, OutcomeKept

LEMMA StartDomain == DOMAIN AfterStart = {"starting", "reconnecting"}
  BY DEF AfterStart

(* start() of the runtime, on behalf of a restart or of a start task.       *)
LEMMA RuntimeStartsKeepOutcome ==
  ASSUME Inv, OutcomeInv, NEW t \in Threads,
         Enter(t) \/ Evicted(t) \/ (\E c \in Calls : t = Call(c) /\ RestartRuntime(c))
  PROVE  OutcomeInv'
  <1>1. threads[t].pc \in {"entered", "evicted", "restarted"} /\ UNCHANGED <<phase, startTask>>
    BY DEF Enter, Evicted, RestartRuntime, At
  <1>2. threads[t].config \in 0..MaxChanges
    BY DEF Inv, Typed, ThreadsTyped, Thread
  <1>3. GoneToRuntime(t, threads)
    BY <1>2, JoinGoes, BootGoes, StartGoes
       DEF Inv, Typed, ThreadsTyped, ServiceTyped, Enter, Evicted, RestartRuntime
  <1>4. ASSUME NEW c \in Calls, t = Call(c) PROVE Kept(c)
    BY <1>1, <1>3, <1>4, StartDomain DEF Kept, GoneToRuntime, DuePCs, Untouched
  <1> QED
    BY <1>1, <1>3, <1>4, ThreadMoves DEF GoneToRuntime

(* The end of a boot: its callers go on, or the phase is "error".           *)
LEMMA BootEndsKeepOutcome ==
  ASSUME Inv, OutcomeInv, NEW b \in Threads, NEW pc \in {"booted", "refused"},
         SettleBoot(b, pc), (pc = "booted" /\ phase' = phase) \/ phase' \notin Unsettled,
         startTask' = startTask
  PROVE  OutcomeInv'
  <1>1. ASSUME NEW c \in Calls
        PROVE  \/ threads'[Call(c)] = threads[Call(c)]
               \/ threads[Call(c)].pc = "booting" /\ threads'[Call(c)].pc = pc
    BY StartsAreThreads DEF SettleBoot, Inv, Typed, ThreadsTyped, Thread
  <1>2. OwnerWaits'
    BY <1>1, OwnerKept, StartDomain DEF OutcomeInv
  <1>3. CASE pc = "booted" /\ phase' = phase
    <2>1. ASSUME NEW c \in Calls PROVE Kept(c)
      BY <1>1, <1>3, StartDomain DEF Kept, DuePCs, Untouched
    <2> QED
      BY <1>3, <2>1, OutcomeKept
  <1>4. CASE phase' \notin Unsettled
    BY <1>2, <1>4 DEF OutcomeInv, PhaseInv
  <1> QED
    BY <1>3, <1>4

LEMMA FailedBootKeepsOutcome ==
  ASSUME Inv, OutcomeInv, NEW b \in Threads, BootFails(b), startTask' = startTask
  PROVE  OutcomeInv'
  BY BootEndsKeepOutcome DEF BootFails, Unsettled

LEMMA ProcessesKeepOutcome ==
  ASSUME Inv, OutcomeInv, NEW b \in Threads, Prepared(b) \/ Spawn(b) \/ ProcessStep(b)
  PROVE  OutcomeInv'
  <1>1. ASSUME UNCHANGED <<threads, phase, startTask>> PROVE OutcomeInv'
    BY <1>1, CallsStay
  <1>2. CASE Prepared(b)
    BY <1>1, <1>2, FailedBootKeepsOutcome DEF Prepared
  <1>3. CASE Spawn(b)
    BY <1>1, <1>3 DEF Spawn
  <1>4. CASE Announce(b)
    BY <1>4, BootEndsKeepOutcome DEF Announce, BootSucceeds
  <1>5. CASE BootTimeout(b)
    BY <1>5, FailedBootKeepsOutcome DEF BootTimeout
  <1>6. CASE Exit(b) /\ ExitSettled(b)
    <2>1. phase' = phase \/ phase' \notin Unsettled
      BY <1>6 DEF ExitSettled, Unsettled
    <2>2. ASSUME NEW c \in Calls PROVE Kept(c)
      <3>1. \/ threads'[Call(c)] = threads[Call(c)]
            \/ /\ threads[Call(c)].pc = "running" /\ threads'[Call(c)].pc = "returned"
               /\ threads'[Call(c)].kind = threads[Call(c)].kind
        BY <1>6, StartsAreThreads DEF ExitSettled, Interrupt, Inv, Typed, ThreadsTyped, Thread
      <3> QED
        BY <3>1, StartDomain DEF Kept, DuePCs, Untouched
    <2> QED
      BY <1>6, <2>1, <2>2, OutcomeKept DEF Exit
  <1>7. CASE Exit(b) /\ ExitBooting(b)
    BY <1>1, <1>7, FailedBootKeepsOutcome DEF Exit, ExitBooting
  <1> QED
    BY <1>2, <1>3, <1>4, <1>5, <1>6, <1>7 DEF ProcessStep, Exit
(* The end of a start: an outcome, and no task any more.                    *)
LEMMA EndStartOutcome ==
  ASSUME NEW s, NEW result \in {"connected", "error"}, EndStart(s, result)
  PROVE  OutcomeInv'
  BY DEF EndStart, OutcomeInv, OwnerWaits, PhaseInv, Unsettled

(* A start that failed tears down and still owes its report.                *)
LEMMA TearDownKeepsOutcome ==
  ASSUME Inv, OutcomeInv, NEW s \in Starts, threads[s].pc \in StartPCs,
         TearDown(s, threads), startTask' = startTask
  PROVE  OutcomeInv'
  <1>1. s \in Threads /\ "teardown" \in DOMAIN AfterStop
    BY StartsAreThreads DEF AfterStop
  <1>2. \A u \in Threads \ {s} : threads'[u] = threads[u]
    BY <1>1, AwaitStopGoes DEF TearDown, Inv, Typed, ThreadsTyped
  <1>3. startTask # NoOne
    BY StartsAreThreads, NoOneIsNoThread DEF Inv, StartInv
  <1> QED
    BY <1>1, <1>2, <1>3, StartsAreThreads, ThreadMoves

LEMMA StartTasksKeepOutcome ==
  ASSUME Inv, OutcomeInv, NEW s \in Threads,
         \/ OpenBaseline(s) \/ BootRefused(s) \/ Watchdog(s) \/ StartFailed(s)
         \/ StartStreams(s) \/ ListsAnswered(s) \/ BaselineSettled(s) \/ BaselineFailed(s)
  PROVE  OutcomeInv'
  <1>1. ASSUME UNCHANGED <<threads, phase, startTask>> PROVE OutcomeInv'
    BY <1>1, CallsStay
  <1>2. CASE OpenBaseline(s)
    <2>1. threads \in [Threads -> Thread] /\ "baseline" \in PCs /\ s \in Starts
      BY <1>2 DEF Inv, Typed, ThreadsTyped, PCs, StartPCs, OpenBaseline
    <2>2. \A u \in Threads \ {s} : threads'[u] = threads[u]
      BY <1>2, <2>1, GoesTyped DEF OpenBaseline
    <2> QED
      BY <1>2, <2>1, <2>2, StartsAreThreads, ThreadMoves DEF OpenBaseline
  <1>3. CASE BootRefused(s) \/ Watchdog(s)
    BY <1>3, TearDownKeepsOutcome DEF BootRefused, Watchdog, StartPCs, RuntimePCs
  <1>4. CASE StartFailed(s)
    BY <1>4, EndStartOutcome DEF StartFailed
  <1>5. CASE StartStreams(s) \/ ListsAnswered(s)
    BY <1>1, <1>5 DEF StartStreams, ListsAnswered
  <1>6. CASE BaselineSettled(s)
    BY <1>1, <1>6, EndStartOutcome DEF BaselineSettled
  <1>7. CASE BaselineFailed(s)
    BY <1>1, <1>7, TearDownKeepsOutcome DEF BaselineFailed, BaselineAt, StartPCs
  <1> QED
    BY <1>2, <1>3, <1>4, <1>5, <1>6, <1>7

(* start() of the service: a task is under way, which the call awaits, or   *)
(* the service is connected.                                                *)
LEMMA StartServiceKeepsOutcome ==
  ASSUME Inv, OutcomeInv, NEW c \in Calls, NEW s \in {<<c, "start">>, <<c, "reconnect">>},
         NEW ts \in [Threads -> Thread], \A t \in Threads \ {Call(c)} : ts[t] = threads[t],
         NEW wait \in DOMAIN AfterStart, StartService(c, s, ts, wait),
         UNCHANGED config
  PROVE  OutcomeInv'
  <1>1. Call(c) \in Threads /\ s \in Starts /\ s \in Threads /\ Call(c) # s /\ s[1] = c
    BY StartsAreThreads DEF Starts
  <1>2. wait \in PCs
    BY DEF AfterStart, PCs, GatePCs
  <1>3. CASE startTask # NoOne
    <2>1. threads' = Goes(ts, Call(c), wait) /\ UNCHANGED <<phase, startTask>>
      BY <1>3 DEF StartService
    <2>2. threads'[Call(c)].pc = wait /\ \A t \in Threads \ {Call(c)} : threads'[t] = threads[t]
      BY <1>1, <1>2, <2>1, GoesTyped
    <2>3. OwnerWaits'
      BY <2>1, <2>2, OwnerKept, StartsAreThreads DEF OutcomeInv
    <2> QED
      BY <1>3, <2>1, <2>3 DEF OutcomeInv, PhaseInv
  <1>4. CASE startTask = NoOne /\ Connected
    BY <1>4 DEF StartService, Connected, OutcomeInv, OwnerWaits, PhaseInv, Unsettled
  <1>5. CASE startTask = NoOne /\ ~Connected
    <2> DEFINE us == [Goes(ts, Call(c), wait) EXCEPT ![s].kind = "start"]
    <2>1. us \in [Threads -> Thread] /\ us[Call(c)].pc = wait
      <3>1. Goes(ts, Call(c), wait) \in [Threads -> Thread] /\ Goes(ts, Call(c), wait)[Call(c)].pc = wait
        BY <1>1, <1>2, GoesTyped
      <3> QED
        BY <1>1, <3>1 DEF Thread
    <2>2. startTask' = s /\ StartRuntime(s, us)
      BY <1>5 DEF StartService
    <2> HIDE DEF us
    <2>3. GoneToRuntime(s, us)
      BY <1>1, <2>1, <2>2, StartGoes DEF Inv, Typed, ServiceTyped
    <2>4. threads'[Call(c)].pc = wait
      BY <1>1, <2>1, <2>3 DEF GoneToRuntime
    <2>5. s # NoOne
      BY <1>1, NoOneIsNoThread
    <2> QED
      BY <1>1, <2>2, <2>4, <2>5 DEF OutcomeInv, OwnerWaits, PhaseInv
  <1> QED
    BY <1>3, <1>4, <1>5

LEMMA StartsKeepOutcome ==
  ASSUME Inv, OutcomeInv, NEW c \in Calls,
         CallStart(c) \/ Reconnect(c) \/ CallMutation(c) \/ MutationEnds(c)
  PROVE  OutcomeInv'
  <1>1. {"start", "mutation"} \subseteq CallKinds /\ threads \in [Threads -> Thread]
        /\ {"starting", "reconnecting"} \subseteq DOMAIN AfterStart
    BY DEF CallKinds, Inv, Typed, ThreadsTyped, AfterStart
  <1>2. CASE CallStart(c)
    BY <1>1, <1>2, MadeTyped, StartServiceKeepsOutcome DEF CallStart
  <1>3. CASE Reconnect(c)
    BY <1>1, <1>3, StartServiceKeepsOutcome DEF Reconnect
  <1>4. CASE CallMutation(c)
    BY <1>1, <1>4, MadeTyped, StartServiceKeepsOutcome DEF CallMutation
  <1>5. CASE MutationEnds(c)
    BY <1>1, <1>5, StartServiceKeepsOutcome DEF MutationEnds
  <1> QED
    BY <1>2, <1>3, <1>4, <1>5

(* A restart or a mutation that stops the runtime goes on from there.       *)
LEMMA StopKeepsOutcome ==
  ASSUME Inv, OutcomeInv, NEW c \in Calls, NEW ts \in [Threads -> Thread],
         NEW pc \in {"restarting", "stopping"},
         \A t \in Threads \ {Call(c)} : ts[t] = threads[t],
         threads[Call(c)].pc \notin DOMAIN AfterStart,
         StopRuntime, threads' = AwaitStop(ts, Call(c), pc), startTask' = startTask
  PROVE  OutcomeInv'
  <1>1. Call(c) \in Threads /\ pc \in DOMAIN AfterStop /\ {pc, AfterStop[pc]} \subseteq DuePCs
    BY StartsAreThreads DEF AfterStop, DuePCs
  <1>2. threads'[Call(c)].pc \in DuePCs /\ \A t \in Threads \ {Call(c)} : threads'[t] = threads[t]
    BY <1>1, AwaitStopGoes DEF Inv, Typed
  <1>3. OwnerWaits'
    <2>1. ASSUME NEW d \in Calls, threads[Call(d)].pc \in DOMAIN AfterStart
          PROVE  threads'[Call(d)].pc \in DOMAIN AfterStart
      <3>1. Call(d) \in Threads \ {Call(c)}
        BY <2>1, StartsAreThreads
      <3> QED
        BY <1>2, <2>1, <3>1
    <2> QED
      BY <2>1, OwnerKept DEF OutcomeInv
  <1> QED
    BY <1>2, <1>3 DEF OutcomeInv, PhaseInv

(* A call moves on without having owed anything.                            *)
LEMMA CallMovesOutcome ==
  ASSUME Inv, OutcomeInv, NEW c \in Calls, NEW to \in PCs,
         threads'[Call(c)].pc = to, threads'[Call(c)].kind = threads[Call(c)].kind,
         \A u \in Threads \ {Call(c)} : threads'[u] = threads[u],
         threads[Call(c)].pc \notin DOMAIN AfterStart \cup DuePCs,
         Untouched(threads[Call(c)]) => Untouched(threads'[Call(c)]),
         UNCHANGED <<phase, startTask>>
  PROVE  OutcomeInv'
  <1>1. ASSUME NEW d \in Calls, Call(c) = Call(d) PROVE Kept(d)
    BY <1>1 DEF Kept
  <1> QED
    BY <1>1, ThreadMoves, StartsAreThreads

(* One call's record when it goes somewhere.                                *)
LEMMA GoesKind ==
  ASSUME NEW ts \in [Threads -> Thread], NEW t \in Threads, NEW pc \in PCs
  PROVE  Goes(ts, t, pc)[t].kind = ts[t].kind
  BY DEF Goes, Thread

LEMMA MutationsKeepOutcome ==
  ASSUME Inv, OutcomeInv, NEW c \in Calls,
         \/ CallRestart(c) \/ MutationRefused(c) \/ WaitForGate(c)
         \/ TakeGate(c) \/ StopForMutation(c)
  PROVE  OutcomeInv'
  <1>1. Call(c) \in Threads /\ threads \in [Threads -> Thread] /\ "restart" \in CallKinds
    BY StartsAreThreads DEF Inv, Typed, ThreadsTyped, CallKinds
  <1>2. {"returned", "gate", "idle"} \subseteq PCs
    BY DEF PCs, GatePCs
  <1>3. CASE CallRestart(c)
    <2>1. threads[Call(c)].pc \notin DOMAIN AfterStart
      BY <1>3, StartDomain DEF CallRestart, Unused
    <2> QED
      BY <1>1, <1>3, <2>1, MadeTyped, StopKeepsOutcome DEF CallRestart
  <1>4. CASE StopForMutation(c) \/ (TakeGate(c) /\ ~Busy)
    <2>1. StopHost(c) /\ startTask' = startTask
      BY <1>4 DEF StopForMutation, TakeGate, TestIdle
    <2>2. threads[Call(c)].pc \notin DOMAIN AfterStart
      BY <1>4, StartDomain DEF StopForMutation, TakeGate, AtGate, At
    <2> QED
      BY <1>1, <2>1, <2>2, StopKeepsOutcome DEF StopHost
  <1>5. ASSUME NEW to \in {"returned", "gate", "idle"}, threads' = Goes(threads, Call(c), to),
               threads[Call(c)].kind = "mutation", threads[Call(c)].pc \in {"started", "opened"},
               UNCHANGED <<phase, startTask>>
        PROVE  OutcomeInv'
    <2>1. /\ threads'[Call(c)].pc = to /\ threads'[Call(c)].kind = threads[Call(c)].kind
          /\ \A u \in Threads \ {Call(c)} : threads'[u] = threads[u]
      BY <1>1, <1>2, <1>5, GoesTyped, GoesKind
    <2>2. threads[Call(c)].pc \notin DOMAIN AfterStart \cup DuePCs /\ ~Untouched(threads[Call(c)])
      BY <1>5, StartDomain DEF DuePCs, Untouched
    <2> QED
      BY <1>2, <1>5, <2>1, <2>2, CallMovesOutcome
  <1>6. CASE MutationRefused(c)
    BY <1>5, <1>6 DEF MutationRefused, At
  <1>7. CASE WaitForGate(c)
    BY <1>5, <1>7 DEF WaitForGate, AtGate, At
  <1>8. CASE TakeGate(c) /\ Busy
    BY <1>5, <1>8 DEF TakeGate, TestIdle, AtGate, At
  <1> QED
    BY <1>3, <1>4, <1>6, <1>7, <1>8

LEMMA ReleaseKeepsOutcome ==
  ASSUME Inv, OutcomeInv, NEW c \in Calls, ReleaseGate(c)
  PROVE  OutcomeInv'
  <1>1. Call(c) \in Threads /\ threads \in [Threads -> Thread] /\ "returned" \in PCs
    BY StartsAreThreads DEF Inv, Typed, ThreadsTyped, PCs
  <1> DEFINE ts == Woken(threads, AfterGate)
  <1>2. ts \in [Threads -> Thread]
    BY <1>1, WokenTyped, MapsTyped
  <1>3. ASSUME NEW t \in Threads
        PROVE  \/ ts[t] = threads[t]
               \/ /\ threads[t].pc = "gate" /\ ts[t].pc = "opened"
                  /\ ts[t].kind = threads[t].kind
    <2>1. threads[t] \in Thread
      BY <1>1
    <2>2. CASE threads[t].pc = "gate"
      <3>1. ts[t] = [threads[t] EXCEPT !.pc = AfterGate[threads[t].pc]]
        BY <2>2, GateMap DEF Woken
      <3>2. ts[t] = [threads[t] EXCEPT !.pc = "opened"]
        BY <2>2, <3>1, GateMap
      <3> HIDE DEF ts
      <3> QED
        BY <2>1, <2>2, <3>2 DEF Thread
    <2>3. CASE threads[t].pc # "gate"
      BY <2>3, GateMap DEF Woken
    <2> QED
      BY <2>2, <2>3
  <1>4. threads' = Goes(ts, Call(c), "returned")
    BY DEF ReleaseGate
  <1> HIDE DEF ts
  <1>5. \A u \in Threads \ {Call(c)} : threads'[u] = ts[u]
    BY <1>1, <1>2, <1>4, GoesTyped
  <1>6. ASSUME NEW d \in Calls PROVE Kept(d)
    <2>1. CASE d = c
      BY <2>1, StartDomain DEF ReleaseGate, At, Kept, DuePCs, Untouched
    <2>2. CASE d # c
      <3>1. Call(d) \in Threads \ {Call(c)}
        BY <2>2, StartsAreThreads DEF Call
      <3> QED
        BY <1>3, <1>5, <3>1, StartDomain DEF Kept, DuePCs, Untouched
    <2> QED
      BY <2>1, <2>2
  <1> QED
    BY <1>6, OutcomeKept DEF ReleaseGate

LEMMA PromptsKeepOutcome ==
  ASSUME Inv, OutcomeInv, NEW c \in Calls,
         CallPrompt(c) \/ Admit(c) \/ PromptAccepted(c) \/ PromptFailed(c) \/ TurnEnds(c)
  PROVE  OutcomeInv'
  <1>1. Call(c) \in Threads /\ threads \in [Threads -> Thread] /\ "prompt" \in CallKinds
    BY StartsAreThreads DEF Inv, Typed, ThreadsTyped, CallKinds
  <1>2. {"gate", "opened", "sending", "running", "returned"} \subseteq PCs
    BY DEF PCs
  <1>3. /\ threads'[Call(c)].kind = "prompt"
        /\ threads'[Call(c)].pc \in {"gate", "opened", "sending", "running", "returned"}
        /\ threads[Call(c)].pc \in {"unused", "opened", "sending", "running"}
        /\ \A u \in Threads \ {Call(c)} : threads'[u] = threads[u]
    <2>1. CASE CallPrompt(c)
      <3>1. Made(c, "prompt") \in [Threads -> Thread] /\ Made(c, "prompt")[Call(c)].kind = "prompt"
            /\ \A u \in Threads \ {Call(c)} : Made(c, "prompt")[u] = threads[u]
        BY <1>1, MadeTyped DEF Made, Thread
      <3> QED
        BY <1>1, <1>2, <2>1, <3>1, GoesTyped, GoesKind DEF CallPrompt, Unused
    <2>2. CASE Admit(c)
      <3>1. CASE threads' = [threads EXCEPT ![Call(c)].pc = "sending", ![Call(c)].on = client]
        BY <1>1, <2>2, <3>1 DEF Admit, At, Thread
      <3>2. CASE threads' = Goes(threads, Call(c), "returned")
        BY <1>1, <1>2, <2>2, <3>2, GoesTyped, GoesKind DEF Admit, At
      <3> QED
        BY <2>2, <3>1, <3>2 DEF Admit
    <2>3. CASE PromptAccepted(c) \/ PromptFailed(c) \/ TurnEnds(c)
      BY <1>1, <1>2, <2>3, GoesTyped, GoesKind DEF PromptAccepted, PromptFailed, TurnEnds, At
    <2> QED
      BY <2>1, <2>2, <2>3
  <1>4. UNCHANGED <<phase, startTask>>
    BY DEF CallPrompt, Admit, PromptAccepted, PromptFailed, TurnEnds
  <1>5. ASSUME NEW d \in Calls, Call(c) = Call(d) PROVE Kept(d)
    BY <1>3, <1>5, StartDomain DEF Kept, DuePCs, Untouched
  <1> QED
    BY <1>1, <1>3, <1>4, <1>5, ThreadMoves

LEMMA SurroundingsKeepOutcome ==
  ASSUME Inv, OutcomeInv,
         StopSettles \/ ChangeConfiguration \/ StreamLost \/ FrameArrives \/ TurnReported
  PROVE  OutcomeInv'
  <1>1. CASE StopSettles
    <2>1. ASSUME NEW c \in Calls
          PROVE  \/ threads'[Call(c)] = threads[Call(c)]
                 \/ /\ threads[Call(c)].pc \in DOMAIN AfterStop
                    /\ threads'[Call(c)].pc = AfterStop[threads[Call(c)].pc]
      BY <1>1, WokenTyped, MapsTyped, StartsAreThreads DEF StopSettles, Inv, Typed, ThreadsTyped
    <2>2. ASSUME NEW pc \in DOMAIN AfterStop
          PROVE  /\ pc \notin DOMAIN AfterStart
                 /\ pc \in DuePCs => AfterStop[pc] \in DuePCs
                 /\ pc \notin {"unused", "gate", "opened", "sending", "running", "returned"}
      BY <2>2 DEF AfterStop, AfterStart, DuePCs
    <2>3. ASSUME NEW c \in Calls PROVE Kept(c)
      BY <2>1, <2>2 DEF Kept, Untouched
    <2> QED
      BY <1>1, <2>3, OutcomeKept DEF StopSettles
  <1>2. CASE ChangeConfiguration \/ StreamLost \/ FrameArrives \/ TurnReported
    BY <1>2, CallsStay DEF ChangeConfiguration, StreamLost, FrameArrives, TurnReported, Unsettled
  <1> QED
    BY <1>1, <1>2

LEMMA OutcomeStep == Inv /\ OutcomeInv /\ [Next]_vars => OutcomeInv'
  <1> SUFFICES ASSUME Inv, OutcomeInv, [Next]_vars PROVE OutcomeInv'
    OBVIOUS
  <1>1. ASSUME NEW t \in Threads, RuntimeStep(t) PROVE OutcomeInv'
    BY <1>1, RuntimeStartsKeepOutcome, ProcessesKeepOutcome, StartTasksKeepOutcome DEF RuntimeStep
  <1>2. ASSUME NEW t \in Threads, ProcessStep(t) PROVE OutcomeInv'
    BY <1>2, ProcessesKeepOutcome
  <1>3. ASSUME NEW c \in Calls, Make(c) PROVE OutcomeInv'
    BY <1>3, StartsKeepOutcome, MutationsKeepOutcome, PromptsKeepOutcome DEF Make
  <1>4. ASSUME NEW c \in Calls, CallStep(c) PROVE OutcomeInv'
    <2>1. Call(c) \in Threads
      BY StartsAreThreads
    <2> QED
      BY <1>4, <2>1, RuntimeStartsKeepOutcome, StartsKeepOutcome, MutationsKeepOutcome,
         ReleaseKeepsOutcome, PromptsKeepOutcome DEF CallStep
  <1>5. CASE StopSettles \/ ChangeConfiguration \/ StreamLost \/ FrameArrives \/ TurnReported
    BY <1>5, SurroundingsKeepOutcome
  <1>6. CASE UNCHANGED vars
    BY <1>6, CallsStay DEF vars
  <1> QED
    BY <1>1, <1>2, <1>3, <1>4, <1>5, <1>6 DEF Next

(* start, restart, mutateRuntime: for any number of calls that cross each   *)
(* other, once all have returned the workbench shows an outcome. Whoever    *)
(* puts the phase back to "idle" or "starting" is still at work, or has     *)
(* handed over to a start task whose call waits for it.                     *)
THEOREM OutcomeIsShown == Spec => []SettledPhase
  <1>1. Init => OutcomeInv
    BY StartsAreThreads DEF Init, OutcomeInv, OwnerWaits, PhaseInv, Untouched
  <1>2. ASSUME Inv, OutcomeInv, AtRest, phase \in Unsettled,
               NEW c \in Calls, Returned(c), threads[Call(c)].kind # "prompt"
        PROVE  FALSE
    <2>1. ASSUME NEW d \in Calls
          PROVE  threads[Call(d)].pc \notin DOMAIN AfterStart \cup DuePCs
      BY <1>2, StartDomain DEF AtRest, Returned, At, DuePCs
    <2>2. startTask = NoOne
      BY <1>2, <2>1 DEF OutcomeInv, OwnerWaits, Inv, Typed, ServiceTyped, Starts
    <2>3. ~Untouched(threads[Call(c)])
      BY <1>2 DEF Untouched, Returned, At
    <2> QED
      BY <1>2, <2>1, <2>2, <2>3 DEF OutcomeInv, PhaseInv
  <1>3. Inv /\ OutcomeInv => SettledPhase
    <2>1. ASSUME Inv, phase \notin Unsettled PROVE phase \in {"connected", "reconnecting", "error"}
      BY <2>1 DEF Inv, Typed, ServiceTyped, Phases, Unsettled
    <2> QED
      BY <1>2, <2>1 DEF SettledPhase, Inv, Typed, ServiceTyped
  <1> QED
    BY <1>1, <1>3, InitInv, StepInv, OutcomeStep, PTL DEF Spec
=============================================================================
