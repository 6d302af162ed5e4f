-------------------------- MODULE RuntimeLifecycle --------------------------
(***************************************************************************)
(* Starting, stopping and replacing the gateway process.  HarnessHost-     *)
(* Runtime owns the process: start, stop, spawnRuntime and spawnGateway.    *)
(* HarnessGatewayService owns the connection: start, settleBaseline and its *)
(* watchdog, restart, disconnect, mutateRuntime and the gate prompts wait   *)
(* at.  View messages, restarts, profile mutations and prompts call them in *)
(* any order.                                                              *)
(*                                                                         *)
(* One thread, interleaved at awaits.  A thread of the model is a call or a *)
(* start task that a call created, of which a mutation may create a second  *)
(* one; it boots at most one gateway, so it also names the boot, its        *)
(* process and, for a start task, the client.                              *)
(***************************************************************************)
EXTENDS Naturals, FiniteSets

CONSTANTS
  Calls,         \* calls made from outside, each once
  Kinds,         \* the kinds of calls made
  NoOne,         \* an undefined task, process, client or gate
  Recoveries,    \* boot failures spawnRuntime repairs and retries, each once
  MaxChanges     \* bound: changes of the runtime's configuration

CallKinds == {"start", "restart", "mutation", "prompt"}

ASSUME LifecycleAssumption ==
  /\ Kinds \subseteq CallKinds
  /\ NoOne \notin Calls \X {"call", "start", "reconnect"}
  /\ MaxChanges \in Nat

VARIABLES
  \* HarnessHostRuntime
  state,       \* stateValue: its phase, and the boot whose url it holds
  child,       \* child
  identity,    \* identity: the configuration it stands for, MaxChanges + 1 if undefined
  bootTask,    \* startTask: a boot
  stopTask,    \* stopTask: the process whose exit it awaits
  preparation, \* preparationAbort: the boot it aborts
  boots,       \* the spawnRuntime calls
  procs,       \* the processes they spawned
  config,      \* the configuration in force, by number
  \* HarnessGatewayService
  phase,       \* phase
  client,      \* client: the start task that created it
  closed,      \* clients whose requests were aborted
  streams,     \* streamAbort: the start task whose baseline opened the streams
  startTask,   \* startTask
  gate,        \* runtimeMutationTask: the mutation that holds it
  baselines,   \* the settleBaseline calls, by start task
  marker,      \* pendingQueue.admitted of the active session
  running,     \* summary.running of the active session
  threads      \* progress of the calls and of the start tasks

runtimeVars == <<state, child, identity, bootTask, stopTask,
                 preparation, boots, procs>>
connectionVars == <<client, closed, streams>>
turnVars == <<marker, running>>
vars == <<runtimeVars, connectionVars, turnVars, config, phase, startTask,
          gate, baselines, threads>>

Threads == Calls \X {"call", "start", "reconnect"}
Call(c) == <<c, "call">>
Starts == Calls \X {"start", "reconnect"}
NoIdentity == MaxChanges + 1

(* An await and where its thread goes on once it is settled.                *)
AfterStop == [entering |-> "entered", evicting |-> "evicted",
              restarting |-> "restarted", stopping |-> "mutating",
              teardown |-> "tornDown"]
AfterStart == [starting |-> "started", reconnecting |-> "reconnected"]
AfterGate == [gate |-> "opened"]

Woken(ts, after) ==
  [t \in Threads |-> IF ts[t].pc \in DOMAIN after
                     THEN [ts[t] EXCEPT !.pc = after[@]] ELSE ts[t]]

State(p) == [phase |-> p, url |-> NoOne]

Goes(ts, t, pc) == [ts EXCEPT ![t].pc = pc]

-----------------------------------------------------------------------------
Init ==
  /\ state = State("idle") /\ child = NoOne
  /\ identity = NoIdentity /\ bootTask = NoOne /\ preparation = NoOne
  /\ stopTask = NoOne
  /\ boots = [t \in Threads |-> [phase |-> "none", aborted |-> FALSE, left |-> Recoveries]]
  /\ procs = [t \in Threads |-> "none"]
  /\ config = 0
  /\ phase = "idle" /\ client = NoOne /\ closed = {} /\ streams = NoOne
  /\ startTask = NoOne /\ gate = NoOne
  /\ baselines = [t \in Threads |-> "none"]
  /\ marker = FALSE /\ running = FALSE
  /\ threads = [t \in Threads |-> [kind |-> "none", pc |-> "unused", on |-> NoOne, config |-> 0]]

-----------------------------------------------------------------------------
(* The runtime: stop.                                                       *)

(* stop(): joins a stop under way, otherwise performStop up to its await.   *)
StopRuntime ==
  IF stopTask # NoOne THEN UNCHANGED runtimeVars
  ELSE /\ boots' = [t \in Threads |-> IF t = preparation
                                      THEN [boots[t] EXCEPT !.aborted = TRUE] ELSE boots[t]]
       /\ preparation' = NoOne /\ child' = NoOne /\ identity' = NoIdentity
       /\ procs' = [t \in Threads |-> IF t = child /\ procs[t] # "dead"
                                      THEN "dying" ELSE procs[t]]
       /\ state' = State(IF child = NoOne THEN "idle" ELSE "stopping")
       /\ stopTask' = child
       /\ UNCHANGED bootTask

(* Thread t awaits that stop; without a child there is nothing to wait for. *)
AwaitStop(ts, t, pc) ==
  Goes(ts, t, IF stopTask = NoOne /\ child = NoOne THEN AfterStop[pc] ELSE pc)

(* The child exited, or five seconds passed and it was sent SIGKILL.        *)
StopSettles ==
  /\ stopTask # NoOne
  /\ stopTask' = NoOne
  /\ state' = State("idle")
  /\ threads' = Woken(threads, AfterStop)
  /\ UNCHANGED <<child, identity, bootTask, preparation, boots, procs,
                 connectionVars, turnVars, config, phase, startTask, gate, baselines>>

-----------------------------------------------------------------------------
(* The runtime: start.                                                      *)

(* A new spawnRuntime, for the configuration start() read.                  *)
Boot(t, ts, wanted) ==
  /\ identity' = wanted /\ state' = State("starting")
  /\ bootTask' = t /\ preparation' = t
  /\ boots' = [boots EXCEPT ![t].phase = "preparing"]
  /\ threads' = [ts EXCEPT ![t].pc = "booting", ![t].on = t, ![t].config = 0]
  /\ UNCHANGED <<child, stopTask, procs>>

(* start() past the await of a stop.                                        *)
JoinOrBoot(t, ts) ==
  CASE state.phase = "ready" /\ identity = config ->
         /\ threads' = [ts EXCEPT ![t].pc = "booted", ![t].on = state.url]
         /\ UNCHANGED runtimeVars
    [] state.phase # "ready" /\ bootTask # NoOne /\ identity = config ->
         /\ threads' = [ts EXCEPT ![t].pc = "booting", ![t].on = bootTask]
         /\ UNCHANGED runtimeVars
    [] OTHER ->
         IF child # NoOne
         THEN StopRuntime /\ threads' = [ts EXCEPT ![t].pc = "evicting", ![t].config = config]
         ELSE Boot(t, ts, config)

StartRuntime(t, ts) ==
  IF stopTask # NoOne
  THEN threads' = Goes(ts, t, "entering") /\ UNCHANGED runtimeVars
  ELSE JoinOrBoot(t, ts)

Enter(t) ==
  /\ threads[t].pc = "entered"
  /\ JoinOrBoot(t, threads)
  /\ UNCHANGED <<connectionVars, turnVars, config, phase, startTask, gate, baselines>>

Evicted(t) ==
  /\ threads[t].pc = "evicted"
  /\ Boot(t, threads, threads[t].config)
  /\ UNCHANGED <<connectionVars, turnVars, config, phase, startTask, gate, baselines>>

(* spawnRuntime settles: its callers go on, the tasks it owns are cleared.  *)
SettleBoot(b, pc) ==
  /\ bootTask' = IF bootTask = b THEN NoOne ELSE bootTask
  /\ preparation' = IF preparation = b THEN NoOne ELSE preparation
  /\ threads' = [t \in Threads |-> IF threads[t].pc = "booting" /\ threads[t].on = b
                                   THEN [threads[t] EXCEPT !.pc = pc] ELSE threads[t]]

Over == [phase |-> "over", aborted |-> FALSE, left |-> {}]

BootSucceeds(b) ==
  /\ boots' = [boots EXCEPT ![b] = Over]
  /\ state' = [phase |-> "ready", url |-> b]
  /\ SettleBoot(b, "booted")
  /\ UNCHANGED <<identity, stopTask, phase>>

(* Any error of the runtime is the service's error too.                     *)
BootFails(b) ==
  /\ boots' = [boots EXCEPT ![b] = Over]
  /\ state' = State("error") /\ phase' = "error"
  /\ SettleBoot(b, "refused")
  /\ UNCHANGED <<identity, stopTask>>

(* Resolving the launch command and preparing the history ends; an abort    *)
(* is noticed here, at throwIfAborted, and nowhere later.                    *)
Prepared(b) ==
  /\ boots[b].phase = "preparing"
  /\ \/ /\ ~boots[b].aborted
        /\ boots' = [boots EXCEPT ![b].phase = "writing"]
        /\ UNCHANGED <<state, identity, bootTask, stopTask, preparation, phase, threads>>
     \/ BootFails(b)
  /\ UNCHANGED <<child, procs, connectionVars, turnVars, config, startTask, gate, baselines>>

(* The overlay is written, or a recovery is done: the gateway is spawned.   *)
Spawn(b) ==
  /\ boots[b].phase \in {"writing", "repairing"}
  /\ boots' = [boots EXCEPT ![b].phase = "booting"]
  /\ procs' = [procs EXCEPT ![b] = "booting"]
  /\ child' = b
  /\ UNCHANGED <<state, identity, bootTask, stopTask, preparation,
                 connectionVars, turnVars, config, phase, startTask, gate, baselines, threads>>

(* The gateway announces its address, perhaps with its last breath.         *)
Announce(b) ==
  /\ boots[b].phase = "booting" /\ procs[b] \in {"booting", "dying"}
  /\ procs' = [procs EXCEPT ![b] = IF @ = "booting" THEN "serving" ELSE @]
  /\ BootSucceeds(b)
  /\ UNCHANGED <<child, connectionVars, turnVars, config, startTask, gate, baselines>>

(* Ninety seconds passed, or the gateway has no authentication channel: the *)
(* boot fails and the process is left to the next stop.                     *)
BootTimeout(b) ==
  /\ boots[b].phase = "booting"
  /\ BootFails(b)
  /\ UNCHANGED <<child, procs, connectionVars, turnVars, config, startTask, gate, baselines>>

(* Turns that ran on a process end with it.                                 *)
Interrupt(b, ts) ==
  [t \in Threads |-> IF ts[t].pc = "running" /\ ts[ts[t].on].on = b
                     THEN [ts[t] EXCEPT !.pc = "returned"] ELSE ts[t]]

(* The exit of a gateway that had announced itself or failed its boot.      *)
ExitSettled(b) ==
  /\ boots[b] = Over
  /\ IF state.phase \in {"stopping", "idle"} THEN UNCHANGED <<state, phase>>
     ELSE state' = State("error") /\ phase' = "error"
  /\ threads' = Interrupt(b, threads)
  /\ UNCHANGED <<identity, bootTask, stopTask, preparation, boots>>

(* The exit of a gateway that is booting: repaired once per recovery unless  *)
(* it was killed, otherwise an error.                                       *)
ExitBooting(b) ==
  /\ boots[b].phase = "booting"
  /\ \/ /\ procs[b] = "booting"
        /\ \E r \in boots[b].left :
             boots' = [boots EXCEPT ![b].phase = "repairing", ![b].left = @ \ {r}]
        /\ UNCHANGED <<state, identity, bootTask, stopTask, preparation, phase, threads>>
     \/ BootFails(b)

Exit(b) ==
  /\ procs[b] \in {"booting", "serving", "dying"}
  /\ procs' = [procs EXCEPT ![b] = "dead"]
  /\ child' = IF child = b THEN NoOne ELSE child
  /\ ExitSettled(b) \/ ExitBooting(b)
  /\ UNCHANGED <<connectionVars, turnVars, config, startTask, gate, baselines>>

ChangeConfiguration ==
  /\ config < MaxChanges
  /\ config' = config + 1
  /\ UNCHANGED <<runtimeVars, connectionVars, turnVars, phase, startTask, gate,
                 baselines, threads>>

-----------------------------------------------------------------------------
(* The connection.                                                          *)

(* Mutants of Disconnect: requests are not aborted; no check for a client.  *)
DisconnectKeepingRequests ==
  client' = NoOne /\ streams' = NoOne /\ UNCHANGED closed

DisconnectUnchecked ==
  closed' = closed \cup {client} /\ client' = NoOne /\ streams' = NoOne

(* disconnect(): requests under way are aborted, the streams end.           *)
Disconnect ==
  /\ closed' = closed \cup ({client} \ {NoOne})
  /\ client' = NoOne
  /\ streams' = NoOne

Answers(k) == k # NoOne /\ k \notin closed /\ procs[threads[k].on] = "serving"

(* Event frames reach the streams that are open.                            *)
Live == streams # NoOne /\ Answers(client)

Connected == phase = "connected" /\ client # NoOne

(* start(): joins the start task, returns at once when connected, otherwise *)
(* runs runStart up to its first await, as thread s.                        *)
StartService(c, s, ts, wait) ==
  CASE startTask # NoOne ->
         /\ threads' = Goes(ts, Call(c), wait)
         /\ UNCHANGED <<runtimeVars, phase, startTask>>
    [] startTask = NoOne /\ Connected ->
         /\ threads' = Goes(ts, Call(c), AfterStart[wait])
         /\ UNCHANGED <<runtimeVars, phase, startTask>>
    [] OTHER ->
         /\ startTask' = s
         /\ phase' = "starting"
         /\ StartRuntime(s, [Goes(ts, Call(c), wait) EXCEPT ![s].kind = "start"])

(* A failed start disconnects and stops the runtime before it reports.      *)
TearDown(s, ts) ==
  /\ Disconnect
  /\ phase' = "idle"
  /\ StopRuntime
  /\ threads' = AwaitStop(ts, s, "teardown")

(* The end of runStart: whoever awaited the task goes on.                   *)
EndStart(s, result) ==
  /\ phase' = result
  /\ startTask' = NoOne
  /\ threads' = Goes(Woken(threads, AfterStart), s, "ended")

(* The runtime is up: a new client, and settleBaseline up to its first call. *)
OpenBaseline(s) ==
  /\ s \in Starts /\ threads[s].pc = "booted"
  /\ client' = s
  /\ baselines' = [baselines EXCEPT ![s] = "settings"]
  /\ threads' = Goes(threads, s, "baseline")
  /\ UNCHANGED <<runtimeVars, closed, streams, turnVars, config, phase, startTask, gate>>

BootRefused(s) ==
  /\ s \in Starts /\ threads[s].pc = "refused"
  /\ TearDown(s, threads)
  /\ UNCHANGED <<turnVars, config, startTask, gate, baselines>>

(* The deadline of the baseline passed; settleBaseline goes on unobserved.  *)
Watchdog(s) ==
  /\ s \in Starts /\ threads[s].pc = "baseline"
  /\ TearDown(s, threads)
  /\ UNCHANGED <<turnVars, config, startTask, gate, baselines>>

(* Mutant of StartFailed: the error is not reported once the stop is done.  *)
StartFailedSilently(s) ==
  /\ s \in Starts /\ threads[s].pc = "tornDown"
  /\ EndStart(s, phase)
  /\ UNCHANGED <<runtimeVars, connectionVars, turnVars, config, gate, baselines>>

(* The stop is done: runStart reports the error.                            *)
StartFailed(s) ==
  /\ s \in Starts /\ threads[s].pc = "tornDown"
  /\ EndStart(s, "error")
  /\ UNCHANGED <<runtimeVars, connectionVars, turnVars, config, gate, baselines>>

-----------------------------------------------------------------------------
(* settleBaseline: each step is the continuation of one await.              *)

BaselineAt(s, stage) == s \in Starts /\ baselines[s] = stage

(* probe and the provider settings answered, on the client of this start.   *)
StartStreams(s) ==
  /\ BaselineAt(s, "settings") /\ Answers(s)
  /\ streams' = s
  /\ baselines' = [baselines EXCEPT ![s] = "lists"]
  /\ UNCHANGED <<runtimeVars, client, closed, turnVars, config, phase, startTask, gate, threads>>

(* The worktree records are recovered from disk, then whatever client is    *)
(* connected lists the sessions and says which of them run.                 *)
ListsAnswered(s) ==
  /\ BaselineAt(s, "lists") /\ Answers(client)
  /\ running' = \E t \in Threads : threads[t].pc = "running"
                   /\ threads[threads[t].on].on = threads[client].on
  /\ baselines' = [baselines EXCEPT ![s] = "session"]
  /\ UNCHANGED <<runtimeVars, connectionVars, marker, config, phase, startTask, gate, threads>>

(* The last session is open, or opening it failed, which is only logged.    *)
BaselineSettled(s) ==
  /\ BaselineAt(s, "session")
  /\ baselines' = [baselines EXCEPT ![s] = "over"]
  /\ IF threads[s].pc = "baseline" THEN EndStart(s, "connected")
     ELSE UNCHANGED <<phase, startTask, threads>>
  /\ UNCHANGED <<runtimeVars, connectionVars, turnVars, config, gate>>

(* A call of the baseline fails, is aborted, or finds no client.            *)
BaselineFailed(s) ==
  /\ BaselineAt(s, "settings") \/ BaselineAt(s, "lists")
  /\ baselines' = [baselines EXCEPT ![s] = "over"]
  /\ IF threads[s].pc = "baseline" THEN TearDown(s, threads)
     ELSE UNCHANGED <<runtimeVars, connectionVars, phase, threads>>
  /\ UNCHANGED <<turnVars, config, startTask, gate>>

(* waitToReconnect of a lost stream, and markConnected on a frame of one.   *)
StreamLost ==
  /\ streams # NoOne /\ phase # "reconnecting"
  /\ phase' = "reconnecting"
  /\ UNCHANGED <<runtimeVars, connectionVars, turnVars, config, startTask, gate, baselines, threads>>

FrameArrives ==
  /\ Live /\ phase \notin {"starting", "connected"}
  /\ phase' = "connected"
  /\ UNCHANGED <<runtimeVars, connectionVars, turnVars, config, startTask, gate, baselines, threads>>

-----------------------------------------------------------------------------
(* Calls to start and to restart.                                           *)

Made(c, kind) == [threads EXCEPT ![Call(c)].kind = kind]

Unused(c, kind) == kind \in Kinds /\ threads[Call(c)].pc = "unused"

At(c, kind, pc) == threads[Call(c)].kind = kind /\ threads[Call(c)].pc = pc

(* start and ensureStarted.                                                 *)
CallStart(c) ==
  /\ Unused(c, "start")
  /\ StartService(c, <<c, "start">>, Made(c, "start"), "starting")
  /\ UNCHANGED <<connectionVars, turnVars, config, gate, baselines>>

(* restart() up to the await of runtime.stop.                               *)
CallRestart(c) ==
  /\ Unused(c, "restart")
  /\ Disconnect
  /\ phase' = "idle"
  /\ StopRuntime
  /\ threads' = AwaitStop(Made(c, "restart"), Call(c), "restarting")
  /\ UNCHANGED <<turnVars, config, startTask, gate, baselines>>

RestartRuntime(c) ==
  /\ At(c, "restart", "restarted")
  /\ StartRuntime(Call(c), threads)
  /\ UNCHANGED <<connectionVars, turnVars, config, phase, startTask, gate, baselines>>

Reconnect(c) ==
  /\ At(c, "restart", "booted")
  /\ StartService(c, <<c, "start">>, threads, "starting")
  /\ UNCHANGED <<connectionVars, turnVars, config, gate, baselines>>

-----------------------------------------------------------------------------
(* Profile mutations.                                                       *)

(* The plugin center makes sure the service is started first.               *)
CallMutation(c) ==
  /\ Unused(c, "mutation")
  /\ StartService(c, <<c, "start">>, Made(c, "mutation"), "starting")
  /\ UNCHANGED <<connectionVars, turnVars, config, gate, baselines>>

(* ensureStarted throws when the start it awaited did not connect.          *)
MutationRefused(c) ==
  /\ At(c, "mutation", "started") /\ ~Connected
  /\ threads' = Goes(threads, Call(c), "returned")
  /\ UNCHANGED <<runtimeVars, connectionVars, turnVars, config, phase, startTask, gate, baselines>>

(* mutateRuntime looks at the gate, also each time it was released.         *)
AtGate(c) ==
  \/ At(c, "mutation", "started") /\ Connected
  \/ At(c, "mutation", "opened")

WaitForGate(c) ==
  /\ AtGate(c) /\ gate # NoOne
  /\ threads' = Goes(threads, Call(c), "gate")
  /\ UNCHANGED <<runtimeVars, connectionVars, turnVars, config, phase, startTask, gate, baselines>>

(* waitForRuntimeIdle's test.                                               *)
Busy == marker \/ running

(* No turn runs: disconnect, and stop up to its await.                      *)
StopHost(c) ==
  /\ Disconnect
  /\ phase' = "idle"
  /\ StopRuntime
  /\ threads' = AwaitStop(threads, Call(c), "stopping")

TestIdle(c) ==
  IF Busy THEN threads' = Goes(threads, Call(c), "idle") /\ UNCHANGED <<runtimeVars, connectionVars, phase>>
  ELSE StopHost(c)

(* Mutant of TakeGate: the gate is not reserved.                            *)
PassGate(c) ==
  /\ AtGate(c) /\ gate = NoOne
  /\ TestIdle(c)
  /\ UNCHANGED <<turnVars, config, startTask, gate, baselines>>

(* The gate is reserved before the first await.                             *)
TakeGate(c) ==
  /\ AtGate(c) /\ gate = NoOne
  /\ gate' = Call(c)
  /\ TestIdle(c)
  /\ UNCHANGED <<turnVars, config, startTask, baselines>>

(* waitForRuntimeIdle polled again and found no turn.                       *)
StopForMutation(c) ==
  /\ At(c, "mutation", "idle") /\ ~Busy
  /\ StopHost(c)
  /\ UNCHANGED <<turnVars, config, startTask, gate, baselines>>

(* The mutation succeeded or failed: the service starts again.              *)
MutationEnds(c) ==
  /\ At(c, "mutation", "mutating")
  /\ StartService(c, <<c, "reconnect">>, threads, "reconnecting")
  /\ UNCHANGED <<connectionVars, turnVars, config, gate, baselines>>

(* Mutant of ReleaseGate: only a start that succeeded releases the gate.    *)
ReleaseIfConnected(c) ==
  /\ At(c, "mutation", "reconnected") /\ Connected
  /\ gate' = NoOne
  /\ threads' = Goes(Woken(threads, AfterGate), Call(c), "returned")
  /\ UNCHANGED <<runtimeVars, connectionVars, turnVars, config, phase, startTask, baselines>>

(* Mutant of ReleaseGate: the gate is dropped, its promise never resolved.  *)
DropGate(c) ==
  /\ At(c, "mutation", "reconnected")
  /\ gate' = NoOne
  /\ threads' = Goes(threads, Call(c), "returned")
  /\ UNCHANGED <<runtimeVars, connectionVars, turnVars, config, phase, startTask, baselines>>

(* The service has started again, or failed to: the gate opens.             *)
ReleaseGate(c) ==
  /\ At(c, "mutation", "reconnected")
  /\ gate' = NoOne
  /\ threads' = Goes(Woken(threads, AfterGate), Call(c), "returned")
  /\ UNCHANGED <<runtimeVars, connectionVars, turnVars, config, phase, startTask, baselines>>

-----------------------------------------------------------------------------
(* Prompts and their turns, in the one session on screen.                   *)

CallPrompt(c) ==
  /\ Unused(c, "prompt")
  /\ threads' = Goes(Made(c, "prompt"), Call(c), IF gate = NoOne THEN "opened" ELSE "gate")
  /\ UNCHANGED <<runtimeVars, connectionVars, turnVars, config, phase, startTask, gate, baselines>>

(* Past the gate, the session and the configuration are settled; the marker  *)
(* is set and the prompt is sent, or sendPrompt throws.                      *)
Admit(c) ==
  /\ At(c, "prompt", "opened")
  /\ \/ /\ client # NoOne
        /\ marker' = TRUE
        /\ threads' = [threads EXCEPT ![Call(c)].pc = "sending", ![Call(c)].on = client]
     \/ threads' = Goes(threads, Call(c), "returned") /\ UNCHANGED marker
  /\ UNCHANGED <<runtimeVars, connectionVars, running, config, phase, startTask, gate, baselines>>

PromptAccepted(c) ==
  /\ At(c, "prompt", "sending") /\ Answers(threads[Call(c)].on)
  /\ threads' = Goes(threads, Call(c), "running")
  /\ UNCHANGED <<runtimeVars, connectionVars, turnVars, config, phase, startTask, gate, baselines>>

PromptFailed(c) ==
  /\ At(c, "prompt", "sending")
  /\ marker' = FALSE
  /\ threads' = Goes(threads, Call(c), "returned")
  /\ UNCHANGED <<runtimeVars, connectionVars, running, config, phase, startTask, gate, baselines>>

(* The status edge of a turn that runs.                                     *)
TurnReported ==
  /\ ~running /\ Live
  /\ \E c \in Calls : At(c, "prompt", "running")
  /\ running' = TRUE
  /\ UNCHANGED <<runtimeVars, connectionVars, marker, config, phase, startTask, gate, baselines, threads>>

(* A turn ends; its events are lost when no stream is open.                 *)
TurnEnds(c) ==
  /\ At(c, "prompt", "running")
  /\ threads' = Goes(threads, Call(c), "returned")
  /\ IF Live THEN marker' = FALSE /\ running' = FALSE ELSE UNCHANGED turnVars
  /\ UNCHANGED <<runtimeVars, connectionVars, config, phase, startTask, gate, baselines>>

-----------------------------------------------------------------------------
RuntimeStep(t) ==
  \/ Enter(t) \/ Evicted(t) \/ Prepared(t) \/ Spawn(t)
  \/ OpenBaseline(t) \/ BootRefused(t) \/ Watchdog(t) \/ StartFailed(t)
  \/ StartStreams(t) \/ ListsAnswered(t)
  \/ BaselineSettled(t) \/ BaselineFailed(t)

ProcessStep(t) == Announce(t) \/ BootTimeout(t) \/ Exit(t)

CallStep(c) ==
  \/ RestartRuntime(c) \/ Reconnect(c)
  \/ MutationRefused(c) \/ WaitForGate(c) \/ TakeGate(c) \/ StopForMutation(c)
  \/ MutationEnds(c) \/ ReleaseGate(c)
  \/ Admit(c) \/ PromptAccepted(c) \/ PromptFailed(c) \/ TurnEnds(c)

Make(c) == CallStart(c) \/ CallRestart(c) \/ CallMutation(c) \/ CallPrompt(c)

Next ==
  \/ \E t \in Threads : RuntimeStep(t) \/ ProcessStep(t)
  \/ \E c \in Calls : Make(c) \/ CallStep(c)
  \/ StopSettles \/ StreamLost \/ FrameArrives \/ TurnReported \/ ChangeConfiguration

Spec == Init /\ [][Next]_vars

(* What the event loop and the timers owe to a thread and to its boot.      *)
Continuation(t) ==
  \/ Enter(t) \/ Evicted(t) \/ Prepared(t) \/ Spawn(t) \/ BootTimeout(t)
  \/ OpenBaseline(t) \/ BootRefused(t) \/ Watchdog(t) \/ StartFailed(t)

(* Continuations and timers run; files are prepared; mutations, admissions  *)
(* and turns end.  Nothing is assumed of the gateway's announcement, of its *)
(* answers to the baseline or of the streams.                               *)
Fairness ==
  /\ WF_vars(StopSettles)
  /\ \A c \in Calls :
       /\ WF_vars(\E t \in Threads : t[1] = c /\ Continuation(t))
       /\ WF_vars(CallStep(c))

FairSpec == Spec /\ Fairness

-----------------------------------------------------------------------------
(* Where a start task, a boot and the holder of the gate still are at work. *)
RuntimePCs == {"entering", "entered", "evicting", "evicted", "booting", "booted", "refused"}
StartPCs == RuntimePCs \cup {"baseline", "teardown", "tornDown"}
BootPhases == {"preparing", "writing", "booting", "repairing"}
GatePCs == {"idle", "stopping", "mutating", "reconnecting", "reconnected"}

Phases == {"idle", "starting", "reconnecting", "connected", "error"}
PCs == StartPCs \cup GatePCs \cup
       {"unused", "ended", "starting", "started", "restarting", "restarted", "gate",
        "opened", "sending", "running", "returned"}

Runtime == [phase : {"idle", "starting", "ready", "stopping", "error"},
            url : Threads \cup {NoOne}]
BootState == [phase : BootPhases \cup {"none", "over"}, aborted : BOOLEAN,
              left : SUBSET Recoveries]
Thread == [kind : CallKinds \cup {"none", "start"}, pc : PCs,
           on : Threads \cup {NoOne}, config : 0..MaxChanges]

(* Every variable holds what the program can put there.  In particular only *)
(* clients are ever closed: disconnect() may find none.                     *)
TypeOK ==
  /\ state \in Runtime
  /\ {child, bootTask, stopTask, preparation} \subseteq Threads \cup {NoOne}
  /\ identity \in 0..NoIdentity /\ config \in 0..MaxChanges
  /\ boots \in [Threads -> BootState]
  /\ procs \in [Threads -> {"none", "booting", "serving", "dying", "dead"}]
  /\ phase \in Phases
  /\ {client, streams, startTask} \subseteq Starts \cup {NoOne}
  /\ closed \subseteq Starts
  /\ gate \in Threads \cup {NoOne}
  /\ baselines \in [Threads -> {"none", "settings", "lists", "session", "over"}]
  /\ marker \in BOOLEAN /\ running \in BOOLEAN
  /\ threads \in [Threads -> Thread]

(* mutateRuntime: two profile mutations never run at the same time, however *)
(* many wait for the gate and whatever the starts in between do.            *)
MutationsExclusive ==
  \A c, d \in Calls : At(c, "mutation", "mutating") /\ At(d, "mutation", "mutating") => c = d

(* Whoever waits, waits for something that is still to come, and never for  *)
(* a task that was replaced, forgotten or settled: a start for its task, a  *)
(* caller of the runtime for a boot or a stop, a mutation or a prompt for   *)
(* the mutation that holds the gate.  A gate waits for a start, a start for *)
(* a boot or a stop, so nobody waits in a circle.                           *)
NoWaitInVain ==
  \A t \in Threads :
    /\ threads[t].pc \in DOMAIN AfterStart =>
         startTask # NoOne /\ threads[startTask].pc \in StartPCs
    /\ threads[t].pc = "booting" => boots[threads[t].on].phase \in BootPhases
    /\ threads[t].pc \in DOMAIN AfterStop => stopTask # NoOne
    /\ threads[t].pc = "gate" => gate # NoOne /\ threads[gate].pc \in GatePCs

(* settleBaseline and disconnect: a baseline that outlived its watchdog or  *)
(* a restart never opens the event streams on the connection that followed. *)
StreamsOfCurrentClient ==
  [][streams' # streams /\ streams' # NoOne => streams' = client']_vars

(* start and restart have nothing to do once what they awaited is settled.  *)
Returned(c) ==
  \/ At(c, "start", "started") \/ At(c, "restart", "started") \/ At(c, "restart", "refused")
  \/ threads[Call(c)].pc = "returned"

AtRest ==
  \A c \in Calls : Returned(c) \/ threads[Call(c)].pc \in {"unused", "opened", "sending", "running"}

(* start, restart, mutateRuntime: once every call has returned the user     *)
(* sees an outcome.  Tear-downs, restarts and mutations that cross each     *)
(* other never leave the workbench on "starting" or "idle".                 *)
SettledPhase ==
  AtRest /\ (\E c \in Calls : Returned(c) /\ threads[Call(c)].kind # "prompt") =>
    phase \in {"connected", "reconnecting", "error"}

(* The client believes in a turn that is neither sent nor running: its host *)
(* died, or its end came while no stream was open.                          *)
GhostTurn == Busy /\ \A c \in Calls : threads[Call(c)].pc \notin {"sending", "running"}

(* Starts, restarts, mutations and prompts wait for each other's tasks and  *)
(* for the gate, and the gateway may never answer: each of them returns all *)
(* the same, unless a ghost turn keeps waitForRuntimeIdle polling.           *)
CallsReturn ==
  \A c \in Calls : threads[Call(c)].pc # "unused" ~> Returned(c) \/ GhostTurn

(* What mutateRuntime says of itself: "Stops the Host around profile        *)
(* mutations".  start and restart do not look at the gate.                  *)
HostStopped ==
  (\E c \in Calls : At(c, "mutation", "mutating")) =>
    \A t \in Threads : procs[t] \notin {"booting", "serving"}
=============================================================================
