------------------------------ MODULE JobOutput ------------------------------
(***************************************************************************)
(* Background jobs: the roster of the active session (pumpActiveJobs) and   *)
(* the one observed output (JobOutputObserver).  The host keeps a window    *)
(* of each job's output; the client asks to go on from an offset.           *)
(* A chunk of output is its offset, so a text tells what it is made of.     *)
(***************************************************************************)
EXTENDS Naturals, Sequences, FiniteSets

CONSTANTS
  Sessions,    \* conversations
  Jobs,        \* background jobs
  SessionOf,   \* the session that runs each job
  MaxOutput,   \* bound: chunks a job writes
  Window,      \* chunks of output the host retains
  TextCap,     \* chunks the client retains (200000 characters)
  MaxUserSteps \* bound: switches, observations and losses

JobAssumption ==
  /\ SessionOf \in [Jobs -> Sessions]
  /\ MaxOutput \in Nat /\ Window \in Nat \ {0} /\ TextCap \in Nat \ {0} /\ MaxUserSteps \in Nat

VARIABLES
  active,   \* activeSessionId
  jobs,     \* jobs shown
  pump,     \* the session whose roster is pumped, None when pausing, Aborted
  roster,   \* its frames under way
  watched,  \* this.current of the observer
  output,   \* frames of the observed stream under way
  written, base, done, \* the host: output of each job, its retained part, its end
  steps

hostVars == <<written, base, done>>
vars == <<active, jobs, pump, roster, watched, output, hostVars, steps>>

None == "none"
Aborted == "aborted"
Unwatched == [job |-> None, next |-> 0, text |-> <<>>, lossy |-> FALSE, state |-> None]
Watched(j) == [Unwatched EXCEPT !.job = j, !.state = "loading"]

Running(s) == {j \in Jobs : SessionOf[j] = s /\ ~done[j]}
Init ==
  /\ active \in Sessions /\ jobs = {} /\ pump = None /\ roster = <<>>
  /\ watched = Unwatched /\ output = <<>>
  /\ written = [j \in Jobs |-> 0] /\ base = [j \in Jobs |-> 0] /\ done = [j \in Jobs |-> FALSE]
  /\ steps = 0

Counted == steps < MaxUserSteps /\ steps' = steps + 1

-----------------------------------------------------------------------------
(* The roster.                                                              *)

PumpOpens ==
  /\ pump = None
  /\ pump' = active /\ roster' = <<Running(active)>>
  /\ UNCHANGED <<active, jobs, watched, output, hostVars, steps>>

(* Mutant of RosterFrame: a frame of a stream that was left is shown.       *)
RosterFrameUnchecked ==
  /\ roster # <<>>
  /\ jobs' = Head(roster) /\ roster' = Tail(roster)
  /\ UNCHANGED <<active, pump, watched, output, hostVars, steps>>

RosterFrame ==
  /\ roster # <<>>
  /\ IF pump # Aborted /\ pump = active
     THEN jobs' = Head(roster) /\ roster' = Tail(roster) /\ UNCHANGED pump
     ELSE roster' = <<>> /\ pump' = None /\ UNCHANGED jobs
  /\ UNCHANGED <<active, watched, output, hostVars, steps>>

(* The abort ends the stream, which may break by itself too.                *)
RosterEnds ==
  /\ pump # None
  /\ IF pump = Aborted THEN UNCHANGED steps ELSE Counted
  /\ pump' = None /\ roster' = <<>>
  /\ UNCHANGED <<active, jobs, watched, output, hostVars>>

(* selectSession clears the roster and stops the observer.                  *)
SwitchSession ==
  /\ Counted
  /\ \E s \in Sessions : active' = s
  /\ pump' = IF pump = None THEN None ELSE Aborted
  /\ jobs' = {} /\ watched' = Unwatched /\ output' = <<>>
  /\ UNCHANGED <<roster, hostVars>>

-----------------------------------------------------------------------------
(* The observer.                                                            *)

FollowJob(j) ==
  /\ Counted /\ j \in jobs
  /\ watched' = Watched(j) /\ output' = <<>>
  /\ UNCHANGED <<active, jobs, pump, roster, hostVars>>

StopFollowing ==
  /\ watched # Unwatched /\ Counted
  /\ watched' = Unwatched /\ output' = <<>>
  /\ UNCHANGED <<active, jobs, pump, roster, hostVars>>

(* The offset the host opens at: what is retained, not before "from".       *)
ResumeAt(w) == IF w.next > base[w.job] THEN w.next ELSE base[w.job]

(* jobFollow: the host answers "opened", then what it retains, or that it   *)
(* does not know the job any more.                                          *)
JobFollow ==
  /\ watched.state \in {"loading", "reconnecting"} /\ output = <<>>
  /\ LET from == ResumeAt(watched)
         rest == [i \in 1..(written[watched.job] - from) |->
                    [type |-> "output", chunk |-> from + i - 1, gap |-> FALSE]]
         end == IF done[watched.job] THEN <<[type |-> "finished"]>> ELSE <<>>
     IN \/ output' = <<[type |-> "opened", from |-> from]>> \o rest \o end
        \/ done[watched.job] /\ output' = <<[type |-> "error"]>>
  /\ UNCHANGED <<active, jobs, pump, roster, watched, hostVars, steps>>

(* Mutant of Opened: what the host no longer has is not reported.           *)
OpenedSilently(w, frame) == [w EXCEPT !.next = frame.from, !.state = "streaming"]

Opened(w, frame) ==
  [w EXCEPT !.next = frame.from, !.state = "streaming", !.lossy = @ \/ frame.from > w.next]

Appended(w, frame) ==
  LET combined == Append(w.text, frame.chunk)
      cut == Len(combined) > TextCap
  IN [w EXCEPT !.next = frame.chunk + 1, !.state = "streaming",
               !.text = IF cut THEN Tail(combined) ELSE combined,
               !.lossy = @ \/ frame.gap \/ cut]

OutputFrame ==
  /\ output # <<>>
  /\ output' = Tail(output)
  /\ LET frame == Head(output) IN
       watched' = CASE frame.type = "opened" -> Opened(watched, frame)
                    [] frame.type = "output" -> Appended(watched, frame)
                    [] frame.type = "finished" -> [watched EXCEPT !.state = "finished"]
                    [] frame.type = "error" -> [watched EXCEPT !.state = "error"]
  /\ UNCHANGED <<active, jobs, pump, roster, hostVars, steps>>

(* The stream breaks: the observer waits and asks again from next.          *)
StreamBreaks ==
  /\ watched.state \in {"streaming", "loading"} /\ Counted
  /\ watched' = [watched EXCEPT !.state = "reconnecting"] /\ output' = <<>>
  /\ UNCHANGED <<active, jobs, pump, roster, hostVars>>

-----------------------------------------------------------------------------
(* The host.                                                                *)

Following(j) == watched.job = j /\ (watched.state = "streaming" \/ output # <<>>)

(* A slow reader is told of a gap instead of every chunk.                   *)
JobWrites(j) ==
  /\ ~done[j] /\ written[j] < MaxOutput
  /\ written' = [written EXCEPT ![j] = @ + 1]
  /\ base' = [base EXCEPT ![j] = IF written'[j] - @ > Window THEN @ + 1 ELSE @]
  /\ output' = IF ~Following(j) THEN output
               ELSE IF Len(output) > Window
                    THEN Append(SubSeq(output, 1, Len(output) - 1),
                                [type |-> "output", chunk |-> written[j], gap |-> TRUE])
                    ELSE Append(output, [type |-> "output", chunk |-> written[j], gap |-> FALSE])
  /\ UNCHANGED <<active, jobs, pump, roster, watched, done, steps>>

JobEnds(j) ==
  /\ ~done[j]
  /\ done' = [done EXCEPT ![j] = TRUE]
  /\ output' = IF Following(j) THEN Append(output, [type |-> "finished"]) ELSE output
  /\ roster' = IF pump = SessionOf[j] THEN Append(roster, Running(pump) \ {j}) ELSE roster
  /\ UNCHANGED <<active, jobs, pump, watched, written, base, steps>>

Next ==
  \/ PumpOpens \/ RosterFrame \/ RosterEnds \/ SwitchSession
  \/ \E j \in Jobs : FollowJob(j) \/ JobWrites(j) \/ JobEnds(j)
  \/ StopFollowing \/ JobFollow \/ OutputFrame \/ StreamBreaks

Spec == Init /\ [][Next]_vars

-----------------------------------------------------------------------------
(* job-output-observer.ts:52: output that is not marked lossy is the output *)
(* of that job from its first chunk on, and all of it once the job is       *)
(* finished; lossy output still never repeats or turns back.                *)
OutputIsExact ==
  /\ ~watched.lossy => watched.text = [i \in 1..watched.next |-> i - 1]
  /\ \A i, k \in DOMAIN watched.text : i < k => watched.text[i] < watched.text[k]
  /\ watched.state = "finished" => watched.next = written[watched.job]

(* harness-gateway-service.ts:1754: the jobs on screen, and the one that is *)
(* observed, belong to the active session, whatever stream was left open.   *)
JobsOfSession ==
  /\ \A j \in jobs : SessionOf[j] = active
  /\ watched.job # None => SessionOf[watched.job] = active
=============================================================================
