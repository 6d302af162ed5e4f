----------------------------- MODULE GatewayState ----------------------------
(***************************************************************************)
(* What the gateway holds in memory of its streams and calls, besides the   *)
(* session of SessionView: the streamed attempt, the output of jobs, the    *)
(* notices of finished turns and the requests of the transport.  These      *)
(* components share no state and call each other through the gateway        *)
(* service only, which each models as its surroundings; so a behaviour of   *)
(* all of them is one of each, and the composition steps one component,     *)
(* chosen at the start (a sum of their state spaces, not a product).        *)
(***************************************************************************)
EXTENDS Naturals, Sequences

CONSTANTS
  MaxAttempts, MaxChunks, MaxLosses,                          \* AssistantStream
  JobSessions, Jobs, SessionOf, MaxOutput, Window, TextCap, MaxUserSteps, \* JobOutput
  NoticeSessions, MaxNoticedTurns, MaxCancels, MaxEventLosses, \* TurnCompletion
  Requests, MaxItems                                          \* GatewayClient

VARIABLES
  focus, \* the component that steps
  \* AssistantStream
  revision, attempt, entries, link, streamWire, clock, writing, streamLog, turn, started, ended,
  losses,
  \* JobOutput
  active, jobs, pump, roster, watched, output, written, base, done, steps,
  \* TurnCompletion
  turns, summaries, feed, linked, stops, cancels, notices, queue, showing, disposed,
  history, eventLosses,
  \* GatewayClient
  closed, cookie, calls, generator, signal, socket, items, failure, pushed, delivered

streamVars == <<revision, attempt, entries, link, streamWire, clock, writing, streamLog, turn,
                started, ended, losses>>
outputVars == <<active, jobs, pump, roster, watched, output, written, base, done, steps>>
noticeVars == <<turns, summaries, feed, linked, stops, cancels, notices, queue, showing,
                disposed, history, eventLosses>>
clientVars == <<closed, cookie, calls, generator, signal, socket, items, failure, pushed, delivered>>
vars == <<focus, streamVars, outputVars, noticeVars, clientVars>>

Stream == INSTANCE AssistantStream WITH wire <- streamWire, log <- streamLog
Output == INSTANCE JobOutput WITH Sessions <- JobSessions
Notice == INSTANCE TurnCompletion WITH
  Sessions <- NoticeSessions, MaxTurns <- MaxNoticedTurns, MaxLosses <- MaxEventLosses,
  wire <- feed, losses <- eventLosses, calls <- stops
Client == INSTANCE GatewayClient WITH Calls <- Requests, inbox <- items

ASSUME GatewayStateAssumption ==
  /\ Stream!StreamAssumption /\ Output!JobAssumption /\ Notice!CompletionAssumption
  /\ Client!ClientAssumption

(* The webview has components of its own: ClientState adds them.            *)
Components == {"stream", "output", "notice", "client", "webview"}

(* The initial states of a component count where it is the one that steps.  *)
Init ==
  /\ focus \in Components
  /\ Stream!Init /\ Notice!Init /\ Client!Init
  /\ Output!Init /\ (focus # "output" => active = CHOOSE s \in JobSessions : TRUE)

StreamSteps ==
  /\ focus = "stream" /\ Stream!Next
  /\ UNCHANGED <<focus, outputVars, noticeVars, clientVars>>
OutputSteps ==
  /\ focus = "output" /\ Output!Next
  /\ UNCHANGED <<focus, streamVars, noticeVars, clientVars>>
NoticeSteps ==
  /\ focus = "notice" /\ Notice!Next
  /\ UNCHANGED <<focus, streamVars, outputVars, clientVars>>
ClientSteps ==
  /\ focus = "client" /\ Client!Next
  /\ UNCHANGED <<focus, streamVars, outputVars, noticeVars>>

Next == StreamSteps \/ OutputSteps \/ NoticeSteps \/ ClientSteps

Spec == Init /\ [][Next]_vars

-----------------------------------------------------------------------------
(* A component that does not step stays where it began: its invariant is    *)
(* asked for where it is the one that steps.                                *)
Of(component, invariant) == focus = component => invariant

(* AssistantStreamState: the text on screen is a prefix of what the attempt *)
(* has written, and never that of an attempt whose message is durable.      *)
LiveTextIsWriting == Of("stream", Stream!LiveTextIsWriting)

(* AssistantStreamState.accept: streamed text stays until its message is on *)
(* screen.                                                                  *)
NoFlicker == Stream!NoFlicker

(* JobOutputObserver and pumpActiveJobs: the output shown is the host's,    *)
(* and the jobs shown are those of the open session.                        *)
JobsExact == Of("output", Output!OutputIsExact /\ Output!JobsOfSession)

(* TurnCompletionTracker: each turn's end is told at most once, and a turn  *)
(* that was cancelled or failed is not told as done.                        *)
NoticesAreDue == Of("notice", Notice!NoticesAreDue)

(* HarnessGatewayClient: no request of a closed client stays open, and no   *)
(* stream waits for an item that is there.                                  *)
ClientSettles == Of("client", Client!ClientSettles)
=============================================================================
