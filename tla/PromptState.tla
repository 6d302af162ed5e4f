------------------------------ MODULE PromptState ------------------------------
(***************************************************************************)
(* What waits around the prompts: the digest that one session hands to the  *)
(* next, the queue and its dock, the links to files in what was answered,   *)
(* the file menu of what is typed, and the selection and files a prompt     *)
(* takes along.  These components share no state and none calls another, so *)
(* the composition steps one of them, chosen at the start (a sum of their   *)
(* state spaces, not a product).                                            *)
(***************************************************************************)
EXTENDS Naturals, Sequences

CONSTANTS
  CarrySessions, First, FirstMode, NoSession, Modes, AsIs, Prompts, Before, MaxTurns, MaxText, MaxMoves,
  MaxCarryFaults,                                                    \* CarryOver
  Queued, Media, MaxCommands, MaxLosses, MaxWalks, MaxDockFaults,    \* QueueDock
  LinkSessions, Blocks, Keys, MaxOpens, MaxKeyOps, MaxLostChecks,    \* FileLinks
  Views, Files, FirstFiles, Queries, Matches, MaxTyped, MaxFileOps, MaxFailures, \* FileMention
  Selections, Attachments, MaxCached, MaxAttached, MaxEditorMoves, MaxClicks \* PromptContext

VARIABLES
  tool, \* the component that steps
  \* CarryOver
  mode, isolated, prompted, active, seen, carry, creating, call, armed, displaced, early, moves,
  carryFaults,
  \* QueueDock
  inbox, running, answered, link, frames, open, follow, queue, edit, calls, withdrawn, passed, edited,
  losses, walks, dockFaults,
  \* FileLinks
  onScreen, found, shown, marks, verified, rejected, unverified, candidates, flush, checks, checking,
  verdicts, unchecked, visit, foreign, opens, keyOps, lostChecks,
  \* FileMention
  menus, searches, waiting, answers, disk, index, fresh, known, touched, unseen, unfound, dropped,
  fileOps, failures,
  \* PromptContext
  selection, due, cache, newer, auto, attachable, toWeb, available, staged, ignored, autoAttach,
  attachRequested, attached, toHost, reading, prompts, declined, editorMoves, clicks

carryVars == <<mode, isolated, prompted, active, seen, carry, creating, call, armed, displaced, early,
               moves, carryFaults>>
dockVars == <<inbox, running, answered, link, frames, open, follow, queue, edit, calls, withdrawn,
              passed, edited, losses, walks, dockFaults>>
linkVars == <<onScreen, found, shown, marks, verified, rejected, unverified, candidates, flush, checks,
              checking, verdicts, unchecked, visit, foreign, opens, keyOps, lostChecks>>
mentionVars == <<menus, searches, waiting, answers, disk, index, fresh, known, touched, unseen,
                 unfound, dropped, fileOps, failures>>
contextVars == <<selection, due, cache, newer, auto, attachable, toWeb, available, staged, ignored,
                 autoAttach, attachRequested, attached, toHost, reading, prompts, declined,
                 editorMoves, clicks>>
promptVars == <<tool, carryVars, dockVars, linkVars, mentionVars, contextVars>>

Carry == INSTANCE CarryOver WITH
  Sessions <- CarrySessions, MaxFaults <- MaxCarryFaults, log <- prompted, faults <- carryFaults
Dock == INSTANCE QueueDock WITH
  MaxMoves <- MaxWalks, MaxFaults <- MaxDockFaults, wire <- frames, moves <- walks,
  faults <- dockFaults
Links == INSTANCE FileLinks WITH
  Sessions <- LinkSessions, MaxFileOps <- MaxKeyOps, MaxFailures <- MaxLostChecks,
  open <- onScreen, asked <- unverified, lost <- unchecked, requests <- checks, answers <- verdicts,
  fileOps <- keyOps, failures <- lostChecks
Mention == INSTANCE FileMention WITH MaxInputs <- MaxTyped, requests <- searches
Context == INSTANCE PromptContext WITH
  Files <- Attachments, MaxMoves <- MaxEditorMoves, disk <- attachable, files <- attached,
  moves <- editorMoves

ASSUME PromptStateAssumption ==
  /\ Carry!CarryAssumption /\ Dock!QueueAssumption /\ Links!LinksAssumption
  /\ Mention!MentionAssumption /\ Context!ContextAssumption

Tools == {"carry", "dock", "links", "mention", "context"}

(* The initial states of a component count where it is the one that steps.  *)
PromptInit ==
  /\ tool \in Tools
  /\ Carry!Init /\ (tool # "carry" => isolated = {} /\ prompted[First] = <<>>)
  /\ Dock!Init /\ (tool # "dock" => ~running)
  /\ Links!Init /\ (tool # "links" =>
       onScreen = (CHOOSE s \in LinkSessions : TRUE) /\ found = [s \in LinkSessions |-> {}])
  /\ Mention!Init
  /\ Context!Init /\ (tool # "context" => auto)

CarrySteps ==
  /\ tool = "carry" /\ Carry!Next
  /\ UNCHANGED <<tool, dockVars, linkVars, mentionVars, contextVars>>
DockSteps ==
  /\ tool = "dock" /\ Dock!Next
  /\ UNCHANGED <<tool, carryVars, linkVars, mentionVars, contextVars>>
LinkSteps ==
  /\ tool = "links" /\ Links!Next
  /\ UNCHANGED <<tool, carryVars, dockVars, mentionVars, contextVars>>
MentionSteps ==
  /\ tool = "mention" /\ Mention!Next
  /\ UNCHANGED <<tool, carryVars, dockVars, linkVars, contextVars>>
ContextSteps ==
  /\ tool = "context" /\ Context!Next
  /\ UNCHANGED <<tool, carryVars, dockVars, linkVars, mentionVars>>

PromptNext == CarrySteps \/ DockSteps \/ LinkSteps \/ MentionSteps \/ ContextSteps

PromptSpec == PromptInit /\ [][PromptNext]_promptVars

-----------------------------------------------------------------------------
(* A component that does not step stays where it began: its invariant is    *)
(* asked for where it is the one that steps.                                *)
With(component, invariant) == tool = component => invariant

(* A prompt that goes on in a fresh session: the digest armed for it is     *)
(* still there, or was carried by a prompt that reached the session.  A     *)
(* prompt in the queue is not lost by what is done about it, and the dock   *)
(* comes to show the inbox.                                                 *)
CommandsKept == With("carry", Carry!ArmedContextKept) /\ With("dock", Dock!QueueKept)

(* Links to files, the file menu and the chips of the composer: what waits  *)
(* for an answer of the host gets it, and a prompt takes along what its     *)
(* chips said.                                                              *)
FilesAtHand ==
  /\ With("links", Links!LinksSettle) /\ With("mention", Mention!MentionSettles)
  /\ With("context", Context!ContextTravels)
=============================================================================
