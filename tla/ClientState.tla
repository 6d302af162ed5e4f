----------------------------- MODULE ClientState -----------------------------
(***************************************************************************)
(* GatewayState with what is on screen: the conversation, the message that  *)
(* streams, the cards of tools, the place that is read, the composer with   *)
(* its picker, and the settings form.  The components of the webview share  *)
(* no state and none calls another, each models the gateway and the rest of *)
(* the webview as its surroundings; so where the webview steps it is one of *)
(* them, chosen at the start (a sum of their state spaces, not a product).  *)
(* A behaviour of FullSpec is one of GatewayState's Spec.                   *)
(***************************************************************************)
EXTENDS GatewayState

CONSTANTS
  Tools, MaxTurns, MaxSteps, MaxEvents, MaxOthers, PageSize, MaxLag, \* Transcript
  ShownSessions, Models, Prompts, MaxHost,                    \* Composer
  Payloads, Sources, FallbackModels, FallbackTiers, BareName, SearchMatches, Width, MaxPayloads,
  MaxActs,                                                    \* ComposerPicker
  MinimumStep, TargetFrames, Threshold, MaxLength, MaxRestarts, MaxFlips, MaxToggles, \* StreamedMessage
  TodoLists, CalledTodos, MaxChanges, MaxCardToggles,         \* ToolCard
  MaxLine, FirstLines, Header, Body, Views, FirstView, MaxLayouts, MaxGestures, \* ConversationScroll
  Official, Custom, New, MaxTexts, MaxFormSteps               \* SettingsForm

VARIABLES
  view, \* the component of the webview that steps
  \* Transcript
  log, agent, live, first, dom, tags, age,
  \* Composer
  host, refused, messages, handling, publisher, pending, taken, outbox, screen, draft, echoes, sent,
  changes,
  \* ComposerPicker
  payload, held, choice, locked, panelOpen, toggle, effort, range, drag, tab, query, picks, stale,
  dragged, meddled, payloads, acts,
  \* StreamedMessage
  source, blocks, restarts, running, flips, turnEnded, nodes, rendered, wish, moved, toggles,
  \* ToolCard
  tool, call, folds, todos, cardChanges, card, redrawn, cardWish, cardToggles,
  \* ConversationScroll
  layout, scroll, resizeDue, left, gestured, swallowed, layouts, gestures,
  \* SettingsForm
  settings, known, signature, panel, form, confirming, testing, applying, testOn, applyOn, shown,
  toHost, toWeb, asked, removals, texts, formSteps

screenVars == <<log, agent, live, first, dom, tags, age>>
composerVars == <<host, refused, messages, handling, publisher, pending, taken, outbox, screen, draft,
                  echoes, sent, changes>>
pickerVars == <<payload, held, choice, locked, panelOpen, toggle, effort, range, drag, tab, query,
                picks, stale, dragged, meddled, payloads, acts>>
bubbleVars == <<source, blocks, restarts, running, flips, turnEnded, nodes, rendered, wish, moved,
                toggles>>
cardVars == <<tool, call, folds, todos, cardChanges, card, redrawn, cardWish, cardToggles>>
scrollVars == <<layout, scroll, resizeDue, left, gestured, swallowed, layouts, gestures>>
formVars == <<settings, known, signature, panel, form, confirming, testing, applying, testOn, applyOn,
              shown, toHost, toWeb, asked, removals, texts, formSteps>>
paneVars == <<pickerVars, bubbleVars, cardVars, scrollVars, formVars>>
viewVars == <<view, screenVars, composerVars, paneVars>>
allVars == <<vars, viewVars>>

Screen == INSTANCE Transcript WITH Calls <- Tools
Writer == INSTANCE Composer WITH
  Sessions <- ShownSessions, Requests <- Prompts, inbox <- messages
Picker == INSTANCE ComposerPicker WITH
  Queries <- SearchMatches, draft <- choice, open <- panelOpen
Bubble == INSTANCE StreamedMessage WITH
  ended <- turnEnded, shown <- nodes, fresh <- rendered
Card == INSTANCE ToolCard WITH
  changes <- cardChanges, fresh <- redrawn, wish <- cardWish, toggles <- cardToggles,
  MaxToggles <- MaxCardToggles
Reading == INSTANCE ConversationScroll
Form == INSTANCE SettingsForm WITH MaxSteps <- MaxFormSteps, steps <- formSteps

ASSUME ClientStateAssumption ==
  /\ Screen!TranscriptAssumption /\ Writer!ComposerAssumption
  /\ Picker!PickerAssumption /\ Bubble!MessageAssumption /\ Card!CardAssumption
  /\ Reading!ScrollAssumption /\ Form!FormAssumption

ViewComponents == {"screen", "composer", "picker", "bubble", "card", "scroll", "form"}

FullInit ==
  /\ Init /\ view \in ViewComponents /\ (focus # "webview" => view = "screen")
  /\ Screen!Init /\ Writer!Init /\ (view # "composer" =>
       /\ host.open = CHOOSE s \in ShownSessions : TRUE
       /\ host.model = [s \in ShownSessions |-> CHOOSE c \in Models : TRUE])
  /\ Picker!Init /\ (view # "picker" => payload = CHOOSE p \in DOMAIN Payloads : TRUE)
  /\ Bubble!Init /\ (view # "bubble" => ~running)
  /\ Card!Init /\ (view # "card" => tool = "plain")
  /\ Reading!Init /\ Form!Init

ScreenSteps ==
  /\ view = "screen" /\ Screen!Next
  /\ UNCHANGED <<view, composerVars, paneVars>>
ComposerSteps ==
  /\ view = "composer" /\ Writer!Next
  /\ UNCHANGED <<view, screenVars, paneVars>>
PickerSteps ==
  /\ view = "picker" /\ Picker!Next
  /\ UNCHANGED <<view, screenVars, composerVars, bubbleVars, cardVars, scrollVars, formVars>>
BubbleSteps ==
  /\ view = "bubble" /\ Bubble!Next
  /\ UNCHANGED <<view, screenVars, composerVars, pickerVars, cardVars, scrollVars, formVars>>
CardSteps ==
  /\ view = "card" /\ Card!Next
  /\ UNCHANGED <<view, screenVars, composerVars, pickerVars, bubbleVars, scrollVars, formVars>>
ScrollSteps ==
  /\ view = "scroll" /\ Reading!Next
  /\ UNCHANGED <<view, screenVars, composerVars, pickerVars, bubbleVars, cardVars, formVars>>
FormSteps ==
  /\ view = "form" /\ Form!Next
  /\ UNCHANGED <<view, screenVars, composerVars, pickerVars, bubbleVars, cardVars, scrollVars>>

ViewSteps ==
  \/ ScreenSteps \/ ComposerSteps \/ PickerSteps \/ BubbleSteps \/ CardSteps \/ ScrollSteps
  \/ FormSteps

GatewaySteps == Next /\ UNCHANGED viewVars
WebviewSteps == focus = "webview" /\ ViewSteps /\ UNCHANGED vars

FullNext == GatewaySteps \/ WebviewSteps

FullSpec == FullInit /\ [][FullNext]_allVars

-----------------------------------------------------------------------------
(* As for Of, of the components of the webview.                             *)
OnScreen(component, invariant) == focus = "webview" /\ view = component => invariant

(* The conversation and the composer: what the webview shows is what the    *)
(* session's log and the gateway's state say; what the user chose in the    *)
(* picker is what it shows and a prompt is sent with; a message is drawn to *)
(* its end, its disclosures and the cards are as the reader left them, and  *)
(* so is the place that is read; and what the settings form says is of what *)
(* is in it.                                                                *)
ScreenIsTrue ==
  /\ OnScreen("screen", Screen!TranscriptIsTheLog) /\ OnScreen("composer", Writer!QuietScreenIsTrue)
  /\ OnScreen("picker", Picker!PickerTrue)
  /\ OnScreen("bubble", Bubble!MessageShown) /\ OnScreen("card", Card!CardIsTrue)
  /\ OnScreen("scroll", Reading!ScrollHolds) /\ OnScreen("form", Form!FormIsTrue)

(* MessageReconciler: a node of the conversation is kept for the message it *)
(* shows.                                                                   *)
RenderKeepsNodes == Screen!RenderKeepsNodes
=============================================================================
