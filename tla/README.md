# Formal model of the DeepSeek Harness workbench

TLA+ modules of the VS Code extension in `src/`, the TLC configurations that
check them on small instances, and TLAPS proofs. File names below are relative to
`src/src/` unless they name a module of this directory;
*HGS* is `gateway/harness-gateway-service.ts`. The exact lines behind every
definition are in `PROJECT.json` under `map`.

    tlasany M.tla                       parse a module
    tlc -workers 2 -config X.cfg MCM    check a run (the runs are in PROJECT.json)
    tlapm MProofs.tla                   check the proofs about M

## 1. The system

```
 webview  <--postMessage-->  WorkbenchViewProvider
                                   | calls
 editor settings, mementos -->  HarnessGatewayService  <-- plugin centre, commands
                                   |        \
                     HTTP RPC and one        \ start / stop
                     WebSocket per stream     \
                                   |         HarnessHostRuntime
                                   |           | spawn, SIGTERM, SIGKILL
                                 the gateway process (`dsh web`, external)
```

The extension host is one JavaScript thread. Code between two awaits is atomic;
everything else interleaves: user messages, timers, RPC answers, frames of five
independent sockets (`session/control`, `$events`, `workspace/follow`,
`session/follow`, `job/follow`) and the events of the child process. Frames keep
their order on one socket and have none across sockets. An RPC may fail before or
after the host acted on it. The gateway process may exit at any time.

### Components

| Component | State it keeps | Operations | What is hard | What makes it correct | Module |
|---|---|---|---|---|---|
| Prompt admission (HGS, `gateway/pending-queue.ts`) | active session, running flags, admission markers, parked configurations | sendPrompt, applyPromptConfiguration, selectModel, flush | every step awaits an RPC while the user switches sessions, turns end and statuses arrive on another socket | a parked configuration is applied in order, kept or dropped on purpose; a failed prompt leaves nothing; markers are released | PromptAdmission |
| Queued prompts and the dock (HGS, `gateway/inbox-projection.ts`, `webview/chat/composer-core.ts`) | the inbox as last told, the edit under way | steerQueued, removeQueued, editQueued | the item is removed and sent again while its turn ends; snapshots and control frames cross | a queued prompt is answered, waiting, removed on purpose or reported | QueueDock |
| A conversation in a fresh session (HGS, `domain/carry-over.ts`) | the digest armed for a session | createSession, fork for a mode or a worktree, sendPrompt | sends, forks and switches overlap | the digest stays armed until a prompt took it along | CarryOver |
| Pending interactions (`gateway/pending-interactions.ts`) | connection, records on display, answers under way | receive, cancel, removeSession, beginResponse, finishResponse, connect and disconnect | requests are replayed after each reconnect, clicks and outcomes come late, an aborted pump cleans up after its replacement started | nothing lost, nothing answered twice, no answer to a request the user did not see | InteractionLedger, PendingInteractions |
| Session view (HGS) | selection, transcript, cursors, catalogs, snapshot waiters | selectSession, selectSubagent, follow frames, loadOlder, repairHistory | selections overtake one another; pages, repairs, snapshots and events overlap | no duplicates, the transcript catches up, nothing of another session is shown | SessionView |
| Gateway lifecycle, mutation gate (HGS) | phase, client, start task, gate | start, ensureStarted, restart, disconnect, mutateRuntime, baseline watchdog | tasks join and tear down one another's | mutations exclude each other, old baselines cannot touch the new connection, every call ends with an outcome | RuntimeLifecycle |
| Host runtime (`runtime/web-runtime.ts`), boot recovery | child, start and stop task, identity, preparation | start, stop, restart, spawn, retries | a stop while files are prepared, late exits, kills | one process at a time, owned by the runtime | RuntimeLifecycle |
| Gateway client (`gateway/node-gateway-client.ts`) | token, pending requests, the queue of each stream | request, openStream, close | an item, the end or an abort between a look and a wait | every request and every wait ends | GatewayClient |
| Assistant stream (`gateway/assistant-stream-state.ts`) | attempt, revision, chunks | baseline, frames, settle | lost frames, new attempts, two clocks on one stream | chunks of one attempt only, no text that vanishes | AssistantStream |
| Job output (`gateway/job-output-observer.ts`) | offset, lossy mark | follow, resume | loss and eviction | no repeated or silently skipped byte | JobOutput |
| Turn completion (`gateway/turn-completion-tracker.ts`, `notifications/`) | running edges, cancels, queue of notices | status, cancel, rollback, show | repeated edges, cancels that fail late | one notice per turn, none for a cancelled one | TurnCompletion |
| Archive state, session metadata (`gateway/archive-state.ts`, `session-meta-store.ts`) | archived ids, intents of older builds, a map in a memento | archive, restore, updateMeta, migrations | answers against newer frames; read, await, write | what the user restored or pinned stays until the host has it | HostLists |
| Worktrees (`editor/worktree-service.ts`, `worktree-git.ts`) | registry, disk mirror, git refs | prepare, mergeBack, discard, cleanupOrphans, recover | crashes between git and registry, concurrent merges | no user's work is lost, no live worktree removed | Worktrees |
| Shared history migration (`runtime/shared-history/`) | stores, locks, markers, forks | compare, copy, advance, fork, mark | crashes between publish and marker, two windows | no history lost or mangled | SharedHistory |
| Routing suite, default plugins (`plugins/`) | installed presets, state file, seed marker | install, rollback, remove, seed | failures and crashes between files, two windows | no preset of the user deleted | PluginSetup |
| Plugin centre (`plugins/plugin-center-controller.ts`, `webview/plugin-center/`) | snapshot, busy marks, filter cache | load, install, cancel, remove, filter | clicks on an older snapshot, sources that fail | the panel comes to show what is installed | PluginCenter |
| Connection settings (`services/connection-settings*`) | providers, revisions, legacy keys | connect, refresh, apply, remove, migrations | revision conflicts, half a migration | no key lost or hidden | ConnectionSettings |
| Session import (`import/`) | picked archives, temporary directories | inspect, extract, import, clean up | limits, names, failing writes | what is announced is there, nothing is left behind | SessionImport |
| Conversation (`domain/workbench-state.ts`, `turn-process.ts`, `webview/chat/`) | items, groups, nodes | projection, grouping, reconciliation | pages, partials, stops, renders that lag | the screen is what the log says, nodes are kept | Transcript |
| Streamed messages and tool cards (`webview/streaming-message/`, `webview/chat/messages.ts`) | blocks, streams with their frames, disclosures | render, patch, frames, copy button, todo cards | throttled frames, new attempts, the handover of a node | every text is drawn to its end, disclosures are the reader's | StreamedMessage, ToolCard |
| Composer (`ui/workbench-view-provider.ts`, `domain/optimistic-prompts.ts`, `webview/chat/`) | published snapshot, draft, optimistic prompts | publish, send, reconcile | coalesced snapshots, local edits | no duplicate or lost message, the last state is shown | Composer |
| Configuration picker (`webview/composer-configuration/`) | draft, drag, open panel, search | pick, drag, search, submit | payloads under a drag or an open panel | what was picked is shown and sent | ComposerPicker |
| Reading position (`webview/conversation-scroll/`) | following or an anchor, the geometry last seen | layouts, scroll events, gestures, sends | the browser clamps and tells later, all scroll events look alike | the end stays in view while it is followed, what is read stays in place | ConversationScroll |
| Settings form (`webview/connection-settings/`, `services/connection-test-service.ts`) | the form, its pending test and apply, a half confirmed removal | open, select, type, test, apply, remove, update | answers and pushes come after the form has changed | a result is of what is in the form, a removal of what was confirmed, no button stays locked | SettingsForm |
| Files at hand (`webview/markdown.ts`, `file-mention/`, `editor-context/`, `editor/`) | existence ledger, index, cached selections, chips | check, search, stage, attach | answers of the previous session, two webviews, evicted selections | questions get answers, chips go with the prompt | FileLinks, FileMention, PromptContext |
| Export, activation, other dispatch | little or none | I/O and wiring | none of protocol | | not modelled |

`PROJECT.json` lists every component with its status and the hazards, each at its
line with the properties that cover it or the reason none does.

## 2. The modules

Parameters are CONSTANTS with named assumptions. An action is what the code does
between two awaits, with every call it makes. `MC*` modules give the constants
values.

**PromptAdmission** composes sendPrompt, the queue, the `turn/end` frames, the
status frames, the list refreshes and the session switches. Variables carry the
code's names (`active`, `running`, `admitted`, `slots` for `pending`); `call[p]` is
the progress of one sendPrompt: *configuring* and *selecting* are the awaits of
applyPromptConfiguration and selectModel, *sending* the prompt RPC. `SendPlain`,
`SendParking` and `SendApplying` are the three ways through sendPrompt (not busy or
no configuration; busy, so parked; idle, so applied first). `FlushHead`, `Flushed`
and `ShiftApplied` are PendingConfigurationQueue.flush before, at and after its
await. The host (queue, running turn, selected configuration, last announced
status) is external. `order`, `applied` and `dropped` are history variables. **PromptAdmissionProofs**
holds the proofs.

**InteractionLedger** is the abstract promise: a request put before the user gets
a ticket, at most one answer per ticket is under way, its outcome concerns that
ticket only. **PendingInteractions** is the store with its keys, replays and
revisions, the `$events` pump (`pump`, `generation`, `closing` for aborted pumps
whose `finally` has not run), the frames under way and the answers awaiting the
host. It implements the ledger: a ticket is the serial number of a delivery.
**PendingInteractionsProofs** holds the proofs.

**SessionView** follows one selection after another: `calls` are selectSession and
selectSubagent calls between their awaits, `follow` is pumpActiveFollow with its
unhandled frames, `repair` the repairHistory calls by who started them, `older`
the loadOlder call. MergeHistory is `mergeHistory` by sequence number; `Ordered` is its
sort, the entry of rank *i* at place *i*. **SessionViewProofs** holds the proofs.

**RuntimeLifecycle** is HarnessHostRuntime together with the start, restart and
mutation half of HGS. `threads` holds the program counter of each call and of the
start task it may create; `boots` the spawnRuntime calls and `procs` their
processes; `baselines` the settleBaseline calls, which outlive their watchdog.
`StopRuntime` and `AwaitStop` are performStop before its await and the await;
`JoinOrBoot` is start() of the runtime after the await of a stop, `Evicted` its
last part after it stopped the child. `Disconnect`, `TearDown`, `EndStart`,
`TakeGate`, `StopForMutation` and `ReleaseGate` are the pieces of disconnect,
runStartBaseline, runStart and mutateRuntime. **RuntimeLifecycleProofs** holds the proofs.

Abstractions of RuntimeLifecycle: one session is on screen; a turn's end is one
event; StopSettles covers the child's exit and the five-second timeout with
SIGKILL, after which the process may still exit late; the baseline is four awaits
(settings, lists, session, done), each standing for a group of RPCs; after a host
died nothing more is said of its turns; a restarted configuration is a number.

**Worktrees** keeps the registry, its two copies on disk and the git refs. Each
operation is cut at its awaits (`Recover`, `ListAndSweep` and `SweepStep`, `MergeStep`s);
a tree is the set of changes it contains, so that "no edit is lost" can be said.
**WorktreesProofs** holds the proofs.

The other components have a module each, written in the same way: the variables are the
fields of the class, an action runs from one await, message or timer to the next, and
what answers from outside (the host, the disk, git, the user, another window) is a set of
actions of its own, marked external in the map. Texts are what they are made of: a
number of chunks, an attempt with a length, an offset. History variables are marked as
such where they are declared.

**ClientState** and **MCPersistence** compose them: ClientState the eleven that live in the
memory of the extension host and the webviews, MCPersistence the eleven that keep or look up
something beyond it. They share no state: in the code they are separate classes that the
gateway or the view calls, and each module has those calls as its surroundings. A product
would only multiply independent states, so `focus` is chosen at the start and the
component it names steps; a behaviour of the composition is a behaviour of one component,
and a property speaks of the component that steps.

Each of the two is put together from smaller compositions, those about which there are
proofs. **GatewayState** has AssistantStream, JobOutput, TurnCompletion and GatewayClient;
ClientState extends it, and where `focus` says *webview* steps Transcript, StreamedMessage,
ToolCard, ConversationScroll, Composer, ComposerPicker or SettingsForm, named by `view`.
**SavedState** has HostLists, SharedHistory, ConnectionSettings, PluginSetup, SessionImport and
PluginCenter; **PromptState** has CarryOver, QueueDock, FileLinks, FileMention and PromptContext,
and `tool` names the one that steps. MCPersistence extends both for the run, and steps
PromptState where `focus` says *elsewhere*. The runs check `FullSpec`, the larger
specification: a step elsewhere leaves the smaller one's variables alone, so that its `Spec`
allows it.
**GatewayStateProofs**, **SavedStateProofs** and **PromptStateProofs** hold the proofs.
Where components do interact the interaction is inside one module: the pumps
with the stores they feed, the composer with the view provider, the conversation
with its stream, sendPrompt with the queue and the follow frames.

## 3. The runs

| Run | States | Properties | What it shows |
|---|---|---|---|
| `admission_order` | 1.26 M | ParkedConfigurationKept, AppliedInFifoOrder | Three prompts of one session, one call in flight, answers may be lost: a parked configuration is applied, kept, or explicitly dropped, and parked configurations reach the host in the order they were sent. |
| `admission_switch` | 1.98 M | FailedPromptOwnsNoSlot | Two sessions, two prompts of every kind sent concurrently while the user switches sessions: a failed admission leaves no slot in any session. |
| `admission_streams` | 209 k, fair | MarkerReleased | Under fairness, with two independent streams and a session switch, an admission marker is released in the end unless a stream was lost. |
| `admission_live_turn` | violation | RunningTurnKeepsConfiguration | The documented promise that a configuration never mutates a running turn fails: the rollback of one failed prompt removes the marker another prompt set. |
| `interactions` | 102 k, fair | TypeOK, OwnedByConnection, LockedOnlyWhileAnswering, OneAnswerPerDelivery, ClickAnswersWhatWasShown, NoLostRequest, ImplementsLedger, OfferReachesUser | Two requests over a lost socket, service restarts, repeated and cancelled offers, delayed clicks and lost answers: the store keeps its invariants and implements the ledger of tickets, and under the fairness of the pump and the host a request that stays on offer is put before the user. |
| `view_selection` | 912 k | NoDuplicates, CatalogOfSelection, CaughtUp, FramesNeverRemove | Two selections over two growing sessions with paging, gaps, repairs and a lost stream: no entry is shown twice, catalogs belong to the selection, frames never remove entries and the transcript catches up with the log. |
| `lifecycle_starts` | 1.68 M | TypeOK, MutationsExclusive, NoWaitInVain, SettledPhase, StreamsOfCurrentClient | Any two of a start, a restart, a mutation and a prompt cross each other over boots that fail, are repaired, killed or never announced and a configuration that changes: mutations exclude each other, nobody waits for what will not come, a superseded baseline opens no streams, and the user is left with an outcome. |
| `lifecycle_returns` | 189 k, fair | CallsReturn | With a gateway that may never answer, two mutations or prompts and the starts they make return in the end, except behind a turn whose end was lost. |
| `worktrees` | 195 k, fair | RegistryRestored, ListedWorktreeKept, OldEditsSurvive, OrphansSwept | Sessions created, swept, discarded and merged over a crash of the extension, git commands that fail and edits that cross the merges: the registry comes back, sessions of earlier runs keep their worktree, a merge throws away no edit it saw, and what a crash left behind is swept. |
| `client_state` | 1.68 M | LiveTextIsWriting, NoFlicker, JobsExact, NoticesAreDue, ClientSettles, ScreenIsTrue, RenderKeepsNodes | The in-memory components, one at a time: the streamed attempt over lost follow streams, job output over broken streams and evicted bytes, notices over lost events and failing cancels, the transport under aborts, timeouts and closes, the conversation under renders that lag behind the log, with its messages drawn frame by frame, its cards and the place that is read, the composer with its picker over coalesced snapshots and session switches, and the settings form over answers and pushes that come late. |
| `persistence` | 2.07 M | ListsKept, HistoryKept, KeysInPlace, PluginsKept, ArchivesImported, CommandsKept, FilesAtHand | The components that keep or look up something outside the extension's memory, one at a time, over crashes, failing writes and requests, other windows and other processes: what was asked for, written, installed, typed in, queued or carried into another session is neither lost nor overwritten, the plugin centre and the queue dock come to show what is there, and links, menus and chips of files get their answers. |
| `archive_intent` | violation | RestoreIntentKept | A legacy restore is dropped from disk although the host still holds the session archived: the migration runs on the empty set the baseline installs before the host's first workspace frame. |

### Why the bounds are enough

*Prompts*: the marker bug needs three prompts (one accepted, one failing, one that
applies); order needs two parked ones behind one running; a slot in the wrong
session needs two sessions and two concurrent calls. *Interactions*: two requests
make keys of different requests differ; one loss gives two connections (a replay, a
late click, a late outcome, a late `finally`); three deliveries are a request shown,
cancelled and shown again next to the other; two answers are a retry. With two
losses the same properties hold over 1.14 M states; the proofs of section 5 hold for any number.
*View*: a window of two over logs of three leaves an older page, a gap and a hole;
the second selection overtakes the first at each of its awaits. A window of one, where
there are two pages before the tail, has 2.15 M states and the same properties. *Lifecycle*: each
wait in the code is of one call for another's task; a call brings its own start
task and a mutation two, so two calls give up to six threads, three tasks to wait
for (start, stop, gate) and a boot to supersede each boot. Three simultaneous calls are
beyond what TLC does in minutes; for safety, except `SettledPhase`, section 5 covers
any number of them. The fair run leaves out direct starts and restarts
(a mutation starts the service twice, before and after); for them `lifecycle_starts` checks
`NoWaitInVain`, that whoever waits has somebody at work to wait for. The changing
configuration is what makes start evict a live child.

*Worktrees*: two sessions make two merges into one base cross; the budgets of a run
(`Kinds` in MCWorktrees) are one crash, two crossing merges, or failing git, each with
every order of creation, sweep and discard. *Client state*: two attempts and one lost
stream make a revision gap and an overtaken attempt; a window of two bytes of
three evicts one; two turns with two cancels are a cancel that fails in the next turn;
two steps of two turns with a tool call, a page of two events and renders that lag a
change behind give every regrouping of the transcript; a text of three characters with a
threshold of two has frames that draw, frames that are left out and a last one;
one restart puts a second attempt's text in the node of the first; five lines over a view of two, three
layouts and two gestures put a clamp between a layout and its event; two routes with four steps are a
removal half confirmed for the other one. *Persistence*: one crash or failing write
at each point, two windows of one home, two imports, two operations of the suite; a session and
the one it goes on in, with two prompts; one queued prompt, two clicks, one lost answer; three selections
over a cache of two evict one; two webviews ask in turn.

Every bound is a constant named `Max...` or a small set, listed with its meaning in its
module, and stands in guards only. Deadlock is not checked: once the bounded inputs
are used up the system rests, as the program does when nobody calls it.

### Fairness

Weak fairness only, and only for what the event loop, a timer or a timeout owes:
continuations of settled promises, buffered frames, RPCs that settle because they
time out, pumps that reconnect, turns that end. Nobody owes a click, a prompt, a
selection or a configuration, and no network or process owes a failure or a
success. In `lifecycle_returns` the gateway owes neither its announcement (the
90 s boot timeout does) nor the answers of the baseline (the 45 s watchdog does);
the body of a mutation is assumed to end. In `interactions` sockets are accepted
in the end, and `OfferReachesUser` excepts a service that is stopped. In `worktrees` the
extension restarts after a crash, recovers, lists its sessions and sweeps one orphan
after another: these are its own continuations; git may fail each of them but one.

## 4. What the checks found

Two are runs of `PROJECT.json`; the others are properties that their modules state as not
kept, in no run, and that a configuration with that property refutes (the constants of
the module's MC module do).

| What the code does | Claim it does not keep | Refuted by |
|---|---|---|
| **A configuration changes a running turn.** The admission marker is one bit per session; the rollback of a failed prompt (HGS:1102) removes it although another prompt set it, and the next configured prompt finds the session idle | "never mutates a running turn" (HGS:954), "never mutates a live turn" (`gateway/pending-queue.ts:88`) | `admission_live_turn` |
| **A legacy restore is forgotten.** The baseline installs an empty archived set before the first workspace frame, and the migration takes it for the host's | the intent stays until the host has it (`gateway/archive-state.ts:105`) | `archive_intent` |
| **A repair removes the end of the transcript.** repairHistory (HGS:2074) reads up to the cursor of the last snapshot, which live events do not move | `docs/ARCHITECTURE.md:78`: a gap reads the tail page again | SessionView!RepairKeepsTail |
| **Entries of the previous session.** loadOlder and repairHistory (HGS:936, 2081) install what they awaited without looking at the selection | `CHANGELOG.md:66`: old output does not get into the new session | SessionView!EntriesOfSelection |
| **A selection that never returns.** One waiter per session; a second selection of the session overwrites the first one's (HGS:2047) | "bounded; moves on without it" (HGS:2044) | SessionView!SelectionMovesOn |
| **The host runs during a profile mutation.** start and restart (HGS:219) do not look at the gate | the host is stopped while plugins change | RuntimeLifecycle!HostStopped |
| **A live session's worktree is swept.** The loop walks the live registry with ids taken before (`editor/worktree-service.ts:316`) | "Removes worktrees whose session no longer exists" (line 310) | Worktrees!OnlyOrphansSwept |
| **A deleted session comes back.** A crash before the marker lets the next migration copy again | "A migrated old backup must not resurrect history later deleted in the shared store" (`runtime/shared-history/migration.ts:72`) | SharedHistory!StaysDeleted |
| **Providers are cleared without being imported** when llm-pi-ai is unavailable (`services/connection-settings/migrations.ts:53`, 107) | the comment at lines 105-106: cleared once they are handed over | ConnectionSettings!LegacyHandedOver |
| **A digest is dropped** by a prompt that was sent before it was armed (HGS:1097) | "The payload stays armed until the ordinary-session send succeeds" (HGS:1051) | CarryOver!StaysArmed |
| **A verdict of the previous session makes a link** when its answer comes after the switch | "must be re-checked before becoming clickable again" (`webview/chat/messages.ts:64`) | FileLinks!LinksOfSession |
| **The file menu of one webview takes the answer of the other**, request numbers collide, and it stays at "Searching…" | | FileMention!AnswersAreOwn |
| **The copy button copies the beginning.** A message that is patched keeps the button of the text it was first idle with (`webview/chat/messages.ts:101`) | "remove any that are stale" (line 89) | StreamedMessage!CopyIsWhole |
| **Folding closes the reasoning the reader had open** when the durable message is shown before the session is idle: the answer keeps the node, the reasoning gets a new one | "so the transcript can carry this block's reader expand/collapse intent across the id handoff" (`webview/streaming-message/component.ts:104`) | StreamedMessage!FoldingKeepsOpen |
| **A todo card is emptied** in the render that made it, while the session has no list yet | "falling back to the card's own call payload" (`webview/chat/messages.ts:296`) | ToolCard!OwnTodosShown |
| **The first of two relay models with one bare name is sent** (`webview/composer-configuration/store.ts:216`) | "Send the model id exactly as the catalog advertises it" (line 193) | ComposerPicker!PickIsExact |
| **The effort toggle is not drawn after a drag** | | ComposerPicker!ToggleIsTrue |
| **A steered prompt is sent twice** when an answer is lost, or with the text before an edit; a snapshot that a frame overtook stands | | QueueDock!SentOnce, EditKept, NeverBehind |
| **Cancelling one plugin operation hits another**; a panel counts as loaded with nothing to show | | PluginCenter!CancelHitsOwn, LoadedShowsSomething |
| **The form is emptied after all** by the first push after it was opened, although it says nothing new: open resets the signature (`webview/connection-settings/component.ts:209`) | "updates only repaint when the underlying provider data actually changed" (lines 51-52) | SettingsForm!TypedStays |
| **A saved apply empties another key**, typed since for another provider; the models found by a test replace those typed since (lines 237, 249) | | SettingsForm!AnswersTakeOwn |
| **A clamp has the stream followed again**, when content got shorter and was measured before its scroll event is heard | "layout changes, not evidence of user intent" (`webview/conversation-scroll/controller.ts:14-15`) | ConversationScroll!OnlyReaderFollows |
| **A press leaves the end out of view** when text came during it, until the next layout; a move that ends where the controller last wrote is not heard | | ConversationScroll!PressKeepsEnd, MoveIsHeard |
| **Edits between the look and the reset are lost** (`editor/worktree-service.ts:238`), and a merge drops another's commit (line 236) | | Worktrees!DirtyNeverClobbered |

Met while modelling, without a claim to contradict: a turn whose end is lost with
its stream leaves its marker set, and waitForRuntimeIdle then polls with the gate
held (`GhostTurn`, the exception of `CallsReturn`; the same loss is the exception of
`MarkerReleased`); a prompt looks at the gate once and passes it even if the next
mutation has taken it meanwhile; a stop during the preparation of a boot does not
prevent the spawn once the abort check is behind it; a stream lost during the
baseline makes the next frame declare the connection complete; an older page asked for
before a repair replaced the transcript is put in front of whatever begins it then
(HGS:934-936 keep what is not shown, wherever it belongs), which leaves the transcript out of
order (`OlderIsLate`, one of the three ways `disturbed` becomes true; the attempt to prove
`CaughtUp` without it showed this, with a window of one); with two windows a fork may be
forked: the recovery store holds a fork that the migration of the other window reads as a
source (`Genuine` allows it, the mark is then there twice; the attempt to prove a single one
showed this).

## 5. What is proved

A proof module is named after the module it is about. Every theorem holds for all
values of the constants that satisfy the named assumption of its module; the prover
checks each step down to its last leaf. Each module has one inductive invariant, a
conjunction of named parts, and one lemma per action or per group of actions of one
shape; the theorems of a property are consequences of that invariant.

**PendingInteractionsProofs**, from `InteractionAssumption` (`Requests` finite, `Owner` a
function, bounds natural):

- `TypeCorrect`: `Spec => []TypeOK`.
- `SafetyInvariant`: `Spec => []SafetyInv`, the inductive invariant. `TypeOK` and
  the four properties are not inductive by themselves. `SafetyInv` adds that
  `connection` and the records carry the pump's generation (`ConnectionInv`), that
  serial numbers are distinct and not larger than `deliveries`, so that a late
  outcome can be told from a new delivery (`SerialInv`), and that a record with an
  answer under way is locked (`LockInv`): without the last one
  `OneAnswerPerDelivery` does not survive a second click.
- `RecordsOwned`, `NeverStuck`, `NeverAnsweredTwice`, `ClicksAreExact`: the four
  properties of the run as consequences.
- `NothingIsLost`: `Spec => []NoLostRequest`. It speaks of frames that are still on the
  wire, and needs `WireInv` (a socket begins with its ready frame and has no other, so that
  a pump without a generation will handle that frame next) and `AnsweredInv` (what was
  answered is not on offer again).
- `StoreImplementsLedger`: `Spec => ImplementsLedger`. Each action is a ledger step
  or a stutter under the refinement mapping; `OneOutstanding`, `TicketOfRecord` and
  `RecordOfTicket` tie records to tickets, which needs `SafetyInv`.

**RuntimeLifecycleProofs**, for every set of calls, kinds of calls and
recoveries and any number of configuration changes, from `LifecycleAssumption`
(`NoOne` is no thread, `Kinds` are call kinds, the bound is natural):

- `TypeCorrect`: `Spec => []TypeOK`.
- `Invariant`: `Spec => []Inv`, the inductive invariant. It says who owns each task.
  `StartInv`: the thread at work on a start is the one `startTask` names, and there is
  no other. `GateInv`: the same of the gate, and a start task never holds it.
  `BootInv`: `bootTask` names a boot that is under way, so `JoinOrBoot` may wait for it.
  `WaitInv`: whoever waits, waits for a task that exists. `BaselineInv`: an unfinished
  baseline whose client was not closed belongs to the start under way and to the
  current client; this ties `closed`, `client`, `baselines` and the watchdog together, and
  the streams property is false one step earlier without it.
- `MutationsExclude`, `NobodyWaitsInVain`: two invariants of `lifecycle_starts` as
  consequences of `GateInv`, and of `WaitInv`, `StartInv` and `GateInv`.
- `StreamsAreCurrent`: the action property, from `BaselineInv`; `StreamsStep` shows that
  no action but `StartStreams` opens streams.
- `OutcomeIsShown`: `Spec => []SettledPhase`, from `OutcomeInv`: while the phase is "idle"
  or "starting" a start task is under way (`OwnerWaits`: its call still awaits it), or a call
  has stopped the runtime and is on its way to the service's start, or nothing but
  prompts was ever asked for. `Kept` says that a call does not drop this duty; only the end
  of a start and the failure of a boot discharge it, and they set the phase.

`Ordinary` covers the steps that leave the tasks with their owners, so that only the
steps that begin or end a task argue about ownership.

**PromptAdmissionProofs**, for every set of prompts and any order of queue, turns, lists
and switches:

- `TypeCorrect`, `FailuresLeaveNoSlot`, `ConfigurationsAreKept` and
  `ConfigurationsApplyInOrder`: `TypeOK` and the three properties of the admission runs.
- The strengthening says whose slots are in a queue and in which order. `FlushHasOwner`: an
  apply() under way works for a prompt, never for an empty slot. `Ownership`: a slot
  belongs to a prompt of its session that parked it and has not failed, and a prompt has
  at most one (`SlotsOwned`, `OneSlotEach`, `ParkedAreSent`). `Ordering`: a queue lists its
  owners in the order they were parked, and nothing still wanted that was parked before
  what a flush works for is unapplied (`SlotsInOrder`, `FlushInOrder`). Most removals are
  one lemma, `Thinned`: a queue that only loses slots keeps their order and their owners.

**SessionViewProofs**, for every set of sessions, logs of any length and any number of
calls:

- `TypeCorrect`; `NoEntryTwice` and `CatalogsBelong`, the invariants of the run;
  `FramesOnlyAdd` and `ViewCatchesUp`, what a frame may do to the history and what the
  view shows once nothing is under way.
- `ViewInv` adds to them that what is held and what is under way belong to the log of
  their session (`WithinLog`), that the unhandled frames are the tail of that log
  (`WireIsTail`), that nothing on screen, or on its way there as a page, is newer than a
  snapshot that is due (`SnapshotIsNewest`), and that the history is sorted and ends right
  before the unhandled frames (`InOrder`). `mergeHistory` sorts; the
  lemmas about `Ordered` show by rank that the sort is a permutation and ascending,
  without induction over the list.

**GatewayStateProofs**, from `GatewayStateAssumption`: `ClientsSettle`, `JobsAlwaysExact`,
`LiveTextAlwaysWriting`, `TextNeverFlickers`, `NoticesAlwaysDue`, five properties of the run
`client_state`. `ComponentInv` is the invariant of the component that `focus` names; there
is one part for each:

- JobOutput: `FramesFollow` is its heart: the frames under way fit each other, each goes on
  where the one before ended, a gap is only where a frame marks one, and the last reaches
  what the job has written. From it `TextIsExact` (the text shown is the job's output from the
  offset it claims), `RosterOfSession` and `JobsOfSession` survive lost frames, resets and
  reconnections.
- AssistantStream: a client that is behind its host cannot be compared with the host's
  present state. `FramesExplained` therefore says there is a sequence of host states, one for
  each boundary between two frames on the wire: the client holds the first, every frame leads
  from one to the next, the host is in the last. A step of the host appends or alters the
  last, a delivery drops the first. `Possible` and `LogOfAttempt` say which states a host can
  be in.
- TurnCompletion, `NoticeInv`: a finished turn is announced once, and only if it ended as the
  notice says. The tracker sees events and removals on two ways that lose frames and overtake
  each other, so the invariant follows each turn through them. `EventsOf`: the status events
  on their way are those of the session's turns, in the order of the turns, an end after its
  start. `TrackedOf`, `RemovalOf`: what the tracker holds, and a removal on its way, is about a
  turn that was begun. `ToldOf`: an announced turn is over for the tracker, so it is not
  announced again. `SeenOf`: a turn whose frames were not cut is still to come, tracked, or
  dealt with (`Reaches`); `ErrorsOfTracked`, `ErrorsOfNew` and `MarksOf` add what is known of
  its errors and its marks.
- GatewayClient: `AbortsArrive`: a call that the close found before its fetch carries the
  abort with it and cannot leave afterwards. `SocketInv`: a stream past the exchange has a
  socket, which an aborted signal has closed. `ItemsAreComplete` and `ItemsInOrder`: what was
  yielded and what waits are together what was sent, in its order. `EndIsTold`: a generator
  that waits has nothing to take, and the end of a socket has been told to one that does not.

**WorktreesProofs**, for every set of sessions and kinds of runs, any number of edits,
merges, crashes and failing git commands: `TypeCorrect`, `RegistryAlwaysRestored`,
`ListedWorktreesKept` and `OldEditsAlwaysSurvive`. `RegistryInv` says what an interrupted
operation left in each of the three copies. `NothingTooEarly`: of a session whose worktree is not
registered yet no copy says anything. `RecordsSaved` and `MirrorFollows`: what is in memory is
in the memento, and a mirror that was not lost has the memento or a write under way that does.
`RecoveryIsAlone`: while recovery reads the copies nothing prepares, discards or sweeps, so that
it sees what the crash left. `TreesRecorded` and `GuessesNeeded`: the worktree of a live
session is recorded, before the recovery in each copy that was not lost, and a base branch
is guessed only where both were. `SweepKnows`: the sweep is at a session that its listing did
not have. `MergeInv`: a merge that found the checkout clean knows what was edited since, and only
such a merge resets it.

**SavedStateProofs**, from `SavedStateAssumption`, which is that of its six components (for
example `HistoryAssumption`: there is an old home, the official and the recovery store are two
others and the backend is no window; the bounds are natural): `ListsAlwaysKept`,
`HistoryAlwaysKept`, `KeysAlwaysInPlace`, `KeyAndRelayAlwaysHandedOver`, `PluginsAlwaysKept` and
`ArchivesAlwaysImported`.

- The lists: a migration gives up an intent when it sees the host's list, so `HostIsTrue` follows
  that list through every frame and answer under way: each still has as archived what is due
  and as pinned only what was pinned once. `CopyIsTrue` is the same of the client's copy,
  `RestoresKept` and `PinsKept` then hold in memory, on disk and in every write under way,
  and `MetaFollows` says which write memory is ahead of the disk by. As in the run,
  `ListsKept` excepts a migration that began before the host's first frame (section 4) and
  updates that overlap.
- The histories: `WorkerSound` says what a worker has between two of its steps: the lock of
  its source from the moment it opened it, so that what it has read is what is there; the
  attachment of the source in the target; and before it writes the journal the target carries
  what was read, or its user deleted it (`Carries`). `Gentle` is what every step owes the
  others: logs grow at their ends or are deleted, what is deleted is remembered, attachments
  stay, and what another holds is left alone; with it `OthersSound` and `JournalKept` are proved
  once and not for each action. `LogsAreGenuine` is inductive only as `Genuine` states it,
  with the events of an author and any number of fork marks behind them: a fork that the
  recovery store has got is itself a source of the next migration, and forked again. The
  compare after the lock is what the proof of `AdvancesKeeps` needs.
- The settings: `RelayOnItsWay` and `ProvidersOnTheirWay` say, stage by stage of a migration,
  what of the old settings is declared, held by the host or still pending, and so what may be
  cleared. `KeysAlwaysInPlace` assumes that the runtime has the namespace llm-pi-ai: without
  it the providers are cleared unread (section 4), which the run leaves out by its
  constants. `KeyAndRelayAlwaysHandedOver` says what is still true there.

- The suite and the default plugins: an operation deletes what a state says is managed, and
  the state it has read may be another window's or older than the disk. `OnlyOurs` holds of the
  state on disk and of each copy an operation has: what counts as managed was made by an
  installation, or came up while one was about to make it (`raced`, the exception of the
  property). `Ahead` is what the conflict check found and the writes have not reached yet.
  `SeedAhead`: what a seeding no longer has to do was installed once.
- The import: `Unpacking`: of the archive at work every file that will be listed is on disk or
  still to be written; `ItemsThere` then survives the next archive, and `TempDirsGone` a failure
  at any point.
- The plugin centre: `BusyIsOwed`: a snapshot that says busy is one of an operation that will
  publish another. `LastIsPosted`: the panel has the controller's snapshot or will get it.
  `KeySound` and `KeyCurrent`: the list is what its key says, and the key is that of the
  filters, which is why a render may keep the list it filtered last when its key has not changed. `Alone` is what
  an operation that nothing overlapped has read.

**PromptStateProofs**, from `PromptStateAssumption`, that of its five components:
`CommandsAlwaysKept` and `FilesAlwaysAtHand`, theorems of `PromptSpec`.

- The digest: `ArmedHeld` ties the three places it may be in: a session for which one was armed
  has a prompt in its log, or the gateway still carries the digest for it and each of its
  prompts under way takes it along. It is kept because nothing is sent to a session before it
  exists (`NothingYet`) and no two creations make the same one (`OneCreation`).
- The queue: `StreamTells`: the last frame under way is the inbox, and once none is, the dock
  has the inbox, by that frame or by a snapshot no frame overtook. `PromptKept` follows a prompt
  through removal, edit and steer. `EditsRow`: what is edited is a row that is there.
- The links: a placeholder waits for a verdict, so its key must have been asked in this visit of
  the session, and the question be under way or lost (`WaitingIsCandidate`, `AskedIsUnderWay`).
  An answer takes its keys out of the ledger, so the converse is needed too
  (`UnderWayIsAsked`), and that no key is asked twice at a time (`AskedOnce`), or the first
  answer would take the second's.
- The file menu: `MenusSettled`: an open menu shows the answer to its query, or its timer, its
  search or its answer is under way with the number the menu waits for; numbers only grow
  (`CountsHold`). `IndexTells`: a recent index has every file but those the watcher was not told
  of. The answer to another view's search (section 4) is the exception `mixed`.
- The chips: `CacheInOrder`: what was captured after a cached selection stands after it in the
  cache, so that one which is gone has been displaced by as many others (`ChipsCarried`), the
  exception of the property.

Only model-checked, and why:

- Every liveness property: liveness under fairness is beyond the prover.
- `ScreenIsTrue` and `RenderKeepsNodes`: they compare the screen with text that is folded
  over data, which would need an induction the prover cannot do.

## 6. What is not modelled

The components with status `not_modelled`, each with its reason in
`PROJECT.json`: the activation, which is wiring. Inside the modelled components: prompts to sub-agents and the removal of a session
(PromptAdmission); the model selection, the goal and the changed files updated by the same
frames (SessionView); dispose; the geometry and keyboard of panels, the position inside a wrapped paragraph, labels, Markdown and highlighting (the webview); ranking of files; the
export of sessions and the ZIP format; request and answer schemas; the
package manager's command and the platform's notifications; wording and logging everywhere.

The interactions between the components of a sum are not explored beyond what each
module has of its surroundings: for example that a restart of the runtime (RuntimeLifecycle) empties
the stores of the webview is a possible sequence of inputs to them, not a joint run.

## 7. Plan

1. Compositions that share state: SessionView with RuntimeLifecycle (a selection across a
   restart), Worktrees with CarryOver (a session that is opened into a worktree while
   another is swept).
2. The session panel, the largest part of the webview still left out.
3. Theorems: the parts of `ScreenIsTrue` that fold nothing, those of the composer, the picker
   and the settings form.
