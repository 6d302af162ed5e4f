---------------------------- MODULE PluginCenter ----------------------------
(***************************************************************************)
(* The plugin centre: the panel of a webview (webview/plugin-center), the   *)
(* controller that runs its operations and publishes snapshots              *)
(* (plugins/plugin-center-controller.ts), the package operations of         *)
(* plugins/plugin-manager.ts and the catalogue merged from sources that     *)
(* fail one by one (plugins/plugin-catalog.ts).  A click is judged by the   *)
(* snapshot the panel holds, which may be older than the controller's.      *)
(***************************************************************************)
EXTENDS Naturals, Sequences, FiniteSets

CONSTANTS
  Plugins,     \* plugins on offer
  SourceOf,    \* the catalogue source that offers a plugin
  NewestIn,    \* the source with the latest date: the date of a catalogue
  Suite,       \* the managed suite, changed with the runtime stopped
  WebOnly,     \* plugins this workbench cannot show
  Matching,    \* plugins whose text the typed query matches
  MaxOps,      \* bound: operations started
  MaxInputs,   \* bound: changes of a filter
  MaxFaults    \* bound: sources, lists, commands and starts that fail

CenterAssumption ==
  /\ WebOnly \cup Matching \cup {Suite} \subseteq Plugins /\ Plugins = DOMAIN SourceOf
  /\ {MaxOps, MaxInputs, MaxFaults} \subseteq Nat

Sources == {"topic", "curated", "builtin"}
Jobs == 1..MaxOps

VARIABLES
  packages,    \* the profile: what is installed
  cached,      \* lastSuccessful: sources that have answered once
  installing,  \* installRequestId: the job whose installation can be cancelled
  snapshot,    \* the controller's
  wire,        \* snapshots posted to the panel
  panel,       \* the panel: open, loaded, its snapshot, its filters and its list
  jobs,        \* operations, in the order they began
  overlapped, miscancelled, \* history, for the properties
  inputs, faults

vars == <<packages, cached, installing, snapshot, wire, panel, jobs, overlapped,
          miscancelled, inputs, faults>>
history == <<overlapped, miscancelled>>

(* catalog: the sources it was merged from, none before the first.          *)
NoSnapshot == [catalog |-> {}, installed |-> {}, busy |-> FALSE, error |-> FALSE]
NewPanel == [open |-> FALSE, loaded |-> FALSE, snap |-> NoSnapshot, typed |-> FALSE,
             category |-> "all", timer |-> FALSE, key |-> <<>>, list |-> {}]

Offered(snap) == {p \in Plugins : SourceOf[p] \in snap.catalog}

Running(j) == jobs[j].at \notin {"confirm", "done"}
Quiet == wire = <<>> /\ \A j \in DOMAIN jobs : jobs[j].at = "done"
Asking == \E j \in DOMAIN jobs : jobs[j].at = "confirm" \* a modal dialog

Init ==
  /\ packages \in {{}, {Suite}} /\ cached = {} /\ installing = 0
  /\ snapshot = NoSnapshot /\ wire = <<>> /\ panel = NewPanel /\ jobs = <<>>
  /\ overlapped = FALSE /\ miscancelled = FALSE
  /\ inputs = 0 /\ faults = 0

Faulty == faults < MaxFaults /\ faults' = faults + 1

-----------------------------------------------------------------------------
(* The panel.                                                               *)

CacheKey(snap, typed, category) == <<NewestIn \in snap.catalog, typed, category>>
Filtered(snap, typed, category) ==
  {p \in Offered(snap) : (typed => p \in Matching) /\ category \in {"all", SourceOf[p]}}

(* renderMarketplace: a category that is gone falls back to all of them;    *)
(* the list is filtered again when the key of the cached one differs.       *)
Rendered(view) ==
  LET category == IF view.category \in view.snap.catalog THEN view.category ELSE "all"
      key == CacheKey(view.snap, view.typed, category)
  IN [view EXCEPT !.category = category, !.key = key, !.timer = FALSE,
        !.list = IF key = view.key THEN view.list
                 ELSE Filtered(view.snap, view.typed, category)]

(* Rendering while a search timer runs leaves the timer.                    *)
RenderedAside(view) == [Rendered(view) EXCEPT !.timer = view.timer]

(* Mutant of Accepted: the filtered list is kept while its key is the same. *)
AcceptedFromCache(view, snap) ==
  RenderedAside([view EXCEPT !.snap = snap,
    !.loaded = IF snap.busy THEN @ ELSE snap.catalog # {} /\ ~snap.error])

(* update(): the cached list goes, and a panel that got no whole catalogue   *)
(* asks for one when it is opened again.                                    *)
Accepted(view, snap) ==
  RenderedAside([view EXCEPT !.snap = snap, !.key = <<>>,
    !.loaded = IF snap.busy THEN @ ELSE snap.catalog # {} /\ ~snap.error])

Starts(kind, p, at, force) ==
  /\ Len(jobs) < MaxOps /\ ~Asking
  /\ jobs' = Append(jobs, [kind |-> kind, plugin |-> p, at |-> at, force |-> force,
                           found |-> {}, listed |-> FALSE, offers |-> {}, failed |-> {},
                           cancelled |-> FALSE])
  /\ overlapped' = (overlapped \/ (at # "confirm" /\ \E j \in DOMAIN jobs : Running(j)))

Opens ==
  /\ ~panel.open /\ ~Asking
  /\ panel' = Rendered([panel EXCEPT !.open = TRUE, !.loaded = TRUE])
  /\ IF panel.loaded THEN UNCHANGED <<jobs, overlapped>> ELSE Starts("load", Suite, "start", FALSE)
  /\ UNCHANGED <<packages, cached, installing, snapshot, wire, miscancelled, inputs, faults>>

Closes ==
  /\ panel.open /\ ~Asking /\ panel' = [panel EXCEPT !.open = FALSE]
  /\ UNCHANGED <<packages, cached, installing, snapshot, wire, jobs, history, inputs, faults>>

(* The webview is made anew, when its view is moved or shown again.         *)
Recreated ==
  /\ panel # NewPanel /\ inputs < MaxInputs /\ inputs' = inputs + 1
  /\ panel' = NewPanel /\ wire' = <<>>
  /\ UNCHANGED <<packages, cached, installing, snapshot, jobs, history, faults>>

Delivered ==
  /\ wire # <<>> /\ wire' = Tail(wire) /\ panel' = Accepted(panel, Head(wire))
  /\ UNCHANGED <<packages, cached, installing, snapshot, jobs, history, inputs, faults>>

(* Typing renders after a pause, a chosen category at once.                 *)
Types ==
  /\ panel.open /\ ~panel.snap.busy /\ inputs < MaxInputs /\ inputs' = inputs + 1
  /\ panel' = [panel EXCEPT !.typed = ~@, !.timer = TRUE]
  /\ UNCHANGED <<packages, cached, installing, snapshot, wire, jobs, history, faults>>

SearchFires ==
  /\ panel.timer /\ panel' = Rendered(panel)
  /\ UNCHANGED <<packages, cached, installing, snapshot, wire, jobs, history, inputs, faults>>

Chooses(category) ==
  /\ panel.open /\ ~panel.snap.busy /\ category \in panel.snap.catalog \ {panel.category}
  /\ inputs < MaxInputs /\ inputs' = inputs + 1
  /\ panel' = RenderedAside([panel EXCEPT !.category = category])
  /\ UNCHANGED <<packages, cached, installing, snapshot, wire, jobs, history, faults>>

(* Every control is disabled while the snapshot is busy.                    *)
Clicks(kind, p, at) ==
  /\ panel.open /\ ~panel.snap.busy
  /\ Starts(kind, p, at, kind = "load")
  /\ UNCHANGED <<packages, cached, installing, snapshot, wire, panel, miscancelled, inputs,
                 faults>>

Installs(p) == p \in panel.list \ (panel.snap.installed \cup WebOnly) /\ Clicks("install", p, "confirm")
Removes(p) == p \in panel.snap.installed /\ Clicks("remove", p, "confirm")
Toggles(p) == p \in panel.snap.installed \ {Suite} /\ Clicks("enable", p, "mutate")
Refreshes == Clicks("load", Suite, "start")

-----------------------------------------------------------------------------
(* The controller.                                                          *)

Goes(j, at) == jobs' = [jobs EXCEPT ![j].at = at]
Publish(snap) == snapshot' = snap /\ wire' = Append(wire, snap)
Pending == [snapshot EXCEPT !.busy = TRUE, !.error = FALSE]

(* Mutant of Failed: the error is shown, the panel stays busy.              *)
FailedBusy(j) == Publish([snapshot EXCEPT !.error = TRUE]) /\ Goes(j, "done")

(* mutate() failed, wherever it was.                                        *)
Failed(j) == Publish([snapshot EXCEPT !.busy = FALSE, !.error = TRUE]) /\ Goes(j, "done")

(* The confirmation of an installation or a removal.                        *)
Answered(j) ==
  /\ jobs[j].at = "confirm" /\ \E at \in {"mutate", "done"} :
       /\ Goes(j, at)
       /\ overlapped' = (overlapped \/ (at = "mutate" /\ \E k \in DOMAIN jobs : Running(k)))
  /\ UNCHANGED <<packages, cached, installing, snapshot, wire, panel, miscancelled, inputs,
                 faults>>

MutateBegins(j) ==
  /\ jobs[j].at = "mutate" /\ Publish(Pending) /\ Goes(j, "started")
  /\ UNCHANGED <<packages, cached, installing, panel, history, inputs, faults>>

(* The gateway is up; a change of the suite stops it first.  The request id *)
(* of an installation is the one that can be cancelled.                     *)
MutateGoes(j) ==
  /\ jobs[j].at = "started"
  /\ \/ /\ Goes(j, "command")
        /\ installing' = IF jobs[j].kind = "install" /\ jobs[j].plugin # Suite THEN j ELSE installing
        /\ UNCHANGED <<snapshot, wire, faults>>
     \/ Faulty /\ Failed(j) /\ UNCHANGED installing
  /\ UNCHANGED <<packages, cached, panel, history, inputs>>

Forgets(j) == installing' = IF installing = j THEN 0 ELSE installing

(* The package changed, and the list read after it; acceptResult and any    *)
(* failure of either throw.                                                 *)
MutateLands(j) ==
  /\ jobs[j].at = "command" /\ Forgets(j)
  /\ LET p == jobs[j].plugin
         changed == IF jobs[j].kind = "install" THEN packages \cup {p}
                    ELSE IF jobs[j].kind = "remove" THEN packages \ {p} ELSE packages
     IN \/ /\ ~jobs[j].cancelled /\ (jobs[j].kind = "remove" => p \in packages)
           /\ packages' = changed
           /\ \/ Goes(j, "start") /\ UNCHANGED <<snapshot, wire, faults>>
              \/ Faulty /\ Failed(j) \* changed, and then not listed
        \/ /\ jobs[j].cancelled \/ (jobs[j].kind = "remove" /\ p \notin packages)
           /\ Failed(j) /\ UNCHANGED <<packages, faults>>
        \/ /\ ~jobs[j].cancelled /\ Faulty /\ Failed(j) /\ UNCHANGED packages
  /\ UNCHANGED <<cached, panel, history, inputs>>

(* The progress notification of any operation but the suite's cancels the   *)
(* installation under way, whichever it is.                                 *)
Cancels(j) ==
  /\ jobs[j].at = "command" /\ jobs[j].plugin # Suite /\ installing # 0
  /\ jobs' = [jobs EXCEPT ![installing].cancelled = TRUE]
  /\ miscancelled' = (miscancelled \/ installing # j)
  /\ UNCHANGED <<packages, cached, installing, snapshot, wire, panel, overlapped, inputs,
                 faults>>

(* load(): without a gateway it throws before it says anything.             *)
LoadBegins(j) ==
  /\ jobs[j].at = "start"
  /\ \/ Publish(Pending) /\ Goes(j, "reading") /\ UNCHANGED faults
     \/ /\ Faulty /\ IF jobs[j].kind = "load" THEN Goes(j, "done") /\ UNCHANGED <<snapshot, wire>>
                     ELSE Failed(j)
  /\ UNCHANGED <<packages, cached, installing, panel, history, inputs>>

(* The sources settle: one that failed gives what it gave last.  A source   *)
(* asked without force may answer from its own cache of fifteen minutes.    *)
CatalogSettles(j) ==
  /\ jobs[j].at = "reading" /\ jobs[j].offers = {}
  /\ \E failed \in SUBSET {"topic", "curated"} :
       /\ IF failed = {} THEN UNCHANGED faults ELSE Faulty
       /\ cached' = cached \cup (Sources \ failed)
       /\ jobs' = [jobs EXCEPT ![j].offers = (Sources \ failed) \cup cached, ![j].failed = @ \cup failed]
  /\ UNCHANGED <<packages, installing, snapshot, wire, panel, history, inputs>>

ListSettles(j) ==
  /\ jobs[j].at = "reading" /\ ~jobs[j].listed
  /\ \/ /\ jobs' = [jobs EXCEPT ![j].listed = TRUE, ![j].found = packages] /\ UNCHANGED faults
     \/ /\ Faulty
        /\ jobs' = [jobs EXCEPT ![j].listed = TRUE, ![j].found = {}, ![j].failed = @ \cup {"list"}]
  /\ UNCHANGED <<packages, cached, installing, snapshot, wire, panel, history, inputs>>

(* The list of what is installed is the one before when it cannot be read.  *)
LoadEnds(j) ==
  /\ jobs[j].at = "reading" /\ jobs[j].offers # {} /\ jobs[j].listed
  /\ Goes(j, "done")
  /\ Publish([catalog |-> jobs[j].offers, busy |-> FALSE, error |-> jobs[j].failed # {},
              installed |-> IF "list" \in jobs[j].failed THEN snapshot.installed ELSE jobs[j].found])
  /\ UNCHANGED <<packages, cached, installing, panel, history, inputs, faults>>

Next ==
  \/ Opens \/ Closes \/ Recreated \/ Delivered \/ Types \/ SearchFires \/ Refreshes
  \/ \E category \in Sources : Chooses(category)
  \/ \E p \in Plugins : Installs(p) \/ Removes(p) \/ Toggles(p)
  \/ \E j \in DOMAIN jobs :
       \/ Answered(j) \/ MutateBegins(j) \/ MutateGoes(j) \/ MutateLands(j) \/ Cancels(j)
       \/ LoadBegins(j) \/ CatalogSettles(j) \/ ListSettles(j) \/ LoadEnds(j)

Spec == Init /\ [][Next]_vars

-----------------------------------------------------------------------------
(* Whatever fails or overlaps, no control stays disabled: once every        *)
(* operation has ended neither the controller nor a panel is busy.          *)
BusyEnds == Quiet => ~snapshot.busy /\ ~panel.snap.busy

(* The list on screen is what the filters choose from the snapshot on       *)
(* screen, unless a search is about to run (the cache of renderMarketplace). *)
ListIsFiltered ==
  ~panel.timer /\ panel.key # <<>> =>
    panel.list = Filtered(panel.snap, panel.typed, panel.category)

(* An operation that ran alone and succeeded shows what is installed, and   *)
(* the catalogue keeps every source that ever answered.                     *)
ShownIsInstalled ==
  Quiet /\ ~overlapped /\ ~snapshot.error /\ snapshot.catalog # {} =>
    snapshot.installed = packages /\ cached \subseteq snapshot.catalog

CenterSettles == BusyEnds /\ ListIsFiltered /\ ShownIsInstalled

(* Not kept: cancelling one operation leaves the others alone.              *)
CancelHitsOwn == ~miscancelled

(* Not kept: a panel that counts as loaded has a catalogue or an error to   *)
(* show, or is about to.                                                    *)
LoadedShowsSomething == Quiet /\ panel.loaded => panel.snap.catalog # {} \/ panel.snap.error
=============================================================================
