------------------------------ MODULE SavedState ------------------------------
(***************************************************************************)
(* What the extension saves or installs outside its memory: the archive and *)
(* pin lists, the histories of the shared store, the connection settings,   *)
(* the plugins and presets, the directories of an import, and the plugin    *)
(* centre that shows the plugins.  These components share no state and none *)
(* calls another, so the composition steps one of them, chosen at the start *)
(* (a sum of their state spaces, not a product).                            *)
(***************************************************************************)
EXTENDS Naturals, Sequences

CONSTANTS
  Sessions, MaxListUser, MaxListFaults,                             \* HostLists
  Runtimes, Homes, Shared, Recovery, MaxStarts, MaxWrites, MaxDeletes, MaxCrashes, \* SharedHistory
  Routes, Relay, Official, Namespaces, MaxConnects, MaxUser, MaxOthers, MaxFaults, \* ConnectionSettings
  Windows, Presets, Defaults, Injector, MaxOps, MaxEdits, MaxSuiteFaults, \* PluginSetup
  SessionNames, ConversationNames, Archives, MaxEntrySize, MaxTotalSize, MaxImports,
  MaxImportFaults,                                                  \* SessionImport
  Plugins, SourceOf, NewestIn, Suite, WebOnly, Matching, MaxCenterOps, MaxInputs, MaxCenterFaults \* PluginCenter

VARIABLES
  focus, \* the component that steps
  \* HostLists
  hArchived, hPinned, up, wire, refreshed, sawFrame, fromHost, archivedIds, baseline, pinned,
  restored, dRestored, migration, pinMigration, archiving, rpcs, meta, dMeta, updates, wanted, undone,
  wantedPins, pinnedOnce, blind, overlapped, listUser, listFaults,
  \* SharedHistory
  log, files, locks, marker, mixed, run, written, deleted, starts, crashes,
  \* ConnectionSettings
  legacy, profiles, outdated, keys, baseUrl, bound, view, job, was, held, declared, connects, user,
  others, faults,
  \* PluginSetup
  dirs, state, packages, seeded, suiteOp, made, raced, lost, everIn, ops, edits, suiteFaults,
  \* SessionImport
  plugin, importOp, tempDirs, left, asked, directories, imports, importFaults,
  \* PluginCenter
  profile, cached, installing, snapshot, posted, panel, jobs, crossed, miscancelled, inputs,
  centerFaults

listVars == <<hArchived, hPinned, up, wire, refreshed, sawFrame, fromHost, archivedIds, baseline,
              pinned, restored, dRestored, migration, pinMigration, archiving, rpcs, meta, dMeta,
              updates, wanted, undone, wantedPins, pinnedOnce, blind, overlapped, listUser, listFaults>>
storeVars == <<log, files, locks, marker, mixed, run, written, deleted, starts, crashes>>
settingVars == <<legacy, profiles, outdated, keys, baseUrl, bound, view, job, was, held, declared,
                 connects, user, others, faults>>
suiteVars == <<dirs, state, packages, seeded, suiteOp, made, raced, lost, everIn, ops, edits,
               suiteFaults>>
importVars == <<plugin, importOp, tempDirs, left, asked, directories, imports, importFaults>>
centerVars == <<profile, cached, installing, snapshot, posted, panel, jobs, crossed, miscancelled,
                inputs, centerFaults>>
vars == <<focus, listVars, storeVars, settingVars, suiteVars, importVars, centerVars>>

Lists == INSTANCE HostLists WITH
  MaxUser <- MaxListUser, MaxFaults <- MaxListFaults, writes <- updates, raced <- overlapped,
  user <- listUser, faults <- listFaults
Store == INSTANCE SharedHistory WITH Windows <- Runtimes
Settings == INSTANCE ConnectionSettings
Routing == INSTANCE PluginSetup WITH MaxFaults <- MaxSuiteFaults, op <- suiteOp, faults <- suiteFaults
Import == INSTANCE SessionImport WITH
  MaxFaults <- MaxImportFaults, op <- importOp, made <- directories, faults <- importFaults
Center == INSTANCE PluginCenter WITH
  MaxOps <- MaxCenterOps, MaxFaults <- MaxCenterFaults, packages <- profile, wire <- posted,
  overlapped <- crossed, faults <- centerFaults

ASSUME SavedStateAssumption ==
  /\ Lists!ListsAssumption /\ Store!HistoryAssumption /\ Settings!SettingsAssumption
  /\ Routing!SetupAssumption /\ Import!ImportAssumption /\ Center!CenterAssumption

(* Where it says "elsewhere" none of these steps: MCPersistence steps others. *)
Components == {"lists", "store", "settings", "suite", "import", "center", "elsewhere"}

(* The initial states of a component count where it is the one that steps.  *)
Init ==
  /\ focus \in Components
  /\ Lists!Init /\ (focus # "lists" =>
       hArchived = {} /\ dRestored = {} /\ \A s \in Sessions : ~dMeta[s].pinned)
  /\ Store!Init /\ (focus # "store" =>
       ~mixed /\ files[Shared] = "none" /\ log[Shared] = <<>>)
  /\ Settings!Init /\ (focus # "settings" =>
       legacy.url = "none" /\ ~legacy.key /\ baseUrl = "none")
  /\ Routing!Init /\ (focus # "suite" => packages = {} /\ dirs = [p \in Presets |-> "none"])
  /\ Import!Init /\ (focus # "import" => plugin = "ready")
  /\ Center!Init /\ (focus # "center" => profile = {})

ListsStep ==
  /\ focus = "lists" /\ Lists!Next
  /\ UNCHANGED <<focus, storeVars, settingVars, suiteVars, importVars, centerVars>>
StoreSteps ==
  /\ focus = "store" /\ Store!Next
  /\ UNCHANGED <<focus, listVars, settingVars, suiteVars, importVars, centerVars>>
SettingsStep ==
  /\ focus = "settings" /\ Settings!Next
  /\ UNCHANGED <<focus, listVars, storeVars, suiteVars, importVars, centerVars>>
SuiteSteps ==
  /\ focus = "suite" /\ Routing!Next
  /\ UNCHANGED <<focus, listVars, storeVars, settingVars, importVars, centerVars>>
ImportSteps ==
  /\ focus = "import" /\ Import!Next
  /\ UNCHANGED <<focus, listVars, storeVars, settingVars, suiteVars, centerVars>>
CenterSteps ==
  /\ focus = "center" /\ Center!Next
  /\ UNCHANGED <<focus, listVars, storeVars, settingVars, suiteVars, importVars>>

Next ==
  ListsStep \/ StoreSteps \/ SettingsStep \/ SuiteSteps \/ ImportSteps \/ CenterSteps

Spec == Init /\ [][Next]_vars

-----------------------------------------------------------------------------
(* A component that does not step stays where it began: its invariant is    *)
(* asked for where it is the one that steps.                                *)
Of(component, invariant) == focus = component => invariant

(* ArchiveState and SessionMetaStore: what the user restored or pinned      *)
(* before the host could hold it stays on disk until the host has it, and   *)
(* what is shown is what the next start reads.                              *)
ListsKept == Of("lists", Lists!IntentsKept /\ Lists!NoGhostMeta)

(* The shared history migration: no history is lost or mangled on its way.  *)
HistoryKept == Of("store", Store!HistoryKept)

(* The connection settings: no key of an older build is lost, and none is   *)
(* hidden behind the header of a keyless provider.                          *)
KeysInPlace == Of("settings", Settings!KeysInPlace)

(* The routing suite and the seeding of default plugins: no preset of the   *)
(* user is deleted, and the seed marker means that all defaults went in.    *)
(* The plugin centre: its panel comes to show what is installed, filtered   *)
(* by what is chosen, and a busy mark goes with the operation it is for.    *)
PluginsKept ==
  /\ Of("suite", Routing!UserPresetsSurvive /\ Routing!SeedIsComplete)
  /\ Of("center", Center!CenterSettles)

(* The import of archives: the runtime is sent to files that are there, and *)
(* no temporary directory is forgotten.                                     *)
ArchivesImported == Of("import", Import!ArchivesImported)
=============================================================================
