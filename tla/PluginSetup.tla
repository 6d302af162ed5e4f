----------------------------- MODULE PluginSetup -----------------------------
(***************************************************************************)
(* What the extension installs into its private profile: the routing suite  *)
(* (plugins/routing-suite/installer.ts), a set of preset directories and    *)
(* one package, and the default plugins (plugins/plugin-manager.ts).  All   *)
(* windows work on the same directories; only one window's operations are   *)
(* kept apart, by its mutation gate.                                        *)
(***************************************************************************)
EXTENDS Naturals, FiniteSets, Functions

CONSTANTS
  Windows,    \* windows that manage plugins
  Presets,    \* the presets of the suite
  Defaults,   \* the default plugins
  Injector,   \* the package of the suite
  MaxOps,     \* bound: operations started
  MaxEdits,   \* bound: changes users make to preset directories
  MaxFaults   \* bound: steps that fail, crashes

SetupAssumption ==
  Injector \notin Defaults /\ {MaxOps, MaxEdits, MaxFaults} \subseteq Nat

VARIABLES
  dirs,       \* preset directories on disk, by content
  state,      \* the suite's state file: ownership of each preset, NoState
  packages,   \* packages of the profile
  seeded,     \* the seed marker has the current version
  op,         \* operation of each window
  made, raced, lost, everIn, \* history, for the properties
  ops, edits, faults

vars == <<dirs, state, packages, seeded, op, made, raced, lost, everIn, ops, edits, faults>>

NoState == [p \in {} |-> "managed"]
Nothing == [at |-> "idle", todo |-> {}, created |-> {}, owner |-> NoState, known |-> FALSE,
            added |-> FALSE]
(* The suite's files and nothing else, or anything else.                    *)
Contents == {"none", "exact", "other"}
Present(p) == dirs[p] # "none"

Init ==
  /\ dirs \in [Presets -> Contents]
  /\ state = NoState /\ packages \in SUBSET Defaults /\ seeded = FALSE
  /\ op = [w \in Windows |-> Nothing]
  /\ made = {} /\ raced = {} /\ lost = {} /\ everIn = packages
  /\ ops = 0 /\ edits = 0 /\ faults = 0

Faulty == faults < MaxFaults /\ faults' = faults + 1
Starts(w) == op[w].at = "idle" /\ ops < MaxOps /\ ops' = ops + 1
Goes(w, at) == op' = [op EXCEPT ![w].at = at]
Ends(w) == op' = [op EXCEPT ![w] = Nothing]
Adds(names) == packages' = packages \cup names /\ everIn' = everIn \cup names

(* The extension removes directories; those it never made were the user's.  *)
(* Not counted: one that came up between a conflict check and the write,    *)
(* which the code takes for managed.                                        *)
Erases(ps) ==
  /\ dirs' = [p \in Presets |-> IF p \in ps THEN "none" ELSE dirs[p]]
  /\ lost' = lost \cup {p \in ps \ (made \cup raced) : Present(p)}

-----------------------------------------------------------------------------
(* install() of the suite.                                                  *)

InstallBegins(w) ==
  /\ Starts(w)
  /\ op' = [op EXCEPT ![w].at = "read", ![w].known = Injector \in packages]
  /\ UNCHANGED <<dirs, state, packages, seeded, made, raced, lost, everIn, edits, faults>>

(* Mutant of Ownership: a directory that was there is not noted as external. *)
OwnershipDefault(known) == known

(* Ownership before anything is written: as recorded, or external.          *)
Ownership(known) ==
  [p \in DOMAIN known \cup {q \in Presets : Present(q)} |->
     IF p \in DOMAIN known THEN known[p] ELSE "external"]

(* Conflicts are found before the profile changes: a directory with other   *)
(* contents ends the operation.                                             *)
ChecksConflicts(w) ==
  /\ op[w].at = "read"
  /\ IF \E p \in Presets : dirs[p] = "other"
     THEN Ends(w)
     ELSE op' = [op EXCEPT ![w].at = "presets", ![w].todo = Presets, ![w].owner = Ownership(state)]
  /\ UNCHANGED <<dirs, state, packages, seeded, made, raced, lost, everIn, ops, edits, faults>>

(* One preset, staged and renamed into place unless the directory exists.   *)
WritesPreset(w) ==
  /\ op[w].at = "presets" /\ op[w].todo # {}
  /\ \E p \in op[w].todo :
       IF Present(p)
       THEN op' = [op EXCEPT ![w].todo = @ \ {p}] /\ UNCHANGED <<dirs, made>>
       ELSE /\ dirs' = [dirs EXCEPT ![p] = "exact"] /\ made' = made \cup {p}
            /\ op' = [op EXCEPT ![w].todo = @ \ {p}, ![w].created = @ \cup {p},
                        ![w].owner = [q \in DOMAIN @ \cup {p} |-> IF q = p THEN "managed" ELSE @[q]]]
  /\ UNCHANGED <<state, packages, seeded, raced, lost, everIn, ops, edits, faults>>

(* The artifact of the injector is replaced and the package is added.       *)
AddsPackage(w) ==
  /\ op[w].at = "presets" /\ op[w].todo = {}
  /\ Adds({Injector})
  /\ op' = [op EXCEPT ![w].at = "state", ![w].added = ~op[w].known]
  /\ UNCHANGED <<dirs, state, seeded, made, raced, lost, ops, edits, faults>>

(* writeState: the old file goes before the new one is renamed into place.  *)
DropsState(w) ==
  /\ op[w].at = "state" /\ Goes(w, "rename") /\ state' = NoState
  /\ UNCHANGED <<dirs, packages, seeded, made, raced, lost, everIn, ops, edits, faults>>

RenamesState(w) ==
  /\ op[w].at = "rename" /\ Ends(w)
  /\ state' = [p \in Presets |-> IF p \in DOMAIN op[w].owner THEN op[w].owner[p] ELSE "managed"]
  /\ UNCHANGED <<dirs, packages, seeded, made, raced, lost, everIn, ops, edits, faults>>

(* A failure after the conflict check: what this operation created goes,    *)
(* and the package if it was not there; failures of that are swallowed.     *)
RollsBack(w) ==
  /\ op[w].at \in {"presets", "state", "rename"} /\ Faulty /\ Ends(w)
  /\ \E ps \in {op[w].created, {}} : Erases(ps)
  /\ \/ packages' = packages \ (IF op[w].added THEN {Injector} ELSE {})
     \/ UNCHANGED packages
  /\ UNCHANGED <<state, seeded, made, raced, everIn, ops, edits>>

-----------------------------------------------------------------------------
(* remove() of the suite.                                                   *)

RemoveBegins(w) ==
  /\ Starts(w) /\ state # NoState
  /\ op' = [op EXCEPT ![w].at = "package", ![w].owner = state]
  /\ UNCHANGED <<dirs, state, packages, seeded, made, raced, lost, everIn, edits, faults>>

(* dsh plugin remove fails for a package that is not there.                 *)
RemovesPackage(w) ==
  /\ op[w].at = "package"
  /\ IF Injector \in packages
     THEN packages' = packages \ {Injector} /\ Goes(w, "erase")
     ELSE Ends(w) /\ UNCHANGED packages
  /\ UNCHANGED <<dirs, state, seeded, made, raced, lost, everIn, ops, edits, faults>>

RemovesPresets(w) ==
  /\ op[w].at = "erase" /\ Goes(w, "forget")
  /\ Erases({p \in Presets \cap DOMAIN op[w].owner : op[w].owner[p] = "managed"})
  /\ UNCHANGED <<state, packages, seeded, made, raced, everIn, ops, edits, faults>>

ForgetsState(w) ==
  /\ op[w].at = "forget" /\ Ends(w) /\ state' = NoState
  /\ UNCHANGED <<dirs, packages, seeded, made, raced, lost, everIn, ops, edits, faults>>

-----------------------------------------------------------------------------
(* ensureDefaultPlugins() and the plugins of the user.                      *)

SeedBegins(w) ==
  /\ ~seeded /\ Starts(w)
  /\ op' = [op EXCEPT ![w].at = "seed", ![w].todo = Defaults \ packages]
  /\ UNCHANGED <<dirs, state, packages, seeded, made, raced, lost, everIn, edits, faults>>

SeedInstalls(w) ==
  /\ op[w].at = "seed"
  /\ \E p \in op[w].todo : Adds({p}) /\ op' = [op EXCEPT ![w].todo = @ \ {p}]
  /\ UNCHANGED <<dirs, state, seeded, made, raced, lost, ops, edits, faults>>

(* Mutant of SeedEnds: the marker is written whether or not all went well.  *)
SeedEndsAnyway(w) ==
  /\ op[w].at = "seed" /\ seeded' = TRUE /\ Ends(w)
  /\ UNCHANGED <<dirs, state, packages, made, raced, lost, everIn, ops, edits, faults>>

SeedEnds(w) ==
  /\ op[w].at = "seed" /\ op[w].todo = {} /\ seeded' = TRUE /\ Ends(w)
  /\ UNCHANGED <<dirs, state, packages, made, raced, lost, everIn, ops, edits, faults>>

UserRemoves(w, p) ==
  /\ p \in packages \* the manager lists it
  /\ Starts(w) /\ packages' = packages \ {p}
  /\ UNCHANGED <<dirs, state, seeded, op, made, raced, lost, everIn, edits, faults>>

UserInstalls(w, p) ==
  /\ Starts(w) /\ Adds({p})
  /\ UNCHANGED <<dirs, state, seeded, op, made, raced, lost, edits, faults>>

-----------------------------------------------------------------------------
(* The world: a step throws with nothing to undo, the process ends, users   *)
(* edit preset directories they made or were given.                         *)

Stops(w) ==
  /\ op[w].at # "idle" /\ Faulty /\ Ends(w)
  /\ UNCHANGED <<dirs, state, packages, seeded, made, raced, lost, everIn, ops, edits>>

UserEdits(p, content) ==
  /\ edits < MaxEdits /\ edits' = edits + 1 /\ dirs[p] # content
  /\ dirs' = [dirs EXCEPT ![p] = content]
  /\ raced' = raced \cup {q \in {p} : \E w \in Windows : op[w].at = "presets" /\ q \in op[w].todo}
  /\ UNCHANGED <<state, packages, seeded, op, made, lost, everIn, ops, faults>>

Next ==
  \/ \E w \in Windows :
       \/ InstallBegins(w) \/ ChecksConflicts(w) \/ WritesPreset(w) \/ AddsPackage(w)
       \/ DropsState(w) \/ RenamesState(w) \/ RollsBack(w)
       \/ RemoveBegins(w) \/ RemovesPackage(w) \/ RemovesPresets(w) \/ ForgetsState(w)
       \/ SeedBegins(w) \/ SeedInstalls(w) \/ SeedEnds(w) \/ Stops(w)
       \/ \E p \in Defaults \cup {Injector} : UserRemoves(w, p)
       \/ \E p \in Defaults : UserInstalls(w, p)
  \/ \E p \in Presets : \E content \in Contents : UserEdits(p, content)

Spec == Init /\ [][Next]_vars

-----------------------------------------------------------------------------
(* Neither a failed installation nor a removal deletes a preset directory   *)
(* that was there before any installation made one, whatever crashed or ran *)
(* in another window.                                                       *)
UserPresetsSurvive == lost = {}

(* The seed marker is on disk only when every default plugin was installed  *)
(* at some time: a start that failed half way is repeated.                  *)
SeedIsComplete == seeded => Defaults \subseteq everIn
==============================================================================
