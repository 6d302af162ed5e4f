------------------------------ MODULE HostLists ------------------------------
(***************************************************************************)
(* Lists the host keeps of the sessions (archived, pinned) and what the     *)
(* extension kept of them in its own state before: ArchiveState with its    *)
(* migration of legacy restores, the migration of legacy pins, and          *)
(* SessionMetaStore.  Labels stand for tags; the sort order and the move    *)
(* away from an archived selection are left out.                            *)
(***************************************************************************)
EXTENDS Naturals, Sequences, FiniteSets

CONSTANTS
  Sessions,  \* conversations
  MaxUser,   \* bound: operations of the user
  MaxFaults  \* bound: calls and writes that fail, disconnections, crashes

Unknown == {"?"}
Unanswered == {"..."}

ListsAssumption ==
  /\ MaxUser \in Nat /\ MaxFaults \in Nat
  /\ Sessions \cap (Unknown \cup Unanswered) = {}

VARIABLES
  hArchived, hPinned, \* the host's sets
  up, wire,           \* the workspace stream and its frames under way
  refreshed,          \* archives.refresh() of this connection has run
  sawFrame,           \* a frame of this connection has come
  fromHost,           \* archivedFromHost, Unknown at first; it outlives connections
  archivedIds, baseline, pinned, \* the client's copies
  restored, dRestored,  \* legacy restores: in memory, on disk
  migration,          \* migrateRestores
  pinMigration,       \* migrateLegacyPins, and legacyPinMigrationStarted
  archiving,          \* archive() or restore() of the user
  rpcs,               \* calls under way: [by, op, id, answer]
  meta, dMeta,        \* pin marker and label of each session: in memory, on disk
  writes,             \* updates of the store that are not confirmed, in order
  wanted, undone, wantedPins, pinnedOnce, blind, raced, \* history, for the properties
  user, faults

hostVars == <<hArchived, hPinned>>
connVars == <<up, wire, refreshed, sawFrame>>
listVars == <<fromHost, archivedIds, baseline>>
restoreVars == <<restored, dRestored, migration>>
metaVars == <<meta, dMeta, writes>>
historyVars == <<wanted, undone, wantedPins, pinnedOnce, blind, raced>>
vars == <<hostVars, connVars, listVars, pinned, restoreVars, pinMigration, archiving, rpcs,
          metaVars, historyVars, user, faults>>

Idle == [at |-> "idle", todo |-> {}, id |-> "-"]
NoPins == [at |-> "idle", todo |-> {}, id |-> "-", started |-> FALSE, failed |-> FALSE]
NotArchiving == [at |-> "idle", op |-> "-", id |-> "-"]
Blank == [pinned |-> FALSE, label |-> 0]

Init ==
  /\ hArchived \in SUBSET Sessions /\ hPinned = {}
  /\ up = FALSE /\ wire = <<>> /\ refreshed = FALSE /\ sawFrame = FALSE
  /\ fromHost = Unknown /\ archivedIds = {} /\ baseline = FALSE /\ pinned = {}
  /\ dRestored \in SUBSET Sessions /\ restored = dRestored /\ migration = Idle
  /\ dMeta \in [Sessions -> [pinned : BOOLEAN, label : {0}]] /\ meta = dMeta
  /\ pinMigration = NoPins /\ archiving = NotArchiving /\ rpcs = {} /\ writes = <<>>
  /\ wanted = dRestored \cap hArchived /\ undone = {}
  /\ wantedPins = {s \in Sessions : dMeta[s].pinned} /\ pinnedOnce = {}
  /\ blind = FALSE /\ raced = FALSE /\ user = 0 /\ faults = 0

Counted == user < MaxUser /\ user' = user + 1
Faulty == faults < MaxFaults /\ faults' = faults + 1

-----------------------------------------------------------------------------
(* Calls.                                                                   *)

Call(by, op, id) == rpcs' = rpcs \cup {[by |-> by, op |-> op, id |-> id, answer |-> Unanswered]}

HostRuns(r) ==
  /\ r.answer = Unanswered
  /\ hArchived' = CASE r.op = "archive" -> hArchived \cup {r.id}
                    [] r.op = "unarchive" -> hArchived \ {r.id}
                    [] OTHER -> hArchived
  /\ hPinned' = CASE r.op = "pin" -> hPinned \cup {r.id}
                  [] r.op = "unpin" -> hPinned \ {r.id}
                  [] OTHER -> hPinned
  /\ undone' = IF r.op = "unarchive" THEN undone \cup {r.id} ELSE undone
  /\ pinnedOnce' = IF r.op = "pin" THEN pinnedOnce \cup {r.id} ELSE pinnedOnce
  /\ rpcs' = (rpcs \ {r}) \cup
       {[r EXCEPT !.answer = IF r.op \in {"pin", "unpin"} THEN hPinned' ELSE hArchived']}
  /\ wire' = IF up THEN Append(wire, [archived |-> hArchived', pinned |-> hPinned']) ELSE wire
  /\ UNCHANGED <<up, refreshed, sawFrame, listVars, pinned, restoreVars, pinMigration, archiving,
                 metaVars, wanted, wantedPins, blind, raced, user, faults>>

Answered(r) == r.answer # Unanswered /\ rpcs' = rpcs \ {r}
Failed(r) == Faulty /\ rpcs' = rpcs \ {r}

-----------------------------------------------------------------------------
(* ArchiveState.                                                            *)

MigrationStarts ==
  migration' = IF restored # {} /\ migration = Idle
               THEN [Idle EXCEPT !.at = "loop", !.todo = restored] ELSE migration

(* refresh() installs what the service holds, which may be nothing yet or   *)
(* the set of an earlier connection.                                        *)
Refresh ==
  /\ up /\ ~refreshed /\ refreshed' = TRUE
  /\ baseline' = TRUE
  /\ archivedIds' = IF fromHost = Unknown THEN {} ELSE fromHost
  /\ blind' = (blind \/ ~sawFrame)
  /\ MigrationStarts
  /\ UNCHANGED <<hostVars, up, wire, sawFrame, fromHost, pinned, restored, dRestored, pinMigration,
                 archiving, rpcs, metaVars, wanted, undone, wantedPins, pinnedOnce, raced, user, faults>>

Wants(id) == wanted' = wanted \ {id}

(* Mutant of MigrateRestore: the intent is dropped before the host is asked. *)
MigrateRestoreFirst(id) ==
  /\ restored' = restored \ {id}
  /\ IF id \in archivedIds
     THEN Call("migration", "unarchive", id) /\ migration' = [migration EXCEPT !.at = "persist", !.id = id]
     ELSE migration' = [migration EXCEPT !.at = "persist", !.id = id] /\ UNCHANGED rpcs

(* One round of migrateRestores.                                            *)
MigrateRestore(id) ==
  IF id \in archivedIds
  THEN /\ Call("migration", "unarchive", id)
       /\ migration' = [migration EXCEPT !.at = "rpc", !.id = id, !.todo = @ \ {id}]
       /\ UNCHANGED restored
  ELSE /\ restored' = restored \ {id}
       /\ migration' = [migration EXCEPT !.at = "persist", !.id = id, !.todo = @ \ {id}]
       /\ UNCHANGED rpcs

MigrationGoesOn ==
  /\ migration.at = "loop"
  /\ IF migration.todo = {} \/ ~baseline
     THEN migration' = Idle /\ UNCHANGED <<restored, rpcs>>
     ELSE \E id \in migration.todo : MigrateRestore(id)
  /\ UNCHANGED <<hostVars, connVars, listVars, pinned, dRestored, pinMigration, archiving,
                 metaVars, historyVars, user, faults>>

Unarchived(r) ==
  /\ r.by = "migration" /\ Answered(r)
  /\ fromHost' = r.answer
  /\ IF r.id \in r.answer
     THEN migration' = [migration EXCEPT !.at = "loop"] /\ UNCHANGED <<restored, archivedIds>>
     ELSE /\ archivedIds' = r.answer
          /\ restored' = restored \ {r.id}
          /\ migration' = [migration EXCEPT !.at = "persist"]
  /\ UNCHANGED <<hostVars, connVars, baseline, pinned, dRestored, pinMigration, archiving,
                 metaVars, historyVars, user, faults>>

Kept(id) == restored' = restored \cup {id} /\ migration' = [migration EXCEPT !.at = "loop"]

UnarchiveFails(r) ==
  /\ r.by = "migration" /\ Failed(r) /\ Kept(r.id)
  /\ UNCHANGED <<hostVars, connVars, listVars, pinned, dRestored, pinMigration, archiving,
                 metaVars, historyVars, user>>

PersistRestores ==
  /\ migration.at = "persist"
  /\ \/ /\ dRestored' = restored /\ migration' = [migration EXCEPT !.at = "loop"]
        /\ UNCHANGED <<restored, faults>>
     \/ Faulty /\ Kept(migration.id) /\ UNCHANGED dRestored
  /\ UNCHANGED <<hostVars, connVars, listVars, pinned, pinMigration, archiving, rpcs,
                 metaVars, historyVars, user>>

(* archive() and restore() wait for a migration under way.                  *)
UserAsks(op, id) ==
  /\ up /\ archiving = NotArchiving /\ Counted
  /\ archiving' = [at |-> "wait", op |-> op, id |-> id]
  /\ UNCHANGED <<hostVars, connVars, listVars, pinned, restoreVars, pinMigration, rpcs,
                 metaVars, historyVars, faults>>

AskHost ==
  /\ archiving.at = "wait" /\ migration = Idle
  /\ IF archiving.op = "archive"
        \/ (baseline /\ archiving.id \in archivedIds \ restored)
     THEN /\ Call("user", archiving.op, archiving.id)
          /\ archiving' = [archiving EXCEPT !.at = "rpc"]
     ELSE archiving' = NotArchiving /\ UNCHANGED rpcs
  /\ UNCHANGED <<hostVars, connVars, listVars, pinned, restoreVars, pinMigration,
                 metaVars, historyVars, user, faults>>

ArchiveLands(r) ==
  /\ r.by = "user" /\ Answered(r)
  /\ fromHost' = r.answer /\ archivedIds' = r.answer /\ baseline' = TRUE
  /\ IF r.op = "archive"
     THEN restored' = restored \ {r.id} /\ archiving' = [archiving EXCEPT !.at = "persist"] /\ Wants(r.id)
     ELSE archiving' = NotArchiving /\ UNCHANGED <<restored, wanted>>
  /\ UNCHANGED <<hostVars, connVars, pinned, dRestored, migration, pinMigration, metaVars,
                 undone, wantedPins, pinnedOnce, blind, raced, user, faults>>

ArchiveFails(r) ==
  /\ r.by = "user" /\ Failed(r) /\ archiving' = NotArchiving
  /\ UNCHANGED <<hostVars, connVars, listVars, pinned, restoreVars, pinMigration,
                 metaVars, historyVars, user>>

ArchivePersists ==
  /\ archiving.at = "persist" /\ archiving' = NotArchiving
  /\ \/ dRestored' = restored /\ UNCHANGED faults
     \/ Faulty /\ UNCHANGED dRestored
  /\ UNCHANGED <<hostVars, connVars, listVars, pinned, restored, migration, pinMigration, rpcs,
                 metaVars, historyVars, user>>

-----------------------------------------------------------------------------
(* handleWorkspace: the first frame of a connection is its baseline.        *)

PinMigrationStarts ==
  pinMigration' = IF sawFrame \/ pinMigration.started THEN pinMigration
                  ELSE [at |-> "loop", id |-> "-", started |-> TRUE, failed |-> FALSE,
                        todo |-> {s \in Sessions : meta[s].pinned}]

HandleWorkspace ==
  /\ wire # <<>> /\ wire' = Tail(wire)
  /\ LET frame == Head(wire) IN
       /\ fromHost' = frame.archived /\ archivedIds' = frame.archived /\ baseline' = TRUE
       /\ pinned' = frame.pinned
  /\ MigrationStarts /\ PinMigrationStarts
  /\ sawFrame' = TRUE
  /\ UNCHANGED <<hostVars, up, refreshed, restored, dRestored, archiving, rpcs,
                 metaVars, historyVars, user, faults>>

-----------------------------------------------------------------------------
(* SessionMetaStore.  A write carries the whole map of its caller.          *)

Write(by, id, candidate) == writes' = Append(writes, [by |-> by, id |-> id, meta |-> candidate])
Cleared(id) == [meta EXCEPT ![id].pinned = FALSE]

SetTags(id) ==
  /\ Counted
  /\ Write("update", id, [meta EXCEPT ![id].label = user'])
  /\ UNCHANGED <<hostVars, connVars, listVars, pinned, restoreVars, pinMigration, archiving, rpcs,
                 meta, dMeta, historyVars, faults>>

(* removeSession drops its record first and writes what is left.            *)
RemoveSession(id) ==
  /\ up /\ Counted /\ meta[id] # Blank
  /\ meta' = [meta EXCEPT ![id] = Blank]
  /\ Write("remove", id, meta')
  /\ raced' = (raced \/ writes # <<>>)
  /\ wantedPins' = wantedPins \ {id}
  /\ UNCHANGED <<hostVars, connVars, listVars, pinned, restoreVars, pinMigration, archiving, rpcs,
                 dMeta, wanted, undone, pinnedOnce, blind, faults>>

(* Mutant of Committed: memory is changed before the write is confirmed.    *)
CommittedAlways(write, done) == IF write.by = "remove" THEN meta ELSE write.meta

(* An update changes memory once its write is confirmed.                    *)
Committed(write, done) == IF done /\ write.by # "remove" THEN write.meta ELSE meta

AfterWrite(write, done) ==
  pinMigration' = IF write.by # "pins" THEN pinMigration
                  ELSE [pinMigration EXCEPT !.at = "loop", !.failed = @ \/ ~done]

WriteSettles ==
  /\ writes # <<>> /\ writes' = Tail(writes)
  /\ LET write == Head(writes) IN
       \E done \in BOOLEAN :
         /\ IF done THEN UNCHANGED faults ELSE Faulty
         /\ dMeta' = IF done THEN write.meta ELSE dMeta
         /\ meta' = Committed(write, done)
         /\ raced' = (raced \/ (~done /\ write.by = "remove") \/ Len(writes) > 1)
         /\ AfterWrite(write, done)
  /\ UNCHANGED <<hostVars, connVars, listVars, pinned, restoreVars, archiving, rpcs,
                 wanted, undone, wantedPins, pinnedOnce, blind, user>>

(* migrateLegacyPins: the marker goes once the host has the pin.            *)
PinsGoOn ==
  /\ pinMigration.at = "loop"
  /\ IF pinMigration.todo = {}
     THEN /\ pinMigration' = [pinMigration EXCEPT !.at = "idle", !.started = ~pinMigration.failed]
          /\ UNCHANGED <<rpcs, writes>>
     ELSE \E id \in pinMigration.todo :
            IF id \in pinned
            THEN /\ Write("pins", id, Cleared(id)) /\ UNCHANGED rpcs
                 /\ pinMigration' = [pinMigration EXCEPT !.at = "write", !.todo = @ \ {id}]
            ELSE /\ Call("pins", "pin", id) /\ UNCHANGED writes
                 /\ pinMigration' = [pinMigration EXCEPT !.at = "rpc", !.todo = @ \ {id}]
  /\ UNCHANGED <<hostVars, connVars, listVars, pinned, restoreVars, archiving, meta, dMeta,
                 historyVars, user, faults>>

PinLands(r) ==
  /\ r.by = "pins" /\ Answered(r)
  /\ pinned' = r.answer
  /\ Write("pins", r.id, Cleared(r.id))
  /\ pinMigration' = [pinMigration EXCEPT !.at = "write"]
  /\ UNCHANGED <<hostVars, connVars, listVars, restoreVars, archiving, meta, dMeta,
                 historyVars, user, faults>>

PinFails(r) ==
  /\ r.by = "pins" /\ Failed(r)
  /\ pinMigration' = [pinMigration EXCEPT !.at = "loop", !.failed = TRUE]
  /\ UNCHANGED <<hostVars, connVars, listVars, pinned, restoreVars, archiving, metaVars,
                 historyVars, user>>

ToggleSessionPin(id) ==
  /\ up /\ Counted /\ \A r \in rpcs : r.by # "toggle"
  /\ Call("toggle", IF id \in pinned THEN "unpin" ELSE "pin", id)
  /\ UNCHANGED <<hostVars, connVars, listVars, pinned, restoreVars, pinMigration, archiving,
                 metaVars, historyVars, faults>>

ToggleLands(r) ==
  /\ r.by = "toggle" /\ Answered(r)
  /\ pinned' = r.answer
  /\ UNCHANGED <<hostVars, connVars, listVars, restoreVars, pinMigration, archiving, metaVars,
                 historyVars, user, faults>>

-----------------------------------------------------------------------------
Connect ==
  /\ ~up /\ up' = TRUE /\ refreshed' = FALSE /\ sawFrame' = FALSE
  /\ wire' = <<[archived |-> hArchived, pinned |-> hPinned]>>
  /\ UNCHANGED <<hostVars, listVars, pinned, restoreVars, pinMigration, archiving, rpcs, metaVars,
                 historyVars, user, faults>>

(* disconnect() aborts the calls: what waits for one takes its error path,  *)
(* and a migration of pins finds another client and returns.                *)
Disconnect ==
  /\ up /\ Faulty /\ up' = FALSE /\ wire' = <<>> /\ rpcs' = {}
  /\ baseline' = FALSE /\ pinned' = {}
  /\ migration' = IF migration.at = "rpc" THEN [migration EXCEPT !.at = "loop"] ELSE migration
  /\ pinMigration' = NoPins
  /\ writes' = [i \in DOMAIN writes |->
                  [writes[i] EXCEPT !.by = IF @ = "pins" THEN "update" ELSE @]]
  /\ archiving' = IF archiving.at = "rpc" THEN NotArchiving ELSE archiving
  /\ UNCHANGED <<hostVars, refreshed, sawFrame, fromHost, archivedIds, restored, dRestored, meta, dMeta,
                 historyVars, user>>

(* The window is reloaded: what is on disk is what there is.                *)
Reload ==
  /\ Faulty /\ up' = FALSE /\ wire' = <<>> /\ rpcs' = {} /\ writes' = <<>>
  /\ fromHost' = Unknown /\ archivedIds' = {} /\ baseline' = FALSE /\ pinned' = {}
  /\ restored' = dRestored /\ migration' = Idle /\ pinMigration' = NoPins
  /\ archiving' = NotArchiving /\ meta' = dMeta
  /\ UNCHANGED <<hostVars, refreshed, sawFrame, dRestored, dMeta, historyVars, user>>

Next ==
  \/ Refresh \/ MigrationGoesOn \/ PersistRestores \/ AskHost \/ ArchivePersists
  \/ HandleWorkspace \/ WriteSettles \/ PinsGoOn \/ Connect \/ Disconnect \/ Reload
  \/ \E id \in Sessions : \/ \E op \in {"archive", "unarchive"} : UserAsks(op, id)
                          \/ SetTags(id) \/ RemoveSession(id) \/ ToggleSessionPin(id)
  \/ \E r \in rpcs : \/ HostRuns(r) \/ Unarchived(r) \/ UnarchiveFails(r) \/ ArchiveLands(r)
                     \/ ArchiveFails(r) \/ PinLands(r) \/ PinFails(r) \/ ToggleLands(r)

Spec == Init /\ [][Next]_vars

-----------------------------------------------------------------------------
(* archive-state.ts:113, "never discard a user's restore intent": a session *)
(* restored before the host could unarchive is on disk as such until the    *)
(* host has unarchived it or the user archives it again.                    *)
RestoreIntentKept == wanted \subseteq dRestored \cup undone

(* The same as long as no migration began before the host's first frame,    *)
(* and for pins (harness-gateway-service.ts:2000): a pin of the old store   *)
(* stays there until the host has it, whatever fails in between.            *)
IntentsKept ==
  /\ blind \/ RestoreIntentKept
  /\ raced \/ wantedPins \subseteq {s \in Sessions : dMeta[s].pinned} \cup pinnedOnce

(* session-meta-store.ts:6, "a failed write can never leave a ghost state": *)
(* with no write under way, what is shown is what the next start will read. *)
(* Updates that overlap and failed removals are excepted.                   *)
NoGhostMeta == writes = <<>> /\ ~raced => meta = dMeta
=============================================================================
