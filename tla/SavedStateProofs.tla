--------------------------- MODULE SavedStateProofs ---------------------------
(***************************************************************************)
(* Proofs about SavedState: what holds of a component by itself holds in    *)
(* the composition, where one component steps and the others rest.          *)
(***************************************************************************)
EXTENDS SavedState, FiniteSetTheorems, SequenceTheorems, TLAPS

-----------------------------------------------------------------------------
(* Sequences.                                                               *)

(* What is left of a queue once its head is taken.                          *)
LEMMA TailOf ==
  ASSUME NEW S, NEW s \in Seq(S), s # <<>>
  PROVE  /\ Tail(s) \in Seq(S) /\ 1 \in DOMAIN s /\ Head(s) = s[1] /\ Head(s) \in S
         /\ Len(Tail(s)) = Len(s) - 1 /\ Len(s) \in Nat \ {0}
         /\ \A i \in DOMAIN Tail(s) :
              i \in Nat /\ i + 1 # 1 /\ i + 1 \in DOMAIN s /\ Tail(s)[i] = s[i + 1]
         /\ \A i \in DOMAIN s : i = 1 \/ (i - 1 \in DOMAIN Tail(s) /\ Tail(s)[i - 1] = s[i])
PROOF
<1>1. /\ Tail(s) \in Seq(S) /\ Head(s) = s[1] /\ Len(Tail(s)) = Len(s) - 1 /\ Len(s) \in Nat \ {0}
      /\ DOMAIN s = 1..Len(s) /\ DOMAIN Tail(s) = 1..Len(Tail(s))
      /\ \A i \in 1..Len(Tail(s)) : Tail(s)[i] = s[i + 1]
  BY HeadTailProperties, LenProperties
<1>2. \A i \in DOMAIN Tail(s) :
        i \in Nat /\ i + 1 # 1 /\ i + 1 \in DOMAIN s /\ Tail(s)[i] = s[i + 1]
  BY <1>1
<1>3. \A i \in DOMAIN s : i = 1 \/ (i - 1 \in DOMAIN Tail(s) /\ Tail(s)[i - 1] = s[i])
  BY <1>1
<1>4. 1 \in DOMAIN s /\ s[1] \in S
  BY <1>1, ElementOfSeq
<1> QED
  BY <1>1, <1>2, <1>3, <1>4

(* A queue with an element more.                                            *)
LEMMA AppendOf ==
  ASSUME NEW S, NEW s \in Seq(S), NEW x \in S
  PROVE  /\ Append(s, x) \in Seq(S) /\ Append(s, x) # <<>> /\ Len(Append(s, x)) = Len(s) + 1
         /\ \A i \in DOMAIN s : i \in DOMAIN Append(s, x) /\ Append(s, x)[i] = s[i]
         /\ \A i \in DOMAIN Append(s, x) : i \in DOMAIN s \/ i = Len(s) + 1
         /\ Len(s) + 1 \in DOMAIN Append(s, x) /\ Append(s, x)[Len(s) + 1] = x
         /\ Len(s) \in Nat /\ Len(s) + 1 \notin DOMAIN s
PROOF BY AppendProperties, LenProperties

-----------------------------------------------------------------------------
(* The archive and pin lists.                                               *)

Ids == Sessions \cup {"-"}
MetaMap == [Sessions -> [pinned : BOOLEAN, label : Nat]]
FrameRecord == [archived : SUBSET Sessions, pinned : SUBSET Sessions]
WriteRecord == [by : {"update", "remove", "pins"}, id : Ids, meta : MetaMap]
CallRecord ==
  [by : {"migration", "user", "pins", "toggle"}, op : {"archive", "unarchive", "pin", "unpin"},
   id : Sessions, answer : (SUBSET Sessions) \cup {Lists!Unanswered}]

MigrationRecord ==
  [at : {"idle", "loop", "rpc", "persist"}, todo : SUBSET Ids, id : Ids]
ArchivingRecord ==
  [at : {"idle", "wait", "rpc", "persist"}, op : {"-", "archive", "unarchive"}, id : Ids]
PinRecord ==
  [at : {"idle", "loop", "rpc", "write"}, todo : SUBSET Sessions, id : {"-"},
   started : BOOLEAN, failed : BOOLEAN]

ListsTypes ==
  /\ hArchived \subseteq Sessions /\ hPinned \subseteq Sessions
  /\ wire \in Seq(FrameRecord) /\ rpcs \subseteq CallRecord
  /\ fromHost \in (SUBSET Sessions) \cup {Lists!Unknown} /\ archivedIds \subseteq Sessions
  /\ pinned \subseteq Sessions /\ restored \subseteq Ids /\ dRestored \subseteq Ids
  /\ migration \in MigrationRecord /\ pinMigration \in PinRecord
  /\ archiving \in ArchivingRecord
  /\ (archiving.at = "wait" => archiving.op # "-" /\ archiving.id \in Sessions)
  /\ meta \in MetaMap /\ dMeta \in MetaMap /\ updates \in Seq(WriteRecord)
  /\ listUser \in Nat /\ wanted \subseteq Sessions /\ wantedPins \subseteq Sessions

(* What the user restored and the host still has archived.                  *)
Due == wanted \ undone

(* What asks the host for what.                                             *)
CallsMatch ==
  \A r \in rpcs :
    /\ r.by = "pins" => r.op = "pin"
    /\ r.by = "toggle" => r.op \in {"pin", "unpin"}
    /\ r.by \in {"migration", "user"} => r.op \in {"archive", "unarchive"}

(* All that comes from the host holds what is due as archived, and as       *)
(* pinned only what was pinned.                                             *)
HostIsTrue ==
  /\ Due \subseteq hArchived /\ hPinned \subseteq pinnedOnce
  /\ \A i \in 1..Len(wire) : Due \subseteq wire[i].archived /\ wire[i].pinned \subseteq pinnedOnce
  /\ \A r \in rpcs : r.answer # Lists!Unanswered =>
       IF r.op \in {"archive", "unarchive"} THEN Due \subseteq r.answer
       ELSE r.answer \subseteq pinnedOnce
  /\ \A r \in rpcs : r.op = "pin" /\ r.answer # Lists!Unanswered => r.id \in pinnedOnce
  /\ fromHost = Lists!Unknown \/ Due \subseteq fromHost
  /\ up /\ sawFrame => fromHost # Lists!Unknown
  /\ pinned \subseteq pinnedOnce

(* The client's list, unless it was guessed.                                *)
CopyIsTrue == ~blind /\ baseline => Due \subseteq archivedIds

RestoresKept == ~blind => wanted \subseteq (restored \cup undone) \cap (dRestored \cup undone)

(* A pin the host does not have is in memory, on disk and in every write.   *)
PinsKept ==
  ~overlapped => \A s \in wantedPins \ pinnedOnce :
    /\ meta[s].pinned /\ dMeta[s].pinned
    /\ \A i \in 1..Len(updates) : updates[i].meta[s].pinned

MetaFollows ==
  ~overlapped =>
    /\ updates = <<>> => meta = dMeta
    /\ updates # <<>> =>
         IF updates[1].by = "remove" THEN updates[1].meta = meta ELSE meta = dMeta

ListsInv ==
  /\ ListsTypes /\ CallsMatch /\ HostIsTrue /\ CopyIsTrue /\ RestoresKept /\ PinsKept
     /\ MetaFollows

LEMMA CallKeeps ==
  ASSUME rpcs \subseteq CallRecord, NEW by \in {"migration", "user", "pins", "toggle"},
         NEW op \in {"archive", "unarchive", "pin", "unpin"}, NEW id \in Sessions, Lists!Call(by,
               op, id)
  PROVE  /\ rpcs' \subseteq CallRecord
         /\ \A r \in rpcs' : r \notin rpcs =>
              r.by = by /\ r.op = op /\ r.id = id /\ r.answer = Lists!Unanswered
PROOF
<1> DEFINE rpc == [by |-> by, op |-> op, id |-> id, answer |-> Lists!Unanswered]
<1>1. /\ rpc \in CallRecord /\ rpc.by = by /\ rpc.op = op /\ rpc.id = id
      /\ rpc.answer = Lists!Unanswered
  BY DEF CallRecord
<1>2. rpcs' = rpcs \cup {rpc}
  BY DEF Lists!Call
<1> HIDE DEF rpc
<1> QED
  BY <1>1, <1>2

LEMMA WriteKeeps ==
  ASSUME updates \in Seq(WriteRecord), NEW by \in {"update", "remove", "pins"}, NEW id \in Ids,
         NEW candidate \in MetaMap, Lists!Write(by, id, candidate)
  PROVE  /\ updates' \in Seq(WriteRecord) /\ Len(updates') = Len(updates) + 1
         /\ \A i \in 1..Len(updates) : updates'[i] = updates[i]
         /\ updates'[Len(updates) + 1] = [by |-> by, id |-> id, meta |-> candidate]
         /\ updates'[Len(updates) + 1].meta = candidate /\ updates'[Len(updates) + 1].by = by
PROOF
<1>1. [by |-> by, id |-> id, meta |-> candidate] \in WriteRecord
  BY DEF WriteRecord
<1> QED
  BY <1>1 DEF Lists!Write

LEMMA ClearedTyped ==
  ASSUME meta \in MetaMap, NEW id \in Ids
  PROVE  /\ Lists!Cleared(id) \in MetaMap
         /\ \A s \in Sessions \ {id} : Lists!Cleared(id)[s] = meta[s]
PROOF
<1>1. CASE id \in Sessions
  BY <1>1 DEF Lists!Cleared, MetaMap
<1>2. CASE id \notin Sessions
  BY <1>2 DEF Lists!Cleared, MetaMap
<1> QED
  BY <1>1, <1>2

LEMMA TailKeeps ==
  ASSUME NEW S, NEW s \in Seq(S), s # <<>>
  PROVE  /\ Tail(s) \in Seq(S) /\ Len(Tail(s)) = Len(s) - 1 /\ Head(s) \in S /\ Head(s) = s[1]
         /\ \A i \in 1..Len(Tail(s)) : Tail(s)[i] = s[i + 1] /\ i + 1 \in 1..Len(s)
         /\ 1 \in 1..Len(s)
PROOF OBVIOUS

LEMMA RefreshKeeps ==
  ASSUME Lists!ListsAssumption, ListsInv, Lists!Refresh
  PROVE  ListsInv'
PROOF
<1>1. ListsTypes'
  <2>1. migration' \in MigrationRecord
    <3>1. migration \in MigrationRecord /\ restored \in SUBSET Ids
      BY DEF ListsInv, ListsTypes
    <3>2. [Lists!Idle EXCEPT !.at = "loop", !.todo = restored] \in MigrationRecord
      BY <3>1 DEF MigrationRecord, Lists!Idle, Ids
    <3> QED
      BY <3>1, <3>2 DEF Lists!Refresh, Lists!MigrationStarts
  <2>2. archivedIds' \subseteq Sessions
    BY DEF ListsInv, ListsTypes, Lists!Refresh
  <2> QED
    BY <2>1, <2>2 DEF ListsInv, ListsTypes, Lists!Refresh, Lists!hostVars, Lists!metaVars
<1>2. CallsMatch'
  BY DEF ListsInv, Lists!ListsAssumption, ListsTypes, CallsMatch, Lists!Refresh, Lists!hostVars,
         Lists!connVars, Lists!listVars, Lists!restoreVars, Lists!metaVars, Lists!historyVars,
         Lists!MigrationStarts, Lists!Idle
<1>3. HostIsTrue'
  BY DEF ListsInv, Lists!ListsAssumption, ListsTypes, HostIsTrue, Due, CallsMatch, Lists!Refresh,
         Lists!hostVars, Lists!connVars, Lists!listVars, Lists!restoreVars, Lists!metaVars,
         Lists!historyVars, Lists!MigrationStarts, Lists!Idle
<1>4. CopyIsTrue'
  BY DEF ListsInv, Lists!ListsAssumption, ListsTypes, CopyIsTrue, HostIsTrue, Due, CallsMatch,
         Lists!Refresh, Lists!hostVars, Lists!connVars, Lists!listVars, Lists!restoreVars,
         Lists!metaVars, Lists!historyVars, Lists!MigrationStarts, Lists!Idle
<1>5. RestoresKept'
  BY DEF ListsInv, Lists!ListsAssumption, ListsTypes, RestoresKept, CopyIsTrue, HostIsTrue,
         CallsMatch, Due, Lists!Refresh, Lists!hostVars, Lists!connVars, Lists!listVars,
         Lists!restoreVars, Lists!metaVars, Lists!historyVars, Lists!MigrationStarts, Lists!Idle
<1>6. PinsKept'
  BY DEF ListsInv, Lists!ListsAssumption, ListsTypes, PinsKept, HostIsTrue, CallsMatch,
         Lists!Refresh, Lists!hostVars, Lists!connVars, Lists!listVars, Lists!restoreVars,
         Lists!metaVars, Lists!historyVars, Lists!MigrationStarts, Lists!Idle
<1>7. MetaFollows'
  BY DEF ListsInv, Lists!ListsAssumption, ListsTypes, MetaFollows, Lists!Refresh, Lists!hostVars,
         Lists!connVars, Lists!listVars, Lists!restoreVars, Lists!metaVars, Lists!historyVars,
         Lists!MigrationStarts, Lists!Idle
<1> QED
  BY <1>1, <1>2, <1>3, <1>4, <1>5, <1>6, <1>7 DEF ListsInv

LEMMA MigrationGoesOnKeeps ==
  ASSUME Lists!ListsAssumption, ListsInv, Lists!MigrationGoesOn
  PROVE  ListsInv'
PROOF
<1>0. \/ migration' = Lists!Idle /\ UNCHANGED <<restored, rpcs>>
      \/ \E id \in Ids : Lists!MigrateRestore(id) /\ baseline
  BY DEF Lists!MigrationGoesOn, ListsInv, ListsTypes, MigrationRecord
<1>1. ListsTypes'
  <2>1. CASE migration' = Lists!Idle /\ UNCHANGED <<restored, rpcs>>
    <3>1. Lists!Idle \in MigrationRecord
      BY DEF Lists!Idle, MigrationRecord, Ids
    <3> QED
      BY <2>1, <3>1 DEF ListsInv, ListsTypes, Lists!MigrationGoesOn, Lists!hostVars,
             Lists!connVars, Lists!listVars, Lists!metaVars, Lists!historyVars
  <2>2. CASE \E id \in Ids : Lists!MigrateRestore(id) /\ baseline
    <3>1. PICK id \in Ids : Lists!MigrateRestore(id)
      BY <2>2
    <3>2. migration \in MigrationRecord /\ restored \subseteq Ids
      BY DEF ListsInv, ListsTypes
    <3>3. migration' \in MigrationRecord /\ restored' \subseteq Ids
      <4>1. CASE id \in archivedIds
        BY <3>1, <3>2, <4>1 DEF Lists!MigrateRestore, MigrationRecord
      <4>2. CASE id \notin archivedIds
        BY <3>1, <3>2, <4>2 DEF Lists!MigrateRestore, MigrationRecord
      <4> QED
        BY <4>1, <4>2
    <3>4. rpcs' \subseteq CallRecord
      <4>1. CASE id \in archivedIds
        BY <3>1, <4>1, CallKeeps DEF Lists!MigrateRestore, ListsInv, ListsTypes
      <4>2. CASE id \notin archivedIds
        BY <3>1, <4>2 DEF Lists!MigrateRestore, ListsInv, ListsTypes
      <4> QED
        BY <4>1, <4>2
    <3> QED
      BY <3>3, <3>4 DEF ListsInv, ListsTypes, Lists!MigrationGoesOn, Lists!hostVars,
             Lists!connVars, Lists!listVars, Lists!metaVars, Lists!historyVars
  <2> QED
    BY <1>0, <2>1, <2>2
<1>10. \A r \in rpcs' : r \notin rpcs =>
         r.by = "migration" /\ r.op = "unarchive" /\ r.answer = Lists!Unanswered
  <2>1. CASE \E id \in Ids : Lists!MigrateRestore(id) /\ baseline
    <3>1. PICK id \in Ids : Lists!MigrateRestore(id)
      BY <2>1
    <3>2. CASE id \in archivedIds
      BY <3>1, <3>2, CallKeeps DEF Lists!MigrateRestore, ListsInv, ListsTypes
    <3>3. CASE id \notin archivedIds
      BY <3>1, <3>3 DEF Lists!MigrateRestore
    <3> QED
      BY <3>2, <3>3
  <2> QED
    BY <1>0, <2>1
<1>2. CallsMatch'
  BY <1>10 DEF ListsInv, CallsMatch
<1>3. HostIsTrue'
  BY <1>10 DEF ListsInv, HostIsTrue, Due, Lists!MigrationGoesOn, Lists!hostVars, Lists!connVars,
         Lists!listVars, Lists!historyVars
<1>4. CopyIsTrue'
  BY DEF ListsInv, Lists!ListsAssumption, ListsTypes, CopyIsTrue, HostIsTrue, Due, CallsMatch,
         Lists!MigrationGoesOn, Lists!hostVars, Lists!connVars, Lists!listVars,
         Lists!restoreVars, Lists!metaVars, Lists!historyVars, Lists!MigrateRestore, Lists!Call,
         Lists!Idle
<1>5. RestoresKept'
  BY DEF ListsInv, Lists!ListsAssumption, ListsTypes, RestoresKept, CopyIsTrue, HostIsTrue,
         CallsMatch, Due, Lists!MigrationGoesOn, Lists!hostVars, Lists!connVars, Lists!listVars,
         Lists!restoreVars, Lists!metaVars, Lists!historyVars, Lists!MigrateRestore, Lists!Call,
         Lists!Idle
<1>6. PinsKept'
  BY DEF ListsInv, Lists!ListsAssumption, ListsTypes, PinsKept, HostIsTrue, CallsMatch,
         Lists!MigrationGoesOn, Lists!hostVars, Lists!connVars, Lists!listVars,
         Lists!restoreVars, Lists!metaVars, Lists!historyVars, Lists!MigrateRestore, Lists!Call,
         Lists!Idle
<1>7. MetaFollows'
  BY DEF ListsInv, Lists!ListsAssumption, ListsTypes, MetaFollows, Lists!MigrationGoesOn,
         Lists!hostVars, Lists!connVars, Lists!listVars, Lists!restoreVars, Lists!metaVars,
         Lists!historyVars, Lists!MigrateRestore, Lists!Call, Lists!Idle
<1> QED
  BY <1>1, <1>2, <1>3, <1>4, <1>5, <1>6, <1>7 DEF ListsInv

LEMMA UnarchivedKeeps ==
  ASSUME Lists!ListsAssumption, ListsInv, NEW r \in rpcs, Lists!Unarchived(r)
  PROVE  ListsInv'
PROOF
<1>1. ListsTypes'
  <2>1. r.answer \in SUBSET Sessions /\ rpcs' \subseteq rpcs /\ fromHost' = r.answer
    BY DEF Lists!Unarchived, Lists!Answered, ListsInv, ListsTypes, CallRecord
  <2>2. migration' \in MigrationRecord
    BY DEF Lists!Unarchived, ListsInv, ListsTypes, MigrationRecord
  <2>3. restored' \subseteq restored /\ archivedIds' \subseteq Sessions
    BY <2>1 DEF Lists!Unarchived, ListsInv, ListsTypes
  <2> QED
    BY <2>1, <2>2, <2>3 DEF Lists!Unarchived, ListsInv, ListsTypes, Lists!hostVars,
           Lists!connVars, Lists!metaVars, Lists!historyVars
<1>2. CallsMatch'
  BY DEF ListsInv, Lists!ListsAssumption, ListsTypes, CallsMatch, Lists!Unarchived,
         Lists!hostVars, Lists!connVars, Lists!listVars, Lists!restoreVars, Lists!metaVars,
         Lists!historyVars, Lists!Answered
<1>3. HostIsTrue'
  <2>1. r.answer \in SUBSET Sessions /\ r.op \in {"archive", "unarchive"}
    BY DEF Lists!Unarchived, Lists!Answered, ListsInv, ListsTypes, CallRecord, CallsMatch
  <2>2. fromHost' = r.answer /\ Due \subseteq fromHost' /\ rpcs' \subseteq rpcs
    BY <2>1 DEF Lists!Unarchived, Lists!Answered, ListsInv, HostIsTrue
  <2>3. fromHost' # Lists!Unknown
    BY <2>1, <2>2 DEF Lists!ListsAssumption, Lists!Unknown
  <2> QED
    BY <2>2, <2>3 DEF ListsInv, HostIsTrue, Due, Lists!Unarchived, Lists!hostVars,
           Lists!connVars, Lists!historyVars
<1>4. CopyIsTrue'
  BY DEF ListsInv, Lists!ListsAssumption, ListsTypes, CopyIsTrue, HostIsTrue, Due, CallsMatch,
         Lists!Unarchived, Lists!hostVars, Lists!connVars, Lists!listVars, Lists!restoreVars,
         Lists!metaVars, Lists!historyVars, Lists!Answered
<1>5. RestoresKept'
  BY DEF ListsInv, Lists!ListsAssumption, ListsTypes, RestoresKept, CopyIsTrue, HostIsTrue,
         CallsMatch, Due, Lists!Unarchived, Lists!hostVars, Lists!connVars, Lists!listVars,
         Lists!restoreVars, Lists!metaVars, Lists!historyVars, Lists!Answered
<1>6. PinsKept'
  BY DEF ListsInv, Lists!ListsAssumption, ListsTypes, PinsKept, HostIsTrue, CallsMatch,
         Lists!Unarchived, Lists!hostVars, Lists!connVars, Lists!listVars, Lists!restoreVars,
         Lists!metaVars, Lists!historyVars, Lists!Answered
<1>7. MetaFollows'
  BY DEF ListsInv, Lists!ListsAssumption, ListsTypes, MetaFollows, Lists!Unarchived,
         Lists!hostVars, Lists!connVars, Lists!listVars, Lists!restoreVars, Lists!metaVars,
         Lists!historyVars, Lists!Answered
<1> QED
  BY <1>1, <1>2, <1>3, <1>4, <1>5, <1>6, <1>7 DEF ListsInv

LEMMA UnarchiveFailsKeeps ==
  ASSUME Lists!ListsAssumption, ListsInv, NEW r \in rpcs, Lists!UnarchiveFails(r)
  PROVE  ListsInv'
PROOF
<1>1. ListsTypes'
  <2>1. r.id \in Ids /\ rpcs' \subseteq rpcs
    BY DEF Lists!UnarchiveFails, Lists!Failed, ListsInv, ListsTypes, CallRecord, Ids
  <2>2. migration' \in MigrationRecord /\ restored' \subseteq Ids
    BY <2>1 DEF Lists!UnarchiveFails, Lists!Kept, ListsInv, ListsTypes, MigrationRecord
  <2> QED
    BY <2>1, <2>2 DEF Lists!UnarchiveFails, ListsInv, ListsTypes, Lists!hostVars, Lists!connVars,
           Lists!listVars, Lists!metaVars, Lists!historyVars
<1>2. CallsMatch'
  BY DEF ListsInv, Lists!ListsAssumption, ListsTypes, CallsMatch, Lists!UnarchiveFails,
         Lists!hostVars, Lists!connVars, Lists!listVars, Lists!restoreVars, Lists!metaVars,
         Lists!historyVars, Lists!Failed, Lists!Kept
<1>3. HostIsTrue'
  BY DEF ListsInv, Lists!ListsAssumption, ListsTypes, HostIsTrue, Due, CallsMatch,
         Lists!UnarchiveFails, Lists!hostVars, Lists!connVars, Lists!listVars, Lists!restoreVars,
         Lists!metaVars, Lists!historyVars, Lists!Failed, Lists!Kept
<1>4. CopyIsTrue'
  BY DEF ListsInv, Lists!ListsAssumption, ListsTypes, CopyIsTrue, HostIsTrue, Due, CallsMatch,
         Lists!UnarchiveFails, Lists!hostVars, Lists!connVars, Lists!listVars, Lists!restoreVars,
         Lists!metaVars, Lists!historyVars, Lists!Failed, Lists!Kept
<1>5. RestoresKept'
  BY DEF ListsInv, Lists!ListsAssumption, ListsTypes, RestoresKept, CopyIsTrue, HostIsTrue,
         CallsMatch, Due, Lists!UnarchiveFails, Lists!hostVars, Lists!connVars, Lists!listVars,
         Lists!restoreVars, Lists!metaVars, Lists!historyVars, Lists!Failed, Lists!Kept
<1>6. PinsKept'
  BY DEF ListsInv, Lists!ListsAssumption, ListsTypes, PinsKept, HostIsTrue, CallsMatch,
         Lists!UnarchiveFails, Lists!hostVars, Lists!connVars, Lists!listVars, Lists!restoreVars,
         Lists!metaVars, Lists!historyVars, Lists!Failed, Lists!Kept
<1>7. MetaFollows'
  BY DEF ListsInv, Lists!ListsAssumption, ListsTypes, MetaFollows, Lists!UnarchiveFails,
         Lists!hostVars, Lists!connVars, Lists!listVars, Lists!restoreVars, Lists!metaVars,
         Lists!historyVars, Lists!Failed, Lists!Kept
<1> QED
  BY <1>1, <1>2, <1>3, <1>4, <1>5, <1>6, <1>7 DEF ListsInv

LEMMA PersistRestoresKeeps ==
  ASSUME Lists!ListsAssumption, ListsInv, Lists!PersistRestores
  PROVE  ListsInv'
PROOF
<1>1. ListsTypes'
  <2>1. migration' \in MigrationRecord /\ restored' \subseteq Ids
    BY DEF Lists!PersistRestores, Lists!Kept, ListsInv, ListsTypes, MigrationRecord
  <2> QED
    BY <2>1 DEF ListsInv, ListsTypes, Lists!PersistRestores, Lists!hostVars, Lists!connVars,
           Lists!listVars, Lists!metaVars, Lists!historyVars
<1>2. CallsMatch'
  BY DEF ListsInv, Lists!ListsAssumption, ListsTypes, CallsMatch, Lists!PersistRestores,
         Lists!hostVars, Lists!connVars, Lists!listVars, Lists!restoreVars, Lists!metaVars,
         Lists!historyVars, Lists!Kept
<1>3. HostIsTrue'
  BY DEF ListsInv, Lists!ListsAssumption, ListsTypes, HostIsTrue, Due, CallsMatch,
         Lists!PersistRestores, Lists!hostVars, Lists!connVars, Lists!listVars,
         Lists!restoreVars, Lists!metaVars, Lists!historyVars, Lists!Kept
<1>4. CopyIsTrue'
  BY DEF ListsInv, Lists!ListsAssumption, ListsTypes, CopyIsTrue, HostIsTrue, Due, CallsMatch,
         Lists!PersistRestores, Lists!hostVars, Lists!connVars, Lists!listVars,
         Lists!restoreVars, Lists!metaVars, Lists!historyVars, Lists!Kept
<1>5. RestoresKept'
  BY DEF ListsInv, Lists!ListsAssumption, ListsTypes, RestoresKept, CopyIsTrue, HostIsTrue,
         CallsMatch, Due, Lists!PersistRestores, Lists!hostVars, Lists!connVars, Lists!listVars,
         Lists!restoreVars, Lists!metaVars, Lists!historyVars, Lists!Kept
<1>6. PinsKept'
  BY DEF ListsInv, Lists!ListsAssumption, ListsTypes, PinsKept, HostIsTrue, CallsMatch,
         Lists!PersistRestores, Lists!hostVars, Lists!connVars, Lists!listVars,
         Lists!restoreVars, Lists!metaVars, Lists!historyVars, Lists!Kept
<1>7. MetaFollows'
  BY DEF ListsInv, Lists!ListsAssumption, ListsTypes, MetaFollows, Lists!PersistRestores,
         Lists!hostVars, Lists!connVars, Lists!listVars, Lists!restoreVars, Lists!metaVars,
         Lists!historyVars, Lists!Kept
<1> QED
  BY <1>1, <1>2, <1>3, <1>4, <1>5, <1>6, <1>7 DEF ListsInv

LEMMA ListsUserAsksKeeps ==
  ASSUME Lists!ListsAssumption, ListsInv, NEW op \in {"archive", "unarchive"},
        NEW id \in Sessions, Lists!UserAsks(op, id)
  PROVE  ListsInv'
PROOF
<1>1. ListsTypes'
  BY DEF ListsInv, Lists!ListsAssumption, ListsTypes, MetaMap, FrameRecord, WriteRecord,
         CallRecord, MigrationRecord, PinRecord, ArchivingRecord, Ids, Lists!UserAsks,
         Lists!hostVars, Lists!connVars, Lists!listVars, Lists!restoreVars, Lists!metaVars,
         Lists!historyVars, Lists!Counted, Lists!NotArchiving
<1>2. CallsMatch'
  BY DEF ListsInv, Lists!ListsAssumption, ListsTypes, CallsMatch, Lists!UserAsks, Lists!hostVars,
         Lists!connVars, Lists!listVars, Lists!restoreVars, Lists!metaVars, Lists!historyVars,
         Lists!Counted, Lists!NotArchiving
<1>3. HostIsTrue'
  BY DEF ListsInv, Lists!ListsAssumption, ListsTypes, HostIsTrue, Due, CallsMatch,
         Lists!UserAsks, Lists!hostVars, Lists!connVars, Lists!listVars, Lists!restoreVars,
         Lists!metaVars, Lists!historyVars, Lists!Counted, Lists!NotArchiving
<1>4. CopyIsTrue'
  BY DEF ListsInv, Lists!ListsAssumption, ListsTypes, CopyIsTrue, HostIsTrue, Due, CallsMatch,
         Lists!UserAsks, Lists!hostVars, Lists!connVars, Lists!listVars, Lists!restoreVars,
         Lists!metaVars, Lists!historyVars, Lists!Counted, Lists!NotArchiving
<1>5. RestoresKept'
  BY DEF ListsInv, Lists!ListsAssumption, ListsTypes, RestoresKept, CopyIsTrue, HostIsTrue,
         CallsMatch, Due, Lists!UserAsks, Lists!hostVars, Lists!connVars, Lists!listVars,
         Lists!restoreVars, Lists!metaVars, Lists!historyVars, Lists!Counted, Lists!NotArchiving
<1>6. PinsKept'
  BY DEF ListsInv, Lists!ListsAssumption, ListsTypes, PinsKept, HostIsTrue, CallsMatch,
         Lists!UserAsks, Lists!hostVars, Lists!connVars, Lists!listVars, Lists!restoreVars,
         Lists!metaVars, Lists!historyVars, Lists!Counted, Lists!NotArchiving
<1>7. MetaFollows'
  BY DEF ListsInv, Lists!ListsAssumption, ListsTypes, MetaFollows, Lists!UserAsks,
         Lists!hostVars, Lists!connVars, Lists!listVars, Lists!restoreVars, Lists!metaVars,
         Lists!historyVars, Lists!Counted, Lists!NotArchiving
<1> QED
  BY <1>1, <1>2, <1>3, <1>4, <1>5, <1>6, <1>7 DEF ListsInv

LEMMA AskHostKeeps ==
  ASSUME Lists!ListsAssumption, ListsInv, Lists!AskHost
  PROVE  ListsInv'
PROOF
<1>0. /\ rpcs' \subseteq CallRecord
      /\ \A r \in rpcs' : r \notin rpcs =>
           r.by = "user" /\ r.op \in {"archive", "unarchive"} /\ r.answer = Lists!Unanswered
  <2>1. CASE UNCHANGED rpcs
    BY <2>1 DEF ListsInv, ListsTypes
  <2>2. CASE Lists!Call("user", archiving.op, archiving.id)
    <3>1. archiving.op \in {"archive", "unarchive"} /\ archiving.id \in Sessions
      BY DEF Lists!AskHost, ListsInv, ListsTypes, ArchivingRecord
    <3> QED
      BY <2>2, <3>1, CallKeeps DEF ListsInv, ListsTypes
  <2> QED
    BY <2>1, <2>2 DEF Lists!AskHost
<1>1. ListsTypes'
  <2>1. archiving' \in ArchivingRecord /\ archiving'.at # "wait"
    BY DEF Lists!AskHost, Lists!NotArchiving, ArchivingRecord, Ids, ListsInv, ListsTypes
  <2> QED
    BY <1>0, <2>1 DEF Lists!AskHost, ListsInv, ListsTypes, Lists!hostVars, Lists!connVars,
           Lists!listVars, Lists!restoreVars, Lists!metaVars, Lists!historyVars
<1>2. CallsMatch'
  BY <1>0 DEF ListsInv, CallsMatch
<1>3. HostIsTrue'
  BY DEF ListsInv, Lists!ListsAssumption, ListsTypes, HostIsTrue, Due, CallsMatch, Lists!AskHost,
         Lists!hostVars, Lists!connVars, Lists!listVars, Lists!restoreVars, Lists!metaVars,
         Lists!historyVars, Lists!Call, Lists!NotArchiving, Lists!Idle
<1>4. CopyIsTrue'
  BY DEF ListsInv, Lists!ListsAssumption, ListsTypes, CopyIsTrue, HostIsTrue, Due, CallsMatch,
         Lists!AskHost, Lists!hostVars, Lists!connVars, Lists!listVars, Lists!restoreVars,
         Lists!metaVars, Lists!historyVars, Lists!Call, Lists!NotArchiving, Lists!Idle
<1>5. RestoresKept'
  BY DEF ListsInv, Lists!ListsAssumption, ListsTypes, RestoresKept, CopyIsTrue, HostIsTrue,
         CallsMatch, Due, Lists!AskHost, Lists!hostVars, Lists!connVars, Lists!listVars,
         Lists!restoreVars, Lists!metaVars, Lists!historyVars, Lists!Call, Lists!NotArchiving,
         Lists!Idle
<1>6. PinsKept'
  BY DEF ListsInv, Lists!ListsAssumption, ListsTypes, PinsKept, HostIsTrue, CallsMatch,
         Lists!AskHost, Lists!hostVars, Lists!connVars, Lists!listVars, Lists!restoreVars,
         Lists!metaVars, Lists!historyVars, Lists!Call, Lists!NotArchiving, Lists!Idle
<1>7. MetaFollows'
  BY DEF ListsInv, Lists!ListsAssumption, ListsTypes, MetaFollows, Lists!AskHost, Lists!hostVars,
         Lists!connVars, Lists!listVars, Lists!restoreVars, Lists!metaVars, Lists!historyVars,
         Lists!Call, Lists!NotArchiving, Lists!Idle
<1> QED
  BY <1>1, <1>2, <1>3, <1>4, <1>5, <1>6, <1>7 DEF ListsInv

LEMMA ArchiveLandsKeeps ==
  ASSUME Lists!ListsAssumption, ListsInv, NEW r \in rpcs, Lists!ArchiveLands(r)
  PROVE  ListsInv'
PROOF
<1>1. ListsTypes'
  <2>1. r.answer \in SUBSET Sessions /\ rpcs' \subseteq rpcs
    BY DEF Lists!ArchiveLands, Lists!Answered, ListsInv, ListsTypes, CallRecord
  <2>2. archiving' \in ArchivingRecord /\ archiving'.at # "wait"
    BY DEF Lists!ArchiveLands, ListsInv, ListsTypes, Lists!NotArchiving, ArchivingRecord, Ids
  <2> QED
    BY <2>1, <2>2 DEF ListsInv, ListsTypes, Lists!ArchiveLands, Lists!Wants, Lists!hostVars,
           Lists!connVars, Lists!metaVars
<1>2. CallsMatch'
  BY DEF ListsInv, Lists!ListsAssumption, ListsTypes, CallsMatch, Lists!ArchiveLands,
         Lists!hostVars, Lists!connVars, Lists!listVars, Lists!restoreVars, Lists!metaVars,
         Lists!historyVars, Lists!Answered, Lists!Wants, Lists!NotArchiving
<1>3. HostIsTrue'
  <2>1. r.answer \in SUBSET Sessions /\ r.op \in {"archive", "unarchive"}
    BY DEF Lists!ArchiveLands, Lists!Answered, ListsInv, ListsTypes, CallRecord, CallsMatch
  <2>2. fromHost' = r.answer /\ Due' \subseteq Due /\ Due' \subseteq fromHost'
        /\ rpcs' \subseteq rpcs
    BY <2>1 DEF Lists!ArchiveLands, Lists!Answered, Lists!Wants, Due, ListsInv, HostIsTrue
  <2>3. fromHost' # Lists!Unknown
    BY <2>1, <2>2 DEF Lists!ListsAssumption, Lists!Unknown
  <2> QED
    BY <2>2, <2>3 DEF ListsInv, HostIsTrue, Lists!ArchiveLands, Lists!hostVars, Lists!connVars
<1>4. CopyIsTrue'
  BY DEF ListsInv, Lists!ListsAssumption, ListsTypes, CopyIsTrue, HostIsTrue, Due, CallsMatch,
         Lists!ArchiveLands, Lists!hostVars, Lists!connVars, Lists!listVars, Lists!restoreVars,
         Lists!metaVars, Lists!historyVars, Lists!Answered, Lists!Wants, Lists!NotArchiving
<1>5. RestoresKept'
  BY DEF ListsInv, Lists!ListsAssumption, ListsTypes, RestoresKept, CopyIsTrue, HostIsTrue,
         CallsMatch, Due, Lists!ArchiveLands, Lists!hostVars, Lists!connVars, Lists!listVars,
         Lists!restoreVars, Lists!metaVars, Lists!historyVars, Lists!Answered, Lists!Wants,
         Lists!NotArchiving
<1>6. PinsKept'
  BY DEF ListsInv, Lists!ListsAssumption, ListsTypes, PinsKept, HostIsTrue, CallsMatch,
         Lists!ArchiveLands, Lists!hostVars, Lists!connVars, Lists!listVars, Lists!restoreVars,
         Lists!metaVars, Lists!historyVars, Lists!Answered, Lists!Wants, Lists!NotArchiving
<1>7. MetaFollows'
  BY DEF ListsInv, Lists!ListsAssumption, ListsTypes, MetaFollows, Lists!ArchiveLands,
         Lists!hostVars, Lists!connVars, Lists!listVars, Lists!restoreVars, Lists!metaVars,
         Lists!historyVars, Lists!Answered, Lists!Wants, Lists!NotArchiving
<1> QED
  BY <1>1, <1>2, <1>3, <1>4, <1>5, <1>6, <1>7 DEF ListsInv

LEMMA ArchiveFailsKeeps ==
  ASSUME Lists!ListsAssumption, ListsInv, NEW r \in rpcs, Lists!ArchiveFails(r)
  PROVE  ListsInv'
PROOF
<1>1. ListsTypes'
  BY DEF ListsInv, Lists!ListsAssumption, ListsTypes, MetaMap, FrameRecord, WriteRecord,
         CallRecord, MigrationRecord, PinRecord, ArchivingRecord, Ids, Lists!ArchiveFails,
         Lists!hostVars, Lists!connVars, Lists!listVars, Lists!restoreVars, Lists!metaVars,
         Lists!historyVars, Lists!Failed, Lists!NotArchiving
<1>2. CallsMatch'
  BY DEF ListsInv, Lists!ListsAssumption, ListsTypes, CallsMatch, Lists!ArchiveFails,
         Lists!hostVars, Lists!connVars, Lists!listVars, Lists!restoreVars, Lists!metaVars,
         Lists!historyVars, Lists!Failed, Lists!NotArchiving
<1>3. HostIsTrue'
  BY DEF ListsInv, Lists!ListsAssumption, ListsTypes, HostIsTrue, Due, CallsMatch,
         Lists!ArchiveFails, Lists!hostVars, Lists!connVars, Lists!listVars, Lists!restoreVars,
         Lists!metaVars, Lists!historyVars, Lists!Failed, Lists!NotArchiving
<1>4. CopyIsTrue'
  BY DEF ListsInv, Lists!ListsAssumption, ListsTypes, CopyIsTrue, HostIsTrue, Due, CallsMatch,
         Lists!ArchiveFails, Lists!hostVars, Lists!connVars, Lists!listVars, Lists!restoreVars,
         Lists!metaVars, Lists!historyVars, Lists!Failed, Lists!NotArchiving
<1>5. RestoresKept'
  BY DEF ListsInv, Lists!ListsAssumption, ListsTypes, RestoresKept, CopyIsTrue, HostIsTrue,
         CallsMatch, Due, Lists!ArchiveFails, Lists!hostVars, Lists!connVars, Lists!listVars,
         Lists!restoreVars, Lists!metaVars, Lists!historyVars, Lists!Failed, Lists!NotArchiving
<1>6. PinsKept'
  BY DEF ListsInv, Lists!ListsAssumption, ListsTypes, PinsKept, HostIsTrue, CallsMatch,
         Lists!ArchiveFails, Lists!hostVars, Lists!connVars, Lists!listVars, Lists!restoreVars,
         Lists!metaVars, Lists!historyVars, Lists!Failed, Lists!NotArchiving
<1>7. MetaFollows'
  BY DEF ListsInv, Lists!ListsAssumption, ListsTypes, MetaFollows, Lists!ArchiveFails,
         Lists!hostVars, Lists!connVars, Lists!listVars, Lists!restoreVars, Lists!metaVars,
         Lists!historyVars, Lists!Failed, Lists!NotArchiving
<1> QED
  BY <1>1, <1>2, <1>3, <1>4, <1>5, <1>6, <1>7 DEF ListsInv

LEMMA ArchivePersistsKeeps ==
  ASSUME Lists!ListsAssumption, ListsInv, Lists!ArchivePersists
  PROVE  ListsInv'
PROOF
<1>1. ListsTypes'
  BY DEF ListsInv, Lists!ListsAssumption, ListsTypes, MetaMap, FrameRecord, WriteRecord,
         CallRecord, MigrationRecord, PinRecord, ArchivingRecord, Ids, Lists!ArchivePersists,
         Lists!hostVars, Lists!connVars, Lists!listVars, Lists!restoreVars, Lists!metaVars,
         Lists!historyVars, Lists!NotArchiving
<1>2. CallsMatch'
  BY DEF ListsInv, Lists!ListsAssumption, ListsTypes, CallsMatch, Lists!ArchivePersists,
         Lists!hostVars, Lists!connVars, Lists!listVars, Lists!restoreVars, Lists!metaVars,
         Lists!historyVars, Lists!NotArchiving
<1>3. HostIsTrue'
  BY DEF ListsInv, Lists!ListsAssumption, ListsTypes, HostIsTrue, Due, CallsMatch,
         Lists!ArchivePersists, Lists!hostVars, Lists!connVars, Lists!listVars,
         Lists!restoreVars, Lists!metaVars, Lists!historyVars, Lists!NotArchiving
<1>4. CopyIsTrue'
  BY DEF ListsInv, Lists!ListsAssumption, ListsTypes, CopyIsTrue, HostIsTrue, Due, CallsMatch,
         Lists!ArchivePersists, Lists!hostVars, Lists!connVars, Lists!listVars,
         Lists!restoreVars, Lists!metaVars, Lists!historyVars, Lists!NotArchiving
<1>5. RestoresKept'
  BY DEF ListsInv, Lists!ListsAssumption, ListsTypes, RestoresKept, CopyIsTrue, HostIsTrue,
         CallsMatch, Due, Lists!ArchivePersists, Lists!hostVars, Lists!connVars, Lists!listVars,
         Lists!restoreVars, Lists!metaVars, Lists!historyVars, Lists!NotArchiving
<1>6. PinsKept'
  BY DEF ListsInv, Lists!ListsAssumption, ListsTypes, PinsKept, HostIsTrue, CallsMatch,
         Lists!ArchivePersists, Lists!hostVars, Lists!connVars, Lists!listVars,
         Lists!restoreVars, Lists!metaVars, Lists!historyVars, Lists!NotArchiving
<1>7. MetaFollows'
  BY DEF ListsInv, Lists!ListsAssumption, ListsTypes, MetaFollows, Lists!ArchivePersists,
         Lists!hostVars, Lists!connVars, Lists!listVars, Lists!restoreVars, Lists!metaVars,
         Lists!historyVars, Lists!NotArchiving
<1> QED
  BY <1>1, <1>2, <1>3, <1>4, <1>5, <1>6, <1>7 DEF ListsInv

LEMMA HandleWorkspaceKeeps ==
  ASSUME Lists!ListsAssumption, ListsInv, Lists!HandleWorkspace
  PROVE  ListsInv'
PROOF
<1>0. /\ wire' \in Seq(FrameRecord) /\ Len(wire') = Len(wire) - 1
      /\ Head(wire) \in FrameRecord /\ Head(wire) = wire[1] /\ 1 \in 1..Len(wire)
      /\ \A i \in 1..Len(wire') : wire'[i] = wire[i + 1] /\ i + 1 \in 1..Len(wire)
  BY TailKeeps DEF Lists!HandleWorkspace, ListsInv, ListsTypes
<1>1. ListsTypes'
  <2>1. Head(wire).archived \subseteq Sessions /\ Head(wire).pinned \subseteq Sessions
    BY <1>0 DEF FrameRecord
  <2>2. migration' \in MigrationRecord
    BY DEF Lists!HandleWorkspace, Lists!MigrationStarts, Lists!Idle, MigrationRecord, ListsInv,
           ListsTypes
  <2>3. pinMigration' \in PinRecord
    BY DEF Lists!HandleWorkspace, Lists!PinMigrationStarts, PinRecord, ListsInv, ListsTypes
  <2> QED
    BY <1>0, <2>1, <2>2, <2>3 DEF Lists!HandleWorkspace, ListsInv, ListsTypes, Lists!hostVars,
           Lists!metaVars, Lists!historyVars
<1>2. CallsMatch'
  BY DEF ListsInv, Lists!ListsAssumption, ListsTypes, CallsMatch, Lists!HandleWorkspace,
         Lists!hostVars, Lists!connVars, Lists!listVars, Lists!restoreVars, Lists!metaVars,
         Lists!historyVars, Lists!MigrationStarts, Lists!PinMigrationStarts, Lists!Idle
<1>3. HostIsTrue'
  <2>1. /\ fromHost' \subseteq Sessions /\ Due \subseteq fromHost' /\ pinned' \subseteq pinnedOnce
    BY <1>0 DEF Lists!HandleWorkspace, FrameRecord, ListsInv, HostIsTrue
  <2>2. fromHost' # Lists!Unknown
    BY <2>1 DEF Lists!ListsAssumption, Lists!Unknown
  <2>3. \A i \in 1..Len(wire') : Due \subseteq wire'[i].archived
        /\ wire'[i].pinned \subseteq pinnedOnce
    BY <1>0 DEF ListsInv, HostIsTrue
  <2> QED
    BY <2>1, <2>2, <2>3 DEF ListsInv, HostIsTrue, Due, Lists!HandleWorkspace, Lists!hostVars,
           Lists!historyVars
<1>4. CopyIsTrue'
  BY DEF ListsInv, Lists!ListsAssumption, ListsTypes, CopyIsTrue, HostIsTrue, Due, CallsMatch,
         Lists!HandleWorkspace, Lists!hostVars, Lists!connVars, Lists!listVars,
         Lists!restoreVars, Lists!metaVars, Lists!historyVars, Lists!MigrationStarts,
         Lists!PinMigrationStarts, Lists!Idle
<1>5. RestoresKept'
  BY DEF ListsInv, Lists!ListsAssumption, ListsTypes, RestoresKept, CopyIsTrue, HostIsTrue,
         CallsMatch, Due, Lists!HandleWorkspace, Lists!hostVars, Lists!connVars, Lists!listVars,
         Lists!restoreVars, Lists!metaVars, Lists!historyVars, Lists!MigrationStarts,
         Lists!PinMigrationStarts, Lists!Idle
<1>6. PinsKept'
  BY DEF ListsInv, Lists!ListsAssumption, ListsTypes, PinsKept, HostIsTrue, CallsMatch,
         Lists!HandleWorkspace, Lists!hostVars, Lists!connVars, Lists!listVars,
         Lists!restoreVars, Lists!metaVars, Lists!historyVars, Lists!MigrationStarts,
         Lists!PinMigrationStarts, Lists!Idle
<1>7. MetaFollows'
  BY DEF ListsInv, Lists!ListsAssumption, ListsTypes, MetaFollows, Lists!HandleWorkspace,
         Lists!hostVars, Lists!connVars, Lists!listVars, Lists!restoreVars, Lists!metaVars,
         Lists!historyVars, Lists!MigrationStarts, Lists!PinMigrationStarts, Lists!Idle
<1> QED
  BY <1>1, <1>2, <1>3, <1>4, <1>5, <1>6, <1>7 DEF ListsInv

LEMMA SetTagsKeeps ==
  ASSUME Lists!ListsAssumption, ListsInv, NEW id \in Sessions, Lists!SetTags(id)
  PROVE  ListsInv'
PROOF
<1>1. ListsTypes'
  <2>1. listUser' \in Nat
    BY DEF Lists!SetTags, Lists!Counted, ListsInv, ListsTypes
  <2>2. [meta EXCEPT ![id].label = listUser'] \in MetaMap
    BY <2>1 DEF ListsInv, ListsTypes, MetaMap
  <2>3. updates' \in Seq(WriteRecord)
    BY <2>2, WriteKeeps DEF Lists!SetTags, ListsInv, ListsTypes, Ids
  <2> QED
    BY <2>1, <2>3 DEF Lists!SetTags, ListsInv, ListsTypes, Lists!hostVars, Lists!connVars,
           Lists!listVars, Lists!restoreVars, Lists!historyVars
<1>2. CallsMatch'
  BY DEF ListsInv, Lists!ListsAssumption, ListsTypes, CallsMatch, Lists!SetTags, Lists!hostVars,
         Lists!connVars, Lists!listVars, Lists!restoreVars, Lists!metaVars, Lists!historyVars,
         Lists!Counted, Lists!Write
<1>3. HostIsTrue'
  BY DEF ListsInv, Lists!ListsAssumption, ListsTypes, HostIsTrue, Due, CallsMatch, Lists!SetTags,
         Lists!hostVars, Lists!connVars, Lists!listVars, Lists!restoreVars, Lists!metaVars,
         Lists!historyVars, Lists!Counted, Lists!Write
<1>4. CopyIsTrue'
  BY DEF ListsInv, Lists!ListsAssumption, ListsTypes, CopyIsTrue, HostIsTrue, Due, CallsMatch,
         Lists!SetTags, Lists!hostVars, Lists!connVars, Lists!listVars, Lists!restoreVars,
         Lists!metaVars, Lists!historyVars, Lists!Counted, Lists!Write
<1>5. RestoresKept'
  BY DEF ListsInv, Lists!ListsAssumption, ListsTypes, RestoresKept, CopyIsTrue, HostIsTrue,
         CallsMatch, Due, Lists!SetTags, Lists!hostVars, Lists!connVars, Lists!listVars,
         Lists!restoreVars, Lists!metaVars, Lists!historyVars, Lists!Counted, Lists!Write
<1>6. PinsKept'
  BY DEF ListsInv, Lists!ListsAssumption, ListsTypes, PinsKept, HostIsTrue, CallsMatch,
         Lists!SetTags, Lists!hostVars, Lists!connVars, Lists!listVars, Lists!restoreVars,
         Lists!metaVars, Lists!historyVars, Lists!Counted, Lists!Write
<1>7. MetaFollows'
  BY DEF ListsInv, Lists!ListsAssumption, ListsTypes, MetaFollows, Lists!SetTags, Lists!hostVars,
         Lists!connVars, Lists!listVars, Lists!restoreVars, Lists!metaVars, Lists!historyVars,
         Lists!Counted, Lists!Write
<1> QED
  BY <1>1, <1>2, <1>3, <1>4, <1>5, <1>6, <1>7 DEF ListsInv

LEMMA RemoveSessionKeeps ==
  ASSUME Lists!ListsAssumption, ListsInv, NEW id \in Sessions, Lists!RemoveSession(id)
  PROVE  ListsInv'
PROOF
<1>1. ListsTypes'
  BY DEF ListsInv, Lists!ListsAssumption, ListsTypes, MetaMap, FrameRecord, WriteRecord,
         CallRecord, MigrationRecord, PinRecord, ArchivingRecord, Ids, Lists!RemoveSession,
         Lists!hostVars, Lists!connVars, Lists!listVars, Lists!restoreVars, Lists!metaVars,
         Lists!historyVars, Lists!Counted, Lists!Write, Lists!Blank
<1>2. CallsMatch'
  BY DEF ListsInv, Lists!ListsAssumption, ListsTypes, CallsMatch, Lists!RemoveSession,
         Lists!hostVars, Lists!connVars, Lists!listVars, Lists!restoreVars, Lists!metaVars,
         Lists!historyVars, Lists!Counted, Lists!Write, Lists!Blank
<1>3. HostIsTrue'
  BY DEF ListsInv, Lists!ListsAssumption, ListsTypes, HostIsTrue, Due, CallsMatch,
         Lists!RemoveSession, Lists!hostVars, Lists!connVars, Lists!listVars, Lists!restoreVars,
         Lists!metaVars, Lists!historyVars, Lists!Counted, Lists!Write, Lists!Blank
<1>4. CopyIsTrue'
  BY DEF ListsInv, Lists!ListsAssumption, ListsTypes, CopyIsTrue, HostIsTrue, Due, CallsMatch,
         Lists!RemoveSession, Lists!hostVars, Lists!connVars, Lists!listVars, Lists!restoreVars,
         Lists!metaVars, Lists!historyVars, Lists!Counted, Lists!Write, Lists!Blank
<1>5. RestoresKept'
  BY DEF ListsInv, Lists!ListsAssumption, ListsTypes, RestoresKept, CopyIsTrue, HostIsTrue,
         CallsMatch, Due, Lists!RemoveSession, Lists!hostVars, Lists!connVars, Lists!listVars,
         Lists!restoreVars, Lists!metaVars, Lists!historyVars, Lists!Counted, Lists!Write,
         Lists!Blank
<1>10. /\ updates' \in Seq(WriteRecord) /\ Len(updates') = Len(updates) + 1
          /\ Len(updates) \in Nat
       /\ \A i \in 1..Len(updates) : updates'[i] = updates[i]
       /\ updates'[Len(updates) + 1].meta = meta' /\ updates'[Len(updates) + 1].by = "remove"
  <2>1. meta' \in MetaMap /\ id \in Ids
    BY <1>1 DEF ListsTypes, Ids
  <2>2. PICK kept \in MetaMap : kept = meta'
    BY <2>1
  <2>3. Lists!Write("remove", id, kept)
    BY <2>2 DEF Lists!RemoveSession, Lists!Write
  <2>4. updates \in Seq(WriteRecord) /\ Len(updates) \in Nat
    BY DEF ListsInv, ListsTypes
  <2>5. /\ updates' \in Seq(WriteRecord) /\ Len(updates') = Len(updates) + 1
        /\ \A i \in 1..Len(updates) : updates'[i] = updates[i]
        /\ updates'[Len(updates) + 1].meta = kept /\ updates'[Len(updates) + 1].by = "remove"
    BY <2>1, <2>3, <2>4, WriteKeeps
  <2> QED
    BY <2>2, <2>4, <2>5
<1>6. PinsKept'
  <2> SUFFICES ASSUME ~overlapped', NEW s \in wantedPins' \ pinnedOnce'
               PROVE  /\ meta'[s].pinned /\ dMeta'[s].pinned
                      /\ \A i \in 1..Len(updates') : updates'[i].meta[s].pinned
    BY DEF PinsKept
  <2>1. /\ s \in wantedPins \ pinnedOnce /\ s # id /\ ~overlapped
    BY DEF Lists!RemoveSession
  <2>2. meta[s].pinned /\ dMeta[s].pinned /\ \A i \in 1..Len(updates) : updates[i].meta[s].pinned
    BY <2>1 DEF ListsInv, PinsKept
  <2>3. meta'[s] = meta[s] /\ dMeta' = dMeta
    BY <2>1 DEF Lists!RemoveSession, ListsInv, ListsTypes, MetaMap
  <2> QED
    BY <1>10, <2>2, <2>3
<1>7. MetaFollows'
  <2>1. overlapped' \/ updates = <<>>
    BY DEF Lists!RemoveSession
  <2> QED
    BY <1>10, <2>1 DEF MetaFollows
<1> QED
  BY <1>1, <1>2, <1>3, <1>4, <1>5, <1>6, <1>7 DEF ListsInv

LEMMA WriteSettlesKeeps ==
  ASSUME Lists!ListsAssumption, ListsInv, Lists!WriteSettles
  PROVE  ListsInv'
PROOF
<1>0. /\ updates' \in Seq(WriteRecord) /\ Len(updates') = Len(updates) - 1
      /\ Head(updates) \in WriteRecord /\ Head(updates) = updates[1] /\ 1 \in 1..Len(updates)
      /\ \A i \in 1..Len(updates') : updates'[i] = updates[i + 1] /\ i + 1 \in 1..Len(updates)
  BY TailKeeps DEF Lists!WriteSettles, ListsInv, ListsTypes
<1> DEFINE write == Head(updates)
<1>10. PICK done \in BOOLEAN :
         /\ dMeta' = IF done THEN write.meta ELSE dMeta
         /\ meta' = Lists!Committed(write, done)
         /\ overlapped' = (overlapped \/ (~done /\ write.by = "remove") \/ Len(updates) > 1)
         /\ Lists!AfterWrite(write, done)
  BY DEF Lists!WriteSettles
<1>11. write.meta \in MetaMap
  BY <1>0 DEF WriteRecord
<1>1. ListsTypes'
  <2>1. pinMigration' \in PinRecord
    BY <1>10 DEF Lists!AfterWrite, PinRecord, ListsInv, ListsTypes
  <2>2. meta' \in MetaMap /\ dMeta' \in MetaMap
    BY <1>10, <1>11 DEF Lists!Committed, ListsInv, ListsTypes
  <2> QED
    BY <1>0, <1>10, <2>1, <2>2 DEF Lists!WriteSettles, ListsInv, ListsTypes, Lists!hostVars,
           Lists!connVars, Lists!listVars, Lists!restoreVars
<1>2. CallsMatch'
  BY DEF ListsInv, Lists!ListsAssumption, ListsTypes, CallsMatch, Lists!WriteSettles,
         Lists!hostVars, Lists!connVars, Lists!listVars, Lists!restoreVars, Lists!metaVars,
         Lists!historyVars, Lists!Committed, Lists!AfterWrite
<1>3. HostIsTrue'
  BY DEF ListsInv, Lists!ListsAssumption, ListsTypes, HostIsTrue, Due, CallsMatch,
         Lists!WriteSettles, Lists!hostVars, Lists!connVars, Lists!listVars, Lists!restoreVars,
         Lists!metaVars, Lists!historyVars, Lists!Committed, Lists!AfterWrite
<1>4. CopyIsTrue'
  BY DEF ListsInv, Lists!ListsAssumption, ListsTypes, CopyIsTrue, HostIsTrue, Due, CallsMatch,
         Lists!WriteSettles, Lists!hostVars, Lists!connVars, Lists!listVars, Lists!restoreVars,
         Lists!metaVars, Lists!historyVars, Lists!Committed, Lists!AfterWrite
<1>5. RestoresKept'
  BY DEF ListsInv, Lists!ListsAssumption, ListsTypes, RestoresKept, CopyIsTrue, HostIsTrue,
         CallsMatch, Due, Lists!WriteSettles, Lists!hostVars, Lists!connVars, Lists!listVars,
         Lists!restoreVars, Lists!metaVars, Lists!historyVars, Lists!Committed, Lists!AfterWrite
<1>6. PinsKept'
  <2>1. ASSUME ~overlapped', NEW s \in wantedPins' \ pinnedOnce'
        PROVE  meta'[s].pinned /\ dMeta'[s].pinned
               /\ \A i \in 1..Len(updates') : updates'[i].meta[s].pinned
    <3>1. ~overlapped /\ s \in wantedPins \ pinnedOnce
      BY <1>10, <2>1 DEF Lists!WriteSettles
    <3>2. meta[s].pinned /\ dMeta[s].pinned
          /\ \A i \in 1..Len(updates) : updates[i].meta[s].pinned
      BY <3>1 DEF ListsInv, PinsKept
    <3> QED
      BY <1>0, <1>10, <3>2 DEF Lists!Committed
  <2> QED
    BY <2>1 DEF PinsKept
<1>7. MetaFollows'
  <2> SUFFICES ASSUME ~overlapped' PROVE updates' = <<>> /\ meta' = dMeta'
    BY DEF MetaFollows
  <2>1. ~overlapped /\ Len(updates) = 1 /\ (write.by = "remove" => done)
    <3>1. Len(updates) \in Nat
      BY DEF ListsInv, ListsTypes
    <3>2. ~overlapped /\ ~(~done /\ write.by = "remove") /\ ~(Len(updates) > 1)
      BY <1>10, Zenon
    <3> QED
      BY <1>0, <3>1, <3>2
  <2>2. updates' = <<>>
    BY <1>0, <2>1
  <2>3. IF write.by = "remove" THEN write.meta = meta ELSE meta = dMeta
    BY <1>0, <2>1 DEF ListsInv, MetaFollows, Lists!WriteSettles
  <2> QED
    BY <1>10, <2>1, <2>2, <2>3 DEF Lists!Committed
<1> QED
  BY <1>1, <1>2, <1>3, <1>4, <1>5, <1>6, <1>7 DEF ListsInv

LEMMA PinsGoOnKeeps ==
  ASSUME Lists!ListsAssumption, ListsInv, Lists!PinsGoOn
  PROVE  ListsInv'
PROOF
<1>0. \/ UNCHANGED <<rpcs, updates>> /\ pinMigration' \in PinRecord
      \/ \E id \in Sessions : /\ id \in pinned /\ Lists!Write("pins", id, Lists!Cleared(id))
         /\ UNCHANGED rpcs
                            /\ pinMigration' \in PinRecord
      \/ \E id \in Sessions : /\ Lists!Call("pins", "pin", id) /\ UNCHANGED updates
                            /\ pinMigration' \in PinRecord
  <2>1. pinMigration \in PinRecord
    BY DEF ListsInv, ListsTypes
  <2>2. CASE pinMigration.todo = {}
    BY <2>1, <2>2 DEF Lists!PinsGoOn, PinRecord
  <2>3. CASE pinMigration.todo # {}
    <3>1. PICK id \in pinMigration.todo :
            \/ /\ id \in pinned /\ Lists!Write("pins", id, Lists!Cleared(id)) /\ UNCHANGED rpcs
               /\ pinMigration' = [pinMigration EXCEPT !.at = "write", !.todo = @ \ {id}]
            \/ /\ Lists!Call("pins", "pin", id) /\ UNCHANGED updates
               /\ pinMigration' = [pinMigration EXCEPT !.at = "rpc", !.todo = @ \ {id}]
      BY <2>3 DEF Lists!PinsGoOn
    <3>2. id \in Sessions /\ pinMigration' \in PinRecord
      BY <2>1, <3>1 DEF PinRecord
    <3> QED
      BY <3>1, <3>2
  <2> QED
    BY <2>2, <2>3
<1>10. /\ rpcs' \subseteq CallRecord
       /\ \A r \in rpcs' : r \notin rpcs =>
            r.by = "pins" /\ r.op = "pin" /\ r.answer = Lists!Unanswered
  <2>1. CASE UNCHANGED rpcs
    BY <2>1 DEF ListsInv, ListsTypes
  <2>2. CASE \E id \in Sessions : Lists!Call("pins", "pin", id)
    BY <2>2, CallKeeps DEF ListsInv, ListsTypes
  <2> QED
    BY <1>0, <2>1, <2>2
<1>11. \/ UNCHANGED updates
       \/ \E id \in Sessions : id \in pinned /\ Lists!Write("pins", id, Lists!Cleared(id))
  BY <1>0
<1>12. ASSUME NEW id \in Sessions, Lists!Write("pins", id, Lists!Cleared(id))
       PROVE  /\ updates' \in Seq(WriteRecord) /\ Len(updates') = Len(updates) + 1
              /\ \A i \in 1..Len(updates) : updates'[i] = updates[i]
              /\ updates'[Len(updates) + 1].meta = Lists!Cleared(id)
                 /\ updates'[Len(updates) + 1].by = "pins"
              /\ \A s \in Sessions \ {id} : Lists!Cleared(id)[s] = meta[s]
  <2>1. id \in Ids
    BY DEF Ids
  <2>2. Lists!Cleared(id) \in MetaMap /\ \A s \in Sessions \ {id} : Lists!Cleared(id)[s] = meta[s]
    BY <2>1, ClearedTyped DEF ListsInv, ListsTypes
  <2>3. /\ updates' \in Seq(WriteRecord) /\ Len(updates') = Len(updates) + 1
        /\ \A i \in 1..Len(updates) : updates'[i] = updates[i]
        /\ updates'[Len(updates) + 1].meta = Lists!Cleared(id)
           /\ updates'[Len(updates) + 1].by = "pins"
    BY <1>12, <2>1, <2>2, WriteKeeps DEF ListsInv, ListsTypes
  <2> QED
    BY <2>2, <2>3
<1>1. ListsTypes'
  BY <1>0, <1>10, <1>11, <1>12 DEF ListsInv, ListsTypes, Lists!PinsGoOn, Lists!hostVars,
         Lists!connVars, Lists!listVars, Lists!restoreVars, Lists!historyVars
<1>2. CallsMatch'
  BY <1>10 DEF ListsInv, CallsMatch
<1>3. HostIsTrue'
  BY <1>10 DEF ListsInv, HostIsTrue, Due, Lists!PinsGoOn, Lists!hostVars, Lists!connVars,
         Lists!listVars, Lists!historyVars
<1>4. CopyIsTrue'
  BY DEF ListsInv, Lists!ListsAssumption, ListsTypes, CopyIsTrue, HostIsTrue, Due, CallsMatch,
         Lists!PinsGoOn, Lists!hostVars, Lists!connVars, Lists!listVars, Lists!restoreVars,
         Lists!metaVars, Lists!historyVars, Lists!Write, Lists!Cleared, Lists!Call
<1>5. RestoresKept'
  BY DEF ListsInv, Lists!ListsAssumption, ListsTypes, RestoresKept, CopyIsTrue, HostIsTrue,
         CallsMatch, Due, Lists!PinsGoOn, Lists!hostVars, Lists!connVars, Lists!listVars,
         Lists!restoreVars, Lists!metaVars, Lists!historyVars, Lists!Write, Lists!Cleared,
         Lists!Call
<1>6. PinsKept'
  <2> SUFFICES ASSUME ~overlapped, NEW s \in wantedPins \ pinnedOnce
               PROVE  /\ meta[s].pinned /\ dMeta[s].pinned
                      /\ \A i \in 1..Len(updates') : updates'[i].meta[s].pinned
    BY DEF PinsKept, Lists!PinsGoOn, Lists!historyVars
  <2>1. meta[s].pinned /\ dMeta[s].pinned /\ \A i \in 1..Len(updates) : updates[i].meta[s].pinned
    BY DEF ListsInv, PinsKept
  <2>2. ASSUME NEW id \in Sessions, id \in pinned, Lists!Write("pins", id, Lists!Cleared(id)),
               NEW i \in 1..Len(updates')
        PROVE  updates'[i].meta[s].pinned
    <3>1. id # s
      BY <2>2 DEF ListsInv, HostIsTrue
    <3>2. s \in Sessions
      BY DEF ListsInv, ListsTypes
    <3>3. Len(updates) \in Nat
      BY DEF ListsInv, ListsTypes
    <3> QED
      BY <1>12, <2>1, <2>2, <3>1, <3>2, <3>3
  <2> QED
    BY <1>11, <2>1, <2>2
<1>7. MetaFollows'
  <2>1. ASSUME NEW id \in Sessions, Lists!Write("pins", id, Lists!Cleared(id))
        PROVE  MetaFollows'
    <3>1. /\ Len(updates) \in Nat /\ (updates = <<>> <=> Len(updates) = 0)
      BY DEF ListsInv, ListsTypes
    <3>2. updates' # <<>> /\ UNCHANGED <<meta, dMeta, overlapped>>
      <4>1. Len(updates') # 0
        BY <1>12, <2>1, <3>1
      <4>2. UNCHANGED <<meta, dMeta, overlapped>>
        BY DEF Lists!PinsGoOn, Lists!historyVars
      <4>3. Len(<<>>) = 0
        OBVIOUS
      <4> QED
        BY <4>1, <4>2, <4>3
    <3> QED
      BY <1>12, <2>1, <3>1, <3>2 DEF ListsInv, MetaFollows
  <2> QED
    BY <1>11, <2>1 DEF ListsInv, MetaFollows, Lists!PinsGoOn, Lists!historyVars
<1> QED
  BY <1>1, <1>2, <1>3, <1>4, <1>5, <1>6, <1>7 DEF ListsInv

LEMMA PinLandsKeeps ==
  ASSUME Lists!ListsAssumption, ListsInv, NEW r \in rpcs, Lists!PinLands(r)
  PROVE  ListsInv'
PROOF
<1>0. /\ r.answer \subseteq Sessions /\ r.id \in Ids /\ rpcs' \subseteq rpcs
      /\ r.id \in pinnedOnce
  <2>1. r \in CallRecord /\ r.by = "pins" /\ r.answer # Lists!Unanswered
    BY DEF Lists!PinLands, Lists!Answered, ListsInv, ListsTypes
  <2>2. r.op = "pin"
    BY <2>1 DEF ListsInv, CallsMatch
  <2> QED
    BY <2>1, <2>2 DEF Lists!PinLands, Lists!Answered, ListsInv, CallRecord, HostIsTrue, Ids
<1>10. /\ updates' \in Seq(WriteRecord) /\ Len(updates') = Len(updates) + 1
       /\ \A i \in 1..Len(updates) : updates'[i] = updates[i]
       /\ updates'[Len(updates) + 1].meta = Lists!Cleared(r.id)
          /\ updates'[Len(updates) + 1].by = "pins"
       /\ \A s \in Sessions \ {r.id} : Lists!Cleared(r.id)[s] = meta[s]
  BY <1>0, WriteKeeps, ClearedTyped DEF Lists!PinLands, ListsInv, ListsTypes
<1>1. ListsTypes'
  <2>1. pinMigration' \in PinRecord
    BY DEF Lists!PinLands, PinRecord, ListsInv, ListsTypes
  <2> QED
    BY <1>0, <1>10, <2>1 DEF Lists!PinLands, ListsInv, ListsTypes, Lists!hostVars,
           Lists!connVars, Lists!listVars, Lists!restoreVars, Lists!historyVars
<1>2. CallsMatch'
  BY DEF ListsInv, Lists!ListsAssumption, ListsTypes, CallsMatch, Lists!PinLands, Lists!hostVars,
         Lists!connVars, Lists!listVars, Lists!restoreVars, Lists!metaVars, Lists!historyVars,
         Lists!Answered, Lists!Write, Lists!Cleared
<1>3. HostIsTrue'
  BY DEF ListsInv, Lists!ListsAssumption, ListsTypes, HostIsTrue, Due, CallsMatch,
         Lists!PinLands, Lists!hostVars, Lists!connVars, Lists!listVars, Lists!restoreVars,
         Lists!metaVars, Lists!historyVars, Lists!Answered, Lists!Write, Lists!Cleared
<1>4. CopyIsTrue'
  BY DEF ListsInv, Lists!ListsAssumption, ListsTypes, CopyIsTrue, HostIsTrue, Due, CallsMatch,
         Lists!PinLands, Lists!hostVars, Lists!connVars, Lists!listVars, Lists!restoreVars,
         Lists!metaVars, Lists!historyVars, Lists!Answered, Lists!Write, Lists!Cleared
<1>5. RestoresKept'
  BY DEF ListsInv, Lists!ListsAssumption, ListsTypes, RestoresKept, CopyIsTrue, HostIsTrue,
         CallsMatch, Due, Lists!PinLands, Lists!hostVars, Lists!connVars, Lists!listVars,
         Lists!restoreVars, Lists!metaVars, Lists!historyVars, Lists!Answered, Lists!Write,
         Lists!Cleared
<1>6. PinsKept'
  BY DEF ListsInv, Lists!ListsAssumption, ListsTypes, PinsKept, HostIsTrue, CallsMatch,
         Lists!PinLands, Lists!hostVars, Lists!connVars, Lists!listVars, Lists!restoreVars,
         Lists!metaVars, Lists!historyVars, Lists!Answered, Lists!Write, Lists!Cleared
<1>7. MetaFollows'
  BY <1>10 DEF ListsInv, ListsTypes, MetaFollows, Lists!PinLands, Lists!historyVars
<1> QED
  BY <1>1, <1>2, <1>3, <1>4, <1>5, <1>6, <1>7 DEF ListsInv

LEMMA PinFailsKeeps ==
  ASSUME Lists!ListsAssumption, ListsInv, NEW r \in rpcs, Lists!PinFails(r)
  PROVE  ListsInv'
PROOF
<1>1. ListsTypes'
  BY DEF ListsInv, Lists!ListsAssumption, ListsTypes, MetaMap, FrameRecord, WriteRecord,
         CallRecord, MigrationRecord, PinRecord, ArchivingRecord, Ids, Lists!PinFails,
         Lists!hostVars, Lists!connVars, Lists!listVars, Lists!restoreVars, Lists!metaVars,
         Lists!historyVars, Lists!Failed
<1>2. CallsMatch'
  BY DEF ListsInv, Lists!ListsAssumption, ListsTypes, CallsMatch, Lists!PinFails, Lists!hostVars,
         Lists!connVars, Lists!listVars, Lists!restoreVars, Lists!metaVars, Lists!historyVars,
         Lists!Failed
<1>3. HostIsTrue'
  BY DEF ListsInv, Lists!ListsAssumption, ListsTypes, HostIsTrue, Due, CallsMatch,
         Lists!PinFails, Lists!hostVars, Lists!connVars, Lists!listVars, Lists!restoreVars,
         Lists!metaVars, Lists!historyVars, Lists!Failed
<1>4. CopyIsTrue'
  BY DEF ListsInv, Lists!ListsAssumption, ListsTypes, CopyIsTrue, HostIsTrue, Due, CallsMatch,
         Lists!PinFails, Lists!hostVars, Lists!connVars, Lists!listVars, Lists!restoreVars,
         Lists!metaVars, Lists!historyVars, Lists!Failed
<1>5. RestoresKept'
  BY DEF ListsInv, Lists!ListsAssumption, ListsTypes, RestoresKept, CopyIsTrue, HostIsTrue,
         CallsMatch, Due, Lists!PinFails, Lists!hostVars, Lists!connVars, Lists!listVars,
         Lists!restoreVars, Lists!metaVars, Lists!historyVars, Lists!Failed
<1>6. PinsKept'
  BY DEF ListsInv, Lists!ListsAssumption, ListsTypes, PinsKept, HostIsTrue, CallsMatch,
         Lists!PinFails, Lists!hostVars, Lists!connVars, Lists!listVars, Lists!restoreVars,
         Lists!metaVars, Lists!historyVars, Lists!Failed
<1>7. MetaFollows'
  BY DEF ListsInv, Lists!ListsAssumption, ListsTypes, MetaFollows, Lists!PinFails,
         Lists!hostVars, Lists!connVars, Lists!listVars, Lists!restoreVars, Lists!metaVars,
         Lists!historyVars, Lists!Failed
<1> QED
  BY <1>1, <1>2, <1>3, <1>4, <1>5, <1>6, <1>7 DEF ListsInv

LEMMA ToggleSessionPinKeeps ==
  ASSUME Lists!ListsAssumption, ListsInv, NEW id \in Sessions, Lists!ToggleSessionPin(id)
  PROVE  ListsInv'
PROOF
<1>1. ListsTypes'
  BY DEF ListsInv, Lists!ListsAssumption, ListsTypes, MetaMap, FrameRecord, WriteRecord,
         CallRecord, MigrationRecord, PinRecord, ArchivingRecord, Ids, Lists!ToggleSessionPin,
         Lists!hostVars, Lists!connVars, Lists!listVars, Lists!restoreVars, Lists!metaVars,
         Lists!historyVars, Lists!Counted, Lists!Call
<1>2. CallsMatch'
  BY DEF ListsInv, Lists!ListsAssumption, ListsTypes, CallsMatch, Lists!ToggleSessionPin,
         Lists!hostVars, Lists!connVars, Lists!listVars, Lists!restoreVars, Lists!metaVars,
         Lists!historyVars, Lists!Counted, Lists!Call
<1>3. HostIsTrue'
  BY DEF ListsInv, Lists!ListsAssumption, ListsTypes, HostIsTrue, Due, CallsMatch,
         Lists!ToggleSessionPin, Lists!hostVars, Lists!connVars, Lists!listVars,
         Lists!restoreVars, Lists!metaVars, Lists!historyVars, Lists!Counted, Lists!Call
<1>4. CopyIsTrue'
  BY DEF ListsInv, Lists!ListsAssumption, ListsTypes, CopyIsTrue, HostIsTrue, Due, CallsMatch,
         Lists!ToggleSessionPin, Lists!hostVars, Lists!connVars, Lists!listVars,
         Lists!restoreVars, Lists!metaVars, Lists!historyVars, Lists!Counted, Lists!Call
<1>5. RestoresKept'
  BY DEF ListsInv, Lists!ListsAssumption, ListsTypes, RestoresKept, CopyIsTrue, HostIsTrue,
         CallsMatch, Due, Lists!ToggleSessionPin, Lists!hostVars, Lists!connVars, Lists!listVars,
         Lists!restoreVars, Lists!metaVars, Lists!historyVars, Lists!Counted, Lists!Call
<1>6. PinsKept'
  BY DEF ListsInv, Lists!ListsAssumption, ListsTypes, PinsKept, HostIsTrue, CallsMatch,
         Lists!ToggleSessionPin, Lists!hostVars, Lists!connVars, Lists!listVars,
         Lists!restoreVars, Lists!metaVars, Lists!historyVars, Lists!Counted, Lists!Call
<1>7. MetaFollows'
  BY DEF ListsInv, Lists!ListsAssumption, ListsTypes, MetaFollows, Lists!ToggleSessionPin,
         Lists!hostVars, Lists!connVars, Lists!listVars, Lists!restoreVars, Lists!metaVars,
         Lists!historyVars, Lists!Counted, Lists!Call
<1> QED
  BY <1>1, <1>2, <1>3, <1>4, <1>5, <1>6, <1>7 DEF ListsInv

LEMMA ToggleLandsKeeps ==
  ASSUME Lists!ListsAssumption, ListsInv, NEW r \in rpcs, Lists!ToggleLands(r)
  PROVE  ListsInv'
PROOF
<1>1. ListsTypes'
  BY DEF ListsInv, Lists!ListsAssumption, ListsTypes, MetaMap, FrameRecord, WriteRecord,
         CallRecord, MigrationRecord, PinRecord, ArchivingRecord, Ids, Lists!ToggleLands,
         Lists!hostVars, Lists!connVars, Lists!listVars, Lists!restoreVars, Lists!metaVars,
         Lists!historyVars, Lists!Answered
<1>2. CallsMatch'
  BY DEF ListsInv, Lists!ListsAssumption, ListsTypes, CallsMatch, Lists!ToggleLands,
         Lists!hostVars, Lists!connVars, Lists!listVars, Lists!restoreVars, Lists!metaVars,
         Lists!historyVars, Lists!Answered
<1>3. HostIsTrue'
  BY DEF ListsInv, Lists!ListsAssumption, ListsTypes, HostIsTrue, Due, CallsMatch,
         Lists!ToggleLands, Lists!hostVars, Lists!connVars, Lists!listVars, Lists!restoreVars,
         Lists!metaVars, Lists!historyVars, Lists!Answered
<1>4. CopyIsTrue'
  BY DEF ListsInv, Lists!ListsAssumption, ListsTypes, CopyIsTrue, HostIsTrue, Due, CallsMatch,
         Lists!ToggleLands, Lists!hostVars, Lists!connVars, Lists!listVars, Lists!restoreVars,
         Lists!metaVars, Lists!historyVars, Lists!Answered
<1>5. RestoresKept'
  BY DEF ListsInv, Lists!ListsAssumption, ListsTypes, RestoresKept, CopyIsTrue, HostIsTrue,
         CallsMatch, Due, Lists!ToggleLands, Lists!hostVars, Lists!connVars, Lists!listVars,
         Lists!restoreVars, Lists!metaVars, Lists!historyVars, Lists!Answered
<1>6. PinsKept'
  BY DEF ListsInv, Lists!ListsAssumption, ListsTypes, PinsKept, HostIsTrue, CallsMatch,
         Lists!ToggleLands, Lists!hostVars, Lists!connVars, Lists!listVars, Lists!restoreVars,
         Lists!metaVars, Lists!historyVars, Lists!Answered
<1>7. MetaFollows'
  BY DEF ListsInv, Lists!ListsAssumption, ListsTypes, MetaFollows, Lists!ToggleLands,
         Lists!hostVars, Lists!connVars, Lists!listVars, Lists!restoreVars, Lists!metaVars,
         Lists!historyVars, Lists!Answered
<1> QED
  BY <1>1, <1>2, <1>3, <1>4, <1>5, <1>6, <1>7 DEF ListsInv

LEMMA ListsConnectKeeps ==
  ASSUME Lists!ListsAssumption, ListsInv, Lists!Connect
  PROVE  ListsInv'
PROOF
<1>0. [archived |-> hArchived, pinned |-> hPinned] \in FrameRecord
  BY DEF FrameRecord, ListsInv, ListsTypes
<1>1. ListsTypes'
  BY <1>0 DEF Lists!Connect, ListsInv, ListsTypes, Lists!hostVars, Lists!listVars,
         Lists!restoreVars, Lists!metaVars, Lists!historyVars
<1>2. CallsMatch'
  BY DEF ListsInv, Lists!ListsAssumption, ListsTypes, CallsMatch, Lists!Connect, Lists!hostVars,
         Lists!connVars, Lists!listVars, Lists!restoreVars, Lists!metaVars, Lists!historyVars
<1>3. HostIsTrue'
  BY DEF ListsInv, Lists!ListsAssumption, ListsTypes, HostIsTrue, Due, CallsMatch, Lists!Connect,
         Lists!hostVars, Lists!connVars, Lists!listVars, Lists!restoreVars, Lists!metaVars,
         Lists!historyVars
<1>4. CopyIsTrue'
  BY DEF ListsInv, Lists!ListsAssumption, ListsTypes, CopyIsTrue, HostIsTrue, Due, CallsMatch,
         Lists!Connect, Lists!hostVars, Lists!connVars, Lists!listVars, Lists!restoreVars,
         Lists!metaVars, Lists!historyVars
<1>5. RestoresKept'
  BY DEF ListsInv, Lists!ListsAssumption, ListsTypes, RestoresKept, CopyIsTrue, HostIsTrue,
         CallsMatch, Due, Lists!Connect, Lists!hostVars, Lists!connVars, Lists!listVars,
         Lists!restoreVars, Lists!metaVars, Lists!historyVars
<1>6. PinsKept'
  BY DEF ListsInv, Lists!ListsAssumption, ListsTypes, PinsKept, HostIsTrue, CallsMatch,
         Lists!Connect, Lists!hostVars, Lists!connVars, Lists!listVars, Lists!restoreVars,
         Lists!metaVars, Lists!historyVars
<1>7. MetaFollows'
  BY DEF ListsInv, Lists!ListsAssumption, ListsTypes, MetaFollows, Lists!Connect, Lists!hostVars,
         Lists!connVars, Lists!listVars, Lists!restoreVars, Lists!metaVars, Lists!historyVars
<1> QED
  BY <1>1, <1>2, <1>3, <1>4, <1>5, <1>6, <1>7 DEF ListsInv

LEMMA ListsDisconnectKeeps ==
  ASSUME Lists!ListsAssumption, ListsInv, Lists!Disconnect
  PROVE  ListsInv'
PROOF
<1>0. Lists!NoPins \in PinRecord /\ Lists!NotArchiving \in ArchivingRecord
  BY DEF Lists!NoPins, PinRecord, Lists!NotArchiving, ArchivingRecord, Ids
<1>10. migration' \in MigrationRecord
  BY DEF Lists!Disconnect, MigrationRecord, ListsInv, ListsTypes
<1>11. updates' \in Seq(WriteRecord)
  <2>1. \A w \in WriteRecord : [w EXCEPT !.by = IF w.by = "pins" THEN "update" ELSE w.by] \in WriteRecord
    BY DEF WriteRecord
  <2>2. updates \in Seq(WriteRecord)
    BY DEF ListsInv, ListsTypes
  <2>3. /\ DOMAIN updates = 1..Len(updates) /\ Len(updates) \in Nat
        /\ \A i \in 1..Len(updates) : updates[i] \in WriteRecord
    BY <2>2
  <2>4. updates' = [i \in 1..Len(updates) |->
                     [updates[i] EXCEPT !.by = IF updates[i].by = "pins" THEN "update"
                       ELSE updates[i].by]]
    BY <2>3 DEF Lists!Disconnect
  <2>5. updates' \in [1..Len(updates) -> WriteRecord]
    BY <2>1, <2>3, <2>4
  <2> QED
    BY <2>3, <2>5, SeqDef
<1>1. ListsTypes'
  BY <1>0, <1>10, <1>11 DEF Lists!Disconnect, Lists!NotArchiving, ListsInv, ListsTypes,
         Lists!hostVars, Lists!historyVars
<1>2. CallsMatch'
  BY DEF ListsInv, Lists!ListsAssumption, ListsTypes, CallsMatch, Lists!Disconnect,
         Lists!hostVars, Lists!connVars, Lists!listVars, Lists!restoreVars, Lists!metaVars,
         Lists!historyVars, Lists!NoPins, Lists!NotArchiving
<1>3. HostIsTrue'
  BY DEF ListsInv, Lists!ListsAssumption, ListsTypes, HostIsTrue, Due, CallsMatch,
         Lists!Disconnect, Lists!hostVars, Lists!connVars, Lists!listVars, Lists!restoreVars,
         Lists!metaVars, Lists!historyVars, Lists!NoPins, Lists!NotArchiving
<1>4. CopyIsTrue'
  BY DEF ListsInv, Lists!ListsAssumption, ListsTypes, CopyIsTrue, HostIsTrue, Due, CallsMatch,
         Lists!Disconnect, Lists!hostVars, Lists!connVars, Lists!listVars, Lists!restoreVars,
         Lists!metaVars, Lists!historyVars, Lists!NoPins, Lists!NotArchiving
<1>5. RestoresKept'
  BY DEF ListsInv, Lists!ListsAssumption, ListsTypes, RestoresKept, CopyIsTrue, HostIsTrue,
         CallsMatch, Due, Lists!Disconnect, Lists!hostVars, Lists!connVars, Lists!listVars,
         Lists!restoreVars, Lists!metaVars, Lists!historyVars, Lists!NoPins, Lists!NotArchiving
<1>6. PinsKept'
  BY DEF ListsInv, Lists!ListsAssumption, ListsTypes, PinsKept, HostIsTrue, CallsMatch,
         Lists!Disconnect, Lists!hostVars, Lists!connVars, Lists!listVars, Lists!restoreVars,
         Lists!metaVars, Lists!historyVars, Lists!NoPins, Lists!NotArchiving
<1>7. MetaFollows'
  BY DEF ListsInv, Lists!ListsAssumption, ListsTypes, MetaFollows, Lists!Disconnect,
         Lists!hostVars, Lists!connVars, Lists!listVars, Lists!restoreVars, Lists!metaVars,
         Lists!historyVars, Lists!NoPins, Lists!NotArchiving
<1> QED
  BY <1>1, <1>2, <1>3, <1>4, <1>5, <1>6, <1>7 DEF ListsInv

LEMMA ReloadKeeps ==
  ASSUME Lists!ListsAssumption, ListsInv, Lists!Reload
  PROVE  ListsInv'
PROOF
<1>0. Lists!NoPins \in PinRecord /\ Lists!Idle \in MigrationRecord
      /\ Lists!NotArchiving \in ArchivingRecord
  BY DEF Lists!NoPins, Lists!Idle, PinRecord, MigrationRecord, Lists!NotArchiving,
         ArchivingRecord, Ids
<1>1. ListsTypes'
  <2>1. <<>> \in Seq(FrameRecord) /\ <<>> \in Seq(WriteRecord)
    OBVIOUS
  <2>2. archiving' \in ArchivingRecord /\ archiving'.at # "wait"
    BY <1>0 DEF Lists!Reload, Lists!NotArchiving
  <2> QED
    BY <1>0, <2>1, <2>2 DEF Lists!Reload, ListsInv, ListsTypes, Lists!hostVars, Lists!historyVars
<1>2. CallsMatch'
  BY DEF ListsInv, Lists!ListsAssumption, ListsTypes, CallsMatch, Lists!Reload, Lists!hostVars,
         Lists!connVars, Lists!listVars, Lists!restoreVars, Lists!metaVars, Lists!historyVars,
         Lists!Idle, Lists!NoPins, Lists!NotArchiving
<1>3. HostIsTrue'
  BY DEF ListsInv, Lists!ListsAssumption, ListsTypes, HostIsTrue, Due, CallsMatch, Lists!Reload,
         Lists!hostVars, Lists!connVars, Lists!listVars, Lists!restoreVars, Lists!metaVars,
         Lists!historyVars, Lists!Idle, Lists!NoPins, Lists!NotArchiving
<1>4. CopyIsTrue'
  BY DEF ListsInv, Lists!ListsAssumption, ListsTypes, CopyIsTrue, HostIsTrue, Due, CallsMatch,
         Lists!Reload, Lists!hostVars, Lists!connVars, Lists!listVars, Lists!restoreVars,
         Lists!metaVars, Lists!historyVars, Lists!Idle, Lists!NoPins, Lists!NotArchiving
<1>5. RestoresKept'
  BY DEF ListsInv, Lists!ListsAssumption, ListsTypes, RestoresKept, CopyIsTrue, HostIsTrue,
         CallsMatch, Due, Lists!Reload, Lists!hostVars, Lists!connVars, Lists!listVars,
         Lists!restoreVars, Lists!metaVars, Lists!historyVars, Lists!Idle, Lists!NoPins,
         Lists!NotArchiving
<1>6. PinsKept'
  BY DEF ListsInv, Lists!ListsAssumption, ListsTypes, PinsKept, HostIsTrue, CallsMatch,
         Lists!Reload, Lists!hostVars, Lists!connVars, Lists!listVars, Lists!restoreVars,
         Lists!metaVars, Lists!historyVars, Lists!Idle, Lists!NoPins, Lists!NotArchiving
<1>7. MetaFollows'
  BY DEF ListsInv, Lists!ListsAssumption, ListsTypes, MetaFollows, Lists!Reload, Lists!hostVars,
         Lists!connVars, Lists!listVars, Lists!restoreVars, Lists!metaVars, Lists!historyVars,
         Lists!Idle, Lists!NoPins, Lists!NotArchiving
<1> QED
  BY <1>1, <1>2, <1>3, <1>4, <1>5, <1>6, <1>7 DEF ListsInv

LEMMA HostRunsKeeps ==
  ASSUME Lists!ListsAssumption, ListsInv, NEW r \in rpcs, Lists!HostRuns(r)
  PROVE  ListsInv'
PROOF
<1> DEFINE answer == IF r.op \in {"pin", "unpin"} THEN hPinned' ELSE hArchived'
           done == [r EXCEPT !.answer = answer]
<1>0. /\ r \in CallRecord /\ hArchived' \subseteq Sessions /\ hPinned' \subseteq Sessions
      /\ rpcs' = (rpcs \ {r}) \cup {done}
  BY DEF Lists!HostRuns, ListsInv, ListsTypes, CallRecord
<1>10. answer \in SUBSET Sessions
  BY <1>0
<1> HIDE DEF answer
<1>11. /\ done \in CallRecord /\ done.by = r.by /\ done.op = r.op /\ done.id = r.id
       /\ done.answer = answer
  BY <1>0, <1>10 DEF CallRecord
<1> HIDE DEF done
<1>12. [archived |-> hArchived', pinned |-> hPinned'] \in FrameRecord
  BY <1>0 DEF FrameRecord
<1>13. wire' = IF up THEN Append(wire, [archived |-> hArchived', pinned |-> hPinned']) ELSE wire
  BY DEF Lists!HostRuns
<1>1. ListsTypes'
  <2>1. wire' \in Seq(FrameRecord)
    BY <1>12, <1>13 DEF ListsInv, ListsTypes
  <2>2. rpcs' \subseteq CallRecord
    BY <1>0, <1>11 DEF ListsInv, ListsTypes
  <2> QED
    BY <1>0, <2>1, <2>2 DEF Lists!HostRuns, ListsInv, ListsTypes, Lists!listVars,
           Lists!restoreVars, Lists!metaVars
<1>2. CallsMatch'
  BY <1>0, <1>11 DEF ListsInv, CallsMatch
<1>3. HostIsTrue'
  <2>1. Due' \subseteq Due /\ pinnedOnce \subseteq pinnedOnce'
    BY DEF Lists!HostRuns, Due
  <2>2. Due' \subseteq hArchived' /\ hPinned' \subseteq pinnedOnce'
    BY <1>0, <1>11 DEF Lists!HostRuns, Due, ListsInv, HostIsTrue, CallRecord
  <2>3. \A i \in 1..Len(wire') : Due' \subseteq wire'[i].archived
        /\ wire'[i].pinned \subseteq pinnedOnce'
    BY <1>12, <1>13, <2>1, <2>2 DEF ListsInv, ListsTypes, HostIsTrue
  <2>4. ASSUME NEW q \in rpcs', q.answer # Lists!Unanswered
        PROVE  /\ IF q.op \in {"archive", "unarchive"} THEN Due' \subseteq q.answer
                  ELSE q.answer \subseteq pinnedOnce'
               /\ q.op = "pin" => q.id \in pinnedOnce'
    <3>1. CASE q = done
      BY <1>0, <1>11, <2>2, <3>1 DEF answer, CallRecord, Lists!HostRuns
    <3>2. CASE q \in rpcs
      BY <2>1, <2>4, <3>2 DEF ListsInv, HostIsTrue
    <3> QED
      BY <1>0, <3>1, <3>2
  <2> QED
    BY <2>1, <2>2, <2>3, <2>4 DEF Lists!HostRuns, ListsInv, HostIsTrue, Lists!listVars
<1>4. CopyIsTrue'
  BY DEF ListsInv, Lists!ListsAssumption, ListsTypes, CopyIsTrue, HostIsTrue, Due, CallsMatch,
         Lists!HostRuns, Lists!hostVars, Lists!connVars, Lists!listVars, Lists!restoreVars,
         Lists!metaVars, Lists!historyVars
<1>5. RestoresKept'
  BY DEF ListsInv, Lists!ListsAssumption, ListsTypes, RestoresKept, CopyIsTrue, HostIsTrue,
         CallsMatch, Due, Lists!HostRuns, Lists!hostVars, Lists!connVars, Lists!listVars,
         Lists!restoreVars, Lists!metaVars, Lists!historyVars
<1>6. PinsKept'
  BY DEF ListsInv, Lists!ListsAssumption, ListsTypes, PinsKept, HostIsTrue, CallsMatch,
         Lists!HostRuns, Lists!hostVars, Lists!connVars, Lists!listVars, Lists!restoreVars,
         Lists!metaVars, Lists!historyVars
<1>7. MetaFollows'
  BY DEF ListsInv, Lists!ListsAssumption, ListsTypes, MetaFollows, Lists!HostRuns,
         Lists!hostVars, Lists!connVars, Lists!listVars, Lists!restoreVars, Lists!metaVars,
         Lists!historyVars
<1> QED
  BY <1>1, <1>2, <1>3, <1>4, <1>5, <1>6, <1>7 DEF ListsInv

LEMMA ListsInit ==
  ASSUME Lists!ListsAssumption, Lists!Init
  PROVE  ListsInv
PROOF
<1>1. ListsTypes
  <2>1. Lists!Idle \in MigrationRecord /\ Lists!NoPins \in PinRecord
        /\ Lists!NotArchiving \in ArchivingRecord
    BY DEF Lists!Idle, MigrationRecord, Lists!NoPins, PinRecord, Lists!NotArchiving,
           ArchivingRecord, Ids
  <2>2. dMeta \in MetaMap
    BY DEF Lists!Init, MetaMap
  <2>3. <<>> \in Seq(FrameRecord) /\ <<>> \in Seq(WriteRecord)
    OBVIOUS
  <2>4. Lists!NotArchiving.at # "wait"
    BY DEF Lists!NotArchiving
  <2> QED
    BY <2>1, <2>2, <2>3, <2>4 DEF Lists!Init, ListsTypes, Ids
<1>2. CallsMatch /\ HostIsTrue /\ CopyIsTrue
  BY DEF Lists!Init, CallsMatch, HostIsTrue, CopyIsTrue, Due
<1>3. RestoresKept /\ PinsKept /\ MetaFollows
  BY DEF Lists!Init, RestoresKept, PinsKept, MetaFollows
<1> QED
  BY <1>1, <1>2, <1>3 DEF ListsInv

LEMMA ListsKeptByStep ==
  ASSUME Lists!ListsAssumption, ListsInv, [Lists!Next]_(Lists!vars)
  PROVE  ListsInv'
PROOF
<1>1. CASE Lists!Next
  BY <1>1, RefreshKeeps, MigrationGoesOnKeeps, UnarchivedKeeps, UnarchiveFailsKeeps,
     PersistRestoresKeeps, ListsUserAsksKeeps, AskHostKeeps, ArchiveLandsKeeps, ArchiveFailsKeeps,
     ArchivePersistsKeeps, HandleWorkspaceKeeps, SetTagsKeeps, RemoveSessionKeeps,
     WriteSettlesKeeps,
     PinsGoOnKeeps, PinLandsKeeps, PinFailsKeeps, ToggleSessionPinKeeps, ToggleLandsKeeps,
     ListsConnectKeeps, ListsDisconnectKeeps, ReloadKeeps, HostRunsKeeps DEF Lists!Next
<1>2. CASE UNCHANGED Lists!vars
  BY <1>2 DEF Lists!vars, Lists!hostVars, Lists!connVars, Lists!listVars, Lists!restoreVars,
         Lists!metaVars, Lists!historyVars, ListsInv, ListsTypes, CallsMatch, HostIsTrue, Due,
         CopyIsTrue, RestoresKept, PinsKept, MetaFollows
<1> QED
  BY <1>1, <1>2

LEMMA ListsImplies ==
  ASSUME ListsInv
  PROVE  Lists!IntentsKept /\ Lists!NoGhostMeta
PROOF
<1>1. blind \/ Lists!RestoreIntentKept
  BY DEF ListsInv, RestoresKept, Lists!RestoreIntentKept
<1>2. overlapped \/ wantedPins \subseteq {s \in Sessions : dMeta[s].pinned} \cup pinnedOnce
  BY DEF ListsInv, ListsTypes, PinsKept
<1>3. Lists!NoGhostMeta
  BY DEF ListsInv, MetaFollows, Lists!NoGhostMeta
<1> QED
  BY <1>1, <1>2, <1>3 DEF Lists!IntentsKept

-----------------------------------------------------------------------------
(* The connection settings.                                                 *)

Profiles == [there : BOOLEAN, keyed : BOOLEAN, header : BOOLEAN]
Clean(p) == \A r \in Routes : ~(p[r].keyed /\ p[r].header)

Stages == {"idle", "describe", "compare", "declare", "keys", "official", "endpoint", "clear",
           "defaults", "refresh", "read", "apply", "write", "key", "remove", "unset", "forget"}
JobRecord ==
  [at : Stages, seen : [Routes -> Profiles], url : {"none", "root", "mirror"},
   route : Routes \cup {Official}, key : BOOLEAN, import : SUBSET Routes,
   pending : SUBSET Routes, relay : BOOLEAN]
LegacyRecord ==
  [providers : SUBSET (Routes \ {Relay}), key : BOOLEAN, url : {"none", "root", "mirror",
        "relay"}]

SettingsTypes ==
  /\ legacy \in LegacyRecord /\ was \in LegacyRecord
  /\ profiles \in [Routes -> Profiles] /\ outdated \subseteq {"connect", "user"}
  /\ keys \subseteq Routes \cup {Official} /\ held \subseteq Routes \cup {Official}
  /\ declared \subseteq Routes
  /\ baseUrl \in {"none", "root", "mirror"} /\ bound \in BOOLEAN /\ view \subseteq Routes
  /\ job \in [{"connect", "user"} -> JobRecord]

(* What is at the host, or was read there, is in the history.               *)
HistoryTrue ==
  /\ keys \subseteq held
  /\ \A r \in Routes : profiles[r].there => r \in declared
  /\ \A p \in {"connect", "user"} : \A r \in Routes : job[p].seen[r].there => r \in declared

(* No profile, stored or read, has a key and the keyless header.            *)
ProfilesClean == Clean(profiles) /\ \A p \in {"connect", "user"} : Clean(job[p].seen)

(* What is left of the legacy settings is what was there.                   *)
LegacyLeft ==
  /\ legacy.providers \in {was.providers, {}} /\ legacy.url \in {was.url, "none"}

Importing == {"compare", "declare", "keys", "official", "endpoint", "clear"}

(* The relay on its way to the host.                                        *)
RelayOnItsWay ==
  LET c == job["connect"] IN
  /\ c.at \in Importing => (c.relay <=> legacy.url = "relay")
  /\ c.at \in {"compare", "declare"} /\ c.relay => Relay \in c.import
  /\ c.at \in {"keys", "official", "endpoint", "clear"} /\ c.relay => Relay \in declared
  /\ c.at = "declare" /\ c.relay /\ c.key => Relay \in c.pending \cup held
  /\ c.at = "keys" /\ c.relay /\ c.key => Relay \in c.pending \cup held
  /\ c.at = "official" /\ c.relay /\ c.key => Relay \in held
  /\ c.at \in {"endpoint", "clear"} /\ c.key => held \cap {Relay, Official} # {}

(* The other providers on theirs.                                           *)
ProvidersOnTheirWay ==
  LET c == job["connect"] IN
  /\ c.at \in {"compare", "declare"} => legacy.providers \subseteq c.import
  /\ c.at \in {"declare", "keys"} => legacy.providers \subseteq c.pending \cup held
  /\ c.at \in {"keys", "official", "endpoint", "clear"} => legacy.providers \subseteq declared
  /\ c.at \in {"official", "endpoint", "clear"} => legacy.providers \subseteq held

(* What LegacyHandedOver says of the key and the relay.                     *)
KeyAndRelayHandedOver ==
  /\ was.key /\ ~legacy.key => held \cap {Relay, Official} # {}
  /\ was.url = "relay" /\ legacy.url = "none" => Relay \in declared
ProvidersHandedOver == was.providers \ legacy.providers \subseteq held \cap declared

SettingsInv ==
  /\ SettingsTypes /\ HistoryTrue /\ ProfilesClean /\ LegacyLeft /\ RelayOnItsWay
  /\ KeyAndRelayHandedOver
  /\ Settings!PiAi \in Namespaces => ProvidersOnTheirWay /\ ProvidersHandedOver


Jobs == {"connect", "user"}

LEMMA IdleTyped ==
  ASSUME Settings!SettingsAssumption
  PROVE  Settings!Idle \in JobRecord /\ Settings!Unread \in [Routes -> Profiles]
         /\ Settings!NoProfile \in Profiles
PROOF
<1>1. Settings!NoProfile \in Profiles
  BY DEF Settings!NoProfile, Profiles
<1>2. Settings!Unread \in [Routes -> Profiles]
  BY <1>1 DEF Settings!Unread
<1>3. Settings!Idle \in JobRecord
  BY <1>2 DEF Settings!Idle, JobRecord, Stages
<1> QED
  BY <1>1, <1>2, <1>3

(* A job that is replaced by another record.                                *)
LEMMA Replaced ==
  ASSUME SettingsTypes, NEW p \in Jobs, NEW j \in JobRecord, job' = [job EXCEPT ![p] = j]
  PROVE  /\ job' \in [Jobs -> JobRecord]
         /\ job'[p] = j /\ \A q \in Jobs \ {p} : job'[q] = job[q]
PROOF BY DEF SettingsTypes, Jobs

LEMMA StageTyped ==
  ASSUME NEW j \in JobRecord, NEW at \in Stages
  PROVE  /\ [j EXCEPT !.at = at] \in JobRecord
         /\ [j EXCEPT !.at = at].at = at
         /\ [j EXCEPT !.at = at].seen = j.seen
         /\ [j EXCEPT !.at = at].url = j.url
         /\ [j EXCEPT !.at = at].route = j.route
         /\ [j EXCEPT !.at = at].key = j.key
         /\ [j EXCEPT !.at = at].import = j.import
         /\ [j EXCEPT !.at = at].pending = j.pending
         /\ [j EXCEPT !.at = at].relay = j.relay
PROOF BY DEF JobRecord

(* A job that goes on to its next stage.                                    *)
LEMMA GoesOn ==
  ASSUME SettingsTypes, NEW p \in Jobs, NEW at \in Stages, Settings!Goes(p, at)
  PROVE  /\ job' \in [Jobs -> JobRecord] /\ job'[p].at = at
         /\ job'[p].seen = job[p].seen
         /\ job'[p].url = job[p].url
         /\ job'[p].route = job[p].route
         /\ job'[p].key = job[p].key
         /\ job'[p].import = job[p].import
         /\ job'[p].pending = job[p].pending
         /\ job'[p].relay = job[p].relay
         /\ \A q \in Jobs \ {p} : job'[q] = job[q]
PROOF
<1>1. job[p] \in JobRecord /\ job' = [job EXCEPT ![p] = [job[p] EXCEPT !.at = at]]
  BY DEF SettingsTypes, Jobs, Settings!Goes
<1> DEFINE j == [job[p] EXCEPT !.at = at]
<1>2. j \in JobRecord /\ j.at = at
      /\ j.seen = job[p].seen
      /\ j.url = job[p].url
      /\ j.route = job[p].route
      /\ j.key = job[p].key
      /\ j.import = job[p].import
      /\ j.pending = job[p].pending
      /\ j.relay = job[p].relay
  BY <1>1, StageTyped
<1>3. job' = [job EXCEPT ![p] = j]
  BY <1>1
<1> HIDE DEF j
<1> QED
  BY <1>2, <1>3, Replaced

(* A job that ends.                                                         *)
LEMMA Ends ==
  ASSUME Settings!SettingsAssumption, SettingsTypes, NEW p \in Jobs, Settings!Drops(p)
  PROVE  /\ job' \in [Jobs -> JobRecord] /\ job'[p] = Settings!Idle
         /\ \A q \in Jobs \ {p} : job'[q] = job[q]
PROOF BY IdleTyped, Replaced DEF Settings!Drops

LEMMA ConnectKeeps ==
  ASSUME Settings!SettingsAssumption, SettingsInv, Settings!Connect
  PROVE  SettingsInv'
PROOF
<1>1. /\ job' \in [Jobs -> JobRecord] /\ job'["connect"].at = "describe"
      /\ job'["user"] = job["user"]
      /\ job'["connect"].seen = job["connect"].seen
      /\ job'["connect"].url = job["connect"].url
      /\ job'["connect"].route = job["connect"].route
      /\ job'["connect"].key = job["connect"].key
      /\ job'["connect"].import = job["connect"].import
      /\ job'["connect"].pending = job["connect"].pending
      /\ job'["connect"].relay = job["connect"].relay
  BY GoesOn DEF Settings!Connect, SettingsInv, Jobs, Stages
<1>2. SettingsTypes'
  BY <1>1 DEF SettingsInv, Settings!SettingsAssumption, Jobs, SettingsTypes, JobRecord,
         LegacyRecord, Settings!Connect, Settings!host, Settings!history, Settings!bounds
<1>3. HistoryTrue'
  BY <1>1 DEF SettingsInv, Settings!SettingsAssumption, Jobs, SettingsTypes, JobRecord,
         LegacyRecord, HistoryTrue, Settings!Connect, Settings!host, Settings!history,
         Settings!bounds
<1>4. ProfilesClean'
  BY <1>1 DEF SettingsInv, Settings!SettingsAssumption, Jobs, SettingsTypes, JobRecord,
         LegacyRecord, ProfilesClean, Clean, Settings!Connect, Settings!host, Settings!history,
         Settings!bounds
<1>5. LegacyLeft'
  BY <1>1 DEF SettingsInv, Settings!SettingsAssumption, Jobs, SettingsTypes, JobRecord,
         LegacyRecord, LegacyLeft, Settings!Connect, Settings!host, Settings!history,
         Settings!bounds
<1>6. RelayOnItsWay'
  BY <1>1 DEF SettingsInv, Settings!SettingsAssumption, Jobs, SettingsTypes, JobRecord,
         LegacyRecord, RelayOnItsWay, Importing, HistoryTrue, Settings!Connect, Settings!host,
         Settings!history, Settings!bounds
<1>7. KeyAndRelayHandedOver'
  BY <1>1 DEF SettingsInv, Settings!SettingsAssumption, Jobs, SettingsTypes, JobRecord,
         LegacyRecord, KeyAndRelayHandedOver, RelayOnItsWay, LegacyLeft, Importing,
         Settings!Connect, Settings!host, Settings!history, Settings!bounds
<1>8. (Settings!PiAi \in Namespaces => ProvidersOnTheirWay /\ ProvidersHandedOver)'
  BY <1>1 DEF SettingsInv, Settings!SettingsAssumption, Jobs, SettingsTypes, JobRecord,
         LegacyRecord, ProvidersOnTheirWay, ProvidersHandedOver, LegacyLeft, HistoryTrue,
         Importing, Settings!Connect, Settings!host, Settings!history, Settings!bounds
<1> QED
  BY <1>2, <1>3, <1>4, <1>5, <1>6, <1>7, <1>8 DEF SettingsInv

LEMMA DisconnectKeeps ==
  ASSUME Settings!SettingsAssumption, SettingsInv, Settings!Disconnect
  PROVE  SettingsInv'
PROOF
<1>2. SettingsTypes'
  BY DEF SettingsInv, Settings!SettingsAssumption, Jobs, SettingsTypes, JobRecord, LegacyRecord,
         Settings!Disconnect, Settings!host, Settings!history, Settings!bounds
<1>3. HistoryTrue'
  BY DEF SettingsInv, Settings!SettingsAssumption, Jobs, SettingsTypes, JobRecord, LegacyRecord,
         HistoryTrue, Settings!Disconnect, Settings!host, Settings!history, Settings!bounds
<1>4. ProfilesClean'
  BY DEF SettingsInv, Settings!SettingsAssumption, Jobs, SettingsTypes, JobRecord, LegacyRecord,
         ProfilesClean, Clean, Settings!Disconnect, Settings!host, Settings!history,
         Settings!bounds
<1>5. LegacyLeft'
  BY DEF SettingsInv, Settings!SettingsAssumption, Jobs, SettingsTypes, JobRecord, LegacyRecord,
         LegacyLeft, Settings!Disconnect, Settings!host, Settings!history, Settings!bounds
<1>6. RelayOnItsWay'
  BY DEF SettingsInv, Settings!SettingsAssumption, Jobs, SettingsTypes, JobRecord, LegacyRecord,
         RelayOnItsWay, Importing, HistoryTrue, Settings!Disconnect, Settings!host,
         Settings!history, Settings!bounds
<1>7. KeyAndRelayHandedOver'
  BY DEF SettingsInv, Settings!SettingsAssumption, Jobs, SettingsTypes, JobRecord, LegacyRecord,
         KeyAndRelayHandedOver, RelayOnItsWay, LegacyLeft, Importing, Settings!Disconnect,
         Settings!host, Settings!history, Settings!bounds
<1>8. (Settings!PiAi \in Namespaces => ProvidersOnTheirWay /\ ProvidersHandedOver)'
  BY DEF SettingsInv, Settings!SettingsAssumption, Jobs, SettingsTypes, JobRecord, LegacyRecord,
         ProvidersOnTheirWay, ProvidersHandedOver, LegacyLeft, HistoryTrue, Importing,
         Settings!Disconnect, Settings!host, Settings!history, Settings!bounds
<1> QED
  BY <1>2, <1>3, <1>4, <1>5, <1>6, <1>7, <1>8 DEF SettingsInv

LEMMA ImportsOfficialKeeps ==
  ASSUME Settings!SettingsAssumption, SettingsInv, Settings!ImportsOfficial
  PROVE  SettingsInv'
PROOF
<1>1. /\ job' \in [Jobs -> JobRecord] /\ job'["connect"].at = "endpoint"
      /\ job'["user"] = job["user"]
      /\ job'["connect"].seen = job["connect"].seen
      /\ job'["connect"].url = job["connect"].url
      /\ job'["connect"].route = job["connect"].route
      /\ job'["connect"].key = job["connect"].key
      /\ job'["connect"].import = job["connect"].import
      /\ job'["connect"].pending = job["connect"].pending
      /\ job'["connect"].relay = job["connect"].relay
  BY GoesOn DEF Settings!ImportsOfficial, SettingsInv, Jobs, Stages
<1>2. SettingsTypes'
  BY <1>1 DEF SettingsInv, Settings!SettingsAssumption, Jobs, SettingsTypes, JobRecord,
         LegacyRecord, Settings!ImportsOfficial, Settings!host, Settings!history,
         Settings!bounds, Settings!Sets
<1>3. HistoryTrue'
  BY <1>1 DEF SettingsInv, Settings!SettingsAssumption, Jobs, SettingsTypes, JobRecord,
         LegacyRecord, HistoryTrue, Settings!ImportsOfficial, Settings!host, Settings!history,
         Settings!bounds, Settings!Sets
<1>4. ProfilesClean'
  BY <1>1 DEF SettingsInv, Settings!SettingsAssumption, Jobs, SettingsTypes, JobRecord,
         LegacyRecord, ProfilesClean, Clean, Settings!ImportsOfficial, Settings!host,
         Settings!history, Settings!bounds, Settings!Sets
<1>5. LegacyLeft'
  BY <1>1 DEF SettingsInv, Settings!SettingsAssumption, Jobs, SettingsTypes, JobRecord,
         LegacyRecord, LegacyLeft, Settings!ImportsOfficial, Settings!host, Settings!history,
         Settings!bounds, Settings!Sets
<1>6. RelayOnItsWay'
  BY <1>1 DEF SettingsInv, Settings!SettingsAssumption, Jobs, SettingsTypes, JobRecord,
         LegacyRecord, RelayOnItsWay, Importing, HistoryTrue, Settings!ImportsOfficial,
         Settings!host, Settings!history, Settings!bounds, Settings!Sets
<1>7. KeyAndRelayHandedOver'
  BY <1>1 DEF SettingsInv, Settings!SettingsAssumption, Jobs, SettingsTypes, JobRecord,
         LegacyRecord, KeyAndRelayHandedOver, RelayOnItsWay, LegacyLeft, Importing,
         Settings!ImportsOfficial, Settings!host, Settings!history, Settings!bounds, Settings!Sets
<1>8. (Settings!PiAi \in Namespaces => ProvidersOnTheirWay /\ ProvidersHandedOver)'
  BY <1>1 DEF SettingsInv, Settings!SettingsAssumption, Jobs, SettingsTypes, JobRecord,
         LegacyRecord, ProvidersOnTheirWay, ProvidersHandedOver, LegacyLeft, HistoryTrue,
         Importing, Settings!ImportsOfficial, Settings!host, Settings!history, Settings!bounds,
         Settings!Sets
<1> QED
  BY <1>2, <1>3, <1>4, <1>5, <1>6, <1>7, <1>8 DEF SettingsInv

LEMMA ImportsEndpointKeeps ==
  ASSUME Settings!SettingsAssumption, SettingsInv, Settings!ImportsEndpoint
  PROVE  SettingsInv'
PROOF
<1>1. /\ job' \in [Jobs -> JobRecord] /\ job'["connect"].at = "clear"
      /\ job'["user"] = job["user"]
      /\ job'["connect"].seen = job["connect"].seen
      /\ job'["connect"].url = job["connect"].url
      /\ job'["connect"].route = job["connect"].route
      /\ job'["connect"].key = job["connect"].key
      /\ job'["connect"].import = job["connect"].import
      /\ job'["connect"].pending = job["connect"].pending
      /\ job'["connect"].relay = job["connect"].relay
  BY GoesOn DEF Settings!ImportsEndpoint, SettingsInv, Jobs, Stages
<1>2. SettingsTypes'
  BY <1>1 DEF SettingsInv, Settings!SettingsAssumption, Jobs, SettingsTypes, JobRecord,
         LegacyRecord, Settings!ImportsEndpoint, Settings!host, Settings!history, Settings!bounds
<1>3. HistoryTrue'
  BY <1>1 DEF SettingsInv, Settings!SettingsAssumption, Jobs, SettingsTypes, JobRecord,
         LegacyRecord, HistoryTrue, Settings!ImportsEndpoint, Settings!host, Settings!history,
         Settings!bounds
<1>4. ProfilesClean'
  BY <1>1 DEF SettingsInv, Settings!SettingsAssumption, Jobs, SettingsTypes, JobRecord,
         LegacyRecord, ProfilesClean, Clean, Settings!ImportsEndpoint, Settings!host,
         Settings!history, Settings!bounds
<1>5. LegacyLeft'
  BY <1>1 DEF SettingsInv, Settings!SettingsAssumption, Jobs, SettingsTypes, JobRecord,
         LegacyRecord, LegacyLeft, Settings!ImportsEndpoint, Settings!host, Settings!history,
         Settings!bounds
<1>6. RelayOnItsWay'
  BY <1>1 DEF SettingsInv, Settings!SettingsAssumption, Jobs, SettingsTypes, JobRecord,
         LegacyRecord, RelayOnItsWay, Importing, HistoryTrue, Settings!ImportsEndpoint,
         Settings!host, Settings!history, Settings!bounds
<1>7. KeyAndRelayHandedOver'
  BY <1>1 DEF SettingsInv, Settings!SettingsAssumption, Jobs, SettingsTypes, JobRecord,
         LegacyRecord, KeyAndRelayHandedOver, RelayOnItsWay, LegacyLeft, Importing,
         Settings!ImportsEndpoint, Settings!host, Settings!history, Settings!bounds
<1>8. (Settings!PiAi \in Namespaces => ProvidersOnTheirWay /\ ProvidersHandedOver)'
  BY <1>1 DEF SettingsInv, Settings!SettingsAssumption, Jobs, SettingsTypes, JobRecord,
         LegacyRecord, ProvidersOnTheirWay, ProvidersHandedOver, LegacyLeft, HistoryTrue,
         Importing, Settings!ImportsEndpoint, Settings!host, Settings!history, Settings!bounds
<1> QED
  BY <1>2, <1>3, <1>4, <1>5, <1>6, <1>7, <1>8 DEF SettingsInv

LEMMA AdoptsDefaultsKeeps ==
  ASSUME Settings!SettingsAssumption, SettingsInv, Settings!AdoptsDefaults
  PROVE  SettingsInv'
PROOF
<1>1. /\ job' \in [Jobs -> JobRecord] /\ job'["connect"].at = "refresh"
      /\ job'["user"] = job["user"]
      /\ job'["connect"].seen = job["connect"].seen
      /\ job'["connect"].url = job["connect"].url
      /\ job'["connect"].route = job["connect"].route
      /\ job'["connect"].key = job["connect"].key
      /\ job'["connect"].import = job["connect"].import
      /\ job'["connect"].pending = job["connect"].pending
      /\ job'["connect"].relay = job["connect"].relay
  BY GoesOn DEF Settings!AdoptsDefaults, SettingsInv, Jobs, Stages
<1>2. SettingsTypes'
  BY <1>1 DEF SettingsInv, Settings!SettingsAssumption, Jobs, SettingsTypes, JobRecord,
         LegacyRecord, Settings!AdoptsDefaults, Settings!host, Settings!history, Settings!bounds
<1>3. HistoryTrue'
  BY <1>1 DEF SettingsInv, Settings!SettingsAssumption, Jobs, SettingsTypes, JobRecord,
         LegacyRecord, HistoryTrue, Settings!AdoptsDefaults, Settings!host, Settings!history,
         Settings!bounds
<1>4. ProfilesClean'
  BY <1>1 DEF SettingsInv, Settings!SettingsAssumption, Jobs, SettingsTypes, JobRecord,
         LegacyRecord, ProfilesClean, Clean, Settings!AdoptsDefaults, Settings!host,
         Settings!history, Settings!bounds
<1>5. LegacyLeft'
  BY <1>1 DEF SettingsInv, Settings!SettingsAssumption, Jobs, SettingsTypes, JobRecord,
         LegacyRecord, LegacyLeft, Settings!AdoptsDefaults, Settings!host, Settings!history,
         Settings!bounds
<1>6. RelayOnItsWay'
  BY <1>1 DEF SettingsInv, Settings!SettingsAssumption, Jobs, SettingsTypes, JobRecord,
         LegacyRecord, RelayOnItsWay, Importing, HistoryTrue, Settings!AdoptsDefaults,
         Settings!host, Settings!history, Settings!bounds
<1>7. KeyAndRelayHandedOver'
  BY <1>1 DEF SettingsInv, Settings!SettingsAssumption, Jobs, SettingsTypes, JobRecord,
         LegacyRecord, KeyAndRelayHandedOver, RelayOnItsWay, LegacyLeft, Importing,
         Settings!AdoptsDefaults, Settings!host, Settings!history, Settings!bounds
<1>8. (Settings!PiAi \in Namespaces => ProvidersOnTheirWay /\ ProvidersHandedOver)'
  BY <1>1 DEF SettingsInv, Settings!SettingsAssumption, Jobs, SettingsTypes, JobRecord,
         LegacyRecord, ProvidersOnTheirWay, ProvidersHandedOver, LegacyLeft, HistoryTrue,
         Importing, Settings!AdoptsDefaults, Settings!host, Settings!history, Settings!bounds
<1> QED
  BY <1>2, <1>3, <1>4, <1>5, <1>6, <1>7, <1>8 DEF SettingsInv

LEMMA AppliesKeyKeeps ==
  ASSUME Settings!SettingsAssumption, SettingsInv, Settings!AppliesKey
  PROVE  SettingsInv'
PROOF
<1>1. /\ job' \in [Jobs -> JobRecord] /\ job'["user"].at = "refresh"
      /\ job'["connect"] = job["connect"]
      /\ job'["user"].seen = job["user"].seen
      /\ job'["user"].url = job["user"].url
      /\ job'["user"].route = job["user"].route
      /\ job'["user"].key = job["user"].key
      /\ job'["user"].import = job["user"].import
      /\ job'["user"].pending = job["user"].pending
      /\ job'["user"].relay = job["user"].relay
  BY GoesOn DEF Settings!AppliesKey, SettingsInv, Jobs, Stages
<1>2. SettingsTypes'
  BY <1>1 DEF SettingsInv, Settings!SettingsAssumption, Jobs, SettingsTypes, JobRecord,
         LegacyRecord, Settings!AppliesKey, Settings!host, Settings!history, Settings!bounds,
         Settings!Sets
<1>3. HistoryTrue'
  BY <1>1 DEF SettingsInv, Settings!SettingsAssumption, Jobs, SettingsTypes, JobRecord,
         LegacyRecord, HistoryTrue, Settings!AppliesKey, Settings!host, Settings!history,
         Settings!bounds, Settings!Sets
<1>4. ProfilesClean'
  BY <1>1 DEF SettingsInv, Settings!SettingsAssumption, Jobs, SettingsTypes, JobRecord,
         LegacyRecord, ProfilesClean, Clean, Settings!AppliesKey, Settings!host,
         Settings!history, Settings!bounds, Settings!Sets
<1>5. LegacyLeft'
  BY <1>1 DEF SettingsInv, Settings!SettingsAssumption, Jobs, SettingsTypes, JobRecord,
         LegacyRecord, LegacyLeft, Settings!AppliesKey, Settings!host, Settings!history,
         Settings!bounds, Settings!Sets
<1>6. RelayOnItsWay'
  BY <1>1 DEF SettingsInv, Settings!SettingsAssumption, Jobs, SettingsTypes, JobRecord,
         LegacyRecord, RelayOnItsWay, Importing, HistoryTrue, Settings!AppliesKey, Settings!host,
         Settings!history, Settings!bounds, Settings!Sets
<1>7. KeyAndRelayHandedOver'
  BY <1>1 DEF SettingsInv, Settings!SettingsAssumption, Jobs, SettingsTypes, JobRecord,
         LegacyRecord, KeyAndRelayHandedOver, RelayOnItsWay, LegacyLeft, Importing,
         Settings!AppliesKey, Settings!host, Settings!history, Settings!bounds, Settings!Sets
<1>8. (Settings!PiAi \in Namespaces => ProvidersOnTheirWay /\ ProvidersHandedOver)'
  BY <1>1 DEF SettingsInv, Settings!SettingsAssumption, Jobs, SettingsTypes, JobRecord,
         LegacyRecord, ProvidersOnTheirWay, ProvidersHandedOver, LegacyLeft, HistoryTrue,
         Importing, Settings!AppliesKey, Settings!host, Settings!history, Settings!bounds,
         Settings!Sets
<1> QED
  BY <1>2, <1>3, <1>4, <1>5, <1>6, <1>7, <1>8 DEF SettingsInv

LEMMA ForgetsKeyKeeps ==
  ASSUME Settings!SettingsAssumption, SettingsInv, Settings!ForgetsKey
  PROVE  SettingsInv'
PROOF
<1>1. /\ job' \in [Jobs -> JobRecord] /\ job'["user"].at = "refresh"
      /\ job'["connect"] = job["connect"]
      /\ job'["user"].seen = job["user"].seen
      /\ job'["user"].url = job["user"].url
      /\ job'["user"].route = job["user"].route
      /\ job'["user"].key = job["user"].key
      /\ job'["user"].import = job["user"].import
      /\ job'["user"].pending = job["user"].pending
      /\ job'["user"].relay = job["user"].relay
  BY GoesOn DEF Settings!ForgetsKey, SettingsInv, Jobs, Stages
<1>2. SettingsTypes'
  BY <1>1 DEF SettingsInv, Settings!SettingsAssumption, Jobs, SettingsTypes, JobRecord,
         LegacyRecord, Settings!ForgetsKey, Settings!host, Settings!history, Settings!bounds
<1>3. HistoryTrue'
  BY <1>1 DEF SettingsInv, Settings!SettingsAssumption, Jobs, SettingsTypes, JobRecord,
         LegacyRecord, HistoryTrue, Settings!ForgetsKey, Settings!host, Settings!history,
         Settings!bounds
<1>4. ProfilesClean'
  BY <1>1 DEF SettingsInv, Settings!SettingsAssumption, Jobs, SettingsTypes, JobRecord,
         LegacyRecord, ProfilesClean, Clean, Settings!ForgetsKey, Settings!host,
         Settings!history, Settings!bounds
<1>5. LegacyLeft'
  BY <1>1 DEF SettingsInv, Settings!SettingsAssumption, Jobs, SettingsTypes, JobRecord,
         LegacyRecord, LegacyLeft, Settings!ForgetsKey, Settings!host, Settings!history,
         Settings!bounds
<1>6. RelayOnItsWay'
  BY <1>1 DEF SettingsInv, Settings!SettingsAssumption, Jobs, SettingsTypes, JobRecord,
         LegacyRecord, RelayOnItsWay, Importing, HistoryTrue, Settings!ForgetsKey, Settings!host,
         Settings!history, Settings!bounds
<1>7. KeyAndRelayHandedOver'
  BY <1>1 DEF SettingsInv, Settings!SettingsAssumption, Jobs, SettingsTypes, JobRecord,
         LegacyRecord, KeyAndRelayHandedOver, RelayOnItsWay, LegacyLeft, Importing,
         Settings!ForgetsKey, Settings!host, Settings!history, Settings!bounds
<1>8. (Settings!PiAi \in Namespaces => ProvidersOnTheirWay /\ ProvidersHandedOver)'
  BY <1>1 DEF SettingsInv, Settings!SettingsAssumption, Jobs, SettingsTypes, JobRecord,
         LegacyRecord, ProvidersOnTheirWay, ProvidersHandedOver, LegacyLeft, HistoryTrue,
         Importing, Settings!ForgetsKey, Settings!host, Settings!history, Settings!bounds
<1> QED
  BY <1>2, <1>3, <1>4, <1>5, <1>6, <1>7, <1>8 DEF SettingsInv

LEMMA ClearsOfficialKeyKeeps ==
  ASSUME Settings!SettingsAssumption, SettingsInv, Settings!ClearsOfficialKey
  PROVE  SettingsInv'
PROOF
<1>1. /\ job' \in [Jobs -> JobRecord] /\ job'["user"].at = "refresh"
      /\ job'["connect"] = job["connect"]
      /\ job'["user"].seen = job["user"].seen
      /\ job'["user"].url = job["user"].url
      /\ job'["user"].route = job["user"].route
      /\ job'["user"].key = job["user"].key
      /\ job'["user"].import = job["user"].import
      /\ job'["user"].pending = job["user"].pending
      /\ job'["user"].relay = job["user"].relay
  BY GoesOn DEF Settings!ClearsOfficialKey, SettingsInv, Jobs, Stages
<1>2. SettingsTypes'
  BY <1>1 DEF SettingsInv, Settings!SettingsAssumption, Jobs, SettingsTypes, JobRecord,
         LegacyRecord, Settings!ClearsOfficialKey, Settings!host, Settings!history,
         Settings!bounds
<1>3. HistoryTrue'
  BY <1>1 DEF SettingsInv, Settings!SettingsAssumption, Jobs, SettingsTypes, JobRecord,
         LegacyRecord, HistoryTrue, Settings!ClearsOfficialKey, Settings!host, Settings!history,
         Settings!bounds
<1>4. ProfilesClean'
  BY <1>1 DEF SettingsInv, Settings!SettingsAssumption, Jobs, SettingsTypes, JobRecord,
         LegacyRecord, ProfilesClean, Clean, Settings!ClearsOfficialKey, Settings!host,
         Settings!history, Settings!bounds
<1>5. LegacyLeft'
  BY <1>1 DEF SettingsInv, Settings!SettingsAssumption, Jobs, SettingsTypes, JobRecord,
         LegacyRecord, LegacyLeft, Settings!ClearsOfficialKey, Settings!host, Settings!history,
         Settings!bounds
<1>6. RelayOnItsWay'
  BY <1>1 DEF SettingsInv, Settings!SettingsAssumption, Jobs, SettingsTypes, JobRecord,
         LegacyRecord, RelayOnItsWay, Importing, HistoryTrue, Settings!ClearsOfficialKey,
         Settings!host, Settings!history, Settings!bounds
<1>7. KeyAndRelayHandedOver'
  BY <1>1 DEF SettingsInv, Settings!SettingsAssumption, Jobs, SettingsTypes, JobRecord,
         LegacyRecord, KeyAndRelayHandedOver, RelayOnItsWay, LegacyLeft, Importing,
         Settings!ClearsOfficialKey, Settings!host, Settings!history, Settings!bounds
<1>8. (Settings!PiAi \in Namespaces => ProvidersOnTheirWay /\ ProvidersHandedOver)'
  BY <1>1 DEF SettingsInv, Settings!SettingsAssumption, Jobs, SettingsTypes, JobRecord,
         LegacyRecord, ProvidersOnTheirWay, ProvidersHandedOver, LegacyLeft, HistoryTrue,
         Importing, Settings!ClearsOfficialKey, Settings!host, Settings!history, Settings!bounds
<1> QED
  BY <1>2, <1>3, <1>4, <1>5, <1>6, <1>7, <1>8 DEF SettingsInv

LEMMA StoresKeyKeeps ==
  ASSUME Settings!SettingsAssumption, SettingsInv, Settings!StoresKey
  PROVE  SettingsInv'
PROOF
<1>2. SettingsTypes'
  BY DEF SettingsInv, Settings!SettingsAssumption, Jobs, SettingsTypes, JobRecord, LegacyRecord,
         Settings!StoresKey, Settings!host, Settings!history, Settings!bounds
<1>3. HistoryTrue'
  BY DEF SettingsInv, Settings!SettingsAssumption, Jobs, SettingsTypes, JobRecord, LegacyRecord,
         HistoryTrue, Settings!StoresKey, Settings!host, Settings!history, Settings!bounds
<1>4. ProfilesClean'
  BY DEF SettingsInv, Settings!SettingsAssumption, Jobs, SettingsTypes, JobRecord, LegacyRecord,
         ProfilesClean, Clean, Settings!StoresKey, Settings!host, Settings!history,
         Settings!bounds
<1>5. LegacyLeft'
  BY DEF SettingsInv, Settings!SettingsAssumption, Jobs, SettingsTypes, JobRecord, LegacyRecord,
         LegacyLeft, Settings!StoresKey, Settings!host, Settings!history, Settings!bounds
<1>6. RelayOnItsWay'
  BY DEF SettingsInv, Settings!SettingsAssumption, Jobs, SettingsTypes, JobRecord, LegacyRecord,
         RelayOnItsWay, Importing, HistoryTrue, Settings!StoresKey, Settings!host,
         Settings!history, Settings!bounds
<1>7. KeyAndRelayHandedOver'
  BY DEF SettingsInv, Settings!SettingsAssumption, Jobs, SettingsTypes, JobRecord, LegacyRecord,
         KeyAndRelayHandedOver, RelayOnItsWay, LegacyLeft, Importing, Settings!StoresKey,
         Settings!host, Settings!history, Settings!bounds
<1>8. (Settings!PiAi \in Namespaces => ProvidersOnTheirWay /\ ProvidersHandedOver)'
  BY DEF SettingsInv, Settings!SettingsAssumption, Jobs, SettingsTypes, JobRecord, LegacyRecord,
         ProvidersOnTheirWay, ProvidersHandedOver, LegacyLeft, HistoryTrue, Importing,
         Settings!StoresKey, Settings!host, Settings!history, Settings!bounds
<1> QED
  BY <1>2, <1>3, <1>4, <1>5, <1>6, <1>7, <1>8 DEF SettingsInv

LEMMA DescribesKeeps ==
  ASSUME Settings!SettingsAssumption, SettingsInv, Settings!Describes
  PROVE  SettingsInv'
PROOF
<1>1. /\ job' \in [Jobs -> JobRecord] /\ job'["user"] = job["user"]
      /\ job'["connect"].at = "compare"
      /\ job'["connect"].seen = profiles
      /\ job'["connect"].url = baseUrl
      /\ job'["connect"].route = job["connect"].route
      /\ job'["connect"].key = legacy.key
      /\ job'["connect"].import = Settings!Candidates
      /\ job'["connect"].pending = job["connect"].pending
      /\ job'["connect"].relay = (legacy.url = "relay")
  <2> DEFINE relay == legacy.url = "relay"
             c == job["connect"]
             j == [c EXCEPT !.at = "compare", !.seen = profiles, !.url = baseUrl,
                            !.import = Settings!Candidates, !.key = legacy.key, !.relay = relay]
  <2>1. relay \in BOOLEAN
    OBVIOUS
  <2>2. Settings!Candidates \in SUBSET Routes
    BY DEF Settings!Candidates, SettingsInv, SettingsTypes, LegacyRecord,
           Settings!SettingsAssumption
  <2>3. c \in JobRecord /\ job' = [job EXCEPT !["connect"] = j]
    BY DEF Settings!Describes, SettingsInv, SettingsTypes
  <2> HIDE DEF relay, c
  <2>4. /\ j \in JobRecord /\ j.at = "compare" /\ j.seen = profiles /\ j.url = baseUrl
        /\ j.route = c.route /\ j.key = legacy.key /\ j.import = Settings!Candidates
        /\ j.pending = c.pending /\ j.relay = relay
    BY <2>1, <2>2, <2>3 DEF JobRecord, Stages, SettingsInv, SettingsTypes, LegacyRecord
  <2> HIDE DEF j
  <2> QED
    BY <2>3, <2>4, Replaced DEF SettingsInv, Jobs, relay, c
<1>2. SettingsTypes'
  BY <1>1 DEF SettingsInv, Settings!SettingsAssumption, Jobs, SettingsTypes, JobRecord,
         LegacyRecord, Settings!Describes, Settings!Candidates, Settings!ReadBy, Settings!host,
         Settings!history, Settings!bounds
<1>3. HistoryTrue'
  BY <1>1 DEF SettingsInv, Settings!SettingsAssumption, Jobs, SettingsTypes, JobRecord,
         LegacyRecord, HistoryTrue, Settings!Describes, Settings!Candidates, Settings!ReadBy,
         Settings!host, Settings!history, Settings!bounds
<1>4. ProfilesClean'
  BY <1>1 DEF SettingsInv, Settings!SettingsAssumption, Jobs, SettingsTypes, JobRecord,
         LegacyRecord, ProfilesClean, Clean, Settings!Describes, Settings!Candidates,
         Settings!ReadBy, Settings!host, Settings!history, Settings!bounds
<1>5. LegacyLeft'
  BY <1>1 DEF SettingsInv, Settings!SettingsAssumption, Jobs, SettingsTypes, JobRecord,
         LegacyRecord, LegacyLeft, Settings!Describes, Settings!Candidates, Settings!ReadBy,
         Settings!host, Settings!history, Settings!bounds
<1>6. RelayOnItsWay'
  BY <1>1 DEF SettingsInv, Settings!SettingsAssumption, Jobs, SettingsTypes, JobRecord,
         LegacyRecord, RelayOnItsWay, Importing, HistoryTrue, Settings!Describes,
         Settings!Candidates, Settings!ReadBy, Settings!host, Settings!history, Settings!bounds
<1>7. KeyAndRelayHandedOver'
  BY <1>1 DEF SettingsInv, Settings!SettingsAssumption, Jobs, SettingsTypes, JobRecord,
         LegacyRecord, KeyAndRelayHandedOver, RelayOnItsWay, LegacyLeft, Importing,
         Settings!Describes, Settings!Candidates, Settings!ReadBy, Settings!host,
         Settings!history, Settings!bounds
<1>8. (Settings!PiAi \in Namespaces => ProvidersOnTheirWay /\ ProvidersHandedOver)'
  BY <1>1 DEF SettingsInv, Settings!SettingsAssumption, Jobs, SettingsTypes, JobRecord,
         LegacyRecord, ProvidersOnTheirWay, ProvidersHandedOver, LegacyLeft, HistoryTrue,
         Importing, Settings!Describes, Settings!Candidates, Settings!ReadBy, Settings!host,
         Settings!history, Settings!bounds
<1> QED
  BY <1>2, <1>3, <1>4, <1>5, <1>6, <1>7, <1>8 DEF SettingsInv

LEMMA RefreshesKeeps ==
  ASSUME Settings!SettingsAssumption, SettingsInv, NEW p \in Jobs, Settings!Refreshes(p)
  PROVE  SettingsInv'
PROOF
<1>1. /\ job' \in [Jobs -> JobRecord] /\ job'[p].at = "read" /\ job'[p].seen = profiles
      /\ \A q \in Jobs \ {p} : job'[q] = job[q]
  <2> DEFINE j == [Settings!Idle EXCEPT !.at = "read", !.seen = profiles]
  <2>1. j \in JobRecord /\ j.at = "read" /\ j.seen = profiles
    BY IdleTyped DEF JobRecord, Stages, SettingsInv, SettingsTypes
  <2>2. job' = [job EXCEPT ![p] = j]
    BY DEF Settings!Refreshes
  <2> HIDE DEF j
  <2> QED
    BY <2>1, <2>2, Replaced DEF SettingsInv
<1>2. SettingsTypes'
  BY <1>1 DEF SettingsInv, Settings!SettingsAssumption, Jobs, SettingsTypes, JobRecord,
         LegacyRecord, Settings!Refreshes, Settings!host, Settings!history, Settings!bounds
<1>3. HistoryTrue'
  BY <1>1 DEF SettingsInv, Settings!SettingsAssumption, Jobs, SettingsTypes, JobRecord,
         LegacyRecord, HistoryTrue, Settings!Refreshes, Settings!host, Settings!history,
         Settings!bounds
<1>4. ProfilesClean'
  BY <1>1 DEF SettingsInv, Settings!SettingsAssumption, Jobs, SettingsTypes, JobRecord,
         LegacyRecord, ProfilesClean, Clean, Settings!Refreshes, Settings!host, Settings!history,
         Settings!bounds
<1>5. LegacyLeft'
  BY <1>1 DEF SettingsInv, Settings!SettingsAssumption, Jobs, SettingsTypes, JobRecord,
         LegacyRecord, LegacyLeft, Settings!Refreshes, Settings!host, Settings!history,
         Settings!bounds
<1>6. RelayOnItsWay'
  BY <1>1 DEF SettingsInv, Settings!SettingsAssumption, Jobs, SettingsTypes, JobRecord,
         LegacyRecord, RelayOnItsWay, Importing, HistoryTrue, Settings!Refreshes, Settings!host,
         Settings!history, Settings!bounds
<1>7. KeyAndRelayHandedOver'
  BY <1>1 DEF SettingsInv, Settings!SettingsAssumption, Jobs, SettingsTypes, JobRecord,
         LegacyRecord, KeyAndRelayHandedOver, RelayOnItsWay, LegacyLeft, Importing,
         Settings!Refreshes, Settings!host, Settings!history, Settings!bounds
<1>8. (Settings!PiAi \in Namespaces => ProvidersOnTheirWay /\ ProvidersHandedOver)'
  BY <1>1 DEF SettingsInv, Settings!SettingsAssumption, Jobs, SettingsTypes, JobRecord,
         LegacyRecord, ProvidersOnTheirWay, ProvidersHandedOver, LegacyLeft, HistoryTrue,
         Importing, Settings!Refreshes, Settings!host, Settings!history, Settings!bounds
<1> QED
  BY <1>2, <1>3, <1>4, <1>5, <1>6, <1>7, <1>8 DEF SettingsInv

LEMMA RefreshedKeeps ==
  ASSUME Settings!SettingsAssumption, SettingsInv, NEW p \in Jobs, Settings!Refreshed(p)
  PROVE  SettingsInv'
PROOF
<1>1. /\ job' \in [Jobs -> JobRecord] /\ job'[p] = Settings!Idle
      /\ \A q \in Jobs \ {p} : job'[q] = job[q]
  BY Ends DEF Settings!Refreshed, SettingsInv
<1>2. SettingsTypes'
  BY <1>1 DEF SettingsInv, Settings!SettingsAssumption, Jobs, SettingsTypes, JobRecord,
         LegacyRecord, Settings!Refreshed, Settings!host, Settings!history, Settings!bounds,
         Settings!Idle, Settings!Unread, Settings!NoProfile
<1>3. HistoryTrue'
  BY <1>1 DEF SettingsInv, Settings!SettingsAssumption, Jobs, SettingsTypes, JobRecord,
         LegacyRecord, HistoryTrue, Settings!Refreshed, Settings!host, Settings!history,
         Settings!bounds, Settings!Idle, Settings!Unread, Settings!NoProfile
<1>4. ProfilesClean'
  BY <1>1 DEF SettingsInv, Settings!SettingsAssumption, Jobs, SettingsTypes, JobRecord,
         LegacyRecord, ProfilesClean, Clean, Settings!Refreshed, Settings!host, Settings!history,
         Settings!bounds, Settings!Idle, Settings!Unread, Settings!NoProfile
<1>5. LegacyLeft'
  BY <1>1 DEF SettingsInv, Settings!SettingsAssumption, Jobs, SettingsTypes, JobRecord,
         LegacyRecord, LegacyLeft, Settings!Refreshed, Settings!host, Settings!history,
         Settings!bounds, Settings!Idle, Settings!Unread, Settings!NoProfile
<1>6. RelayOnItsWay'
  BY <1>1 DEF SettingsInv, Settings!SettingsAssumption, Jobs, SettingsTypes, JobRecord,
         LegacyRecord, RelayOnItsWay, Importing, HistoryTrue, Settings!Refreshed, Settings!host,
         Settings!history, Settings!bounds, Settings!Idle, Settings!Unread, Settings!NoProfile
<1>7. KeyAndRelayHandedOver'
  BY <1>1 DEF SettingsInv, Settings!SettingsAssumption, Jobs, SettingsTypes, JobRecord,
         LegacyRecord, KeyAndRelayHandedOver, RelayOnItsWay, LegacyLeft, Importing,
         Settings!Refreshed, Settings!host, Settings!history, Settings!bounds, Settings!Idle,
         Settings!Unread, Settings!NoProfile
<1>8. (Settings!PiAi \in Namespaces => ProvidersOnTheirWay /\ ProvidersHandedOver)'
  BY <1>1 DEF SettingsInv, Settings!SettingsAssumption, Jobs, SettingsTypes, JobRecord,
         LegacyRecord, ProvidersOnTheirWay, ProvidersHandedOver, LegacyLeft, HistoryTrue,
         Importing, Settings!Refreshed, Settings!host, Settings!history, Settings!bounds,
         Settings!Idle, Settings!Unread, Settings!NoProfile
<1> QED
  BY <1>2, <1>3, <1>4, <1>5, <1>6, <1>7, <1>8 DEF SettingsInv

LEMMA FailsKeeps ==
  ASSUME Settings!SettingsAssumption, SettingsInv, NEW p \in Jobs, Settings!Fails(p)
  PROVE  SettingsInv'
PROOF
<1>1. /\ job' \in [Jobs -> JobRecord] /\ job'[p] = Settings!Idle
      /\ \A q \in Jobs \ {p} : job'[q] = job[q]
  BY Ends DEF Settings!Fails, SettingsInv
<1>2. SettingsTypes'
  BY <1>1 DEF SettingsInv, Settings!SettingsAssumption, Jobs, SettingsTypes, JobRecord,
         LegacyRecord, Settings!Fails, Settings!host, Settings!history, Settings!bounds,
         Settings!Idle, Settings!Unread, Settings!NoProfile
<1>3. HistoryTrue'
  BY <1>1 DEF SettingsInv, Settings!SettingsAssumption, Jobs, SettingsTypes, JobRecord,
         LegacyRecord, HistoryTrue, Settings!Fails, Settings!host, Settings!history,
         Settings!bounds, Settings!Idle, Settings!Unread, Settings!NoProfile
<1>4. ProfilesClean'
  BY <1>1 DEF SettingsInv, Settings!SettingsAssumption, Jobs, SettingsTypes, JobRecord,
         LegacyRecord, ProfilesClean, Clean, Settings!Fails, Settings!host, Settings!history,
         Settings!bounds, Settings!Idle, Settings!Unread, Settings!NoProfile
<1>5. LegacyLeft'
  BY <1>1 DEF SettingsInv, Settings!SettingsAssumption, Jobs, SettingsTypes, JobRecord,
         LegacyRecord, LegacyLeft, Settings!Fails, Settings!host, Settings!history,
         Settings!bounds, Settings!Idle, Settings!Unread, Settings!NoProfile
<1>6. RelayOnItsWay'
  BY <1>1 DEF SettingsInv, Settings!SettingsAssumption, Jobs, SettingsTypes, JobRecord,
         LegacyRecord, RelayOnItsWay, Importing, HistoryTrue, Settings!Fails, Settings!host,
         Settings!history, Settings!bounds, Settings!Idle, Settings!Unread, Settings!NoProfile
<1>7. KeyAndRelayHandedOver'
  BY <1>1 DEF SettingsInv, Settings!SettingsAssumption, Jobs, SettingsTypes, JobRecord,
         LegacyRecord, KeyAndRelayHandedOver, RelayOnItsWay, LegacyLeft, Importing,
         Settings!Fails, Settings!host, Settings!history, Settings!bounds, Settings!Idle,
         Settings!Unread, Settings!NoProfile
<1>8. (Settings!PiAi \in Namespaces => ProvidersOnTheirWay /\ ProvidersHandedOver)'
  BY <1>1 DEF SettingsInv, Settings!SettingsAssumption, Jobs, SettingsTypes, JobRecord,
         LegacyRecord, ProvidersOnTheirWay, ProvidersHandedOver, LegacyLeft, HistoryTrue,
         Importing, Settings!Fails, Settings!host, Settings!history, Settings!bounds,
         Settings!Idle, Settings!Unread, Settings!NoProfile
<1> QED
  BY <1>2, <1>3, <1>4, <1>5, <1>6, <1>7, <1>8 DEF SettingsInv

LEMMA UserAsksKeeps ==
  ASSUME Settings!SettingsAssumption, SettingsInv, NEW at \in {"apply", "remove"},
        Settings!UserAsks(at)
  PROVE  SettingsInv'
PROOF
<1>1. /\ job' \in [Jobs -> JobRecord] /\ job'["user"].seen = job["user"].seen
      /\ job'["connect"] = job["connect"]
  <2>1. PICK r \in Routes \cup {Official}, key \in BOOLEAN :
          job' = [job EXCEPT !["user"] = [@ EXCEPT !.at = at, !.route = r, !.key = key]]
    BY DEF Settings!UserAsks
  <2> DEFINE j == [job["user"] EXCEPT !.at = at, !.route = r, !.key = key]
  <2>2. job["user"] \in JobRecord /\ at \in Stages
    BY DEF SettingsInv, SettingsTypes, Jobs, Stages
  <2>3. j \in JobRecord /\ j.seen = job["user"].seen
    BY <2>2 DEF JobRecord
  <2>4. job' = [job EXCEPT !["user"] = j]
    BY <2>1
  <2> HIDE DEF j
  <2> QED
    BY <2>3, <2>4, Replaced DEF SettingsInv, Jobs
<1>2. SettingsTypes'
  BY <1>1 DEF SettingsInv, Settings!SettingsAssumption, Jobs, SettingsTypes, JobRecord,
         LegacyRecord, Settings!UserAsks, Settings!host, Settings!history, Settings!bounds
<1>3. HistoryTrue'
  BY <1>1 DEF SettingsInv, Settings!SettingsAssumption, Jobs, SettingsTypes, JobRecord,
         LegacyRecord, HistoryTrue, Settings!UserAsks, Settings!host, Settings!history,
         Settings!bounds
<1>4. ProfilesClean'
  BY <1>1 DEF SettingsInv, Settings!SettingsAssumption, Jobs, SettingsTypes, JobRecord,
         LegacyRecord, ProfilesClean, Clean, Settings!UserAsks, Settings!host, Settings!history,
         Settings!bounds
<1>5. LegacyLeft'
  BY <1>1 DEF SettingsInv, Settings!SettingsAssumption, Jobs, SettingsTypes, JobRecord,
         LegacyRecord, LegacyLeft, Settings!UserAsks, Settings!host, Settings!history,
         Settings!bounds
<1>6. RelayOnItsWay'
  BY <1>1 DEF SettingsInv, Settings!SettingsAssumption, Jobs, SettingsTypes, JobRecord,
         LegacyRecord, RelayOnItsWay, Importing, HistoryTrue, Settings!UserAsks, Settings!host,
         Settings!history, Settings!bounds
<1>7. KeyAndRelayHandedOver'
  BY <1>1 DEF SettingsInv, Settings!SettingsAssumption, Jobs, SettingsTypes, JobRecord,
         LegacyRecord, KeyAndRelayHandedOver, RelayOnItsWay, LegacyLeft, Importing,
         Settings!UserAsks, Settings!host, Settings!history, Settings!bounds
<1>8. (Settings!PiAi \in Namespaces => ProvidersOnTheirWay /\ ProvidersHandedOver)'
  BY <1>1 DEF SettingsInv, Settings!SettingsAssumption, Jobs, SettingsTypes, JobRecord,
         LegacyRecord, ProvidersOnTheirWay, ProvidersHandedOver, LegacyLeft, HistoryTrue,
         Importing, Settings!UserAsks, Settings!host, Settings!history, Settings!bounds
<1> QED
  BY <1>2, <1>3, <1>4, <1>5, <1>6, <1>7, <1>8 DEF SettingsInv

LEMMA ReadsNamespaceKeeps ==
  ASSUME Settings!SettingsAssumption, SettingsInv, NEW at \in {"apply", "remove"},
        NEW next \in {"write", "unset"},
         Settings!ReadsNamespace(at, next)
  PROVE  SettingsInv'
PROOF
<1>1. /\ job' \in [Jobs -> JobRecord] /\ job'["user"].seen \in {profiles, Settings!Unread}
      /\ job'["connect"] = job["connect"]
  <2>1. CASE Settings!Drops("user")
    BY <2>1, Ends DEF SettingsInv, Jobs, Settings!Idle
  <2>2. CASE job' = [job EXCEPT !["user"].at = next, !["user"].seen = profiles]
    <3> DEFINE j == [job["user"] EXCEPT !.at = next, !.seen = profiles]
    <3>1. job["user"] \in JobRecord /\ next \in Stages /\ profiles \in [Routes -> Profiles]
      BY DEF SettingsInv, SettingsTypes, Jobs, Stages
    <3>2. j \in JobRecord /\ j.seen = profiles
      BY <3>1 DEF JobRecord
    <3>3. job' = [job EXCEPT !["user"] = j]
      BY <2>2 DEF SettingsInv, SettingsTypes
    <3> HIDE DEF j
    <3> QED
      BY <3>2, <3>3, Replaced DEF SettingsInv, Jobs
  <2> QED
    BY <2>1, <2>2 DEF Settings!ReadsNamespace
<1>2. SettingsTypes'
  BY <1>1 DEF SettingsInv, Settings!SettingsAssumption, Jobs, SettingsTypes, JobRecord,
         LegacyRecord, Settings!ReadsNamespace, Settings!ReadBy, Settings!host, Settings!history,
         Settings!bounds, Settings!Unread, Settings!NoProfile
<1>3. HistoryTrue'
  BY <1>1 DEF SettingsInv, Settings!SettingsAssumption, Jobs, SettingsTypes, JobRecord,
         LegacyRecord, HistoryTrue, Settings!ReadsNamespace, Settings!ReadBy, Settings!host,
         Settings!history, Settings!bounds, Settings!Unread, Settings!NoProfile
<1>4. ProfilesClean'
  BY <1>1 DEF SettingsInv, Settings!SettingsAssumption, Jobs, SettingsTypes, JobRecord,
         LegacyRecord, ProfilesClean, Clean, Settings!ReadsNamespace, Settings!ReadBy,
         Settings!host, Settings!history, Settings!bounds, Settings!Unread, Settings!NoProfile
<1>5. LegacyLeft'
  BY <1>1 DEF SettingsInv, Settings!SettingsAssumption, Jobs, SettingsTypes, JobRecord,
         LegacyRecord, LegacyLeft, Settings!ReadsNamespace, Settings!ReadBy, Settings!host,
         Settings!history, Settings!bounds, Settings!Unread, Settings!NoProfile
<1>6. RelayOnItsWay'
  BY <1>1 DEF SettingsInv, Settings!SettingsAssumption, Jobs, SettingsTypes, JobRecord,
         LegacyRecord, RelayOnItsWay, Importing, HistoryTrue, Settings!ReadsNamespace,
         Settings!ReadBy, Settings!host, Settings!history, Settings!bounds, Settings!Unread,
         Settings!NoProfile
<1>7. KeyAndRelayHandedOver'
  BY <1>1 DEF SettingsInv, Settings!SettingsAssumption, Jobs, SettingsTypes, JobRecord,
         LegacyRecord, KeyAndRelayHandedOver, RelayOnItsWay, LegacyLeft, Importing,
         Settings!ReadsNamespace, Settings!ReadBy, Settings!host, Settings!history,
         Settings!bounds, Settings!Unread, Settings!NoProfile
<1>8. (Settings!PiAi \in Namespaces => ProvidersOnTheirWay /\ ProvidersHandedOver)'
  BY <1>1 DEF SettingsInv, Settings!SettingsAssumption, Jobs, SettingsTypes, JobRecord,
         LegacyRecord, ProvidersOnTheirWay, ProvidersHandedOver, LegacyLeft, HistoryTrue,
         Importing, Settings!ReadsNamespace, Settings!ReadBy, Settings!host, Settings!history,
         Settings!bounds, Settings!Unread, Settings!NoProfile
<1> QED
  BY <1>2, <1>3, <1>4, <1>5, <1>6, <1>7, <1>8 DEF SettingsInv

LEMMA OtherWritesKeeps ==
  ASSUME Settings!SettingsAssumption, SettingsInv, NEW r \in Routes, Settings!OtherWrites(r)
  PROVE  SettingsInv'
PROOF
<1>1. PICK stored \in {Settings!NoProfile, Settings!Keyed, Settings!Keyless} \ {profiles[r]} :
               Settings!Mutates([profiles EXCEPT ![r] = stored])
  BY DEF Settings!OtherWrites
<1>2. SettingsTypes'
  <2>1. Settings!NoProfile \in Profiles /\ Settings!Keyed \in Profiles
        /\ Settings!Keyless \in Profiles
    BY DEF Settings!NoProfile, Settings!Keyed, Settings!Keyless, Profiles
  <2>2. profiles' \in [Routes -> Profiles]
    BY <1>1, <2>1, stored \in {Settings!NoProfile, Settings!Keyed,
       Settings!Keyless} DEF Settings!Mutates, SettingsInv, SettingsTypes
  <2> QED
    BY <1>1, <2>2 DEF SettingsInv, SettingsTypes, Settings!OtherWrites, Settings!Mutates,
           Settings!host, Settings!history, Settings!bounds
<1>3. HistoryTrue'
  BY DEF SettingsInv, Settings!SettingsAssumption, Jobs, SettingsTypes, JobRecord, LegacyRecord,
         HistoryTrue, Settings!OtherWrites, Profiles, Settings!Mutates, Settings!Keyed,
         Settings!Keyless, Settings!NoProfile, Settings!host, Settings!history, Settings!bounds
<1>4. ProfilesClean'
  BY DEF SettingsInv, Settings!SettingsAssumption, Jobs, SettingsTypes, JobRecord, LegacyRecord,
         ProfilesClean, Clean, Settings!OtherWrites, Profiles, Settings!Mutates, Settings!Keyed,
         Settings!Keyless, Settings!NoProfile, Settings!host, Settings!history, Settings!bounds
<1>5. LegacyLeft'
  BY DEF SettingsInv, Settings!SettingsAssumption, Jobs, SettingsTypes, JobRecord, LegacyRecord,
         LegacyLeft, Settings!OtherWrites, Profiles, Settings!Mutates, Settings!Keyed,
         Settings!Keyless, Settings!NoProfile, Settings!host, Settings!history, Settings!bounds
<1>6. RelayOnItsWay'
  BY DEF SettingsInv, Settings!SettingsAssumption, Jobs, SettingsTypes, JobRecord, LegacyRecord,
         RelayOnItsWay, Importing, HistoryTrue, Settings!OtherWrites, Profiles, Settings!Mutates,
         Settings!Keyed, Settings!Keyless, Settings!NoProfile, Settings!host, Settings!history,
         Settings!bounds
<1>7. KeyAndRelayHandedOver'
  BY DEF SettingsInv, Settings!SettingsAssumption, Jobs, SettingsTypes, JobRecord, LegacyRecord,
         KeyAndRelayHandedOver, RelayOnItsWay, LegacyLeft, Importing, Settings!OtherWrites,
         Profiles, Settings!Mutates, Settings!Keyed, Settings!Keyless, Settings!NoProfile,
         Settings!host, Settings!history, Settings!bounds
<1>8. (Settings!PiAi \in Namespaces => ProvidersOnTheirWay /\ ProvidersHandedOver)'
  BY DEF SettingsInv, Settings!SettingsAssumption, Jobs, SettingsTypes, JobRecord, LegacyRecord,
         ProvidersOnTheirWay, ProvidersHandedOver, LegacyLeft, HistoryTrue, Importing,
         Settings!OtherWrites, Profiles, Settings!Mutates, Settings!Keyed, Settings!Keyless,
         Settings!NoProfile, Settings!host, Settings!history, Settings!bounds
<1> QED
  BY <1>2, <1>3, <1>4, <1>5, <1>6, <1>7, <1>8 DEF SettingsInv

LEMMA ComparesKeeps ==
  ASSUME Settings!SettingsAssumption, SettingsInv, Settings!Compares
  PROVE  SettingsInv'
PROOF
<1>1. CASE Settings!PiAi \in Namespaces
  <2>1. /\ job' \in [Jobs -> JobRecord] /\ job'["user"] = job["user"]
        /\ job'["connect"].at = "declare"
        /\ job'["connect"].seen = job["connect"].seen
        /\ job'["connect"].url = job["connect"].url
        /\ job'["connect"].route = job["connect"].route
        /\ job'["connect"].key = job["connect"].key
        /\ job'["connect"].import = job["connect"].import
        /\ job'["connect"].pending = {r \in job["connect"].import \ keys : r # Relay
           \/ job["connect"].key}
        /\ job'["connect"].relay = job["connect"].relay
    <3> DEFINE j == [job["connect"] EXCEPT !.at = "declare",
          !.pending = {r \in job["connect"].import \ keys : r # Relay \/ job["connect"].key}]
    <3>1. j \in JobRecord
          /\ j.at = "declare"
          /\ j.seen = job["connect"].seen
          /\ j.url = job["connect"].url
          /\ j.route = job["connect"].route
          /\ j.key = job["connect"].key
          /\ j.import = job["connect"].import
          /\ j.pending = {r \in job["connect"].import \ keys : r # Relay \/ job["connect"].key}
          /\ j.relay = job["connect"].relay
      BY IdleTyped DEF JobRecord, Stages, SettingsInv, SettingsTypes
    <3>2. job' = [job EXCEPT !["connect"] = j]
      BY <1>1 DEF SettingsInv, SettingsTypes, Settings!Compares
    <3> HIDE DEF j
    <3> QED
      BY <3>1, <3>2, Replaced DEF SettingsInv, Jobs
  <2>2. SettingsTypes'
    BY <1>1, <2>1 DEF SettingsInv, Settings!SettingsAssumption, Jobs, SettingsTypes, JobRecord,
           LegacyRecord, Settings!Compares, Settings!host, Settings!history, Settings!bounds
  <2>3. HistoryTrue'
    BY <1>1, <2>1 DEF SettingsInv, Settings!SettingsAssumption, Jobs, SettingsTypes, JobRecord,
           LegacyRecord, HistoryTrue, Settings!Compares, Settings!host, Settings!history,
           Settings!bounds
  <2>4. ProfilesClean'
    BY <1>1, <2>1 DEF SettingsInv, Settings!SettingsAssumption, Jobs, SettingsTypes, JobRecord,
           LegacyRecord, ProfilesClean, Clean, Settings!Compares, Settings!host,
           Settings!history, Settings!bounds
  <2>5. LegacyLeft'
    BY <1>1, <2>1 DEF SettingsInv, Settings!SettingsAssumption, Jobs, SettingsTypes, JobRecord,
           LegacyRecord, LegacyLeft, Settings!Compares, Settings!host, Settings!history,
           Settings!bounds
  <2>6. RelayOnItsWay'
    BY <1>1, <2>1 DEF SettingsInv, Settings!SettingsAssumption, Jobs, SettingsTypes, JobRecord,
           LegacyRecord, RelayOnItsWay, Importing, HistoryTrue, Settings!Compares, Settings!host,
           Settings!history, Settings!bounds
  <2>7. KeyAndRelayHandedOver'
    BY <1>1, <2>1 DEF SettingsInv, Settings!SettingsAssumption, Jobs, SettingsTypes, JobRecord,
           LegacyRecord, KeyAndRelayHandedOver, RelayOnItsWay, LegacyLeft, Importing,
           Settings!Compares, Settings!host, Settings!history, Settings!bounds
  <2>8. (Settings!PiAi \in Namespaces => ProvidersOnTheirWay /\ ProvidersHandedOver)'
    BY <1>1, <2>1 DEF SettingsInv, Settings!SettingsAssumption, Jobs, SettingsTypes, JobRecord,
           LegacyRecord, ProvidersOnTheirWay, ProvidersHandedOver, LegacyLeft, HistoryTrue,
           Importing, Settings!Compares, Settings!host, Settings!history, Settings!bounds
  <2> QED
    BY <2>2, <2>3, <2>4, <2>5, <2>6, <2>7, <2>8 DEF SettingsInv
<1>2. CASE Settings!PiAi \notin Namespaces /\ job["connect"].relay
  <2>1. /\ job' \in [Jobs -> JobRecord] /\ job'["connect"] = Settings!Idle
        /\ job'["user"] = job["user"]
    BY <1>2, Ends DEF Settings!Compares, Settings!Drops, SettingsInv, Jobs
  <2>2. SettingsTypes'
    BY <1>2, <2>1 DEF SettingsInv, Settings!SettingsAssumption, Jobs, SettingsTypes, JobRecord,
           LegacyRecord, Settings!Compares, Settings!host, Settings!history, Settings!bounds,
           Settings!Idle, Settings!Unread, Settings!NoProfile
  <2>3. HistoryTrue'
    BY <1>2, <2>1 DEF SettingsInv, Settings!SettingsAssumption, Jobs, SettingsTypes, JobRecord,
           LegacyRecord, HistoryTrue, Settings!Compares, Settings!host, Settings!history,
           Settings!bounds, Settings!Idle, Settings!Unread, Settings!NoProfile
  <2>4. ProfilesClean'
    BY <1>2, <2>1 DEF SettingsInv, Settings!SettingsAssumption, Jobs, SettingsTypes, JobRecord,
           LegacyRecord, ProfilesClean, Clean, Settings!Compares, Settings!host,
           Settings!history, Settings!bounds, Settings!Idle, Settings!Unread, Settings!NoProfile
  <2>5. LegacyLeft'
    BY <1>2, <2>1 DEF SettingsInv, Settings!SettingsAssumption, Jobs, SettingsTypes, JobRecord,
           LegacyRecord, LegacyLeft, Settings!Compares, Settings!host, Settings!history,
           Settings!bounds, Settings!Idle, Settings!Unread, Settings!NoProfile
  <2>6. RelayOnItsWay'
    BY <1>2, <2>1 DEF SettingsInv, Settings!SettingsAssumption, Jobs, SettingsTypes, JobRecord,
           LegacyRecord, RelayOnItsWay, Importing, HistoryTrue, Settings!Compares, Settings!host,
           Settings!history, Settings!bounds, Settings!Idle, Settings!Unread, Settings!NoProfile
  <2>7. KeyAndRelayHandedOver'
    BY <1>2, <2>1 DEF SettingsInv, Settings!SettingsAssumption, Jobs, SettingsTypes, JobRecord,
           LegacyRecord, KeyAndRelayHandedOver, RelayOnItsWay, LegacyLeft, Importing,
           Settings!Compares, Settings!host, Settings!history, Settings!bounds, Settings!Idle,
           Settings!Unread, Settings!NoProfile
  <2>8. (Settings!PiAi \in Namespaces => ProvidersOnTheirWay /\ ProvidersHandedOver)'
    BY <1>2, <2>1 DEF SettingsInv, Settings!SettingsAssumption, Jobs, SettingsTypes, JobRecord,
           LegacyRecord, ProvidersOnTheirWay, ProvidersHandedOver, LegacyLeft, HistoryTrue,
           Importing, Settings!Compares, Settings!host, Settings!history, Settings!bounds,
           Settings!Idle, Settings!Unread, Settings!NoProfile
  <2> QED
    BY <2>2, <2>3, <2>4, <2>5, <2>6, <2>7, <2>8 DEF SettingsInv
<1>3. CASE Settings!PiAi \notin Namespaces /\ ~job["connect"].relay
  <2>1. /\ job' \in [Jobs -> JobRecord] /\ job'["connect"].at = "official"
        /\ job'["user"] = job["user"]
        /\ job'["connect"].seen = job["connect"].seen
        /\ job'["connect"].url = job["connect"].url
        /\ job'["connect"].route = job["connect"].route
        /\ job'["connect"].key = job["connect"].key
        /\ job'["connect"].import = job["connect"].import
        /\ job'["connect"].pending = job["connect"].pending
        /\ job'["connect"].relay = job["connect"].relay
    BY <1>3, GoesOn DEF Settings!Compares, Settings!Goes, SettingsInv, Jobs, Stages
  <2>2. SettingsTypes'
    BY <1>3, <2>1 DEF SettingsInv, Settings!SettingsAssumption, Jobs, SettingsTypes, JobRecord,
           LegacyRecord, Settings!Compares, Settings!host, Settings!history, Settings!bounds
  <2>3. HistoryTrue'
    BY <1>3, <2>1 DEF SettingsInv, Settings!SettingsAssumption, Jobs, SettingsTypes, JobRecord,
           LegacyRecord, HistoryTrue, Settings!Compares, Settings!host, Settings!history,
           Settings!bounds
  <2>4. ProfilesClean'
    BY <1>3, <2>1 DEF SettingsInv, Settings!SettingsAssumption, Jobs, SettingsTypes, JobRecord,
           LegacyRecord, ProfilesClean, Clean, Settings!Compares, Settings!host,
           Settings!history, Settings!bounds
  <2>5. LegacyLeft'
    BY <1>3, <2>1 DEF SettingsInv, Settings!SettingsAssumption, Jobs, SettingsTypes, JobRecord,
           LegacyRecord, LegacyLeft, Settings!Compares, Settings!host, Settings!history,
           Settings!bounds
  <2>6. RelayOnItsWay'
    BY <1>3, <2>1 DEF SettingsInv, Settings!SettingsAssumption, Jobs, SettingsTypes, JobRecord,
           LegacyRecord, RelayOnItsWay, Importing, HistoryTrue, Settings!Compares, Settings!host,
           Settings!history, Settings!bounds
  <2>7. KeyAndRelayHandedOver'
    BY <1>3, <2>1 DEF SettingsInv, Settings!SettingsAssumption, Jobs, SettingsTypes, JobRecord,
           LegacyRecord, KeyAndRelayHandedOver, RelayOnItsWay, LegacyLeft, Importing,
           Settings!Compares, Settings!host, Settings!history, Settings!bounds
  <2>8. (Settings!PiAi \in Namespaces => ProvidersOnTheirWay /\ ProvidersHandedOver)'
    BY <1>3, <2>1 DEF SettingsInv, Settings!SettingsAssumption, Jobs, SettingsTypes, JobRecord,
           LegacyRecord, ProvidersOnTheirWay, ProvidersHandedOver, LegacyLeft, HistoryTrue,
           Importing, Settings!Compares, Settings!host, Settings!history, Settings!bounds
  <2> QED
    BY <2>2, <2>3, <2>4, <2>5, <2>6, <2>7, <2>8 DEF SettingsInv
<1> QED
  BY <1>1, <1>2, <1>3 DEF Settings!Compares

LEMMA DeclaresKeeps ==
  ASSUME Settings!SettingsAssumption, SettingsInv, Settings!Declares
  PROVE  SettingsInv'
PROOF
<1>1. CASE {r \in job["connect"].import : ~job["connect"].seen[r].there} # {}
           /\ "connect" \in outdated
  <2>1. /\ job' \in [Jobs -> JobRecord] /\ job'["connect"] = Settings!Idle
        /\ job'["user"] = job["user"]
        /\ UNCHANGED <<profiles, outdated, declared>>
    BY <1>1, Ends DEF Settings!Declares, SettingsInv, Jobs
  <2>2. SettingsTypes'
    BY <1>1, <2>1 DEF SettingsInv, Settings!SettingsAssumption, Jobs, SettingsTypes, JobRecord,
           LegacyRecord, Settings!Declares, Settings!host, Settings!history, Settings!bounds,
           Settings!Idle, Settings!Unread, Settings!NoProfile
  <2>3. HistoryTrue'
    BY <1>1, <2>1 DEF SettingsInv, Settings!SettingsAssumption, Jobs, SettingsTypes, JobRecord,
           LegacyRecord, HistoryTrue, Settings!Declares, Settings!host, Settings!history,
           Settings!bounds, Settings!Idle, Settings!Unread, Settings!NoProfile
  <2>4. ProfilesClean'
    BY <1>1, <2>1 DEF SettingsInv, Settings!SettingsAssumption, Jobs, SettingsTypes, JobRecord,
           LegacyRecord, ProfilesClean, Clean, Settings!Declares, Settings!host,
           Settings!history, Settings!bounds, Settings!Idle, Settings!Unread, Settings!NoProfile
  <2>5. LegacyLeft'
    BY <1>1, <2>1 DEF SettingsInv, Settings!SettingsAssumption, Jobs, SettingsTypes, JobRecord,
           LegacyRecord, LegacyLeft, Settings!Declares, Settings!host, Settings!history,
           Settings!bounds, Settings!Idle, Settings!Unread, Settings!NoProfile
  <2>6. RelayOnItsWay'
    BY <1>1, <2>1 DEF SettingsInv, Settings!SettingsAssumption, Jobs, SettingsTypes, JobRecord,
           LegacyRecord, RelayOnItsWay, Importing, HistoryTrue, Settings!Declares, Settings!host,
           Settings!history, Settings!bounds, Settings!Idle, Settings!Unread, Settings!NoProfile
  <2>7. KeyAndRelayHandedOver'
    BY <1>1, <2>1 DEF SettingsInv, Settings!SettingsAssumption, Jobs, SettingsTypes, JobRecord,
           LegacyRecord, KeyAndRelayHandedOver, RelayOnItsWay, LegacyLeft, Importing,
           Settings!Declares, Settings!host, Settings!history, Settings!bounds, Settings!Idle,
           Settings!Unread, Settings!NoProfile
  <2>8. (Settings!PiAi \in Namespaces => ProvidersOnTheirWay /\ ProvidersHandedOver)'
    BY <1>1, <2>1 DEF SettingsInv, Settings!SettingsAssumption, Jobs, SettingsTypes, JobRecord,
           LegacyRecord, ProvidersOnTheirWay, ProvidersHandedOver, LegacyLeft, HistoryTrue,
           Importing, Settings!Declares, Settings!host, Settings!history, Settings!bounds,
           Settings!Idle, Settings!Unread, Settings!NoProfile
  <2> QED
    BY <2>2, <2>3, <2>4, <2>5, <2>6, <2>7, <2>8 DEF SettingsInv
<1>2. CASE ~({r \in job["connect"].import : ~job["connect"].seen[r].there} # {}
           /\ "connect" \in outdated)
  <2>1. /\ job' \in [Jobs -> JobRecord] /\ job'["user"] = job["user"]
        /\ job'["connect"].at = "keys"
        /\ job'["connect"].seen = Settings!Unread
        /\ job'["connect"].url = job["connect"].url
        /\ job'["connect"].route = job["connect"].route
        /\ job'["connect"].key = job["connect"].key
        /\ job'["connect"].import = {}
        /\ job'["connect"].pending = job["connect"].pending
        /\ job'["connect"].relay = job["connect"].relay
        /\ profiles' \in [Routes -> Profiles] /\ outdated' \subseteq Jobs
           /\ declared' \subseteq Routes
        /\ declared \subseteq declared' /\ job["connect"].import \subseteq declared'
        /\ \A r \in Routes : profiles'[r].there => r \in declared'
        /\ Clean(profiles')
    <3>1. job["connect"].import \subseteq Routes
      BY DEF SettingsInv, SettingsTypes, JobRecord
    <3>2. /\ job' \in [Jobs -> JobRecord] /\ job'["user"] = job["user"]
          /\ job'["connect"].at = "keys"
          /\ job'["connect"].seen = Settings!Unread
          /\ job'["connect"].url = job["connect"].url
          /\ job'["connect"].route = job["connect"].route
          /\ job'["connect"].key = job["connect"].key
          /\ job'["connect"].import = {}
          /\ job'["connect"].pending = job["connect"].pending
          /\ job'["connect"].relay = job["connect"].relay
      <4> DEFINE j == [job["connect"] EXCEPT !.at = "keys", !.seen = Settings!Unread,
            !.import = {}]
      <4>1. j \in JobRecord
            /\ j.at = "keys"
            /\ j.seen = Settings!Unread
            /\ j.url = job["connect"].url
            /\ j.route = job["connect"].route
            /\ j.key = job["connect"].key
            /\ j.import = {}
            /\ j.pending = job["connect"].pending
            /\ j.relay = job["connect"].relay
        BY IdleTyped DEF JobRecord, Stages, SettingsInv, SettingsTypes
      <4>2. job' = [job EXCEPT !["connect"] = j]
        BY <1>2 DEF SettingsInv, SettingsTypes, Settings!Declares
      <4> HIDE DEF j
      <4> QED
        BY <4>1, <4>2, Replaced DEF SettingsInv, Jobs
    <3>3. CASE {r \in job["connect"].import : ~job["connect"].seen[r].there} = {}
      <4>1. UNCHANGED <<profiles, outdated, declared>>
        BY <3>3, <1>2 DEF Settings!Declares
      <4> QED
        BY <3>1, <3>2, <3>3, <4>1 DEF SettingsInv, SettingsTypes, HistoryTrue, ProfilesClean,
               Clean, Jobs
    <3>4. CASE {r \in job["connect"].import : ~job["connect"].seen[r].there} # {}
      <4>1. Settings!Mutates([r \in Routes |->
                               IF r \in {q \in job["connect"].import :
                                         ~job["connect"].seen[q].there}
                               THEN Settings!Keyed ELSE profiles[r]])
        BY <3>4, <1>2 DEF Settings!Declares
      <4> QED
        BY <3>1, <3>2, <3>4, <4>1 DEF Settings!Mutates, Settings!Keyed, Profiles, SettingsInv,
               SettingsTypes, HistoryTrue, ProfilesClean, Clean, Jobs, JobRecord
    <3> QED
      BY <3>2, <3>3, <3>4
  <2>2. SettingsTypes'
    BY <1>2, <2>1 DEF SettingsInv, Settings!SettingsAssumption, Jobs, SettingsTypes, JobRecord,
           LegacyRecord, Settings!Declares, Settings!host, Settings!history, Settings!bounds,
           Settings!Unread, Settings!NoProfile, Clean
  <2>3. HistoryTrue'
    <3>1. UNCHANGED <<keys, held>>
      BY DEF Settings!Declares
    <3>2. \A r \in Routes : ~Settings!Unread[r].there
      BY DEF Settings!Unread, Settings!NoProfile
    <3> QED
      BY <2>1, <3>1, <3>2 DEF SettingsInv, HistoryTrue
  <2>4. ProfilesClean'
    <3>1. Clean(Settings!Unread)
      BY DEF Clean, Settings!Unread, Settings!NoProfile
    <3>2. Clean(job'["connect"].seen)
      BY <2>1, <3>1
    <3>3. Clean(job'["user"].seen)
      BY <2>1 DEF SettingsInv, ProfilesClean
    <3>4. Clean(profiles')
      BY <2>1 DEF Clean
    <3> QED
      BY <3>2, <3>3, <3>4 DEF ProfilesClean, Clean
  <2>5. LegacyLeft'
    BY <1>2, <2>1 DEF SettingsInv, Settings!SettingsAssumption, Jobs, SettingsTypes, JobRecord,
           LegacyRecord, LegacyLeft, Settings!Declares, Settings!host, Settings!history,
           Settings!bounds, Settings!Unread, Settings!NoProfile, Clean
  <2>6. RelayOnItsWay'
    BY <1>2, <2>1 DEF SettingsInv, Settings!SettingsAssumption, Jobs, SettingsTypes, JobRecord,
           LegacyRecord, RelayOnItsWay, Importing, HistoryTrue, Settings!Declares, Settings!host,
           Settings!history, Settings!bounds, Settings!Unread, Settings!NoProfile, Clean
  <2>7. KeyAndRelayHandedOver'
    BY <1>2, <2>1 DEF SettingsInv, Settings!SettingsAssumption, Jobs, SettingsTypes, JobRecord,
           LegacyRecord, KeyAndRelayHandedOver, RelayOnItsWay, LegacyLeft, Importing,
           Settings!Declares, Settings!host, Settings!history, Settings!bounds, Settings!Unread,
           Settings!NoProfile, Clean
  <2>8. (Settings!PiAi \in Namespaces => ProvidersOnTheirWay /\ ProvidersHandedOver)'
    BY <1>2, <2>1 DEF SettingsInv, Settings!SettingsAssumption, Jobs, SettingsTypes, JobRecord,
           LegacyRecord, ProvidersOnTheirWay, ProvidersHandedOver, LegacyLeft, HistoryTrue,
           Importing, Settings!Declares, Settings!host, Settings!history, Settings!bounds,
           Settings!Unread, Settings!NoProfile, Clean
  <2> QED
    BY <2>2, <2>3, <2>4, <2>5, <2>6, <2>7, <2>8 DEF SettingsInv
<1> QED
  BY <1>1, <1>2 DEF Settings!Declares

LEMMA SetsKeysKeeps ==
  ASSUME Settings!SettingsAssumption, SettingsInv, Settings!SetsKeys
  PROVE  SettingsInv'
PROOF
<1>1. CASE job["connect"].pending = {}
  <2>1. /\ job' \in [Jobs -> JobRecord] /\ job'["connect"].at = "official"
        /\ job'["user"] = job["user"]
        /\ job'["connect"].seen = job["connect"].seen
        /\ job'["connect"].url = job["connect"].url
        /\ job'["connect"].route = job["connect"].route
        /\ job'["connect"].key = job["connect"].key
        /\ job'["connect"].import = job["connect"].import
        /\ job'["connect"].pending = job["connect"].pending
        /\ job'["connect"].relay = job["connect"].relay
    BY <1>1, GoesOn DEF Settings!SetsKeys, SettingsInv, Jobs, Stages
  <2>2. SettingsTypes'
    BY <1>1, <2>1 DEF SettingsInv, Settings!SettingsAssumption, Jobs, SettingsTypes, JobRecord,
           LegacyRecord, Settings!SetsKeys, Settings!Sets, Settings!host, Settings!history,
           Settings!bounds
  <2>3. HistoryTrue'
    BY <1>1, <2>1 DEF SettingsInv, Settings!SettingsAssumption, Jobs, SettingsTypes, JobRecord,
           LegacyRecord, HistoryTrue, Settings!SetsKeys, Settings!Sets, Settings!host,
           Settings!history, Settings!bounds
  <2>4. ProfilesClean'
    BY <1>1, <2>1 DEF SettingsInv, Settings!SettingsAssumption, Jobs, SettingsTypes, JobRecord,
           LegacyRecord, ProfilesClean, Clean, Settings!SetsKeys, Settings!Sets, Settings!host,
           Settings!history, Settings!bounds
  <2>5. LegacyLeft'
    BY <1>1, <2>1 DEF SettingsInv, Settings!SettingsAssumption, Jobs, SettingsTypes, JobRecord,
           LegacyRecord, LegacyLeft, Settings!SetsKeys, Settings!Sets, Settings!host,
           Settings!history, Settings!bounds
  <2>6. RelayOnItsWay'
    BY <1>1, <2>1 DEF SettingsInv, Settings!SettingsAssumption, Jobs, SettingsTypes, JobRecord,
           LegacyRecord, RelayOnItsWay, Importing, HistoryTrue, Settings!SetsKeys, Settings!Sets,
           Settings!host, Settings!history, Settings!bounds
  <2>7. KeyAndRelayHandedOver'
    BY <1>1, <2>1 DEF SettingsInv, Settings!SettingsAssumption, Jobs, SettingsTypes, JobRecord,
           LegacyRecord, KeyAndRelayHandedOver, RelayOnItsWay, LegacyLeft, Importing,
           Settings!SetsKeys, Settings!Sets, Settings!host, Settings!history, Settings!bounds
  <2>8. (Settings!PiAi \in Namespaces => ProvidersOnTheirWay /\ ProvidersHandedOver)'
    BY <1>1, <2>1 DEF SettingsInv, Settings!SettingsAssumption, Jobs, SettingsTypes, JobRecord,
           LegacyRecord, ProvidersOnTheirWay, ProvidersHandedOver, LegacyLeft, HistoryTrue,
           Importing, Settings!SetsKeys, Settings!Sets, Settings!host, Settings!history,
           Settings!bounds
  <2> QED
    BY <2>2, <2>3, <2>4, <2>5, <2>6, <2>7, <2>8 DEF SettingsInv
<1>2. CASE job["connect"].pending # {}
  <2>1. /\ job' \in [Jobs -> JobRecord] /\ job'["user"] = job["user"]
        /\ job'["connect"].at = job["connect"].at
        /\ job'["connect"].seen = job["connect"].seen
        /\ job'["connect"].url = job["connect"].url
        /\ job'["connect"].route = job["connect"].route
        /\ job'["connect"].key = job["connect"].key
        /\ job'["connect"].import = job["connect"].import
        /\ job'["connect"].pending \subseteq job["connect"].pending
        /\ job'["connect"].relay = job["connect"].relay
        /\ job["connect"].pending \subseteq job'["connect"].pending \cup held'
           /\ held \subseteq held'
        /\ keys' \subseteq held' /\ held' \subseteq Routes \cup {Official}
    <3>1. PICK r \in job["connect"].pending :
            Settings!Sets({r}) /\ job' = [job EXCEPT !["connect"].pending = @ \ {r}]
      BY <1>2 DEF Settings!SetsKeys
    <3>2. job["connect"].pending \subseteq Routes
      BY DEF SettingsInv, SettingsTypes, JobRecord
    <3> DEFINE j == [job["connect"] EXCEPT !.pending = job["connect"].pending \ {r}]
    <3>3. j \in JobRecord
          /\ j.at = job["connect"].at
          /\ j.seen = job["connect"].seen
          /\ j.url = job["connect"].url
          /\ j.route = job["connect"].route
          /\ j.key = job["connect"].key
          /\ j.import = job["connect"].import
          /\ j.pending = job["connect"].pending \ {r}
          /\ j.relay = job["connect"].relay
      BY <3>2 DEF JobRecord, SettingsInv, SettingsTypes
    <3>4. job' = [job EXCEPT !["connect"] = j]
      BY <3>1 DEF SettingsInv, SettingsTypes
    <3> HIDE DEF j
    <3>5. /\ job' \in [Jobs -> JobRecord] /\ job'["connect"] = j /\ job'["user"] = job["user"]
      BY <3>3, <3>4, Replaced DEF SettingsInv, Jobs
    <3> QED
      BY <3>1, <3>2, <3>3, <3>5 DEF Settings!Sets, SettingsInv, SettingsTypes, HistoryTrue
  <2>2. SettingsTypes'
    BY <1>2, <2>1 DEF SettingsInv, Settings!SettingsAssumption, Jobs, SettingsTypes, JobRecord,
           LegacyRecord, Settings!SetsKeys, Settings!Sets, Settings!host, Settings!history,
           Settings!bounds
  <2>3. HistoryTrue'
    BY <1>2, <2>1 DEF SettingsInv, Settings!SettingsAssumption, Jobs, SettingsTypes, JobRecord,
           LegacyRecord, HistoryTrue, Settings!SetsKeys, Settings!Sets, Settings!host,
           Settings!history, Settings!bounds
  <2>4. ProfilesClean'
    BY <1>2, <2>1 DEF SettingsInv, Settings!SettingsAssumption, Jobs, SettingsTypes, JobRecord,
           LegacyRecord, ProfilesClean, Clean, Settings!SetsKeys, Settings!Sets, Settings!host,
           Settings!history, Settings!bounds
  <2>5. LegacyLeft'
    BY <1>2, <2>1 DEF SettingsInv, Settings!SettingsAssumption, Jobs, SettingsTypes, JobRecord,
           LegacyRecord, LegacyLeft, Settings!SetsKeys, Settings!Sets, Settings!host,
           Settings!history, Settings!bounds
  <2>6. RelayOnItsWay'
    BY <1>2, <2>1 DEF SettingsInv, Settings!SettingsAssumption, Jobs, SettingsTypes, JobRecord,
           LegacyRecord, RelayOnItsWay, Importing, HistoryTrue, Settings!SetsKeys, Settings!Sets,
           Settings!host, Settings!history, Settings!bounds
  <2>7. KeyAndRelayHandedOver'
    BY <1>2, <2>1 DEF SettingsInv, Settings!SettingsAssumption, Jobs, SettingsTypes, JobRecord,
           LegacyRecord, KeyAndRelayHandedOver, RelayOnItsWay, LegacyLeft, Importing,
           Settings!SetsKeys, Settings!Sets, Settings!host, Settings!history, Settings!bounds
  <2>8. (Settings!PiAi \in Namespaces => ProvidersOnTheirWay /\ ProvidersHandedOver)'
    BY <1>2, <2>1 DEF SettingsInv, Settings!SettingsAssumption, Jobs, SettingsTypes, JobRecord,
           LegacyRecord, ProvidersOnTheirWay, ProvidersHandedOver, LegacyLeft, HistoryTrue,
           Importing, Settings!SetsKeys, Settings!Sets, Settings!host, Settings!history,
           Settings!bounds
  <2> QED
    BY <2>2, <2>3, <2>4, <2>5, <2>6, <2>7, <2>8 DEF SettingsInv
<1> QED
  BY <1>1, <1>2 DEF Settings!SetsKeys

LEMMA ClearsKeeps ==
  ASSUME Settings!SettingsAssumption, SettingsInv, Settings!Clears
  PROVE  SettingsInv'
PROOF
<1>1. CASE legacy.providers # {}
  <2>1. /\ UNCHANGED job
        /\ legacy' \in LegacyRecord /\ legacy'.providers = {}
        /\ legacy'.key = legacy.key /\ legacy'.url = legacy.url
    BY <1>1 DEF Settings!Clears, SettingsInv, SettingsTypes, LegacyRecord
  <2>2. SettingsTypes'
    BY <1>1, <2>1 DEF SettingsInv, Settings!SettingsAssumption, Jobs, SettingsTypes, JobRecord,
           LegacyRecord, Settings!Clears, Settings!host, Settings!history, Settings!bounds
  <2>3. HistoryTrue'
    BY <1>1, <2>1 DEF SettingsInv, Settings!SettingsAssumption, Jobs, SettingsTypes, JobRecord,
           LegacyRecord, HistoryTrue, Settings!Clears, Settings!host, Settings!history,
           Settings!bounds
  <2>4. ProfilesClean'
    BY <1>1, <2>1 DEF SettingsInv, Settings!SettingsAssumption, Jobs, SettingsTypes, JobRecord,
           LegacyRecord, ProfilesClean, Clean, Settings!Clears, Settings!host, Settings!history,
           Settings!bounds
  <2>5. LegacyLeft'
    BY <1>1, <2>1 DEF SettingsInv, Settings!SettingsAssumption, Jobs, SettingsTypes, JobRecord,
           LegacyRecord, LegacyLeft, Settings!Clears, Settings!host, Settings!history,
           Settings!bounds
  <2>6. RelayOnItsWay'
    BY <1>1, <2>1 DEF SettingsInv, Settings!SettingsAssumption, Jobs, SettingsTypes, JobRecord,
           LegacyRecord, RelayOnItsWay, Importing, HistoryTrue, Settings!Clears, Settings!host,
           Settings!history, Settings!bounds
  <2>7. KeyAndRelayHandedOver'
    BY <1>1, <2>1 DEF SettingsInv, Settings!SettingsAssumption, Jobs, SettingsTypes, JobRecord,
           LegacyRecord, KeyAndRelayHandedOver, RelayOnItsWay, LegacyLeft, Importing,
           Settings!Clears, Settings!host, Settings!history, Settings!bounds
  <2>8. (Settings!PiAi \in Namespaces => ProvidersOnTheirWay /\ ProvidersHandedOver)'
    BY <1>1, <2>1 DEF SettingsInv, Settings!SettingsAssumption, Jobs, SettingsTypes, JobRecord,
           LegacyRecord, ProvidersOnTheirWay, ProvidersHandedOver, LegacyLeft, HistoryTrue,
           Importing, Settings!Clears, Settings!host, Settings!history, Settings!bounds
  <2> QED
    BY <2>2, <2>3, <2>4, <2>5, <2>6, <2>7, <2>8 DEF SettingsInv
<1>2. CASE legacy.providers = {} /\ job["connect"].key
  <2>1. /\ job' \in [Jobs -> JobRecord] /\ job'["user"] = job["user"]
        /\ job'["connect"].at = job["connect"].at
        /\ job'["connect"].seen = job["connect"].seen
        /\ job'["connect"].url = job["connect"].url
        /\ job'["connect"].route = job["connect"].route
        /\ job'["connect"].key = FALSE
        /\ job'["connect"].import = job["connect"].import
        /\ job'["connect"].pending = job["connect"].pending
        /\ job'["connect"].relay = job["connect"].relay
        /\ legacy' \in LegacyRecord /\ legacy'.providers = legacy.providers
        /\ legacy'.key = FALSE /\ legacy'.url = legacy.url
    <3>1. /\ legacy' \in LegacyRecord /\ legacy'.providers = legacy.providers
          /\ legacy'.key = FALSE /\ legacy'.url = legacy.url
      BY <1>2 DEF Settings!Clears, SettingsInv, SettingsTypes, LegacyRecord
    <3>2. /\ job' \in [Jobs -> JobRecord] /\ job'["user"] = job["user"]
          /\ job'["connect"].at = job["connect"].at
          /\ job'["connect"].seen = job["connect"].seen
          /\ job'["connect"].url = job["connect"].url
          /\ job'["connect"].route = job["connect"].route
          /\ job'["connect"].key = FALSE
          /\ job'["connect"].import = job["connect"].import
          /\ job'["connect"].pending = job["connect"].pending
          /\ job'["connect"].relay = job["connect"].relay
      <4> DEFINE j == [job["connect"] EXCEPT !.key = FALSE]
      <4>1. j \in JobRecord
            /\ j.at = job["connect"].at
            /\ j.seen = job["connect"].seen
            /\ j.url = job["connect"].url
            /\ j.route = job["connect"].route
            /\ j.key = FALSE
            /\ j.import = job["connect"].import
            /\ j.pending = job["connect"].pending
            /\ j.relay = job["connect"].relay
        BY IdleTyped DEF JobRecord, Stages, SettingsInv, SettingsTypes
      <4>2. job' = [job EXCEPT !["connect"] = j]
        BY <1>2 DEF SettingsInv, SettingsTypes, Settings!Clears
      <4> HIDE DEF j
      <4> QED
        BY <4>1, <4>2, Replaced DEF SettingsInv, Jobs
    <3> QED
      BY <3>1, <3>2
  <2>2. SettingsTypes'
    BY <1>2, <2>1 DEF SettingsInv, Settings!SettingsAssumption, Jobs, SettingsTypes, JobRecord,
           LegacyRecord, Settings!Clears, Settings!host, Settings!history, Settings!bounds
  <2>3. HistoryTrue'
    BY <1>2, <2>1 DEF SettingsInv, Settings!SettingsAssumption, Jobs, SettingsTypes, JobRecord,
           LegacyRecord, HistoryTrue, Settings!Clears, Settings!host, Settings!history,
           Settings!bounds
  <2>4. ProfilesClean'
    BY <1>2, <2>1 DEF SettingsInv, Settings!SettingsAssumption, Jobs, SettingsTypes, JobRecord,
           LegacyRecord, ProfilesClean, Clean, Settings!Clears, Settings!host, Settings!history,
           Settings!bounds
  <2>5. LegacyLeft'
    BY <1>2, <2>1 DEF SettingsInv, Settings!SettingsAssumption, Jobs, SettingsTypes, JobRecord,
           LegacyRecord, LegacyLeft, Settings!Clears, Settings!host, Settings!history,
           Settings!bounds
  <2>6. RelayOnItsWay'
    BY <1>2, <2>1 DEF SettingsInv, Settings!SettingsAssumption, Jobs, SettingsTypes, JobRecord,
           LegacyRecord, RelayOnItsWay, Importing, HistoryTrue, Settings!Clears, Settings!host,
           Settings!history, Settings!bounds
  <2>7. KeyAndRelayHandedOver'
    BY <1>2, <2>1 DEF SettingsInv, Settings!SettingsAssumption, Jobs, SettingsTypes, JobRecord,
           LegacyRecord, KeyAndRelayHandedOver, RelayOnItsWay, LegacyLeft, Importing,
           Settings!Clears, Settings!host, Settings!history, Settings!bounds
  <2>8. (Settings!PiAi \in Namespaces => ProvidersOnTheirWay /\ ProvidersHandedOver)'
    BY <1>2, <2>1 DEF SettingsInv, Settings!SettingsAssumption, Jobs, SettingsTypes, JobRecord,
           LegacyRecord, ProvidersOnTheirWay, ProvidersHandedOver, LegacyLeft, HistoryTrue,
           Importing, Settings!Clears, Settings!host, Settings!history, Settings!bounds
  <2> QED
    BY <2>2, <2>3, <2>4, <2>5, <2>6, <2>7, <2>8 DEF SettingsInv
<1>3. CASE legacy.providers = {} /\ ~job["connect"].key
  <2>1. /\ job' \in [Jobs -> JobRecord] /\ job'["connect"].at = "defaults"
        /\ job'["user"] = job["user"]
        /\ job'["connect"].seen = job["connect"].seen
        /\ job'["connect"].url = job["connect"].url
        /\ job'["connect"].route = job["connect"].route
        /\ job'["connect"].key = job["connect"].key
        /\ job'["connect"].import = job["connect"].import
        /\ job'["connect"].pending = job["connect"].pending
        /\ job'["connect"].relay = job["connect"].relay
        /\ legacy' \in LegacyRecord /\ legacy'.providers = legacy.providers
        /\ legacy'.key = legacy.key /\ legacy'.url = "none"
    <3>1. /\ legacy' \in LegacyRecord /\ legacy'.providers = legacy.providers
          /\ legacy'.key = legacy.key /\ legacy'.url = "none"
          /\ Settings!Goes("connect", "defaults")
      BY <1>3 DEF Settings!Clears, SettingsInv, SettingsTypes, LegacyRecord
    <3> QED
      BY <3>1, GoesOn DEF SettingsInv, Jobs, Stages
  <2>2. SettingsTypes'
    BY <1>3, <2>1 DEF SettingsInv, Settings!SettingsAssumption, Jobs, SettingsTypes, JobRecord,
           LegacyRecord, Settings!Clears, Settings!host, Settings!history, Settings!bounds
  <2>3. HistoryTrue'
    BY <1>3, <2>1 DEF SettingsInv, Settings!SettingsAssumption, Jobs, SettingsTypes, JobRecord,
           LegacyRecord, HistoryTrue, Settings!Clears, Settings!host, Settings!history,
           Settings!bounds
  <2>4. ProfilesClean'
    BY <1>3, <2>1 DEF SettingsInv, Settings!SettingsAssumption, Jobs, SettingsTypes, JobRecord,
           LegacyRecord, ProfilesClean, Clean, Settings!Clears, Settings!host, Settings!history,
           Settings!bounds
  <2>5. LegacyLeft'
    BY <1>3, <2>1 DEF SettingsInv, Settings!SettingsAssumption, Jobs, SettingsTypes, JobRecord,
           LegacyRecord, LegacyLeft, Settings!Clears, Settings!host, Settings!history,
           Settings!bounds
  <2>6. RelayOnItsWay'
    BY <1>3, <2>1 DEF SettingsInv, Settings!SettingsAssumption, Jobs, SettingsTypes, JobRecord,
           LegacyRecord, RelayOnItsWay, Importing, HistoryTrue, Settings!Clears, Settings!host,
           Settings!history, Settings!bounds
  <2>7. KeyAndRelayHandedOver'
    BY <1>3, <2>1 DEF SettingsInv, Settings!SettingsAssumption, Jobs, SettingsTypes, JobRecord,
           LegacyRecord, KeyAndRelayHandedOver, RelayOnItsWay, LegacyLeft, Importing,
           Settings!Clears, Settings!host, Settings!history, Settings!bounds
  <2>8. (Settings!PiAi \in Namespaces => ProvidersOnTheirWay /\ ProvidersHandedOver)'
    BY <1>3, <2>1 DEF SettingsInv, Settings!SettingsAssumption, Jobs, SettingsTypes, JobRecord,
           LegacyRecord, ProvidersOnTheirWay, ProvidersHandedOver, LegacyLeft, HistoryTrue,
           Importing, Settings!Clears, Settings!host, Settings!history, Settings!bounds
  <2> QED
    BY <2>2, <2>3, <2>4, <2>5, <2>6, <2>7, <2>8 DEF SettingsInv
<1> QED
  BY <1>1, <1>2, <1>3 DEF Settings!Clears

LEMMA AppliesKeeps ==
  ASSUME Settings!SettingsAssumption, SettingsInv, Settings!Applies
  PROVE  SettingsInv'
PROOF
<1>1. CASE job["user"].route = Official
  <2>1. /\ job' \in [Jobs -> JobRecord] /\ job'["user"].at = "key"
        /\ job'["connect"] = job["connect"]
        /\ job'["user"].seen = job["user"].seen
        /\ job'["user"].url = job["user"].url
        /\ job'["user"].route = job["user"].route
        /\ job'["user"].key = job["user"].key
        /\ job'["user"].import = job["user"].import
        /\ job'["user"].pending = job["user"].pending
        /\ job'["user"].relay = job["user"].relay
        /\ UNCHANGED <<profiles, outdated, declared>>
    BY <1>1, GoesOn DEF Settings!Applies, SettingsInv, Jobs, Stages
  <2>2. SettingsTypes'
    BY <1>1, <2>1 DEF SettingsInv, Settings!SettingsAssumption, Jobs, SettingsTypes, JobRecord,
           LegacyRecord, Settings!Applies, Settings!host, Settings!history, Settings!bounds
  <2>3. HistoryTrue'
    BY <1>1, <2>1 DEF SettingsInv, Settings!SettingsAssumption, Jobs, SettingsTypes, JobRecord,
           LegacyRecord, HistoryTrue, Settings!Applies, Settings!host, Settings!history,
           Settings!bounds
  <2>4. ProfilesClean'
    BY <1>1, <2>1 DEF SettingsInv, Settings!SettingsAssumption, Jobs, SettingsTypes, JobRecord,
           LegacyRecord, ProfilesClean, Clean, Settings!Applies, Settings!host, Settings!history,
           Settings!bounds
  <2>5. LegacyLeft'
    BY <1>1, <2>1 DEF SettingsInv, Settings!SettingsAssumption, Jobs, SettingsTypes, JobRecord,
           LegacyRecord, LegacyLeft, Settings!Applies, Settings!host, Settings!history,
           Settings!bounds
  <2>6. RelayOnItsWay'
    BY <1>1, <2>1 DEF SettingsInv, Settings!SettingsAssumption, Jobs, SettingsTypes, JobRecord,
           LegacyRecord, RelayOnItsWay, Importing, HistoryTrue, Settings!Applies, Settings!host,
           Settings!history, Settings!bounds
  <2>7. KeyAndRelayHandedOver'
    BY <1>1, <2>1 DEF SettingsInv, Settings!SettingsAssumption, Jobs, SettingsTypes, JobRecord,
           LegacyRecord, KeyAndRelayHandedOver, RelayOnItsWay, LegacyLeft, Importing,
           Settings!Applies, Settings!host, Settings!history, Settings!bounds
  <2>8. (Settings!PiAi \in Namespaces => ProvidersOnTheirWay /\ ProvidersHandedOver)'
    BY <1>1, <2>1 DEF SettingsInv, Settings!SettingsAssumption, Jobs, SettingsTypes, JobRecord,
           LegacyRecord, ProvidersOnTheirWay, ProvidersHandedOver, LegacyLeft, HistoryTrue,
           Importing, Settings!Applies, Settings!host, Settings!history, Settings!bounds
  <2> QED
    BY <2>2, <2>3, <2>4, <2>5, <2>6, <2>7, <2>8 DEF SettingsInv
<1>2. CASE job["user"].route # Official /\ "user" \in outdated
  <2>1. /\ job' \in [Jobs -> JobRecord] /\ job'["user"] = Settings!Idle
        /\ job'["connect"] = job["connect"]
        /\ UNCHANGED <<profiles, outdated, declared>>
    BY <1>2, Ends DEF Settings!Applies, SettingsInv, Jobs
  <2>2. SettingsTypes'
    BY <1>2, <2>1 DEF SettingsInv, Settings!SettingsAssumption, Jobs, SettingsTypes, JobRecord,
           LegacyRecord, Settings!Applies, Settings!host, Settings!history, Settings!bounds,
           Settings!Idle, Settings!Unread, Settings!NoProfile
  <2>3. HistoryTrue'
    BY <1>2, <2>1 DEF SettingsInv, Settings!SettingsAssumption, Jobs, SettingsTypes, JobRecord,
           LegacyRecord, HistoryTrue, Settings!Applies, Settings!host, Settings!history,
           Settings!bounds, Settings!Idle, Settings!Unread, Settings!NoProfile
  <2>4. ProfilesClean'
    BY <1>2, <2>1 DEF SettingsInv, Settings!SettingsAssumption, Jobs, SettingsTypes, JobRecord,
           LegacyRecord, ProfilesClean, Clean, Settings!Applies, Settings!host, Settings!history,
           Settings!bounds, Settings!Idle, Settings!Unread, Settings!NoProfile
  <2>5. LegacyLeft'
    BY <1>2, <2>1 DEF SettingsInv, Settings!SettingsAssumption, Jobs, SettingsTypes, JobRecord,
           LegacyRecord, LegacyLeft, Settings!Applies, Settings!host, Settings!history,
           Settings!bounds, Settings!Idle, Settings!Unread, Settings!NoProfile
  <2>6. RelayOnItsWay'
    BY <1>2, <2>1 DEF SettingsInv, Settings!SettingsAssumption, Jobs, SettingsTypes, JobRecord,
           LegacyRecord, RelayOnItsWay, Importing, HistoryTrue, Settings!Applies, Settings!host,
           Settings!history, Settings!bounds, Settings!Idle, Settings!Unread, Settings!NoProfile
  <2>7. KeyAndRelayHandedOver'
    BY <1>2, <2>1 DEF SettingsInv, Settings!SettingsAssumption, Jobs, SettingsTypes, JobRecord,
           LegacyRecord, KeyAndRelayHandedOver, RelayOnItsWay, LegacyLeft, Importing,
           Settings!Applies, Settings!host, Settings!history, Settings!bounds, Settings!Idle,
           Settings!Unread, Settings!NoProfile
  <2>8. (Settings!PiAi \in Namespaces => ProvidersOnTheirWay /\ ProvidersHandedOver)'
    BY <1>2, <2>1 DEF SettingsInv, Settings!SettingsAssumption, Jobs, SettingsTypes, JobRecord,
           LegacyRecord, ProvidersOnTheirWay, ProvidersHandedOver, LegacyLeft, HistoryTrue,
           Importing, Settings!Applies, Settings!host, Settings!history, Settings!bounds,
           Settings!Idle, Settings!Unread, Settings!NoProfile
  <2> QED
    BY <2>2, <2>3, <2>4, <2>5, <2>6, <2>7, <2>8 DEF SettingsInv
<1>3. CASE job["user"].route # Official /\ "user" \notin outdated
  <2>1. /\ job' \in [Jobs -> JobRecord] /\ job'["connect"] = job["connect"]
        /\ job'["user"].at = "key"
        /\ job'["user"].seen = Settings!Unread
        /\ job'["user"].url = job["user"].url
        /\ job'["user"].route = job["user"].route
        /\ job'["user"].key = job["user"].key
        /\ job'["user"].import = job["user"].import
        /\ job'["user"].pending = job["user"].pending
        /\ job'["user"].relay = job["user"].relay
        /\ profiles' \in [Routes -> Profiles] /\ outdated' \subseteq Jobs
           /\ declared' \subseteq Routes
        /\ declared \subseteq declared' /\ Clean(profiles')
        /\ \A r \in Routes : profiles'[r].there => r \in declared'
    <3>1. /\ job' \in [Jobs -> JobRecord] /\ job'["connect"] = job["connect"]
          /\ job'["user"].at = "key"
          /\ job'["user"].seen = Settings!Unread
          /\ job'["user"].url = job["user"].url
          /\ job'["user"].route = job["user"].route
          /\ job'["user"].key = job["user"].key
          /\ job'["user"].import = job["user"].import
          /\ job'["user"].pending = job["user"].pending
          /\ job'["user"].relay = job["user"].relay
      <4> DEFINE j == [job["user"] EXCEPT !.at = "key", !.seen = Settings!Unread]
      <4>1. j \in JobRecord
            /\ j.at = "key"
            /\ j.seen = Settings!Unread
            /\ j.url = job["user"].url
            /\ j.route = job["user"].route
            /\ j.key = job["user"].key
            /\ j.import = job["user"].import
            /\ j.pending = job["user"].pending
            /\ j.relay = job["user"].relay
        BY IdleTyped DEF JobRecord, Stages, SettingsInv, SettingsTypes
      <4>2. job' = [job EXCEPT !["user"] = j]
        BY <1>3 DEF SettingsInv, SettingsTypes, Settings!Applies
      <4> HIDE DEF j
      <4> QED
        BY <4>1, <4>2, Replaced DEF SettingsInv, Jobs
    <3> DEFINE new == Settings!Edited(job["user"].seen[job["user"].route], job["user"].key,
          job["user"].route \in view)
    <3>2. Settings!Mutates([profiles EXCEPT ![job["user"].route] = new])
      BY <1>3 DEF Settings!Applies
    <3>3. new \in Profiles /\ ~(new.keyed /\ new.header)
      BY <1>3 DEF Settings!Edited, Settings!Keyed, Settings!Keyless, Profiles, SettingsInv,
             SettingsTypes, JobRecord, ProfilesClean, Clean
    <3> HIDE DEF new
    <3>4. profiles' \in [Routes -> Profiles] /\ Clean(profiles')
      BY <3>2, <3>3 DEF Settings!Mutates, SettingsInv, SettingsTypes, ProfilesClean, Clean
    <3> QED
      BY <3>1, <3>2, <3>4 DEF Settings!Mutates, SettingsInv, SettingsTypes, Jobs
  <2>2. SettingsTypes'
    BY <1>3, <2>1 DEF SettingsInv, Settings!SettingsAssumption, Jobs, SettingsTypes, JobRecord,
           LegacyRecord, Settings!Applies, Settings!host, Settings!history, Settings!bounds,
           Settings!Unread, Settings!NoProfile
  <2>3. HistoryTrue'
    BY <1>3, <2>1 DEF SettingsInv, Settings!SettingsAssumption, Jobs, SettingsTypes, JobRecord,
           LegacyRecord, HistoryTrue, Settings!Applies, Settings!host, Settings!history,
           Settings!bounds, Settings!Unread, Settings!NoProfile
  <2>4. ProfilesClean'
    BY <1>3, <2>1 DEF SettingsInv, Settings!SettingsAssumption, Jobs, SettingsTypes, JobRecord,
           LegacyRecord, ProfilesClean, Clean, Settings!Applies, Settings!host, Settings!history,
           Settings!bounds, Settings!Unread, Settings!NoProfile
  <2>5. LegacyLeft'
    BY <1>3, <2>1 DEF SettingsInv, Settings!SettingsAssumption, Jobs, SettingsTypes, JobRecord,
           LegacyRecord, LegacyLeft, Settings!Applies, Settings!host, Settings!history,
           Settings!bounds, Settings!Unread, Settings!NoProfile
  <2>6. RelayOnItsWay'
    BY <1>3, <2>1 DEF SettingsInv, Settings!SettingsAssumption, Jobs, SettingsTypes, JobRecord,
           LegacyRecord, RelayOnItsWay, Importing, HistoryTrue, Settings!Applies, Settings!host,
           Settings!history, Settings!bounds, Settings!Unread, Settings!NoProfile
  <2>7. KeyAndRelayHandedOver'
    BY <1>3, <2>1 DEF SettingsInv, Settings!SettingsAssumption, Jobs, SettingsTypes, JobRecord,
           LegacyRecord, KeyAndRelayHandedOver, RelayOnItsWay, LegacyLeft, Importing,
           Settings!Applies, Settings!host, Settings!history, Settings!bounds, Settings!Unread,
           Settings!NoProfile
  <2>8. (Settings!PiAi \in Namespaces => ProvidersOnTheirWay /\ ProvidersHandedOver)'
    BY <1>3, <2>1 DEF SettingsInv, Settings!SettingsAssumption, Jobs, SettingsTypes, JobRecord,
           LegacyRecord, ProvidersOnTheirWay, ProvidersHandedOver, LegacyLeft, HistoryTrue,
           Importing, Settings!Applies, Settings!host, Settings!history, Settings!bounds,
           Settings!Unread, Settings!NoProfile
  <2> QED
    BY <2>2, <2>3, <2>4, <2>5, <2>6, <2>7, <2>8 DEF SettingsInv
<1> QED
  BY <1>1, <1>2, <1>3 DEF Settings!Applies

LEMMA RemovesKeeps ==
  ASSUME Settings!SettingsAssumption, SettingsInv, Settings!Removes
  PROVE  SettingsInv'
PROOF
<1>1. CASE "user" \in outdated
  <2>1. /\ job' \in [Jobs -> JobRecord] /\ job'["user"] = Settings!Idle
        /\ job'["connect"] = job["connect"]
        /\ UNCHANGED <<profiles, outdated, declared>>
    BY <1>1, Ends DEF Settings!Removes, SettingsInv, Jobs
  <2>2. SettingsTypes'
    BY <1>1, <2>1 DEF SettingsInv, Settings!SettingsAssumption, Jobs, SettingsTypes, JobRecord,
           LegacyRecord, Settings!Removes, Settings!host, Settings!history, Settings!bounds,
           Settings!Idle, Settings!Unread, Settings!NoProfile
  <2>3. HistoryTrue'
    BY <1>1, <2>1 DEF SettingsInv, Settings!SettingsAssumption, Jobs, SettingsTypes, JobRecord,
           LegacyRecord, HistoryTrue, Settings!Removes, Settings!host, Settings!history,
           Settings!bounds, Settings!Idle, Settings!Unread, Settings!NoProfile
  <2>4. ProfilesClean'
    BY <1>1, <2>1 DEF SettingsInv, Settings!SettingsAssumption, Jobs, SettingsTypes, JobRecord,
           LegacyRecord, ProfilesClean, Clean, Settings!Removes, Settings!host, Settings!history,
           Settings!bounds, Settings!Idle, Settings!Unread, Settings!NoProfile
  <2>5. LegacyLeft'
    BY <1>1, <2>1 DEF SettingsInv, Settings!SettingsAssumption, Jobs, SettingsTypes, JobRecord,
           LegacyRecord, LegacyLeft, Settings!Removes, Settings!host, Settings!history,
           Settings!bounds, Settings!Idle, Settings!Unread, Settings!NoProfile
  <2>6. RelayOnItsWay'
    BY <1>1, <2>1 DEF SettingsInv, Settings!SettingsAssumption, Jobs, SettingsTypes, JobRecord,
           LegacyRecord, RelayOnItsWay, Importing, HistoryTrue, Settings!Removes, Settings!host,
           Settings!history, Settings!bounds, Settings!Idle, Settings!Unread, Settings!NoProfile
  <2>7. KeyAndRelayHandedOver'
    BY <1>1, <2>1 DEF SettingsInv, Settings!SettingsAssumption, Jobs, SettingsTypes, JobRecord,
           LegacyRecord, KeyAndRelayHandedOver, RelayOnItsWay, LegacyLeft, Importing,
           Settings!Removes, Settings!host, Settings!history, Settings!bounds, Settings!Idle,
           Settings!Unread, Settings!NoProfile
  <2>8. (Settings!PiAi \in Namespaces => ProvidersOnTheirWay /\ ProvidersHandedOver)'
    BY <1>1, <2>1 DEF SettingsInv, Settings!SettingsAssumption, Jobs, SettingsTypes, JobRecord,
           LegacyRecord, ProvidersOnTheirWay, ProvidersHandedOver, LegacyLeft, HistoryTrue,
           Importing, Settings!Removes, Settings!host, Settings!history, Settings!bounds,
           Settings!Idle, Settings!Unread, Settings!NoProfile
  <2> QED
    BY <2>2, <2>3, <2>4, <2>5, <2>6, <2>7, <2>8 DEF SettingsInv
<1>2. CASE "user" \notin outdated
  <2>1. /\ job' \in [Jobs -> JobRecord] /\ job'["connect"] = job["connect"]
        /\ job'["user"].at = "forget"
        /\ job'["user"].seen = Settings!Unread
        /\ job'["user"].url = job["user"].url
        /\ job'["user"].route = job["user"].route
        /\ job'["user"].key = job["user"].key
        /\ job'["user"].import = job["user"].import
        /\ job'["user"].pending = job["user"].pending
        /\ job'["user"].relay = job["user"].relay
        /\ profiles' \in [Routes -> Profiles] /\ outdated' \subseteq Jobs
           /\ declared' \subseteq Routes
        /\ declared \subseteq declared' /\ Clean(profiles')
        /\ \A r \in Routes : profiles'[r].there => r \in declared'
    <3>1. /\ job' \in [Jobs -> JobRecord] /\ job'["connect"] = job["connect"]
          /\ job'["user"].at = "forget"
          /\ job'["user"].seen = Settings!Unread
          /\ job'["user"].url = job["user"].url
          /\ job'["user"].route = job["user"].route
          /\ job'["user"].key = job["user"].key
          /\ job'["user"].import = job["user"].import
          /\ job'["user"].pending = job["user"].pending
          /\ job'["user"].relay = job["user"].relay
      <4> DEFINE j == [job["user"] EXCEPT !.at = "forget", !.seen = Settings!Unread]
      <4>1. j \in JobRecord
            /\ j.at = "forget"
            /\ j.seen = Settings!Unread
            /\ j.url = job["user"].url
            /\ j.route = job["user"].route
            /\ j.key = job["user"].key
            /\ j.import = job["user"].import
            /\ j.pending = job["user"].pending
            /\ j.relay = job["user"].relay
        BY IdleTyped DEF JobRecord, Stages, SettingsInv, SettingsTypes
      <4>2. job' = [job EXCEPT !["user"] = j]
        BY <1>2 DEF SettingsInv, SettingsTypes, Settings!Removes
      <4> HIDE DEF j
      <4> QED
        BY <4>1, <4>2, Replaced DEF SettingsInv, Jobs
    <3> DEFINE new == Settings!NoProfile
    <3>2. Settings!Mutates([profiles EXCEPT ![job["user"].route] = new])
      BY <1>2 DEF Settings!Removes
    <3>3. new \in Profiles /\ ~(new.keyed /\ new.header)
      BY <1>2 DEF Settings!NoProfile, Profiles, SettingsInv, SettingsTypes, JobRecord,
             ProfilesClean, Clean
    <3> HIDE DEF new
    <3>4. profiles' \in [Routes -> Profiles] /\ Clean(profiles')
      BY <3>2, <3>3 DEF Settings!Mutates, SettingsInv, SettingsTypes, ProfilesClean, Clean
    <3> QED
      BY <3>1, <3>2, <3>4 DEF Settings!Mutates, SettingsInv, SettingsTypes, Jobs
  <2>2. SettingsTypes'
    BY <1>2, <2>1 DEF SettingsInv, Settings!SettingsAssumption, Jobs, SettingsTypes, JobRecord,
           LegacyRecord, Settings!Removes, Settings!host, Settings!history, Settings!bounds,
           Settings!Unread, Settings!NoProfile
  <2>3. HistoryTrue'
    BY <1>2, <2>1 DEF SettingsInv, Settings!SettingsAssumption, Jobs, SettingsTypes, JobRecord,
           LegacyRecord, HistoryTrue, Settings!Removes, Settings!host, Settings!history,
           Settings!bounds, Settings!Unread, Settings!NoProfile
  <2>4. ProfilesClean'
    BY <1>2, <2>1 DEF SettingsInv, Settings!SettingsAssumption, Jobs, SettingsTypes, JobRecord,
           LegacyRecord, ProfilesClean, Clean, Settings!Removes, Settings!host, Settings!history,
           Settings!bounds, Settings!Unread, Settings!NoProfile
  <2>5. LegacyLeft'
    BY <1>2, <2>1 DEF SettingsInv, Settings!SettingsAssumption, Jobs, SettingsTypes, JobRecord,
           LegacyRecord, LegacyLeft, Settings!Removes, Settings!host, Settings!history,
           Settings!bounds, Settings!Unread, Settings!NoProfile
  <2>6. RelayOnItsWay'
    BY <1>2, <2>1 DEF SettingsInv, Settings!SettingsAssumption, Jobs, SettingsTypes, JobRecord,
           LegacyRecord, RelayOnItsWay, Importing, HistoryTrue, Settings!Removes, Settings!host,
           Settings!history, Settings!bounds, Settings!Unread, Settings!NoProfile
  <2>7. KeyAndRelayHandedOver'
    BY <1>2, <2>1 DEF SettingsInv, Settings!SettingsAssumption, Jobs, SettingsTypes, JobRecord,
           LegacyRecord, KeyAndRelayHandedOver, RelayOnItsWay, LegacyLeft, Importing,
           Settings!Removes, Settings!host, Settings!history, Settings!bounds, Settings!Unread,
           Settings!NoProfile
  <2>8. (Settings!PiAi \in Namespaces => ProvidersOnTheirWay /\ ProvidersHandedOver)'
    BY <1>2, <2>1 DEF SettingsInv, Settings!SettingsAssumption, Jobs, SettingsTypes, JobRecord,
           LegacyRecord, ProvidersOnTheirWay, ProvidersHandedOver, LegacyLeft, HistoryTrue,
           Importing, Settings!Removes, Settings!host, Settings!history, Settings!bounds,
           Settings!Unread, Settings!NoProfile
  <2> QED
    BY <2>2, <2>3, <2>4, <2>5, <2>6, <2>7, <2>8 DEF SettingsInv
<1> QED
  BY <1>1, <1>2 DEF Settings!Removes

LEMMA SettingsInit ==
  ASSUME Settings!SettingsAssumption, Settings!Init
  PROVE  SettingsInv
PROOF
<1>1. Settings!Idle \in JobRecord /\ Settings!Unread \in [Routes -> Profiles]
      /\ Settings!NoProfile \in Profiles
  BY IdleTyped
<1>2. \A p \in Jobs : job[p] = Settings!Idle
  BY DEF Settings!Init, Jobs
<1>3. SettingsTypes
  BY <1>1 DEF Settings!Init, SettingsTypes, LegacyRecord, Settings!SettingsAssumption
<1>4. HistoryTrue /\ ProfilesClean
  BY <1>1, <1>2 DEF Settings!Init, HistoryTrue, ProfilesClean, Clean, Settings!Idle,
         Settings!Unread, Settings!NoProfile, Jobs
<1>5. LegacyLeft /\ KeyAndRelayHandedOver /\ ProvidersHandedOver
  BY DEF Settings!Init, LegacyLeft, KeyAndRelayHandedOver, ProvidersHandedOver
<1>6. RelayOnItsWay /\ ProvidersOnTheirWay
  BY <1>2 DEF RelayOnItsWay, ProvidersOnTheirWay, Settings!Idle, Importing, Jobs
<1> QED
  BY <1>3, <1>4, <1>5, <1>6 DEF SettingsInv

LEMMA SettingsKept ==
  ASSUME Settings!SettingsAssumption, SettingsInv, [Settings!Next]_(Settings!vars)
  PROVE  SettingsInv'
PROOF
<1>1. CASE Settings!Next
  <2>1. DOMAIN job = Jobs
    BY DEF SettingsInv, SettingsTypes, Jobs
  <2> QED
    BY <1>1, <2>1, ConnectKeeps, DisconnectKeeps, DescribesKeeps, ComparesKeeps, DeclaresKeeps,
       SetsKeysKeeps, ImportsOfficialKeeps, ImportsEndpointKeeps, ClearsKeeps,
       AdoptsDefaultsKeeps,
       RefreshesKeeps, RefreshedKeeps, FailsKeeps, UserAsksKeeps, ReadsNamespaceKeeps,
       AppliesKeeps,
       AppliesKeyKeeps, RemovesKeeps, ForgetsKeyKeeps, ClearsOfficialKeyKeeps, StoresKeyKeeps,
       OtherWritesKeeps DEF Settings!Next
<1>2. CASE UNCHANGED Settings!vars
  BY <1>2 DEF Settings!vars, Settings!host, Settings!history, Settings!bounds, SettingsInv,
         SettingsTypes, HistoryTrue, ProfilesClean, Clean, LegacyLeft, RelayOnItsWay,
         KeyAndRelayHandedOver, ProvidersOnTheirWay, ProvidersHandedOver
<1> QED
  BY <1>1, <1>2

(* What the proof adds to the property is on which runtimes it holds: what  *)
(* is said of the key, of the relay and of the profiles holds on all, what  *)
(* is said of the other providers where the namespace of providers is there.*)
LEMMA SettingsImplies ==
  ASSUME Settings!SettingsAssumption, SettingsInv
  PROVE  /\ KeyAndRelayHandedOver /\ Settings!OneAuthorization
         /\ Settings!PiAi \in Namespaces => Settings!KeysInPlace
PROOF
  BY DEF SettingsInv, KeyAndRelayHandedOver, ProvidersHandedOver, Settings!OneAuthorization,
         Settings!KeysInPlace, Settings!LegacyHandedOver, ProfilesClean, Clean

-----------------------------------------------------------------------------
(* The shared history.                                                      *)

Events == [by : {"user", "fork"}, n : Nat]
StoreStages ==
  {"off", "failed", "homes", "next", "open", "attachments", "compare", "write", "fork", "create",
   "append", "mark"}

(* The worker holds its source from here on, and has read it from there on. *)
Reading == {"compare", "write", "fork", "create", "append", "mark"}
Holding == Reading \cup {"attachments"}

SourcesFor(dest) == (Store!Range(Homes) \cup {Recovery}) \ {dest}

Fields == {"at", "dest", "homes", "from", "todo", "id", "rev", "target"}

WorkerTyped(w) ==
  LET r == run[w] IN
  /\ DOMAIN r = Fields /\ r.at \in StoreStages /\ r.dest \in {Shared, Recovery}
  /\ r.homes \in Seq(SourcesFor(r.dest))
  /\ r.at \notin {"off", "failed", "homes"} => r.from \in SourcesFor(r.dest)

Holds(w, st, id) == <<st, id>> \in DOMAIN locks /\ locks[<<st, id>>] = w

(* The store has what was read, or its user deleted it there.               *)
Carries(st, id, rev) ==
  \/ <<st, id>> \in deleted
  \/ id \in DOMAIN log[st] /\ Store!IsPrefix(rev, log[st][id])

WorkerSound(w) ==
  LET r == run[w] IN
  /\ r.at \in Holding => Holds(w, r.from, r.id)
  /\ r.at \in Reading =>
       log[r.from][r.id] = r.rev /\ files[r.from] = "c1" /\ files[r.dest] = "c1"
  /\ r.at \in {"write", "fork"} => r.rev # <<>>
  /\ r.at = "write" => r.target = r.id
  /\ r.at \in {"create", "append"} => r.target = r.id \/ r.rev # <<>>
  /\ r.at = "append" => Holds(w, r.dest, r.target) /\ log[r.dest][r.target] = <<>>
  /\ r.at = "mark" => Carries(r.dest, r.target, r.rev)

StoreTypes ==
  /\ DOMAIN log = Store!Stores /\ DOMAIN files = Store!Stores /\ DOMAIN run = Runtimes
  /\ \A st \in Store!Stores : \A id \in DOMAIN log[st] : log[st][id] \in Seq(Events)
  /\ \A st \in Store!Stores : files[st] \in {Store!NoFile, "c1", "c2"}
  /\ IsFiniteSet(written) /\ written \subseteq Seq(Events)

(* What is locked is there.                                                 *)
LocksReal == \A k \in DOMAIN locks : \E st \in Store!Stores : \E id \in DOMAIN log[st] : k = <<st, id>>

(* Where there is a session besides the official store, its attachment is.  *)
FilesFollow == \A st \in Store!Stores \ {Shared} : DOMAIN log[st] # {} => files[st] = "c1"

JournalSound ==
  \A k \in DOMAIN marker :
    /\ k[1] \in Store!Stores /\ k[2] \in Store!Stores /\ files[k[1]] = "c1" /\ files[k[2]] = "c1"
    /\ marker[k].revision \in Seq(Events)
    /\ Carries(k[2], marker[k].target, marker[k].revision)

StoreInv ==
  /\ StoreTypes /\ LocksReal /\ FilesFollow /\ JournalSound /\ Store!LogsAreGenuine
  /\ \A w \in Runtimes : WorkerTyped(w) /\ WorkerSound(w)

-----------------------------------------------------------------------------
(* Prefixes.                                                                *)

LEMMA PrefixIs ==
  ASSUME NEW S, NEW s \in Seq(S), NEW t \in Seq(S)
  PROVE  Store!IsPrefix(s, t) <=> Len(s) <= Len(t) /\ \A i \in 1..Len(s) : s[i] = t[i]
PROOF
<1>1. Len(s) \in Nat /\ Len(t) \in Nat
  OBVIOUS
<1>2. ASSUME Len(s) <= Len(t)
      PROVE  SubSeq(s, 1, Len(s)) = SubSeq(t, 1, Len(s)) <=> \A i \in 1..Len(s) : s[i] = t[i]
  <2>1. /\ SubSeq(s, 1, Len(s)) = [i \in 1..Len(s) |-> s[i]]
        /\ SubSeq(t, 1, Len(s)) = [i \in 1..Len(s) |-> t[i]]
    BY <1>1, <1>2
  <2> QED
    BY <2>1
<1> QED
  BY <1>1, <1>2 DEF Store!IsPrefix

LEMMA PrefixTransitive ==
  ASSUME NEW S, NEW r \in Seq(S), NEW s \in Seq(S), NEW t \in Seq(S),
         Store!IsPrefix(r, s), Store!IsPrefix(s, t)
  PROVE  Store!IsPrefix(r, t)
PROOF
<1>1. Len(r) \in Nat /\ Len(s) \in Nat /\ Len(t) \in Nat
  OBVIOUS
<1>2. /\ Len(r) <= Len(s) /\ Len(s) <= Len(t)
      /\ \A i \in 1..Len(r) : r[i] = s[i]
      /\ \A i \in 1..Len(s) : s[i] = t[i]
  BY PrefixIs
<1>3. 1..Len(r) \subseteq 1..Len(s)
  BY <1>1, <1>2
<1> QED
  BY <1>1, <1>2, <1>3, PrefixIs

LEMMA PrefixReflexive ==
  ASSUME NEW S, NEW s \in Seq(S)
  PROVE  Store!IsPrefix(s, s) /\ Store!IsPrefix(<<>>, s)
PROOF
<1>1. Len(s) \in Nat
  OBVIOUS
<1>2. Store!IsPrefix(s, s)
  BY <1>1, PrefixIs
<1>3. Store!IsPrefix(<<>>, s)
  <2>1. <<>> \in Seq(S) /\ Len(<<>>) = 0
    BY EmptySeq
  <2>2. PICK e \in Seq(S) : e = <<>>
    BY <2>1, Zenon
  <2>3. Len(e) = 0
    BY <2>1, <2>2, Zenon
  <2> HIDE <2>1
  <2>4. Len(e) <= Len(s) /\ \A i \in 1..Len(e) : e[i] = s[i]
    BY <1>1, <2>3
  <2>5. Store!IsPrefix(e, s)
    BY <2>4, PrefixIs
  <2> QED
    BY <2>2, <2>5, Zenon
<1> QED
  BY <1>2, <1>3

LEMMA PrefixOfAppend ==
  ASSUME NEW S, NEW s \in Seq(S), NEW e \in S
  PROVE  Store!IsPrefix(s, Append(s, e))
PROOF
<1> Append(s, e) \in Seq(S)
  OBVIOUS
<1>1. PICK t \in Seq(S) : t = Append(s, e)
  BY Zenon
<1>2. /\ Len(t) = Len(s) + 1 /\ Len(s) \in Nat
      /\ \A i \in 1..Len(s) : t[i] = s[i]
  BY <1>1
<1>3. Store!IsPrefix(s, t)
  BY <1>2, PrefixIs
<1> QED
  BY <1>1, <1>3

(* The mark of a fork leaves a log genuine.                                 *)
LEMMA ForkIsGenuine ==
  ASSUME written \subseteq Seq(Events), NEW l \in Seq(Events), Store!Genuine(l), l # <<>>
  PROVE  Store!Genuine(Append(l, Store!Label)) /\ Append(l, Store!Label) \in Seq(Events)
PROOF
<1>1. PICK past \in written :
        Store!IsPrefix(past, l) /\ \A i \in Len(past) + 1..Len(l) : l[i] = Store!Label
  BY DEF Store!Genuine
<1>2. Store!Label \in Events
  BY DEF Store!Label, Events
<1> Append(l, Store!Label) \in Seq(Events)
  BY <1>2
<1>3. PICK m \in Seq(Events) : m = Append(l, Store!Label)
  BY Zenon
<1>4. /\ Len(m) = Len(l) + 1 /\ Len(l) \in Nat
      /\ \A i \in 1..Len(l) : m[i] = l[i]
      /\ m[Len(l) + 1] = Store!Label
  BY <1>2, <1>3
<1>5. Store!IsPrefix(l, m)
  BY <1>2, <1>3, PrefixOfAppend
<1>6. Store!IsPrefix(past, m)
  BY <1>1, <1>5, PrefixTransitive
<1>7. Len(past) \in Nat
  BY <1>1
<1>8. \A i \in Len(past) + 1..Len(m) : m[i] = Store!Label
  <2> TAKE i \in Len(past) + 1..Len(m)
  <2>1. CASE i = Len(l) + 1
    BY <1>4, <2>1
  <2>2. CASE i # Len(l) + 1
    <3>1. i \in 1..Len(l) /\ i \in Len(past) + 1..Len(l)
      BY <1>4, <1>7, <2>2
    <3> QED
      BY <1>1, <1>4, <3>1
  <2> QED
    BY <2>1, <2>2
<1> QED
  BY <1>3, <1>6, <1>8 DEF Store!Genuine

(* What is genuine stays so: nothing that was written is forgotten.         *)
LEMMA StaysGenuine ==
  ASSUME written \subseteq written', NEW l, Store!Genuine(l)
  PROVE  l = <<>> \/ \E past \in written' :
           Store!IsPrefix(past, l) /\ \A i \in Len(past) + 1..Len(l) : l[i] = Store!Label
PROOF
  BY DEF Store!Genuine

-----------------------------------------------------------------------------
(* What a step leaves to the others.                                        *)

(* A step of w, the owner of locks: histories grow or are deleted, what is  *)
(* deleted is remembered, attachments stay, and so does what another holds. *)
Gentle(w) ==
  /\ deleted \subseteq deleted' /\ written \subseteq written'
  /\ \A st \in Store!Stores : \A id \in DOMAIN log[st] :
       \/ <<st, id>> \in deleted'
       \/ id \in DOMAIN log'[st] /\ Store!IsPrefix(log[st][id], log'[st][id])
  /\ \A st \in Store!Stores : files[st] = "c1" => files'[st] = "c1"
  /\ \A st \in Store!Stores : \A id \in DOMAIN log[st] :
       <<st, id>> \in DOMAIN locks /\ locks[<<st, id>>] # w =>
         /\ <<st, id>> \in DOMAIN locks' /\ locks'[<<st, id>>] = locks[<<st, id>>]
         /\ log'[st][id] = log[st][id]
  /\ \A v \in Runtimes \ {w} : run'[v] = run[v]

LEMMA CarriesOn ==
  ASSUME StoreTypes, StoreTypes', NEW w, Gentle(w), NEW st \in Store!Stores, NEW id,
         NEW rev \in Seq(Events), Carries(st, id, rev)
  PROVE  \/ <<st, id>> \in deleted'
         \/ id \in DOMAIN log'[st] /\ Store!IsPrefix(rev, log'[st][id])
PROOF
<1>1. CASE <<st, id>> \in deleted \/ <<st, id>> \in deleted'
  BY <1>1 DEF Gentle
<1>2. CASE <<st, id>> \notin deleted /\ <<st, id>> \notin deleted'
  <2>1. id \in DOMAIN log[st] /\ Store!IsPrefix(rev, log[st][id])
    BY <1>2 DEF Carries
  <2>2. id \in DOMAIN log'[st] /\ Store!IsPrefix(log[st][id], log'[st][id])
    BY <1>2, <2>1 DEF Gentle
  <2>3. log[st][id] \in Seq(Events) /\ log'[st][id] \in Seq(Events)
    BY <2>1, <2>2 DEF StoreTypes
  <2>4. Store!IsPrefix(rev, log'[st][id])
    BY <2>1, <2>2, <2>3, PrefixTransitive
  <2> QED
    BY <2>2, <2>4
<1> QED
  BY <1>1, <1>2

(* Where a worker works and what it works on.                               *)
LEMMA WorkerPlaced ==
  ASSUME Store!HistoryAssumption, StoreTypes, LocksReal, NEW w \in Runtimes, WorkerTyped(w),
        WorkerSound(w),
         run[w].at \in Holding
  PROVE  /\ run[w].from \in Store!Stores /\ run[w].dest \in Store!Stores
            /\ run[w].from # run[w].dest
         /\ run[w].from # Shared
         /\ run[w].id \in DOMAIN log[run[w].from]
         /\ log[run[w].from][run[w].id] \in Seq(Events)
         /\ run[w].at \in Reading => run[w].rev \in Seq(Events)
         /\ run[w].at = "append" => run[w].target \in DOMAIN log[run[w].dest]
PROOF
<1>1. /\ run[w].from \in Store!Stores /\ run[w].dest \in Store!Stores /\ run[w].from # run[w].dest
      /\ run[w].from # Shared
  BY DEF WorkerTyped, SourcesFor, Store!Stores, Holding, Reading, Store!HistoryAssumption
<1>2. run[w].id \in DOMAIN log[run[w].from]
  BY DEF WorkerSound, Holds, LocksReal
<1>3. log[run[w].from][run[w].id] \in Seq(Events)
  BY <1>1, <1>2 DEF StoreTypes
<1>4. run[w].at \in Reading => run[w].rev \in Seq(Events)
  BY <1>3 DEF WorkerSound
<1>5. run[w].at = "append" => run[w].target \in DOMAIN log[run[w].dest]
  BY DEF WorkerSound, Holds, LocksReal
<1> QED
  BY <1>1, <1>2, <1>3, <1>4, <1>5

LEMMA OthersSound ==
  ASSUME Store!HistoryAssumption, StoreTypes, StoreTypes', LocksReal, NEW w, Gentle(w),
         NEW v \in Runtimes \ {w}, WorkerTyped(v), WorkerSound(v)
  PROVE  WorkerTyped(v)' /\ WorkerSound(v)'
PROOF
<1>1. run'[v] = run[v]
  BY DEF Gentle
<1>2. WorkerTyped(v)'
  BY <1>1 DEF WorkerTyped
<1>3. CASE run[v].at \notin Holding
  BY <1>1, <1>2, <1>3 DEF WorkerSound, Holding, Reading
<1>4. CASE run[v].at \in Holding
  <2>1. /\ run[v].from \in Store!Stores /\ run[v].dest \in Store!Stores
        /\ run[v].id \in DOMAIN log[run[v].from]
        /\ run[v].at \in Reading => run[v].rev \in Seq(Events)
        /\ run[v].at = "append" => run[v].target \in DOMAIN log[run[v].dest]
    BY <1>4, WorkerPlaced
  <2>2. /\ <<run[v].from, run[v].id>> \in DOMAIN locks' /\ locks'[<<run[v].from, run[v].id>>] = v
        /\ log'[run[v].from][run[v].id] = log[run[v].from][run[v].id]
    BY <1>4, <2>1 DEF WorkerSound, Holds, Gentle
  <2>3. run[v].at = "append" =>
          /\ <<run[v].dest, run[v].target>> \in DOMAIN locks'
          /\ locks'[<<run[v].dest, run[v].target>>] = v
          /\ log'[run[v].dest][run[v].target] = <<>>
    BY <2>1 DEF WorkerSound, Holds, Gentle
  <2>4. run[v].at \in Reading => files'[run[v].from] = "c1" /\ files'[run[v].dest] = "c1"
    BY <2>1 DEF WorkerSound, Gentle
  <2>5. ASSUME run[v].at = "mark"
        PROVE  \/ <<run[v].dest, run[v].target>> \in deleted'
               \/ /\ run[v].target \in DOMAIN log'[run[v].dest]
                  /\ Store!IsPrefix(run[v].rev, log'[run[v].dest][run[v].target])
    <3>1. run[v].rev \in Seq(Events)
      BY <2>1, <2>5 DEF Reading
    <3> QED
      BY <2>1, <2>5, <3>1, CarriesOn DEF WorkerSound
  <2> QED
    BY <1>1, <1>2, <2>2, <2>3, <2>4, <2>5 DEF WorkerSound, Holds, Carries
<1> QED
  BY <1>2, <1>3, <1>4

LEMMA JournalStays ==
  ASSUME StoreTypes, StoreTypes', NEW w, Gentle(w), JournalSound, NEW k \in DOMAIN marker,
         k \in DOMAIN marker', marker'[k] = marker[k]
  PROVE  /\ k[1] \in Store!Stores /\ k[2] \in Store!Stores /\ files'[k[1]] = "c1"
            /\ files'[k[2]] = "c1"
         /\ marker'[k].revision \in Seq(Events)
         /\ \/ <<k[2], marker'[k].target>> \in deleted'
            \/ /\ marker'[k].target \in DOMAIN log'[k[2]]
               /\ Store!IsPrefix(marker'[k].revision, log'[k[2]][marker'[k].target])
PROOF
<1>1. /\ k[1] \in Store!Stores /\ k[2] \in Store!Stores /\ files[k[1]] = "c1"
         /\ files[k[2]] = "c1"
      /\ marker[k].revision \in Seq(Events)
      /\ Carries(k[2], marker[k].target, marker[k].revision)
  BY DEF JournalSound
<1>2. files'[k[1]] = "c1" /\ files'[k[2]] = "c1"
  BY <1>1 DEF Gentle
<1> QED
  BY <1>1, <1>2, CarriesOn

-----------------------------------------------------------------------------
(* The parts of a step.                                                     *)

LEMMA Moved ==
  ASSUME NEW w \in Runtimes, DOMAIN run = Runtimes, NEW r, run' = [run EXCEPT ![w] = r]
  PROVE  /\ DOMAIN run' = Runtimes /\ run'[w] = r
         /\ \A v \in Runtimes \ {w} : run'[v] = run[v]
PROOF
  OBVIOUS

LEMMA MovesTo ==
  ASSUME NEW w \in Runtimes, DOMAIN run = Runtimes, DOMAIN run[w] = Fields, NEW at, Store!To(w,
        at)
  PROVE  /\ DOMAIN run' = Runtimes /\ \A v \in Runtimes \ {w} : run'[v] = run[v]
         /\ DOMAIN run'[w] = Fields /\ run'[w].at = at /\ run'[w].dest = run[w].dest
         /\ run'[w].homes = run[w].homes /\ run'[w].from = run[w].from /\ run'[w].id = run[w].id
         /\ run'[w].rev = run[w].rev /\ run'[w].target = run[w].target
PROOF
<1>1. run' = [run EXCEPT ![w].at = at]
  BY DEF Store!To
<1> QED
  BY <1>1, Zenon DEF Fields

LEMMA LogsStay ==
  ASSUME StoreTypes
  PROVE  \A st \in Store!Stores : \A id \in DOMAIN log[st] : Store!IsPrefix(log[st][id],
        log[st][id])
PROOF
  BY PrefixReflexive DEF StoreTypes

LEMMA Assembled ==
  ASSUME Store!HistoryAssumption, StoreInv, NEW w, Gentle(w), StoreTypes', LocksReal',
  FilesFollow',
         JournalSound', Store!LogsAreGenuine', w \in Runtimes => WorkerTyped(w)'
         /\ WorkerSound(w)'
  PROVE  StoreInv'
PROOF
<1>1. \A v \in Runtimes \ {w} : WorkerTyped(v)' /\ WorkerSound(v)'
  BY OthersSound DEF StoreInv
<1> QED
  BY <1>1 DEF StoreInv

(* A step that only changes what the worker is at.                          *)
LEMMA OnlyMoves ==
  ASSUME Store!HistoryAssumption, StoreInv, NEW w \in Runtimes,
         UNCHANGED <<log, files, locks, marker, written, deleted>>,
         DOMAIN run' = Runtimes, \A v \in Runtimes \ {w} : run'[v] = run[v],
         WorkerTyped(w)', WorkerSound(w)'
  PROVE  StoreInv'
PROOF
<1>1. StoreTypes' /\ LocksReal' /\ FilesFollow' /\ JournalSound' /\ Store!LogsAreGenuine'
  BY DEF StoreInv, StoreTypes, LocksReal, FilesFollow, JournalSound, Carries,
         Store!LogsAreGenuine, Store!Genuine
<1>2. Gentle(w)
  BY LogsStay DEF Gentle, StoreInv
<1> QED
  BY <1>1, <1>2, Assembled

(* A step that leaves the logs, the attachments and the journal.            *)
LEMMA OnlyLocks ==
  ASSUME Store!HistoryAssumption, StoreInv, NEW w,
         UNCHANGED <<log, files, marker, written, deleted>>,
         DOMAIN run' = Runtimes, \A v \in Runtimes \ {w} : run'[v] = run[v],
         \A k \in DOMAIN locks : locks[k] # w => k \in DOMAIN locks' /\ locks'[k] = locks[k],
         LocksReal', w \in Runtimes => WorkerTyped(w)' /\ WorkerSound(w)'
  PROVE  StoreInv'
PROOF
<1>1. StoreTypes' /\ FilesFollow' /\ JournalSound' /\ Store!LogsAreGenuine'
  BY DEF StoreInv, StoreTypes, FilesFollow, JournalSound, Carries, Store!LogsAreGenuine,
         Store!Genuine
<1>2. Gentle(w)
  BY LogsStay DEF Gentle, StoreInv
<1> QED
  BY <1>1, <1>2, Assembled

LEMMA LockTaken ==
  ASSUME LocksReal, NEW st \in Store!Stores, NEW id \in DOMAIN log'[st], NEW w,
         \A s \in Store!Stores : DOMAIN log[s] \subseteq DOMAIN log'[s],
         <<st, id>> \notin DOMAIN locks, locks' = Store!With(locks, <<st, id>>, w)
  PROVE  /\ LocksReal' /\ <<st, id>> \in DOMAIN locks' /\ locks'[<<st, id>>] = w
         /\ \A k \in DOMAIN locks : k \in DOMAIN locks' /\ locks'[k] = locks[k]
PROOF
<1>1. /\ DOMAIN locks' = DOMAIN locks \cup {<<st, id>>} /\ locks'[<<st, id>>] = w
      /\ \A k \in DOMAIN locks : locks'[k] = locks[k]
  BY DEF Store!With
<1>2. LocksReal'
  BY <1>1 DEF LocksReal, Store!Stores
<1> QED
  BY <1>1, <1>2

LEMMA LocksReleased ==
  ASSUME LocksReal, NEW released, locks' = Store!Without(locks, released),
         \A s \in Store!Stores : DOMAIN log[s] \subseteq DOMAIN log'[s]
  PROVE  /\ LocksReal' /\ DOMAIN locks' = DOMAIN locks \ released
         /\ \A k \in DOMAIN locks' : locks'[k] = locks[k]
PROOF
<1>1. /\ DOMAIN locks' = DOMAIN locks \ released
      /\ \A k \in DOMAIN locks' : locks'[k] = locks[k]
  BY DEF Store!Without
<1>2. LocksReal'
  BY <1>1 DEF LocksReal, Store!Stores
<1> QED
  BY <1>1, <1>2

LEMMA JournalKept ==
  ASSUME StoreTypes, StoreTypes', NEW w, Gentle(w), JournalSound, marker' = marker
  PROVE  JournalSound'
PROOF
<1> SUFFICES ASSUME NEW k \in DOMAIN marker'
             PROVE  /\ k[1] \in Store!Stores /\ k[2] \in Store!Stores
                    /\ files'[k[1]] = "c1" /\ files'[k[2]] = "c1"
                    /\ marker'[k].revision \in Seq(Events)
                    /\ \/ <<k[2], marker'[k].target>> \in deleted'
                       \/ /\ marker'[k].target \in DOMAIN log'[k[2]]
                          /\ Store!IsPrefix(marker'[k].revision, log'[k[2]][marker'[k].target])
  BY DEF JournalSound, Carries, Store!Stores
<1> QED
  BY JournalStays

(* Where the only log that changes is genuine, all are.                     *)
LEMMA GenuineKept ==
  ASSUME Store!LogsAreGenuine, written \subseteq written', NEW st, NEW id,
         \A s \in Store!Stores : \A i \in DOMAIN log'[s] :
           (s = st /\ i = id) \/ (i \in DOMAIN log[s] /\ log'[s][i] = log[s][i]),
         st \in Store!Stores /\ id \in DOMAIN log'[st] =>
           \/ log'[st][id] = <<>>
           \/ \E past \in written' : /\ Store!IsPrefix(past, log'[st][id])
                                     /\ \A i \in Len(past) + 1..Len(log'[st][id]) :
                                          log'[st][id][i] = Store!Label
  PROVE  Store!LogsAreGenuine'
PROOF
<1>1. ASSUME NEW s \in Store!Stores, NEW i \in DOMAIN log'[s]
      PROVE  \/ log'[s][i] = <<>>
             \/ \E past \in written' : /\ Store!IsPrefix(past, log'[s][i])
                                       /\ \A n \in Len(past) + 1..Len(log'[s][i]) :
                                            log'[s][i][n] = Store!Label
  <2>1. CASE s = st /\ i = id
    BY <2>1
  <2>2. CASE ~(s = st /\ i = id)
    <3>1. i \in DOMAIN log[s] /\ log'[s][i] = log[s][i]
      BY <2>2
    <3>2. Store!Genuine(log[s][i])
      BY <3>1 DEF Store!LogsAreGenuine
    <3> QED
      BY <3>1, <3>2 DEF Store!Genuine
  <2> QED
    BY <2>1, <2>2
<1> QED
  BY <1>1 DEF Store!LogsAreGenuine, Store!Genuine, Store!Stores

LEMMA BackendOpensKeeps ==
  ASSUME Store!HistoryAssumption, StoreInv, NEW st \in Store!Stores, NEW id \in DOMAIN log[st],
         Store!BackendOpens(st, id)
  PROVE  StoreInv'
PROOF
<1>1. Store!Backend \notin Runtimes /\ run' = run /\ DOMAIN run' = Runtimes
  BY DEF Store!HistoryAssumption, Store!BackendOpens, StoreInv, StoreTypes
<1>2. /\ LocksReal'
      /\ \A k \in DOMAIN locks : k \in DOMAIN locks' /\ locks'[k] = locks[k]
  BY LockTaken DEF Store!BackendOpens, Store!Owned, StoreInv
<1> QED
  BY <1>1, <1>2, OnlyLocks DEF Store!BackendOpens

LEMMA BackendClosesKeeps ==
  ASSUME Store!HistoryAssumption, StoreInv, NEW st \in Store!Stores, NEW id \in DOMAIN log[st],
         Store!BackendCloses(st, id)
  PROVE  StoreInv'
PROOF
<1>1. Store!Backend \notin Runtimes /\ run' = run /\ DOMAIN run' = Runtimes
  BY DEF Store!HistoryAssumption, Store!BackendCloses, StoreInv, StoreTypes
<1>2. /\ LocksReal' /\ DOMAIN locks' = DOMAIN locks \ {<<st, id>>}
      /\ \A k \in DOMAIN locks' : locks'[k] = locks[k]
  BY LocksReleased DEF Store!BackendCloses, StoreInv
<1>3. \A k \in DOMAIN locks : locks[k] # Store!Backend => k \in DOMAIN locks'
      /\ locks'[k] = locks[k]
  BY <1>2 DEF Store!BackendCloses
<1> QED
  BY <1>1, <1>2, <1>3, OnlyLocks DEF Store!BackendCloses

(* The number of the next event: the instance counts as FiniteSets does.     *)
LEMMA CountIsNatural ==
  ASSUME NEW S, IsFiniteSet(S)
  PROVE  Store!Cardinality(S) \in Nat
PROOF
<1>1. Store!Cardinality(S) = Cardinality(S)
  BY DEF Store!Cardinality, Cardinality
<1> QED
  BY <1>1, FS_CardinalityType

LEMMA BackendWritesKeeps ==
  ASSUME Store!HistoryAssumption, StoreInv, NEW st \in Store!Stores, NEW id \in DOMAIN log[st],
         Store!BackendWrites(st, id)
  PROVE  StoreInv'
PROOF
<1> DEFINE event == Store!Event(Store!Cardinality(written))
<1>1. event \in Events /\ log[st][id] \in Seq(Events)
  BY CountIsNatural DEF Store!Event, Events, StoreInv, StoreTypes
<1>2. PICK l \in Seq(Events) : l = Append(log[st][id], event) /\ Store!IsPrefix(log[st][id], l)
  <2>1. Append(log[st][id], event) \in Seq(Events)
    BY <1>1
  <2> QED
    BY <1>1, <2>1, PrefixOfAppend, Zenon
<1>3. /\ DOMAIN log' = Store!Stores /\ log'[st][id] = l
      /\ \A s \in Store!Stores : DOMAIN log'[s] = DOMAIN log[s]
      /\ \A s \in Store!Stores : \A i \in DOMAIN log[s] :
           (s = st /\ i = id) \/ log'[s][i] = log[s][i]
      /\ written' = written \cup {l}
  <2>1. log' = [log EXCEPT ![st][id] = l] /\ written' = written \cup {log'[st][id]}
    BY <1>2, Zenon DEF Store!BackendWrites
  <2>2. DOMAIN log = Store!Stores
    BY DEF StoreInv, StoreTypes
  <2> QED
    BY <2>1, <2>2
<1> HIDE DEF event
<1>4. StoreTypes'
  <2>1. IsFiniteSet(written') /\ written' \subseteq Seq(Events)
    BY <1>3, FS_AddElement DEF StoreInv, StoreTypes
  <2>2. \A s \in Store!Stores : \A i \in DOMAIN log'[s] : log'[s][i] \in Seq(Events)
    BY <1>3 DEF StoreInv, StoreTypes
  <2> QED
    BY <1>3, <2>1, <2>2 DEF Store!BackendWrites, StoreInv, StoreTypes, Store!Stores
<1>5. Gentle(Store!Backend)
  <2>1. \A s \in Store!Stores : \A i \in DOMAIN log[s] :
          i \in DOMAIN log'[s] /\ Store!IsPrefix(log[s][i], log'[s][i])
    BY <1>2, <1>3, LogsStay DEF StoreInv
  <2>2. \A s \in Store!Stores : \A i \in DOMAIN log[s] :
          <<s, i>> \in DOMAIN locks /\ locks[<<s, i>>] # Store!Backend => log'[s][i] = log[s][i]
    BY <1>3 DEF Store!BackendWrites
  <2> QED
    BY <1>3, <2>1, <2>2 DEF Store!BackendWrites, Gentle
<1>6. LocksReal' /\ FilesFollow'
  BY <1>3 DEF Store!BackendWrites, StoreInv, LocksReal, FilesFollow, Store!Stores
<1>7. JournalSound'
  BY <1>4, <1>5, JournalKept DEF Store!BackendWrites, StoreInv
<1>8. Store!LogsAreGenuine'
  <2>1. Store!IsPrefix(l, l) /\ Len(l) \in Nat
    BY PrefixReflexive
  <2>2. \A i \in Len(l) + 1..Len(l) : l[i] = Store!Label
    BY <2>1
  <2> QED
    <3>1. \A s \in Store!Stores : \A i \in DOMAIN log'[s] :
            (s = st /\ i = id) \/ (i \in DOMAIN log[s] /\ log'[s][i] = log[s][i])
      <4> TAKE s \in Store!Stores
      <4> TAKE i \in DOMAIN log'[s]
      <4>1. i \in DOMAIN log[s]
        BY <1>3
      <4> QED
        BY <1>3, <4>1
    <3>2. \E past \in written' : /\ Store!IsPrefix(past, log'[st][id])
                                 /\ \A i \in Len(past) + 1..Len(log'[st][id]) :
                                      log'[st][id][i] = Store!Label
      <4>1. l \in written' /\ log'[st][id] = l
        BY <1>3
      <4> QED
        BY <2>1, <2>2, <4>1
    <3>3. Store!LogsAreGenuine /\ written \subseteq written'
      BY <1>3 DEF StoreInv
    <3> QED
      BY <3>1, <3>2, <3>3, GenuineKept
<1> QED
  BY <1>4, <1>5, <1>6, <1>7, <1>8, Assembled DEF Store!HistoryAssumption

LEMMA UserDeletesKeeps ==
  ASSUME Store!HistoryAssumption, StoreInv, NEW st \in Store!Stores, NEW id \in DOMAIN log[st],
         Store!UserDeletes(st, id)
  PROVE  StoreInv'
PROOF
<1>1. /\ DOMAIN log' = Store!Stores /\ DOMAIN log'[st] = DOMAIN log[st] \ {id}
      /\ \A s \in Store!Stores \ {st} : log'[s] = log[s]
      /\ \A i \in DOMAIN log'[st] : log'[st][i] = log[st][i]
  BY DEF Store!UserDeletes, Store!Without, StoreInv, StoreTypes
<1>2. StoreTypes'
  <2>1. \A s \in Store!Stores : \A i \in DOMAIN log'[s] : log'[s][i] \in Seq(Events)
    BY <1>1 DEF StoreInv, StoreTypes
  <2> QED
    BY <1>1, <2>1 DEF Store!UserDeletes, StoreInv, StoreTypes, Store!Stores
<1>3. Gentle(Store!Backend)
  <2>1. \A s \in Store!Stores : \A i \in DOMAIN log[s] :
          \/ <<s, i>> \in deleted'
          \/ i \in DOMAIN log'[s] /\ Store!IsPrefix(log[s][i], log'[s][i])
    BY <1>1, LogsStay DEF Store!UserDeletes, StoreInv
  <2>2. \A s \in Store!Stores : \A i \in DOMAIN log[s] :
          <<s, i>> \in DOMAIN locks => log'[s][i] = log[s][i]
    BY <1>1 DEF Store!UserDeletes, Store!Owned
  <2>3. /\ deleted \subseteq deleted' /\ UNCHANGED <<files, locks, run, written>>
    BY DEF Store!UserDeletes
  <2>4. \A s \in Store!Stores : \A i \in DOMAIN log[s] :
          <<s, i>> \in DOMAIN locks /\ locks[<<s, i>>] # Store!Backend =>
            /\ <<s, i>> \in DOMAIN locks' /\ locks'[<<s, i>>] = locks[<<s, i>>]
            /\ log'[s][i] = log[s][i]
    BY <2>2, <2>3
  <2> QED
    BY <2>1, <2>3, <2>4 DEF Gentle
<1>4. LocksReal'
  BY <1>1 DEF Store!UserDeletes, Store!Owned, StoreInv, LocksReal, Store!Stores
<1>5. FilesFollow'
  BY <1>1 DEF Store!UserDeletes, StoreInv, FilesFollow, Store!Stores
<1>6. JournalSound'
  BY <1>2, <1>3, JournalKept DEF Store!UserDeletes, StoreInv
<1>7. Store!LogsAreGenuine'
  <2>1. \A s \in Store!Stores : \A i \in DOMAIN log'[s] : i \in DOMAIN log[s]
        /\ log'[s][i] = log[s][i]
    BY <1>1
  <2>2. Store!LogsAreGenuine /\ written' = written /\ id \notin DOMAIN log'[st]
    BY <1>1 DEF Store!UserDeletes, StoreInv
  <2> QED
    BY <2>1, <2>2, GenuineKept
<1> QED
  BY <1>2, <1>3, <1>4, <1>5, <1>6, <1>7, Assembled DEF Store!HistoryAssumption

-----------------------------------------------------------------------------
(* The steps of a worker.                                                   *)

LEMMA SourcesTyped ==
  ASSUME Store!HistoryAssumption, NEW dest \in {Shared, Recovery}
  PROVE  Store!SourcesOf(dest) \in Seq(SourcesFor(dest))
PROOF
<1>1. Homes \in Seq(Store!Range(Homes)) /\ Homes # <<>> /\ Recovery \notin Store!Range(Homes)
  BY DEF Store!HistoryAssumption
<1>2. Homes[1] \in Store!Range(Homes) /\ Tail(Homes) \in Seq(Store!Range(Homes))
  BY <1>1
<1>3. CASE dest = Shared
  <2>1. Store!Range(Homes) \subseteq SourcesFor(dest) /\ Recovery \in SourcesFor(dest)
    BY <1>3 DEF SourcesFor, Store!HistoryAssumption
  <2>2. <<Homes[1], Recovery>> \in Seq(SourcesFor(dest)) /\ Tail(Homes) \in Seq(SourcesFor(dest))
    BY <1>2, <2>1
  <2> QED
    BY <1>3, <2>2 DEF Store!SourcesOf
<1>4. CASE dest = Recovery
  <2>1. Store!Range(Homes) \subseteq SourcesFor(dest)
    BY <1>1, <1>4 DEF SourcesFor
  <2> QED
    BY <1>1, <1>4, <2>1 DEF Store!SourcesOf, Store!HistoryAssumption
<1> QED
  BY <1>3, <1>4

LEMMA OffTyped ==
  /\ DOMAIN Store!Off = Fields /\ Store!Off.at = "off" /\ Store!Off.dest = Shared
  /\ Store!Off.homes \in Seq(SourcesFor(Shared))
PROOF
<1>1. DOMAIN Store!Off = Fields /\ Store!Off.at = "off" /\ Store!Off.dest = Shared
      /\ Store!Off.homes = <<>>
  BY DEF Store!Off, Fields
<1> QED
  BY <1>1

LEMMA BeginTyped ==
  ASSUME Store!HistoryAssumption, NEW dest \in {Shared, Recovery}
  PROVE  LET b == Store!Begin(dest) IN
         /\ DOMAIN b = Fields /\ b.at \in {"failed", "homes"} /\ b.dest = dest
         /\ b.homes \in Seq(SourcesFor(dest))
PROOF
<1> DEFINE b == Store!Begin(dest)
<1>1. /\ DOMAIN b = Fields /\ b.dest = dest /\ b.homes = Store!SourcesOf(dest)
      /\ b.at = IF dest = Shared /\ mixed THEN "failed" ELSE "homes"
  BY OffTyped, Zenon DEF Store!Begin, Fields
<1> HIDE DEF b
<1> QED
  BY <1>1, SourcesTyped DEF b

(* A worker that holds nothing is sound.                                    *)
LEMMA AtRest ==
  ASSUME NEW w \in Runtimes, run'[w].at \in StoreStages \ Holding, DOMAIN run'[w] = Fields,
         run'[w].dest \in {Shared, Recovery}, run'[w].homes \in Seq(SourcesFor(run'[w].dest)),
         run'[w].at \in {"next", "open"} => run'[w].from \in SourcesFor(run'[w].dest)
  PROVE  WorkerTyped(w)' /\ WorkerSound(w)'
PROOF
<1>1. WorkerTyped(w)'
  BY DEF WorkerTyped, StoreStages, Holding, Reading
<1>2. WorkerSound(w)'
  BY DEF WorkerSound, StoreStages, Holding, Reading
<1> QED
  BY <1>1, <1>2

LEMMA StartKeeps ==
  ASSUME Store!HistoryAssumption, StoreInv, NEW w \in Runtimes, Store!Start(w)
  PROVE  StoreInv'
PROOF
<1>1. run' = [run EXCEPT ![w] = Store!Begin(Shared)] /\ DOMAIN run = Runtimes
  BY DEF Store!Start, StoreInv, StoreTypes
<1>2. PICK b : b = Store!Begin(Shared)
  OBVIOUS
<1>3. /\ DOMAIN b = Fields /\ b.at \in {"failed", "homes"} /\ b.dest = Shared
      /\ b.homes \in Seq(SourcesFor(Shared))
  BY <1>2, BeginTyped
<1>4. DOMAIN run' = Runtimes /\ run'[w] = b /\ \A v \in Runtimes \ {w} : run'[v] = run[v]
  BY <1>1, <1>2, Moved
<1>5. WorkerTyped(w)' /\ WorkerSound(w)'
  BY <1>3, <1>4, AtRest DEF StoreStages, Holding, Reading
<1> QED
  BY <1>4, <1>5, OnlyMoves DEF Store!Start

LEMMA GoneKeeps ==
  ASSUME Store!HistoryAssumption, StoreInv, NEW w \in Runtimes,
         run' = [run EXCEPT ![w] = Store!Off]
         \/ \E dest \in {Shared, Recovery} : run' = [run EXCEPT ![w] = Store!Begin(dest)],
         locks' = Store!Without(locks, Store!LocksOf(w)), UNCHANGED <<log, files, marker, mixed,
         written, deleted>>
  PROVE  StoreInv'
PROOF
<1>1. PICK b : /\ run' = [run EXCEPT ![w] = b] /\ DOMAIN b = Fields
           /\ b.at \in {"off", "failed", "homes"}
               /\ b.dest \in {Shared, Recovery} /\ b.homes \in Seq(SourcesFor(b.dest))
  <2>1. CASE run' = [run EXCEPT ![w] = Store!Off]
    BY <2>1, OffTyped
  <2>2. ASSUME NEW dest \in {Shared, Recovery}, run' = [run EXCEPT ![w] = Store!Begin(dest)]
        PROVE  \E b : /\ run' = [run EXCEPT ![w] = b] /\ DOMAIN b = Fields
                      /\ b.at \in {"off", "failed", "homes"} /\ b.dest \in {Shared, Recovery}
                      /\ b.homes \in Seq(SourcesFor(b.dest))
    <3>1. PICK b : b = Store!Begin(dest)
      OBVIOUS
    <3>2. /\ DOMAIN b = Fields /\ b.at \in {"failed", "homes"} /\ b.dest = dest
          /\ b.homes \in Seq(SourcesFor(dest))
      BY <3>1, BeginTyped
    <3> QED
      BY <2>2, <3>1, <3>2
  <2> QED
    BY <2>1, <2>2
<1>2. DOMAIN run = Runtimes
  BY DEF StoreInv, StoreTypes
<1>3. DOMAIN run' = Runtimes /\ run'[w] = b /\ \A v \in Runtimes \ {w} : run'[v] = run[v]
  BY <1>1, <1>2, Moved
<1>4. WorkerTyped(w)' /\ WorkerSound(w)'
  BY <1>1, <1>3, AtRest DEF StoreStages, Holding, Reading
<1>5. /\ LocksReal' /\ DOMAIN locks' = DOMAIN locks \ Store!LocksOf(w)
      /\ \A k \in DOMAIN locks' : locks'[k] = locks[k]
  BY LocksReleased DEF StoreInv
<1>6. \A k \in DOMAIN locks : locks[k] # w => k \in DOMAIN locks' /\ locks'[k] = locks[k]
  BY <1>5 DEF Store!LocksOf
<1> QED
  BY <1>3, <1>4, <1>5, <1>6, OnlyLocks

LEMMA StoreFailsKeeps ==
  ASSUME Store!HistoryAssumption, StoreInv, NEW w \in Runtimes, Store!Fails(w) \/ Store!Killed(w)
  PROVE  StoreInv'
PROOF
<1>1. \/ run' = [run EXCEPT ![w] = Store!Off]
      \/ \E dest \in {Shared, Recovery} : run' = [run EXCEPT ![w] = Store!Begin(dest)]
  BY DEF Store!Fails, Store!Killed, Store!Gone
<1>2. /\ locks' = Store!Without(locks, Store!LocksOf(w))
      /\ UNCHANGED <<log, files, marker, mixed, written, deleted>>
  BY DEF Store!Fails, Store!Killed, Store!Gone
<1> QED
  BY <1>1, <1>2, GoneKeeps

(* A worker moves on where it works, or to where it holds nothing.          *)
LEMMA MovesOn ==
  ASSUME StoreInv, NEW w \in Runtimes, NEW at \in StoreStages, Store!To(w, at),
         run[w].at \in {"off", "failed", "homes"} => at \in {"off", "failed", "homes"}
  PROVE  /\ DOMAIN run' = Runtimes /\ \A v \in Runtimes \ {w} : run'[v] = run[v]
         /\ WorkerTyped(w)' /\ run'[w].at = at /\ run'[w].dest = run[w].dest
         /\ run'[w].from = run[w].from /\ run'[w].id = run[w].id
         /\ run'[w].rev = run[w].rev /\ run'[w].target = run[w].target
PROOF
<1>1. DOMAIN run = Runtimes /\ DOMAIN run[w] = Fields /\ WorkerTyped(w)
  BY DEF StoreInv, StoreTypes, WorkerTyped
<1>2. /\ DOMAIN run' = Runtimes /\ \A v \in Runtimes \ {w} : run'[v] = run[v]
      /\ DOMAIN run'[w] = Fields /\ run'[w].at = at /\ run'[w].dest = run[w].dest
      /\ run'[w].homes = run[w].homes /\ run'[w].from = run[w].from /\ run'[w].id = run[w].id
      /\ run'[w].rev = run[w].rev /\ run'[w].target = run[w].target
  BY <1>1, MovesTo
<1>3. WorkerTyped(w)'
  BY <1>1, <1>2 DEF WorkerTyped
<1> QED
  BY <1>2, <1>3

LEMMA RestIsSound ==
  ASSUME NEW w, run'[w].at \in StoreStages \ Holding
  PROVE  WorkerSound(w)'
PROOF
  BY DEF WorkerSound, StoreStages, Holding, Reading

(* A step that takes the worker to where it holds nothing, and nothing else.*)
LEMMA OnlyRests ==
  ASSUME Store!HistoryAssumption, StoreInv, NEW w \in Runtimes, NEW at \in StoreStages \ Holding,
        Store!To(w, at),
         run[w].at \in {"off", "failed", "homes"} => at \in {"off", "failed", "homes"},
         UNCHANGED <<log, files, locks, marker, written, deleted>>
  PROVE  StoreInv'
PROOF
<1>1. /\ DOMAIN run' = Runtimes /\ \A v \in Runtimes \ {w} : run'[v] = run[v]
      /\ WorkerTyped(w)' /\ run'[w].at = at
  BY MovesOn
<1>2. WorkerSound(w)'
  BY <1>1, RestIsSound
<1> QED
  BY <1>1, <1>2, OnlyMoves

LEMMA ListsKeeps ==
  ASSUME Store!HistoryAssumption, StoreInv, NEW w \in Runtimes, Store!Lists(w)
  PROVE  StoreInv'
PROOF
<1>1. /\ DOMAIN run = Runtimes /\ DOMAIN run[w] = Fields /\ run[w].dest \in {Shared, Recovery}
      /\ run[w].homes \in Seq(SourcesFor(run[w].dest))
  BY DEF StoreInv, StoreTypes, WorkerTyped
<1>2. CASE run[w].homes = <<>>
  <2>1. run' = [run EXCEPT ![w] = Store!Off]
    BY <1>2 DEF Store!Lists
  <2>2. PICK b : b = Store!Off
    OBVIOUS
  <2>3. DOMAIN run' = Runtimes /\ run'[w] = b /\ \A v \in Runtimes \ {w} : run'[v] = run[v]
    BY <1>1, <2>1, <2>2, Moved
  <2>4. WorkerTyped(w)' /\ WorkerSound(w)'
    BY <2>2, <2>3, OffTyped, AtRest DEF StoreStages, Holding, Reading
  <2> QED
    BY <2>3, <2>4, OnlyMoves DEF Store!Lists
<1>3. CASE run[w].homes # <<>>
  <2>1. PICK homes \in Seq(SourcesFor(run[w].dest)) : homes = run[w].homes
    BY <1>1
  <2>2. Head(homes) \in SourcesFor(run[w].dest) /\ Tail(homes) \in Seq(SourcesFor(run[w].dest))
    BY <1>3, <2>1, HeadTailProperties
  <2>3. PICK from, rest : from = Head(homes) /\ rest = Tail(homes)
    OBVIOUS
  <2>4. run' = [run EXCEPT ![w].homes = rest, ![w].at = "next", ![w].from = from,
                  ![w].todo = {[id |-> i, rev |-> log[from][i]] : i \in DOMAIN log[from]}]
    <3>1. run' = [run EXCEPT ![w].homes = Tail(run[w].homes), ![w].at = "next",
                    ![w].from = Head(run[w].homes),
                    ![w].todo = {[id |-> i, rev |-> log[Head(run[w].homes)][i]] :
                                   i \in DOMAIN log[Head(run[w].homes)]}]
      BY <1>3, Zenon DEF Store!Lists
    <3> QED
      BY <2>1, <2>3, <3>1, Zenon
  <2>5. /\ DOMAIN run' = Runtimes /\ \A v \in Runtimes \ {w} : run'[v] = run[v]
        /\ DOMAIN run'[w] = Fields /\ run'[w].at = "next" /\ run'[w].dest = run[w].dest
        /\ run'[w].homes = rest /\ run'[w].from = from
    BY <1>1, <2>4, Zenon DEF Fields
  <2>6. WorkerTyped(w)' /\ WorkerSound(w)'
    BY <1>1, <2>2, <2>3, <2>5, AtRest DEF StoreStages, Holding, Reading
  <2> QED
    BY <2>5, <2>6, OnlyMoves DEF Store!Lists
<1> QED
  BY <1>2, <1>3

LEMMA PicksKeeps ==
  ASSUME Store!HistoryAssumption, StoreInv, NEW w \in Runtimes, Store!Picks(w)
  PROVE  StoreInv'
PROOF
<1>1. /\ DOMAIN run = Runtimes /\ DOMAIN run[w] = Fields /\ run[w].dest \in {Shared, Recovery}
      /\ run[w].homes \in Seq(SourcesFor(run[w].dest)) /\ run[w].from \in SourcesFor(run[w].dest)
  BY DEF StoreInv, StoreTypes, WorkerTyped, Store!Picks
<1>2. CASE run[w].todo = {}
  <2>1. Store!To(w, "homes")
    BY <1>2 DEF Store!Picks
  <2> QED
    BY <2>1, OnlyRests DEF Store!Picks, StoreStages, Holding, Reading
<1>3. CASE run[w].todo # {}
  <2>1. PICK s \in run[w].todo :
          run' = [run EXCEPT ![w].todo = @ \ {s}, ![w].id = s.id,
                    ![w].at = IF Store!Journaled(run[w].from, run[w].dest, s.id, s.rev)
                              THEN "next" ELSE "open"]
    BY <1>3 DEF Store!Picks
  <2>2. PICK at \in {"next", "open"} :
          at = IF Store!Journaled(run[w].from, run[w].dest, s.id, s.rev) THEN "next" ELSE "open"
    OBVIOUS
  <2>3. run' = [run EXCEPT ![w].todo = @ \ {s}, ![w].id = s.id, ![w].at = at]
    BY <2>1, <2>2, Zenon
  <2>4. /\ DOMAIN run' = Runtimes /\ \A v \in Runtimes \ {w} : run'[v] = run[v]
        /\ DOMAIN run'[w] = Fields /\ run'[w].at = at /\ run'[w].dest = run[w].dest
        /\ run'[w].homes = run[w].homes /\ run'[w].from = run[w].from
    BY <1>1, <2>3, Zenon DEF Fields
  <2>5. WorkerTyped(w)' /\ WorkerSound(w)'
    BY <1>1, <2>2, <2>4, AtRest DEF StoreStages, Holding, Reading
  <2> QED
    BY <2>4, <2>5, OnlyMoves DEF Store!Picks
<1> QED
  BY <1>2, <1>3

LEMMA OpensKeeps ==
  ASSUME Store!HistoryAssumption, StoreInv, NEW w \in Runtimes, Store!Opens(w)
  PROVE  StoreInv'
PROOF
<1>1. CASE UNCHANGED locks /\ (Store!To(w, "next") \/ Store!To(w, "failed"))
  BY <1>1, OnlyRests DEF Store!Opens, StoreStages, Holding, Reading
<1>2. CASE /\ ~Store!Owned(run[w].from, run[w].id) /\ run[w].id \in DOMAIN log[run[w].from]
           /\ Store!To(w, "attachments")
           /\ locks' = Store!With(locks, <<run[w].from, run[w].id>>, w)
  <2>1. run[w].from \in Store!Stores
    BY DEF StoreInv, WorkerTyped, Store!Opens, SourcesFor, Store!Stores
  <2>2. /\ DOMAIN run' = Runtimes /\ \A v \in Runtimes \ {w} : run'[v] = run[v]
        /\ WorkerTyped(w)' /\ run'[w].at = "attachments"
        /\ run'[w].from = run[w].from /\ run'[w].id = run[w].id
    BY <1>2, MovesOn DEF Store!Opens, StoreStages
  <2>3. log' = log
    BY DEF Store!Opens
  <2>4. /\ LocksReal' /\ <<run[w].from, run[w].id>> \in DOMAIN locks'
        /\ locks'[<<run[w].from, run[w].id>>] = w
        /\ \A k \in DOMAIN locks : k \in DOMAIN locks' /\ locks'[k] = locks[k]
    BY <1>2, <2>1, <2>3, LockTaken DEF StoreInv, Store!Owned
  <2>5. WorkerSound(w)'
    BY <2>2, <2>4 DEF WorkerSound, Holds, Holding, Reading
  <2> QED
    BY <2>2, <2>4, <2>5, OnlyLocks DEF Store!Opens
<1> QED
  BY <1>1, <1>2 DEF Store!Opens

(* Where a session is and the source is one of the old ones.                *)
LEMMA AttachesKeeps ==
  ASSUME Store!HistoryAssumption, StoreInv, NEW w \in Runtimes, Store!Attaches(w)
  PROVE  StoreInv'
PROOF
<1> DEFINE from == run[w].from
           dest == run[w].dest
<1>1. run[w].at = "attachments"
  BY DEF Store!Attaches
<1>2. /\ from \in Store!Stores /\ dest \in Store!Stores /\ from # dest /\ from # Shared
      /\ run[w].id \in DOMAIN log[from]
  BY <1>1, WorkerPlaced DEF StoreInv, Holding
<1>3. files[from] = "c1" /\ files[from] # Store!NoFile
  BY <1>2 DEF StoreInv, FilesFollow, Store!NoFile
<1>4. CASE Store!To(w, "failed") /\ UNCHANGED files
  BY <1>1, <1>4, OnlyRests DEF Store!Attaches, StoreStages, Holding, Reading
<1>5. CASE /\ files[dest] \in {Store!NoFile, files[from]}
           /\ run' = [run EXCEPT ![w].at = "compare", ![w].rev = log[from][run[w].id]]
           /\ files' = [files EXCEPT ![dest] =
                         IF files[from] = Store!NoFile THEN @ ELSE files[from]]
  <2>1. DOMAIN run = Runtimes /\ DOMAIN run[w] = Fields /\ WorkerTyped(w) /\ WorkerSound(w)
    BY DEF StoreInv, StoreTypes, WorkerTyped
  <2>2. /\ DOMAIN run' = Runtimes /\ \A v \in Runtimes \ {w} : run'[v] = run[v]
        /\ DOMAIN run'[w] = Fields /\ run'[w].at = "compare" /\ run'[w].dest = dest
        /\ run'[w].homes = run[w].homes /\ run'[w].from = from /\ run'[w].id = run[w].id
        /\ run'[w].rev = log[from][run[w].id]
    BY <1>5, <2>1, Zenon DEF Fields
  <2>3. /\ DOMAIN files' = Store!Stores /\ files'[dest] = "c1"
        /\ \A st \in Store!Stores \ {dest} : files'[st] = files[st]
    BY <1>2, <1>3, <1>5 DEF StoreInv, StoreTypes
  <2>4. /\ UNCHANGED <<log, locks, marker, written, deleted>>
    BY DEF Store!Attaches
  <2>5. StoreTypes' /\ LocksReal' /\ Store!LogsAreGenuine'
    BY <2>2, <2>3, <2>4 DEF StoreInv, StoreTypes, LocksReal, Store!LogsAreGenuine, Store!Genuine,
           Store!Stores
  <2>6. FilesFollow'
    BY <2>3, <2>4 DEF StoreInv, FilesFollow, Store!Stores
  <2>7. Gentle(w)
    BY <2>2, <2>3, <2>4, LogsStay DEF Gentle, StoreInv
  <2>8. JournalSound'
    BY <2>4, <2>5, <2>7, JournalKept DEF StoreInv
  <2>9. WorkerTyped(w)'
    BY <1>1, <2>1, <2>2 DEF WorkerTyped, StoreStages
  <2>10. WorkerSound(w)'
    <3>1. Holds(w, from, run[w].id)
      BY <1>1, <2>1 DEF WorkerSound, Holding
    <3>2. files'[from] = "c1"
      BY <1>2, <1>3, <2>3
    <3> QED
      BY <2>2, <2>3, <2>4, <3>1, <3>2 DEF WorkerSound, Holds, Holding, Reading
  <2> QED
    BY <2>5, <2>6, <2>7, <2>8, <2>9, <2>10, Assembled
<1>6. \/ Store!To(w, "failed") /\ UNCHANGED files
      \/ /\ files[dest] \in {Store!NoFile, files[from]}
         /\ run' = [run EXCEPT ![w].at = "compare", ![w].rev = log[from][run[w].id]]
         /\ files' = [files EXCEPT ![dest] =
                         IF files[from] = Store!NoFile THEN @ ELSE files[from]]
  BY <1>3, Zenon DEF Store!Attaches
<1> QED
  BY <1>4, <1>5, <1>6

LEMMA ComparedSays ==
  ASSUME NEW S, NEW events \in Seq(S), NEW other \in Seq(S)
  PROVE  /\ Store!Compared(events, other) \in
              {"equal", "source-ahead", "target-ahead", "diverged"}
         /\ Store!Compared(events, other) = "source-ahead" =>
              Store!IsPrefix(other, events) /\ events # <<>>
         /\ Store!Compared(events, other) = "diverged" => events # <<>>
         /\ Store!Compared(events, other) \in {"equal", "target-ahead"} =>
              Store!IsPrefix(events, other)
PROOF
<1>1. Store!IsPrefix(events, events) /\ Store!IsPrefix(<<>>, other)
  BY PrefixReflexive
<1>2. CASE events = other
  BY <1>1, <1>2 DEF Store!Compared
<1>3. CASE events # other /\ Store!IsPrefix(other, events)
  <2>1. Store!Compared(events, other) = "source-ahead"
    <3>1. ~Store!IsPrefix(events, other)
      <4>1. SUFFICES ASSUME Store!IsPrefix(events, other)
                     PROVE  events = other
        BY <1>3
      <4>2. /\ Len(events) \in Nat /\ Len(other) \in Nat /\ Len(events) <= Len(other)
            /\ Len(other) <= Len(events) /\ \A i \in 1..Len(events) : events[i] = other[i]
        BY <1>3, <4>1, PrefixIs
      <4>3. Len(events) = Len(other)
        BY <4>2
      <4> QED
        BY <4>2, <4>3, SeqEqual
    <3> QED
      BY <1>3, <3>1 DEF Store!Compared, Store!IsStrictPrefix
  <2>2. events # <<>>
    <3>1. Len(other) <= Len(events) /\ Len(other) \in Nat
      BY <1>3 DEF Store!IsPrefix
    <3>2. ASSUME Len(events) = 0
          PROVE  FALSE
      <4>1. Len(other) = 0
        BY <3>1, <3>2
      <4>2. other = <<>> /\ events = <<>>
        BY <3>2, <4>1
      <4> QED
        BY <1>3, <4>2
    <3> QED
      BY <3>2
  <2> QED
    BY <1>3, <2>1, <2>2
<1>4. CASE events # other /\ ~Store!IsPrefix(other, events) /\ Store!IsPrefix(events, other)
  BY <1>4 DEF Store!Compared, Store!IsStrictPrefix
<1>5. CASE events # other /\ ~Store!IsPrefix(other, events) /\ ~Store!IsPrefix(events, other)
  BY <1>1, <1>5 DEF Store!Compared, Store!IsStrictPrefix
<1> QED
  BY <1>2, <1>3, <1>4, <1>5

(* What a worker has read it holds, and goes on to hold.                    *)
LEMMA StillHeld ==
  ASSUME Store!HistoryAssumption, StoreInv, NEW w \in Runtimes, run[w].at \in Reading,
         run'[w].at \in Reading, run'[w].from = run[w].from, run'[w].id = run[w].id,
         run'[w].dest = run[w].dest, run'[w].rev = run[w].rev, UNCHANGED files,
         <<run[w].from, run[w].id>> \in DOMAIN locks',
         locks'[<<run[w].from, run[w].id>>] = w,
         log'[run[w].from][run[w].id] = log[run[w].from][run[w].id]
  PROVE  /\ run'[w].at \in Holding =>
              /\ <<run'[w].from, run'[w].id>> \in DOMAIN locks'
              /\ locks'[<<run'[w].from, run'[w].id>>] = w
         /\ run'[w].at \in Reading =>
              /\ log'[run'[w].from][run'[w].id] = run'[w].rev
              /\ files'[run'[w].from] = "c1" /\ files'[run'[w].dest] = "c1"
PROOF
<1>1. /\ log[run[w].from][run[w].id] = run[w].rev
      /\ files[run[w].from] = "c1" /\ files[run[w].dest] = "c1"
  BY DEF StoreInv, WorkerSound
<1> QED
  BY <1>1

LEMMA HeldNow ==
  ASSUME StoreInv, NEW w \in Runtimes, run[w].at \in Reading
  PROVE  <<run[w].from, run[w].id>> \in DOMAIN locks /\ locks[<<run[w].from, run[w].id>>] = w
PROOF
  BY DEF StoreInv, WorkerSound, Holds, Holding

LEMMA StoreComparesKeeps ==
  ASSUME Store!HistoryAssumption, StoreInv, NEW w \in Runtimes, Store!Compares(w)
  PROVE  StoreInv'
PROOF
<1> DEFINE other == log[run[w].dest][run[w].id]
<1>1. run[w].at = "compare" /\ run[w].at \in Reading /\ run[w].at \in Holding
  BY DEF Store!Compares, Reading, Holding
<1>2. /\ run[w].dest \in Store!Stores /\ run[w].rev \in Seq(Events)
  BY <1>1, WorkerPlaced DEF StoreInv
<1>3. /\ DOMAIN run = Runtimes /\ DOMAIN run[w] = Fields /\ WorkerTyped(w)
  BY DEF StoreInv, StoreTypes, WorkerTyped
<1>4. PICK at : at = IF run[w].id \notin DOMAIN log[run[w].dest] THEN "create"
                     ELSE CASE Store!Compared(run[w].rev, other) = "source-ahead" -> "write"
                            [] Store!Compared(run[w].rev, other) = "diverged" -> "fork"
                            [] OTHER -> "mark"
  OBVIOUS
<1>5. run' = [run EXCEPT ![w].target = run[w].id, ![w].at = at]
  BY <1>4, Zenon DEF Store!Compares
<1>6. /\ DOMAIN run' = Runtimes /\ \A v \in Runtimes \ {w} : run'[v] = run[v]
      /\ DOMAIN run'[w] = Fields /\ run'[w].at = at /\ run'[w].dest = run[w].dest
      /\ run'[w].homes = run[w].homes /\ run'[w].from = run[w].from /\ run'[w].id = run[w].id
      /\ run'[w].rev = run[w].rev /\ run'[w].target = run[w].id
  BY <1>3, <1>5, Zenon DEF Fields
<1>7. /\ at \in {"create", "write", "fork", "mark"}
      /\ at \in {"write", "fork"} => run[w].rev # <<>>
      /\ at = "mark" => run[w].id \in DOMAIN log[run[w].dest] /\ Store!IsPrefix(run[w].rev, other)
  <2>1. CASE run[w].id \notin DOMAIN log[run[w].dest]
    BY <1>4, <2>1
  <2>2. CASE run[w].id \in DOMAIN log[run[w].dest]
    <3>1. other \in Seq(Events)
      BY <1>2, <2>2 DEF StoreInv, StoreTypes
    <3>2. PICK c \in {"equal", "source-ahead", "target-ahead", "diverged"} :
            c = Store!Compared(run[w].rev, other)
      BY <1>2, <3>1, ComparedSays
    <3>3. /\ c \in {"source-ahead", "diverged"} => run[w].rev # <<>>
          /\ c \in {"equal", "target-ahead"} => Store!IsPrefix(run[w].rev, other)
      BY <1>2, <3>1, <3>2, ComparedSays
    <3>4. at = IF c = "source-ahead" THEN "write" ELSE IF c = "diverged" THEN "fork" ELSE "mark"
      BY <1>4, <2>2, <3>2
    <3> QED
      BY <2>2, <3>2, <3>3, <3>4
  <2> QED
    BY <2>1, <2>2
<1>8. UNCHANGED <<log, files, locks, marker, written, deleted>>
  BY DEF Store!Compares
<1>9. WorkerTyped(w)'
  BY <1>1, <1>3, <1>6, <1>7 DEF WorkerTyped, StoreStages
<1>10. WorkerSound(w)'
  <2>1. /\ Holds(w, run[w].from, run[w].id)
        /\ log[run[w].from][run[w].id] = run[w].rev
        /\ files[run[w].from] = "c1" /\ files[run[w].dest] = "c1"
    BY <1>1 DEF StoreInv, WorkerSound
  <2> QED
    BY <1>6, <1>7, <1>8, <2>1 DEF WorkerSound, Holds, Carries
<1> QED
  BY <1>6, <1>8, <1>9, <1>10, OnlyMoves

LEMMA ForksKeeps ==
  ASSUME Store!HistoryAssumption, StoreInv, NEW w \in Runtimes, Store!Forks(w)
  PROVE  StoreInv'
PROOF
<1> DEFINE fork == Store!ForkId(run[w])
<1>1. run[w].at = "fork" /\ run[w].at \in Reading /\ run[w].at \in Holding
  BY DEF Store!Forks, Reading, Holding
<1>2. run[w].dest \in Store!Stores /\ run[w].rev \in Seq(Events) /\ run[w].rev # <<>>
  BY <1>1, WorkerPlaced DEF StoreInv, WorkerSound
<1>3. /\ DOMAIN run = Runtimes /\ DOMAIN run[w] = Fields /\ WorkerTyped(w)
  BY DEF StoreInv, StoreTypes, WorkerTyped
<1>4. PICK at : at = IF fork \notin DOMAIN log[run[w].dest] THEN "create"
                     ELSE IF Store!IsPrefix(run[w].rev, log[run[w].dest][fork]) THEN "mark"
                     ELSE "failed"
  OBVIOUS
<1>5. run' = [run EXCEPT ![w].target = fork, ![w].at = at]
  BY <1>4, Zenon DEF Store!Forks
<1> HIDE DEF fork
<1>6. /\ DOMAIN run' = Runtimes /\ \A v \in Runtimes \ {w} : run'[v] = run[v]
      /\ DOMAIN run'[w] = Fields /\ run'[w].at = at /\ run'[w].dest = run[w].dest
      /\ run'[w].homes = run[w].homes /\ run'[w].from = run[w].from /\ run'[w].id = run[w].id
      /\ run'[w].rev = run[w].rev /\ run'[w].target = fork
  BY <1>3, <1>5, Zenon DEF Fields
<1>7. /\ at \in {"create", "failed", "mark"}
      /\ at = "mark" => fork \in DOMAIN log[run[w].dest]
                        /\ Store!IsPrefix(run[w].rev, log[run[w].dest][fork])
  BY <1>4
<1>8. UNCHANGED <<log, files, locks, marker, written, deleted>>
  BY DEF Store!Forks
<1>9. WorkerTyped(w)'
  BY <1>1, <1>3, <1>6, <1>7 DEF WorkerTyped, StoreStages
<1>10. WorkerSound(w)'
  <2>1. /\ Holds(w, run[w].from, run[w].id)
        /\ log[run[w].from][run[w].id] = run[w].rev
        /\ files[run[w].from] = "c1" /\ files[run[w].dest] = "c1"
    BY <1>1 DEF StoreInv, WorkerSound
  <2> QED
    BY <1>2, <1>6, <1>7, <1>8, <2>1 DEF WorkerSound, Holds, Carries, Holding, Reading
<1> QED
  BY <1>6, <1>8, <1>9, <1>10, OnlyMoves

LEMMA AdvancesKeeps ==
  ASSUME Store!HistoryAssumption, StoreInv, NEW w \in Runtimes, Store!Advances(w)
  PROVE  StoreInv'
PROOF
<1>1. PICK from, dest, id, rev : from = run[w].from /\ dest = run[w].dest /\ id = run[w].id
                                 /\ rev = run[w].rev
  OBVIOUS
<1>2. run[w].at = "write" /\ run[w].at \in Reading /\ run[w].at \in Holding
  BY DEF Store!Advances, Reading, Holding
<1>3. /\ from \in Store!Stores /\ dest \in Store!Stores /\ from # dest /\ id \in DOMAIN log[from]
      /\ rev \in Seq(Events) /\ rev # <<>> /\ run[w].target = id
      /\ log[from][id] = rev /\ files[from] = "c1" /\ files[dest] = "c1"
      /\ Holds(w, from, id) /\ WorkerTyped(w)
  BY <1>1, <1>2, WorkerPlaced DEF StoreInv, WorkerSound
<1>4. UNCHANGED <<files, locks, marker, written, deleted>>
  BY DEF Store!Advances
<1>5. CASE Store!To(w, "failed") /\ UNCHANGED log
  BY <1>2, <1>4, <1>5, OnlyRests DEF StoreStages, Holding, Reading
<1>6. CASE Store!To(w, "fork") /\ UNCHANGED log
  <2>1. /\ DOMAIN run' = Runtimes /\ \A v \in Runtimes \ {w} : run'[v] = run[v]
        /\ WorkerTyped(w)' /\ run'[w].at = "fork" /\ run'[w].dest = dest
        /\ run'[w].from = from /\ run'[w].id = id /\ run'[w].rev = rev
    BY <1>1, <1>2, <1>6, MovesOn DEF StoreStages
  <2>2. WorkerSound(w)'
    BY <1>3, <1>4, <1>6, <2>1 DEF WorkerSound, Holds, Holding, Reading
  <2> QED
    BY <1>4, <1>6, <2>1, <2>2, OnlyMoves
<1>7. CASE /\ id \in DOMAIN log[dest] /\ Store!IsPrefix(rev, log[dest][id])
           /\ Store!To(w, "mark") /\ UNCHANGED log
  <2>1. /\ DOMAIN run' = Runtimes /\ \A v \in Runtimes \ {w} : run'[v] = run[v]
        /\ WorkerTyped(w)' /\ run'[w].at = "mark" /\ run'[w].dest = dest
        /\ run'[w].from = from /\ run'[w].id = id /\ run'[w].rev = rev /\ run'[w].target = id
    BY <1>1, <1>2, <1>3, <1>7, MovesOn DEF StoreStages
  <2>2. WorkerSound(w)'
    BY <1>3, <1>4, <1>7, <2>1 DEF WorkerSound, Holds, Holding, Reading, Carries
  <2> QED
    BY <1>4, <1>7, <2>1, <2>2, OnlyMoves
<1>8. CASE /\ id \in DOMAIN log[dest] /\ ~Store!Owned(dest, id) /\ Store!To(w, "mark")
           /\ log' = [log EXCEPT ![dest][id] = rev] /\ Store!IsPrefix(log[dest][id], rev)
  <2>1. /\ DOMAIN run' = Runtimes /\ \A v \in Runtimes \ {w} : run'[v] = run[v]
        /\ WorkerTyped(w)' /\ run'[w].at = "mark" /\ run'[w].dest = dest
        /\ run'[w].from = from /\ run'[w].id = id /\ run'[w].rev = rev /\ run'[w].target = id
    BY <1>1, <1>2, <1>3, <1>8, MovesOn DEF StoreStages
  <2>2. /\ DOMAIN log' = Store!Stores /\ log'[dest][id] = rev
        /\ \A s \in Store!Stores : DOMAIN log'[s] = DOMAIN log[s]
        /\ \A s \in Store!Stores : \A i \in DOMAIN log[s] :
             (s = dest /\ i = id) \/ log'[s][i] = log[s][i]
    BY <1>3, <1>8 DEF StoreInv, StoreTypes
  <2>3. StoreTypes'
    <3>1. \A s \in Store!Stores : \A i \in DOMAIN log[s] : log[s][i] \in Seq(Events)
      BY DEF StoreInv, StoreTypes
    <3>2. \A s \in Store!Stores : \A i \in DOMAIN log'[s] : log'[s][i] \in Seq(Events)
      <4> TAKE s \in Store!Stores
      <4> TAKE i \in DOMAIN log'[s]
      <4>1. i \in DOMAIN log[s]
        BY <2>2
      <4>2. CASE s = dest /\ i = id
        BY <1>3, <2>2, <4>2
      <4>3. CASE ~(s = dest /\ i = id)
        BY <2>2, <3>1, <4>1, <4>3
      <4> QED
        BY <4>2, <4>3
    <3> QED
      BY <1>4, <2>1, <2>2, <3>2 DEF StoreInv, StoreTypes, Store!Stores
  <2>4. LocksReal' /\ FilesFollow'
    BY <1>4, <2>2 DEF StoreInv, LocksReal, FilesFollow, Store!Stores
  <2>5. Gentle(w)
    <3>1. \A s \in Store!Stores : \A i \in DOMAIN log[s] :
            i \in DOMAIN log'[s] /\ Store!IsPrefix(log[s][i], log'[s][i])
      BY <1>8, <2>2, LogsStay DEF StoreInv
    <3>2. \A s \in Store!Stores : \A i \in DOMAIN log[s] :
            <<s, i>> \in DOMAIN locks => log'[s][i] = log[s][i]
      BY <1>8, <2>2 DEF Store!Owned
    <3> QED
      BY <1>4, <2>1, <3>1, <3>2 DEF Gentle
  <2>6. JournalSound'
    BY <1>4, <2>3, <2>5, JournalKept DEF StoreInv
  <2>7. Store!LogsAreGenuine'
    <3>1. Store!Genuine(rev)
      BY <1>3 DEF StoreInv, Store!LogsAreGenuine
    <3>2. \A s \in Store!Stores : \A i \in DOMAIN log'[s] :
            (s = dest /\ i = id) \/ (i \in DOMAIN log[s] /\ log'[s][i] = log[s][i])
      <4> TAKE s \in Store!Stores
      <4> TAKE i \in DOMAIN log'[s]
      <4>1. i \in DOMAIN log[s]
        BY <2>2
      <4> QED
        BY <2>2, <4>1
    <3>3. written \subseteq written' /\ Store!LogsAreGenuine
      BY <1>4 DEF StoreInv
    <3>4. \/ rev = <<>>
          \/ \E past \in written' :
               /\ Store!IsPrefix(past, rev)
               /\ \A i \in Len(past) + 1..Len(rev) : rev[i] = Store!Label
      BY <3>1, <3>3, StaysGenuine
    <3> QED
      BY <2>2, <3>2, <3>3, <3>4, GenuineKept
  <2>8. WorkerSound(w)'
    <3>1. log'[from][id] = rev
      BY <1>3, <2>2
    <3>2. Store!IsPrefix(rev, rev)
      BY <1>3, PrefixReflexive
    <3> QED
      BY <1>3, <1>4, <1>8, <2>1, <2>2, <3>1, <3>2 DEF WorkerSound, Holds, Holding, Reading,
             Carries
  <2> QED
    BY <2>1, <2>3, <2>4, <2>5, <2>6, <2>7, <2>8, Assembled
<1>9. CASE id \in DOMAIN log[dest] /\ ~Store!Owned(dest, id)
  <2>1. PICK c : c = Store!Compared(rev, log[dest][id])
    OBVIOUS
  <2>2. /\ c \in {"equal", "source-ahead", "target-ahead", "diverged"}
        /\ c = "source-ahead" => Store!IsPrefix(log[dest][id], rev)
        /\ c \in {"equal", "target-ahead"} => Store!IsPrefix(rev, log[dest][id])
    <3>1. log[dest][id] \in Seq(Events)
      BY <1>3, <1>9 DEF StoreInv, StoreTypes
    <3> QED
      BY <1>3, <2>1, <3>1, ComparedSays
  <2>3. /\ Store!To(w, IF c = "diverged" THEN "fork" ELSE "mark")
        /\ log' = IF c = "source-ahead" THEN [log EXCEPT ![dest][id] = rev] ELSE log
    BY <1>1, <1>9, <2>1, Zenon DEF Store!Advances
  <2>4. CASE c = "diverged"
    BY <1>6, <2>3, <2>4
  <2>5. CASE c = "source-ahead"
    BY <1>8, <1>9, <2>2, <2>3, <2>5
  <2>6. CASE c \in {"equal", "target-ahead"}
    BY <1>7, <1>9, <2>2, <2>3, <2>6
  <2> QED
    BY <2>2, <2>4, <2>5, <2>6
<1>10. CASE id \notin DOMAIN log[dest] \/ Store!Owned(dest, id)
  BY <1>1, <1>5, <1>6, <1>10 DEF Store!Advances
<1> QED
  BY <1>9, <1>10

LEMMA CreatesKeeps ==
  ASSUME Store!HistoryAssumption, StoreInv, NEW w \in Runtimes, Store!Creates(w)
  PROVE  StoreInv'
PROOF
<1>1. PICK from, dest, id, rev, target :
        /\ from = run[w].from /\ dest = run[w].dest /\ id = run[w].id
        /\ rev = run[w].rev /\ target = run[w].target
  OBVIOUS
<1>2. run[w].at = "create" /\ run[w].at \in Reading /\ run[w].at \in Holding
  BY DEF Store!Creates, Reading, Holding
<1>3. /\ from \in Store!Stores /\ dest \in Store!Stores /\ from # dest /\ id \in DOMAIN log[from]
      /\ rev \in Seq(Events) /\ (target = id \/ rev # <<>>)
      /\ log[from][id] = rev /\ files[from] = "c1" /\ files[dest] = "c1"
      /\ Holds(w, from, id) /\ WorkerTyped(w)
  BY <1>1, <1>2, WorkerPlaced DEF StoreInv, WorkerSound
<1>4. UNCHANGED <<files, marker, written, deleted>>
  BY DEF Store!Creates
<1>5. CASE Store!To(w, "next") /\ locks' = Store!Without(locks, {<<from, id>>}) /\ UNCHANGED log
  <2>1. /\ DOMAIN run' = Runtimes /\ \A v \in Runtimes \ {w} : run'[v] = run[v]
        /\ WorkerTyped(w)' /\ run'[w].at = "next"
    BY <1>2, <1>5, MovesOn DEF StoreStages
  <2>2. WorkerSound(w)'
    BY <2>1, RestIsSound DEF StoreStages, Holding, Reading
  <2>3. /\ LocksReal' /\ DOMAIN locks' = DOMAIN locks \ {<<from, id>>}
        /\ \A k \in DOMAIN locks' : locks'[k] = locks[k]
    BY <1>5, LocksReleased DEF StoreInv
  <2>4. \A k \in DOMAIN locks : locks[k] # w => k \in DOMAIN locks' /\ locks'[k] = locks[k]
    BY <1>3, <2>3 DEF Holds
  <2> QED
    BY <1>4, <1>5, <2>1, <2>2, <2>3, <2>4, OnlyLocks
<1>6. CASE /\ target \notin DOMAIN log[dest] /\ Store!To(w, "append")
           /\ locks' = Store!With(locks, <<dest, target>>, w)
           /\ log' = [log EXCEPT ![dest] = Store!With(@, target, <<>>)]
  <2>1. /\ DOMAIN run' = Runtimes /\ \A v \in Runtimes \ {w} : run'[v] = run[v]
        /\ WorkerTyped(w)' /\ run'[w].at = "append" /\ run'[w].dest = dest
        /\ run'[w].from = from /\ run'[w].id = id /\ run'[w].rev = rev /\ run'[w].target = target
    BY <1>1, <1>2, <1>6, MovesOn DEF StoreStages
  <2>2. /\ DOMAIN log' = Store!Stores /\ log'[dest][target] = <<>>
        /\ DOMAIN log'[dest] = DOMAIN log[dest] \cup {target}
        /\ \A i \in DOMAIN log[dest] : log'[dest][i] = log[dest][i]
        /\ \A s \in Store!Stores \ {dest} : log'[s] = log[s]
    BY <1>3, <1>6 DEF StoreInv, StoreTypes, Store!With
  <2>3. \A s \in Store!Stores : \A i \in DOMAIN log[s] :
          i \in DOMAIN log'[s] /\ log'[s][i] = log[s][i]
    BY <2>2
  <2>4. \A s \in Store!Stores : \A i \in DOMAIN log'[s] :
          (s = dest /\ i = target) \/ (i \in DOMAIN log[s] /\ log'[s][i] = log[s][i])
    BY <2>2
  <2>5. StoreTypes'
    <3>1. <<>> \in Seq(Events)
      BY EmptySeq
    <3>2. \A s \in Store!Stores : \A i \in DOMAIN log'[s] : log'[s][i] \in Seq(Events)
      BY <2>2, <2>4, <3>1 DEF StoreInv, StoreTypes
    <3> QED
      BY <1>4, <2>1, <2>2, <3>2 DEF StoreInv, StoreTypes, Store!Stores
  <2>6. /\ LocksReal' /\ <<dest, target>> \in DOMAIN locks' /\ locks'[<<dest, target>>] = w
        /\ \A k \in DOMAIN locks : k \in DOMAIN locks' /\ locks'[k] = locks[k]
    <3>1. <<dest, target>> \notin DOMAIN locks
      BY <1>6 DEF StoreInv, LocksReal
    <3>2. target \in DOMAIN log'[dest]
      BY <2>2
    <3>3. \A s \in Store!Stores : DOMAIN log[s] \subseteq DOMAIN log'[s]
      BY <2>3
    <3> QED
      BY <1>3, <1>6, <3>1, <3>2, <3>3, LockTaken DEF StoreInv
  <2>7. FilesFollow'
    BY <1>3, <1>4, <2>2 DEF StoreInv, FilesFollow, Store!Stores
  <2>8. Gentle(w)
    BY <1>4, <2>1, <2>3, <2>6, LogsStay DEF Gentle, StoreInv
  <2>9. JournalSound'
    BY <1>4, <2>5, <2>8, JournalKept DEF StoreInv
  <2>10. Store!LogsAreGenuine'
    BY <1>4, <2>2, <2>4, GenuineKept DEF StoreInv
  <2>11. WorkerSound(w)'
    <3>1. log'[from][id] = rev
      BY <1>3, <2>3
    <3> QED
      BY <1>3, <1>4, <2>1, <2>2, <2>6, <3>1 DEF WorkerSound, Holds, Holding, Reading
  <2> QED
    BY <2>1, <2>5, <2>6, <2>7, <2>8, <2>9, <2>10, <2>11, Assembled
<1>7. \/ Store!To(w, "next") /\ locks' = Store!Without(locks, {<<from, id>>}) /\ UNCHANGED log
      \/ /\ target \notin DOMAIN log[dest] /\ Store!To(w, "append")
         /\ locks' = Store!With(locks, <<dest, target>>, w)
         /\ log' = [log EXCEPT ![dest] = Store!With(@, target, <<>>)]
  BY <1>1, Zenon DEF Store!Creates
<1> QED
  BY <1>5, <1>6, <1>7

LEMMA AppendsKeeps ==
  ASSUME Store!HistoryAssumption, StoreInv, NEW w \in Runtimes, Store!Appends(w)
  PROVE  StoreInv'
PROOF
<1>1. PICK from, dest, id, rev, target :
        /\ from = run[w].from /\ dest = run[w].dest /\ id = run[w].id
        /\ rev = run[w].rev /\ target = run[w].target
  OBVIOUS
<1>2. run[w].at = "append" /\ run[w].at \in Reading /\ run[w].at \in Holding
  BY DEF Store!Appends, Reading, Holding
<1>3. /\ from \in Store!Stores /\ dest \in Store!Stores /\ from # dest /\ id \in DOMAIN log[from]
      /\ rev \in Seq(Events) /\ (target = id \/ rev # <<>>)
      /\ target \in DOMAIN log[dest] /\ log[dest][target] = <<>>
      /\ log[from][id] = rev /\ files[from] = "c1" /\ files[dest] = "c1"
      /\ Holds(w, from, id) /\ Holds(w, dest, target) /\ WorkerTyped(w)
  BY <1>1, <1>2, WorkerPlaced DEF StoreInv, WorkerSound
<1>4. UNCHANGED <<files, marker, written, deleted>>
  BY DEF Store!Appends
<1>5. Store!Genuine(rev) /\ written \subseteq Seq(Events)
  BY <1>3 DEF StoreInv, Store!LogsAreGenuine, StoreTypes
<1>6. PICK l : l = IF target = id THEN rev ELSE Append(rev, Store!Label)
  OBVIOUS
<1>7. l \in Seq(Events) /\ Store!Genuine(l) /\ Store!IsPrefix(rev, l)
  <2>1. CASE target = id
    BY <1>3, <1>5, <1>6, <2>1, PrefixReflexive
  <2>2. CASE target # id
    <3>1. Store!Genuine(Append(rev, Store!Label)) /\ Append(rev, Store!Label) \in Seq(Events)
      BY <1>3, <1>5, <2>2, ForkIsGenuine
    <3>2. Store!IsPrefix(rev, Append(rev, Store!Label))
      BY <1>3, PrefixOfAppend DEF Store!Label, Events
    <3> QED
      BY <1>6, <2>2, <3>1, <3>2
  <2> QED
    BY <2>1, <2>2
<1>8. log' = [log EXCEPT ![dest][target] = l]
  BY <1>1, <1>6, Zenon DEF Store!Appends
<1>9. /\ DOMAIN run' = Runtimes /\ \A v \in Runtimes \ {w} : run'[v] = run[v]
      /\ WorkerTyped(w)' /\ run'[w].at = "mark" /\ run'[w].dest = dest
      /\ run'[w].from = from /\ run'[w].id = id /\ run'[w].rev = rev /\ run'[w].target = target
  <2>1. Store!To(w, "mark")
    BY DEF Store!Appends
  <2> QED
    BY <1>1, <1>2, <2>1, MovesOn DEF StoreStages
<1>10. /\ DOMAIN log' = Store!Stores /\ log'[dest][target] = l
       /\ \A s \in Store!Stores : DOMAIN log'[s] = DOMAIN log[s]
       /\ \A s \in Store!Stores : \A i \in DOMAIN log[s] :
            (s = dest /\ i = target) \/ log'[s][i] = log[s][i]
  BY <1>3, <1>8 DEF StoreInv, StoreTypes
<1>11. StoreTypes'
  <2>1. \A s \in Store!Stores : \A i \in DOMAIN log'[s] : log'[s][i] \in Seq(Events)
    BY <1>7, <1>10 DEF StoreInv, StoreTypes
  <2> QED
    BY <1>4, <1>9, <1>10, <2>1 DEF StoreInv, StoreTypes, Store!Stores
<1>12. /\ LocksReal' /\ DOMAIN locks' = DOMAIN locks \ {<<dest, target>>}
       /\ \A k \in DOMAIN locks' : locks'[k] = locks[k]
  <2>1. locks' = Store!Without(locks, {<<dest, target>>})
    BY <1>1 DEF Store!Appends
  <2> QED
    BY <1>10, <2>1, LocksReleased DEF StoreInv
<1>13. FilesFollow'
  BY <1>4, <1>10 DEF StoreInv, FilesFollow, Store!Stores
<1>14. Gentle(w)
  <2>1. \A s \in Store!Stores : \A i \in DOMAIN log[s] :
          i \in DOMAIN log'[s] /\ Store!IsPrefix(log[s][i], log'[s][i])
    <3>1. Store!IsPrefix(log[dest][target], l)
      BY <1>3, <1>7, PrefixReflexive
    <3> QED
      BY <1>10, <3>1, LogsStay DEF StoreInv
  <2>2. \A s \in Store!Stores : \A i \in DOMAIN log[s] :
          <<s, i>> \in DOMAIN locks /\ locks[<<s, i>>] # w =>
            /\ <<s, i>> \in DOMAIN locks' /\ locks'[<<s, i>>] = locks[<<s, i>>]
            /\ log'[s][i] = log[s][i]
    BY <1>3, <1>10, <1>12 DEF Holds
  <2> QED
    BY <1>4, <1>9, <2>1, <2>2 DEF Gentle
<1>15. JournalSound'
  BY <1>4, <1>11, <1>14, JournalKept DEF StoreInv
<1>16. Store!LogsAreGenuine'
  <2>1. \A s \in Store!Stores : \A i \in DOMAIN log'[s] :
          (s = dest /\ i = target) \/ (i \in DOMAIN log[s] /\ log'[s][i] = log[s][i])
    <3> TAKE s \in Store!Stores
    <3> TAKE i \in DOMAIN log'[s]
    <3>1. i \in DOMAIN log[s]
      BY <1>10
    <3> QED
      BY <1>10, <3>1
  <2>2. written \subseteq written' /\ Store!LogsAreGenuine
    BY <1>4 DEF StoreInv
  <2>3. \/ l = <<>>
        \/ \E past \in written' :
             Store!IsPrefix(past, l) /\ \A i \in Len(past) + 1..Len(l) : l[i] = Store!Label
    BY <1>7, <2>2, StaysGenuine
  <2> QED
    BY <1>10, <2>1, <2>2, <2>3, GenuineKept
<1>17. WorkerSound(w)'
  <2>1. log'[from][id] = rev /\ target \in DOMAIN log'[dest]
    BY <1>3, <1>10
  <2>2. <<from, id>> \in DOMAIN locks' /\ locks'[<<from, id>>] = w
    BY <1>3, <1>12 DEF Holds
  <2> QED
    BY <1>3, <1>4, <1>7, <1>9, <1>10, <2>1, <2>2 DEF WorkerSound, Holds, Holding, Reading, Carries
<1> QED
  BY <1>9, <1>11, <1>12, <1>13, <1>14, <1>15, <1>16, <1>17, Assembled

LEMMA MarksKeeps ==
  ASSUME Store!HistoryAssumption, StoreInv, NEW w \in Runtimes, Store!Marks(w)
  PROVE  StoreInv'
PROOF
<1>1. PICK from, dest, id, rev, target :
        /\ from = run[w].from /\ dest = run[w].dest /\ id = run[w].id
        /\ rev = run[w].rev /\ target = run[w].target
  OBVIOUS
<1>2. run[w].at = "mark" /\ run[w].at \in Reading /\ run[w].at \in Holding
  BY DEF Store!Marks, Reading, Holding
<1>3. /\ from \in Store!Stores /\ dest \in Store!Stores /\ rev \in Seq(Events)
      /\ log[from][id] = rev /\ files[from] = "c1" /\ files[dest] = "c1"
      /\ Holds(w, from, id) /\ Carries(dest, target, rev)
  BY <1>1, <1>2, WorkerPlaced DEF StoreInv, WorkerSound
<1>4. UNCHANGED <<log, files, written, deleted>>
  BY DEF Store!Marks
<1>5. /\ DOMAIN run' = Runtimes /\ \A v \in Runtimes \ {w} : run'[v] = run[v]
      /\ WorkerTyped(w)' /\ run'[w].at = "next"
  <2>1. Store!To(w, "next")
    BY DEF Store!Marks
  <2> QED
    BY <1>2, <2>1, MovesOn DEF StoreStages
<1>6. /\ LocksReal' /\ DOMAIN locks' = DOMAIN locks \ {<<from, id>>}
      /\ \A k \in DOMAIN locks' : locks'[k] = locks[k]
  BY <1>1, <1>4, LocksReleased DEF Store!Marks, StoreInv
<1>7. Gentle(w)
  <2>1. \A k \in DOMAIN locks : locks[k] # w => k \in DOMAIN locks' /\ locks'[k] = locks[k]
    BY <1>3, <1>6 DEF Holds
  <2> QED
    BY <1>4, <1>5, <2>1, LogsStay DEF Gentle, StoreInv
<1>8. StoreTypes' /\ FilesFollow' /\ Store!LogsAreGenuine'
  BY <1>4, <1>5 DEF StoreInv, StoreTypes, FilesFollow, Store!LogsAreGenuine, Store!Genuine
<1>9. JournalSound'
  <2>1. PICK new : new = [revision |-> rev, target |-> target]
    OBVIOUS
  <2>2. PICK key : key = <<from, dest, id>>
    OBVIOUS
  <2>3. marker' = Store!With(marker, key, new)
    BY <1>1, <1>3, <2>1, <2>2 DEF Store!Marks
  <2>4. /\ DOMAIN marker' = DOMAIN marker \cup {key} /\ marker'[key] = new
        /\ \A k \in DOMAIN marker \ {key} : marker'[k] = marker[k]
    BY <2>3 DEF Store!With
  <2>5. ASSUME NEW k \in DOMAIN marker'
        PROVE  /\ k[1] \in Store!Stores /\ k[2] \in Store!Stores
               /\ files[k[1]] = "c1" /\ files[k[2]] = "c1"
               /\ marker'[k].revision \in Seq(Events)
               /\ Carries(k[2], marker'[k].target, marker'[k].revision)
    <3>1. CASE k = key
      BY <1>3, <2>1, <2>2, <2>4, <3>1
    <3>2. CASE k # key
      BY <2>4, <3>2 DEF StoreInv, JournalSound
    <3> QED
      BY <3>1, <3>2
  <2> QED
    BY <1>4, <2>5 DEF JournalSound, Carries, Store!Stores
<1>10. WorkerSound(w)'
  BY <1>5, RestIsSound DEF StoreStages, Holding, Reading
<1> QED
  BY <1>5, <1>6, <1>7, <1>8, <1>9, <1>10, Assembled

-----------------------------------------------------------------------------
LEMMA StoreInit ==
  ASSUME Store!HistoryAssumption, Store!Init
  PROVE  StoreInv
PROOF
<1>1. <<>> \in Seq(Events) /\ <<Store!Event(0)>> \in Seq(Events)
  BY DEF Store!Event, Events
<1>2. PICK first \in Seq(Events) : first = <<Store!Event(0)>>
  BY <1>1
<1>3. PICK one : one = Store!With(<<>>, Store!Session, first)
  OBVIOUS
<1>4. DOMAIN one = {Store!Session} /\ one[Store!Session] = first
  BY <1>3 DEF Store!With
<1>5. Homes[1] \in Store!Stores \ {Shared, Recovery} /\ Shared \in Store!Stores
  BY DEF Store!HistoryAssumption, Store!Stores
<1>6. PICK old, none : old = Homes[1] /\ none = <<>> /\ DOMAIN none = {}
  OBVIOUS
<1>7. PICK inShared \in BOOLEAN :
        log = [st \in Store!Stores |-> IF st = old \/ (st = Shared
        /\ inShared) THEN one ELSE none]
  BY <1>2, <1>3, <1>6, Zenon DEF Store!Init
<1>8. PICK f \in {Store!NoFile, "c2"} :
        files = [st \in Store!Stores |->
                   CASE st = old -> "c1" [] st = Shared -> f [] OTHER -> Store!NoFile]
  BY <1>6 DEF Store!Init
<1>9. /\ DOMAIN locks = {} /\ DOMAIN marker = {} /\ run = [w \in Runtimes |-> Store!Off]
      /\ written = {first}
  BY <1>2 DEF Store!Init
<1>10. \A st \in Store!Stores : \A id \in DOMAIN log[st] :
         (st = old \/ st = Shared) /\ log[st][id] = first
  BY <1>4, <1>6, <1>7
<1>11. StoreTypes
  <2>1. IsFiniteSet(written)
    BY <1>9, FS_Singleton
  <2>2. \A st \in Store!Stores : files[st] \in {Store!NoFile, "c1", "c2"}
    BY <1>8
  <2> QED
    BY <1>2, <1>7, <1>8, <1>9, <1>10, <2>1, <2>2 DEF StoreTypes
<1>12. LocksReal /\ JournalSound
  BY <1>9 DEF LocksReal, JournalSound
<1>13. FilesFollow
  BY <1>5, <1>6, <1>8, <1>10 DEF FilesFollow
<1>14. Store!LogsAreGenuine
  <2>1. Store!IsPrefix(first, first) /\ Len(first) \in Nat
    BY PrefixReflexive
  <2>2. first \in written /\ \A i \in Len(first) + 1..Len(first) : first[i] = Store!Label
    BY <1>9, <2>1
  <2> QED
    BY <1>10, <2>1, <2>2 DEF Store!LogsAreGenuine, Store!Genuine
<1>15. ASSUME NEW w \in Runtimes
       PROVE  WorkerTyped(w) /\ WorkerSound(w)
  <2>1. run[w] = Store!Off
    BY <1>9
  <2> QED
    BY <2>1, OffTyped DEF WorkerTyped, WorkerSound, StoreStages, Holding, Reading
<1> QED
  BY <1>11, <1>12, <1>13, <1>14, <1>15 DEF StoreInv

LEMMA StoreKept ==
  ASSUME Store!HistoryAssumption, StoreInv, Store!Next
  PROVE  StoreInv'
PROOF
<1>1. ASSUME NEW st \in Store!Stores, NEW id \in DOMAIN log[st],
             \/ Store!BackendOpens(st, id) \/ Store!BackendWrites(st, id)
             \/ Store!BackendCloses(st, id) \/ Store!UserDeletes(st, id)
      PROVE  StoreInv'
  BY <1>1, BackendOpensKeeps, BackendWritesKeeps, BackendClosesKeeps, UserDeletesKeeps
<1>2. ASSUME NEW w \in Runtimes,
             \/ Store!Start(w) \/ Store!Fails(w) \/ Store!Killed(w) \/ Store!Lists(w)
                \/ Store!Picks(w)
             \/ Store!Opens(w) \/ Store!Attaches(w) \/ Store!Compares(w) \/ Store!Advances(w)
             \/ Store!Forks(w) \/ Store!Creates(w) \/ Store!Appends(w) \/ Store!Marks(w)
      PROVE  StoreInv'
  BY <1>2, StartKeeps, StoreFailsKeeps, ListsKeeps, PicksKeeps, OpensKeeps, AttachesKeeps,
     StoreComparesKeeps, AdvancesKeeps, ForksKeeps, CreatesKeeps, AppendsKeeps, MarksKeeps
<1> QED
  BY <1>1, <1>2, Zenon DEF Store!Next

LEMMA StoreStutters ==
  ASSUME StoreInv, UNCHANGED Store!vars
  PROVE  StoreInv'
PROOF
  BY DEF StoreInv, StoreTypes, LocksReal, FilesFollow, JournalSound, Store!LogsAreGenuine,
         Store!Genuine, Carries,
     WorkerTyped, WorkerSound, Holds, Store!vars

LEMMA StoreImplies ==
  ASSUME StoreInv
  PROVE  Store!HistoryKept
PROOF
<1>1. Store!JournalIsTrue
  BY DEF StoreInv, JournalSound, Store!JournalIsTrue, Carries
<1> QED
  BY <1>1 DEF StoreInv, Store!HistoryKept

-----------------------------------------------------------------------------
(* The plugins and presets that are installed.                              *)

Owners == {"managed", "external"}
OwnerMaps == UNION {[ps -> Owners] : ps \in SUBSET Presets}
SuiteOps ==
  [at : {"idle", "read", "presets", "state", "rename", "package", "erase", "forget", "seed"},
   todo : SUBSET (Presets \cup Defaults), created : SUBSET Presets, owner : OwnerMaps,
   known : BOOLEAN, added : BOOLEAN]

SuiteTypes ==
  /\ DOMAIN dirs = Presets /\ suiteOp \in [Windows -> SuiteOps] /\ state \in OwnerMaps

(* What counts as managed was made by an installation, or came up while one *)
(* was about to make it.                                                    *)
Ours == made \cup raced
OnlyOurs(owner) == \A p \in DOMAIN owner : owner[p] = "managed" => p \in Ours

(* A preset the operation has not noted is one it is still to make.         *)
Ahead(o) ==
  /\ o.at = "presets" => o.todo \subseteq Presets
  /\ o.at \in {"presets", "state", "rename"} =>
       \A p \in Presets \ DOMAIN o.owner :
         p \in Ours \/ (o.at = "presets" /\ p \in o.todo /\ dirs[p] = "none")

SeedAhead(o) == o.at = "seed" => Defaults \subseteq everIn \cup o.todo

SuiteOpSound(w) ==
  /\ OnlyOurs(suiteOp[w].owner) /\ suiteOp[w].created \subseteq made
  /\ Ahead(suiteOp[w]) /\ SeedAhead(suiteOp[w])

SuiteInv ==
  /\ SuiteTypes /\ OnlyOurs(state) /\ lost = {}
  /\ packages \subseteq everIn /\ (seeded => Defaults \subseteq everIn)
  /\ \A w \in Windows : SuiteOpSound(w)

LEMMA OwnersTyped ==
  ASSUME NEW ps \in SUBSET Presets, NEW f \in [ps -> Owners]
  PROVE  f \in OwnerMaps
PROOF BY DEF OwnerMaps

LEMMA OwnersMap ==
  ASSUME NEW f \in OwnerMaps
  PROVE  DOMAIN f \in SUBSET Presets /\ f \in [DOMAIN f -> Owners]
PROOF BY DEF OwnerMaps

LEMMA NothingOwned == Routing!NoState \in OwnerMaps /\ DOMAIN Routing!NoState = {}
PROOF
<1>1. Routing!NoState \in [{} -> Owners] /\ DOMAIN Routing!NoState = {}
  BY DEF Routing!NoState, Owners
<1> QED
  BY <1>1, OwnersTyped

LEMMA NothingTyped ==
  /\ Routing!Nothing \in SuiteOps /\ Routing!Nothing.at = "idle"
  /\ Routing!Nothing.created = {} /\ Routing!Nothing.owner = Routing!NoState
PROOF BY NothingOwned DEF Routing!Nothing, SuiteOps

LEMMA SuiteOpReplaced ==
  ASSUME SuiteTypes, NEW w \in Windows, NEW o \in SuiteOps, suiteOp' = [suiteOp EXCEPT ![w] = o]
  PROVE  /\ suiteOp' \in [Windows -> SuiteOps]
         /\ suiteOp'[w] = o /\ \A v \in Windows \ {w} : suiteOp'[v] = suiteOp[v]
PROOF BY DEF SuiteTypes

(* A step of one window leaves the operations of the others sound, if what  *)
(* it makes is noted as made and what was ever in stays so.                 *)
Grows ==
  /\ made \subseteq made' /\ raced \subseteq raced' /\ everIn \subseteq everIn'
  /\ DOMAIN dirs' = Presets
  /\ \A v \in Windows : \A p \in Presets :
       suiteOp[v].at = "presets" /\ p \in suiteOp[v].todo /\ dirs[p] = "none"
       => dirs'[p] = "none" \/ p \in Ours'

LEMMA OtherWindows ==
  ASSUME SuiteInv, Grows, NEW v \in Windows, suiteOp'[v] = suiteOp[v]
  PROVE  SuiteOpSound(v)'
PROOF
<1>1. SuiteOpSound(v)
  BY DEF SuiteInv
<1>2. PICK o : o = suiteOp[v] /\ o = suiteOp'[v]
  OBVIOUS
<1>3. OnlyOurs(o.owner)' /\ o.created \subseteq made'
  BY <1>1, <1>2 DEF SuiteOpSound, OnlyOurs, Ours, Grows
<1>4. Ahead(o)'
  BY <1>1, <1>2 DEF SuiteOpSound, Ahead, Ours, Grows
<1>5. SeedAhead(o)'
  BY <1>1, <1>2 DEF SuiteOpSound, SeedAhead, Grows
<1> QED
  BY <1>2, <1>3, <1>4, <1>5 DEF SuiteOpSound

LEMMA SuiteAssembled ==
  ASSUME SuiteInv, Grows, NEW w \in Windows, NEW o \in SuiteOps,
         suiteOp' = [suiteOp EXCEPT ![w] = o], SuiteOpSound(w)',
         state' \in OwnerMaps, OnlyOurs(state)', lost' = {}, packages' \subseteq everIn',
         seeded' => Defaults \subseteq everIn'
  PROVE  SuiteInv'
PROOF
<1>1. /\ suiteOp' \in [Windows -> SuiteOps]
      /\ \A v \in Windows \ {w} : suiteOp'[v] = suiteOp[v]
  BY SuiteOpReplaced DEF SuiteInv
<1>2. SuiteTypes'
  BY <1>1 DEF SuiteTypes, Grows
<1>3. \A v \in Windows : SuiteOpSound(v)'
  BY <1>1, OtherWindows
<1> QED
  BY <1>2, <1>3 DEF SuiteInv

(* An operation that ends has nothing noted.                                *)
LEMMA EndsSound ==
  ASSUME SuiteTypes, NEW w \in Windows, Routing!Ends(w)
  PROVE  SuiteOpSound(w)'
PROOF
<1>1. suiteOp'[w] = Routing!Nothing
  BY NothingTyped, SuiteOpReplaced DEF Routing!Ends
<1> QED
  BY <1>1, NothingTyped, NothingOwned DEF SuiteOpSound, OnlyOurs, Ahead, SeedAhead

(* What an operation removes is ours, so nothing of the user is lost.       *)
LEMMA ErasesOurs ==
  ASSUME SuiteInv, NEW ps, ps \subseteq Ours, Routing!Erases(ps), UNCHANGED <<made, raced,
        everIn>>
  PROVE  lost' = {} /\ Grows
PROOF BY DEF SuiteInv, SuiteTypes, Routing!Erases, Ours, Grows, Routing!Present

LEMMA QuietGrows ==
  ASSUME SuiteInv, UNCHANGED <<dirs, made, raced, everIn>>
  PROVE  Grows
PROOF BY DEF SuiteInv, SuiteTypes, Grows

LEMMA OpTyped ==
  ASSUME SuiteInv, NEW w \in Windows
  PROVE  /\ suiteOp[w] \in SuiteOps /\ SuiteOpSound(w) /\ OnlyOurs(state)
         /\ state \in OwnerMaps /\ suiteOp[w].owner \in OwnerMaps
PROOF BY DEF SuiteInv, SuiteTypes, SuiteOps

(* Where only the operation changes, what it notes is what counts.          *)
LEMMA OnlyNotes ==
  ASSUME SuiteInv, UNCHANGED <<dirs, state, packages, seeded, made, raced, lost, everIn>>,
         NEW w \in Windows, NEW o \in SuiteOps, suiteOp' = [suiteOp EXCEPT ![w] = o],
         OnlyOurs(o.owner), o.created \subseteq made, Ahead(o), SeedAhead(o)
  PROVE  SuiteInv'
PROOF
<1>1. suiteOp'[w] = o
  BY SuiteOpReplaced DEF SuiteInv
<1>2. SuiteOpSound(w)'
  BY <1>1 DEF SuiteOpSound, OnlyOurs, Ahead, SeedAhead, Ours
<1>3. OnlyOurs(state)'
  BY DEF SuiteInv, OnlyOurs, Ours
<1> QED
  BY <1>2, <1>3, QuietGrows, SuiteAssembled DEF SuiteInv, SuiteTypes

LEMMA InstallBeginsKeeps ==
  ASSUME SuiteInv, NEW w \in Windows, Routing!InstallBegins(w)
  PROVE  SuiteInv'
PROOF
<1>0. PICK listed \in BOOLEAN : listed <=> Injector \in packages
  <2>1. CASE Injector \in packages
    BY <2>1
  <2>2. CASE Injector \notin packages
    BY <2>2
  <2> QED
    BY <2>1, <2>2
<1> DEFINE o == [suiteOp[w] EXCEPT !.at = "read", !.known = listed]
<1>1. o \in SuiteOps /\ suiteOp' = [suiteOp EXCEPT ![w] = o]
  <2>1. suiteOp' = [suiteOp EXCEPT ![w].at = "read", ![w].known = listed]
    BY <1>0, Zenon DEF Routing!InstallBegins
  <2> QED
    BY <2>1, OpTyped DEF SuiteOps
<1>2. OnlyOurs(o.owner) /\ o.created \subseteq made /\ Ahead(o) /\ SeedAhead(o)
  BY OpTyped DEF SuiteOpSound, Ahead, SeedAhead, SuiteOps
<1> HIDE DEF o
<1> QED
  BY <1>1, <1>2, OnlyNotes DEF Routing!InstallBegins

LEMMA ChecksConflictsKeeps ==
  ASSUME SuiteInv, NEW w \in Windows, Routing!ChecksConflicts(w)
  PROVE  SuiteInv'
PROOF
<1>1. CASE Routing!Ends(w)
  BY <1>1, NothingTyped, NothingOwned, OnlyNotes
     DEF Routing!ChecksConflicts, Routing!Ends, OnlyOurs, Ahead, SeedAhead
<1>2. CASE ~Routing!Ends(w)
  <2> DEFINE owner == Routing!Ownership(state)
  <2>1. owner \in OwnerMaps /\ OnlyOurs(owner)
        /\ \A p \in Presets \ DOMAIN owner : dirs[p] = "none"
    <3>1. DOMAIN state \in SUBSET Presets /\ state \in [DOMAIN state -> Owners] /\ OnlyOurs(state)
      BY OpTyped, OwnersMap
    <3>2. /\ DOMAIN owner \in SUBSET Presets /\ owner \in [DOMAIN owner -> Owners]
          /\ \A p \in DOMAIN owner : owner[p] = "managed" => p \in DOMAIN state
             /\ state[p] = "managed"
          /\ \A p \in Presets \ DOMAIN owner : dirs[p] = "none"
      BY <3>1 DEF Routing!Ownership, Owners, Routing!Present
    <3> HIDE DEF owner
    <3> QED
      BY <3>1, <3>2, OwnersTyped DEF OnlyOurs
  <2> HIDE DEF owner
  <2> DEFINE o == [suiteOp[w] EXCEPT !.at = "presets", !.todo = Presets, !.owner = owner]
  <2>2. o \in SuiteOps /\ suiteOp' = [suiteOp EXCEPT ![w] = o]
    BY <1>2, <2>1, OpTyped DEF Routing!ChecksConflicts, SuiteOps, owner
  <2>3. OnlyOurs(o.owner) /\ o.created \subseteq made /\ Ahead(o) /\ SeedAhead(o)
    BY <2>1, OpTyped DEF SuiteOpSound, Ahead, SeedAhead, SuiteOps
  <2> HIDE DEF o
  <2> QED
    BY <2>2, <2>3, OnlyNotes DEF Routing!ChecksConflicts
<1> QED
  BY <1>1, <1>2

LEMMA WritesPresetKeeps ==
  ASSUME SuiteInv, NEW w \in Windows, Routing!WritesPreset(w)
  PROVE  SuiteInv'
PROOF
<1>1. PICK p \in suiteOp[w].todo :
        IF Routing!Present(p)
        THEN suiteOp' = [suiteOp EXCEPT ![w].todo = @ \ {p}] /\ UNCHANGED <<dirs, made>>
        ELSE /\ dirs' = [dirs EXCEPT ![p] = "exact"] /\ made' = made \cup {p}
             /\ suiteOp' = [suiteOp EXCEPT ![w].todo = @ \ {p}, ![w].created = @ \cup {p},
                  ![w].owner = [q \in DOMAIN @ \cup {p} |-> IF q = p THEN "managed" ELSE @[q]]]
  BY DEF Routing!WritesPreset
<1>2. /\ suiteOp[w].at = "presets" /\ UNCHANGED <<state, packages, seeded, raced, lost, everIn>>
  BY DEF Routing!WritesPreset
<1>3. CASE Routing!Present(p)
  <2> DEFINE o == [suiteOp[w] EXCEPT !.todo = @ \ {p}]
  <2>1. o \in SuiteOps /\ suiteOp' = [suiteOp EXCEPT ![w] = o]
    BY <1>1, <1>3, OpTyped DEF SuiteOps
  <2>2. OnlyOurs(o.owner) /\ o.created \subseteq made /\ Ahead(o) /\ SeedAhead(o)
    BY <1>2, <1>3, OpTyped DEF SuiteOpSound, Ahead, SeedAhead, SuiteOps, Routing!Present
  <2> HIDE DEF o
  <2> QED
    BY <1>1, <1>2, <1>3, <2>1, <2>2, OnlyNotes
<1>4. CASE ~Routing!Present(p)
  <2>0. PICK owner : owner = [q \in DOMAIN suiteOp[w].owner \cup {p} |->
                                IF q = p THEN "managed" ELSE suiteOp[w].owner[q]]
    OBVIOUS
  <2>10. PICK o : o = [suiteOp[w] EXCEPT !.todo = @ \ {p}, !.created = @ \cup {p},
                                         !.owner = owner]
    OBVIOUS
  <2>1. p \in Presets
    BY <1>2, OpTyped DEF SuiteOpSound, Ahead
  <2>2. /\ owner \in OwnerMaps /\ DOMAIN owner = DOMAIN suiteOp[w].owner \cup {p}
        /\ \A q \in DOMAIN owner : q # p => owner[q] = suiteOp[w].owner[q]
    <3>1. DOMAIN suiteOp[w].owner \in SUBSET Presets
          /\ suiteOp[w].owner \in [DOMAIN suiteOp[w].owner -> Owners]
      BY OpTyped, OwnersMap
    <3>2. /\ DOMAIN owner = DOMAIN suiteOp[w].owner \cup {p} /\ owner \in [DOMAIN owner -> Owners]
          /\ \A q \in DOMAIN owner : q # p => owner[q] = suiteOp[w].owner[q]
      BY <2>0, <3>1 DEF Owners
    <3> QED
      BY <2>1, <3>1, <3>2, OwnersTyped
  <2>3. o \in SuiteOps
    BY <2>1, <2>2, <2>10, OpTyped DEF SuiteOps
  <2>4. suiteOp' = [suiteOp EXCEPT ![w] = o]
    BY <1>1, <1>4, <2>0, <2>10
  <2>5. /\ o.owner = owner /\ o.created = suiteOp[w].created \cup {p}
        /\ o.at = "presets" /\ o.todo = suiteOp[w].todo \ {p}
    BY <1>2, <2>10, OpTyped DEF SuiteOps
  <2>6. /\ dirs' = [dirs EXCEPT ![p] = "exact"] /\ made' = made \cup {p}
    BY <1>1, <1>4
  <2>7. Grows /\ Ours' = Ours \cup {p}
    BY <1>2, <2>1, <2>6 DEF Grows, Ours, SuiteInv, SuiteTypes
  <2>8. SuiteOpSound(w)'
    <3>1. suiteOp'[w] = o
      BY <2>3, <2>4, SuiteOpReplaced DEF SuiteInv
    <3>2. OnlyOurs(owner)'
      BY <2>2, <2>7, OpTyped DEF SuiteOpSound, OnlyOurs
    <3>3. Ahead(o)'
      BY <1>2, <2>1, <2>2, <2>5, <2>6, <2>7, OpTyped DEF SuiteOpSound, Ahead, SuiteInv, SuiteTypes
    <3> QED
      BY <2>5, <2>6, <3>1, <3>2, <3>3, OpTyped DEF SuiteOpSound, SeedAhead
  <2>9. OnlyOurs(state)'
    BY <1>2, <2>7, OpTyped DEF OnlyOurs
  <2> QED
    BY <1>2, <2>3, <2>4, <2>7, <2>8, <2>9, SuiteAssembled DEF SuiteInv, SuiteTypes
<1> QED
  BY <1>3, <1>4

(* The operation goes on, or ends, and nothing on disk is ours that was     *)
(* not: what changes is the state file, the packages, the marker.           *)
LEMMA SuiteGoesOn ==
  ASSUME SuiteInv, UNCHANGED <<dirs, made, raced, lost>>, everIn \subseteq everIn',
         NEW w \in Windows, NEW o \in SuiteOps, suiteOp' = [suiteOp EXCEPT ![w] = o],
         OnlyOurs(o.owner), o.created \subseteq made, Ahead(o), SeedAhead(o)',
         state' \in OwnerMaps, OnlyOurs(state)', packages' \subseteq everIn',
         seeded' => Defaults \subseteq everIn'
  PROVE  SuiteInv'
PROOF
<1>1. suiteOp'[w] = o
  BY SuiteOpReplaced DEF SuiteInv
<1>2. SuiteOpSound(w)'
  BY <1>1 DEF SuiteOpSound, OnlyOurs, Ahead, Ours
<1>3. Grows
  BY DEF SuiteInv, SuiteTypes, Grows
<1> QED
  BY <1>2, <1>3, SuiteAssembled DEF SuiteInv

LEMMA SuiteEndsOn ==
  ASSUME SuiteInv, UNCHANGED <<dirs, made, raced, lost>>, everIn \subseteq everIn',
         NEW w \in Windows, Routing!Ends(w),
         state' \in OwnerMaps, OnlyOurs(state)', packages' \subseteq everIn',
         seeded' => Defaults \subseteq everIn'
  PROVE  SuiteInv'
PROOF
<1>1. PICK o \in SuiteOps : o = Routing!Nothing /\ suiteOp' = [suiteOp EXCEPT ![w] = o]
  BY NothingTyped DEF Routing!Ends
<1>2. OnlyOurs(o.owner) /\ o.created \subseteq made /\ Ahead(o) /\ SeedAhead(o)'
  BY <1>1, NothingTyped, NothingOwned DEF OnlyOurs, Ahead, SeedAhead
<1> QED
  BY <1>1, <1>2, SuiteGoesOn

LEMMA NoStateSound ==
  ASSUME state' = Routing!NoState
  PROVE  state' \in OwnerMaps /\ OnlyOurs(state)'
PROOF BY NothingOwned DEF OnlyOurs

LEMMA StateStays ==
  ASSUME SuiteInv, UNCHANGED <<state, made, raced>>
  PROVE  state' \in OwnerMaps /\ OnlyOurs(state)'
PROOF BY DEF SuiteInv, SuiteTypes, OnlyOurs, Ours

LEMMA AddsPackageKeeps ==
  ASSUME SuiteInv, NEW w \in Windows, Routing!AddsPackage(w)
  PROVE  SuiteInv'
PROOF
<1>1. PICK added \in BOOLEAN : added <=> ~suiteOp[w].known
  BY OpTyped DEF SuiteOps
<1>2. PICK o : o = [suiteOp[w] EXCEPT !.at = "state", !.added = added]
  OBVIOUS
<1>3. o \in SuiteOps
  BY <1>2, OpTyped DEF SuiteOps
<1>4. suiteOp' = [suiteOp EXCEPT ![w] = o]
  <2>1. added = ~suiteOp[w].known
    BY <1>1, OpTyped DEF SuiteOps
  <2>2. suiteOp' = [suiteOp EXCEPT ![w].at = "state", ![w].added = added]
    BY <2>1, Zenon DEF Routing!AddsPackage
  <2> QED
    BY <1>2, <2>2
<1>5. OnlyOurs(o.owner) /\ o.created \subseteq made /\ Ahead(o) /\ SeedAhead(o)'
  BY <1>2, OpTyped DEF Routing!AddsPackage, SuiteOpSound, Ahead, SeedAhead, SuiteOps
<1>6. everIn \subseteq everIn' /\ packages' \subseteq everIn' /\ (seeded'
      => Defaults \subseteq everIn')
  BY DEF Routing!AddsPackage, Routing!Adds, SuiteInv
<1> QED
  BY <1>3, <1>4, <1>5, <1>6, SuiteGoesOn, StateStays DEF Routing!AddsPackage

LEMMA DropsStateKeeps ==
  ASSUME SuiteInv, NEW w \in Windows, Routing!DropsState(w)
  PROVE  SuiteInv'
PROOF
<1>1. PICK o : o = [suiteOp[w] EXCEPT !.at = "rename"]
  OBVIOUS
<1>2. o \in SuiteOps /\ suiteOp' = [suiteOp EXCEPT ![w] = o]
  BY <1>1, OpTyped DEF Routing!DropsState, Routing!Goes, SuiteOps
<1>3. OnlyOurs(o.owner) /\ o.created \subseteq made /\ Ahead(o) /\ SeedAhead(o)'
  BY <1>1, OpTyped DEF Routing!DropsState, SuiteOpSound, Ahead, SeedAhead, SuiteOps
<1>4. everIn \subseteq everIn' /\ packages' \subseteq everIn' /\ (seeded'
      => Defaults \subseteq everIn')
  BY DEF Routing!DropsState, SuiteInv
<1> QED
  BY <1>2, <1>3, <1>4, SuiteGoesOn, NoStateSound DEF Routing!DropsState

LEMMA RenamesStateKeeps ==
  ASSUME SuiteInv, NEW w \in Windows, Routing!RenamesState(w)
  PROVE  SuiteInv'
PROOF
<1>1. PICK owner : owner = suiteOp[w].owner
  OBVIOUS
<1>2. /\ owner \in [DOMAIN owner -> Owners] /\ OnlyOurs(owner)
      /\ \A p \in Presets \ DOMAIN owner : p \in Ours
  BY <1>1, OpTyped, OwnersMap DEF Routing!RenamesState, SuiteOpSound, Ahead
<1>3. state' = [p \in Presets |-> IF p \in DOMAIN owner THEN owner[p] ELSE "managed"]
  BY <1>1 DEF Routing!RenamesState
<1>4. state' \in OwnerMaps
  <2>1. PICK s : s = [p \in Presets |-> IF p \in DOMAIN owner THEN owner[p] ELSE "managed"]
    OBVIOUS
  <2>2. s \in [Presets -> Owners]
    BY <1>2, <2>1 DEF Owners
  <2> QED
    BY <1>3, <2>1, <2>2, OwnersTyped
<1>5. Ours' = Ours
  BY DEF Routing!RenamesState, Ours
<1>6. OnlyOurs(state)'
  BY <1>2, <1>3, <1>5 DEF OnlyOurs
<1>7. everIn \subseteq everIn' /\ packages' \subseteq everIn' /\ (seeded'
      => Defaults \subseteq everIn')
  BY DEF Routing!RenamesState, SuiteInv
<1> QED
  BY <1>4, <1>6, <1>7, SuiteEndsOn DEF Routing!RenamesState

LEMMA RollsBackKeeps ==
  ASSUME SuiteInv, NEW w \in Windows, Routing!RollsBack(w)
  PROVE  SuiteInv'
PROOF
<1>1. PICK ps \in {suiteOp[w].created, {}} : Routing!Erases(ps)
  BY DEF Routing!RollsBack
<1>2. Routing!Ends(w) /\ UNCHANGED <<state, seeded, made, raced, everIn>>
      /\ packages' \subseteq packages
  BY DEF Routing!RollsBack
<1>3. lost' = {} /\ Grows
  BY <1>1, <1>2, OpTyped, ErasesOurs DEF SuiteOpSound, Ours
<1>4. SuiteOpSound(w)'
  BY <1>2, EndsSound DEF SuiteInv
<1>5. PICK o \in SuiteOps : suiteOp' = [suiteOp EXCEPT ![w] = o]
  BY <1>2, NothingTyped DEF Routing!Ends
<1> QED
  BY <1>2, <1>3, <1>4, <1>5, SuiteAssembled, StateStays DEF SuiteInv

LEMMA RemoveBeginsKeeps ==
  ASSUME SuiteInv, NEW w \in Windows, Routing!RemoveBegins(w)
  PROVE  SuiteInv'
PROOF
<1>1. PICK o : o = [suiteOp[w] EXCEPT !.at = "package", !.owner = state]
  OBVIOUS
<1>2. o \in SuiteOps /\ suiteOp' = [suiteOp EXCEPT ![w] = o]
  BY <1>1, OpTyped DEF Routing!RemoveBegins, SuiteOps
<1>3. OnlyOurs(o.owner) /\ o.created \subseteq made /\ Ahead(o) /\ SeedAhead(o)
  BY <1>1, OpTyped DEF SuiteOpSound, Ahead, SeedAhead, SuiteOps
<1> QED
  BY <1>2, <1>3, OnlyNotes DEF Routing!RemoveBegins

LEMMA RemovesPackageKeeps ==
  ASSUME SuiteInv, NEW w \in Windows, Routing!RemovesPackage(w)
  PROVE  SuiteInv'
PROOF
<1>1. UNCHANGED <<dirs, state, seeded, made, raced, lost, everIn>> /\ packages' \subseteq packages
  BY DEF Routing!RemovesPackage
<1>2. everIn \subseteq everIn' /\ packages' \subseteq everIn' /\ (seeded'
      => Defaults \subseteq everIn')
  BY <1>1 DEF SuiteInv
<1>3. CASE Routing!Ends(w)
  BY <1>1, <1>2, <1>3, SuiteEndsOn, StateStays
<1>4. CASE Routing!Goes(w, "erase")
  <2>1. PICK o : o = [suiteOp[w] EXCEPT !.at = "erase"]
    OBVIOUS
  <2>2. o \in SuiteOps /\ suiteOp' = [suiteOp EXCEPT ![w] = o]
    BY <1>4, <2>1, OpTyped DEF Routing!Goes, SuiteOps
  <2>3. OnlyOurs(o.owner) /\ o.created \subseteq made /\ Ahead(o) /\ SeedAhead(o)'
    BY <2>1, OpTyped DEF SuiteOpSound, Ahead, SeedAhead, SuiteOps
  <2> QED
    BY <1>1, <1>2, <2>2, <2>3, SuiteGoesOn, StateStays
<1> QED
  BY <1>3, <1>4 DEF Routing!RemovesPackage

(* What the state file counts as managed is ours: the removal erases no     *)
(* preset of the user.                                                      *)
LEMMA RemovesPresetsKeeps ==
  ASSUME SuiteInv, NEW w \in Windows, Routing!RemovesPresets(w)
  PROVE  SuiteInv'
PROOF
<1>1. PICK o : o = [suiteOp[w] EXCEPT !.at = "forget"]
  OBVIOUS
<1>2. o \in SuiteOps /\ suiteOp' = [suiteOp EXCEPT ![w] = o]
  BY <1>1, OpTyped DEF Routing!RemovesPresets, Routing!Goes, SuiteOps
<1>3. UNCHANGED <<state, packages, seeded, made, raced, everIn>>
  BY DEF Routing!RemovesPresets
<1>4. PICK ps :
           /\ ps = {p \in Presets \cap DOMAIN suiteOp[w].owner : suiteOp[w].owner[p] = "managed"}
                /\ Routing!Erases(ps)
  BY DEF Routing!RemovesPresets
<1>5. ps \subseteq Ours
  BY <1>4, OpTyped DEF SuiteOpSound, OnlyOurs
<1>6. lost' = {} /\ Grows
  BY <1>3, <1>4, <1>5, ErasesOurs
<1>7. SuiteOpSound(w)'
  <2>1. suiteOp'[w] = o
    BY <1>2, SuiteOpReplaced DEF SuiteInv
  <2> QED
    BY <1>1, <1>3, <2>1, OpTyped DEF SuiteOpSound, OnlyOurs, Ahead, SeedAhead, SuiteOps, Ours
<1> QED
  BY <1>2, <1>3, <1>6, <1>7, SuiteAssembled, StateStays DEF SuiteInv

LEMMA ForgetsStateKeeps ==
  ASSUME SuiteInv, NEW w \in Windows, Routing!ForgetsState(w)
  PROVE  SuiteInv'
PROOF
<1>1. everIn \subseteq everIn' /\ packages' \subseteq everIn' /\ (seeded'
      => Defaults \subseteq everIn')
  BY DEF Routing!ForgetsState, SuiteInv
<1> QED
  BY <1>1, SuiteEndsOn, NoStateSound DEF Routing!ForgetsState

LEMMA SeedBeginsKeeps ==
  ASSUME SuiteInv, NEW w \in Windows, Routing!SeedBegins(w)
  PROVE  SuiteInv'
PROOF
<1>1. PICK o : o = [suiteOp[w] EXCEPT !.at = "seed", !.todo = Defaults \ packages]
  OBVIOUS
<1>2. o \in SuiteOps /\ suiteOp' = [suiteOp EXCEPT ![w] = o]
  BY <1>1, OpTyped DEF Routing!SeedBegins, SuiteOps
<1>3. OnlyOurs(o.owner) /\ o.created \subseteq made /\ Ahead(o) /\ SeedAhead(o)
  BY <1>1, OpTyped DEF SuiteOpSound, Ahead, SeedAhead, SuiteOps, SuiteInv
<1> QED
  BY <1>2, <1>3, OnlyNotes DEF Routing!SeedBegins

LEMMA SeedInstallsKeeps ==
  ASSUME SuiteInv, NEW w \in Windows, Routing!SeedInstalls(w)
  PROVE  SuiteInv'
PROOF
<1>1. PICK p \in suiteOp[w].todo :
        Routing!Adds({p}) /\ suiteOp' = [suiteOp EXCEPT ![w].todo = @ \ {p}]
  BY DEF Routing!SeedInstalls
<1>2. PICK o : o = [suiteOp[w] EXCEPT !.todo = @ \ {p}]
  OBVIOUS
<1>3. o \in SuiteOps /\ suiteOp' = [suiteOp EXCEPT ![w] = o]
  BY <1>1, <1>2, OpTyped DEF SuiteOps
<1>4. OnlyOurs(o.owner) /\ o.created \subseteq made /\ Ahead(o) /\ SeedAhead(o)'
  BY <1>1, <1>2, OpTyped DEF Routing!SeedInstalls, Routing!Adds, SuiteOpSound, Ahead, SeedAhead,
     SuiteOps
<1>5. everIn \subseteq everIn' /\ packages' \subseteq everIn' /\ (seeded'
      => Defaults \subseteq everIn')
  BY <1>1 DEF Routing!SeedInstalls, Routing!Adds, SuiteInv
<1> QED
  BY <1>3, <1>4, <1>5, SuiteGoesOn, StateStays DEF Routing!SeedInstalls

LEMMA SeedEndsKeeps ==
  ASSUME SuiteInv, NEW w \in Windows, Routing!SeedEnds(w)
  PROVE  SuiteInv'
PROOF
<1>1. everIn \subseteq everIn' /\ packages' \subseteq everIn' /\ Defaults \subseteq everIn'
  BY OpTyped DEF Routing!SeedEnds, SuiteOpSound, SeedAhead, SuiteInv
<1> QED
  BY <1>1, SuiteEndsOn, StateStays DEF Routing!SeedEnds

LEMMA SuiteStopsKeeps ==
  ASSUME SuiteInv, NEW w \in Windows, Routing!Stops(w)
  PROVE  SuiteInv'
PROOF
<1>1. everIn \subseteq everIn' /\ packages' \subseteq everIn' /\ (seeded'
      => Defaults \subseteq everIn')
  BY DEF Routing!Stops, SuiteInv
<1> QED
  BY <1>1, SuiteEndsOn, StateStays DEF Routing!Stops

(* Steps of users leave the operations as they are.                         *)
LEMMA SuiteWorldKeeps ==
  ASSUME SuiteInv, Grows, UNCHANGED <<state, seeded, suiteOp, lost>>, packages' \subseteq everIn'
  PROVE  SuiteInv'
PROOF
<1>1. \A w \in Windows : SuiteOpSound(w)'
  BY OtherWindows
<1>2. OnlyOurs(state)'
  BY DEF SuiteInv, OnlyOurs, Ours, Grows
<1> QED
  BY <1>1, <1>2 DEF SuiteInv, SuiteTypes, Grows

LEMMA UserChangesKeeps ==
  ASSUME SuiteInv, NEW w \in Windows, NEW p, Routing!UserRemoves(w, p)
         \/ Routing!UserInstalls(w, p)
  PROVE  SuiteInv'
PROOF
<1>1. Grows
  BY DEF Routing!UserRemoves, Routing!UserInstalls, Routing!Adds, Grows, SuiteInv, SuiteTypes
<1>2. packages' \subseteq everIn' /\ UNCHANGED <<state, seeded, suiteOp, lost>>
  BY DEF Routing!UserRemoves, Routing!UserInstalls, Routing!Adds, SuiteInv
<1> QED
  BY <1>1, <1>2, SuiteWorldKeeps

LEMMA UserEditsKeeps ==
  ASSUME SuiteInv, NEW p \in Presets, NEW content, Routing!UserEdits(p, content)
  PROVE  SuiteInv'
PROOF
<1>1. Grows
  BY DEF Routing!UserEdits, Grows, Ours, SuiteInv, SuiteTypes
<1> QED
  BY <1>1, SuiteWorldKeeps DEF Routing!UserEdits, SuiteInv

LEMMA SuiteInit ==
  ASSUME Routing!Init
  PROVE  SuiteInv
PROOF
<1>1. \A w \in Windows : suiteOp[w] = Routing!Nothing
  BY DEF Routing!Init
<1>2. SuiteTypes /\ OnlyOurs(state)
  BY NothingTyped, NothingOwned DEF Routing!Init, SuiteTypes, OnlyOurs
<1>3. \A w \in Windows : SuiteOpSound(w)
  BY <1>1, NothingTyped, NothingOwned DEF SuiteOpSound, OnlyOurs, Ahead, SeedAhead
<1> QED
  BY <1>2, <1>3 DEF Routing!Init, SuiteInv

LEMMA SuiteKeptByStep ==
  ASSUME SuiteInv, [Routing!Next]_(Routing!vars)
  PROVE  SuiteInv'
PROOF
<1>1. ASSUME NEW w \in Windows,
             \/ Routing!InstallBegins(w) \/ Routing!ChecksConflicts(w) \/ Routing!WritesPreset(w)
             \/ Routing!AddsPackage(w) \/ Routing!DropsState(w) \/ Routing!RenamesState(w)
             \/ Routing!RollsBack(w) \/ Routing!RemoveBegins(w) \/ Routing!RemovesPackage(w)
             \/ Routing!RemovesPresets(w) \/ Routing!ForgetsState(w)
      PROVE  SuiteInv'
  BY <1>1, InstallBeginsKeeps, ChecksConflictsKeeps, WritesPresetKeeps, AddsPackageKeeps,
     DropsStateKeeps, RenamesStateKeeps, RollsBackKeeps, RemoveBeginsKeeps, RemovesPackageKeeps,
     RemovesPresetsKeeps, ForgetsStateKeeps
<1>2. ASSUME NEW w \in Windows,
             \/ Routing!SeedBegins(w) \/ Routing!SeedInstalls(w) \/ Routing!SeedEnds(w)
             \/ Routing!Stops(w)
             \/ \E p \in Defaults \cup {Injector} : Routing!UserRemoves(w, p)
             \/ \E p \in Defaults : Routing!UserInstalls(w, p)
      PROVE  SuiteInv'
  BY <1>2, SeedBeginsKeeps, SeedInstallsKeeps, SeedEndsKeeps, SuiteStopsKeeps, UserChangesKeeps
<1>3. ASSUME NEW p \in Presets, NEW content, Routing!UserEdits(p, content)
      PROVE  SuiteInv'
  BY <1>3, UserEditsKeeps
<1>4. CASE UNCHANGED Routing!vars
  BY <1>4 DEF Routing!vars, SuiteInv, SuiteTypes, SuiteOpSound, OnlyOurs, Ours, Ahead, SeedAhead
<1> QED
  BY <1>1, <1>2, <1>3, <1>4, Zenon DEF Routing!Next

-----------------------------------------------------------------------------
(* The files of an import.                                                  *)

ImportTypes ==
  /\ DOMAIN importOp = {"at", "targets", "items", "dirs", "files"}
  /\ importOp.targets \in Seq(Archives \cup {Import!Loose})
  /\ \A d \in tempDirs : DOMAIN d = {"id", "files"}

(* A file of a temporary directory.                                         *)
OnDisk(dir, name) == \E d \in tempDirs : d.id = dir /\ name \in d.files

(* Every file the runtime will be sent to is there while the import runs.   *)
ItemsThere == \A i \in importOp.items : i.dir = 0 \/ OnDisk(i.dir, i.name)

(* Of the archive being unpacked every file that will be listed is written, *)
(* or is still to be.                                                       *)
Unpacking ==
  importOp.at = "write" =>
    /\ importOp.targets # <<>> /\ \E d \in tempDirs : d.id = directories
    /\ \A n \in Import!Wanted(Head(importOp.targets)) :
         \/ OnDisk(directories, n)
         \/ \E i \in importOp.files : Head(importOp.targets)[i].name = n

ImportInv ==
  /\ ImportTypes /\ ItemsThere /\ Unpacking
  /\ importOp.at \in {"idle", "prepare"} => importOp.dirs = {} /\ importOp.items = {}
  /\ Import!ItemsExist /\ Import!TempDirsGone

LEMMA ImportTargets ==
  ASSUME NEW targets \in Import!SeqOf(Archives \cup {Import!Loose}, 2)
  PROVE  targets \in Seq(Archives \cup {Import!Loose})
PROOF
<1>1. PICK n \in 0..2 : targets \in [1..n -> Archives \cup {Import!Loose}]
  BY DEF Import!SeqOf
<1> QED
  BY <1>1

(* Only names that are in the archive are wanted.                           *)
LEMMA WantedKept ==
  ASSUME NEW archive, NEW n \in Import!Wanted(archive)
  PROVE  \E i \in Import!Kept(archive) : archive[i].name = n
PROOF
<1>1. n \in Import!NamesOf(archive)
  <2>1. CASE Import!Kind(archive) = "dsh"
    BY <2>1 DEF Import!Wanted
  <2>2. CASE Import!Kind(archive) = "chatgpt"
    BY <2>2 DEF Import!Wanted, Import!Conversations, Import!Earliest, Import!NamesOf
  <2> QED
    BY <2>1, <2>2 DEF Import!Wanted, Import!Kind
<1> QED
  BY <1>1 DEF Import!NamesOf, Import!Kept

LEMMA BeginsKeeps ==
  ASSUME ImportInv, Import!Begins
  PROVE  ImportInv'
PROOF
<1>1. PICK targets \in Import!SeqOf(Archives \cup {Import!Loose}, 2) :
        importOp' = [Import!NoOp EXCEPT !.at = "prepare", !.targets = targets]
  BY DEF Import!Begins
<1>2. /\ DOMAIN importOp' = {"at", "targets", "items", "dirs", "files"}
      /\ importOp'.at = "prepare" /\ importOp'.targets = targets /\ importOp'.items = {}
      /\ importOp'.dirs = {} /\ importOp.dirs = {}
  BY <1>1 DEF Import!Begins, Import!NoOp
<1> QED
  BY <1>2, ImportTargets DEF Import!Begins, ImportInv, ImportTypes, ItemsThere, OnDisk, Unpacking,
     Import!ItemsExist, Import!TempDirsGone

(* A step that ends or gives up leaves files and directories as they are.   *)
LEMMA ImportRests ==
  ASSUME ImportInv, UNCHANGED <<tempDirs, asked, directories>>, left \subseteq left',
         \/ importOp' = Import!NoOp /\ (importOp.dirs = {} \/ importOp.dirs \subseteq left')
         \/ importOp' = [importOp EXCEPT !.at = "clean"]
         \/ importOp' = [importOp EXCEPT !.at = "targets"]
  PROVE  ImportInv'
PROOF
<1>1. CASE importOp' = Import!NoOp /\ (importOp.dirs = {} \/ importOp.dirs \subseteq left')
  BY <1>1 DEF ImportInv, ImportTypes, ItemsThere, Unpacking, Import!NoOp, Import!ItemsExist,
     Import!TempDirsGone
<1>2. CASE \/ importOp' = [importOp EXCEPT !.at = "clean"]
           \/ importOp' = [importOp EXCEPT !.at = "targets"]
  <2>1. /\ importOp'.at \in {"clean", "targets"} /\ importOp'.targets = importOp.targets
        /\ importOp'.items = importOp.items /\ importOp'.dirs = importOp.dirs
        /\ DOMAIN importOp' = {"at", "targets", "items", "dirs", "files"}
    BY <1>2 DEF ImportInv, ImportTypes
  <2> QED
    BY <2>1 DEF ImportInv, ImportTypes, ItemsThere, OnDisk, Unpacking, Import!ItemsExist,
       Import!TempDirsGone
<1> QED
  BY <1>1, <1>2

LEMMA PreparesKeeps ==
  ASSUME ImportInv, Import!Prepares
  PROVE  ImportInv'
PROOF
<1>1. importOp.dirs = {} /\ UNCHANGED <<tempDirs, left, asked, directories>>
  BY DEF Import!Prepares, ImportInv
<1>2. importOp' = Import!NoOp \/ importOp' = [importOp EXCEPT !.at = "targets"]
  BY DEF Import!Prepares, Import!Goes
<1> QED
  BY <1>1, <1>2, ImportRests

LEMMA DiscoversKeeps ==
  ASSUME ImportInv, Import!Discovers
  PROVE  ImportInv'
PROOF
<1>1. UNCHANGED <<tempDirs, left, asked, directories>> /\ importOp.targets # <<>>
      /\ importOp.at = "targets"
  BY DEF Import!Discovers
<1>2. CASE Import!Ends
  BY <1>1, <1>2, ImportRests DEF Import!Ends
<1>3. CASE importOp' = [importOp EXCEPT !.targets = Tail(@),
                          !.items = @ \cup {[dir |-> 0, name |-> "path"]}]
  <2>1. Tail(importOp.targets) \in Seq(Archives \cup {Import!Loose})
    BY <1>1 DEF ImportInv, ImportTypes
  <2>2. /\ importOp'.at = "targets" /\ importOp'.targets = Tail(importOp.targets)
        /\ importOp'.items = importOp.items \cup {[dir |-> 0, name |-> "path"]}
        /\ importOp'.dirs = importOp.dirs
        /\ DOMAIN importOp' = {"at", "targets", "items", "dirs", "files"}
    BY <1>1, <1>3 DEF ImportInv, ImportTypes
  <2> QED
    BY <1>1, <2>1, <2>2 DEF ImportInv, ImportTypes, ItemsThere, OnDisk, Unpacking,
       Import!ItemsExist, Import!TempDirsGone
<1> QED
  BY <1>2, <1>3 DEF Import!Discovers

LEMMA UnpacksKeeps ==
  ASSUME ImportInv, Import!Unpacks
  PROVE  ImportInv'
PROOF
<1>1. PICK archive, dir : archive = Head(importOp.targets) /\ dir = directories + 1
  OBVIOUS
<1>2. UNCHANGED <<left, asked>> /\ importOp.at = "targets" /\ importOp.targets # <<>>
  BY DEF Import!Unpacks
<1>3. CASE Import!Ends /\ UNCHANGED <<tempDirs, directories>>
  BY <1>2, <1>3, ImportRests DEF Import!Ends
<1>4. CASE /\ directories' = dir /\ tempDirs' = tempDirs \cup {[id |-> dir, files |-> {}]}
           /\ importOp' = [importOp EXCEPT !.at = "write", !.dirs = @ \cup {dir},
                             !.files = Import!Kept(archive)]
  <2>1. /\ importOp'.at = "write" /\ importOp'.targets = importOp.targets
        /\ importOp'.items = importOp.items /\ importOp'.dirs = importOp.dirs \cup {dir}
        /\ importOp'.files = Import!Kept(archive)
        /\ DOMAIN importOp' = {"at", "targets", "items", "dirs", "files"}
    BY <1>4 DEF ImportInv, ImportTypes
  <2>2. PICK new : new = [id |-> dir, files |-> {}]
    OBVIOUS
  <2>3. new.id = dir /\ DOMAIN new = {"id", "files"}
    BY <2>2
  <2>4. tempDirs' = tempDirs \cup {new}
    BY <1>4, <2>2
  <2>5. ImportTypes' /\ \A d \in tempDirs' : d \in tempDirs \/ d.id = dir
    <3>1. importOp'.targets \in Seq(Archives \cup {Import!Loose})
      BY <2>1 DEF ImportInv, ImportTypes
    <3> QED
      BY <2>1, <2>3, <2>4, <3>1 DEF ImportInv, ImportTypes
  <2>6. tempDirs \subseteq tempDirs' /\ \E d \in tempDirs' : d.id = dir
    BY <2>3, <2>4
  <2>7. ItemsThere'
    BY <2>1, <2>6 DEF ImportInv, ItemsThere, OnDisk
  <2>8. Unpacking'
    <3>1. \A n \in Import!Wanted(archive) : \E i \in Import!Kept(archive) : archive[i].name = n
      BY WantedKept
    <3>2. Head(importOp.targets)' = archive
      BY <1>1, <2>1
    <3>3. \A n \in Import!Wanted(Head(importOp.targets))' :
            \E i \in importOp'.files : Head(importOp.targets)'[i].name = n
      BY <2>1, <3>1, <3>2
    <3> QED
      BY <1>2, <1>4, <2>1, <2>6, <3>3 DEF Unpacking
  <2>9. Import!ItemsExist' /\ Import!TempDirsGone'
    BY <1>2, <2>1, <2>5 DEF ImportInv, Import!ItemsExist, Import!TempDirsGone
  <2> QED
    BY <2>1, <2>5, <2>7, <2>8, <2>9 DEF ImportInv
<1> QED
  BY <1>1, <1>3, <1>4 DEF Import!Unpacks

LEMMA WritesFileKeeps ==
  ASSUME ImportInv, Import!WritesFile
  PROVE  ImportInv'
PROOF
<1>1. PICK i \in importOp.files :
        /\ tempDirs' = {IF d.id = directories
                        THEN [d EXCEPT !.files = @ \cup {Head(importOp.targets)[i].name}]
                        ELSE d : d \in tempDirs}
        /\ importOp' = [importOp EXCEPT !.files = @ \ {i}]
  BY DEF Import!WritesFile, Import!Earliest
<1>2. UNCHANGED <<left, asked, directories>> /\ importOp.at = "write"
  BY DEF Import!WritesFile
<1>3. PICK archive, name : archive = Head(importOp.targets) /\ name = archive[i].name
  OBVIOUS
<1>4. /\ importOp'.at = "write" /\ importOp'.targets = importOp.targets
      /\ importOp'.items = importOp.items /\ importOp'.dirs = importOp.dirs
      /\ importOp'.files = importOp.files \ {i}
      /\ DOMAIN importOp' = {"at", "targets", "items", "dirs", "files"}
  BY <1>1, <1>2 DEF ImportInv, ImportTypes
<1>5. /\ \A e \in tempDirs' : DOMAIN e = {"id", "files"} /\ \E d \in tempDirs : e.id = d.id
      /\ \A d \in tempDirs : \E e \in tempDirs' :
           e.id = d.id /\ d.files \subseteq e.files /\ (d.id = directories => name \in e.files)
  <2> DEFINE New(d) == IF d.id = directories THEN [d EXCEPT !.files = @ \cup {name}] ELSE d
  <2>1. tempDirs' = {New(d) : d \in tempDirs}
    BY <1>1, <1>3
  <2>2. \A d \in tempDirs :
          /\ DOMAIN New(d) = {"id", "files"} /\ New(d).id = d.id
          /\ d.files \subseteq New(d).files /\ (d.id = directories => name \in New(d).files)
    BY DEF ImportInv, ImportTypes
  <2> HIDE DEF New
  <2> QED
    BY <2>1, <2>2
<1>6. /\ \A dir, n : OnDisk(dir, n) => OnDisk(dir, n)'
      /\ OnDisk(directories, name)' /\ \E e \in tempDirs' : e.id = directories
  BY <1>2, <1>5 DEF OnDisk, ImportInv, Unpacking
<1>7. Unpacking'
  <2>1. ASSUME NEW n \in Import!Wanted(archive)
        PROVE  OnDisk(directories, n)' \/ \E j \in importOp'.files : archive[j].name = n
    BY <1>2, <1>3, <1>4, <1>6, <2>1 DEF ImportInv, Unpacking
  <2>2. Head(importOp.targets)' = archive
    BY <1>3, <1>4
  <2>3. \A n \in Import!Wanted(Head(importOp.targets))' :
          \/ OnDisk(directories, n)'
          \/ \E j \in importOp'.files : Head(importOp.targets)'[j].name = n
    BY <2>1, <2>2
  <2> QED
    BY <1>2, <1>4, <1>6, <2>3 DEF ImportInv, Unpacking
<1>8. ImportTypes' /\ ItemsThere'
  BY <1>4, <1>5, <1>6 DEF ImportInv, ImportTypes, ItemsThere
<1>9. Import!ItemsExist' /\ Import!TempDirsGone'
  BY <1>2, <1>4, <1>5 DEF ImportInv, Import!ItemsExist, Import!TempDirsGone
<1> QED
  BY <1>4, <1>7, <1>8, <1>9 DEF ImportInv

LEMMA UnpackedKeeps ==
  ASSUME ImportInv, Import!Unpacked
  PROVE  ImportInv'
PROOF
<1>1. UNCHANGED <<tempDirs, left, asked, directories>> /\ importOp.at = "write"
      /\ importOp.files = {} /\ importOp.targets # <<>>
  BY DEF Import!Unpacked, ImportInv, Unpacking
<1>2. PICK listed : listed = {[dir |-> directories,
      name |-> n] : n \in Import!Wanted(Head(importOp.targets))}
  OBVIOUS
<1>3. /\ importOp'.at = "targets" /\ importOp'.targets = Tail(importOp.targets)
      /\ importOp'.items = importOp.items \cup listed /\ importOp'.dirs = importOp.dirs
      /\ DOMAIN importOp' = {"at", "targets", "items", "dirs", "files"}
  BY <1>2 DEF Import!Unpacked, ImportInv, ImportTypes
<1>4. \A i \in listed : OnDisk(i.dir, i.name)
  BY <1>1, <1>2 DEF ImportInv, Unpacking
<1>5. ItemsThere'
  BY <1>1, <1>3, <1>4 DEF ImportInv, ItemsThere, OnDisk
<1>6. ImportTypes'
  <2>1. Tail(importOp.targets) \in Seq(Archives \cup {Import!Loose})
    BY <1>1 DEF ImportInv, ImportTypes
  <2> QED
    BY <1>1, <1>3, <2>1 DEF ImportInv, ImportTypes
<1> QED
  BY <1>1, <1>3, <1>5, <1>6 DEF ImportInv, Unpacking, Import!ItemsExist, Import!TempDirsGone

LEMMA ImportsKeeps ==
  ASSUME ImportInv, Import!Imports
  PROVE  ImportInv'
PROOF
<1>1. UNCHANGED <<tempDirs, left, directories>> /\ importOp.at = "targets" /\ Import!Ends
  BY DEF Import!Imports
<1>2. /\ importOp'.at = "clean" /\ importOp'.targets = importOp.targets
      /\ importOp'.items = importOp.items /\ importOp'.dirs = importOp.dirs
      /\ DOMAIN importOp' = {"at", "targets", "items", "dirs", "files"}
  BY <1>1 DEF Import!Ends, ImportInv, ImportTypes
<1>3. Import!ItemsExist'
  <2> DEFINE There(i) == i.dir = 0 \/ \E d \in tempDirs : d.id = i.dir /\ i.name \in d.files
  <2>1. \A i \in importOp.items : There(i) = TRUE
    BY DEF ImportInv, ItemsThere, OnDisk
  <2>2. PICK new : new = {[item |-> i, there |-> There(i)] : i \in importOp.items}
    OBVIOUS
  <2> HIDE DEF There
  <2>3. \A a \in new : a.there
    BY <2>1, <2>2
  <2>4. asked' = asked \cup new
    BY <2>2, Zenon DEF Import!Imports, There
  <2> QED
    BY <2>3, <2>4 DEF ImportInv, Import!ItemsExist
<1> QED
  BY <1>1, <1>2, <1>3 DEF ImportInv, ImportTypes, ItemsThere, OnDisk, Unpacking,
     Import!TempDirsGone

LEMMA CleansUpKeeps ==
  ASSUME ImportInv, Import!CleansUp
  PROVE  ImportInv'
PROOF
<1>1. importOp' = Import!NoOp /\ UNCHANGED <<asked, directories>>
  BY DEF Import!CleansUp
<1>2. CASE tempDirs' = {d \in tempDirs : d.id \notin importOp.dirs} /\ UNCHANGED left
  BY <1>1, <1>2 DEF ImportInv, ImportTypes, ItemsThere, Unpacking, Import!NoOp,
     Import!ItemsExist, Import!TempDirsGone
<1>3. CASE left' = left \cup importOp.dirs /\ UNCHANGED tempDirs
  BY <1>1, <1>3, ImportRests
<1> QED
  BY <1>2, <1>3 DEF Import!CleansUp

LEMMA ImportInit ==
  ASSUME Import!Init
  PROVE  ImportInv
PROOF BY DEF Import!Init, Import!NoOp, ImportInv, ImportTypes, ItemsThere, Unpacking,
         Import!ItemsExist, Import!TempDirsGone

LEMMA ImportKeptByStep ==
  ASSUME ImportInv, [Import!Next]_(Import!vars)
  PROVE  ImportInv'
PROOF
<1>1. CASE Import!Fails
  BY <1>1, ImportRests DEF Import!Fails, Import!Ends
<1>2. CASE Import!Crash
  BY <1>2, ImportRests DEF Import!Crash
<1>3. CASE UNCHANGED Import!vars
  BY <1>3 DEF Import!vars, ImportInv, ImportTypes, ItemsThere, OnDisk, Unpacking,
     Import!ItemsExist, Import!TempDirsGone
<1> QED
  BY <1>1, <1>2, <1>3, BeginsKeeps, PreparesKeeps, DiscoversKeeps, UnpacksKeeps, WritesFileKeeps,
     UnpackedKeeps, ImportsKeeps, CleansUpKeeps DEF Import!Next

-----------------------------------------------------------------------------
(* The plugin centre.                                                       *)

Snapshot == [catalog : SUBSET Center!Sources, installed : SUBSET Plugins, busy : BOOLEAN,
             error : BOOLEAN]
PanelTyped(p) ==
  /\ DOMAIN p = {"open", "loaded", "snap", "typed", "category", "timer", "key", "list"}
  /\ p.snap \in Snapshot /\ p.list \subseteq Plugins
CenterJob == [kind : {"load", "install", "remove", "enable"}, plugin : Plugins,
              at : {"confirm", "mutate", "started", "command", "start", "reading", "done"},
              force : BOOLEAN, found : SUBSET Plugins, listed : BOOLEAN,
              offers : SUBSET Center!Sources, failed : SUBSET {"topic", "curated", "list"},
              cancelled : BOOLEAN]

JobSane(o) ==
  /\ o.at \in {"confirm", "mutate", "started", "command"} => o.kind # "load"
  /\ o.at \notin {"reading", "done"} => o.offers = {} /\ ~o.listed

CenterTypeOK ==
  /\ profile \subseteq Plugins /\ cached \subseteq Center!Sources
  /\ snapshot \in Snapshot /\ posted \in Seq(Snapshot) /\ PanelTyped(panel)
  /\ jobs \in Seq(CenterJob) /\ crossed \in BOOLEAN
  /\ \A j \in DOMAIN jobs : JobSane(jobs[j])

(* The panel has the snapshot of the controller, or will have it, or is     *)
(* new.                                                                     *)
LastIsPosted ==
  IF posted = <<>> THEN panel.snap \in {snapshot, Center!NoSnapshot}
  ELSE posted[Len(posted)] = snapshot

(* An operation that has published that it is busy and will publish again.  *)
Owes(o) == o.at \in {"started", "command", "reading"} \/ (o.at = "start" /\ o.kind # "load")
BusyIsOwed == snapshot.busy => \E j \in DOMAIN jobs : Owes(jobs[j])

(* The list is what its key says, and the key is that of the filters.       *)
KeySound(p) ==
  p.key # <<>> => p.list = Center!Filtered(p.snap, p.key[2], p.key[3])
KeyCurrent(p) == p.key # <<>> => p.key[3] = p.category /\ (~p.timer => p.key[2] = p.typed)

(* What an operation that runs alone has read and shown.                    *)
Alone ==
  /\ \A i, j \in DOMAIN jobs : Center!Running(i) /\ Center!Running(j) => i = j
  /\ \A j \in DOMAIN jobs : Owes(jobs[j]) => snapshot.busy
  /\ ~snapshot.busy /\ ~snapshot.error /\ snapshot.catalog # {} =>
       snapshot.installed = profile /\ cached \subseteq snapshot.catalog
  /\ \A j \in DOMAIN jobs : jobs[j].at = "reading" =>
       /\ jobs[j].offers # {} => jobs[j].offers = cached
       /\ jobs[j].listed /\ "list" \notin jobs[j].failed => jobs[j].found = profile

CenterInv ==
  /\ CenterTypeOK /\ LastIsPosted /\ BusyIsOwed /\ KeySound(panel) /\ KeyCurrent(panel)
  /\ ~crossed => Alone

LEMMA CenterInit ==
  ASSUME Center!CenterAssumption, Center!Init
  PROVE  CenterInv
PROOF
<1>1. Center!NoSnapshot \in Snapshot
  BY DEF Center!NoSnapshot, Snapshot
<1>2. PanelTyped(Center!NewPanel)
  BY <1>1 DEF Center!NewPanel, PanelTyped
<1>3. /\ snapshot = Center!NoSnapshot /\ posted = <<>> /\ panel = Center!NewPanel /\ jobs = <<>>
      /\ crossed = FALSE /\ profile \subseteq Plugins /\ cached = {}
  BY DEF Center!Init, Center!CenterAssumption
<1>4. CenterTypeOK
  <2>1. jobs \in Seq(CenterJob) /\ posted \in Seq(Snapshot) /\ DOMAIN jobs = {}
    BY <1>3
  <2>2. PanelTyped(panel) /\ snapshot \in Snapshot
    BY <1>1, <1>2, <1>3
  <2> QED
    BY <1>3, <2>1, <2>2 DEF CenterTypeOK
<1>5. LastIsPosted /\ BusyIsOwed /\ KeySound(panel) /\ KeyCurrent(panel) /\ Alone
  BY <1>3 DEF LastIsPosted, BusyIsOwed, KeySound, KeyCurrent, Alone, Center!NoSnapshot,
     Center!NewPanel
<1> QED
  BY <1>4, <1>5 DEF CenterInv

(* Rendering filters again unless the list is what the filters choose.      *)
LEMMA RenderedIsFiltered ==
  ASSUME NEW p, PanelTyped(p), KeySound(p)
  PROVE  /\ PanelTyped(Center!Rendered(p)) /\ Center!Rendered(p).snap = p.snap
         /\ KeySound(Center!Rendered(p)) /\ KeyCurrent(Center!Rendered(p))
PROOF
<1>1. PICK category, newest, key, list :
        /\ category = IF p.category \in p.snap.catalog THEN p.category ELSE "all"
        /\ newest = (NewestIn \in p.snap.catalog) /\ key = <<newest, p.typed, category>>
        /\ list = IF key = p.key THEN p.list ELSE Center!Filtered(p.snap, p.typed, category)
  OBVIOUS
<1>2. Center!Rendered(p) = [p EXCEPT !.category = category, !.key = key, !.timer = FALSE,
                                     !.list = list]
  BY <1>1, Zenon DEF Center!Rendered, Center!CacheKey
<1>3. key # <<>> /\ key[2] = p.typed /\ key[3] = category
  BY <1>1
<1>4. list = Center!Filtered(p.snap, p.typed, category)
  BY <1>1, <1>3 DEF KeySound
<1>5. list \subseteq Plugins
  BY <1>4 DEF Center!Filtered, Center!Offered
<1>6. PanelTyped(Center!Rendered(p)) /\ Center!Rendered(p).snap = p.snap
      /\ Center!Rendered(p).key = key /\ Center!Rendered(p).list = list
      /\ Center!Rendered(p).category = category /\ Center!Rendered(p).typed = p.typed
  BY <1>2, <1>5 DEF PanelTyped
<1> QED
  BY <1>3, <1>4, <1>6 DEF KeySound, KeyCurrent

LEMMA RenderedAsideIsFiltered ==
  ASSUME NEW p, PanelTyped(p), KeySound(p)
  PROVE  /\ PanelTyped(Center!RenderedAside(p)) /\ Center!RenderedAside(p).snap = p.snap
         /\ KeySound(Center!RenderedAside(p)) /\ KeyCurrent(Center!RenderedAside(p))
PROOF
<1>1. PICK q : q = Center!Rendered(p)
  OBVIOUS
<1>2. PanelTyped(q) /\ q.snap = p.snap /\ KeySound(q) /\ KeyCurrent(q)
  BY <1>1, RenderedIsFiltered
<1>3. ~q.timer
  BY <1>1 DEF Center!Rendered, PanelTyped
<1>4. Center!RenderedAside(p) = [q EXCEPT !.timer = p.timer]
  BY <1>1 DEF Center!RenderedAside
<1> QED
  BY <1>2, <1>3, <1>4 DEF PanelTyped, KeySound, KeyCurrent

LEMMA AcceptedIsFiltered ==
  ASSUME NEW p, PanelTyped(p), NEW snap \in Snapshot
  PROVE  /\ PanelTyped(Center!Accepted(p, snap)) /\ Center!Accepted(p, snap).snap = snap
         /\ KeySound(Center!Accepted(p, snap)) /\ KeyCurrent(Center!Accepted(p, snap))
PROOF
<1>1. PICK q : q = [p EXCEPT !.snap = snap, !.key = <<>>,
                      !.loaded = IF snap.busy THEN @ ELSE snap.catalog # {} /\ ~snap.error]
  OBVIOUS
<1>2. PanelTyped(q) /\ q.snap = snap /\ KeySound(q)
  BY <1>1 DEF PanelTyped, Snapshot, KeySound
<1> QED
  BY <1>1, <1>2, RenderedAsideIsFiltered DEF Center!Accepted

(* A step of the panel alone.                                               *)
LEMMA PanelMoves ==
  ASSUME CenterInv, UNCHANGED <<profile, cached, snapshot, jobs, crossed>>,
         PanelTyped(panel'), KeySound(panel'), KeyCurrent(panel'), posted' \in Seq(Snapshot),
         LastIsPosted'
  PROVE  CenterInv'
PROOF
<1>1. CenterTypeOK' /\ BusyIsOwed'
  BY DEF CenterInv, CenterTypeOK, PanelTyped, BusyIsOwed
<1>2. \A j : Center!Running(j)' <=> Center!Running(j)
  BY DEF Center!Running
<1>3. ~crossed' => Alone'
  BY <1>2 DEF CenterInv, Alone
<1>4. KeySound(panel)' /\ KeyCurrent(panel)'
  BY DEF KeySound, KeyCurrent, Center!Filtered, Center!Offered
<1> QED
  BY <1>1, <1>3, <1>4 DEF CenterInv

LEMMA PanelStays ==
  ASSUME CenterInv, UNCHANGED <<profile, cached, snapshot, jobs, crossed, posted>>,
         PanelTyped(panel'), KeySound(panel'), KeyCurrent(panel'), panel'.snap = panel.snap
  PROVE  CenterInv'
PROOF
<1>1. posted' \in Seq(Snapshot) /\ LastIsPosted'
  BY DEF CenterInv, CenterTypeOK, LastIsPosted
<1> QED
  BY <1>1, PanelMoves

LEMMA ClosesKeeps ==
  ASSUME CenterInv, Center!Closes
  PROVE  CenterInv'
PROOF
<1>1. PanelTyped(panel') /\ KeySound(panel') /\ KeyCurrent(panel') /\ panel'.snap = panel.snap
  BY DEF Center!Closes, CenterInv, CenterTypeOK, PanelTyped, KeySound, KeyCurrent
<1> QED
  BY <1>1, PanelStays DEF Center!Closes, Center!history

LEMMA RecreatedKeeps ==
  ASSUME CenterInv, Center!Recreated
  PROVE  CenterInv'
PROOF
<1>1. Center!NoSnapshot \in Snapshot
  BY DEF Center!NoSnapshot, Snapshot
<1>2. PanelTyped(Center!NewPanel) /\ KeySound(Center!NewPanel) /\ KeyCurrent(Center!NewPanel)
      /\ Center!NewPanel.snap = Center!NoSnapshot
  BY <1>1 DEF Center!NewPanel, PanelTyped, KeySound, KeyCurrent
<1>3. panel' = Center!NewPanel /\ posted' = <<>>
      /\ UNCHANGED <<profile, cached, snapshot, jobs, crossed>>
  BY DEF Center!Recreated, Center!history
<1>4. posted' \in Seq(Snapshot) /\ LastIsPosted'
  BY <1>2, <1>3 DEF LastIsPosted
<1> QED
  BY <1>2, <1>3, <1>4, PanelMoves

LEMMA DeliveredKeeps ==
  ASSUME CenterInv, Center!Delivered
  PROVE  CenterInv'
PROOF
<1>1. PICK snap : snap = Head(posted)
  OBVIOUS
<1>2. /\ posted # <<>> /\ posted' = Tail(posted) /\ panel' = Center!Accepted(panel, snap)
      /\ UNCHANGED <<profile, cached, snapshot, jobs, crossed>>
  BY <1>1 DEF Center!Delivered, Center!history
<1>3. /\ posted \in Seq(Snapshot) /\ PanelTyped(panel)
      /\ posted[Len(posted)] = snapshot
  BY <1>2 DEF CenterInv, CenterTypeOK, LastIsPosted
<1>4. /\ posted' \in Seq(Snapshot) /\ snap = posted[1] /\ snap \in Snapshot
      /\ Len(posted') = Len(posted) - 1 /\ Len(posted) \in Nat \ {0}
      /\ \A i \in DOMAIN posted' : posted'[i] = posted[i + 1]
  BY <1>1, <1>2, <1>3, TailOf
<1>5. PanelTyped(panel') /\ panel'.snap = snap /\ KeySound(panel') /\ KeyCurrent(panel')
  BY <1>2, <1>3, <1>4, AcceptedIsFiltered
<1>6. LastIsPosted'
  <2>1. CASE posted' = <<>>
    <3>1. Len(posted) = 1
      BY <1>4, <2>1
    <3> QED
      BY <1>2, <1>3, <1>4, <1>5, <2>1, <3>1 DEF LastIsPosted
  <2>2. CASE posted' # <<>>
    <3>1. Len(posted') \in DOMAIN posted' /\ Len(posted') + 1 = Len(posted)
      BY <1>4, <2>2, LenProperties, EmptySeq
    <3> QED
      BY <1>2, <1>3, <1>4, <2>2, <3>1 DEF LastIsPosted
  <2> QED
    BY <2>1, <2>2
<1> QED
  BY <1>2, <1>4, <1>5, <1>6, PanelMoves

LEMMA FiltersKeep ==
  ASSUME CenterInv, NEW category,
         Center!Types \/ Center!SearchFires \/ Center!Chooses(category)
  PROVE  CenterInv'
PROOF
<1>1. UNCHANGED <<profile, cached, snapshot, jobs, crossed, posted>>
  BY DEF Center!Types, Center!SearchFires, Center!Chooses, Center!history
<1>2. PanelTyped(panel) /\ KeySound(panel) /\ KeyCurrent(panel)
  BY DEF CenterInv, CenterTypeOK
<1>3. CASE Center!Types
  <2>1. panel' = [panel EXCEPT !.typed = ~@, !.timer = TRUE]
    BY <1>3 DEF Center!Types
  <2>2. PanelTyped(panel') /\ panel'.snap = panel.snap /\ panel'.key = panel.key
        /\ panel'.list = panel.list /\ panel'.category = panel.category /\ panel'.timer
    BY <1>2, <2>1 DEF PanelTyped
  <2>3. KeySound(panel') /\ KeyCurrent(panel')
    BY <1>2, <2>2 DEF KeySound, KeyCurrent
  <2> QED
    BY <1>1, <2>2, <2>3, PanelStays
<1>4. CASE Center!SearchFires
  BY <1>1, <1>2, <1>4, RenderedIsFiltered, PanelStays DEF Center!SearchFires
<1>5. CASE Center!Chooses(category)
  <2>1. PICK p : p = [panel EXCEPT !.category = category]
    OBVIOUS
  <2>2. PanelTyped(p) /\ KeySound(p) /\ p.snap = panel.snap
    BY <1>2, <2>1 DEF PanelTyped, KeySound
  <2> QED
    BY <1>1, <1>5, <2>1, <2>2, RenderedAsideIsFiltered, PanelStays DEF Center!Chooses
<1> QED
  BY <1>3, <1>4, <1>5

(* What an operation owes the rest of the invariant.                        *)
LEMMA CenterMoves ==
  ASSUME CenterInv,
         PanelTyped(panel'), KeySound(panel'), KeyCurrent(panel'), panel'.snap = panel.snap,
         snapshot' \in Snapshot,
         UNCHANGED <<snapshot, posted>> \/ posted' = Append(posted, snapshot'),
         profile' \subseteq Plugins, cached' \subseteq Center!Sources, crossed' \in BOOLEAN,
         jobs' \in Seq(CenterJob),
         \A j \in DOMAIN jobs' : JobSane(jobs'[j]),
         BusyIsOwed', ~crossed' => Alone'
  PROVE  CenterInv'
PROOF
<1>1. posted' \in Seq(Snapshot) /\ LastIsPosted'
  <2>1. CASE UNCHANGED <<snapshot, posted>>
    BY <2>1 DEF CenterInv, CenterTypeOK, LastIsPosted
  <2>2. CASE posted' = Append(posted, snapshot')
    <3>1. posted \in Seq(Snapshot)
      BY DEF CenterInv, CenterTypeOK
    <3>2. posted' \in Seq(Snapshot) /\ posted' # <<>> /\ posted'[Len(posted')] = snapshot'
      BY <2>2, <3>1, AppendOf
    <3> QED
      BY <3>2 DEF LastIsPosted
  <2> QED
    BY <2>1, <2>2
<1>2. CenterTypeOK'
  BY <1>1 DEF CenterTypeOK, PanelTyped
<1>3. KeySound(panel)' /\ KeyCurrent(panel)'
  BY DEF KeySound, KeyCurrent, Center!Filtered, Center!Offered
<1> QED
  BY <1>1, <1>2, <1>3 DEF CenterInv

(* An operation begins: not another before it is confirmed, and otherwise   *)
(* it runs alone or the behaviour is one of overlaps.                       *)
LEMMA StartsKeep ==
  ASSUME CenterInv, NEW kind \in {"load", "install", "remove", "enable"}, NEW p \in Plugins,
         NEW at \in {"confirm", "mutate", "start"}, NEW force \in BOOLEAN,
         at = "start" <=> kind = "load", Center!Starts(kind, p, at, force),
         UNCHANGED <<profile, cached, snapshot, posted>>,
         PanelTyped(panel'), KeySound(panel'), KeyCurrent(panel'), panel'.snap = panel.snap
  PROVE  CenterInv'
PROOF
<1>1. PICK o : o = [kind |-> kind, plugin |-> p, at |-> at, force |-> force,
                    found |-> {}, listed |-> FALSE, offers |-> {}, failed |-> {},
                    cancelled |-> FALSE]
  OBVIOUS
<1>2. PICK another : another = (\E j \in DOMAIN jobs : Center!Running(j))
  OBVIOUS
<1>3. /\ jobs' = Append(jobs, o) /\ crossed' = (crossed \/ (at # "confirm" /\ another))
      /\ jobs \in Seq(CenterJob) /\ o \in CenterJob /\ crossed' \in BOOLEAN
      /\ o.at = at /\ o.kind = kind /\ ~Owes(o)
  <2>1. o \in CenterJob
    BY <1>1 DEF CenterJob
  <2>2. jobs' = Append(jobs, o) /\ crossed' = (crossed \/ (at # "confirm" /\ another))
    BY <1>1, <1>2 DEF Center!Starts
  <2>3. crossed \in BOOLEAN /\ another \in BOOLEAN /\ jobs \in Seq(CenterJob)
    BY <1>2 DEF CenterInv, CenterTypeOK
  <2>4. crossed' \in BOOLEAN
    BY <2>2, <2>3
  <2> QED
    BY <1>1, <2>1, <2>2, <2>3, <2>4 DEF Owes
<1>4. /\ jobs' \in Seq(CenterJob)
      /\ \A i \in DOMAIN jobs : i \in DOMAIN jobs' /\ jobs'[i] = jobs[i]
      /\ \A i \in DOMAIN jobs' : i \in DOMAIN jobs \/ i = Len(jobs) + 1
      /\ Len(jobs) + 1 \in DOMAIN jobs' /\ jobs'[Len(jobs) + 1] = o
      /\ Len(jobs) + 1 \notin DOMAIN jobs
  BY <1>3, AppendOf
<1>5. \A j \in DOMAIN jobs' : JobSane(jobs'[j])
  <2>1. JobSane(o)
    BY <1>1, <1>3 DEF JobSane
  <2> QED
    BY <1>3, <1>4, <2>1 DEF CenterInv, CenterTypeOK
<1>6. BusyIsOwed'
  BY <1>4 DEF CenterInv, BusyIsOwed
<1>7. ASSUME ~crossed'
      PROVE  Alone'
  <2>1. ~crossed /\ (at = "confirm" \/ \A j \in DOMAIN jobs : ~Center!Running(j))
    BY <1>2, <1>3, <1>7
  <2>2. Alone
    BY <2>1 DEF CenterInv
  <2>3. \A i, j \in DOMAIN jobs' : Center!Running(i)' /\ Center!Running(j)' => i = j
    BY <1>3, <1>4, <2>1, <2>2 DEF Alone, Center!Running
  <2>4. \A j \in DOMAIN jobs' : Owes(jobs'[j]) => snapshot'.busy
    BY <1>3, <1>4, <2>2 DEF Alone
  <2>5. \A j \in DOMAIN jobs' : jobs'[j].at = "reading" => j \in DOMAIN jobs /\ jobs'[j] = jobs[j]
    BY <1>3, <1>4
  <2> QED
    BY <2>2, <2>3, <2>4, <2>5 DEF Alone
<1>8. snapshot' \in Snapshot /\ profile' \subseteq Plugins /\ cached' \subseteq Center!Sources
  BY DEF CenterInv, CenterTypeOK
<1> QED
  BY <1>3, <1>4, <1>5, <1>6, <1>7, <1>8, CenterMoves

LEMMA CenterOpensKeeps ==
  ASSUME Center!CenterAssumption, CenterInv, Center!Opens
  PROVE  CenterInv'
PROOF
<1>1. PICK p : p = [panel EXCEPT !.open = TRUE, !.loaded = TRUE]
  OBVIOUS
<1>2. PanelTyped(p) /\ KeySound(p) /\ p.snap = panel.snap
  BY <1>1 DEF CenterInv, CenterTypeOK, PanelTyped, KeySound
<1>3. panel' = Center!Rendered(p)
  BY <1>1 DEF Center!Opens
<1>4. PanelTyped(panel') /\ KeySound(panel') /\ KeyCurrent(panel') /\ panel'.snap = panel.snap
  BY <1>2, <1>3, RenderedIsFiltered
<1>5. UNCHANGED <<profile, cached, snapshot, posted>>
  BY DEF Center!Opens
<1>6. Suite \in Plugins
  BY DEF Center!CenterAssumption
<1>7. CASE UNCHANGED <<jobs, crossed>>
  BY <1>4, <1>5, <1>7, PanelStays
<1>8. CASE Center!Starts("load", Suite, "start", FALSE)
  BY <1>4, <1>5, <1>6, <1>8, StartsKeep
<1> QED
  BY <1>7, <1>8 DEF Center!Opens

LEMMA ClicksKeeps ==
  ASSUME Center!CenterAssumption, CenterInv,
         NEW kind \in {"load", "install", "remove", "enable"}, NEW p \in Plugins,
         NEW at \in {"confirm", "mutate", "start"}, at = "start" <=> kind = "load",
         Center!Clicks(kind, p, at)
  PROVE  CenterInv'
PROOF
<1>1. PICK force : force = (kind = "load")
  OBVIOUS
<1>2. force \in BOOLEAN /\ Center!Starts(kind, p, at, force)
  BY <1>1, Zenon DEF Center!Clicks
<1>3. UNCHANGED <<profile, cached, snapshot, posted, panel>>
  BY DEF Center!Clicks
<1>4. PanelTyped(panel') /\ KeySound(panel') /\ KeyCurrent(panel') /\ panel'.snap = panel.snap
  BY <1>3 DEF CenterInv, CenterTypeOK
<1> QED
  BY <1>2, <1>3, <1>4, StartsKeep

(* An operation is replaced by what it has become.                          *)
LEMMA JobBecomes ==
  ASSUME CenterInv, NEW j \in DOMAIN jobs, NEW o \in CenterJob,
         JobSane(o), jobs' = [jobs EXCEPT ![j] = o]
  PROVE  /\ jobs' \in Seq(CenterJob) /\ DOMAIN jobs' = DOMAIN jobs /\ jobs'[j] = o
         /\ \A i \in DOMAIN jobs : i # j => jobs'[i] = jobs[i]
         /\ \A i \in DOMAIN jobs' : JobSane(jobs'[i])
PROOF
<1>1. jobs \in Seq(CenterJob)
  BY DEF CenterInv, CenterTypeOK
<1>2. /\ jobs' \in Seq(CenterJob) /\ DOMAIN jobs' = DOMAIN jobs /\ jobs'[j] = o
      /\ \A i \in DOMAIN jobs : i # j => jobs'[i] = jobs[i]
  BY <1>1, ExceptSeq
<1> QED
  BY <1>2 DEF CenterInv, CenterTypeOK

LEMMA JobGoes ==
  ASSUME CenterInv, NEW j \in DOMAIN jobs,
         NEW at \in {"confirm", "mutate", "started", "command", "start", "reading", "done"},
         at \in {"confirm", "mutate", "started", "command"} => jobs[j].kind # "load",
         Center!Running(j), at = "done" \/ jobs[j].at # "reading",
         Center!Goes(j, at)
  PROVE  /\ jobs' \in Seq(CenterJob) /\ DOMAIN jobs' = DOMAIN jobs
         /\ jobs'[j].at = at /\ jobs'[j].kind = jobs[j].kind /\ jobs'[j].offers = jobs[j].offers
         /\ jobs'[j].listed = jobs[j].listed /\ jobs'[j].found = jobs[j].found
         /\ jobs'[j].failed = jobs[j].failed
         /\ \A i \in DOMAIN jobs : i # j => jobs'[i] = jobs[i]
         /\ \A i \in DOMAIN jobs' : JobSane(jobs'[i])
PROOF
<1>1. PICK o : o = [jobs[j] EXCEPT !.at = at]
  OBVIOUS
<1>2. jobs[j] \in CenterJob
  BY DEF CenterInv, CenterTypeOK
<1>3. /\ o \in CenterJob /\ o.at = at /\ o.kind = jobs[j].kind /\ o.offers = jobs[j].offers
      /\ o.listed = jobs[j].listed /\ o.found = jobs[j].found /\ o.failed = jobs[j].failed
  BY <1>1, <1>2 DEF CenterJob
<1>4. jobs' = [jobs EXCEPT ![j] = o]
  BY <1>1 DEF Center!Goes
<1>5. JobSane(jobs[j])
  BY DEF CenterInv, CenterTypeOK
<1>6. JobSane(o)
  <2>1. o.offers = jobs[j].offers /\ o.listed = jobs[j].listed /\ o.at = at /\ o.kind = jobs[j].kind
    BY <1>3
  <2>2. at = "done" \/ (jobs[j].offers = {} /\ ~jobs[j].listed) \/ jobs[j].at = "confirm"
    BY <1>5 DEF JobSane, Center!Running
  <2> QED
    BY <1>5, <2>1, <2>2 DEF JobSane
<1> QED
  BY <1>3, <1>4, <1>6, JobBecomes

(* What stays when an operation moves and the panel does not.               *)
LEMMA OperationMoves ==
  ASSUME CenterInv, UNCHANGED panel, snapshot' \in Snapshot,
         UNCHANGED <<snapshot, posted>> \/ posted' = Append(posted, snapshot'),
         profile' \subseteq Plugins, cached' \subseteq Center!Sources, crossed' \in BOOLEAN,
         jobs' \in Seq(CenterJob),
         \A j \in DOMAIN jobs' : JobSane(jobs'[j]),
         BusyIsOwed', ~crossed' => Alone'
  PROVE  CenterInv'
PROOF
<1>1. PanelTyped(panel') /\ KeySound(panel') /\ KeyCurrent(panel') /\ panel'.snap = panel.snap
  BY DEF CenterInv, CenterTypeOK
<1> QED
  BY <1>1, CenterMoves

(* The failure of an operation that ran is published.                       *)
LEMMA FailedKeeps ==
  ASSUME CenterInv, NEW j \in DOMAIN jobs, Center!Failed(j), Center!Running(j),
         UNCHANGED <<panel, cached, crossed>>, profile' \subseteq Plugins
  PROVE  CenterInv'
PROOF
<1>1. PICK snap : snap = [snapshot EXCEPT !.busy = FALSE, !.error = TRUE]
  OBVIOUS
<1>2. snap \in Snapshot /\ snap.busy = FALSE /\ snap.error = TRUE
  BY <1>1 DEF CenterInv, CenterTypeOK, Snapshot
<1>3. snapshot' = snap /\ posted' = Append(posted, snap) /\ Center!Goes(j, "done")
  BY <1>1 DEF Center!Failed, Center!Publish
<1>4. /\ jobs' \in Seq(CenterJob) /\ DOMAIN jobs' = DOMAIN jobs /\ jobs'[j].at = "done"
      /\ \A i \in DOMAIN jobs : i # j => jobs'[i] = jobs[i]
      /\ \A i \in DOMAIN jobs' : JobSane(jobs'[i])
  BY <1>3, JobGoes
<1>5. BusyIsOwed'
  BY <1>2, <1>3 DEF BusyIsOwed
<1>6. ASSUME ~crossed'
      PROVE  Alone'
  <2>1. Alone /\ \A i \in DOMAIN jobs : i = j \/ ~Center!Running(i)
    BY <1>6 DEF CenterInv, Alone
  <2>2. \A i \in DOMAIN jobs' : ~Center!Running(i)'
    BY <1>4, <2>1 DEF Center!Running
  <2>3. \A i \in DOMAIN jobs' : ~Owes(jobs'[i]) /\ jobs'[i].at # "reading"
    BY <2>2 DEF Center!Running, Owes
  <2> QED
    BY <1>2, <1>3, <2>2, <2>3 DEF Alone
<1>7. cached' \subseteq Center!Sources /\ crossed' \in BOOLEAN
  BY DEF CenterInv, CenterTypeOK
<1> QED
  BY <1>2, <1>3, <1>4, <1>5, <1>6, <1>7, OperationMoves

(* A step that publishes nothing, and owes what it owed.                    *)
LEMMA QuietlyKeeps ==
  ASSUME CenterInv, NEW j \in DOMAIN jobs, Center!Running(j), jobs[j].at # "reading",
         UNCHANGED <<panel, snapshot, posted, crossed, cached>>,
         profile' \subseteq Plugins,
         NEW at \in {"command", "start", "done"}, Center!Goes(j, at), jobs[j].kind # "load"
           \/ at = "done",
         IF at = "done" THEN ~Owes(jobs[j]) ELSE Owes(jobs[j]),
         profile' = profile \/ Owes(jobs[j])
  PROVE  CenterInv'
PROOF
<1>1. /\ jobs' \in Seq(CenterJob) /\ DOMAIN jobs' = DOMAIN jobs
      /\ jobs'[j].at = at /\ jobs'[j].kind = jobs[j].kind
      /\ \A i \in DOMAIN jobs : i # j => jobs'[i] = jobs[i]
      /\ \A i \in DOMAIN jobs' : JobSane(jobs'[i])
  BY JobGoes
<1>2. \A i \in DOMAIN jobs : Owes(jobs'[i]) <=> Owes(jobs[i])
  BY <1>1 DEF Owes
<1>3. BusyIsOwed'
  BY <1>1, <1>2 DEF CenterInv, BusyIsOwed
<1>4. ASSUME ~crossed'
      PROVE  Alone'
  <2>1. Alone
    BY <1>4 DEF CenterInv
  <2>2. \A i \in DOMAIN jobs' : Center!Running(i)' => Center!Running(i)
    BY <1>1 DEF Center!Running
  <2>3. \A i \in DOMAIN jobs' : jobs'[i].at = "reading" => FALSE
    <3>1. \A i \in DOMAIN jobs : i # j => ~Center!Running(i)
      BY <2>1 DEF Alone
    <3> QED
      BY <1>1, <3>1 DEF Center!Running
  <2>4. ~snapshot.busy => profile' = profile
    BY <2>1 DEF Alone
  <2> QED
    BY <1>1, <1>2, <2>1, <2>2, <2>3, <2>4 DEF Alone
<1>5. snapshot' \in Snapshot /\ cached' \subseteq Center!Sources /\ crossed' \in BOOLEAN
  BY DEF CenterInv, CenterTypeOK
<1> QED
  BY <1>1, <1>3, <1>4, <1>5, OperationMoves

(* An operation says that it is busy.                                       *)
LEMMA PendingKeeps ==
  ASSUME CenterInv, NEW j \in DOMAIN jobs, Center!Running(j), jobs[j].at # "reading",
         NEW at \in {"started", "reading"},
         Center!Publish(Center!Pending), Center!Goes(j, at), jobs[j].kind # "load" \/ at = "reading",
         at = "reading" => jobs[j].offers = {} /\ ~jobs[j].listed,
         UNCHANGED <<profile, panel, cached, crossed>>
  PROVE  CenterInv'
PROOF
<1>1. PICK snap : snap = Center!Pending
  OBVIOUS
<1>2. snap \in Snapshot /\ snap.busy
  BY <1>1 DEF CenterInv, CenterTypeOK, Snapshot, Center!Pending
<1>3. snapshot' = snap /\ posted' = Append(posted, snap)
  BY <1>1 DEF Center!Publish
<1>4. /\ jobs' \in Seq(CenterJob) /\ DOMAIN jobs' = DOMAIN jobs
      /\ jobs'[j].at = at /\ jobs'[j].offers = jobs[j].offers /\ jobs'[j].listed = jobs[j].listed
      /\ \A i \in DOMAIN jobs : i # j => jobs'[i] = jobs[i]
      /\ \A i \in DOMAIN jobs' : JobSane(jobs'[i])
  BY JobGoes
<1>5. BusyIsOwed'
  BY <1>4 DEF BusyIsOwed, Owes
<1>6. ASSUME ~crossed'
      PROVE  Alone'
  <2>1. Alone
    BY <1>6 DEF CenterInv
  <2>2. \A i \in DOMAIN jobs' : Center!Running(i)' => i = j
    BY <1>4, <2>1 DEF Center!Running, Alone
  <2>3. \A i \in DOMAIN jobs' : jobs'[i].at = "reading" => i = j
    BY <2>2 DEF Center!Running
  <2> QED
    BY <1>2, <1>3, <1>4, <2>2, <2>3 DEF Alone
<1>7. profile' \subseteq Plugins /\ cached' \subseteq Center!Sources /\ crossed' \in BOOLEAN
  BY DEF CenterInv, CenterTypeOK
<1> QED
  BY <1>2, <1>3, <1>4, <1>5, <1>6, <1>7, OperationMoves

(* A confirmed operation runs beside others, or alone.                      *)
LEMMA AnsweredKeeps ==
  ASSUME CenterInv, NEW j \in DOMAIN jobs, Center!Answered(j)
  PROVE  CenterInv'
PROOF
<1>1. PICK beside : beside = (\E k \in DOMAIN jobs : Center!Running(k))
  OBVIOUS
<1>2. PICK at \in {"mutate", "done"} :
        Center!Goes(j, at) /\ crossed' = (crossed \/ (at = "mutate" /\ beside))
  BY <1>1 DEF Center!Answered
<1>3. jobs[j].at = "confirm" /\ UNCHANGED <<profile, cached, snapshot, posted, panel>>
  BY DEF Center!Answered
<1>4. PICK o : o = [jobs[j] EXCEPT !.at = at]
  OBVIOUS
<1>5. jobs[j] \in CenterJob /\ JobSane(jobs[j])
  BY DEF CenterInv, CenterTypeOK
<1>6. o \in CenterJob /\ o.at = at /\ JobSane(o) /\ ~Owes(o)
  BY <1>3, <1>4, <1>5 DEF CenterJob, JobSane, Owes
<1>7. /\ jobs' \in Seq(CenterJob) /\ DOMAIN jobs' = DOMAIN jobs /\ jobs'[j] = o
      /\ \A i \in DOMAIN jobs : i # j => jobs'[i] = jobs[i]
      /\ \A i \in DOMAIN jobs' : JobSane(jobs'[i])
  BY <1>2, <1>4, <1>6, JobBecomes DEF Center!Goes
<1>8. crossed' \in BOOLEAN /\ (~crossed' => ~crossed /\ (at = "done" \/ ~beside))
  BY <1>1, <1>2 DEF CenterInv, CenterTypeOK
<1>9. ~Owes(jobs[j])
  BY <1>3 DEF Owes
<1>10. BusyIsOwed'
  BY <1>3, <1>7, <1>9 DEF CenterInv, BusyIsOwed
<1>11. ASSUME ~crossed'
       PROVE  Alone'
  <2>1. Alone
    BY <1>8, <1>11 DEF CenterInv
  <2>2. \A i, k \in DOMAIN jobs' : Center!Running(i)' /\ Center!Running(k)' => i = k
    <3>1. CASE at = "done"
      BY <1>6, <1>7, <2>1, <3>1 DEF Alone, Center!Running
    <3>2. CASE \A k \in DOMAIN jobs : ~Center!Running(k)
      BY <1>7, <3>2 DEF Center!Running
    <3> QED
      BY <1>1, <1>8, <1>11, <3>1, <3>2
  <2>3. \A i \in DOMAIN jobs' : Owes(jobs'[i]) => snapshot'.busy
    BY <1>3, <1>6, <1>7, <2>1 DEF Alone
  <2>4. \A i \in DOMAIN jobs' : jobs'[i].at = "reading" => jobs'[i] = jobs[i]
    BY <1>6, <1>7
  <2> QED
    BY <1>3, <1>7, <2>1, <2>2, <2>3, <2>4 DEF Alone
<1>12. snapshot' \in Snapshot /\ profile' \subseteq Plugins /\ cached' \subseteq Center!Sources
  BY <1>3 DEF CenterInv, CenterTypeOK
<1> QED
  BY <1>3, <1>7, <1>8, <1>10, <1>11, <1>12, OperationMoves

LEMMA MutateBeginsKeeps ==
  ASSUME CenterInv, NEW j \in DOMAIN jobs, Center!MutateBegins(j)
  PROVE  CenterInv'
PROOF
<1>1. jobs[j].at = "mutate" /\ Center!Publish(Center!Pending) /\ Center!Goes(j, "started")
      /\ UNCHANGED <<profile, panel, cached, crossed>>
  BY DEF Center!MutateBegins, Center!history
<1>2. JobSane(jobs[j])
  BY DEF CenterInv, CenterTypeOK
<1>3. jobs[j].kind # "load" /\ Center!Running(j)
  BY <1>1, <1>2 DEF JobSane, Center!Running
<1> QED
  BY <1>1, <1>3, PendingKeeps

LEMMA MutateGoesKeeps ==
  ASSUME CenterInv, NEW j \in DOMAIN jobs, Center!MutateGoes(j)
  PROVE  CenterInv'
PROOF
<1>1. jobs[j].at = "started" /\ UNCHANGED <<profile, panel, cached, crossed>>
  BY DEF Center!MutateGoes, Center!history
<1>2. JobSane(jobs[j]) /\ profile' \subseteq Plugins
  BY <1>1 DEF CenterInv, CenterTypeOK
<1>3. jobs[j].kind # "load" /\ Center!Running(j) /\ Owes(jobs[j])
  BY <1>1, <1>2 DEF JobSane, Center!Running, Owes
<1>4. CASE Center!Goes(j, "command") /\ UNCHANGED <<snapshot, posted>>
  BY <1>1, <1>2, <1>3, <1>4, QuietlyKeeps
<1>5. CASE Center!Failed(j)
  BY <1>1, <1>2, <1>3, <1>5, FailedKeeps
<1> QED
  BY <1>4, <1>5 DEF Center!MutateGoes

LEMMA MutateLandsKeeps ==
  ASSUME CenterInv, NEW j \in DOMAIN jobs, Center!MutateLands(j)
  PROVE  CenterInv'
PROOF
<1>1. jobs[j].at = "command" /\ UNCHANGED <<panel, cached, crossed>>
  BY DEF Center!MutateLands, Center!history
<1>2. JobSane(jobs[j]) /\ jobs[j] \in CenterJob /\ profile \subseteq Plugins
  BY <1>1 DEF CenterInv, CenterTypeOK
<1>3. jobs[j].kind # "load" /\ Center!Running(j) /\ Owes(jobs[j]) /\ jobs[j].plugin \in Plugins
  BY <1>1, <1>2 DEF JobSane, Center!Running, Owes, CenterJob
<1>4. profile' \subseteq Plugins
  BY <1>2, <1>3 DEF Center!MutateLands
<1>5. CASE Center!Goes(j, "start") /\ UNCHANGED <<snapshot, posted>>
  BY <1>1, <1>3, <1>4, <1>5, QuietlyKeeps
<1>6. CASE Center!Failed(j)
  BY <1>1, <1>3, <1>4, <1>6, FailedKeeps
<1> QED
  BY <1>5, <1>6 DEF Center!MutateLands

(* An operation that has not moved, whatever it has read.                   *)
LEMMA ReadingKeeps ==
  ASSUME CenterInv, NEW j \in DOMAIN jobs, NEW o \in CenterJob, jobs' = [jobs EXCEPT ![j] = o],
         o.at = jobs[j].at, o.kind = jobs[j].kind, JobSane(o),
         UNCHANGED <<panel, snapshot, posted, crossed, profile>>,
         cached' \subseteq Center!Sources, cached \subseteq cached',
         cached' = cached \/ jobs[j].at = "reading",
         o.offers # {} => o.offers = cached' \/ (jobs[j].offers = o.offers /\ cached' = cached),
         o.listed /\ "list" \notin o.failed =>
           o.found = profile
             \/ (jobs[j].listed /\ "list" \notin jobs[j].failed /\ jobs[j].found = o.found)
  PROVE  CenterInv'
PROOF
<1>1. /\ jobs' \in Seq(CenterJob) /\ DOMAIN jobs' = DOMAIN jobs /\ jobs'[j] = o
      /\ \A i \in DOMAIN jobs : i # j => jobs'[i] = jobs[i]
      /\ \A i \in DOMAIN jobs' : JobSane(jobs'[i])
  BY JobBecomes DEF JobSane
<1>2. \A i \in DOMAIN jobs : /\ Owes(jobs'[i]) <=> Owes(jobs[i])
                             /\ Center!Running(i)' <=> Center!Running(i)
                             /\ jobs'[i].at = jobs[i].at
  BY <1>1 DEF Owes, Center!Running
<1>3. BusyIsOwed'
  BY <1>1, <1>2 DEF CenterInv, BusyIsOwed
<1>4. ASSUME ~crossed'
      PROVE  Alone'
  <2>1. Alone
    BY <1>4 DEF CenterInv
  <2>2. ~snapshot.busy => cached' = cached
    BY <2>1 DEF Alone, Owes
  <2>3. cached' = cached \/ \A i \in DOMAIN jobs : i # j => jobs[i].at # "reading"
    BY <2>1 DEF Alone, Center!Running
  <2>4. jobs[j].at = "reading" =>
          /\ o.offers # {} => o.offers = cached'
          /\ o.listed /\ "list" \notin o.failed => o.found = profile
    BY <2>1 DEF Alone
  <2>5. \A i \in DOMAIN jobs' : jobs'[i].at = "reading" =>
          /\ jobs'[i].offers # {} => jobs'[i].offers = cached'
          /\ jobs'[i].listed /\ "list" \notin jobs'[i].failed => jobs'[i].found = profile'
    <3>1. SUFFICES ASSUME NEW i \in DOMAIN jobs, jobs'[i].at = "reading"
                   PROVE  /\ jobs'[i].offers # {} => jobs'[i].offers = cached'
                          /\ jobs'[i].listed /\ "list" \notin jobs'[i].failed =>
                               jobs'[i].found = profile
      BY <1>1
    <3>2. CASE i = j
      BY <1>1, <2>4, <3>1, <3>2
    <3>3. CASE i # j
      BY <1>1, <2>1, <2>3, <3>1, <3>3 DEF Alone
    <3> QED
      BY <3>2, <3>3
  <2>6. \A i, k \in DOMAIN jobs' : Center!Running(i)' /\ Center!Running(k)' => i = k
    BY <1>1, <1>2, <2>1 DEF Alone
  <2>7. \A i \in DOMAIN jobs' : Owes(jobs'[i]) => snapshot'.busy
    BY <1>1, <1>2, <2>1 DEF Alone
  <2>8. ~snapshot'.busy /\ ~snapshot'.error /\ snapshot'.catalog # {} =>
          snapshot'.installed = profile' /\ cached' \subseteq snapshot'.catalog
    BY <2>1, <2>2 DEF Alone
  <2> QED
    BY <2>5, <2>6, <2>7, <2>8 DEF Alone
<1>5. snapshot' \in Snapshot /\ profile' \subseteq Plugins /\ crossed' \in BOOLEAN
  BY DEF CenterInv, CenterTypeOK
<1> QED
  BY <1>1, <1>3, <1>4, <1>5, OperationMoves

(* A cancellation marks the installation under way.                         *)
LEMMA CancelsKeeps ==
  ASSUME CenterInv, NEW j \in DOMAIN jobs, Center!Cancels(j)
  PROVE  CenterInv'
PROOF
<1>1. jobs' = [jobs EXCEPT ![installing].cancelled = TRUE]
      /\ UNCHANGED <<panel, snapshot, posted, crossed, profile, cached>>
  BY DEF Center!Cancels
<1>2. jobs \in Seq(CenterJob) /\ cached \subseteq Center!Sources /\ profile \subseteq Plugins
      /\ snapshot \in Snapshot /\ crossed \in BOOLEAN /\ posted \in Seq(Snapshot)
  BY DEF CenterInv, CenterTypeOK
<1>3. CASE installing \in DOMAIN jobs
  <2>1. PICK o : o = [jobs[installing] EXCEPT !.cancelled = TRUE]
    OBVIOUS
  <2>2. jobs[installing] \in CenterJob /\ JobSane(jobs[installing])
    BY <1>3 DEF CenterInv, CenterTypeOK
  <2>3. /\ o \in CenterJob /\ o.at = jobs[installing].at /\ o.kind = jobs[installing].kind
        /\ o.offers = jobs[installing].offers /\ o.listed = jobs[installing].listed
        /\ o.found = jobs[installing].found /\ o.failed = jobs[installing].failed
    BY <2>1, <2>2 DEF CenterJob
  <2>4. JobSane(o)
    BY <2>2, <2>3 DEF JobSane
  <2>5. jobs' = [jobs EXCEPT ![installing] = o]
    BY <1>1, <2>1
  <2> QED
    BY <1>1, <1>2, <1>3, <2>3, <2>4, <2>5, ReadingKeeps
<1>4. CASE installing \notin DOMAIN jobs
  <2>1. jobs' = jobs
    BY <1>1, <1>2, <1>4
  <2>2. PanelTyped(panel') /\ KeySound(panel') /\ KeyCurrent(panel') /\ panel'.snap = panel.snap
    BY <1>1 DEF CenterInv, CenterTypeOK
  <2> QED
    BY <1>1, <2>1, <2>2, PanelStays
<1> QED
  BY <1>3, <1>4

LEMMA LoadBeginsKeeps ==
  ASSUME CenterInv, NEW j \in DOMAIN jobs, Center!LoadBegins(j)
  PROVE  CenterInv'
PROOF
<1>1. jobs[j].at = "start" /\ UNCHANGED <<profile, panel, cached, crossed>>
  BY DEF Center!LoadBegins, Center!history
<1>2. JobSane(jobs[j]) /\ profile' \subseteq Plugins
  BY <1>1 DEF CenterInv, CenterTypeOK
<1>3. Center!Running(j) /\ jobs[j].offers = {} /\ ~jobs[j].listed
  BY <1>1, <1>2 DEF JobSane, Center!Running
<1>4. CASE Center!Publish(Center!Pending) /\ Center!Goes(j, "reading")
  BY <1>1, <1>3, <1>4, PendingKeeps
<1>5. CASE jobs[j].kind = "load" /\ Center!Goes(j, "done") /\ UNCHANGED <<snapshot, posted>>
  <2>1. ~Owes(jobs[j])
    BY <1>1, <1>5 DEF Owes
  <2> QED
    BY <1>1, <1>2, <1>3, <1>5, <2>1, QuietlyKeeps
<1>6. CASE Center!Failed(j)
  BY <1>1, <1>2, <1>3, <1>6, FailedKeeps
<1> QED
  BY <1>4, <1>5, <1>6 DEF Center!LoadBegins

LEMMA CatalogSettlesKeeps ==
  ASSUME CenterInv, NEW j \in DOMAIN jobs, Center!CatalogSettles(j)
  PROVE  CenterInv'
PROOF
<1>1. jobs[j].at = "reading" /\ UNCHANGED <<panel, snapshot, posted, crossed, profile>>
  BY DEF Center!CatalogSettles, Center!history
<1>2. PICK failed \in SUBSET {"topic", "curated"} :
        /\ cached' = cached \cup (Center!Sources \ failed)
        /\ jobs' = [jobs EXCEPT ![j].offers = (Center!Sources \ failed) \cup cached,
                                ![j].failed = @ \cup failed]
  BY DEF Center!CatalogSettles
<1>3. cached \subseteq Center!Sources /\ jobs[j] \in CenterJob /\ JobSane(jobs[j])
  BY DEF CenterInv, CenterTypeOK
<1>4. cached' \subseteq Center!Sources /\ cached \subseteq cached'
  BY <1>2, <1>3
<1>5. PICK o : o = [jobs[j] EXCEPT !.offers = cached', !.failed = @ \cup failed]
  OBVIOUS
<1>6. /\ o \in CenterJob /\ o.at = jobs[j].at /\ o.kind = jobs[j].kind /\ o.offers = cached'
      /\ o.listed = jobs[j].listed /\ o.found = jobs[j].found
      /\ ("list" \in o.failed <=> "list" \in jobs[j].failed)
  <2>1. failed \subseteq {"topic", "curated", "list"} /\ "list" \notin failed
    BY <1>2
  <2> QED
    BY <1>3, <1>4, <1>5, <2>1 DEF CenterJob
<1>7. (Center!Sources \ failed) \cup cached = cached'
  BY <1>2
<1>8. jobs' = [jobs EXCEPT ![j] = o]
  BY <1>2, <1>5, <1>7, <1>3 DEF CenterJob
<1>9. JobSane(o)
  BY <1>1, <1>6 DEF JobSane
<1> QED
  BY <1>1, <1>4, <1>6, <1>8, <1>9, ReadingKeeps

LEMMA ListSettlesKeeps ==
  ASSUME CenterInv, NEW j \in DOMAIN jobs, Center!ListSettles(j)
  PROVE  CenterInv'
PROOF
<1>1. jobs[j].at = "reading" /\ UNCHANGED <<panel, snapshot, posted, crossed, profile, cached>>
  BY DEF Center!ListSettles, Center!history
<1>2. PICK o : /\ jobs' = [jobs EXCEPT ![j] = o]
               /\ \/ o = [jobs[j] EXCEPT !.listed = TRUE, !.found = profile]
                  \/ o = [jobs[j] EXCEPT !.listed = TRUE, !.found = {}, !.failed = @ \cup {"list"}]
  <2>1. CASE jobs' = [jobs EXCEPT ![j].listed = TRUE, ![j].found = profile]
    <3>1. jobs' = [jobs EXCEPT ![j] = [jobs[j] EXCEPT !.listed = TRUE, !.found = profile]]
      BY <2>1
    <3> QED
      BY <3>1
  <2>2. CASE jobs' = [jobs EXCEPT ![j].listed = TRUE, ![j].found = {},
                                  ![j].failed = @ \cup {"list"}]
    <3>1. jobs' = [jobs EXCEPT ![j] = [jobs[j] EXCEPT !.listed = TRUE, !.found = {},
                                                      !.failed = @ \cup {"list"}]]
      BY <2>2
    <3> QED
      BY <3>1
  <2> QED
    BY <2>1, <2>2 DEF Center!ListSettles
<1>3. profile \subseteq Plugins /\ jobs[j] \in CenterJob /\ cached \subseteq Center!Sources
  BY DEF CenterInv, CenterTypeOK
<1>4. /\ o \in CenterJob /\ o.at = jobs[j].at /\ o.kind = jobs[j].kind
      /\ o.offers = jobs[j].offers /\ o.listed
      /\ o.found = profile \/ "list" \in o.failed
  <2>1. CASE o = [jobs[j] EXCEPT !.listed = TRUE, !.found = profile]
    BY <1>3, <2>1 DEF CenterJob
  <2>2. CASE o = [jobs[j] EXCEPT !.listed = TRUE, !.found = {}, !.failed = @ \cup {"list"}]
    <3>1. PICK failed : failed = jobs[j].failed \cup {"list"}
      OBVIOUS
    <3>2. failed \subseteq {"topic", "curated", "list"} /\ "list" \in failed
      BY <1>3, <3>1 DEF CenterJob
    <3>3. o = [jobs[j] EXCEPT !.listed = TRUE, !.found = {}, !.failed = failed]
      BY <2>2, <3>1
    <3> QED
      BY <1>3, <3>2, <3>3 DEF CenterJob
  <2> QED
    BY <1>2, <2>1, <2>2
<1>5. JobSane(o)
  BY <1>1, <1>4 DEF JobSane
<1> QED
  BY <1>1, <1>2, <1>3, <1>4, <1>5, ReadingKeeps

(* The snapshot at the end of a load says what was read.                    *)
LEMMA LoadEndsKeeps ==
  ASSUME CenterInv, NEW j \in DOMAIN jobs, Center!LoadEnds(j)
  PROVE  CenterInv'
PROOF
<1>1. PICK snap : snap = [catalog |-> jobs[j].offers, busy |-> FALSE,
                          error |-> jobs[j].failed # {},
                          installed |-> IF "list" \in jobs[j].failed THEN snapshot.installed
                                        ELSE jobs[j].found]
  OBVIOUS
<1>2. /\ jobs[j].at = "reading" /\ jobs[j].offers # {} /\ jobs[j].listed
      /\ Center!Goes(j, "done") /\ snapshot' = snap /\ posted' = Append(posted, snap)
      /\ UNCHANGED <<profile, cached, panel, crossed>>
  BY <1>1 DEF Center!LoadEnds, Center!Publish, Center!history
<1>3. jobs[j] \in CenterJob /\ snapshot \in Snapshot
  BY DEF CenterInv, CenterTypeOK
<1>4. /\ snap \in Snapshot /\ ~snap.busy /\ (~snap.error => jobs[j].failed = {})
      /\ snap.catalog = jobs[j].offers
      /\ ("list" \notin jobs[j].failed => snap.installed = jobs[j].found)
  <2>1. (jobs[j].failed # {}) \in BOOLEAN
    OBVIOUS
  <2> QED
    BY <1>1, <1>3, <2>1 DEF CenterJob, Snapshot
<1>5. Center!Running(j)
  BY <1>2 DEF Center!Running
<1>6. /\ jobs' \in Seq(CenterJob) /\ DOMAIN jobs' = DOMAIN jobs /\ jobs'[j].at = "done"
      /\ \A i \in DOMAIN jobs : i # j => jobs'[i] = jobs[i]
      /\ \A i \in DOMAIN jobs' : JobSane(jobs'[i])
  BY <1>2, <1>5, JobGoes
<1>7. BusyIsOwed'
  BY <1>2, <1>4 DEF BusyIsOwed
<1>8. ASSUME ~crossed'
      PROVE  Alone'
  <2>1. Alone
    BY <1>2, <1>8 DEF CenterInv
  <2>2. \A i \in DOMAIN jobs' : ~Center!Running(i)'
    BY <1>5, <1>6, <2>1 DEF Center!Running, Alone
  <2>3. \A i \in DOMAIN jobs' : ~Owes(jobs'[i]) /\ jobs'[i].at # "reading"
    BY <2>2 DEF Center!Running, Owes
  <2>4. ~snap.error => snap.installed = profile /\ cached \subseteq snap.catalog
    BY <1>2, <1>4, <2>1 DEF Alone
  <2> QED
    BY <1>2, <2>2, <2>3, <2>4 DEF Alone
<1>9. profile' \subseteq Plugins /\ cached' \subseteq Center!Sources /\ crossed' \in BOOLEAN
  BY <1>2 DEF CenterInv, CenterTypeOK
<1> QED
  BY <1>2, <1>4, <1>6, <1>7, <1>8, <1>9, OperationMoves

LEMMA CenterKeptByStep ==
  ASSUME Center!CenterAssumption, CenterInv, [Center!Next]_(Center!vars)
  PROVE  CenterInv'
PROOF
<1>1. ASSUME NEW j \in DOMAIN jobs,
             \/ Center!Answered(j) \/ Center!MutateBegins(j) \/ Center!MutateGoes(j)
             \/ Center!MutateLands(j) \/ Center!Cancels(j) \/ Center!LoadBegins(j)
             \/ Center!CatalogSettles(j) \/ Center!ListSettles(j) \/ Center!LoadEnds(j)
      PROVE  CenterInv'
  BY <1>1, AnsweredKeeps, MutateBeginsKeeps, MutateGoesKeeps, MutateLandsKeeps, CancelsKeeps,
     LoadBeginsKeeps, CatalogSettlesKeeps, ListSettlesKeeps, LoadEndsKeeps
<1>2. CASE Center!Opens \/ Center!Closes \/ Center!Recreated \/ Center!Delivered
  BY <1>2, CenterOpensKeeps, ClosesKeeps, RecreatedKeeps, DeliveredKeeps
<1>3. CASE Center!Types \/ Center!SearchFires
  BY <1>3, FiltersKeep
<1>4. CASE \E category \in Center!Sources : Center!Chooses(category)
  BY <1>4, FiltersKeep
<1>5. CASE Center!Refreshes
  <2>1. Suite \in Plugins
    BY DEF Center!CenterAssumption
  <2> QED
    BY <1>5, <2>1, ClicksKeeps DEF Center!Refreshes
<1>6. ASSUME NEW p \in Plugins, Center!Installs(p) \/ Center!Removes(p) \/ Center!Toggles(p)
      PROVE  CenterInv'
  BY <1>6, ClicksKeeps DEF Center!Installs, Center!Removes, Center!Toggles
<1>7. CASE UNCHANGED Center!vars
  <2>1. UNCHANGED <<profile, cached, snapshot, posted, panel, jobs, crossed>>
    BY <1>7 DEF Center!vars
  <2>2. PanelTyped(panel') /\ KeySound(panel') /\ KeyCurrent(panel') /\ panel'.snap = panel.snap
    BY <2>1 DEF CenterInv, CenterTypeOK
  <2> QED
    BY <2>1, <2>2, PanelStays
<1> QED
  BY <1>1, <1>2, <1>3, <1>4, <1>5, <1>6, <1>7 DEF Center!Next

LEMMA CenterImplies ==
  ASSUME CenterInv
  PROVE  Center!CenterSettles
PROOF
<1>1. Center!Quiet => \A j \in DOMAIN jobs : ~Owes(jobs[j])
  BY DEF Center!Quiet, Owes
<1>2. Center!Quiet => ~snapshot.busy /\ panel.snap \in {snapshot, Center!NoSnapshot}
  BY <1>1 DEF CenterInv, BusyIsOwed, LastIsPosted, Center!Quiet
<1>3. Center!BusyEnds
  BY <1>2 DEF Center!BusyEnds, Center!NoSnapshot
<1>4. Center!ListIsFiltered
  BY DEF Center!ListIsFiltered, CenterInv, KeySound, KeyCurrent
<1>5. Center!ShownIsInstalled
  BY <1>2 DEF Center!ShownIsInstalled, CenterInv, Alone
<1> QED
  BY <1>3, <1>4, <1>5 DEF Center!CenterSettles

-----------------------------------------------------------------------------
(* The composition.                                                         *)

ComponentInv ==
  /\ focus = "lists" => ListsInv
  /\ focus = "store" => StoreInv
  /\ focus = "settings" => SettingsInv
  /\ focus = "suite" => SuiteInv
  /\ focus = "import" => ImportInv
  /\ focus = "center" => CenterInv

Assumptions ==
  /\ Lists!ListsAssumption /\ Store!HistoryAssumption /\ Settings!SettingsAssumption
  /\ Center!CenterAssumption

LEMMA ComponentAssumptions == Assumptions
  BY SavedStateAssumption DEF Assumptions

(* The components start as they do by themselves.                           *)
LEMMA ComponentInit == Init => ComponentInv
  <1> SUFFICES ASSUME Init
               PROVE  ComponentInv
    OBVIOUS
  <1>1. Assumptions
    BY ComponentAssumptions
  <1>2. Lists!Init /\ Store!Init /\ Settings!Init /\ Routing!Init /\ Import!Init /\ Center!Init
    BY DEF Init
  <1>3. ListsInv
    BY <1>1, <1>2, ListsInit DEF Assumptions
  <1>4. StoreInv
    BY <1>1, <1>2, StoreInit DEF Assumptions
  <1>5. SettingsInv
    BY <1>1, <1>2, SettingsInit DEF Assumptions
  <1>6. SuiteInv
    BY <1>1, <1>2, SuiteInit DEF Assumptions
  <1>7. ImportInv
    BY <1>1, <1>2, ImportInit DEF Assumptions
  <1>8. CenterInv
    BY <1>1, <1>2, CenterInit DEF Assumptions
  <1> QED
    BY <1>3, <1>4, <1>5, <1>6, <1>7, <1>8 DEF ComponentInv

(* A step is one of the component that steps, which keeps its invariant.    *)
LEMMA ComponentStep == ComponentInv /\ [Next]_vars => ComponentInv'
  <1> SUFFICES ASSUME ComponentInv, [Next]_vars
               PROVE  ComponentInv'
    OBVIOUS
  <1>1. Assumptions
    BY ComponentAssumptions
  <1>2. focus' = focus
    BY DEF Next, vars, ListsStep, StoreSteps, SettingsStep, SuiteSteps, ImportSteps, CenterSteps
  <1>3. ASSUME focus = "lists"
        PROVE  ListsInv'
    <2>1. ListsStep \/ UNCHANGED vars
      BY <1>3 DEF Next, StoreSteps, SettingsStep, SuiteSteps, ImportSteps, CenterSteps
    <2>2. UNCHANGED vars => UNCHANGED Lists!vars
      BY DEF vars, listVars, Lists!vars, Lists!hostVars, Lists!connVars, Lists!listVars,
             Lists!restoreVars, Lists!metaVars, Lists!historyVars
    <2>3. [Lists!Next]_(Lists!vars)
      BY <2>1, <2>2 DEF ListsStep
    <2> QED
      BY <1>1, <1>3, <2>3, ListsKeptByStep DEF ComponentInv, Assumptions
  <1>4. ASSUME focus = "store"
        PROVE  StoreInv'
    <2>1. StoreSteps \/ UNCHANGED vars
      BY <1>4 DEF Next, ListsStep, SettingsStep, SuiteSteps, ImportSteps, CenterSteps
    <2>2. UNCHANGED vars => UNCHANGED Store!vars
      BY DEF vars, storeVars, Store!vars
    <2>3. Store!Next \/ UNCHANGED Store!vars
      BY <2>1, <2>2 DEF StoreSteps
    <2> QED
      BY <1>1, <1>4, <2>3, StoreKept, StoreStutters DEF ComponentInv, Assumptions
  <1>5. ASSUME focus = "settings"
        PROVE  SettingsInv'
    <2>1. SettingsStep \/ UNCHANGED vars
      BY <1>5 DEF Next, ListsStep, StoreSteps, SuiteSteps, ImportSteps, CenterSteps
    <2>2. UNCHANGED vars => UNCHANGED Settings!vars
      BY DEF vars, settingVars, Settings!vars, Settings!host, Settings!history, Settings!bounds
    <2>3. [Settings!Next]_(Settings!vars)
      BY <2>1, <2>2 DEF SettingsStep
    <2> QED
      BY <1>1, <1>5, <2>3, SettingsKept DEF ComponentInv, Assumptions
  <1>6. ASSUME focus = "suite"
        PROVE  SuiteInv'
    <2>1. SuiteSteps \/ UNCHANGED vars
      BY <1>6 DEF Next, ListsStep, StoreSteps, SettingsStep, ImportSteps, CenterSteps
    <2>2. UNCHANGED vars => UNCHANGED Routing!vars
      BY DEF vars, suiteVars, Routing!vars
    <2>3. [Routing!Next]_(Routing!vars)
      BY <2>1, <2>2 DEF SuiteSteps
    <2> QED
      BY <1>1, <1>6, <2>3, SuiteKeptByStep DEF ComponentInv
  <1>7. ASSUME focus = "import"
        PROVE  ImportInv'
    <2>1. ImportSteps \/ UNCHANGED vars
      BY <1>7 DEF Next, ListsStep, StoreSteps, SettingsStep, SuiteSteps, CenterSteps
    <2>2. UNCHANGED vars => UNCHANGED Import!vars
      BY DEF vars, importVars, Import!vars
    <2>3. [Import!Next]_(Import!vars)
      BY <2>1, <2>2 DEF ImportSteps
    <2> QED
      BY <1>1, <1>7, <2>3, ImportKeptByStep DEF ComponentInv
  <1>8. ASSUME focus = "center"
        PROVE  CenterInv'
    <2>1. CenterSteps \/ UNCHANGED vars
      BY <1>8 DEF Next, ListsStep, StoreSteps, SettingsStep, SuiteSteps, ImportSteps
    <2>2. UNCHANGED vars => UNCHANGED Center!vars
      BY DEF vars, centerVars, Center!vars
    <2>3. [Center!Next]_(Center!vars)
      BY <2>1, <2>2 DEF CenterSteps
    <2> QED
      BY <1>1, <1>8, <2>3, CenterKeptByStep DEF ComponentInv, Assumptions
  <1> QED
    BY <1>2, <1>3, <1>4, <1>5, <1>6, <1>7, <1>8 DEF ComponentInv

(* ArchiveState and SessionMetaStore: what the user restored or pinned      *)
(* before the host could hold it stays on disk until the host has it, and   *)
(* what is shown is what the next start reads.                              *)
THEOREM ListsAlwaysKept == Spec => []ListsKept
  <1>1. ComponentInv => ListsKept
    BY ListsImplies DEF ComponentInv, ListsKept, Of
  <1> QED
    BY <1>1, ComponentInit, ComponentStep, PTL DEF Spec

(* The shared history migration: a journal entry stands for a history that  *)
(* is in the target, and every log is one its author had, with the marks of *)
(* the forks made of it, whatever windows, crashes and backends do.         *)
THEOREM HistoryAlwaysKept == Spec => []HistoryKept
  <1>1. ComponentInv => HistoryKept
    BY StoreImplies DEF ComponentInv, HistoryKept, Of
  <1> QED
    BY <1>1, ComponentInit, ComponentStep, PTL DEF Spec

(* The migrations of the settings: where the runtime has the namespace of   *)
(* the providers, no key of an older build is lost, and none is hidden      *)
(* behind the header of a keyless provider.                                 *)
THEOREM KeysAlwaysInPlace ==
  ASSUME Settings!PiAi \in Namespaces
  PROVE  Spec => []KeysInPlace
  <1>1. ComponentInv => KeysInPlace
    <2>1. Settings!SettingsAssumption
      BY SavedStateAssumption
    <2> QED
      BY <2>1, SettingsImplies DEF ComponentInv, KeysInPlace, Of
  <1> QED
    BY <1>1, ComponentInit, ComponentStep, PTL DEF Spec

(* On a runtime without that namespace, too, the key and the relay of an    *)
(* older build reach the host, and no profile has a key and the header of   *)
(* keyless access: only the other providers are cleared unread there.       *)
THEOREM KeyAndRelayAlwaysHandedOver ==
  Spec => [](focus = "settings" => KeyAndRelayHandedOver /\ Settings!OneAuthorization)
  <1>1. ComponentInv => (focus = "settings" => KeyAndRelayHandedOver /\ Settings!OneAuthorization)
    <2>1. Settings!SettingsAssumption
      BY SavedStateAssumption
    <2> QED
      BY <2>1, SettingsImplies DEF ComponentInv
  <1> QED
    BY <1>1, ComponentInit, ComponentStep, PTL DEF Spec

(* The routing suite and the seeding of default plugins: whatever fails,    *)
(* crashes or runs in another window, a preset directory that no            *)
(* installation made and that did not come up while one was about to make   *)
(* it is never removed, and the seed marker is on disk only when every      *)
(* default plugin was installed at some time.  The plugin centre: with      *)
(* nothing under way its panel shows what is installed, filtered by what is *)
(* chosen, and a busy mark goes with its operation.                         *)
THEOREM PluginsAlwaysKept == Spec => []PluginsKept
  <1>1. ComponentInv => PluginsKept
    BY CenterImplies DEF ComponentInv, SuiteInv, PluginsKept, Of, Routing!UserPresetsSurvive,
       Routing!SeedIsComplete
  <1> QED
    BY <1>1, ComponentInit, ComponentStep, PTL DEF Spec

(* The import of archives: whatever is in them and whatever fails, the      *)
(* runtime is sent only to files that were extracted, and a temporary       *)
(* directory belongs to the import under way or was left by a crash or a    *)
(* removal that failed.                                                     *)
THEOREM ArchivesAlwaysImported == Spec => []ArchivesImported
  <1>1. ComponentInv => ArchivesImported
    BY DEF ComponentInv, ImportInv, ArchivesImported, Of, Import!ArchivesImported
  <1> QED
    BY <1>1, ComponentInit, ComponentStep, PTL DEF Spec
=============================================================================
