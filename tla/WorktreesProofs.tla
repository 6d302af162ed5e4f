--------------------------- MODULE WorktreesProofs ---------------------------
(***************************************************************************)
(* Proofs about Worktrees: what a start finds of the registry, what the     *)
(* sweep takes and what a merge throws away, for any sessions, edits and    *)
(* any number of crashes and failing git commands.                          *)
(***************************************************************************)
EXTENDS Worktrees, TLAPS

(* The copies of the registry, those under way included.                    *)
Copies == {records, memento, mirror} \cup writes

(* A session whose worktree is not registered yet.                          *)
Fresh(s) == creating[s] \in {"none", "preparing", "added", "shared"}

NothingTooEarly ==
  \A s \in Sessions :
    /\ Fresh(s) => s \notin live /\ \A c \in Copies : c[s] = "none"
    /\ creating[s] \in {"none", "preparing", "shared"} => ~Exists(trees[s])

(* What is in memory is in the Memento; the sweep saves at its end what it  *)
(* forgot.  A mirror that never was overtaken has the Memento, or will.     *)
RecordsSaved == \A s \in Sessions : records[s] # "none" => memento[s] = records[s]

MirrorFollows ==
  "mirror" \notin forgotten => memento = NoRecords \/ memento \in writes \/ mirror = memento

(* Nothing works on the worktrees before the records are recovered.         *)
RecoveryIsAlone ==
  boot = "recovering" =>
    /\ writes = {} /\ discarding = {} /\ sweep.pc = "off"
    /\ \A s \in Sessions : creating[s] \in {"none", "earlier"}

(* The sweep knows the sessions of earlier runs; a worktree it forgets is   *)
(* not there.                                                               *)
SweepKnows ==
  sweep.pc # "off" =>
    /\ sweep.at \in Sessions \ sweep.live /\ ~Fresh(sweep.at)
    /\ \A s \in live : creating[s] = "earlier" => s \in sweep.live
    /\ sweep.pc = "deleting" /\ "worktree" \notin forgotten => ~Exists(trees[sweep.at])

(* The worktree of a session is recorded, before the recovery in each copy  *)
(* that was not lost.                                                       *)
TreesRecorded ==
  "worktree" \notin forgotten =>
    \A s \in Sessions : (s \in live \/ creating[s] = "isolated") /\ Exists(trees[s]) =>
      /\ boot # "recovering" => records[s] # "none"
      /\ "memento" \notin forgotten => records[s] # "none"
      /\ "mirror" \notin forgotten => records[s] # "none" \/ mirror[s] # "none"

(* A base branch is guessed where both copies were lost, or for a worktree  *)
(* whose session was never created.                                         *)
GuessesNeeded ==
  "worktree" \notin forgotten =>
    \A s \in Sessions : s \in live \/ creating[s] # "earlier" =>
      \A c \in Copies : c[s] = "guessed" => {"memento", "mirror"} \subseteq forgotten

RegistryInv ==
  /\ NothingTooEarly /\ RecordsSaved /\ MirrorFollows /\ RecoveryIsAlone /\ SweepKnows
  /\ TreesRecorded /\ GuessesNeeded

(* A merge that found the checkout clean knows what came after; only such a *)
(* merge resets it.                                                         *)
MergeInv ==
  /\ base \subseteq published
  /\ \A s \in Sessions :
       /\ merging[s].pc # "none" /\ merging[s].clean =>
            main \cap EditsOf(User) \subseteq published \cup merging[s].news
       /\ merging[s].pc = "resetting" => merging[s].clean

-----------------------------------------------------------------------------
Records == [Sessions -> RecordKinds]
Merge == [pc : {"none", "probed", "merged", "committed", "moved", "resetting"},
          clean : BOOLEAN, tree : Tree, news : Tree]
Stages == {"none", "preparing", "added", "shared", "isolated", "failed", "done", "earlier"}

(* A branch that is not there holds no change.                              *)
LEMMA GoneIsNoTree ==
  /\ \A t \in Tree \cup {Gone} : t \ Gone \in Tree
  /\ \A t, h \in Tree \cup {Gone} : (t \ h) \ Gone \in Tree
  BY DEF Tree

LEMMA EditsAreChanges == \A who \in Sessions \cup {User} : EditsOf(who) \subseteq Changes
  BY DEF Changes

(* A field of a merge under way.                                            *)
LEMMA MergeTyped ==
  ASSUME NEW m \in Merge
  PROVE  /\ NoMerge \in Merge
         /\ \A pc \in {"none", "probed", "merged", "committed", "moved", "resetting"} :
              /\ [m EXCEPT !.pc = pc] \in Merge
              /\ \A t \in Tree : [m EXCEPT !.pc = pc, !.tree = t] \in Merge
         /\ \A n \in Tree : [m EXCEPT !.news = n] \in Merge
  BY DEF Merge, NoMerge, Tree

LEMMA MergeFields ==
  ASSUME NEW m \in Merge, NEW pc, NEW t
  PROVE  /\ [m EXCEPT !.pc = pc, !.tree = t].pc = pc
         /\ [m EXCEPT !.pc = pc, !.tree = t].clean = m.clean
         /\ [m EXCEPT !.pc = pc, !.tree = t].news = m.news
         /\ NoMerge.pc = "none"
  BY DEF Merge, NoMerge

LEMMA SpendTyped ==
  ASSUME TypeOK, NEW what \in {"create", "crash", "fail", "edit", "merge"}, Spend(what)
  PROVE  budget' \in [create : Nat, crash : Nat, fail : Nat, edit : Nat, merge : Nat]
  <1>1. budget \in [create : Nat, crash : Nat, fail : Nat, edit : Nat, merge : Nat]
    BY DEF TypeOK
  <1>2. budget[what] \in Nat /\ budget[what] > 0
    BY <1>1 DEF Spend
  <1>3. budget[what] - 1 \in Nat
    BY <1>2
  <1> QED
    BY <1>1, <1>3 DEF Spend

LEMMA TypeInit == Init => TypeOK
  <1> SUFFICES ASSUME Init PROVE TypeOK
    OBVIOUS
  <1>1. budget \in [create : Nat, crash : Nat, fail : Nat, edit : Nat, merge : Nat]
    BY WorktreesAssumption DEF Init
  <1>2. NoMerge \in Merge
    BY DEF NoMerge, Merge, Tree
  <1>3. NoSweep \in [pc : {"off", "removing", "deleting"}, live : SUBSET Sessions,
                     at : Sessions \cup {NoSession}]
    BY DEF NoSweep
  <1> QED
    BY <1>1, <1>2, <1>3 DEF Init, TypeOK, NoRecords, RecordKinds, Tree, Merge

LEMMA SaveTyped ==
  ASSUME TypeOK, NEW recs \in Records, Save(recs)
  PROVE  memento' \in Records /\ writes' \subseteq Records
  BY DEF TypeOK, Save, Records

(* What the registry holds, and the sweep that may go on to save it.        *)
LEMMA SweepTyped ==
  ASSUME TypeOK, NEW recs \in Records, NEW known \in SUBSET Sessions, SweepGoesOn(recs, known)
  PROVE  /\ memento' \in Records /\ writes' \subseteq Records
         /\ sweep' \in [pc : {"off", "removing", "deleting"}, live : SUBSET Sessions,
                        at : Sessions \cup {NoSession}]
  <1> DEFINE orphans == {s \in Sessions \ known : recs[s] # "none"}
  <1>1. CASE orphans = {}
    <2>1. sweep' = NoSweep /\ Save(recs)
      BY <1>1 DEF SweepGoesOn
    <2> QED
      BY <2>1, SaveTyped DEF NoSweep
  <1>2. CASE orphans # {}
    <2>1. /\ \E s \in orphans : sweep' = [pc |-> "removing", live |-> known, at |-> s]
          /\ UNCHANGED <<memento, writes>>
      BY <1>2 DEF SweepGoesOn
    <2>2. PICK s \in Sessions : sweep' = [pc |-> "removing", live |-> known, at |-> s]
      BY <2>1
    <2> QED
      BY <2>1, <2>2 DEF TypeOK, Records
  <1> QED
    BY <1>1, <1>2

LEMMA RecoveredTyped == TypeOK => Recovered \in Records
  BY DEF TypeOK, Recovered, Records, RecordKinds, RecordFromWorktree

(* Steps of a creation, a discard or a session.                             *)
LEMMA TypeOfSessions ==
  ASSUME TypeOK, NEW s \in Sessions,
         \/ BeginCreate(s) \/ CreateStep(s) \/ CallDiscard(s) \/ DiscardStep(s)
         \/ AgentEdits(s) \/ AgentCommits(s) \/ SessionRemoved(s)
  PROVE  TypeOK'
  <1>1. CASE BeginCreate(s)
    <2>1. budget' \in [create : Nat, crash : Nat, fail : Nat, edit : Nat, merge : Nat]
      BY <1>1, SpendTyped DEF BeginCreate
    <2> QED
      BY <1>1, <2>1 DEF BeginCreate, TypeOK, Goes, registryVars, gitVars, refVars
  <1>2. CASE AddWorktree(s)
    <2>1. budget' \in [create : Nat, crash : Nat, fail : Nat, edit : Nat, merge : Nat]
      BY <1>2, SpendTyped DEF AddWorktree, Fails, Succeeds, TypeOK
    <2>2. /\ trees' \in [Sessions -> Tree \cup {Gone}] /\ heads' \in [Sessions -> Tree \cup {Gone}]
      BY <1>2 DEF AddWorktree, TypeOK
    <2>3. creating' \in [Sessions -> Stages]
      BY <1>2 DEF AddWorktree, TypeOK, Goes, Stages
    <2> QED
      BY <1>2, <2>1, <2>2, <2>3 DEF AddWorktree, TypeOK, Stages, registryVars, refVars
  <1>3. CASE Register(s)
    <2>1. records' \in Records
      BY <1>3 DEF Register, SetRecord, TypeOK, Records, RecordKinds
    <2>2. memento' \in Records /\ writes' \subseteq Records
      BY <1>3, <2>1, SaveTyped DEF Register, SetRecord
    <2> QED
      BY <1>3, <2>1, <2>2 DEF Register, TypeOK, Records, Goes, gitVars, refVars
  <1>4. CASE SessionCreated(s)
    BY <1>4 DEF SessionCreated, TypeOK, Goes, registryVars, gitVars, refVars
  <1>5. CASE CreateFails(s)
    BY <1>5 DEF CreateFails, TypeOK, Goes, registryVars, gitVars, refVars
  <1>6. CASE CallDiscard(s)
    BY <1>6 DEF CallDiscard, TypeOK, registryVars, gitVars, refVars
  <1>7. CASE DiscardRemoves(s)
    <2>1. budget' \in [create : Nat, crash : Nat, fail : Nat, edit : Nat, merge : Nat]
      BY <1>7, SpendTyped DEF DiscardRemoves, Fails, Succeeds, TypeOK
    <2> QED
      BY <1>7, <2>1 DEF DiscardRemoves, TypeOK, RemoveTree, registryVars, refVars
  <1>8. CASE DiscardForgets(s)
    <2>1. records' \in Records
      BY <1>8 DEF DiscardForgets, SetRecord, TypeOK, Records, RecordKinds
    <2>2. memento' \in Records /\ writes' \subseteq Records
      BY <1>8, <2>1, SaveTyped DEF DiscardForgets, SetRecord
    <2> QED
      BY <1>8, <2>1, <2>2 DEF DiscardForgets, TypeOK, Records, RemoveBranch, refVars
  <1>9. CASE AgentEdits(s)
    <2>1. budget' \in [create : Nat, crash : Nat, fail : Nat, edit : Nat, merge : Nat]
      BY <1>9, SpendTyped DEF AgentEdits
    <2>2. PICK c \in EditsOf(s) \ trees[s] : trees' = [trees EXCEPT ![s] = @ \cup {c}]
      BY <1>9 DEF AgentEdits
    <2>3. c \in Changes
      BY EditsAreChanges
    <2>4. trees[s] \in Tree /\ trees \in [Sessions -> Tree \cup {Gone}]
      BY <1>9 DEF AgentEdits, Exists, TypeOK
    <2>5. trees' \in [Sessions -> Tree \cup {Gone}]
      BY <2>2, <2>3, <2>4 DEF Tree
    <2> QED
      BY <1>9, <2>1, <2>5 DEF AgentEdits, TypeOK, memoryVars, refVars
  <1>10. CASE AgentCommits(s)
    BY <1>10 DEF AgentCommits, TypeOK, memoryVars, refVars
  <1>11. CASE SessionRemoved(s)
    BY <1>11 DEF SessionRemoved, TypeOK, memoryVars, gitVars, refVars
  <1> QED
    BY <1>1, <1>2, <1>3, <1>4, <1>5, <1>6, <1>7, <1>8, <1>9, <1>10, <1>11 DEF CreateStep, DiscardStep

(* Steps of a merge.                                                        *)
LEMMA TypeOfMerges ==
  ASSUME TypeOK, NEW s \in Sessions, BeginMerge(s) \/ MergeStep(s)
  PROVE  TypeOK'
  <1>1. merging \in [Sessions -> Merge] /\ merging[s] \in Merge /\ trees[s] \in Tree \cup {Gone}
        /\ heads[s] \in Tree \cup {Gone} /\ base \in Tree /\ budget \in [create : Nat, crash : Nat, fail : Nat, edit : Nat, merge : Nat]
    BY DEF TypeOK, Merge
  <1>2. merging[s].tree \in Tree
    BY <1>1 DEF Merge
  <1>3. SUFFICES /\ merging' \in [Sessions -> Merge] /\ temps' \subseteq Sessions
                 /\ base' \in Tree /\ main' \in Tree /\ published' \in Tree
                 /\ budget' \in [create : Nat, crash : Nat, fail : Nat, edit : Nat, merge : Nat]
                 /\ UNCHANGED <<registryVars, creating, discarding, sweep, boot, listed, trees, heads, live>>
    BY DEF TypeOK, Merge, registryVars
  <1>4. CASE BeginMerge(s)
    <2>1. budget' \in [create : Nat, crash : Nat, fail : Nat, edit : Nat, merge : Nat]
      BY <1>4, SpendTyped DEF BeginMerge
    <2>2. PICK clean \in BOOLEAN : merging' = [merging EXCEPT ![s] = [NoMerge EXCEPT !.pc = "probed", !.clean = clean]]
      BY <1>4 DEF BeginMerge, MergeGoes
    <2>3. [NoMerge EXCEPT !.pc = "probed", !.clean = clean] \in Merge
      BY DEF NoMerge, Merge, Tree
    <2> QED
      BY <1>1, <1>4, <2>1, <2>2, <2>3 DEF BeginMerge, TypeOK, gitVars, refVars
  <1>5. CASE AddTemp(s)
    <2>1. base \cup (heads[s] \ Gone) \in Tree
      BY <1>1, GoneIsNoTree DEF Tree
    <2>2. [merging[s] EXCEPT !.pc = "merged", !.tree = base \cup (heads[s] \ Gone)] \in Merge /\ NoMerge \in Merge
      BY <1>1, <2>1, MergeTyped
    <2>3. merging' \in [Sessions -> Merge]
      BY <1>1, <1>5, <2>2 DEF AddTemp, MergeGoes, MergeEnds
    <2> QED
      BY <1>1, <1>5, <2>3 DEF AddTemp, Succeeds, TypeOK, refVars
  <1>6. CASE ApplyPatch(s)
    <2>1. PICK patch \in {(trees[s] \ heads[s]) \ Gone, {}} :
            IF patch \cap merging[s].tree # {} \/ (patch = {} /\ (heads[s] \ Gone) = base)
            THEN MergeEnds(s) /\ RemoveTemp(s)
            ELSE /\ MergeGoes(s, [merging[s] EXCEPT !.pc = "committed", !.tree = @ \cup patch])
                 /\ UNCHANGED <<temps, budget>>
      BY <1>6 DEF ApplyPatch
    <2>2. patch \in Tree /\ merging[s].tree \cup patch \in Tree
      BY <1>1, <1>2, <2>1, GoneIsNoTree DEF Tree
    <2>3. [merging[s] EXCEPT !.pc = "committed", !.tree = merging[s].tree \cup patch] \in Merge /\ NoMerge \in Merge
      BY <1>1, <2>2, MergeTyped
    <2>4. merging' \in [Sessions -> Merge]
      <3>1. MergeEnds(s) \/ MergeGoes(s, [merging[s] EXCEPT !.pc = "committed", !.tree = merging[s].tree \cup patch])
        BY <2>1
      <3> QED
        BY <1>1, <2>3, <3>1 DEF MergeGoes, MergeEnds
    <2>5. temps' \subseteq Sessions /\ budget' \in [create : Nat, crash : Nat, fail : Nat, edit : Nat, merge : Nat]
      BY <1>1, <2>1, SpendTyped DEF RemoveTemp, Fails, Succeeds, TypeOK
    <2> QED
      BY <1>6, <2>4, <2>5 DEF ApplyPatch, TypeOK, refVars
  <1>7. CASE UpdateRef(s)
    <2>1. merging' \in [Sessions -> Merge]
      BY <1>1, <1>7, MergeTyped DEF UpdateRef, MergeGoes
    <2>2. published' \in Tree
      BY <1>2, <1>7 DEF UpdateRef, TypeOK, Tree
    <2> QED
      BY <1>1, <1>2, <1>7, <2>1, <2>2 DEF UpdateRef, TypeOK
  <1>8. CASE MergeCleansUp(s)
    <2>1. merging' \in [Sessions -> Merge]
      BY <1>1, <1>8, MergeTyped DEF MergeCleansUp, MergeGoes, MergeEnds
    <2>2. temps' \subseteq Sessions /\ budget' \in [create : Nat, crash : Nat, fail : Nat, edit : Nat, merge : Nat]
      BY <1>1, <1>8, SpendTyped DEF MergeCleansUp, Fails, Succeeds, TypeOK
    <2> QED
      BY <1>8, <2>1, <2>2 DEF MergeCleansUp, TypeOK, refVars
  <1>9. CASE ResetMain(s)
    <2>1. merging' \in [Sessions -> Merge]
      BY <1>1, <1>9, MergeTyped DEF ResetMain, MergeGoes, MergeEnds
    <2> QED
      BY <1>1, <1>9, <2>1 DEF ResetMain, TypeOK
  <1> QED
    BY <1>4, <1>5, <1>6, <1>7, <1>8, <1>9 DEF MergeStep

LEMMA TypeOfRest ==
  ASSUME TypeOK,
         \/ MirrorWritten \/ Recover \/ ListAndSweep \/ RefreshList \/ SweepStep
         \/ UserEdits \/ UserCommits \/ Crash
  PROVE  TypeOK'
  <1>1. CASE MirrorWritten
    BY <1>1 DEF MirrorWritten, TypeOK, memoryVars, gitVars, refVars
  <1>2. CASE Recover
    <2>1. records' \in Records
      BY <1>2, RecoveredTyped DEF Recover
    <2>2. memento' \in Records /\ writes' \subseteq Records
      BY <1>2, <2>1, SaveTyped DEF Recover, TypeOK, Records
    <2> QED
      BY <1>2, <2>1, <2>2 DEF Recover, TypeOK, Records, gitVars, refVars
  <1>3. CASE ListAndSweep
    <2>1. /\ memento' \in Records /\ writes' \subseteq Records
          /\ sweep' \in [pc : {"off", "removing", "deleting"}, live : SUBSET Sessions,
                         at : Sessions \cup {NoSession}]
      BY <1>3, SweepTyped DEF ListAndSweep, TypeOK, Records
    <2> QED
      BY <1>3, <2>1 DEF ListAndSweep, TypeOK, Records, gitVars, refVars
  <1>4. CASE RefreshList
    BY <1>4 DEF RefreshList, TypeOK, registryVars, gitVars, refVars
  <1>5. CASE \E s \in Sessions : SweepRemoves(s)
    <2>1. PICK s \in Sessions : SweepRemoves(s)
      BY <1>5
    <2>2. budget' \in [create : Nat, crash : Nat, fail : Nat, edit : Nat, merge : Nat]
      BY <2>1, SpendTyped DEF SweepRemoves, Fails, Succeeds, TypeOK
    <2>3. sweep' \in [pc : {"off", "removing", "deleting"}, live : SUBSET Sessions,
                      at : Sessions \cup {NoSession}]
      BY <2>1 DEF SweepRemoves, TypeOK
    <2>4. trees' \in [Sessions -> Tree \cup {Gone}] /\ forgotten' \subseteq {"memento", "mirror", "worktree"}
      BY <2>1 DEF SweepRemoves, RemoveTree, TypeOK
    <2> QED
      BY <2>1, <2>2, <2>3, <2>4 DEF SweepRemoves, TypeOK, refVars
  <1>6. CASE SweepForgets
    <2>1. records' \in Records
      BY <1>6 DEF SweepForgets, TypeOK, Records, RecordKinds
    <2>2. sweep.live \in SUBSET Sessions
      BY DEF TypeOK
    <2>3. /\ memento' \in Records /\ writes' \subseteq Records
          /\ sweep' \in [pc : {"off", "removing", "deleting"}, live : SUBSET Sessions,
                         at : Sessions \cup {NoSession}]
      BY <1>6, <2>1, <2>2, SweepTyped DEF SweepForgets
    <2> QED
      BY <1>6, <2>1, <2>3 DEF SweepForgets, RemoveBranch, TypeOK, Records, refVars
  <1>7. CASE UserEdits
    <2>1. budget' \in [create : Nat, crash : Nat, fail : Nat, edit : Nat, merge : Nat]
      BY <1>7, SpendTyped DEF UserEdits
    <2>2. PICK c \in EditsOf(User) :
            /\ main' = main \cup {c}
            /\ merging' = [s \in Sessions |-> IF merging[s].pc = "none" THEN merging[s]
                                              ELSE [merging[s] EXCEPT !.news = @ \cup {c}]]
      BY <1>7 DEF UserEdits
    <2>3. main' \in Tree
      BY <2>2, EditsAreChanges DEF TypeOK, Tree
    <2>4. ASSUME NEW s \in Sessions PROVE merging'[s] \in Merge
      <3>1. merging[s] \in Merge /\ merging[s].news \in Tree
        BY DEF TypeOK, Merge
      <3>2. merging[s].news \cup {c} \in Tree
        BY <3>1, EditsAreChanges DEF Tree
      <3> QED
        BY <2>2, <3>1, <3>2, MergeTyped
    <2>5. merging' \in [Sessions -> Merge]
      BY <2>2, <2>4
    <2> QED
      BY <1>7, <2>1, <2>3, <2>5 DEF UserEdits, TypeOK, Merge, registryVars
  <1>8. CASE UserCommits
    <2>1. base' \in Tree /\ published' \in Tree
      BY <1>8 DEF UserCommits, TypeOK, Tree
    <2> QED
      BY <1>8, <2>1 DEF UserCommits, TypeOK, memoryVars
  <1>9. CASE Crash
    <2>1. budget' \in [create : Nat, crash : Nat, fail : Nat, edit : Nat, merge : Nat]
      BY <1>9, SpendTyped DEF Crash
    <2>2. memento' \in Records /\ records' \in Records /\ mirror' \in Records
      <3>1. memento \in Records /\ mirror \in Records /\ NoRecords \in Records
        BY DEF TypeOK, Records, NoRecords, RecordKinds
      <3> QED
        BY <1>9, <3>1 DEF Crash
    <2>3. forgotten' \subseteq {"memento", "mirror", "worktree"}
      BY <1>9 DEF Crash, TypeOK
    <2>4. sweep' \in [pc : {"off", "removing", "deleting"}, live : SUBSET Sessions,
                      at : Sessions \cup {NoSession}]
      BY <1>9 DEF Crash, NoSweep
    <2>5. merging' \in [Sessions -> Merge]
      <3>1. NoMerge \in Merge
        BY DEF NoMerge, Merge, Tree
      <3> QED
        BY <1>9, <3>1 DEF Crash
    <2>6. creating' \in [Sessions -> Stages]
      BY <1>9 DEF Crash, Stages
    <2> QED
      BY <1>9, <2>1, <2>2, <2>3, <2>4, <2>5, <2>6 DEF Crash, TypeOK, Records, Merge, Stages, gitVars, refVars
  <1> QED
    BY <1>1, <1>2, <1>3, <1>4, <1>5, <1>6, <1>7, <1>8, <1>9 DEF SweepStep

LEMMA TypeInductive == TypeOK /\ [Next]_vars => TypeOK'
  <1> SUFFICES ASSUME TypeOK, [Next]_vars PROVE TypeOK'
    OBVIOUS
  <1>1. CASE UNCHANGED vars
    BY <1>1 DEF TypeOK, vars, memoryVars, gitVars, refVars
  <1>2. CASE Next
    BY <1>2, TypeOfSessions, TypeOfMerges, TypeOfRest DEF Next
  <1> QED
    BY <1>1, <1>2

(* Every variable holds what the program can put there; in particular a     *)
(* merge never carries a branch that is not there.                          *)
THEOREM TypeCorrect == Spec => []TypeOK
  BY TypeInit, TypeInductive, PTL DEF Spec

-----------------------------------------------------------------------------
LEMMA RegistryInit == Init => RegistryInv
  <1> SUFFICES ASSUME Init PROVE RegistryInv
    OBVIOUS
  <1>1. Copies = {NoRecords} /\ \A s \in Sessions : NoRecords[s] = "none"
    BY DEF Init, Copies, NoRecords
  <1>2. \A s \in Sessions : ~Exists(trees[s])
    BY DEF Init, Exists
  <1> QED
    BY <1>1, <1>2 DEF Init, RegistryInv, NothingTooEarly, RecordsSaved, MirrorFollows, RecoveryIsAlone,
       SweepKnows, TreesRecorded, GuessesNeeded, NoSweep

(* Most steps leave the registry, the creations and the sweep alone, and    *)
(* add no worktree.                                                         *)
LEMMA RegistryRests ==
  ASSUME TypeOK, RegistryInv, UNCHANGED <<registryVars, sweep, boot, creating>>, live' \subseteq live,
         \A s \in Sessions : Exists(trees'[s]) => Exists(trees[s]),
         boot = "recovering" => discarding' = discarding
  PROVE  RegistryInv'
  <1>1. Copies' = Copies
    BY DEF Copies, registryVars
  <1>2. \A s \in Sessions : Fresh(s)' <=> Fresh(s)
    BY DEF Fresh
  <1>3. NothingTooEarly'
    BY <1>1, <1>2 DEF RegistryInv, NothingTooEarly, Exists
  <1>4. RecordsSaved' /\ MirrorFollows' /\ RecoveryIsAlone'
    BY DEF RegistryInv, RecordsSaved, MirrorFollows, RecoveryIsAlone, registryVars
  <1>5. SweepKnows'
    BY <1>2 DEF RegistryInv, SweepKnows, registryVars
  <1>6. TreesRecorded'
    BY DEF RegistryInv, TreesRecorded, registryVars
  <1>7. GuessesNeeded'
    BY <1>1 DEF RegistryInv, GuessesNeeded, registryVars
  <1> QED
    BY <1>3, <1>4, <1>5, <1>6, <1>7 DEF RegistryInv

(* What a creation does before its worktree is registered.                  *)
LEMMA BeginningsSafe ==
  ASSUME TypeOK, RegistryInv, NEW s \in Sessions, BeginCreate(s) \/ AddWorktree(s)
  PROVE  RegistryInv'
  <1>1. /\ UNCHANGED <<registryVars, discarding, sweep, boot, live>> /\ Fresh(s) /\ Fresh(s)'
        /\ creating[s] \in {"none", "preparing"} /\ creating'[s] \in {"preparing", "added", "shared"}
        /\ \A t \in Sessions \ {s} : creating'[t] = creating[t] /\ trees'[t] = trees[t]
        /\ creating'[s] \in {"preparing", "shared"} => trees'[s] = trees[s]
    BY DEF BeginCreate, AddWorktree, Goes, Fresh, TypeOK, gitVars
  <1>2. Copies' = Copies
    BY <1>1 DEF Copies, registryVars
  <1>3. \A t \in Sessions : Fresh(t)' <=> Fresh(t)
    BY <1>1 DEF Fresh
  <1>4. s \notin live /\ sweep.pc # "off" => sweep.at # s
    BY <1>1 DEF RegistryInv, NothingTooEarly, SweepKnows
  <1>5. NothingTooEarly'
    BY <1>1, <1>2, <1>3 DEF RegistryInv, NothingTooEarly
  <1>6. RecordsSaved' /\ MirrorFollows'
    BY <1>1 DEF RegistryInv, RecordsSaved, MirrorFollows, registryVars
  <1>7. RecoveryIsAlone'
    <2>1. boot # "recovering"
      BY DEF RegistryInv, RecoveryIsAlone, BeginCreate, AddWorktree
    <2> QED
      BY <1>1, <2>1 DEF RecoveryIsAlone
  <1>8. SweepKnows'
    <2>1. \A t \in live : creating'[t] = "earlier" => creating[t] = "earlier"
      BY <1>1, <1>4 DEF TypeOK
    <2> QED
      BY <1>1, <1>4, <2>1 DEF RegistryInv, SweepKnows, Fresh, registryVars
  <1>9. TreesRecorded'
    BY <1>1 DEF RegistryInv, TreesRecorded, NothingTooEarly, registryVars
  <1>10. GuessesNeeded'
    <2>1. \A c \in Copies : c[s] = "none"
      BY <1>1 DEF RegistryInv, NothingTooEarly
    <2> QED
      BY <1>1, <1>2, <2>1 DEF RegistryInv, GuessesNeeded, registryVars
  <1> QED
    BY <1>5, <1>6, <1>7, <1>8, <1>9, <1>10 DEF RegistryInv

(* A record that is saved is in the Memento and on its way to the mirror.   *)
LEMMA SavedCopies ==
  ASSUME TypeOK, NEW recs \in Records, Save(recs), mirror' = mirror
  PROVE  /\ memento' = recs
         /\ recs = NoRecords \/ recs \in writes'
         /\ writes \subseteq writes'
         /\ \A c \in {memento', mirror'} \cup writes' : c \in Copies \/ c = recs
  BY DEF Save, Copies

LEMMA RegisterSafe ==
  ASSUME TypeOK, RegistryInv, NEW s \in Sessions, Register(s)
  PROVE  RegistryInv'
  <1>1. /\ UNCHANGED <<mirror, forgotten, discarding, sweep, boot, live, trees>>
        /\ creating[s] = "added" /\ creating'[s] = "isolated" /\ Fresh(s) /\ ~Fresh(s)'
        /\ \A t \in Sessions \ {s} : creating'[t] = creating[t] /\ records'[t] = records[t]
        /\ records'[s] = "exact" /\ records' \in Records /\ Save(records')
    BY DEF Register, SetRecord, Goes, Fresh, TypeOK, gitVars, Records, RecordKinds
  <1>2. /\ memento' = records' /\ (records' = NoRecords \/ records' \in writes') /\ writes \subseteq writes'
        /\ \A c \in Copies' : c \in Copies \/ c = records'
    BY <1>1, SavedCopies DEF Copies
  <1>3. \A t \in Sessions \ {s} : Fresh(t)' <=> Fresh(t)
    BY <1>1 DEF Fresh
  <1>4. /\ s \notin live /\ boot # "recovering"
        /\ sweep.pc # "off" => sweep.at # s
        /\ \A c \in Copies : c[s] = "none"
    BY <1>1 DEF RegistryInv, NothingTooEarly, SweepKnows, RecoveryIsAlone
  <1>5. \A t \in Sessions \ {s} : \A c \in Copies' : c \in Copies \/ c[t] = records[t]
    BY <1>1, <1>2
  <1>6. records \in Copies
    BY DEF Copies
  <1>7. NothingTooEarly'
    BY <1>1, <1>3, <1>5, <1>6 DEF RegistryInv, NothingTooEarly
  <1>8. RecordsSaved' /\ MirrorFollows'
    BY <1>1, <1>2 DEF RegistryInv, RecordsSaved, MirrorFollows
  <1>9. RecoveryIsAlone'
    BY <1>1, <1>4 DEF RecoveryIsAlone
  <1>10. SweepKnows'
    <2>1. \A t \in live : creating'[t] = "earlier" => creating[t] = "earlier"
      BY <1>1, <1>4 DEF TypeOK
    <2> QED
      BY <1>1, <1>4, <2>1 DEF RegistryInv, SweepKnows, Fresh
  <1>11. TreesRecorded'
    BY <1>1, <1>4 DEF RegistryInv, TreesRecorded
  <1>12. GuessesNeeded'
    <2>1. \A c \in Copies' : c[s] # "guessed"
      BY <1>1, <1>2, <1>4
    <2> QED
      BY <1>1, <1>5, <1>6, <2>1 DEF RegistryInv, GuessesNeeded
  <1> QED
    BY <1>7, <1>8, <1>9, <1>10, <1>11, <1>12 DEF RegistryInv

(* The session has its worktree, or shares the checkout.                    *)
LEMMA EndsOfCreateSafe ==
  ASSUME TypeOK, RegistryInv, NEW s \in Sessions, SessionCreated(s) \/ CreateFails(s)
  PROVE  RegistryInv'
  <1>1. /\ UNCHANGED <<registryVars, sweep, boot, trees>>
        /\ creating[s] \in {"isolated", "shared"} /\ creating'[s] \in {"done", "failed"} /\ ~Fresh(s)'
        /\ \A t \in Sessions \ {s} : creating'[t] = creating[t] /\ (t \in live' <=> t \in live)
    BY DEF SessionCreated, CreateFails, Goes, Fresh, TypeOK, gitVars
  <1>2. Copies' = Copies
    BY <1>1 DEF Copies, registryVars
  <1>3. \A t \in Sessions \ {s} : Fresh(t)' <=> Fresh(t)
    BY <1>1 DEF Fresh
  <1>4. boot # "recovering"
    BY <1>1 DEF RegistryInv, RecoveryIsAlone
  <1>5. NothingTooEarly'
    BY <1>1, <1>2, <1>3 DEF RegistryInv, NothingTooEarly
  <1>6. RecordsSaved' /\ MirrorFollows'
    BY <1>1 DEF RegistryInv, RecordsSaved, MirrorFollows, registryVars
  <1>7. RecoveryIsAlone'
    BY <1>1, <1>4 DEF RecoveryIsAlone
  <1>8. SweepKnows'
    <2>1. live' \subseteq Sessions
      BY DEF SessionCreated, CreateFails, TypeOK
    <2> QED
      BY <1>1, <1>3, <2>1 DEF RegistryInv, SweepKnows, registryVars
  <1>9. TreesRecorded'
    BY <1>1, <1>4 DEF RegistryInv, TreesRecorded, NothingTooEarly, registryVars
  <1>10. GuessesNeeded'
    BY <1>1, <1>2 DEF RegistryInv, GuessesNeeded, registryVars
  <1> QED
    BY <1>5, <1>6, <1>7, <1>8, <1>9, <1>10 DEF RegistryInv

(* discard forgets the record of a worktree that is gone.                   *)
LEMMA DiscardForgetsSafe ==
  ASSUME TypeOK, RegistryInv, NEW s \in Sessions, DiscardForgets(s)
  PROVE  RegistryInv'
  <1>1. /\ UNCHANGED <<mirror, forgotten, sweep, boot, live, trees, creating>>
        /\ boot # "recovering" /\ ~Exists(trees[s])
        /\ \A t \in Sessions \ {s} : records'[t] = records[t]
        /\ records'[s] = "none" /\ records' \in Records /\ Save(records')
    BY DEF DiscardForgets, SetRecord, TypeOK, Records, RecordKinds, RegistryInv, RecoveryIsAlone
  <1>2. /\ memento' = records' /\ (records' = NoRecords \/ records' \in writes') /\ writes \subseteq writes'
        /\ \A c \in Copies' : c \in Copies \/ c = records'
    BY <1>1, SavedCopies DEF Copies
  <1>3. \A t \in Sessions : Fresh(t)' <=> Fresh(t)
    BY <1>1 DEF Fresh
  <1>4. \A t \in Sessions : \A c \in Copies' : c \in Copies \/ c[t] = records[t] \/ c[t] = "none"
    BY <1>1, <1>2
  <1>5. records \in Copies
    BY DEF Copies
  <1>6. NothingTooEarly'
    BY <1>1, <1>3, <1>4, <1>5 DEF RegistryInv, NothingTooEarly
  <1>7. RecordsSaved' /\ MirrorFollows' /\ RecoveryIsAlone'
    BY <1>1, <1>2 DEF RegistryInv, RecordsSaved, MirrorFollows, RecoveryIsAlone
  <1>8. SweepKnows'
    BY <1>1, <1>3 DEF RegistryInv, SweepKnows
  <1>9. TreesRecorded'
    BY <1>1 DEF RegistryInv, TreesRecorded
  <1>10. GuessesNeeded'
    BY <1>1, <1>4, <1>5 DEF RegistryInv, GuessesNeeded
  <1> QED
    BY <1>6, <1>7, <1>8, <1>9, <1>10 DEF RegistryInv

(* A write that lands while the Memento already differs is one too late.    *)
LEMMA MirrorWrittenSafe ==
  ASSUME TypeOK, RegistryInv, MirrorWritten
  PROVE  RegistryInv'
  <1>1. PICK w \in writes :
          /\ mirror' = w /\ writes' = writes \ {w}
          /\ forgotten' = forgotten \cup (IF w = memento THEN {} ELSE {"mirror"})
          /\ UNCHANGED <<memoryVars, memento, gitVars, live>>
    BY DEF MirrorWritten
  <1>2. /\ UNCHANGED <<records, memento, creating, sweep, boot, trees, live>>
        /\ Copies' \subseteq Copies /\ forgotten \subseteq forgotten' /\ boot # "recovering"
        /\ ("worktree" \in forgotten' <=> "worktree" \in forgotten)
        /\ ("memento" \in forgotten' <=> "memento" \in forgotten)
    BY <1>1 DEF memoryVars, gitVars, Copies, RegistryInv, RecoveryIsAlone
  <1>3. NothingTooEarly'
    BY <1>2 DEF RegistryInv, NothingTooEarly, Fresh
  <1>4. RecordsSaved' /\ MirrorFollows'
    BY <1>1, <1>2 DEF RegistryInv, RecordsSaved, MirrorFollows
  <1>5. RecoveryIsAlone'
    BY <1>2 DEF RecoveryIsAlone
  <1>6. SweepKnows'
    BY <1>2 DEF RegistryInv, SweepKnows, Fresh
  <1>7. TreesRecorded'
    BY <1>2 DEF RegistryInv, TreesRecorded
  <1>8. GuessesNeeded'
    BY <1>2 DEF RegistryInv, GuessesNeeded
  <1> QED
    BY <1>3, <1>4, <1>5, <1>6, <1>7, <1>8 DEF RegistryInv

(* recover: what neither copy has is guessed.                               *)
LEMMA RecoverSafe ==
  ASSUME TypeOK, RegistryInv, Recover
  PROVE  RegistryInv'
  <1>1. /\ UNCHANGED <<mirror, forgotten, sweep, live, trees, creating, discarding>>
        /\ boot = "recovering" /\ boot' = "listing" /\ records' = Recovered
        /\ writes = {} /\ sweep.pc = "off"
    BY DEF Recover, gitVars, RegistryInv, RecoveryIsAlone
  <1>2. \/ records' = records /\ UNCHANGED <<memento, writes>>
        \/ records' # records /\ Save(records')
    BY DEF Recover
  <1>3. /\ records' \in Records
        /\ \A s \in Sessions :
             /\ records[s] # "none" => records'[s] = records[s]
             /\ records[s] = "none" /\ ~Exists(trees[s]) => records'[s] = "none"
             /\ records[s] = "none" /\ Exists(trees[s]) /\ mirror[s] # "none" => records'[s] = mirror[s]
             /\ records[s] = "none" /\ Exists(trees[s]) /\ mirror[s] = "none" => records'[s] = "guessed"
    BY <1>1, RecoveredTyped DEF Recovered, RecordFromWorktree
  <1>4. /\ \A s \in Sessions : records'[s] # "none" => memento'[s] = records'[s]
        /\ \A c \in Copies' : c \in Copies \/ c = records'
    <2>1. CASE records' = records /\ UNCHANGED <<memento, writes>>
      BY <1>1, <2>1 DEF RegistryInv, RecordsSaved, Copies
    <2>2. CASE Save(records')
      BY <1>1, <1>3, <2>2, SavedCopies DEF Copies
    <2> QED
      BY <1>2, <2>1, <2>2
  <1>5. MirrorFollows'
    <2>1. CASE records' = records /\ UNCHANGED <<memento, writes>>
      BY <1>1, <2>1 DEF RegistryInv, MirrorFollows
    <2>2. CASE Save(records')
      BY <1>1, <1>3, <2>2, SavedCopies DEF MirrorFollows
    <2> QED
      BY <1>2, <2>1, <2>2
  <1>6. \A s \in Sessions : Exists(trees[s]) => records'[s] # "none"
    BY <1>3
  <1>7. NothingTooEarly'
    <2>1. ASSUME NEW s \in Sessions, Fresh(s) PROVE records'[s] = "none"
      <3>1. creating[s] = "none"
        BY <1>1, <2>1 DEF RegistryInv, RecoveryIsAlone, Fresh
      <3>2. ~Exists(trees[s]) /\ records[s] = "none"
        BY <2>1, <3>1 DEF RegistryInv, NothingTooEarly, Copies
      <3> QED
        BY <1>3, <3>2
    <2> QED
      BY <1>1, <1>4, <2>1 DEF RegistryInv, NothingTooEarly, Fresh
  <1>8. RecordsSaved' /\ RecoveryIsAlone' /\ SweepKnows'
    BY <1>1, <1>4 DEF RecordsSaved, RecoveryIsAlone, SweepKnows
  <1>9. TreesRecorded'
    BY <1>1, <1>6 DEF TreesRecorded
  <1>10. GuessesNeeded'
    <2>1. ASSUME "worktree" \notin forgotten, NEW s \in Sessions, s \in live \/ creating[s] # "earlier",
                 records'[s] = "guessed"
          PROVE  {"memento", "mirror"} \subseteq forgotten
      <3>1. CASE records[s] = "guessed" \/ mirror[s] = "guessed"
        BY <2>1, <3>1 DEF RegistryInv, GuessesNeeded, Copies
      <3>2. CASE records[s] # "guessed" /\ mirror[s] # "guessed"
        <4>1. records[s] = "none" /\ Exists(trees[s]) /\ mirror[s] = "none"
          BY <1>3, <2>1, <3>2
        <4>2. s \in live
          BY <1>1, <2>1, <4>1 DEF RegistryInv, RecoveryIsAlone, NothingTooEarly
        <4> QED
          BY <2>1, <4>1, <4>2 DEF RegistryInv, TreesRecorded
      <3> QED
        BY <3>1, <3>2
    <2>2. ASSUME "worktree" \notin forgotten, NEW s \in Sessions, s \in live \/ creating[s] # "earlier",
                 NEW c \in Copies', c[s] = "guessed"
          PROVE  {"memento", "mirror"} \subseteq forgotten
      BY <1>4, <2>1, <2>2 DEF RegistryInv, GuessesNeeded
    <2> QED
      BY <1>1, <2>2 DEF GuessesNeeded
  <1> QED
    BY <1>5, <1>7, <1>8, <1>9, <1>10 DEF RegistryInv

(* The sweep ends and saves, or goes on to a worktree that is recorded.     *)
LEMMA SweepGoes ==
  ASSUME TypeOK, NEW recs \in Records, NEW known \in SUBSET Sessions, SweepGoesOn(recs, known)
  PROVE  \/ sweep'.pc = "off" /\ Save(recs)
         \/ /\ sweep'.pc = "removing" /\ sweep'.live = known
            /\ sweep'.at \in Sessions \ known /\ recs[sweep'.at] # "none"
            /\ UNCHANGED <<memento, writes>>
  BY DEF SweepGoesOn, NoSweep

(* Whatever the sweep saves, the registry lost nothing but what the sweep   *)
(* removed.                                                                 *)
LEMMA SweepSafe ==
  ASSUME TypeOK, RegistryInv, NEW known \in SUBSET Sessions,
         SweepGoesOn(records', known), records' \in Records,
         UNCHANGED <<mirror, forgotten, creating, live, trees>>,
         \A s \in live : creating[s] = "earlier" => s \in known,
         boot # "recovering", boot' # "recovering",
         \A s \in Sessions : records'[s] = records[s] \/ (records'[s] = "none" /\ (Exists(trees[s]) => "worktree" \in forgotten))
  PROVE  RegistryInv'
  <1>1. \/ sweep'.pc = "off" /\ Save(records')
        \/ /\ sweep'.pc = "removing" /\ sweep'.live = known
           /\ sweep'.at \in Sessions \ known /\ records'[sweep'.at] # "none"
           /\ UNCHANGED <<memento, writes>>
    BY SweepGoes
  <1>2. /\ \A s \in Sessions : records'[s] # "none" => memento'[s] = records'[s]
        /\ \A c \in Copies' : c \in Copies \/ c = records'
        /\ \A c \in Copies' : \A s \in Sessions : c \in Copies \/ c[s] = records[s] \/ c[s] = "none"
    <2>1. CASE sweep'.pc = "off" /\ Save(records')
      BY <2>1, SavedCopies DEF Copies
    <2>2. CASE UNCHANGED <<memento, writes>>
      BY <2>2 DEF RegistryInv, RecordsSaved, Copies
    <2> QED
      BY <1>1, <2>1, <2>2
  <1>3. MirrorFollows'
    <2>1. CASE sweep'.pc = "off" /\ Save(records')
      BY <2>1, SavedCopies DEF MirrorFollows
    <2>2. CASE UNCHANGED <<memento, writes>>
      BY <2>2 DEF RegistryInv, MirrorFollows
    <2> QED
      BY <1>1, <2>1, <2>2
  <1>4. records \in Copies
    BY DEF Copies
  <1>5. NothingTooEarly'
    BY <1>2, <1>4 DEF RegistryInv, NothingTooEarly, Fresh
  <1>6. RecordsSaved' /\ RecoveryIsAlone'
    BY <1>2 DEF RecordsSaved, RecoveryIsAlone
  <1>7. SweepKnows'
    <2>1. ASSUME sweep'.pc # "off" PROVE ~Fresh(sweep'.at)
      <3>1. records[sweep'.at] # "none" /\ sweep'.at \in Sessions
        BY <1>1, <2>1
      <3> QED
        BY <1>4, <3>1 DEF RegistryInv, NothingTooEarly
    <2> QED
      BY <1>1, <2>1 DEF SweepKnows, Fresh
  <1>8. TreesRecorded'
    BY DEF RegistryInv, TreesRecorded
  <1>9. GuessesNeeded'
    BY <1>2, <1>4 DEF RegistryInv, GuessesNeeded
  <1> QED
    BY <1>3, <1>5, <1>6, <1>7, <1>8, <1>9 DEF RegistryInv

LEMMA SweepRemovesSafe ==
  ASSUME TypeOK, RegistryInv, NEW s \in Sessions, SweepRemoves(s)
  PROVE  RegistryInv'
  <1>1. /\ UNCHANGED <<records, memento, mirror, writes, creating, boot, live, discarding>>
        /\ sweep.pc = "removing" /\ s = sweep.at /\ sweep'.pc = "deleting"
        /\ sweep'.live = sweep.live /\ sweep'.at = sweep.at /\ boot # "recovering"
        /\ forgotten \subseteq forgotten' /\ \A t \in Sessions : Exists(trees'[t]) => Exists(trees[t])
        /\ ("memento" \in forgotten' <=> "memento" \in forgotten)
        /\ ("mirror" \in forgotten' <=> "mirror" \in forgotten)
        /\ "worktree" \notin forgotten' => ~Exists(trees'[s])
    BY DEF SweepRemoves, RemoveTree, TypeOK, Exists, RegistryInv, RecoveryIsAlone
  <1>2. Copies' = Copies
    BY <1>1 DEF Copies
  <1>3. NothingTooEarly'
    BY <1>1, <1>2 DEF RegistryInv, NothingTooEarly, Fresh
  <1>4. RecordsSaved' /\ MirrorFollows' /\ RecoveryIsAlone'
    BY <1>1 DEF RegistryInv, RecordsSaved, MirrorFollows, RecoveryIsAlone
  <1>5. SweepKnows'
    BY <1>1 DEF RegistryInv, SweepKnows, Fresh
  <1>6. TreesRecorded'
    BY <1>1 DEF RegistryInv, TreesRecorded
  <1>7. GuessesNeeded'
    BY <1>1, <1>2 DEF RegistryInv, GuessesNeeded
  <1> QED
    BY <1>3, <1>4, <1>5, <1>6, <1>7 DEF RegistryInv

LEMMA SweepForgetsSafe ==
  ASSUME TypeOK, RegistryInv, SweepForgets
  PROVE  RegistryInv'
  <1>1. /\ sweep.pc = "deleting" /\ sweep.at \in Sessions
        /\ "worktree" \notin forgotten => ~Exists(trees[sweep.at])
        /\ \A s \in live : creating[s] = "earlier" => s \in sweep.live
        /\ boot # "recovering" /\ sweep.live \in SUBSET Sessions
    BY DEF SweepForgets, RegistryInv, SweepKnows, RecoveryIsAlone, TypeOK
  <1>2. /\ records' = [records EXCEPT ![sweep.at] = "none"] /\ SweepGoesOn(records', sweep.live)
        /\ UNCHANGED <<mirror, forgotten, creating, boot, live, trees>>
    BY DEF SweepForgets
  <1>3. records' \in Records
    BY <1>2 DEF TypeOK, Records, RecordKinds
  <1>4. \A s \in Sessions : records'[s] = records[s] \/ (records'[s] = "none" /\ (Exists(trees[s]) => "worktree" \in forgotten))
    BY <1>1, <1>2 DEF TypeOK
  <1> QED
    BY <1>1, <1>2, <1>3, <1>4, SweepSafe

LEMMA ListAndSweepSafe ==
  ASSUME TypeOK, RegistryInv, ListAndSweep
  PROVE  RegistryInv'
  <1>1. /\ UNCHANGED <<records, mirror, forgotten, creating, live, trees>>
        /\ SweepGoesOn(records', live) /\ boot = "listing" /\ boot' = "ready"
    BY DEF ListAndSweep, gitVars
  <1>2. records' \in Records /\ live \in SUBSET Sessions
    BY <1>1 DEF TypeOK, Records
  <1> QED
    BY <1>1, <1>2, SweepSafe

(* A crash may take one copy of the registry or both; it says which.        *)
LEMMA CrashSafe ==
  ASSUME TypeOK, RegistryInv, Crash
  PROVE  RegistryInv'
  <1>1. PICK m \in {memento, NoRecords} :
          /\ memento' = m /\ records' = m
          /\ forgotten' = forgotten \cup (IF m = memento THEN {} ELSE {"memento"})
                                    \cup (IF writes = {} THEN {} ELSE {"mirror"})
    BY DEF Crash
  <1>2. /\ mirror' = mirror \/ (writes # {} /\ mirror' = NoRecords)
        /\ writes' = {} /\ discarding' = {} /\ sweep'.pc = "off" /\ boot' = "recovering"
        /\ UNCHANGED <<trees, live>>
        /\ \A s \in Sessions : creating'[s] = IF creating[s] = "none" THEN "none" ELSE "earlier"
    BY DEF Crash, NoSweep, gitVars
  <1>3. /\ forgotten \subseteq forgotten'
        /\ "worktree" \in forgotten' => "worktree" \in forgotten
        /\ "memento" \notin forgotten' => m = memento
        /\ "mirror" \notin forgotten' => writes = {} /\ mirror' = mirror
    BY <1>1, <1>2
  <1>4. \A c \in Copies' : c \in Copies \/ c = NoRecords
    BY <1>1, <1>2 DEF Copies
  <1>5. \A s \in Sessions : NoRecords[s] = "none"
    BY DEF NoRecords
  <1>6. NothingTooEarly'
    <2>1. \A s \in Sessions : creating'[s] = "none" => creating[s] = "none"
      BY <1>2
    <2>2. \A s \in Sessions : Fresh(s)' => creating[s] = "none"
      BY <1>2 DEF Fresh
    <2>3. \A s \in Sessions : creating'[s] \in {"none", "preparing", "shared"} => creating[s] = "none"
      BY <1>2
    <2> QED
      BY <1>2, <1>4, <1>5, <2>2, <2>3 DEF RegistryInv, NothingTooEarly, Fresh
  <1>7. RecordsSaved'
    BY <1>1 DEF RecordsSaved
  <1>8. MirrorFollows'
    BY <1>1, <1>3 DEF RegistryInv, MirrorFollows
  <1>9. RecoveryIsAlone' /\ SweepKnows'
    BY <1>2 DEF RecoveryIsAlone, SweepKnows
  <1>10. TreesRecorded'
    <2>1. SUFFICES ASSUME "worktree" \notin forgotten, NEW s \in live, Exists(trees[s])
                   PROVE  /\ "memento" \notin forgotten' => m[s] # "none"
                          /\ "mirror" \notin forgotten' => m[s] # "none" \/ mirror'[s] # "none"
      <3>1. \A s \in Sessions : creating'[s] # "isolated"
        BY <1>2
      <3> QED
        BY <1>1, <1>2, <1>3, <2>1, <3>1 DEF TreesRecorded
    <2>2. s \in Sessions
      BY DEF TypeOK
    <2>3. records[s] # "none" => memento[s] # "none"
      BY <2>2 DEF RegistryInv, RecordsSaved
    <2>4. ASSUME "memento" \notin forgotten' PROVE m[s] # "none"
      <3>1. records[s] # "none"
        BY <1>3, <2>1, <2>2, <2>4 DEF RegistryInv, TreesRecorded
      <3> QED
        BY <1>3, <2>3, <2>4, <3>1
    <2>5. ASSUME "mirror" \notin forgotten' PROVE mirror'[s] # "none"
      <3>1. records[s] # "none" \/ mirror[s] # "none"
        BY <1>3, <2>1, <2>2, <2>5 DEF RegistryInv, TreesRecorded
      <3>2. memento[s] # "none" => mirror[s] # "none"
        BY <1>3, <1>5, <2>2, <2>5 DEF RegistryInv, MirrorFollows
      <3> QED
        BY <1>3, <2>3, <2>5, <3>1, <3>2
    <2> QED
      BY <2>4, <2>5
  <1>11. GuessesNeeded'
    <2>1. \A s \in Sessions : creating'[s] # "earlier" => creating[s] # "earlier"
      BY <1>2
    <2> QED
      BY <1>2, <1>3, <1>4, <1>5, <2>1 DEF RegistryInv, GuessesNeeded
  <1> QED
    BY <1>6, <1>7, <1>8, <1>9, <1>10, <1>11 DEF RegistryInv

LEMMA RegistryInductive == TypeOK /\ RegistryInv /\ [Next]_vars => RegistryInv'
  <1> SUFFICES ASSUME TypeOK, RegistryInv, [Next]_vars PROVE RegistryInv'
    OBVIOUS
  <1>1. CASE \/ UNCHANGED vars \/ RefreshList \/ UserEdits \/ UserCommits
             \/ \E s \in Sessions : BeginMerge(s) \/ MergeStep(s)
    <2>1. UNCHANGED <<registryVars, sweep, boot, creating, live, trees, discarding>>
      BY <1>1 DEF vars, memoryVars, gitVars, refVars, registryVars, RefreshList, UserEdits, UserCommits,
         BeginMerge, MergeStep, AddTemp, ApplyPatch, UpdateRef, MergeCleansUp, ResetMain
    <2> QED
      BY <2>1, RegistryRests
  <1>2. ASSUME NEW s \in Sessions, CallDiscard(s) \/ DiscardRemoves(s) \/ AgentEdits(s) \/ AgentCommits(s) \/ SessionRemoved(s)
        PROVE  RegistryInv'
    <2>1. UNCHANGED <<registryVars, sweep, boot, creating>> /\ live' \subseteq live
      BY <1>2 DEF memoryVars, gitVars, registryVars, CallDiscard, DiscardRemoves, AgentEdits, AgentCommits, SessionRemoved
    <2>2. \A t \in Sessions : Exists(trees'[t]) => Exists(trees[t])
      BY <1>2 DEF gitVars, CallDiscard, DiscardRemoves, AgentEdits, AgentCommits, SessionRemoved, RemoveTree, TypeOK, Exists
    <2>3. boot = "recovering" => discarding' = discarding
      BY <1>2 DEF memoryVars, CallDiscard, DiscardRemoves, AgentEdits, AgentCommits, SessionRemoved, RegistryInv, RecoveryIsAlone
    <2> QED
      BY <2>1, <2>2, <2>3, RegistryRests
  <1>3. ASSUME NEW s \in Sessions, BeginCreate(s) \/ CreateStep(s) \/ DiscardForgets(s) \/ SweepRemoves(s)
        PROVE  RegistryInv'
    BY <1>3, BeginningsSafe, RegisterSafe, EndsOfCreateSafe, DiscardForgetsSafe, SweepRemovesSafe DEF CreateStep
  <1>4. CASE MirrorWritten \/ Recover \/ ListAndSweep \/ SweepForgets \/ Crash
    BY <1>4, MirrorWrittenSafe, RecoverSafe, ListAndSweepSafe, SweepForgetsSafe, CrashSafe
  <1> QED
    BY <1>1, <1>2, <1>3, <1>4 DEF Next, DiscardStep, SweepStep

LEMMA RegistryInvImplies == TypeOK /\ RegistryInv => RegistryRestored
  <1> SUFFICES ASSUME TypeOK, RegistryInv, boot # "recovering", "worktree" \notin forgotten, NEW s \in live
               PROVE  /\ Exists(trees[s]) => records[s] # "none"
                      /\ records[s] = "guessed" => {"memento", "mirror"} \subseteq forgotten
    BY DEF RegistryRestored
  <1>1. s \in Sessions /\ records \in Copies
    BY DEF TypeOK, Copies
  <1> QED
    BY <1>1 DEF RegistryInv, TreesRecorded, GuessesNeeded

(* recover, worktree-service.ts: once it ran, the worktree of a session is  *)
(* recorded, under its own base branch unless both copies of the registry   *)
(* were lost: after any number of crashes and failing git commands.         *)
THEOREM RegistryAlwaysRestored == Spec => []RegistryRestored
  <1>1. Init => TypeOK /\ RegistryInv
    BY TypeInit, RegistryInit
  <1>2. TypeOK /\ RegistryInv /\ [Next]_vars => (TypeOK /\ RegistryInv)'
    BY TypeInductive, RegistryInductive
  <1> QED
    BY <1>1, <1>2, RegistryInvImplies, PTL DEF Spec

(* cleanupOrphans: the sweep never takes the worktree of a session an       *)
(* earlier run of the extension created, as long as the host has it.        *)
THEOREM ListedWorktreesKept == Spec => ListedWorktreeKept
  <1>1. Init => TypeOK /\ RegistryInv
    BY TypeInit, RegistryInit
  <1>2. TypeOK /\ RegistryInv /\ [Next]_vars => (TypeOK /\ RegistryInv)'
    BY TypeInductive, RegistryInductive
  <1>3. ASSUME TypeOK, RegistryInv, NEW s \in Sessions, SweepRemoves(s)
        PROVE  s \notin live \/ creating[s] # "earlier"
    BY <1>3 DEF RegistryInv, SweepKnows, SweepRemoves
  <1>4. TypeOK /\ RegistryInv /\ [Next]_vars =>
          [\A s \in Sessions : SweepRemoves(s) => s \notin live \/ creating[s] # "earlier"]_vars
    BY <1>3
  <1> QED
    BY <1>1, <1>2, <1>4, PTL DEF Spec, ListedWorktreeKept

-----------------------------------------------------------------------------
LEMMA MergeInit == Init => MergeInv
  BY DEF Init, MergeInv, NoMerge

(* The checkout, the base branch and the merges stay as they are.           *)
LEMMA MergesRest ==
  ASSUME MergeInv, UNCHANGED <<base, main, published, merging>>
  PROVE  MergeInv'
  BY DEF MergeInv

(* The base branch moves to what is published; each merge knows the edits   *)
(* it knew.                                                                 *)
LEMMA MergesGoOn ==
  ASSUME TypeOK, MergeInv, published \subseteq published', base' \subseteq published',
         main' \subseteq main \cup published', NEW s \in Sessions,
         \A t \in Sessions \ {s} : merging'[t] = merging[t],
         \/ merging'[s].pc = "none"
         \/ /\ merging[s].pc # "none" /\ merging'[s].clean = merging[s].clean
            /\ merging'[s].news = merging[s].news
            /\ merging'[s].pc = "resetting" => merging[s].clean
  PROVE  MergeInv'
  BY DEF MergeInv

LEMMA MergeInductive == TypeOK /\ MergeInv /\ [Next]_vars => MergeInv'
  <1> SUFFICES ASSUME TypeOK, MergeInv, [Next]_vars PROVE MergeInv'
    OBVIOUS
  <1>1. CASE \/ UNCHANGED vars \/ MirrorWritten \/ Recover \/ ListAndSweep \/ RefreshList \/ SweepForgets
             \/ \E s \in Sessions :
                  \/ BeginCreate(s) \/ CreateStep(s) \/ CallDiscard(s) \/ DiscardStep(s)
                  \/ AgentEdits(s) \/ AgentCommits(s) \/ SessionRemoved(s) \/ SweepRemoves(s)
    <2>1. UNCHANGED <<base, main, published, merging>>
      BY <1>1 DEF vars, memoryVars, gitVars, refVars, MirrorWritten, Recover, ListAndSweep, RefreshList,
         SweepForgets, BeginCreate, CreateStep, AddWorktree, Register, SessionCreated, CreateFails,
         CallDiscard, DiscardStep, DiscardRemoves, DiscardForgets, AgentEdits, AgentCommits,
         SessionRemoved, SweepRemoves
    <2> QED
      BY <2>1, MergesRest
  <1>2. ASSUME NEW s \in Sessions, BeginMerge(s) PROVE MergeInv'
    <2>1. PICK clean \in {~dirty, FALSE} : merging' = [merging EXCEPT ![s] = [NoMerge EXCEPT !.pc = "probed", !.clean = clean]]
      BY <1>2 DEF BeginMerge, MergeGoes
    <2>2. merging'[s].pc = "probed" /\ merging'[s].clean = clean /\ \A t \in Sessions \ {s} : merging'[t] = merging[t]
      BY <2>1 DEF TypeOK, NoMerge
    <2>3. UNCHANGED <<base, main, published>>
      BY <1>2 DEF BeginMerge, gitVars, refVars
    <2>4. clean => main \subseteq published
      BY <2>1 DEF dirty, MergeInv
    <2> QED
      BY <2>2, <2>3, <2>4 DEF MergeInv
  <1>3. ASSUME NEW s \in Sessions, MergeStep(s) PROVE MergeInv'
    <2>1. merging \in [Sessions -> Merge] /\ merging[s] \in Merge /\ base \subseteq published
      BY DEF TypeOK, Merge, MergeInv
    <2>2. CASE AddTemp(s) \/ ApplyPatch(s)
      <3>1. UNCHANGED refVars /\ merging[s].pc # "none"
        BY <2>2 DEF AddTemp, ApplyPatch
      <3>2. \A t \in Sessions \ {s} : merging'[t] = merging[t]
        BY <2>1, <2>2 DEF AddTemp, ApplyPatch, MergeGoes, MergeEnds
      <3>3. \/ merging'[s].pc = "none"
            \/ /\ merging'[s].clean = merging[s].clean /\ merging'[s].news = merging[s].news
               /\ merging'[s].pc # "resetting"
        <4>1. ASSUME NEW m, merging' = [merging EXCEPT ![s] = m] PROVE merging'[s] = m
          BY <2>1, <4>1
        <4>2. CASE AddTemp(s)
          <5>1. CASE merging' = [merging EXCEPT ![s] = NoMerge]
            BY <4>1, <5>1 DEF NoMerge
          <5>2. CASE merging' = [merging EXCEPT ![s] =
                      [merging[s] EXCEPT !.pc = "merged", !.tree = base \cup (heads[s] \ Gone)]]
            <6>1. merging'[s] = [merging[s] EXCEPT !.pc = "merged", !.tree = base \cup (heads[s] \ Gone)]
              BY <4>1, <5>2
            <6> QED
              BY <2>1, <6>1, MergeFields
          <5> QED
            BY <4>2, <5>1, <5>2 DEF AddTemp, MergeGoes, MergeEnds
        <4>3. CASE ApplyPatch(s)
          <5>1. CASE merging' = [merging EXCEPT ![s] = NoMerge]
            BY <4>1, <5>1 DEF NoMerge
          <5>2. ASSUME NEW patch, merging' = [merging EXCEPT ![s] =
                      [merging[s] EXCEPT !.pc = "committed", !.tree = merging[s].tree \cup patch]]
                PROVE  /\ merging'[s].clean = merging[s].clean /\ merging'[s].news = merging[s].news
                       /\ merging'[s].pc # "resetting"
            <6>1. merging'[s] = [merging[s] EXCEPT !.pc = "committed", !.tree = merging[s].tree \cup patch]
              BY <4>1, <5>2
            <6> QED
              BY <2>1, <6>1, MergeFields
          <5> QED
            BY <4>3, <5>1, <5>2 DEF ApplyPatch, MergeGoes, MergeEnds
        <4> QED
          BY <2>2, <4>2, <4>3
      <3> QED
        BY <2>1, <3>1, <3>2, <3>3, MergesGoOn DEF refVars
    <2>3. CASE UpdateRef(s)
      <3>1. base' = merging[s].tree /\ published' = published \cup base' /\ main' = main
            /\ merging' = [merging EXCEPT ![s] = [merging[s] EXCEPT !.pc = "moved"]] /\ merging[s].pc # "none"
        BY <2>3 DEF UpdateRef, MergeGoes
      <3>2. merging'[s].clean = merging[s].clean /\ merging'[s].news = merging[s].news /\ merging'[s].pc # "resetting"
        BY <2>1, <3>1 DEF Merge
      <3> QED
        BY <2>1, <3>1, <3>2, MergesGoOn
    <2>4. CASE MergeCleansUp(s)
      <3>1. UNCHANGED refVars /\ merging[s].pc # "none"
            /\ \A t \in Sessions \ {s} : merging'[t] = merging[t]
        BY <2>1, <2>4 DEF MergeCleansUp, MergeGoes, MergeEnds
      <3>2. \/ merging'[s].pc = "none"
            \/ /\ merging'[s].clean = merging[s].clean /\ merging'[s].news = merging[s].news
               /\ merging[s].clean
        BY <2>1, <2>4 DEF MergeCleansUp, MergeGoes, MergeEnds, Merge, NoMerge
      <3> QED
        BY <2>1, <3>1, <3>2, MergesGoOn DEF refVars
    <2>5. CASE ResetMain(s)
      <3>1. main' = base /\ base' = base /\ published' = published
            /\ merging' = [merging EXCEPT ![s] = NoMerge]
        BY <2>5 DEF ResetMain, MergeEnds, MergeGoes
      <3>2. merging'[s].pc = "none" /\ \A t \in Sessions \ {s} : merging'[t] = merging[t]
        BY <2>1, <3>1 DEF NoMerge
      <3> QED
        BY <2>1, <3>1, <3>2, MergesGoOn
    <2> QED
      BY <1>3, <2>2, <2>3, <2>4, <2>5 DEF MergeStep
  <1>4. CASE UserEdits
    <2>1. PICK c \in EditsOf(User) :
            /\ main' = main \cup {c}
            /\ merging' = [s \in Sessions |-> IF merging[s].pc = "none" THEN merging[s]
                                              ELSE [merging[s] EXCEPT !.news = @ \cup {c}]]
      BY <1>4 DEF UserEdits
    <2>2. UNCHANGED <<base, published>>
      BY <1>4 DEF UserEdits
    <2>3. ASSUME NEW s \in Sessions
          PROVE  /\ merging'[s].pc = merging[s].pc /\ merging'[s].clean = merging[s].clean
                 /\ merging[s].pc # "none" => merging'[s].news = merging[s].news \cup {c}
      BY <2>1 DEF TypeOK
    <2> QED
      BY <2>1, <2>2, <2>3 DEF MergeInv
  <1>5. CASE UserCommits
    BY <1>5 DEF UserCommits, memoryVars, MergeInv
  <1>6. CASE Crash
    BY <1>6 DEF Crash, gitVars, refVars, MergeInv, NoMerge
  <1> QED
    BY <1>1, <1>2, <1>3, <1>4, <1>5, <1>6 DEF Next, SweepStep

(* mergeBack, worktree-service.ts: what a merge throws away of the main     *)
(* checkout was not there when it looked, however many merges cross.        *)
THEOREM OldEditsAlwaysSurvive == Spec => OldEditsSurvive
  <1>1. Init => TypeOK /\ MergeInv
    BY TypeInit, MergeInit
  <1>2. TypeOK /\ MergeInv /\ [Next]_vars => (TypeOK /\ MergeInv)'
    BY TypeInductive, MergeInductive
  <1>3. ASSUME TypeOK, MergeInv, NEW s \in Sessions, ResetMain(s)
        PROVE  main \cap EditsOf(User) \subseteq base \cup published \cup merging[s].news
    BY <1>3 DEF MergeInv, ResetMain
  <1>4. TypeOK /\ MergeInv /\ [Next]_vars =>
          [\A s \in Sessions : ResetMain(s) =>
             main \cap EditsOf(User) \subseteq base \cup published \cup merging[s].news]_vars
    BY <1>3
  <1> QED
    BY <1>1, <1>2, <1>4, PTL DEF Spec, OldEditsSurvive
=============================================================================
