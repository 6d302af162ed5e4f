------------------------------ MODULE Worktrees ------------------------------
(***************************************************************************)
(* The git worktree of each session: WorktreeService with its registry and  *)
(* the two copies of it on disk, the creation of a session around prepare,   *)
(* the orphan sweep of the baseline, discard, and the merge back into the   *)
(* base branch.  The extension may crash between any two awaits; git fails. *)
(*                                                                         *)
(* A tree is the set of changes it contains; the main checkout is on the    *)
(* base branch.  A record is exact when it names the branch its worktree    *)
(* was split from, guessed when recover had to take the default branch.     *)
(***************************************************************************)
EXTENDS Naturals, FiniteSets

CONSTANTS
  Sessions,     \* ids newSessionId() returns, each once
  NoSession,
  User,         \* who edits the main checkout
  MaxEdits,     \* bound: different edits in the main checkout, and in each worktree
  Budgets       \* bound: how many sessions, crashes, failing git commands, edits, merges

ASSUME WorktreesAssumption ==
  /\ NoSession \notin Sessions /\ User \notin Sessions
  /\ MaxEdits \in Nat
  /\ Budgets \subseteq [create : Nat, crash : Nat, fail : Nat, edit : Nat, merge : Nat]

VARIABLES
  \* WorktreeService and the service that calls it
  records,    \* records
  creating,   \* progress of doCreateSession, by session
  discarding, \* sessions under discard
  merging,    \* progress of mergeBack, by session
  sweep,      \* cleanupOrphans: the live set it was given, and where it is
  boot,       \* how far settleBaseline came
  listed,     \* the keys of summaries
  \* on disk
  memento,    \* the registry in globalState
  mirror,     \* .git/dsh-worktrees.json
  writes,     \* writeDiskRegistries calls under way
  trees,      \* .dsh-worktrees/<session>: its working tree
  heads,      \* the commit dsh/<session> points to
  temps,      \* .dsh-worktrees/.merge-<session>
  base,       \* the commit the base branch points to
  main,       \* the working tree of the main checkout
  \* the host, and history
  live,       \* sessions of the host
  budget,     \* what is left of it
  forgotten,  \* the Memento was rebuilt empty, a mirror write was lost or overtaken, or the
              \* sweep dropped the record of a worktree git would not remove
  published   \* every change the base branch ever contained

memoryVars == <<records, creating, discarding, merging, sweep, boot, listed>>
registryVars == <<records, memento, mirror, writes, forgotten>>
refVars == <<base, main, published>>
gitVars == <<trees, heads, temps, refVars>>
vars == <<memoryVars, memento, mirror, writes, gitVars, live, budget, forgotten>>

Change(who, n) == <<who, n>>
EditsOf(who) == {Change(who, n) : n \in 1..MaxEdits}
Changes == UNION {EditsOf(who) : who \in Sessions \cup {User}}

(* A branch or directory that is not there.                                 *)
Gone == {<<NoSession, 0>>}
Exists(tree) == tree # Gone

NoRecords == [s \in Sessions |-> "none"]
NoMerge == [pc |-> "none", clean |-> FALSE, tree |-> {}, news |-> {}]
NoSweep == [pc |-> "off", live |-> {}, at |-> NoSession]

Init ==
  /\ records = NoRecords /\ memento = NoRecords /\ mirror = NoRecords /\ writes = {}
  /\ creating = [s \in Sessions |-> "none"] /\ discarding = {}
  /\ merging = [s \in Sessions |-> NoMerge]
  /\ sweep = NoSweep /\ boot = "recovering" /\ listed = {}
  /\ trees = [s \in Sessions |-> Gone] /\ heads = [s \in Sessions |-> Gone] /\ temps = {}
  /\ base = {} /\ main = {} /\ live = {}
  /\ budget \in Budgets /\ forgotten = {} /\ published = {}

-----------------------------------------------------------------------------
(* git: each command succeeds or fails.                                     *)
Spend(what) == budget[what] > 0 /\ budget' = [budget EXCEPT ![what] = @ - 1]
Succeeds == UNCHANGED budget
Fails == Spend("fail")

RemoveTree(s) == trees' = [trees EXCEPT ![s] = Gone]
RemoveBranch(s) == heads' = [heads EXCEPT ![s] = Gone]

-----------------------------------------------------------------------------
(* The registry.                                                            *)

(* save(): the Memento takes the records at once, the mirror once its write *)
(* lands.  With no record left there is no repository to write to.          *)
Save(recs) ==
  /\ memento' = recs
  /\ writes' = IF recs = NoRecords THEN writes ELSE writes \cup {recs}

SetRecord(s, value) ==
  /\ records' = [records EXCEPT ![s] = value]
  /\ Save(records')

(* Two writes of the mirror are not ordered: the older may land last.       *)
MirrorWritten ==
  \E w \in writes :
    /\ mirror' = w /\ writes' = writes \ {w}
    /\ forgotten' = forgotten \cup (IF w = memento THEN {} ELSE {"mirror"})
    /\ UNCHANGED <<memoryVars, memento, gitVars, live, budget>>

(* A worktree that is there says nothing of the branch it was split from.   *)
RecordFromWorktree == "guessed"

(* Mutant of Recovered: the directories are not scanned.                    *)
RecoveredFromMirror ==
  [s \in Sessions |->
     IF records[s] # "none" \/ ~Exists(trees[s]) THEN records[s] ELSE mirror[s]]

(* recover(): records of the mirror whose directory is there, then every    *)
(* worktree directory nobody recorded.                                      *)
Recovered ==
  [s \in Sessions |->
     IF records[s] # "none" \/ ~Exists(trees[s]) THEN records[s]
     ELSE IF mirror[s] # "none" THEN mirror[s] ELSE RecordFromWorktree]

(* settleBaseline recovers the records before it lists any session.         *)
Recover ==
  /\ boot = "recovering"
  /\ boot' = "listing"
  /\ records' = Recovered
  /\ IF records' = records THEN UNCHANGED <<memento, writes>> ELSE Save(records')
  /\ UNCHANGED <<creating, discarding, merging, sweep, listed, mirror, gitVars, live, budget,
                 forgotten>>

(* cleanupOrphans: a loop over the records, those added meanwhile included;  *)
(* it runs on to the next git command, or saves and ends.                   *)
SweepGoesOn(recs, known) ==
  LET orphans == {s \in Sessions \ known : recs[s] # "none"}
  IN  IF orphans = {} THEN sweep' = NoSweep /\ Save(recs)
      ELSE /\ \E s \in orphans : sweep' = [pc |-> "removing", live |-> known, at |-> s]
           /\ UNCHANGED <<memento, writes>>

(* Mutant of ListAndSweep: the sweep does not wait for the list.            *)
SweepBeforeList ==
  /\ boot = "listing"
  /\ boot' = "ready" /\ listed' = live
  /\ SweepGoesOn(records, listed)
  /\ UNCHANGED <<records, creating, discarding, merging, mirror, gitVars, live, budget, forgotten>>

(* refreshSessionList of the baseline; the sweep starts with what it knows. *)
ListAndSweep ==
  /\ boot = "listing"
  /\ boot' = "ready" /\ listed' = live
  /\ SweepGoesOn(records, live)
  /\ UNCHANGED <<records, creating, discarding, merging, mirror, gitVars, live, budget, forgotten>>

RefreshList ==
  /\ boot = "ready" /\ listed # live
  /\ listed' = live
  /\ UNCHANGED <<registryVars, creating, discarding, merging, sweep, boot, gitVars, live, budget>>

-----------------------------------------------------------------------------
SweepRemoves(s) ==
  /\ sweep.pc = "removing" /\ s = sweep.at
  /\ sweep' = [sweep EXCEPT !.pc = "deleting"]
  /\ \/ RemoveTree(s) /\ Succeeds /\ UNCHANGED forgotten
     \/ UNCHANGED trees /\ Fails /\ forgotten' = forgotten \cup {"worktree"}
  /\ UNCHANGED <<records, memento, mirror, writes, creating, discarding, merging, boot, listed, heads,
                 temps, refVars, live>>

SweepForgets ==
  /\ sweep.pc = "deleting"
  /\ records' = [records EXCEPT ![sweep.at] = "none"]
  /\ RemoveBranch(sweep.at)
  /\ SweepGoesOn(records', sweep.live)
  /\ UNCHANGED <<mirror, forgotten, creating, discarding, merging, boot, listed, trees, temps,
                 refVars, live, budget>>

-----------------------------------------------------------------------------
(* doCreateSession: prepare, session/create, and the way back.              *)

Goes(s, pc) == creating' = [creating EXCEPT ![s] = pc]

BeginCreate(s) ==
  /\ boot = "ready" /\ creating[s] = "none"
  /\ Spend("create")
  /\ Goes(s, "preparing")
  /\ UNCHANGED <<registryVars, discarding, merging, sweep, boot, listed, gitVars, live>>

(* worktree add, with its branch; or the session shares the checkout.       *)
AddWorktree(s) ==
  /\ creating[s] = "preparing"
  /\ \/ /\ trees' = [trees EXCEPT ![s] = base] /\ heads' = [heads EXCEPT ![s] = base]
        /\ Goes(s, "added") /\ Succeeds
     \/ UNCHANGED <<trees, heads>> /\ Goes(s, "shared") /\ Fails
  /\ UNCHANGED <<registryVars, discarding, merging, sweep, boot, listed, temps, refVars, live>>

(* Mutant of Register: the record is kept in memory only.                   *)
RegisterUnsaved(s) ==
  /\ creating[s] = "added"
  /\ records' = [records EXCEPT ![s] = "exact"]
  /\ Goes(s, "isolated")
  /\ UNCHANGED <<memento, writes, mirror, forgotten, discarding, merging, sweep, boot, listed,
                 gitVars, live, budget>>

Register(s) ==
  /\ creating[s] = "added"
  /\ SetRecord(s, "exact")
  /\ Goes(s, "isolated")
  /\ UNCHANGED <<mirror, forgotten, discarding, merging, sweep, boot, listed, gitVars, live, budget>>

(* session/create, and the refresh of the list that follows it.             *)
SessionCreated(s) ==
  /\ creating[s] \in {"isolated", "shared"}
  /\ live' = live \cup {s} /\ listed' = live'
  /\ Goes(s, "done")
  /\ UNCHANGED <<registryVars, discarding, merging, sweep, boot, gitVars, budget>>

CreateFails(s) ==
  /\ creating[s] \in {"isolated", "shared"}
  /\ Goes(s, "failed")
  /\ discarding' = IF creating[s] = "isolated" /\ records[s] # "none"
                   THEN discarding \cup {s} ELSE discarding
  /\ UNCHANGED <<registryVars, merging, sweep, boot, listed, gitVars, live, budget>>

-----------------------------------------------------------------------------
(* discard: the worktree goes first; if git cannot remove it the record     *)
(* stays.                                                                   *)

CallDiscard(s) ==
  /\ boot = "ready" /\ s \in live \ discarding /\ records[s] # "none"
  /\ discarding' = discarding \cup {s}
  /\ UNCHANGED <<registryVars, creating, merging, sweep, boot, listed, gitVars, live, budget>>

DiscardRemoves(s) ==
  /\ s \in discarding /\ Exists(trees[s])
  /\ \/ RemoveTree(s) /\ UNCHANGED discarding /\ Succeeds
     \/ UNCHANGED trees /\ discarding' = discarding \ {s} /\ Fails
  /\ UNCHANGED <<registryVars, creating, merging, sweep, boot, listed, heads, temps, refVars, live>>

DiscardForgets(s) ==
  /\ s \in discarding /\ ~Exists(trees[s])
  /\ discarding' = discarding \ {s}
  /\ RemoveBranch(s)
  /\ SetRecord(s, "none")
  /\ UNCHANGED <<mirror, forgotten, creating, merging, sweep, boot, listed, trees, temps, refVars, live, budget>>

-----------------------------------------------------------------------------
(* mergeBack: a temporary worktree at the base, the session's commits and   *)
(* its uncommitted patch on top, then the base is moved to the result.      *)

MergeGoes(s, m) == merging' = [merging EXCEPT ![s] = m]
MergeEnds(s) == MergeGoes(s, NoMerge)

dirty == main # base

(* worktreeDirty of the main checkout, before anything is touched; a status *)
(* that cannot be read counts as dirty.                                     *)
BeginMerge(s) ==
  /\ boot = "ready" /\ merging[s].pc = "none" /\ records[s] # "none"
  /\ Spend("merge")
  /\ \E clean \in {~dirty, FALSE} :
       MergeGoes(s, [NoMerge EXCEPT !.pc = "probed", !.clean = clean])
  /\ UNCHANGED <<registryVars, creating, discarding, sweep, boot, listed, gitVars, live>>

(* Mutant of AddTemp: a branch that is not there is merged all the same.    *)
AddTempBlind(s) ==
  /\ merging[s].pc = "probed"
  /\ \/ /\ s \notin temps /\ Succeeds
        /\ temps' = temps \cup {s}
        /\ MergeGoes(s, [merging[s] EXCEPT !.pc = "merged", !.tree = base \cup heads[s]])
     \/ s \in temps /\ MergeEnds(s) /\ UNCHANGED <<temps, budget>>
  /\ UNCHANGED <<registryVars, creating, discarding, sweep, boot, listed, trees, heads, refVars, live>>

(* worktree add --detach, which fails when an earlier one was left there;   *)
(* then the session's commits are merged.                                   *)
AddTemp(s) ==
  /\ merging[s].pc = "probed"
  /\ \/ /\ s \notin temps /\ Succeeds
        /\ temps' = temps \cup {s}
        /\ MergeGoes(s, [merging[s] EXCEPT !.pc = "merged", !.tree = base \cup (heads[s] \ Gone)])
     \/ s \in temps /\ MergeEnds(s) /\ UNCHANGED <<temps, budget>>
  /\ UNCHANGED <<registryVars, creating, discarding, sweep, boot, listed, trees, heads, refVars, live>>

RemoveTemp(s) ==
  \/ temps' = temps \ {s} /\ Succeeds
  \/ UNCHANGED temps /\ Fails

(* diff HEAD of the worktree, intent-to-add files included; a diff that     *)
(* fails counts as empty.  It applies to a tree that has none of it yet.    *)
ApplyPatch(s) ==
  /\ merging[s].pc = "merged"
  /\ \E patch \in {(trees[s] \ heads[s]) \ Gone, {}} :
       IF patch \cap merging[s].tree # {} \/ (patch = {} /\ (heads[s] \ Gone) = base)
       THEN MergeEnds(s) /\ RemoveTemp(s)
       ELSE /\ MergeGoes(s, [merging[s] EXCEPT !.pc = "committed", !.tree = @ \cup patch])
            /\ UNCHANGED <<temps, budget>>
  /\ UNCHANGED <<registryVars, creating, discarding, sweep, boot, listed, trees, heads, refVars, live>>

(* update-ref, whatever the base points to by now.                          *)
UpdateRef(s) ==
  /\ merging[s].pc = "committed"
  /\ base' = merging[s].tree /\ published' = published \cup base'
  /\ MergeGoes(s, [merging[s] EXCEPT !.pc = "moved"])
  /\ UNCHANGED <<registryVars, creating, discarding, sweep, boot, listed, trees, heads, temps, main,
                 live, budget>>

(* Mutant of MergeCleansUp: the checkout is synced although it was dirty.   *)
ResetAlways(s) ==
  /\ merging[s].pc = "moved"
  /\ temps' = temps \ {s}
  /\ MergeGoes(s, [merging[s] EXCEPT !.pc = "resetting"])
  /\ UNCHANGED <<registryVars, creating, discarding, sweep, boot, listed, trees, heads, refVars,
                 live, budget>>

(* The temporary worktree is removed; if that fails a conflict is reported. *)
MergeCleansUp(s) ==
  /\ merging[s].pc = "moved"
  /\ \/ /\ temps' = temps \ {s} /\ Succeeds
        /\ IF merging[s].clean THEN MergeGoes(s, [merging[s] EXCEPT !.pc = "resetting"])
           ELSE MergeEnds(s)
     \/ UNCHANGED temps /\ MergeEnds(s) /\ Fails
  /\ UNCHANGED <<registryVars, creating, discarding, sweep, boot, listed, trees, heads, refVars, live>>

(* reset --hard HEAD of the main checkout.                                  *)
ResetMain(s) ==
  /\ merging[s].pc = "resetting"
  /\ main' = base
  /\ MergeEnds(s)
  /\ UNCHANGED <<registryVars, creating, discarding, sweep, boot, listed, trees, heads, temps, base,
                 published, live, budget>>

-----------------------------------------------------------------------------
(* The surroundings.                                                        *)

(* The user edits the main checkout: news to every merge past its probe.    *)
UserEdits ==
  /\ Spend("edit")
  /\ \E c \in EditsOf(User) \ published :
       /\ c \notin main
       /\ main' = main \cup {c}
       /\ merging' = [s \in Sessions |-> IF merging[s].pc = "none" THEN merging[s]
                                         ELSE [merging[s] EXCEPT !.news = @ \cup {c}]]
  /\ UNCHANGED <<registryVars, creating, discarding, sweep, boot, listed, trees, heads, temps,
                 base, published, live>>

UserCommits ==
  /\ dirty
  /\ base' = main /\ published' = published \cup main
  /\ UNCHANGED <<memoryVars, memento, mirror, writes, trees, heads, temps, main, live, budget,
                 forgotten>>

AgentEdits(s) ==
  /\ s \in live /\ Exists(trees[s]) /\ Spend("edit")
  /\ \E c \in EditsOf(s) \ trees[s] : trees' = [trees EXCEPT ![s] = @ \cup {c}]
  /\ UNCHANGED <<memoryVars, memento, mirror, writes, heads, temps, refVars, live, forgotten>>

AgentCommits(s) ==
  /\ s \in live /\ Exists(trees[s]) /\ Exists(heads[s]) /\ heads[s] # trees[s]
  /\ heads' = [heads EXCEPT ![s] = trees[s]]
  /\ UNCHANGED <<memoryVars, memento, mirror, writes, trees, temps, refVars, live, budget,
                 forgotten>>

(* A session is removed behind the workbench's back.                        *)
SessionRemoved(s) ==
  /\ s \in live
  /\ live' = live \ {s}
  /\ UNCHANGED <<memoryVars, memento, mirror, writes, gitVars, budget, forgotten>>

(* The extension host dies.  globalState may be rebuilt empty; a mirror     *)
(* write under way may be torn, and is then read as no registry.            *)
Crash ==
  /\ Spend("crash")
  /\ \E m \in {memento, NoRecords} :
       /\ memento' = m /\ records' = m
       /\ forgotten' = forgotten \cup (IF m = memento THEN {} ELSE {"memento"})
                                 \cup (IF writes = {} THEN {} ELSE {"mirror"})
  /\ \/ UNCHANGED mirror
     \/ writes # {} /\ mirror' = NoRecords
  /\ writes' = {} /\ creating' = [s \in Sessions |-> IF creating[s] = "none" THEN "none" ELSE "earlier"]
  /\ discarding' = {} /\ merging' = [s \in Sessions |-> NoMerge] /\ sweep' = NoSweep
  /\ boot' = "recovering" /\ listed' = {}
  /\ UNCHANGED <<gitVars, live>>

-----------------------------------------------------------------------------
SweepStep == (\E s \in Sessions : SweepRemoves(s)) \/ SweepForgets

MergeStep(s) ==
  \/ AddTemp(s) \/ ApplyPatch(s) \/ UpdateRef(s) \/ MergeCleansUp(s) \/ ResetMain(s)

CreateStep(s) ==
  \/ AddWorktree(s) \/ Register(s) \/ SessionCreated(s) \/ CreateFails(s)

DiscardStep(s) == DiscardRemoves(s) \/ DiscardForgets(s)

Next ==
  \/ \E s \in Sessions :
       \/ BeginCreate(s) \/ CreateStep(s) \/ CallDiscard(s) \/ DiscardStep(s)
       \/ BeginMerge(s) \/ MergeStep(s)
       \/ AgentEdits(s) \/ AgentCommits(s) \/ SessionRemoved(s)
  \/ MirrorWritten \/ Recover \/ ListAndSweep \/ RefreshList \/ SweepStep
  \/ UserEdits \/ UserCommits \/ Crash

Spec == Init /\ [][Next]_vars

(* The baseline of a start goes on, and git answers.                        *)
FairSpec == Spec /\ WF_vars(Recover) /\ WF_vars(ListAndSweep) /\ WF_vars(SweepStep)

-----------------------------------------------------------------------------
RecordKinds == {"none", "exact", "guessed"}
Tree == SUBSET Changes

(* Every variable holds what the program can put there: in particular a     *)
(* merge never carries a branch that is not there.                          *)
TypeOK ==
  /\ {records, memento, mirror} \cup writes \subseteq [Sessions -> RecordKinds]
  /\ creating \in [Sessions -> {"none", "preparing", "added", "shared", "isolated", "failed", "done", "earlier"}]
  /\ discarding \subseteq Sessions /\ listed \subseteq Sessions /\ live \subseteq Sessions
  /\ merging \in [Sessions -> [pc : {"none", "probed", "merged", "committed", "moved", "resetting"},
                               clean : BOOLEAN, tree : Tree, news : Tree]]
  /\ sweep \in [pc : {"off", "removing", "deleting"}, live : SUBSET Sessions,
                at : Sessions \cup {NoSession}]
  /\ boot \in {"recovering", "listing", "ready"}
  /\ trees \in [Sessions -> Tree \cup {Gone}] /\ heads \in [Sessions -> Tree \cup {Gone}]
  /\ temps \subseteq Sessions /\ base \in Tree /\ main \in Tree
  /\ budget \in [create : Nat, crash : Nat, fail : Nat, edit : Nat, merge : Nat] /\ published \in Tree
  /\ forgotten \subseteq {"memento", "mirror", "worktree"}

(* recover: once it ran, the worktree of a session is recorded, so that it  *)
(* can be reviewed, merged and discarded; and under its own base branch     *)
(* unless both copies of the registry were lost.                            *)
RegistryRestored ==
  boot # "recovering" /\ "worktree" \notin forgotten =>
    \A s \in live :
      /\ Exists(trees[s]) => records[s] # "none"
      /\ records[s] = "guessed" => {"memento", "mirror"} \subseteq forgotten

(* cleanupOrphans: the sweep never takes the worktree of a session an       *)
(* earlier run of the extension created, whatever a crash left of the       *)
(* registry and of the creation, as long as the host has the session.       *)
ListedWorktreeKept ==
  [][\A s \in Sessions : SweepRemoves(s) => s \notin live \/ creating[s] # "earlier"]_vars

(* mergeBack: what a merge throws away of the main checkout was not there   *)
(* when it looked, however many merges and edits cross.                     *)
OldEditsSurvive ==
  [][\A s \in Sessions : ResetMain(s) => main \cap EditsOf(User) \subseteq base \cup published \cup merging[s].news]_vars

(* A worktree that a crash left without a session is removed by the next    *)
(* start, when git does its part.                                           *)
OrphansSwept ==
  \A s \in Sessions :
    boot = "recovering" /\ creating[s] = "earlier" /\ Exists(trees[s]) /\ s \notin live
        /\ budget.crash = 0 /\ budget.fail = 0
      ~> ~Exists(trees[s])

(* "Safe by construction: a dirty main checkout is never clobbered".        *)
DirtyNeverClobbered ==
  [][\A s \in Sessions : ResetMain(s) => main \cap EditsOf(User) \subseteq base]_vars

(* "Removes worktrees whose session no longer exists".                      *)
OnlyOrphansSwept ==
  [][\A s \in Sessions : SweepRemoves(s) => s \notin live]_vars
=============================================================================
