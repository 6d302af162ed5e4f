---------------------------- MODULE SharedHistory ----------------------------
(***************************************************************************)
(* The migration of saved conversations into the store shared with the      *)
(* official DSH (runtime/shared-history), one worker per window that starts *)
(* the runtime, and the retry into a recovery store when sharing fails.     *)
(*                                                                          *)
(* A log is the sequence of its events, which is also its revision.  A      *)
(* store's attachments are one content-addressed name.  Sources whose logs  *)
(* are in two physical formats, and headers, are left out.                  *)
(***************************************************************************)
EXTENDS Naturals, Sequences, FiniteSets, SequencesExt, Functions

CONSTANTS
  Windows,    \* windows that start a runtime
  Homes,      \* the old homes in the order they are read, without Recovery
  Shared,     \* the official store
  Recovery,   \* the clean sibling store
  MaxStarts,  \* bound: workers started
  MaxWrites,  \* bound: events written by backends
  MaxDeletes, \* bound: sessions deleted by users
  MaxCrashes  \* bound: workers killed, by a timeout, a cancellation or a crash

Backend == "backend"

HistoryAssumption ==
  /\ Homes # <<>> /\ Homes \in Seq(Range(Homes)) /\ Backend \notin Windows
  /\ Shared # Recovery /\ {Shared, Recovery} \cap Range(Homes) = {}
  /\ {MaxStarts, MaxWrites, MaxDeletes, MaxCrashes} \subseteq Nat

VARIABLES
  log,        \* log[st]: the sessions of the store, id -> events
  files,      \* files[st]: content of the attachment, NoFile if there is none
  locks,      \* sessions open for writing, <<store, id>> -> owner
  marker,     \* journal of the sources, <<source, store, id>> -> [revision, target]
  mixed,      \* the official store holds two physical formats
  run,        \* run[w]: the worker of the window
  written, deleted, \* history, for the properties
  starts, crashes

vars == <<log, files, locks, marker, mixed, run, written, deleted, starts, crashes>>

Stores == Range(Homes) \cup {Shared, Recovery}
NoFile == "none"
Session == <<"s">>            \* the session the old home starts with
Event(n) == [by |-> "user", n |-> n]
Label == [by |-> "fork", n |-> 0]
Off == [at |-> "off", dest |-> Shared, homes |-> <<>>, from |-> Shared, todo |-> {},
        id |-> <<>>, rev |-> <<>>, target |-> <<>>]

With(f, key, value) == [k \in DOMAIN f \cup {key} |-> IF k = key THEN value ELSE f[k]]
Without(f, keys) == [k \in DOMAIN f \ keys |-> f[k]]
Owned(st, id) == <<st, id>> \in DOMAIN locks
LocksOf(w) == {k \in DOMAIN locks : locks[k] = w}

Init ==
  /\ \E inShared \in BOOLEAN :
       log = [st \in Stores |-> IF st = Homes[1] \/ (st = Shared /\ inShared)
                                THEN With(<<>>, Session, <<Event(0)>>) ELSE <<>>]
  /\ \E f \in {NoFile, "c2"} :
       files = [st \in Stores |-> CASE st = Homes[1] -> "c1" [] st = Shared -> f [] OTHER -> NoFile]
  /\ locks = <<>> /\ marker = <<>> /\ mixed \in BOOLEAN
  /\ run = [w \in Windows |-> Off]
  /\ written = {<<Event(0)>>} /\ deleted = {} /\ starts = 0 /\ crashes = 0

-----------------------------------------------------------------------------
(* Backends: the official DSH, an older extension, this one after its start. *)

BackendOpens(st, id) ==
  /\ id \in DOMAIN log[st] /\ ~Owned(st, id) /\ log[st][id] # <<>>
  /\ locks' = With(locks, <<st, id>>, Backend)
  /\ UNCHANGED <<log, files, marker, mixed, run, written, deleted, starts, crashes>>

BackendWrites(st, id) ==
  /\ Owned(st, id) /\ locks[<<st, id>>] = Backend
  /\ Cardinality(written) <= MaxWrites
  /\ log' = [log EXCEPT ![st][id] = Append(@, Event(Cardinality(written)))]
  /\ written' = written \cup {log'[st][id]}
  /\ UNCHANGED <<files, locks, marker, mixed, run, deleted, starts, crashes>>

BackendCloses(st, id) ==
  /\ Owned(st, id) /\ locks[<<st, id>>] = Backend
  /\ locks' = Without(locks, {<<st, id>>})
  /\ UNCHANGED <<log, files, marker, mixed, run, written, deleted, starts, crashes>>

UserDeletes(st, id) ==
  /\ id \in DOMAIN log[st] /\ ~Owned(st, id) /\ Cardinality(deleted) < MaxDeletes
  /\ log' = [log EXCEPT ![st] = Without(@, {id})]
  /\ deleted' = deleted \cup {<<st, id>>}
  /\ UNCHANGED <<files, locks, marker, mixed, run, written, starts, crashes>>

-----------------------------------------------------------------------------
(* The worker.                                                              *)

SourcesOf(dest) == IF dest = Shared THEN <<Homes[1], Recovery>> \o Tail(Homes) ELSE Homes

To(w, at) == run' = [run EXCEPT ![w].at = at]

(* spawnRuntime runs the migration before the runtime; opening a store of   *)
(* two formats throws.                                                      *)
Begin(dest) == [Off EXCEPT !.dest = dest, !.homes = SourcesOf(dest),
                           !.at = IF dest = Shared /\ mixed THEN "failed" ELSE "homes"]

Start(w) ==
  /\ run[w].at = "off" /\ starts < MaxStarts /\ starts' = starts + 1
  /\ run' = [run EXCEPT ![w] = Begin(Shared)]
  /\ UNCHANGED <<log, files, locks, marker, mixed, written, deleted, crashes>>

(* A worker that throws releases what it holds; spawnRuntime then tries the *)
(* recovery store, and after that goes on with the old home.                *)
Gone(w) ==
  /\ run' = [run EXCEPT ![w] = IF @.dest = Shared THEN Begin(Recovery) ELSE Off]
  /\ locks' = Without(locks, LocksOf(w))
  /\ UNCHANGED <<log, files, marker, mixed, written, deleted, starts>>

Fails(w) == run[w].at = "failed" /\ Gone(w) /\ UNCHANGED crashes

Killed(w) ==
  /\ run[w].at \notin {"off", "failed"} /\ crashes < MaxCrashes /\ crashes' = crashes + 1
  /\ \/ Gone(w)
     \/ /\ run' = [run EXCEPT ![w] = Off] /\ locks' = Without(locks, LocksOf(w))
        /\ UNCHANGED <<log, files, marker, mixed, written, deleted, starts>>

Lists(w) ==
  /\ run[w].at = "homes"
  /\ IF run[w].homes = <<>> THEN run' = [run EXCEPT ![w] = Off]
     ELSE LET from == Head(run[w].homes)
          IN run' = [run EXCEPT ![w].homes = Tail(@), ![w].at = "next", ![w].from = from,
                       ![w].todo = {[id |-> i, rev |-> log[from][i]] : i \in DOMAIN log[from]}]
  /\ UNCHANGED <<log, files, locks, marker, mixed, written, deleted, starts, crashes>>

Journaled(from, dest, id, rev) ==
  /\ <<from, dest, id>> \in DOMAIN marker
  /\ marker[<<from, dest, id>>].revision = rev

(* The next session of the list: skipped when its journal entry is current. *)
Picks(w) ==
  /\ run[w].at = "next"
  /\ IF run[w].todo = {} THEN To(w, "homes")
     ELSE \E s \in run[w].todo :
            run' = [run EXCEPT ![w].todo = @ \ {s}, ![w].id = s.id,
                      ![w].at = IF Journaled(run[w].from, run[w].dest, s.id, s.rev)
                                THEN "next" ELSE "open"]
  /\ UNCHANGED <<log, files, locks, marker, mixed, written, deleted, starts, crashes>>

(* A source someone else writes is deferred; a missing one throws.          *)
Opens(w) ==
  LET r == run[w] IN
  /\ r.at = "open"
  /\ CASE Owned(r.from, r.id) -> To(w, "next") /\ UNCHANGED locks
       [] ~Owned(r.from, r.id) /\ r.id \notin DOMAIN log[r.from] -> To(w, "failed") /\ UNCHANGED locks
       [] OTHER -> To(w, "attachments") /\ locks' = With(locks, <<r.from, r.id>>, w)
  /\ UNCHANGED <<log, files, marker, mixed, written, deleted, starts, crashes>>

(* Attachments are linked into place, never over another content.           *)
Attaches(w) ==
  LET r == run[w] IN
  /\ r.at = "attachments"
  /\ IF files[r.from] # NoFile /\ files[r.dest] \notin {NoFile, files[r.from]}
     THEN To(w, "failed") /\ UNCHANGED files
     ELSE /\ run' = [run EXCEPT ![w].at = "compare", ![w].rev = log[r.from][r.id]]
          /\ files' = [files EXCEPT ![r.dest] = IF files[r.from] = NoFile THEN @ ELSE files[r.from]]
  /\ UNCHANGED <<log, locks, marker, mixed, written, deleted, starts, crashes>>

Compared(events, other) ==
  CASE events = other -> "equal"
    [] IsStrictPrefix(other, events) -> "source-ahead"
    [] IsStrictPrefix(events, other) -> "target-ahead"
    [] OTHER -> "diverged"

(* transferSession: without a lock on the target.                           *)
Compares(w) ==
  LET r == run[w] IN
  /\ r.at = "compare"
  /\ run' = [run EXCEPT ![w].target = r.id, ![w].at =
       IF r.id \notin DOMAIN log[r.dest] THEN "create"
       ELSE CASE Compared(r.rev, log[r.dest][r.id]) = "source-ahead" -> "write"
              [] Compared(r.rev, log[r.dest][r.id]) = "diverged" -> "fork"
              [] OTHER -> "mark"]
  /\ UNCHANGED <<log, files, locks, marker, mixed, written, deleted, starts, crashes>>

ForkId(r) == <<r.from, r.id, r.rev>>

(* Mutant of Advances: what was compared before the lock is trusted.        *)
AdvancesUnchecked(w) ==
  LET r == run[w] IN
  /\ r.at = "write" /\ r.id \in DOMAIN log[r.dest]
  /\ IF Owned(r.dest, r.id)
     THEN To(w, "fork") /\ UNCHANGED log
     ELSE /\ To(w, "mark")
          /\ log' = [log EXCEPT ![r.dest][r.id] = @ \o SubSeq(r.rev, Len(@) + 1, Len(r.rev))]
  /\ UNCHANGED <<files, locks, marker, mixed, written, deleted, starts, crashes>>

(* Fast forward under the lock of the target, compared again.               *)
Advances(w) ==
  LET r == run[w] IN
  /\ r.at = "write"
  /\ CASE r.id \notin DOMAIN log[r.dest] -> To(w, "failed") /\ UNCHANGED log
       [] Owned(r.dest, r.id) -> To(w, "fork") /\ UNCHANGED log
       [] OTHER ->
            LET relation == Compared(r.rev, log[r.dest][r.id]) IN
            /\ To(w, IF relation = "diverged" THEN "fork" ELSE "mark")
            /\ log' = IF relation = "source-ahead" THEN [log EXCEPT ![r.dest][r.id] = r.rev] ELSE log
  /\ UNCHANGED <<files, locks, marker, mixed, written, deleted, starts, crashes>>

(* The fork of this very log may be there from an earlier run.              *)
Forks(w) ==
  LET r == run[w]  id == ForkId(r) IN
  /\ r.at = "fork"
  /\ run' = [run EXCEPT ![w].target = id, ![w].at =
       IF id \notin DOMAIN log[r.dest] THEN "create"
       ELSE IF IsPrefix(r.rev, log[r.dest][id]) THEN "mark" ELSE "failed"]
  /\ UNCHANGED <<log, files, locks, marker, mixed, written, deleted, starts, crashes>>

(* publish: create, then append.  A session that exists by now is deferred. *)
Creates(w) ==
  LET r == run[w] IN
  /\ r.at = "create"
  /\ IF r.target \in DOMAIN log[r.dest]
     THEN To(w, "next") /\ locks' = Without(locks, {<<r.from, r.id>>}) /\ UNCHANGED log
     ELSE /\ To(w, "append") /\ locks' = With(locks, <<r.dest, r.target>>, w)
          /\ log' = [log EXCEPT ![r.dest] = With(@, r.target, <<>>)]
  /\ UNCHANGED <<files, marker, mixed, written, deleted, starts, crashes>>

Appends(w) ==
  LET r == run[w] IN
  /\ r.at = "append" /\ To(w, "mark")
  /\ log' = [log EXCEPT ![r.dest][r.target] = IF r.target = r.id THEN r.rev ELSE Append(r.rev, Label)]
  /\ locks' = Without(locks, {<<r.dest, r.target>>})
  /\ UNCHANGED <<files, marker, mixed, written, deleted, starts, crashes>>

(* The journal entry, with the revision of the source as it is now.         *)
Marks(w) ==
  LET r == run[w] IN
  /\ r.at = "mark" /\ To(w, "next")
  /\ marker' = With(marker, <<r.from, r.dest, r.id>>,
                     [revision |-> log[r.from][r.id], target |-> r.target])
  /\ locks' = Without(locks, {<<r.from, r.id>>})
  /\ UNCHANGED <<log, files, mixed, written, deleted, starts, crashes>>

-----------------------------------------------------------------------------
Next ==
  \/ \E st \in Stores : \E id \in DOMAIN log[st] :
       BackendOpens(st, id) \/ BackendWrites(st, id) \/ BackendCloses(st, id) \/ UserDeletes(st, id)
  \/ \E w \in Windows :
       \/ Start(w) \/ Fails(w) \/ Killed(w) \/ Lists(w) \/ Picks(w) \/ Opens(w) \/ Attaches(w)
       \/ Compares(w) \/ Advances(w) \/ Forks(w) \/ Creates(w) \/ Appends(w) \/ Marks(w)

Spec == Init /\ [][Next]_vars

-----------------------------------------------------------------------------
(* A journal entry stands for a history that is there: the log it names is  *)
(* in the target with every event of that revision, unless its user deleted *)
(* it, and so is the attachment.  Crashes, forks and both windows included. *)
JournalIsTrue ==
  \A k \in DOMAIN marker :
    LET dest == k[2]  m == marker[k] IN
    /\ \/ <<dest, m.target>> \in deleted
       \/ m.target \in DOMAIN log[dest] /\ IsPrefix(m.revision, log[dest][m.target])
    /\ files[k[1]] \in {NoFile, files[dest]}

(* Every log is one its author had, with the marks of the forks made of it: *)
(* no splice of two continuations, nothing overwritten.  An empty one was   *)
(* created and not filled yet.                                              *)
Genuine(l) ==
  \/ l = <<>>
  \/ \E past \in written : IsPrefix(past, l) /\ \A i \in Len(past) + 1..Len(l) : l[i] = Label

LogsAreGenuine == \A st \in Stores : \A id \in DOMAIN log[st] : Genuine(log[st][id])

(* No history is lost or mangled on its way to the shared store.            *)
HistoryKept == JournalIsTrue /\ LogsAreGenuine

(* A history its user deleted in the shared store is not copied there again *)
(* from a source whose journal entry says that this very log is done.       *)
StaysDeleted ==
  [][\A w \in Windows :
       LET r == run[w]  k == <<r.from, r.dest, r.id>> IN
       (/\ k \in DOMAIN marker /\ marker[k] = [revision |-> r.rev, target |-> r.target]
        /\ <<r.dest, r.target>> \in deleted /\ r.at = "create" /\ run'[w].at = "append")
       => FALSE]_vars
==============================================================================
