---------------------------- MODULE FileMention ----------------------------
(***************************************************************************)
(* The @ completion of workspace files: the menu of each webview            *)
(* (webview/file-mention), the search of the host over its index            *)
(* (WorkspaceFileService), and answers that go to every webview.  Ranking   *)
(* is a set: the files that match a query.                                  *)
(***************************************************************************)
EXTENDS Naturals, Sequences, FiniteSets

CONSTANTS
  Views,       \* webviews: the sidebar's and the panel's
  Files,       \* names of files
  FirstFiles,  \* those in the workspace at the start
  Queries,     \* what is typed after the @
  Matches,     \* per query the files that match
  MaxInputs,   \* bound: per view its inputs
  MaxFileOps,  \* bound: files created or deleted, and expiries of the index
  MaxFailures  \* bound: index builds that fail

MentionAssumption ==
  /\ Matches \in [Queries -> SUBSET Files] /\ "none" \notin Queries /\ FirstFiles \subseteq Files
  /\ MaxInputs \in [Views -> Nat] /\ MaxFileOps \in Nat /\ MaxFailures \in Nat

VARIABLES
  menus,    \* per view: mention at the caret, and the component's state
  requests, \* searchWorkspaceFiles on the way to the host
  waiting,  \* searches that wait for the index, in order
  answers,  \* per view the workspaceFileSuggestions on the way to it
  disk,     \* files there are
  index, fresh, known, \* index, whether indexedAt is recent, filesById
  touched,  \* files created or deleted since the build that runs began; none without one
  unseen,   \* files the index may not tell of: changed while it was built or without an event
  unfound,  \* files an answer should have told of and did not (history)
  dropped,  \* searches whose index could not be built (history)
  fileOps, failures

hostIndex == <<index, fresh, known, touched, unseen>>
vars == <<menus, requests, waiting, answers, disk, hostIndex, unfound, dropped, fileOps, failures>>

NoTimer == [query |-> "none", id |-> 0]
NoList == [query |-> "none", files |-> {}]
NoBuild == {"none"}

Closed == [mention |-> "none", active |-> "none", menu |-> "hidden", list |-> NoList,
           timer |-> NoTimer, request |-> 0, accepted |-> 0, arrowed |-> FALSE, mixed |-> FALSE]

Init ==
  /\ menus = [v \in Views |-> Closed] /\ requests = <<>> /\ waiting = <<>>
  /\ answers = [v \in Views |-> <<>>]
  /\ disk = FirstFiles /\ index = {} /\ fresh = FALSE /\ known = {} /\ touched = NoBuild
  /\ unseen = {} /\ unfound = {} /\ dropped = {} /\ fileOps = 0 /\ failures = 0

-----------------------------------------------------------------------------
(* The menu of a webview.                                                   *)

(* close: an armed search stays armed.                                      *)
ClosedMenu(m) == [m EXCEPT !.active = "none", !.menu = "hidden", !.list = NoList]

(* schedule, with the mention at the caret: the suggestions of the mention  *)
(* before stay in memory behind the status line.                            *)
Scheduled(m) ==
  IF m.mention = "none" THEN ClosedMenu(m)
  ELSE [m EXCEPT !.active = m.mention, !.menu = "searching", !.arrowed = FALSE,
                 !.request = @ + 1, !.timer = [query |-> m.mention, id |-> m.request + 1]]

Menu(v, m) ==
  /\ menus' = [menus EXCEPT ![v] = m]
  /\ UNCHANGED <<waiting, disk, hostIndex, unfound, dropped, fileOps, failures>>

(* Input, a click, or the menu opened from the actions of the composer.     *)
Types(v, q) ==
  /\ menus[v].request < MaxInputs[v]
  /\ Menu(v, Scheduled([menus[v] EXCEPT !.mention = q])) /\ UNCHANGED <<requests, answers>>

(* The 80 ms of the last input are over.                                    *)
Searches(v) ==
  /\ menus[v].timer # NoTimer
  /\ LET t == menus[v].timer IN
       requests' = Append(requests, [query |-> t.query, id |-> t.id, view |-> v])
  /\ Menu(v, [menus[v] EXCEPT !.timer = NoTimer]) /\ UNCHANGED answers

(* ArrowDown, ArrowUp: whatever is in memory is shown.                      *)
Arrows(v) ==
  /\ menus[v].active # "none" /\ menus[v].list.files # {}
  /\ Menu(v, [menus[v] EXCEPT !.menu = "files", !.arrowed = TRUE]) /\ UNCHANGED <<requests, answers>>

(* choose, by a click on what is shown or by Enter on what is in memory:    *)
(* the mention leaves the text and the input event closes the menu.         *)
Chooses(v) ==
  /\ menus[v].active # "none" /\ menus[v].list.files # {}
  /\ Menu(v, ClosedMenu([menus[v] EXCEPT !.mention = "none"])) /\ UNCHANGED <<requests, answers>>

(* Escape, blur, sending, a new session, another menu.                      *)
Closes(v) ==
  /\ menus[v].active # "none"
  /\ Menu(v, ClosedMenu(menus[v])) /\ UNCHANGED <<requests, answers>>

(* Mutant of Accepted: the query of the answer is not looked at.            *)
AcceptedAnyQuery(m, a, v) ==
  IF m.active = "none" \/ a.id < m.accepted THEN m
  ELSE [m EXCEPT !.accepted = a.id, !.list = [query |-> a.query, files |-> a.files],
                 !.menu = IF a.files = {} THEN "empty" ELSE "files", !.mixed = @ \/ a.view # v]

(* acceptSuggestions: not older than what was accepted, and for the query.  *)
(* That another webview asked is not seen; its numbers are its own.         *)
Accepted(m, a, v) ==
  IF m.active = "none" \/ a.id < m.accepted \/ a.query # m.active THEN m
  ELSE [m EXCEPT !.accepted = a.id, !.list = [query |-> a.query, files |-> a.files],
                 !.menu = IF a.files = {} THEN "empty" ELSE "files", !.mixed = @ \/ a.view # v]

Accepts(v) ==
  /\ answers[v] # <<>>
  /\ answers' = [answers EXCEPT ![v] = Tail(@)]
  /\ Menu(v, Accepted(menus[v], Head(answers[v]), v)) /\ UNCHANGED requests

-----------------------------------------------------------------------------
(* The search of the host.                                                  *)

(* rankWorkspaceFiles.                                                      *)
Hits(files, q) == files \cap Matches[q]

Answer(r, files) ==
  [query |-> r.query, id |-> r.id, view |-> r.view, files |-> Hits(files, r.query)]

(* postToHosts: every webview gets each answer.                             *)
Posts(rs, files) ==
  answers' = [v \in Views |-> answers[v] \o [i \in DOMAIN rs |-> Answer(rs[i], files)]]

(* Files of a query that are there, not in the list and not excused.        *)
Missing(rs, files, excused) ==
  UNION {Hits(disk, rs[i].query) \ (files \cup excused) : i \in DOMAIN rs}

(* ensureIndex: a recent index that is not empty answers; else the search   *)
(* joins the build that runs or begins one.                                 *)
HostTakes ==
  /\ requests # <<>> /\ requests' = Tail(requests)
  /\ LET r == Head(requests) IN
       IF fresh /\ index # {}
       THEN /\ Posts(<<r>>, index) /\ unfound' = unfound \cup Missing(<<r>>, index, unseen)
            /\ UNCHANGED <<waiting, touched>>
       ELSE /\ waiting' = Append(waiting, r) /\ touched' = IF touched = NoBuild THEN {} ELSE touched
            /\ UNCHANGED <<answers, unfound>>
  /\ UNCHANGED <<menus, disk, index, fresh, known, unseen, dropped, fileOps, failures>>

(* buildIndex ends: a file that came or went meanwhile is in it or not; the *)
(* index counts as recent even if it was invalidated meanwhile.             *)
IndexBuilt ==
  /\ touched # NoBuild
  /\ \E X \in SUBSET touched :
       LET files == (disk \ touched) \cup X IN
         /\ index' = files /\ known' = known \cup files /\ Posts(waiting, files)
         /\ unfound' = unfound \cup Missing(waiting, files, touched)
  /\ fresh' = TRUE /\ unseen' = touched /\ touched' = NoBuild /\ waiting' = <<>>
  /\ UNCHANGED <<menus, requests, disk, dropped, fileOps, failures>>

(* findFiles fails: the searches that wait fail with it, unanswered.        *)
IndexFails ==
  /\ touched # NoBuild /\ failures < MaxFailures /\ failures' = failures + 1
  /\ touched' = NoBuild /\ waiting' = <<>>
  /\ dropped' = dropped \cup {[view |-> waiting[i].view, id |-> waiting[i].id] : i \in DOMAIN waiting}
  /\ UNCHANGED <<menus, requests, answers, disk, index, fresh, known, unseen, unfound, fileOps>>

Toggled(f) == IF f \in disk THEN disk \ {f} ELSE disk \cup {f}
Touched(f) == IF touched = NoBuild THEN NoBuild ELSE touched \cup {f}

(* Mutant of EditorChanges: nobody listens to the event.                    *)
EditorChangesUnheard(f) ==
  /\ fileOps < MaxFileOps /\ fileOps' = fileOps + 1
  /\ disk' = Toggled(f) /\ touched' = Touched(f)
  /\ UNCHANGED <<menus, requests, waiting, answers, index, fresh, known, unseen, unfound, dropped,
                 failures>>

(* A file is created, deleted or renamed in the editor: the index is        *)
(* invalidated.                                                             *)
EditorChanges(f) ==
  /\ fileOps < MaxFileOps /\ fileOps' = fileOps + 1
  /\ disk' = Toggled(f) /\ touched' = Touched(f) /\ fresh' = FALSE
  /\ UNCHANGED <<menus, requests, waiting, answers, index, known, unseen, unfound, dropped, failures>>

(* The agent writes a file on disk: the editor tells nobody.                *)
DiskChanges(f) ==
  /\ fileOps < MaxFileOps /\ fileOps' = fileOps + 1
  /\ disk' = Toggled(f) /\ touched' = Touched(f) /\ unseen' = unseen \cup {f}
  /\ UNCHANGED <<menus, requests, waiting, answers, index, fresh, known, unfound, dropped, failures>>

(* The index is 20 seconds old.                                             *)
Expires ==
  /\ fresh /\ fresh' = FALSE /\ fileOps < MaxFileOps /\ fileOps' = fileOps + 1
  /\ UNCHANGED <<menus, requests, waiting, answers, disk, index, known, touched, unseen, unfound,
                 dropped, failures>>

Next ==
  \/ \E v \in Views : \/ \E q \in Queries \cup {"none"} : Types(v, q)
                      \/ Searches(v) \/ Arrows(v) \/ Chooses(v) \/ Closes(v) \/ Accepts(v)
  \/ HostTakes \/ IndexBuilt \/ IndexFails
  \/ \E f \in Files : EditorChanges(f) \/ DiskChanges(f)
  \/ Expires

Spec == Init /\ [][Next]_vars

-----------------------------------------------------------------------------
(* A list that came by an answer is one for the query in the text; the      *)
(* arrow keys alone show an older one.                                      *)
MenuAnswersQuery ==
  \A v \in Views : LET m == menus[v] IN m.menu = "files" /\ ~m.arrowed => m.list.query = m.active

UnderWay(v) ==
  \/ menus[v].timer # NoTimer
  \/ \E i \in DOMAIN requests : requests[i].view = v
  \/ \E i \in DOMAIN waiting : waiting[i].view = v
  \/ \E i \in DOMAIN answers[v] : answers[v][i].view = v

(* No search is lost: an open menu with nothing under way shows the answer  *)
(* to its query, unless its search failed or another webview's answer was   *)
(* taken for one of its own.                                                *)
SearchNotLost ==
  \A v \in Views : LET m == menus[v] IN
    m.active # "none" /\ ~UnderWay(v) =>
      \/ m.menu # "searching" /\ m.list.query = m.active
      \/ m.mixed \/ [view |-> v, id |-> m.request] \in dropped

(* A file that is there is found, except one that came while the index was  *)
(* built or without an event since.                                         *)
FilesFound == unfound = {}

MentionSettles == MenuAnswersQuery /\ SearchNotLost /\ FilesFound

(* SearchNotLost with two webviews, as if their requests were told apart.   *)
AnswersAreOwn == \A v \in Views : LET m == menus[v] IN
  m.active # "none" /\ ~UnderWay(v) =>
    (m.menu # "searching" /\ m.list.query = m.active) \/ [view |-> v, id |-> m.request] \in dropped
=============================================================================
