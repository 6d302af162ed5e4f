----------------------------- MODULE FileLinks -----------------------------
(***************************************************************************)
(* References to files in the conversation (webview/markdown.ts and         *)
(* file-reference.ts): a reference is plain text until the host has found   *)
(* the file in the worktree of its session or in the workspace, and a link  *)
(* afterwards.  What a text must look like to be a reference is left out.   *)
(***************************************************************************)
EXTENDS Naturals, Sequences, FiniteSets

CONSTANTS
  Sessions,    \* conversations, each with roots of its own
  Blocks,      \* blocks of markdown of a conversation
  Keys,        \* references
  MaxOpens,    \* bound: changes of the session
  MaxFileOps,  \* bound: files created or deleted
  MaxFailures  \* bound: checks that fail

LinksAssumption ==
  Sessions # {} /\ MaxOpens \in Nat /\ MaxFileOps \in Nat /\ MaxFailures \in Nat

VARIABLES
  open,       \* the session the gateway has open
  found,      \* per session the references that name a file there
  shown,      \* renderedSessionId
  marks,      \* per block and reference what the element is
  verified, rejected, asked, \* the ledger: verified-, rejected-, pendingReferences
  candidates, \* referenceCandidates
  flush,      \* candidateFlushTimer
  requests,   \* validateFileReferences on the way to the host
  checking,   \* requests whose handler runs
  answers,    \* referenceValidation on the way to the webview
  lost,       \* references of the session shown whose check failed (history)
  visit,      \* number of the session shown, counting changes (history)
  foreign,    \* verdicts asked for or checked elsewhere that were applied in this visit (history)
  opens, fileOps, failures

ledger == <<verified, rejected, asked, candidates, flush>>
webview == <<shown, visit, marks, ledger>>
wires == <<requests, checking, answers>>
vars == <<open, found, webview, wires, lost, foreign, opens, fileOps, failures>>

Blank == [b \in Blocks |-> [k \in Keys |-> "none"]]

Init ==
  /\ open \in Sessions /\ shown = open /\ found \in [Sessions -> SUBSET Keys]
  /\ marks = Blank /\ verified = {} /\ rejected = {} /\ asked = {} /\ candidates = {}
  /\ flush = FALSE /\ requests = <<>> /\ checking = {} /\ answers = <<>>
  /\ lost = {} /\ visit = 0 /\ foreign = {} /\ opens = 0 /\ fileOps = 0 /\ failures = 0

-----------------------------------------------------------------------------
(* The ledger of file-reference.ts.                                         *)

(* isVerifiedFileReference, isRejectedFileReference: how a reference looks. *)
Verdict(k) == IF k \in verified THEN "link" ELSE IF k \in rejected THEN "text" ELSE "waiting"

(* markPendingFileReferences of the candidates nobody asked about yet.      *)
Unasked == candidates \ (verified \cup rejected \cup asked)

(* markResolvedFileReferences, then markRejectedFileReferences.             *)
Marks(resolved, denied) ==
  /\ verified' = (verified \cup resolved) \ denied
  /\ rejected' = (rejected \ resolved) \cup denied
  /\ asked' = asked \ (resolved \cup denied)

(* Mutant of ClearLedger: what was asked stays on it.                       *)
ClearVerdicts == verified' = {} /\ rejected' = {} /\ UNCHANGED asked

ClearLedger == verified' = {} /\ rejected' = {} /\ asked' = {}

-----------------------------------------------------------------------------
(* renderMarkdown: a block whose source changed is built anew; a reference  *)
(* without a verdict is registered as a placeholder and collected.          *)
Renders(b, K) ==
  /\ marks' = [marks EXCEPT ![b] = [k \in Keys |->
       IF k \in K THEN Verdict(k) ELSE "none"]]
  /\ candidates' = candidates \cup (K \ (verified \cup rejected))
  /\ flush' = TRUE
  /\ UNCHANGED <<open, found, shown, visit, verified, rejected, asked, wires, lost, foreign, opens,
                 fileOps, failures>>

(* scheduleValidationFlush fires: one question for all of them.             *)
Flushes ==
  /\ flush /\ flush' = FALSE
  /\ asked' = asked \cup Unasked
  /\ requests' = IF Unasked = {} THEN requests
                 ELSE Append(requests, [keys |-> Unasked, visit |-> visit])
  /\ UNCHANGED <<open, found, shown, visit, marks, verified, rejected, candidates, checking, answers,
                 lost, foreign, opens, fileOps, failures>>

(* The handler starts with the roots of the session that is open now.       *)
HostTakes ==
  /\ requests # <<>> /\ requests' = Tail(requests)
  /\ checking' = checking \cup {[keys |-> Head(requests).keys, visit |-> Head(requests).visit,
                                 root |-> open]}
  /\ UNCHANGED <<open, found, webview, answers, lost, foreign, opens, fileOps, failures>>

(* referenceExists of each key; handlers end in any order.                  *)
HostAnswers(c) ==
  /\ checking' = checking \ {c}
  /\ answers' = Append(answers, [resolved |-> c.keys \cap found[c.root], keys |-> c.keys,
                                 visit |-> c.visit, root |-> c.root])
  /\ UNCHANGED <<open, found, webview, requests, lost, foreign, opens, fileOps, failures>>

(* The index cannot be built: the handler throws and nobody answers.        *)
HostFails(c) ==
  /\ failures < MaxFailures /\ failures' = failures + 1
  /\ checking' = checking \ {c}
  /\ lost' = IF c.visit = visit THEN lost \cup c.keys ELSE lost
  /\ UNCHANGED <<open, found, webview, requests, answers, foreign, opens, fileOps>>

(* applyReferenceValidation: the verdict goes to every placeholder of the   *)
(* reference, whichever session asked.                                      *)
Applies ==
  /\ answers # <<>> /\ answers' = Tail(answers)
  /\ LET a == Head(answers) IN
       /\ Marks(a.resolved, a.keys \ a.resolved) /\ candidates' = candidates \ a.keys
       /\ marks' = [b \in Blocks |-> [k \in Keys |->
            IF marks[b][k] # "waiting" \/ k \notin a.keys THEN marks[b][k]
            ELSE IF k \in a.resolved THEN "link" ELSE "text"]]
       /\ foreign' = IF a.visit = visit /\ a.root = shown THEN foreign
                     ELSE foreign \cup {<<k, IF k \in a.resolved THEN "link" ELSE "text">> :
                                          k \in a.keys}
  /\ UNCHANGED <<open, found, shown, visit, flush, requests, checking, lost, opens, fileOps, failures>>

(* The gateway opens another session.                                       *)
Opens(s) ==
  /\ opens < MaxOpens /\ opens' = opens + 1 /\ open' = s
  /\ UNCHANGED <<found, webview, wires, lost, foreign, fileOps, failures>>

(* Its transcript is rendered: resetReferenceValidation, and the nodes of   *)
(* the other session go.                                                    *)
ShowsSession ==
  /\ shown # open /\ shown' = open /\ visit' = visit + 1
  /\ marks' = Blank /\ ClearLedger /\ candidates' = {} /\ flush' = FALSE
  /\ lost' = {} /\ foreign' = {}
  /\ UNCHANGED <<open, found, wires, opens, fileOps, failures>>

(* An agent or the user creates or deletes a file.                          *)
FileChanges(s, k) ==
  /\ fileOps < MaxFileOps /\ fileOps' = fileOps + 1
  /\ found' = [found EXCEPT ![s] = IF k \in @ THEN @ \ {k} ELSE @ \cup {k}]
  /\ UNCHANGED <<open, webview, wires, lost, foreign, opens, failures>>

Next ==
  \/ \E b \in Blocks, K \in SUBSET Keys : Renders(b, K)
  \/ Flushes \/ HostTakes \/ \E c \in checking : HostAnswers(c) \/ HostFails(c)
  \/ Applies \/ \E s \in Sessions \ {open} : Opens(s)
  \/ ShowsSession \/ \E s \in Sessions, k \in Keys : FileChanges(s, k)

Spec == Init /\ [][Next]_vars

-----------------------------------------------------------------------------
Messages == {requests[i] : i \in DOMAIN requests} \cup checking \cup {answers[i] : i \in DOMAIN answers}
InFlight == UNION {m.keys : m \in Messages}

(* No placeholder is forgotten: while a reference waits for its verdict the *)
(* check is due or under way, across changes of the session too, unless it  *)
(* failed.                                                                  *)
WaitingIsAsked ==
  \A b \in Blocks, k \in Keys : marks[b][k] = "waiting" => flush \/ k \in InFlight \cup lost

(* Where no verdict of another session came in, what is on screen is the    *)
(* ledger: a link was verified, text was rejected, the rest is undecided.   *)
MarksFollowLedger ==
  \A b \in Blocks, k \in Keys :
    \/ \E verdict \in {"link", "text"} : <<k, verdict>> \in foreign
    \/ marks[b][k] \in {"none", Verdict(k)}

LinksSettle == WaitingIsAsked /\ MarksFollowLedger

(* What markdown.ts:262 promises of a change of session: a link was checked *)
(* for the session on screen.  It is not kept: an answer to the session     *)
(* before arrives after the reset and is taken for this one's.              *)
LinksOfSession ==
  \A b \in Blocks, k \in Keys : marks[b][k] = "link" => <<k, "link">> \notin foreign
=============================================================================
