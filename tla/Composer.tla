------------------------------ MODULE Composer ------------------------------
(***************************************************************************)
(* What the webview shows of the host and what the user writes in it: the   *)
(* publisher of state snapshots (WorkbenchViewProvider), the two message    *)
(* queues, the configuration draft (ComposerConfigurationStore) and the     *)
(* optimistic echo of a prompt.  The gateway is reduced to what a snapshot  *)
(* and a prompt touch; PromptAdmission models its admission.                *)
(***************************************************************************)
EXTENDS Naturals, Sequences, FiniteSets

CONSTANTS
  Sessions,  \* conversations
  Models,    \* models a configuration chooses from
  Requests,  \* ids of the prompts, in the order sent
  MaxHost    \* bound: changes of the host that no prompt causes

ComposerAssumption ==
  Sessions # {} /\ Models # {} /\ Requests \subseteq Nat /\ MaxHost \in Nat

VARIABLES
  host,       \* the gateway: open session, catalog, and per session its state
  refused,    \* prompts whose submission failed
  inbox,      \* messages of the webview the host has not taken
  handling,   \* prompts between the message and the gateway's answer
  publisher,  \* progress of publishState: idle, reading, posted, ended
  pending,    \* publishPending
  taken,      \* the snapshot the publisher awaits
  outbox,     \* messages to the webview
  screen,     \* the payload the webview rendered last
  draft,      \* ConfigurationDraft
  echoes,     \* optimisticBubbles
  sent, changes

gateway == <<host, refused, handling>>
publication == <<publisher, pending, taken>>
webview == <<screen, draft, echoes>>
vars == <<gateway, inbox, publication, outbox, webview, sent, changes>>

NoDraft == [session |-> "none"]
Nothing == [session |-> "none"]

(* snapshot: the DTO of the session that is open.                           *)
Snapshot(h) ==
  [session |-> h.open, model |-> h.model[h.open], offered |-> h.offered,
   running |-> h.running[h.open], said |-> h.said[h.open]]

Init ==
  /\ \E s \in Sessions, c \in Models :
       host = [open |-> s, offered |-> Models, model |-> [t \in Sessions |-> c],
               running |-> [t \in Sessions |-> FALSE], said |-> [t \in Sessions |-> {}],
               queue |-> [t \in Sessions |-> <<>>]]
  /\ refused = {} /\ handling = {} /\ inbox = <<>> /\ outbox = <<>>
  /\ publisher = "idle" /\ pending = FALSE /\ taken = Nothing
  /\ screen = Snapshot(host) /\ draft = NoDraft /\ echoes = {}
  /\ sent = 0 /\ changes = 0

-----------------------------------------------------------------------------
(* Publication.                                                             *)

(* publishState of state h: a running drain takes note, else one starts and *)
(* computes its first snapshot at once.                                     *)
Publishes(h) ==
  IF publisher = "idle"
  THEN publisher' = "reading" /\ pending' = FALSE /\ taken' = Snapshot(h)
  ELSE pending' = TRUE /\ UNCHANGED <<publisher, taken>>

(* The awaited snapshot is posted.                                          *)
Posts ==
  /\ publisher = "reading"
  /\ outbox' = Append(outbox, [kind |-> "state", state |-> taken])
  /\ publisher' = "posted" /\ taken' = Nothing
  /\ UNCHANGED <<gateway, inbox, pending, webview, sent, changes>>

(* The loop of drainPublishQueue reads again or ends.                       *)
DrainGoesOn ==
  /\ publisher = "posted"
  /\ IF pending
     THEN publisher' = "reading" /\ pending' = FALSE /\ taken' = Snapshot(host)
     ELSE publisher' = "ended" /\ UNCHANGED <<pending, taken>>
  /\ UNCHANGED <<gateway, inbox, outbox, webview, sent, changes>>

(* Mutant of DrainSettles: what was asked since the loop ended is left.     *)
DrainSettlesOnly ==
  /\ publisher = "ended" /\ publisher' = "idle"
  /\ UNCHANGED <<gateway, inbox, pending, taken, outbox, webview, sent, changes>>

(* The finally of publishState: a change since the loop's end starts anew.  *)
DrainSettles ==
  /\ publisher = "ended"
  /\ IF pending
     THEN publisher' = "reading" /\ pending' = FALSE /\ taken' = Snapshot(host)
     ELSE publisher' = "idle" /\ UNCHANGED <<pending, taken>>
  /\ UNCHANGED <<gateway, inbox, outbox, webview, sent, changes>>

-----------------------------------------------------------------------------
(* The gateway.                                                             *)

Changes(h) == host' = h /\ Publishes(h) /\ UNCHANGED <<inbox, outbox, webview, sent>>

(* A session is opened, a model chosen or the catalog renewed elsewhere (a  *)
(* command, the history list, the host).                                    *)
HostChanges ==
  /\ changes < MaxHost /\ changes' = changes + 1
  /\ UNCHANGED <<refused, handling>>
  /\ \/ \E s \in Sessions \ {host.open} : Changes([host EXCEPT !.open = s])
     \/ \E c \in host.offered :
          c # host.model[host.open] /\ Changes([host EXCEPT !.model[host.open] = c])
     \/ \E C \in SUBSET Models \ {host.offered} :
          {host.model[s] : s \in Sessions} \subseteq C /\ Changes([host EXCEPT !.offered = C])

(* The handler of a sendPrompt message starts; it awaits attachments.       *)
TakesPrompt ==
  /\ inbox # <<>>
  /\ inbox' = Tail(inbox) /\ handling' = handling \cup {Head(inbox)}
  /\ UNCHANGED <<host, refused, publication, outbox, webview, sent, changes>>

(* gateway.sendPrompt: the session that is open now admits the prompt.      *)
Admits(p) ==
  /\ p \in handling /\ handling' = handling \ {p}
  /\ LET s == host.open IN
       IF host.running[s]
       THEN Changes([host EXCEPT !.queue[s] = Append(@, p)])
       ELSE Changes([host EXCEPT !.running[s] = TRUE, !.model[s] = p.model, !.said[s] = @ \cup {p.id}])
  /\ UNCHANGED <<refused, changes>>

(* The submission fails: the webview is told in a message of its own.       *)
Refuses(p) ==
  /\ p \in handling /\ handling' = handling \ {p} /\ refused' = refused \cup {p.id}
  /\ outbox' = Append(outbox, [kind |-> "failed", id |-> p.id])
  /\ UNCHANGED <<host, inbox, publication, webview, sent, changes>>

(* A turn ends; the head of the queue begins the next.                      *)
TurnEnds(s) ==
  /\ host.running[s]
  /\ IF host.queue[s] = <<>>
     THEN Changes([host EXCEPT !.running[s] = FALSE])
     ELSE LET p == Head(host.queue[s]) IN
          Changes([host EXCEPT !.queue[s] = Tail(@), !.model[s] = p.model, !.said[s] = @ \cup {p.id}])
  /\ UNCHANGED <<refused, handling, changes>>

-----------------------------------------------------------------------------
(* The webview.                                                             *)

(* normalizeSelection: a model that is not offered gives way to the         *)
(* session's own.                                                           *)
Normalized(model, state) == IF model \in state.offered THEN model ELSE state.model

(* The selection the composer shows and sends.                              *)
Selection == Normalized(IF draft = NoDraft THEN screen.model ELSE draft.model, screen)

(* update: an unsubmitted draft stays behind with its session, one that is  *)
(* what the session has by now is dropped.                                  *)
Updated(d, state) ==
  IF d = NoDraft \/ (d.session # state.session /\ ~d.submitted) THEN NoDraft
  ELSE LET model == Normalized(d.model, state) IN
       IF model = state.model THEN NoDraft
       ELSE [d EXCEPT !.session = state.session, !.model = model]

(* reconcileOptimisticPrompts: an echo ends with the record of its prompt.  *)
Unsaid(ids, state) == ids \ state.said

(* A state message is rendered; another session has no echoes.              *)
ShowsState ==
  /\ outbox # <<>> /\ Head(outbox).kind = "state"
  /\ LET state == Head(outbox).state IN
       /\ screen' = state /\ draft' = Updated(draft, state)
       /\ echoes' = IF state.session = screen.session THEN Unsaid(echoes, state) ELSE {}
  /\ outbox' = Tail(outbox)
  /\ UNCHANGED <<gateway, inbox, publication, sent, changes>>

(* sendPromptFailed takes the echo of that prompt back.                     *)
ShowsFailure ==
  /\ outbox # <<>> /\ Head(outbox).kind = "failed"
  /\ echoes' = echoes \ {Head(outbox).id} /\ outbox' = Tail(outbox)
  /\ UNCHANGED <<gateway, inbox, publication, screen, draft, sent, changes>>

(* The user picks a model in the composer of a session that is not running. *)
Stages(model) ==
  /\ ~screen.running /\ model \in screen.offered \ {Selection}
  /\ draft' = [session |-> screen.session, model |-> model, submitted |-> FALSE]
  /\ UNCHANGED <<gateway, inbox, publication, outbox, screen, echoes, sent, changes>>

(* sendPrompt of the webview: the selection travels with the prompt, and an *)
(* echo stands for it when nothing runs and no other echo waits.            *)
Sends ==
  /\ sent + 1 \in Requests /\ sent' = sent + 1
  /\ inbox' = Append(inbox, [id |-> sent + 1, model |-> Selection])
  /\ draft' = IF draft = NoDraft THEN NoDraft ELSE [draft EXCEPT !.submitted = TRUE]
  /\ echoes' = IF ~screen.running /\ echoes = {} THEN {sent + 1} ELSE echoes
  /\ UNCHANGED <<gateway, publication, outbox, screen, changes>>

(* New session, parent session, fork: the draft is given up at the click.   *)
GivesUpDraft ==
  /\ draft # NoDraft /\ draft' = NoDraft
  /\ UNCHANGED <<gateway, inbox, publication, outbox, screen, echoes, sent, changes>>

Next ==
  \/ Posts \/ DrainGoesOn \/ DrainSettles
  \/ HostChanges \/ TakesPrompt \/ \E p \in handling : Admits(p) \/ Refuses(p)
  \/ \E s \in Sessions : TurnEnds(s)
  \/ ShowsState \/ ShowsFailure \/ \E c \in Models : Stages(c) \/ Sends \/ GivesUpDraft

Spec == Init /\ [][Next]_vars

-----------------------------------------------------------------------------
(* Once nothing is under way to the webview it shows the gateway's state,   *)
(* and no echo stands for a prompt the open session has on record or the    *)
(* gateway refused: publishState may fold changes together but never forget *)
(* the last, and an older snapshot never comes after a newer one.           *)
QuietScreenIsTrue ==
  publisher = "idle" /\ outbox = <<>> =>
    /\ screen = Snapshot(host)
    /\ echoes \cap (host.said[host.open] \cup refused) = {}
=============================================================================
