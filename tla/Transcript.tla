------------------------------ MODULE Transcript ------------------------------
(***************************************************************************)
(* What the reader sees of a session: the durable event log, the page of it *)
(* the client has loaded and the live attempt of the assistant, projected   *)
(* to chat items (projectConversation), grouped into collapsed processes    *)
(* (projectTurnProcesses), and reconciled with the nodes that are already   *)
(* in the document (MessageReconciler).  Texts, times and the decorations   *)
(* of a node are left out; an event's seq is its position in the log.       *)
(***************************************************************************)
EXTENDS Integers, Sequences, FiniteSets, SequencesExt, FiniteSetsExt

CONSTANTS
  Calls,     \* tool calls
  MaxTurns,  \* bound: turns of the session
  MaxSteps,  \* bound: steps of a turn
  MaxEvents, \* bound: events of the log
  MaxOthers, \* bound: events of the log that belong to no turn
  PageSize,  \* events of a page
  MaxLag     \* bound: changes between a render and the next one, which ends the run

TranscriptAssumption ==
  {MaxTurns, MaxSteps, MaxEvents, MaxOthers, MaxLag} \subseteq Nat /\ PageSize \in Nat \ {0}

VARIABLES
  log,     \* the durable events of the session
  agent,   \* the turn under way: its step, what it has said, its open calls
  live,    \* the attempt the client is streaming, or NoAttempt
  first,   \* the first loaded event, or NotOpen
  dom,     \* the children of the root and of each process, in order
  tags,    \* message id and stream key of each node of the document
  age      \* 0 before the first render, then counts the changes since

logVars == <<log, agent, live>>
domVars == <<dom, tags>>
vars == <<logVars, first, domVars, age>>

NoAttempt == [turn |-> 0, step |-> 0, blocks |-> <<>>, after |-> 0]
Idle == [turn |-> 0, step |-> 0, phase |-> "idle", said |-> <<>>, open |-> {}]
Root == <<"root">>
NotOpen == 0
EmptyDocument == [dom |-> [p \in {Root} |-> <<>>], tags |-> [n \in {} |-> 0]]

Init ==
  /\ log = <<>> /\ agent = Idle /\ live = NoAttempt
  /\ first = NotOpen /\ dom = EmptyDocument.dom /\ tags = EmptyDocument.tags /\ age = 0

-----------------------------------------------------------------------------
(* The host: the events of a turn and the frames of the live attempt.       *)

Event(type, turn, step, of, blocks) ==
  [type |-> type, turn |-> turn, step |-> step, of |-> of, blocks |-> blocks]

Records(event) == Len(log) < MaxEvents /\ log' = Append(log, event)

(* Prompts, a plugin's notice, a slash command and its outcome belong to no *)
(* turn and come at any moment.                                             *)
Other == {"user", "context", "command/run", "command/done"}
RecordsOther(type) ==
  /\ Cardinality({i \in DOMAIN log : log[i].type \in Other}) < MaxOthers
  /\ type # "user" => \A i \in DOMAIN log : log[i].type # type
  /\ type = "command/done" => \E i \in DOMAIN log : log[i].type = "command/run"
  /\ Records(Event(type, 0, 0, "", <<>>))
  /\ UNCHANGED <<agent, live, first, domVars>>

StartsTurn ==
  /\ agent.phase = "idle" /\ agent.turn < MaxTurns
  /\ Records(Event("turn/start", agent.turn + 1, 0, "", <<>>))
  /\ agent' = [Idle EXCEPT !.turn = agent.turn + 1, !.step = 1, !.phase = "model"]
  /\ UNCHANGED <<live, first, domVars>>

(* The first chunk of a step opens an attempt after the last durable event. *)
Streams(block) ==
  /\ agent.phase = "model" /\ block \notin ToSet(agent.said)
  /\ block = "reasoning" => agent.said = <<>>
  /\ agent' = [agent EXCEPT !.said = Append(@, block)]
  /\ live' = IF agent.said = <<>>
             THEN [turn |-> agent.turn, step |-> agent.step, blocks |-> <<block>>, after |-> Len(log)]
             ELSE [live EXCEPT !.blocks = Append(@, block)]
  /\ UNCHANGED <<log, first, domVars>>

Abandons ==
  /\ agent.phase = "model" /\ agent.said # <<>>
  /\ agent' = [agent EXCEPT !.said = <<>>] /\ live' = NoAttempt
  /\ UNCHANGED <<log, first, domVars>>

(* The durable message settles the attempt when it comes as a frame; a page *)
(* that is read again brings it while the attempt is still held.            *)
Says(framed) ==
  /\ agent.phase = "model" /\ agent.said # <<>>
  /\ Records(Event("assistant/message", agent.turn, agent.step, "", agent.said))
  /\ agent' = [agent EXCEPT !.phase = "tools"]
  /\ live' = IF framed THEN NoAttempt ELSE live
  /\ UNCHANGED <<first, domVars>>

CallsTool(c) ==
  /\ agent.phase = "tools" /\ \A i \in DOMAIN log : log[i].of # c
  /\ Records(Event("tool/call", agent.turn, agent.step, c, <<>>))
  /\ agent' = [agent EXCEPT !.open = @ \cup {c}]
  /\ UNCHANGED <<live, first, domVars>>

ToolReturns(c) ==
  /\ c \in agent.open
  /\ Records(Event("tool/result", agent.turn, agent.step, c, <<>>))
  /\ agent' = [agent EXCEPT !.open = @ \ {c}]
  /\ UNCHANGED <<live, first, domVars>>

NextStep ==
  /\ agent.phase = "tools" /\ agent.open = {} /\ agent.step < MaxSteps
  /\ agent' = [agent EXCEPT !.phase = "model", !.step = @ + 1, !.said = <<>>]
  /\ UNCHANGED <<log, live, first, domVars>>

EndsTurn(how) ==
  /\ agent.phase # "idle"
  /\ how = "completed" => agent.phase = "tools" /\ agent.open = {}
  /\ Records(Event("turn/end", agent.turn, 0, how, <<>>))
  /\ agent' = [Idle EXCEPT !.turn = agent.turn] /\ live' = NoAttempt
  /\ UNCHANGED <<first, domVars>>

-----------------------------------------------------------------------------
(* projectConversation over the events of a page.                           *)

Page(from) == from..Len(log)
InPage(from, type, of) == \E i \in Page(from) : log[i].type = type /\ log[i].of = of

NewestStep(from) ==
  LET steps == {<<log[i].turn, log[i].step>> : i \in {j \in Page(from) : log[j].type = "assistant/message"}}
                 \cup {<<live.turn, live.step>>}
  IN CHOOSE s \in steps : \A o \in steps : o[1] < s[1] \/ (o[1] = s[1] /\ o[2] <= s[2])

(* Mutant: an attempt is shown until a later step streams.                  *)
PartialShownUntilNext(from) == live # NoAttempt /\ NewestStep(from) = <<live.turn, live.step>>

(* An attempt whose step is final, or older than another that has streamed, *)
(* is stale.                                                                *)
PartialShown(from) ==
  /\ live # NoAttempt
  /\ NewestStep(from) = <<live.turn, live.step>>
  /\ ~\E i \in Page(from) : /\ log[i].type = "assistant/message"
                            /\ log[i].turn = live.turn /\ log[i].step = live.step

(* The result of a call that is in the page becomes part of its card.       *)
HasItem(from, i) ==
  \/ log[i].type \in {"user", "context", "assistant/message", "tool/call", "command/run"}
  \/ log[i].type = "tool/result" /\ ~\E j \in from..i : log[j].type = "tool/call" /\ log[j].of = log[i].of
  \/ log[i].type = "command/done" /\ ~InPage(from, "command/run", log[i].of)
  \/ log[i].type = "turn/end" /\ log[i].of # "completed"

Item(id, kind, turn, key, blocks, status) ==
  [id |-> id, kind |-> kind, turn |-> turn, key |-> key, blocks |-> blocks, status |-> status, footer |-> "none"]
StepKey(turn, step) == <<turn, step>>
NoKey == <<>>

ItemOf(from, i) ==
  LET e == log[i] IN
  CASE e.type \in {"user", "context"} -> Item(<<"event", i>>, e.type, 0, NoKey, <<"text">>, "done")
    [] e.type = "assistant/message" ->
         Item(<<"event", i>>, "assistant", e.turn, StepKey(e.turn, e.step), e.blocks, "done")
    [] e.type = "tool/call" ->
         Item(<<"tool", e.of>>, "tool", e.turn, NoKey, <<>>,
              IF InPage(from, "tool/result", e.of) THEN "done" ELSE "running")
    [] e.type = "tool/result" -> Item(<<"result", e.of>>, "tool", e.turn, NoKey, <<>>, "done")
    [] e.type \in {"command/run", "command/done"} ->
         Item(<<"command", e.of>>, "command", 0, NoKey, <<>>,
              IF InPage(from, "command/done", e.of) THEN "done" ELSE "running")
    [] e.type = "turn/end" -> Item(<<"end", e.turn>>, "notice", e.turn, NoKey, <<>>, e.of)

Partial == Item(<<"partial", live.turn, live.step>>, "assistant", live.turn,
                StepKey(live.turn, live.step), live.blocks, "running")

(* The partial stands after the event its attempt started at.               *)
Messages(from) ==
  LET of(i) == ItemOf(from, i)
      rows(s) == LET order == SelectSeq([i \in DOMAIN log |-> i], LAMBDA i : i \in s)
                 IN [k \in DOMAIN order |-> of(order[k])]
      with == {i \in Page(from) : HasItem(from, i)}
  IN IF PartialShown(from)
     THEN rows({i \in with : i <= live.after}) \o <<Partial>> \o rows({i \in with : i > live.after})
     ELSE rows(with)

(* projectTurnDurations and attachTurnDurations: a turn whose start is      *)
(* loaded has one footer, on its last item.                                 *)
Duration(from, turn) ==
  IF ~\E i \in Page(from) : log[i].type = "turn/start" /\ log[i].turn = turn THEN "none"
  ELSE IF \E i \in Page(from) : log[i].type = "turn/end" /\ log[i].turn = turn THEN "ended"
  ELSE "running"
WithDurations(from, items) ==
  [k \in DOMAIN items |->
     IF items[k].turn = 0 \/ \E l \in (k + 1)..Len(items) : items[l].turn = items[k].turn
     THEN items[k] ELSE [items[k] EXCEPT !.footer = Duration(from, items[k].turn)]]

Projected(from) == WithDurations(from, Messages(from))
Loaded == IF first = NotOpen THEN <<>> ELSE Projected(first)

-----------------------------------------------------------------------------
(* projectTurnProcesses.                                                    *)

Boundary(item) == item.kind \in {"user", "command"}
NewSegment(item) == [turn |-> item.turn, items |-> <<item>>]

Segments(items) ==
  LET Add(acc, item) ==
        LET n == Len(acc.segs)
            seg == acc.segs[n]
            joins == acc.open /\ (item.turn = 0 \/ seg.turn = 0 \/ item.turn = seg.turn)
        IN IF Boundary(item) THEN [acc EXCEPT !.open = FALSE]
           ELSE [open |-> TRUE,
                 segs |-> IF ~joins THEN Append(acc.segs, NewSegment(item))
                          ELSE [acc.segs EXCEPT ![n] =
                                  [turn |-> IF seg.turn = 0 THEN item.turn ELSE seg.turn,
                                   items |-> Append(seg.items, item)]]]
  IN FoldLeft(Add, [open |-> FALSE, segs |-> <<>>], items).segs

Work(seg) == SelectSeq(seg.items, LAMBDA item : item.kind \in {"tool", "assistant"})
Answer(seg) ==
  LET work == Work(seg) IN
  IF work # <<>> /\ Last(work).kind = "assistant" /\ "text" \in ToSet(Last(work).blocks)
  THEN Last(work).id ELSE <<>>

(* The turn under way is not folded while the session runs.  The running    *)
(* flag travels on a stream of its own, so a render may find either value.  *)
StillLive(items, segs, k) ==
  LET turns == {l \in DOMAIN segs : segs[l].turn # 0}
      at == CHOOSE p \in DOMAIN items : items[p].id = Last(segs[k].items).id
  IN IF segs[k].turn = 0
     THEN k = Len(segs) /\ ~\E p \in (at + 1)..Len(items) : items[p].kind = "user"
     ELSE segs[k].turn = segs[Max(turns)].turn

HasProcess(seg) ==
  LET answer == Answer(seg) IN
  \E item \in ToSet(Work(seg)) : item.id # answer \/ "reasoning" \in ToSet(item.blocks)

Folds(items, segs, k, running) ==
  /\ HasProcess(segs[k])
  /\ ~(/\ running /\ StillLive(items, segs, k)
       /\ \A item \in ToSet(segs[k].items) : item.footer # "ended")

ProcessId(id) == <<"process", id>>
Settled(item) == [item EXCEPT !.footer = "none", !.status = IF @ = "running" THEN "done" ELSE @]

(* Mutant: the answer that has reasoning is collapsed as a whole.           *)
OwnedWithAnswer(seg) == {i.id : i \in {j \in ToSet(seg.items) : j.kind # "notice"}}

(* A folded answer leaves its reasoning to the process and loses its key.   *)
Split(item, seg) ==
  LET said == SelectSeq(item.blocks, LAMBDA b : b # "reasoning") IN
  IF item.kind = "notice" THEN <<item>>
  ELSE IF item.id # Answer(seg) THEN <<Settled(item)>>
  ELSE (IF "reasoning" \in ToSet(item.blocks)
        THEN <<[Settled(item) EXCEPT !.id = ProcessId(item.id), !.blocks = <<"reasoning">>]>> ELSE <<>>)
       \o <<[Settled(item) EXCEPT !.blocks = said, !.key = NoKey]>>

Owned(seg) ==
  LET answer == Answer(seg)
      items == ToSet(seg.items)
  IN {i.id : i \in {j \in items : j.kind # "notice" /\ j.id # answer}}
       \cup {ProcessId(i.id) : i \in {j \in items : j.id = answer /\ "reasoning" \in ToSet(j.blocks)}}

(* A turn that folds in two pieces names the later one by its first item.   *)
GroupKey(segs, k) ==
  IF segs[k].turn # 0 /\ \A l \in 1..(k - 1) : segs[l].turn # segs[k].turn
  THEN <<"turn", segs[k].turn>> ELSE <<"from", segs[k].items[1].id>>

Presented(running) ==
  LET items == Loaded
      segs == Segments(items)
      folded == {k \in DOMAIN segs : Folds(items, segs, k, running)}
      parts(item) == LET in == {k \in folded : item \in ToSet(segs[k].items)}
                     IN IF in = {} THEN <<item>> ELSE Split(item, segs[CHOOSE k \in in : TRUE])
  IN [items |-> FlattenSeq([p \in DOMAIN items |-> parts(items[p])]),
      groups |-> {[key |-> GroupKey(segs, k), ids |-> Owned(segs[k])] : k \in {l \in folded : Owned(segs[l]) # {}}}]

-----------------------------------------------------------------------------
(* MessageReconciler.reconcile: nodes are numbered, a process is its key.   *)

Node(n) == <<"node", n>>
Nodes == DOMAIN tags
GroupOf(view, id) == {g \in view.groups : id \in g.ids}

(* Mutant: nodes are matched by their message id only.                      *)
ReusedById(ids, item) == {n \in Nodes : tags[n].id = item.id}

(* The node of a message that is already shown, or the one that streamed    *)
(* its step under an id that is gone.                                       *)
Reused(ids, item) ==
  LET same == {n \in Nodes : tags[n].id = item.id}
      handed == {n \in Nodes : tags[n].id \notin ids /\ item.key # NoKey /\ tags[n].key = item.key}
  IN IF same # {} THEN same ELSE handed

(* One node for each item, new ones where nothing can be reused.            *)
Assigned(view) ==
  LET ids == {i.id : i \in ToSet(view.items)}
      Add(acc, item) ==
        LET old == Reused(ids, item) \ ToSet(acc)
            used == Nodes \cup ToSet(acc)
            new == CHOOSE n \in 1..(Cardinality(used) + 1) : Node(n) \notin used
        IN Append(acc, IF old # {} THEN CHOOSE n \in old : TRUE ELSE Node(new))
  IN FoldLeft(Add, <<>>, view.items)

Without(children, element) == [p \in DOMAIN children |-> SelectSeq(children[p], LAMBDA e : e # element)]

(* placeInOrder: the cursor stands before the first child not yet placed.   *)
Place(children, parent, order) ==
  LET Step(acc, element) ==
        IF acc.cursor # <<>> /\ Head(acc.cursor) = element
        THEN [children |-> acc.children, done |-> Append(acc.done, element), cursor |-> Tail(acc.cursor)]
        ELSE [children |-> Without(acc.children, element), done |-> Append(acc.done, element),
              cursor |-> SelectSeq(acc.cursor, LAMBDA e : e # element)]
      placed == FoldLeft(Step, [children |-> children, done |-> <<>>, cursor |-> children[parent]], order)
  IN [placed.children EXCEPT ![parent] = placed.done \o placed.cursor]

Reconciled(view) ==
  LET nodes == Assigned(view)
      at(p) == GroupOf(view, view.items[p].id)
      key(p) == (CHOOSE g \in at(p) : TRUE).key
      opens(p) == at(p) # {} /\ \A q \in 1..(p - 1) : at(q) # at(p)
      parents == {Root} \cup {g.key : g \in view.groups}
      rootOrder == FlattenSeq([p \in DOMAIN nodes |-> IF at(p) = {} THEN <<nodes[p]>>
                                                     ELSE IF opens(p) THEN <<key(p)>> ELSE <<>>])
      groupOrder(k) == FlattenSeq([p \in DOMAIN nodes |-> IF at(p) # {} /\ key(p) = k THEN <<nodes[p]>> ELSE <<>>])
      start == [p \in DOMAIN dom \cup parents |-> IF p \in DOMAIN dom THEN dom[p] ELSE <<>>]
      filled == FoldLeft(LAMBDA c, k : Place(c, k, groupOrder(k)),
                         Place(start, Root, rootOrder), SetToSeq(parents \ {Root}))
      kept(e) == e \in ToSet(nodes) \/ e \in parents
  IN [dom |-> [p \in parents |-> SelectSeq(filled[p], kept)],
      tags |-> [n \in ToSet(nodes) |->
                  LET item == view.items[CHOOSE p \in DOMAIN nodes : nodes[p] = n]
                  IN [id |-> item.id, key |-> item.key]]]

Renders(running) ==
  /\ first # NotOpen
  /\ LET new == Reconciled(Presented(running)) IN dom' = new.dom /\ tags' = new.tags
  /\ age' = IF age = 0 THEN 1 ELSE MaxLag + 2
  /\ UNCHANGED <<logVars, first>>

(* The session is opened with a page from the end of its log, and takes the *)
(* attempt the host has open; older pages follow as the reader asks.        *)
PageBefore(end) == Max({1, end - PageSize})
Opens ==
  /\ first = NotOpen /\ log # <<>> /\ first' = PageBefore(Len(log) + 1)
  /\ live' = IF agent.phase = "model" /\ agent.said # <<>> THEN live ELSE NoAttempt
  /\ UNCHANGED <<log, agent, domVars>>

LoadsOlder ==
  /\ first > 1 /\ first' = PageBefore(first)
  /\ UNCHANGED <<logVars, domVars>>

Step ==
  \/ StartsTurn \/ Abandons \/ NextStep \/ Opens \/ LoadsOlder
  \/ \E type \in Other : RecordsOther(type)
  \/ \E block \in {"reasoning", "text"} : Streams(block)
  \/ \E flag \in BOOLEAN : Says(flag)
  \/ \E c \in Calls : CallsTool(c) \/ ToolReturns(c)
  \/ \E how \in {"completed", "aborted"} : EndsTurn(how)

Next ==
  /\ age <= MaxLag + 1
  /\ \/ Step /\ age' = IF age = 0 THEN 0 ELSE age + 1
     \/ \E running \in BOOLEAN : Renders(running)

Spec == Init /\ [][Next]_vars

-----------------------------------------------------------------------------
(* Every step of the assistant is shown once, whichever of its partial and  *)
(* its final message the page and the live attempt bring, and no two items  *)
(* have one id (projectConversation).                                       *)
StepsShownOnce ==
  LET items == Loaded IN
  \A p, q \in DOMAIN items :
    p # q => items[p].id # items[q].id /\ (items[p].key = NoKey \/ items[p].key # items[q].key)

(* A page that begins later shows the same items as one that begins         *)
(* earlier: what is scrolled into view changes nothing below it, but that a *)
(* result joins the call it belongs to and a turn gets its duration.        *)
PagesAgree ==
  LET plain(item) == [item EXCEPT !.footer = "none"]
      whole == {plain(i) : i \in ToSet(Projected(1))}
  IN \A i \in ToSet(Loaded) :
       \/ plain(i) \in whole
       \/ /\ i.id[1] = "result"
          /\ \E w \in whole : w.id = <<"tool", i.id[2]>> /\ w.status = "done"

(* A finished turn never hides its answer, its stop notice, or a prompt in  *)
(* the collapsed process, and no process is shown twice.                    *)
AnswersStayVisible ==
  \A running \in BOOLEAN :
  LET view == Presented(running)
      hidden == UNION {g.ids : g \in view.groups}
      items == Loaded
  IN /\ \A g, h \in view.groups : g # h => g.key # h.key /\ g.ids \cap h.ids = {}
     /\ \A p \in DOMAIN items :
          \/ items[p].kind \in {"user", "command", "notice"}
          \/ /\ "text" \in ToSet(items[p].blocks) /\ items[p].turn # 0
             /\ \A q \in (p + 1)..Len(items) :
                  items[q].turn # items[p].turn \/ items[q].kind = "notice"
          => items[p].id \notin hidden /\ \E i \in ToSet(view.items) : i.id = items[p].id

(* The items do not depend on what has been rendered.                       *)
TranscriptIsTheLog == age = 0 => StepsShownOnce /\ PagesAgree /\ AnswersStayVisible

(* After a render every presented item stands in the document once, each    *)
(* process and the root in the order of the items, and a node that was on   *)
(* screen still stands for its message, or for the step whose partial it    *)
(* showed: what the reader has opened survives (MessageReconciler).         *)
Shown(view, children, names) ==
  LET at(n) == CHOOSE p \in DOMAIN view.items : view.items[p].id = names[n].id
      place(e) == IF e \in DOMAIN names THEN at(e)
                  ELSE Min({at(children[e][q]) : q \in DOMAIN children[e]})
      all == FlattenSeq(SetToSeq({children[p] : p \in DOMAIN children}))
      nodes == SelectSeq(all, LAMBDA e : e \in DOMAIN names)
  IN /\ DOMAIN children = {Root} \cup {g.key : g \in view.groups}
     /\ Len(nodes) = Len(view.items)
     /\ {names[n].id : n \in ToSet(nodes)} = {i.id : i \in ToSet(view.items)}
     /\ \A g \in view.groups : {names[n].id : n \in ToSet(children[g.key])} = g.ids
     /\ \A p \in DOMAIN children : \A q \in 2..Len(children[p]) :
          place(children[p][q - 1]) < place(children[p][q])
RenderKeepsNodes ==
  [][age' # age /\ domVars' # domVars =>
       \E running \in BOOLEAN : LET view == Presented(running) IN
       /\ Shown(view, dom', tags')
       /\ \A n \in Nodes, item \in ToSet(view.items) :
            \/ tags[n].id = item.id
            \/ /\ tags[n].key = item.key /\ item.key # NoKey
               /\ \A o \in Nodes : tags[o].id # item.id
               /\ \A i \in ToSet(view.items) : tags[n].id # i.id
            => n \in DOMAIN tags' /\ tags'[n].id = item.id]_vars
=============================================================================
