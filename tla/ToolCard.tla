------------------------------- MODULE ToolCard -------------------------------
(***************************************************************************)
(* The card of a tool call in the conversation, a plain one or the todo     *)
(* list: how it is drawn anew when its item changes, what of it the reader  *)
(* has open, and the todos of the session it shows.  From webview/chat/     *)
(* {messages,utils}.ts.                                                     *)
(***************************************************************************)
EXTENDS Integers

CONSTANTS
  TodoLists, CalledTodos, \* todo lists, and the one in the arguments of the call
  MaxChanges,             \* bound: changes of the session's list, and of the folding
  MaxToggles              \* bound: times the reader opens or closes the card

NoTodos == "no todos"

CardAssumption == {MaxChanges, MaxToggles} \subseteq Nat /\ {NoTodos, CalledTodos} \subseteq TodoLists

VARIABLES
  tool, call,    \* the kind of the tool, how far the call is
  folds,         \* the process of the turn is folded
  todos,         \* the session's list
  changes,
  card,          \* what the document shows of the call
  fresh,         \* nothing has changed since the last render
  wish,          \* history: whether the reader has the card open
  toggles

hostVars == <<tool, call, folds, todos, changes>>
readerVars == <<wish, toggles>>
vars == <<hostVars, card, fresh, readerVars>>

NoCard == [item |-> "none"]

Init ==
  /\ tool \in {"todo", "plain"} /\ call = "none" /\ folds = FALSE /\ todos = NoTodos /\ changes = 0
  /\ card = NoCard /\ fresh = TRUE /\ wish = FALSE /\ toggles = 0

(* The list of the session changes with an event of its own, later than the *)
(* call; how a turn folds is Transcript's.                                  *)
CallChanges ==
  /\ \/ call = "none" /\ call' = "running"
     \/ call = "running" /\ call' \in {"done", "failed"}
  /\ fresh' = FALSE /\ UNCHANGED <<tool, folds, todos, changes, card, readerVars>>

WritesTodos(list) ==
  /\ tool = "todo" /\ changes < MaxChanges /\ list # todos
  /\ todos' = list /\ changes' = changes + 1 /\ fresh' = FALSE
  /\ UNCHANGED <<tool, call, folds, card, readerVars>>

FoldingChanges ==
  /\ changes < MaxChanges /\ folds' = ~folds /\ changes' = changes + 1 /\ fresh' = FALSE
  /\ UNCHANGED <<tool, call, todos, card, readerVars>>

-----------------------------------------------------------------------------
(* A folded call that has no result is not shown as running.                *)
CardItem == IF call = "running" /\ folds THEN "info" ELSE call

LiveTodos == IF todos # NoTodos THEN todos ELSE CalledTodos
RenderTool ==
  [item |-> CardItem, open |-> tool = "todo", list |-> IF tool = "todo" THEN LiveTodos ELSE NoTodos]

(* Mutant of RestoreDisclosures: only a card that says so is open.          *)
RestoreDefaults(made, old) == [made EXCEPT !.open = tool = "todo"]

(* A todo card opens whatever it was, another is as the reader left it.     *)
RestoreDisclosures(made, old) == [made EXCEPT !.open = tool = "todo" \/ old.open]

RefreshTodoCards(made) == IF tool = "todo" THEN [made EXCEPT !.list = todos] ELSE made

Renders ==
  /\ ~fresh /\ fresh' = TRUE
  /\ card' = IF call = "none" THEN NoCard
             ELSE RefreshTodoCards(
                    IF card = NoCard THEN RenderTool
                    ELSE IF card.item = CardItem THEN card
                    ELSE RestoreDisclosures(RenderTool, card))
  /\ UNCHANGED <<hostVars, readerVars>>

Toggles ==
  /\ card # NoCard /\ toggles < MaxToggles
  /\ card' = [card EXCEPT !.open = ~@] /\ wish' = ~card.open /\ toggles' = toggles + 1
  /\ UNCHANGED <<hostVars, fresh>>

Next ==
  \/ CallChanges \/ FoldingChanges \/ Renders \/ Toggles
  \/ \E list \in TodoLists : WritesTodos(list)

Spec == Init /\ [][Next]_vars

-----------------------------------------------------------------------------
(* replace and restoreDisclosures: a card is as the reader left it however  *)
(* often its item is drawn anew; refreshTodoCards: a todo card follows the  *)
(* session's list also where its own item does not change.                  *)
CardIsTrue ==
  /\ card # NoCard /\ tool = "plain" => card.open = wish
  /\ fresh /\ card # NoCard /\ tool = "todo" => card.list = todos

(* Not kept: a todo card has the list of its call while the session has     *)
(* none.  The refresh takes it away in the same render.                     *)
OwnTodosShown == fresh /\ card # NoCard /\ tool = "todo" /\ todos = NoTodos => card.list = CalledTodos
=============================================================================
