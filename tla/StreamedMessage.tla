---------------------------- MODULE StreamedMessage ----------------------------
(***************************************************************************)
(* The message of a step while it is written and once it is final: its     *)
(* blocks as the chunks of an attempt build them (PartialBlocks), how they  *)
(* are drawn and advanced frame by frame (StreamingMessageComponent), the   *)
(* copy button of the conclusion, and what the reader has open of it.  A    *)
(* text is the attempt it is of and its length; labels, token counts and    *)
(* the scrolling of a block are left out.  How the session's messages keep  *)
(* their nodes is Transcript, the cards of its tools are ToolCard.          *)
(***************************************************************************)
EXTENDS Integers, Sequences, FiniteSets, SequencesExt

CONSTANTS
  MinimumStep,   \* characters a frame advances at least
  TargetFrames,  \* frames in which a text catches up
  Threshold,     \* characters after which a frame draws whatever the time
  MaxLength,     \* bound: characters of a block
  MaxRestarts,   \* bound: attempts the step abandons
  MaxFlips,      \* bound: changes of the running flag
  MaxToggles     \* bound: disclosures the reader toggles

MessageAssumption ==
  /\ {MinimumStep, TargetFrames, Threshold, MaxLength} \subseteq Nat \ {0}
  /\ {MaxRestarts, MaxFlips, MaxToggles} \subseteq Nat

VARIABLES
  source, blocks,  \* whether the message is a partial or final, its blocks
  restarts,        \* attempts abandoned
  running, flips,  \* the session's flag, on a stream of its own
  ended,           \* the turn has an end
  shown,           \* the message's nodes by id
  fresh,           \* nothing has changed since the last render
  wish,            \* history: whether the reader has the reasoning open
  moved,           \* history: folding took the reasoning from a message that was shown
  toggles

hostVars == <<source, blocks, restarts, running, flips, ended>>
readerVars == <<wish, moved, toggles>>
vars == <<hostVars, shown, fresh, readerVars>>

NoNodes == [id \in {} |-> 0]

Init ==
  /\ source = "none" /\ blocks = <<>> /\ restarts = 0 /\ running \in BOOLEAN /\ flips = 0 /\ ended = FALSE
  /\ shown = NoNodes /\ fresh = TRUE /\ wish = FALSE /\ moved = FALSE /\ toggles = 0

-----------------------------------------------------------------------------
(* The host: PartialBlocks.push, and what changes beside it.                *)

Empty == [of |-> 0, length |-> 0]
Text(attempt, n) == IF n = 0 THEN Empty ELSE [of |-> attempt, length |-> n]
Block(kind, text, streaming) == [kind |-> kind, text |-> text, streaming |-> streaming]
Said(n) == Text(restarts + 1, n)
Finished(list) == [i \in DOMAIN list |-> [list[i] EXCEPT !.streaming = FALSE]]

Pushes(to) ==
  /\ blocks' = to /\ fresh' = FALSE
  /\ UNCHANGED <<restarts, running, flips, ended, shown, readerVars>>

BlockStarts(kind) ==
  /\ source # "final" /\ ~ended
  /\ \A b \in ToSet(blocks) : b.kind # kind /\ ~b.streaming
  /\ kind = "reasoning" => blocks = <<>>
  /\ source' = "partial" /\ Pushes(Append(blocks, Block(kind, Empty, TRUE)))

Streams(n) ==
  /\ blocks # <<>> /\ Last(blocks).streaming /\ n > Last(blocks).text.length
  /\ Pushes([blocks EXCEPT ![Len(blocks)].text = Said(n)]) /\ UNCHANGED source

(* The block comes once more as a whole, with what no delta has said.       *)
BlockEnds(n) ==
  /\ blocks # <<>> /\ Last(blocks).streaming /\ n \in Last(blocks).text.length..MaxLength
  /\ Pushes([blocks EXCEPT ![Len(blocks)] = Block(@.kind, Said(n), FALSE)]) /\ UNCHANGED source

(* The durable message: all its blocks, without streaming.                  *)
Settles ==
  /\ source = "partial" /\ source' = "final" /\ Pushes(Finished(blocks))

Restarts ==
  /\ source = "partial" /\ restarts < MaxRestarts
  /\ restarts' = restarts + 1 /\ source' = "none" /\ blocks' = <<>> /\ fresh' = FALSE
  /\ UNCHANGED <<running, flips, ended, shown, readerVars>>

RunningFlips ==
  /\ flips < MaxFlips /\ running' = ~running /\ flips' = flips + 1 /\ fresh' = FALSE
  /\ UNCHANGED <<source, blocks, restarts, ended, shown, readerVars>>

TurnEnds ==
  /\ ~ended /\ source = "final" /\ ended' = TRUE /\ fresh' = FALSE
  /\ UNCHANGED <<source, blocks, restarts, running, flips, shown, readerVars>>

-----------------------------------------------------------------------------
(* projectTurnProcesses for the turn of this message.                       *)

OfKind(list, kind) == SelectSeq(list, LAMBDA b : b.kind = kind)
Whole(list) == [i \in DOMAIN OfKind(list, "text") |-> OfKind(list, "text")[i].text]
HasText(list) == \E t \in ToSet(Whole(list)) : t # Empty

Folds ==
  /\ ~running \/ ended
  /\ OfKind(blocks, "reasoning") # <<>> \/ ~HasText(blocks)

Item(id, keyed, live, list) == [id |-> id, keyed |-> keyed, live |-> live, blocks |-> list]

(* A folded conclusion leaves its reasoning, and the key of its step, to    *)
(* the process.                                                             *)
Items ==
  LET id == <<"message", source>>
      reasoning == OfKind(Finished(blocks), "reasoning") IN
  IF source = "none" THEN <<>>
  ELSE IF ~Folds THEN <<Item(id, TRUE, source = "partial", blocks)>>
  ELSE IF ~HasText(blocks) THEN <<Item(id, TRUE, FALSE, Finished(blocks))>>
  ELSE (IF reasoning = <<>> THEN <<>> ELSE <<Item(<<"process", source>>, TRUE, FALSE, reasoning)>>)
         \o <<Item(id, FALSE, FALSE, OfKind(Finished(blocks), "text"))>>

-----------------------------------------------------------------------------
(* StreamingMessageComponent: render and patch.                             *)

NoStream == [on |-> FALSE]
NewStream == [on |-> TRUE, rendered |-> Empty, target |-> Empty, frame |-> FALSE, drawn |-> Empty]

(* stream: a block begins empty, its frames bring the text.                 *)
Stream(element, text) ==
  LET begun == IF element.stream = NoStream THEN NewStream ELSE element.stream IN
  [element EXCEPT
     !.text = IF element.stream = NoStream THEN Empty ELSE @,
     !.stream = [begun EXCEPT !.target = text, !.frame = @ \/ begun.rendered # text]]

(* renderContent: a block that is finished has its text at once.            *)
WithContent(element, block, live) ==
  IF live THEN Stream(element, block.text)
  ELSE [element EXCEPT !.text = block.text, !.stream = NoStream]

Live(item, i) == item.live /\ item.blocks[i].streaming
BlockSignature(item, i) == <<item.blocks[i], Live(item, i), item.keyed>>

RenderBlock(item, i) ==
  WithContent([kind |-> item.blocks[i].kind, signature |-> BlockSignature(item, i), open |-> FALSE,
               text |-> Empty, stream |-> NoStream],
              item.blocks[i], Live(item, i))

Render(item) == [i \in DOMAIN item.blocks |-> RenderBlock(item, i)]

PatchBlock(element, item, i) ==
  [WithContent(element, item.blocks[i], Live(item, i)) EXCEPT !.signature = BlockSignature(item, i)]

(* Mutant of Patch: a block that changed is drawn anew.                     *)
PatchByRender(body, item) ==
  [i \in DOMAIN item.blocks |->
     IF i \in DOMAIN body /\ body[i].signature = BlockSignature(item, i) THEN body[i]
     ELSE RenderBlock(item, i)]

Patch(body, item) ==
  [i \in DOMAIN item.blocks |->
     IF i \notin DOMAIN body \/ body[i].kind # item.blocks[i].kind THEN RenderBlock(item, i)
     ELSE IF body[i].signature = BlockSignature(item, i) THEN body[i]
     ELSE PatchBlock(body[i], item, i)]

(* nextStreamText and shouldRebuildStreamFrame; a frame may come within the *)
(* interval of the last drawing or after it.                                *)
Larger(a, b) == IF a > b THEN a ELSE b
Smaller(a, b) == IF a < b THEN a ELSE b
Continues(text, target) == text = Empty \/ (text.of = target.of /\ text.length <= target.length)

NextStreamText(text, target) ==
  IF ~Continues(text, target) THEN target
  ELSE LET left == target.length - text.length
           step == Larger(MinimumStep, (left + TargetFrames - 1) \div TargetFrames) IN
       Text(target.of, Smaller(target.length, text.length + step))

(* Mutant of ShouldRebuild: the last frame is throttled like any other.     *)
RebuildThrottled(rendered, stream, late) ==
  \/ rendered # Empty /\ stream.drawn = Empty
  \/ rendered.length - stream.drawn.length >= Threshold
  \/ rendered.length > stream.drawn.length /\ late

ShouldRebuild(rendered, stream, late) ==
  \/ rendered # Empty /\ stream.drawn = Empty
  \/ rendered = stream.target
  \/ rendered.length - stream.drawn.length >= Threshold
  \/ rendered.length > stream.drawn.length /\ late

Frame(id, i, late) ==
  LET element == shown[id].body[i]
      stream == element.stream
      rendered == NextStreamText(stream.rendered, stream.target)
      draws == ShouldRebuild(rendered, stream, late) IN
  /\ stream # NoStream /\ stream.frame
  /\ shown' = [shown EXCEPT ![id].body[i] =
       [element EXCEPT
          !.text = IF draws THEN rendered ELSE @,
          !.stream = [stream EXCEPT !.rendered = rendered,
                                    !.drawn = IF draws THEN rendered ELSE @,
                                    !.frame = rendered # stream.target]]]
  /\ UNCHANGED <<hostVars, fresh, readerVars>>

-----------------------------------------------------------------------------
(* renderMessages: the nodes of the message and its copy button.            *)

Ids(items) == {item.id : item \in ToSet(items)}

(* MessageReconciler: by id, or by the key of a message that is gone.       *)
OldNodes(items, item) ==
  IF item.id \in DOMAIN shown THEN {item.id}
  ELSE {id \in DOMAIN shown : id \notin Ids(items) /\ shown[id].keyed /\ item.keyed}

NoFooter == [of |-> <<>>, on |-> FALSE]
Footer(item) == [of |-> Whole(item.blocks), on |-> TRUE]

(* The button copies the message it was made for.                           *)
FooterOf(items, item, old) ==
  LET said == SelectSeq(items, LAMBDA x : HasText(x.blocks)) IN
  IF running \/ said = <<>> \/ Last(said) # item THEN NoFooter
  ELSE IF old # NoFooter THEN old ELSE Footer(item)

RenderMessage(item) == [keyed |-> item.keyed, body |-> Render(item), footer |-> NoFooter]
PatchStreamingMessage(node, item) == [node EXCEPT !.body = Patch(@, item)]

Rendered(items) ==
  [id \in Ids(items) |->
     LET item == CHOOSE x \in ToSet(items) : x.id = id
         old == OldNodes(items, item)
         node == IF old = {} THEN RenderMessage(item)
                 ELSE PatchStreamingMessage(shown[CHOOSE o \in old : TRUE], item) IN
     [node EXCEPT !.keyed = item.keyed, !.footer = FooterOf(items, item, @)]]

HasReasoning(nodes) == \E id \in DOMAIN nodes : \E e \in ToSet(nodes[id].body) : e.kind = "reasoning"
Process == <<"process", source>>

Renders ==
  /\ ~fresh /\ fresh' = TRUE
  /\ shown' = Rendered(Items)
  /\ LET kept == HasReasoning(shown') IN
     /\ wish' = (wish /\ kept)
     /\ moved' = (kept /\ (moved \/ /\ <<"message", source>> \in DOMAIN shown
                                    /\ (Process \in DOMAIN shown') # (Process \in DOMAIN shown)))
  /\ UNCHANGED <<hostVars, toggles>>

(* The reader opens and closes what there is.                               *)
TogglesReasoning(id, i) ==
  /\ shown[id].body[i].kind = "reasoning" /\ toggles < MaxToggles /\ ~moved
  /\ shown' = [shown EXCEPT ![id].body[i].open = ~@]
  /\ wish' = ~shown[id].body[i].open /\ toggles' = toggles + 1
  /\ UNCHANGED <<hostVars, fresh, moved>>

Next ==
  \/ \E kind \in {"reasoning", "text"} : BlockStarts(kind)
  \/ \E n \in 0..MaxLength : Streams(n) \/ BlockEnds(n)
  \/ Settles \/ Restarts \/ RunningFlips \/ TurnEnds \/ Renders
  \/ \E id \in DOMAIN shown : \E i \in DOMAIN shown[id].body :
       \/ TogglesReasoning(id, i)
       \/ \E late \in BOOLEAN : Frame(id, i, late)

Spec == Init /\ [][Next]_vars

-----------------------------------------------------------------------------
(* patch and its signatures: after a render each message has its blocks,    *)
(* and each block is on its way to the text of the message or has it.       *)
BlocksAreMessage ==
  fresh =>
    /\ DOMAIN shown = Ids(Items)
    /\ \A item \in ToSet(Items) : LET body == shown[item.id].body IN
         /\ Len(body) = Len(item.blocks)
         /\ \A i \in DOMAIN body :
              /\ body[i].kind = item.blocks[i].kind
              /\ IF Live(item, i) THEN body[i].stream.target = item.blocks[i].text
                 ELSE body[i].stream = NoStream /\ body[i].text = item.blocks[i].text

(* schedule and shouldRebuildStreamFrame: a text that advances no more is   *)
(* drawn to its end, whatever the frames left out; and what is drawn of it  *)
(* meanwhile was said in some attempt.                                      *)
StreamLands ==
  \A id \in DOMAIN shown : \A e \in ToSet(shown[id].body) :
    e.stream # NoStream =>
      /\ ~e.stream.frame => e.text = e.stream.target
      /\ e.text = e.stream.drawn

(* patchBlock and the handover of a step's node: reasoning the reader has   *)
(* opened stays open while the message is written, becomes final and folds, *)
(* unless folding takes it from a message that is already shown.            *)
ReaderIsHeard ==
  moved \/ \A id \in DOMAIN shown : \A e \in ToSet(shown[id].body) :
             e.kind = "reasoning" => e.open = wish

(* renderMessages: a copy button stands below the conclusion of a session   *)
(* that is idle, and nowhere else.                                          *)
ButtonInPlace ==
  fresh =>
    /\ \A id \in DOMAIN shown : shown[id].footer.on => ~running /\ id = <<"message", source>>
    /\ ~running /\ HasText(blocks) => \E id \in DOMAIN shown : shown[id].footer.on

MessageShown == BlocksAreMessage /\ StreamLands /\ ReaderIsHeard /\ ButtonInPlace

(* Not kept: the button copies the whole conclusion.  A message that is     *)
(* patched keeps the button of the text it was first idle with.             *)
CopyIsWhole ==
  fresh => \A id \in DOMAIN shown : shown[id].footer.on => shown[id].footer.of = Whole(blocks)

(* Nor this: folding leaves the reasoning as the reader has it.             *)
FoldingKeepsOpen == ~(moved /\ wish)
=============================================================================
