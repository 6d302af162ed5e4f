------------------------- MODULE ConversationScroll -------------------------
(***************************************************************************)
(* ConversationScrollController: who moves the transcript, the stream that  *)
(* is followed or the reader.  The content is a set of lines in a fixed     *)
(* order, some of them under the header of a disclosure; a height is a      *)
(* number of lines.  The browser keeps the top within the content and tells *)
(* of moves and of layouts later, by scroll events and the ResizeObserver.  *)
(***************************************************************************)
EXTENDS Integers, FiniteSets

CONSTANTS
  MaxLine,    \* lines that may come
  FirstLines, \* lines at the start
  Header,     \* line of a disclosure
  Body,       \* lines under it
  Views,      \* heights of the viewport
  FirstView,  \* the one at the start
  MaxLayouts, MaxGestures \* bounds: changes of the layout, steps of the reader

Lines == 1..MaxLine

ScrollAssumption ==
  /\ MaxLine \in Nat /\ FirstLines \subseteq Lines /\ Header \in FirstLines
  /\ Body \subseteq {l \in Lines : l > Header} /\ Views \subseteq Nat \ {0} /\ FirstView \in Views
  /\ MaxLayouts \in Nat /\ MaxGestures \in Nat

VARIABLES
  layout,    \* lines there, whether the disclosure is open, height of the viewport
  scroll,    \* scrollTop, the fields of the controller and whether a scroll event is due;
             \* held: a layout under a press was not corrected since (history)
  resizeDue, \* a callback of the ResizeObserver is due
  left,      \* the reader did something since the end was last followed (history)
  gestured,  \* the scroll event due is also of a move of the reader (history)
  swallowed, \* such an event was taken for the controller's own (history)
  layouts, gestures

past == <<left, gestured, swallowed>>
vars == <<layout, scroll, resizeDue, past, layouts, gestures>>

NoLine == [line |-> 0, at |-> 0]
NoTop == -1

-----------------------------------------------------------------------------
(* Geometry.                                                                *)

Visible(l) == IF l.open THEN l.lines ELSE l.lines \ Body
Above(l, line) == Cardinality({m \in Visible(l) : m < line})
Height(l) == Cardinality(Visible(l))
Bottom(l) == IF Height(l) > l.view THEN Height(l) - l.view ELSE 0
Within(l, t) == IF t < 0 THEN 0 ELSE IF t > Bottom(l) THEN Bottom(l) ELSE t
Measure(l) == <<l.view, Height(l)>>

InView(l, t, line) == line \in Visible(l) /\ Above(l, line) \in t..(t + l.view - 1)

(* captureReadingAnchor: the header that was clicked, if it can be seen, or *)
(* the first line that can.                                                 *)
Captured(l, t, preferred) ==
  IF InView(l, t, preferred) THEN [line |-> preferred, at |-> Above(l, preferred) - t]
  ELSE IF \E m \in Visible(l) : Above(l, m) = t
       THEN [line |-> CHOOSE m \in Visible(l) : Above(l, m) = t, at |-> 0]
       ELSE NoLine

(* readingAnchorDelta: a line folded away is replaced by its header, one    *)
(* that was removed by nothing.                                             *)
Delta(l, c) ==
  CASE c.anchor.line \notin l.lines -> 0
    [] c.anchor.line \in Visible(l) -> Above(l, c.anchor.line) - c.top - c.anchor.at
    [] OTHER -> Above(l, Header) - c.top - (IF c.anchor.at < 0 THEN 0 ELSE c.anchor.at)

-----------------------------------------------------------------------------
(* The controller: c is its state, l the layout it finds.                   *)

WriteTop(l, c, t) ==
  IF Within(l, t) = c.top THEN c
  ELSE [c EXCEPT !.top = Within(l, t), !.expected = Within(l, t), !.due = TRUE]

AfterLayout(l, c) ==
  LET moved == CASE c.interacting -> c
                 [] ~c.interacting /\ c.following -> WriteTop(l, c, Height(l))
                 [] ~c.interacting /\ ~c.following /\ c.anchor # NoLine ->
                      WriteTop(l, c, c.top + Delta(l, c))
                 [] OTHER -> c
  IN [moved EXCEPT !.geometry = Measure(l), !.held = c.interacting]

Remember(l, c, preferred) ==
  [c EXCEPT !.anchor = IF c.following THEN NoLine ELSE Captured(l, c.top, preferred)]

BeforeLayout(l, c) ==
  LET seen == IF c.geometry # Measure(l) THEN AfterLayout(l, c) ELSE c
  IN IF seen.following \/ seen.anchor # NoLine THEN seen ELSE Remember(l, seen, 0)

ToBottom(l, c) == AfterLayout(l, [c EXCEPT !.following = TRUE, !.anchor = NoLine])

Pause(l, c, preferred) ==
  Remember(l, [c EXCEPT !.expected = NoTop, !.following = FALSE], preferred)

(* Mutant of OnScroll: the geometry is not compared, so that a clamp that   *)
(* was not heard of counts as a move of the reader.                         *)
OnScrollUnfenced(l, c) ==
  IF c.top = c.expected THEN [c EXCEPT !.expected = NoTop, !.due = FALSE]
  ELSE Remember(l, [c EXCEPT !.expected = NoTop, !.following = (c.top = Bottom(l)), !.due = FALSE], 0)

OnScroll(l, c) ==
  CASE c.geometry # Measure(l) /\ ~c.interacting -> AfterLayout(l, [c EXCEPT !.due = FALSE])
    [] (c.geometry = Measure(l) \/ c.interacting) /\ c.top = c.expected ->
         [c EXCEPT !.expected = NoTop, !.due = FALSE]
    [] OTHER ->
         Remember(l, [c EXCEPT !.expected = NoTop, !.following = (c.top = Bottom(l)), !.due = FALSE], 0)

(* The browser: what is laid out anew keeps the top within the content.     *)
Clamp(l, c) ==
  [c EXCEPT !.top = Within(l, c.top), !.due = c.due \/ c.top # Within(l, c.top)]

-----------------------------------------------------------------------------
Init ==
  /\ layout = [lines |-> FirstLines, open |-> FALSE, view |-> FirstView]
  /\ scroll = [top |-> Bottom(layout), following |-> TRUE, interacting |-> FALSE, anchor |-> NoLine,
               geometry |-> Measure(layout), expected |-> NoTop, due |-> FALSE, held |-> FALSE]
  /\ resizeDue = FALSE /\ left = FALSE /\ gestured = FALSE /\ swallowed = FALSE
  /\ layouts = 0 /\ gestures = 0

LayoutStep == layouts < MaxLayouts /\ layouts' = layouts + 1
Around(lines) == {lines \cup {l} : l \in Lines} \cup {lines \ {l} : l \in Lines \ {Header}}

(* Images, fonts, the composer or the window: the controller hears later.   *)
(* Such changes do not undo one another to the pixel before it hears.       *)
Reflows ==
  /\ LayoutStep
  /\ \E lines \in Around(layout.lines), view \in Views :
       layout' = [layout EXCEPT !.lines = lines, !.view = view] /\ layout' # layout
  /\ Measure(layout') # Measure(layout) /\ Measure(layout') # scroll.geometry
  /\ scroll' = [Clamp(layout', scroll) EXCEPT !.held = scroll.held \/ scroll.interacting]
  /\ resizeDue' = TRUE
  /\ UNCHANGED <<past, gestures>>

(* render between beforeLayout and afterLayout; the observer hears of it,   *)
(* too.                                                                     *)
Renders ==
  /\ LayoutStep
  /\ \E lines \in Around(layout.lines) : layout' = [layout EXCEPT !.lines = lines] /\ layout' # layout
  /\ scroll' = AfterLayout(layout', Clamp(layout', BeforeLayout(layout, scroll)))
  /\ resizeDue' = TRUE
  /\ UNCHANGED <<past, gestures>>

(* Another session is rendered and followed.                                *)
SelectsSession ==
  /\ LayoutStep
  /\ layout' = [layout EXCEPT !.lines = FirstLines, !.open = FALSE]
  /\ scroll' = ToBottom(layout', Clamp(layout', BeforeLayout(layout, scroll)))
  /\ resizeDue' = TRUE /\ left' = scroll.interacting
  /\ UNCHANGED <<gestured, swallowed, gestures>>

HearsResize ==
  /\ resizeDue /\ resizeDue' = FALSE /\ scroll' = AfterLayout(layout, scroll)
  /\ UNCHANGED <<layout, past, layouts, gestures>>

HearsScroll ==
  /\ scroll.due /\ scroll' = OnScroll(layout, scroll)
  /\ gestured' = FALSE
  /\ swallowed' = (swallowed \/ (gestured /\ scroll.top = scroll.expected))
  /\ left' = (left /\ (scroll.interacting \/ ~scroll'.following))
  /\ UNCHANGED <<layout, resizeDue, layouts, gestures>>

Gesture(leaves) == gestures < MaxGestures /\ gestures' = gestures + 1 /\ left' = leaves

(* The reader moves the content by the wheel, a finger, a key or the bar.   *)
Moves ==
  /\ Gesture(TRUE)
  /\ \E t \in 0..Bottom(layout) \ {scroll.top} : scroll' = [scroll EXCEPT !.top = t, !.due = TRUE]
  /\ gestured' = TRUE
  /\ UNCHANGED <<layout, resizeDue, swallowed, layouts>>

(* Wheel, finger or key upwards, before the content moves.                  *)
TurnsUp ==
  /\ Gesture(TRUE) /\ scroll' = Pause(layout, scroll, 0)
  /\ UNCHANGED <<layout, resizeDue, gestured, swallowed, layouts>>

(* The wheel down at the end, a prompt that is sent, the button to the end. *)
GoesToEnd ==
  /\ Gesture(scroll.interacting) /\ scroll' = ToBottom(layout, scroll)
  /\ UNCHANGED <<layout, resizeDue, gestured, swallowed, layouts>>

(* navigateTo of the timeline.                                              *)
Navigates ==
  /\ Gesture(TRUE)
  /\ \E t \in 0..Bottom(layout) :
       LET away == WriteTop(layout, [scroll EXCEPT !.following = FALSE], t)
       IN scroll' = [Remember(layout, away, 0) EXCEPT !.geometry = Measure(layout)]
  /\ UNCHANGED <<layout, resizeDue, gestured, swallowed, layouts>>

(* A press on the transcript, or on the header of the disclosure.           *)
Presses ==
  /\ Gesture(TRUE) /\ ~scroll.interacting
  /\ \/ scroll' = [scroll EXCEPT !.interacting = TRUE]
     \/ /\ InView(layout, scroll.top, Header)
        /\ scroll' = [Pause(layout, scroll, Header) EXCEPT !.interacting = TRUE]
  /\ UNCHANGED <<layout, resizeDue, gestured, swallowed, layouts>>

Releases ==
  /\ scroll.interacting
  /\ scroll' = Remember(layout, [scroll EXCEPT !.interacting = FALSE], 0)
  /\ UNCHANGED <<layout, resizeDue, past, layouts, gestures>>

(* The click reaches the controller first and opens or closes then.         *)
Toggles ==
  /\ Gesture(TRUE) /\ InView(layout, scroll.top, Header)
  /\ layout' = [layout EXCEPT !.open = ~layout.open]
  /\ LET paused == Clamp(layout', Pause(layout, scroll, Header))
     IN scroll' = [paused EXCEPT !.held = scroll.held \/ scroll.interacting]
  /\ resizeDue' = TRUE
  /\ UNCHANGED <<gestured, swallowed, layouts>>

Next ==
  \/ Reflows \/ Renders \/ SelectsSession \/ HearsResize \/ HearsScroll
  \/ Moves \/ TurnsUp \/ GoesToEnd \/ Navigates \/ Presses \/ Releases \/ Toggles

Spec == Init /\ [][Next]_vars

-----------------------------------------------------------------------------
TypeOK ==
  /\ layout \in [lines : SUBSET Lines, open : BOOLEAN, view : Views]
  /\ scroll.top \in 0..Bottom(layout) /\ scroll.expected \in {NoTop} \cup Nat
  /\ scroll.following \in BOOLEAN /\ scroll.interacting \in BOOLEAN /\ scroll.due \in BOOLEAN
  /\ scroll.anchor.line \in {0} \cup Lines

(* Nothing is due and nobody presses: the controller has had its say.       *)
Quiet == ~scroll.due /\ ~resizeDue /\ ~scroll.interacting

(* The end is in view while it is followed: growth, clamps and the          *)
(* controller's own moves never leave it.  Excepted is what changed under a *)
(* press until the next layout, and a move that met the expected top.       *)
EndFollowed == Quiet /\ scroll.following /\ ~scroll.held /\ ~swallowed => scroll.top = Bottom(layout)

(* What the reader reads stays where it is on the screen, whatever comes    *)
(* and goes above it, unless the content ends there.                        *)
ReadingHolds ==
  Quiet /\ ~scroll.following /\ ~swallowed /\ scroll.anchor # NoLine =>
    LET d == Delta(layout, scroll)
    IN d = 0 \/ (d < 0 /\ scroll.top = 0) \/ (d > 0 /\ scroll.top = Bottom(layout))

(* The stream is not followed only after the reader did something.          *)
ReaderLeft == ~scroll.following => left

ScrollHolds == EndFollowed /\ ReadingHolds /\ ReaderLeft

(* Not kept: only the reader has the stream followed again.  Once shortened *)
(* content was measured, by a render for example, the scroll event of the   *)
(* clamp that came with it is taken for a move to the end.                  *)
OnlyReaderFollows ==
  [][~scroll.following /\ scroll'.following =>
       gestured \/ gestures' # gestures \/ layout'.lines = FirstLines]_vars

(* Not kept: a press leaves the end in view.  What came during a press is   *)
(* not corrected when it ends.                                              *)
PressKeepsEnd == Quiet /\ scroll.following /\ ~swallowed => scroll.top = Bottom(layout)

(* Not kept: a move of the reader is heard.  One that a frame of the stream *)
(* undoes before its event, or that ends where the controller last wrote,   *)
(* is taken for the controller's own.                                       *)
MoveIsHeard == ~swallowed
=============================================================================
