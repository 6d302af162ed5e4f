---------------------------- MODULE ComposerPicker ----------------------------
(***************************************************************************)
(* The configuration picker of the composer: the draft of the user's model, *)
(* reasoning tier and preset against the payloads that come meanwhile, and  *)
(* what its panel and its toggle show of it.  From webview/                 *)
(* composer-configuration/{adapter,store,component}.ts and its callers in   *)
(* webview/chat.  What a payload says is external: Composer models how it   *)
(* comes about and what the host makes of a configuration.                  *)
(***************************************************************************)
EXTENDS Integers, Sequences, FiniteSets, SequencesExt

CONSTANTS
  Payloads,       \* what the host may say, by name
  Sources,        \* configured providers
  FallbackModels, \* model ids offered while the catalog is loading
  FallbackTiers,  \* reasoning tiers of a model that lists none
  BareName,       \* a model id without the prefix of a relay
  Queries,        \* sets of model ids a search may match; all with an empty one
  Width,          \* the track of the slider has the positions 0..Width
  MaxPayloads,    \* bound: payloads after the first
  MaxActs         \* bound: steps of the user

PickerAssumption ==
  /\ FallbackTiers # <<>> /\ Width \in Nat \ {0} /\ {MaxPayloads, MaxActs} \subseteq Nat
  /\ DOMAIN BareName \in Queries
  /\ \A id \in DOMAIN BareName : BareName[id] \in DOMAIN BareName /\ BareName[BareName[id]] = BareName[id]

VARIABLES
  payload,         \* the last payload, or that no session is open
  held, draft,     \* ComposerConfigurationStore: the payload of its input
  locked, open,    \* the toggle is disabled, the panel is shown
  toggle, effort,  \* the selection the toggle and the effort row show
  range,           \* the slider: its last detent, whether it is enabled
  drag,            \* the drag of its knob, with the move that waits for a frame
  tab, query,      \* expandedProvider, the search
  picks,           \* history: what the user chose, while it is to stand
  stale,           \* history: the draft was given up since the last rendering
  dragged,         \* history: so was a drag
  meddled,         \* history: something was staged in a locked composer
  payloads, acts

store == <<held, draft>>
panel == <<locked, open, toggle, effort, range, drag>>
lists == <<tab, query>>
history == <<picks, stale, dragged, meddled>>
bounds == <<payloads, acts>>
vars == <<payload, store, panel, lists, history, bounds>>

NoSession == "none"
None == [model |-> "none"]
NoDraft == [session |-> "none"]
NoTab == "none"
Still == [on |-> FALSE, at |-> -1]

-----------------------------------------------------------------------------
(* composerConfigurationInput.                                              *)

Option(provider, id, tiers) == [provider |-> provider, id |-> id, tiers |-> tiers]

(* Until the catalog is there every source is taken to have the fallbacks.  *)
OfferedModels(p) ==
  IF p.catalog # <<>> THEN p.catalog
  ELSE LET each == Len(FallbackModels) IN
       [k \in 1..Len(Sources) * each |->
         Option(Sources[((k - 1) \div each) + 1], FallbackModels[((k - 1) % each) + 1], FallbackTiers)]

Inputs ==
  [name \in DOMAIN Payloads |-> LET p == Payloads[name] IN
     [session |-> p.session, connected |-> p.connected, editable |-> ~p.busy, current |-> p.current,
      models |-> OfferedModels(p), presets |-> SelectSeq(p.presets, LAMBDA x : x \notin p.broken),
      experimental |-> p.experimental]]
input == Inputs[held]

-----------------------------------------------------------------------------
(* ComposerConfigurationStore.                                              *)

Tiers(model) == IF model.tiers = <<>> THEN FallbackTiers ELSE model.tiers

(* The first element of a list that fits, as a sequence of at most one.     *)
First(list, Holds(_)) ==
  LET all == SelectSeq(list, Holds) IN IF all = <<>> THEN <<>> ELSE <<all[1]>>
Among(list, x) == First(list, LAMBDA y : y = x)

(* findModel: the session may name a model without the prefix the catalog   *)
(* has, or with it.                                                         *)
FindModel(i, provider, id) ==
  First(i.models, LAMBDA m : m.provider = provider /\ BareName[m.id] = BareName[id])
OfSource(i, provider) == First(i.models, LAMBDA m : m.provider = provider)

(* normalizeSelection: the first of these choices that is offered.          *)
Normalized(asked, i) ==
  LET models == FindModel(i, asked.provider, asked.model) \o FindModel(i, asked.provider, i.current.model)
        \o OfSource(i, asked.provider) \o FindModel(i, i.current.provider, i.current.model) \o i.models
      presets == Among(i.presets, asked.preset) \o Among(i.presets, i.current.preset) \o i.presets IN
  IF models = <<>> \/ presets = <<>> THEN None
  ELSE LET tiers == Tiers(models[1]) IN
       [provider |-> models[1].provider, model |-> models[1].id,
        effort |-> (Among(tiers, asked.effort) \o Among(tiers, i.current.effort) \o tiers)[1],
        preset |-> presets[1], auto |-> asked.auto]

(* snapshot: the selection of the draft, or else of the session.            *)
Selected(i, d) == Normalized(IF d = NoDraft THEN i.current ELSE d.selection, i)
Selection == Selected(input, draft)

ModelOf(i, s) == FindModel(i, s.provider, s.model)[1]
TiersOf(i, s) == Tiers(ModelOf(i, s))
IndexOf(list, x) == CHOOSE k \in DOMAIN list : list[k] = x

(* update: an unsubmitted draft stays behind with its session, and one that *)
(* says what the session has by now is dropped.                             *)
Updated(d, i) ==
  IF d = NoDraft \/ (d.session # i.session /\ ~d.submitted) THEN NoDraft
  ELSE LET s == Normalized(d.selection, i) IN
       IF s = None THEN d
       ELSE IF s = Normalized(i.current, i) THEN NoDraft
       ELSE [d EXCEPT !.session = i.session, !.selection = s]

(* Mutant of Staged: a choice is staged on what the session has.            *)
StagedOverSession(s, i) ==
  [session |-> i.session, submitted |-> FALSE,
   selection |-> [i.current EXCEPT !.effort = s.effort, !.auto = s.auto]]

Staged(s, i) == [session |-> i.session, selection |-> s, submitted |-> FALSE]

(* selectModel: the tier stays, or is the session's, or the first.          *)
WithModel(s, i, provider, id) ==
  LET tiers == Tiers(FindModel(i, provider, id)[1]) IN
  [s EXCEPT !.provider = provider, !.model = id,
            !.effort = (Among(tiers, s.effort) \o Among(tiers, i.current.effort) \o tiers)[1]]

(* selectReasoning leaves the automatic choice.                             *)
WithTier(s, i, index) == [s EXCEPT !.effort = TiersOf(i, s)[index + 1], !.auto = FALSE]

-----------------------------------------------------------------------------
(* Rendering.                                                               *)

(* renderEffort: with the experimental mode a switch stands in for the      *)
(* slider, which is left as it was.                                         *)
DrawsEffort(i, s) ==
  /\ effort' = s
  /\ range' = IF i.experimental THEN range
              ELSE LET last == Len(TiersOf(i, s)) - 1 IN
                   [last |-> last, enabled |-> ~s.auto /\ last > 0 /\ i.editable]

Renders(i, d) ==
  LET s == Selected(i, d) IN
  /\ stale' = FALSE /\ dragged' = FALSE
  /\ IF s = None THEN locked' = TRUE /\ open' = FALSE /\ UNCHANGED <<toggle, effort, range>>
     ELSE /\ locked' = (~i.connected \/ ~i.editable)
          /\ open' = (open /\ i.connected /\ i.editable)
          /\ toggle' = s /\ DrawsEffort(i, s)

(* The models the panel lists: those the search matches; of the open tab,   *)
(* or of the selection's, where they are of several providers.              *)
Matching == SelectSeq(input.models, LAMBDA m : m.id \in query)
Providers(list) == {list[k].provider : k \in DOMAIN list}
Listed ==
  IF Cardinality(Providers(Matching)) <= 1 THEN ToSet(Matching)
  ELSE {m \in ToSet(Matching) : m.provider = IF tab = NoTab THEN toggle.provider ELSE tab}

-----------------------------------------------------------------------------
(* What is remembered of the user's choices, for the properties.            *)

NoPicks == [model |-> {}, effort |-> {}, preset |-> {}, auto |-> {}]
Fits(s, p) ==
  /\ \A m \in p.model : s.provider = m.provider /\ BareName[s.model] = BareName[m.id]
  /\ p.effort \subseteq {s.effort} /\ p.preset \subseteq {s.preset} /\ p.auto \subseteq {s.auto}

(* A payload ends a choice it does not offer, and all of them where it is   *)
(* of another session or its session has what is left of them.             *)
Offered(p, i) ==
  [p EXCEPT !.model = {m \in @ : FindModel(i, m.provider, m.id) # <<>>},
            !.preset = @ \cap ToSet(i.presets),
            !.effort = {tier \in @ : \E m \in ToSet(i.models) :
                          /\ m.provider = Selection.provider /\ m.id = Selection.model
                          /\ tier \in ToSet(Tiers(m))}]
StillOffered(p, i) ==
  LET s == Selected(i, NoDraft) IN
  IF i.session # input.session \/ s = None \/ Fits(s, Offered(p, i)) THEN NoPicks ELSE Offered(p, i)

-----------------------------------------------------------------------------
Init ==
  /\ payload \in DOMAIN Payloads /\ held = payload /\ draft = NoDraft
  /\ LET s == Selected(input, NoDraft) IN
       /\ s # None /\ toggle = s /\ effort = s
       /\ range = IF input.experimental THEN [last |-> 0, enabled |-> FALSE]
                  ELSE LET last == Len(TiersOf(input, s)) - 1 IN
                       [last |-> last, enabled |-> ~s.auto /\ last > 0 /\ input.editable]
  /\ locked = (~input.connected \/ ~input.editable) /\ open = FALSE
  /\ drag = Still /\ tab = NoTab /\ query = DOMAIN BareName
  /\ picks = NoPicks /\ stale = FALSE /\ dragged = FALSE /\ meddled = FALSE
  /\ payloads = 0 /\ acts = 0

(* renderSelectors: only a payload that says something new is looked at.    *)
PayloadArrives ==
  /\ payloads < MaxPayloads /\ payloads' = payloads + 1
  /\ \E p \in DOMAIN Payloads \ {payload} :
       LET i == Inputs[p] IN
       /\ payload' = p /\ held' = p /\ draft' = Updated(draft, i)
       /\ picks' = StillOffered(picks, i) /\ Renders(i, Updated(draft, i))
  /\ UNCHANGED <<drag, lists, meddled, acts>>

(* update(undefined): the draft goes, what was offered stays in the store.  *)
SessionCloses ==
  /\ payload # NoSession /\ payloads < MaxPayloads /\ payloads' = payloads + 1
  /\ payload' = NoSession /\ draft' = NoDraft /\ locked' = TRUE /\ open' = FALSE
  /\ picks' = NoPicks /\ stale' = TRUE
  /\ UNCHANGED <<held, toggle, effort, range, drag, lists, dragged, meddled, acts>>

-----------------------------------------------------------------------------
(* The user.                                                                *)

Acts == acts < MaxActs /\ acts' = acts + 1 /\ UNCHANGED <<payload, payloads>>
InPanel == open /\ Acts

Opens ==
  /\ ~locked /\ ~open /\ open' = TRUE /\ Acts
  /\ UNCHANGED <<store, locked, toggle, effort, range, drag, lists, history>>

(* The toggle, the cross, Escape, a click elsewhere.                        *)
Closes ==
  /\ InPanel /\ open' = FALSE
  /\ UNCHANGED <<store, locked, toggle, effort, range, drag, lists, history>>

Meddles == meddled' = (meddled \/ ~input.connected \/ ~input.editable)

(* A click in the panel that chooses: staged, rendered, remembered.         *)
Chooses(s, p) ==
  /\ Meddles
  /\ draft' = Staged(s, input) /\ picks' = p /\ Renders(input, Staged(s, input))
  /\ UNCHANGED <<held, drag>>

(* The remembered tier goes with a model that has no such tier.             *)
PickedModel(m) ==
  [picks EXCEPT !.model = {m}, !.effort = @ \cap ToSet(Tiers(FindModel(input, m.provider, m.id)[1]))]

PicksModel ==
  /\ InPanel
  /\ \E m \in Listed : Chooses(WithModel(Selection, input, m.provider, m.id), PickedModel(m))
  /\ UNCHANGED lists

(* The configured sources and those the catalog adds.                       *)
SourceOptions == ToSet(Sources) \cup Providers(input.models)

(* selectSource: the same model of another source, or its first.            *)
PicksSource ==
  /\ InPanel
  /\ \E provider \in SourceOptions :
       LET found == FindModel(input, provider, Selection.model) \o OfSource(input, provider) IN
       /\ provider # toggle.provider /\ found # <<>>
       /\ Chooses(WithModel(Selection, input, provider, found[1].id), PickedModel(found[1]))
  /\ UNCHANGED lists

PicksPreset ==
  /\ InPanel
  /\ \E x \in ToSet(input.presets) :
       Chooses([Selection EXCEPT !.preset = x], [picks EXCEPT !.preset = {x}])
  /\ UNCHANGED lists

(* A tick, the wheel, an arrow key: changeReasoning.                        *)
PickedTier(index) == [picks EXCEPT !.effort = {TiersOf(input, Selection)[index + 1]}, !.auto = {FALSE}]
PicksTier ==
  /\ InPanel /\ ~input.experimental
  /\ \E index \in 0..Len(TiersOf(input, Selection)) - 1 :
       Chooses(WithTier(Selection, input, index), PickedTier(index))
  /\ UNCHANGED lists

WithAuto(s) == [s EXCEPT !.auto = ~@]
TogglesAuto ==
  /\ InPanel /\ input.experimental
  /\ Chooses(WithAuto(Selection), [picks EXCEPT !.auto = {~Selection.auto}])
  /\ UNCHANGED lists

(* A tab of the rail and the search render the list again.                  *)
BrowsesModels ==
  /\ InPanel
  /\ \/ /\ \E provider \in Providers(Matching) \ {tab} : tab' = provider
        /\ Renders(input, draft) /\ UNCHANGED query
     \/ /\ \E q \in Queries \ {query} : query' = q
        /\ UNCHANGED <<tab, stale, dragged, locked, open, toggle, effort, range>>
  /\ UNCHANGED <<store, drag, picks, meddled>>

(* The drag: apply does nothing where the slider has no width, which is so  *)
(* in a panel that was closed or behind the switch.                         *)
HasWidth == open /\ ~input.experimental
Detent(at) == (2 * at * range.last + Width) \div (2 * Width)
Bounded(k, tiers) == IF k >= Len(tiers) THEN Len(tiers) - 1 ELSE k

Applies(at) ==
  IF ~HasWidth THEN UNCHANGED <<draft, picks, meddled, dragged>>
  ELSE LET k == Bounded(Detent(at), TiersOf(input, Selection)) IN
       /\ draft' = Staged(WithTier(Selection, input, k), input)
       /\ picks' = PickedTier(k) /\ Meddles /\ dragged' = TRUE

Grabs ==
  /\ InPanel /\ ~input.experimental /\ range.enabled /\ ~drag.on
  /\ \E at \in 0..Width : Applies(at)
  /\ drag' = [on |-> TRUE, at |-> -1] /\ effort' = Selected(input, draft')
  /\ UNCHANGED <<held, locked, open, toggle, range, lists, stale>>

Drags ==
  /\ drag.on /\ Acts
  /\ \E at \in 0..Width : drag' = [drag EXCEPT !.at = at]
  /\ UNCHANGED <<store, locked, open, toggle, effort, range, lists, history>>

FrameComes ==
  /\ drag.on /\ drag.at # -1 /\ drag' = [drag EXCEPT !.at = -1] /\ Applies(drag.at)
  /\ effort' = IF HasWidth THEN Selected(input, draft') ELSE effort
  /\ UNCHANGED <<payload, held, locked, open, toggle, range, lists, stale, bounds>>

(* end: the last move is applied and the effort row, no more, is drawn.     *)
LetsGo ==
  /\ drag.on /\ drag' = Still
  /\ IF drag.at # -1 THEN Applies(drag.at) ELSE UNCHANGED <<draft, picks, meddled, dragged>>
  /\ IF Selected(input, draft') = None THEN UNCHANGED <<effort, range>>
     ELSE DrawsEffort(input, Selected(input, draft'))
  /\ UNCHANGED <<payload, held, locked, open, toggle, lists, stale, bounds>>

(* sendPrompt closes the panel, takes the selection and keeps the draft     *)
(* until the session has it.                                                *)
Sends ==
  /\ Acts /\ open' = FALSE
  /\ draft' = IF draft = NoDraft THEN NoDraft ELSE [draft EXCEPT !.submitted = TRUE]
  /\ UNCHANGED <<held, locked, toggle, effort, range, drag, lists, history>>

(* reset: another session is asked for.  Nothing is drawn until it comes.   *)
GivesUpDraft ==
  /\ Acts /\ draft' = NoDraft /\ open' = FALSE /\ picks' = NoPicks /\ stale' = TRUE
  /\ UNCHANGED <<held, locked, toggle, effort, range, drag, lists, dragged, meddled>>

Next ==
  \/ PayloadArrives \/ SessionCloses \/ Opens \/ Closes
  \/ PicksModel \/ PicksSource \/ PicksPreset \/ PicksTier \/ TogglesAuto \/ BrowsesModels
  \/ Grabs \/ Drags \/ FrameComes \/ LetsGo \/ Sends \/ GivesUpDraft

Spec == Init /\ [][Next]_vars

-----------------------------------------------------------------------------
(* What the user chose is what a prompt would be sent with, whatever came   *)
(* from the host since: a choice ends with its session, with an offer that  *)
(* lacks it and when the session has it.  And nothing is staged for a       *)
(* session that runs or a host that is away, by a drag that began before    *)
(* either.                                                                  *)
ChoiceStands ==
  /\ LET s == Selection IN s # None => Fits(s, picks)
  /\ ~meddled

(* What would be sent is offered.                                           *)
SendsOffered ==
  LET i == input
      s == Selection IN
  s # None =>
    \E m \in ToSet(i.models) :
      /\ m.provider = s.provider /\ m.id = s.model
      /\ s.effort \in ToSet(Tiers(m)) /\ s.preset \in ToSet(i.presets)

(* A panel that can be used shows what would be sent.                       *)
PanelIsTrue ==
  LET s == Selection IN
  /\ open => ~locked /\ payload # NoSession
  /\ open /\ ~stale => effort = s
  /\ ~locked /\ ~stale /\ ~dragged => toggle = s

PickerTrue == ChoiceStands /\ SendsOffered /\ PanelIsTrue

(* Not kept: the toggle is not drawn after a drag, nor the panel after a    *)
(* session was asked for that did not come.                                 *)
ToggleIsTrue == ~locked /\ ~drag.on => toggle = Selection

(* Not kept: of two models of a relay with one bare name the first is sent. *)
PickIsExact == Selection # None => \A m \in picks.model : Selection.model = m.id
=============================================================================
