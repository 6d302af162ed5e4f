---------------------------- MODULE SettingsForm ----------------------------
(***************************************************************************)
(* The connection panel of the webview: its form over pushed settings, the  *)
(* test of a connection, apply, and the removal of a provider in two        *)
(* steps.  The handlers of the host run concurrently; messages to the      *)
(* webview keep their order.  Typed texts are numbered; 0 is what the       *)
(* settings say.  The keys themselves are those of ConnectionSettings.      *)
(***************************************************************************)
EXTENDS Naturals, Sequences, FiniteSets, SequencesExt

CONSTANTS
  Official,  \* DEEPSEEK_OFFICIAL_PROVIDER
  Custom,    \* routes of other providers
  New,       \* the entry that adds one
  MaxTexts, MaxSteps \* bounds: texts typed, steps together with changes at the host

FormAssumption ==
  /\ Official \notin Custom \cup {New, "none"} /\ New \notin Custom /\ "none" \notin Custom
  /\ MaxTexts \in Nat /\ MaxSteps \in Nat

VARIABLES
  settings, \* external: whether writable, the routes there are, the default and the active one
  known, signature, \* state, defaultProvider, activeProvider; whether updateSignature is theirs
  panel,    \* the panel is open
  form,     \* provider selected, whether it has a name, address, validity of it, key, models
  confirming, \* confirmingRemove
  testing, applying, \* pendingTest, pendingApply with what was posted; none without one
  testOn, applyOn, \* whether the buttons are enabled
  shown,    \* what the line below the buttons says, and of which input
  toHost, toWeb, \* requests the host works on; messages on the way to the webview
  asked, removals, \* the provider whose removal was asked to be confirmed; those posted (history)
  texts, steps

model == <<known, signature>>
buttons == <<testOn, applyOn>>
pendings == <<testing, applying>>
vars == <<settings, model, panel, form, confirming, pendings, buttons, shown, toHost, toWeb, asked,
          removals, texts, steps>>

None == [id |-> 0]
Nothing == [says |-> "nothing"]
Unknown == [writable |-> FALSE, routes |-> {}, default |-> Official, active |-> "none"]

Input == [provider |-> form.provider, address |-> form.address, key |-> form.key]

-----------------------------------------------------------------------------
(* Rendering.                                                               *)

(* renderFields: the fields of the provider selected; edits are gone.  A    *)
(* new one has no name yet; no address is a valid one.                      *)
Fields(provider) ==
  [provider |-> provider, named |-> provider \notin {New, "none"}, address |-> 0, valid |-> TRUE,
   key |-> 0, models |-> "own"]

(* resetTest under the settings k.                                          *)
ResetTest(k) == testing' = None /\ testOn' = k.writable /\ shown' = Nothing

(* Mutant of RenderFields: a removal stays half confirmed.                  *)
RenderFieldsConfirming(k, provider) ==
  /\ form' = Fields(provider) /\ UNCHANGED confirming /\ asked' = "none"
  /\ applyOn' = k.writable /\ ResetTest(k)

RenderFields(k, provider) ==
  /\ form' = Fields(provider) /\ confirming' = FALSE /\ asked' = "none"
  /\ applyOn' = k.writable /\ ResetTest(k)

(* renderProviders: a select without a listed option has no value.          *)
Selected(k, keep) ==
  IF keep /\ form.provider \in k.routes \cup {New} THEN form.provider
  ELSE IF k.default \in k.routes THEN k.default
  ELSE IF Official \in k.routes THEN Official ELSE "none"

Disabled(field) ==
  \/ ~known.writable
  \/ field \in {"address", "models"} /\ form.provider = Official
  \/ field = "name" /\ form.provider \notin known.routes \cup {New}

Removable == form.provider \in known.routes \ {Official} /\ form.provider # known.active

Init ==
  /\ settings = [writable |-> TRUE, routes |-> Custom \cup {Official}, default |-> Official,
                 active |-> Official]
  /\ known = Unknown /\ signature = FALSE /\ panel = FALSE
  /\ form = Fields("none") /\ confirming = FALSE
  /\ testing = None /\ applying = None /\ testOn = TRUE /\ applyOn = TRUE /\ shown = Nothing
  /\ toHost = {} /\ toWeb = <<>> /\ asked = "none" /\ removals = {}
  /\ texts = 0 /\ steps = 0

-----------------------------------------------------------------------------
(* The user.                                                                *)

Step == steps < MaxSteps /\ steps' = steps + 1
Types(field) ==
  /\ panel /\ ~Disabled(field) /\ texts < MaxTexts /\ texts' = texts + 1
  /\ UNCHANGED <<settings, model, panel, confirming, applying, applyOn, toHost, toWeb, asked,
                 removals, steps>>

Opens ==
  /\ Step /\ ~panel /\ panel' = TRUE
  /\ RenderFields(known, Selected(known, FALSE)) /\ signature' = FALSE
  /\ UNCHANGED <<settings, known, applying, toHost, toWeb, removals, texts>>

(* The button, Escape, or the picker that opens.                            *)
Closes ==
  /\ Step /\ panel /\ panel' = FALSE
  /\ UNCHANGED <<settings, model, form, confirming, pendings, buttons, shown, toHost, toWeb, asked,
                 removals, texts>>

Selects ==
  /\ Step /\ panel
  /\ \E p \in known.routes \cup {New} : p # form.provider /\ RenderFields(known, p)
  /\ UNCHANGED <<settings, model, panel, applying, toHost, toWeb, removals, texts>>

TypesName == Types("name") /\ form' = [form EXCEPT !.named = TRUE] /\ ResetTest(known)
TypesAddress ==
  /\ Types("address")
  /\ \E valid \in BOOLEAN : form' = [form EXCEPT !.address = texts', !.valid = valid]
  /\ ResetTest(known)
TypesKey == Types("key") /\ form' = [form EXCEPT !.key = texts'] /\ ResetTest(known)
TypesModels ==
  Types("models") /\ form' = [form EXCEPT !.models = "typed"] /\ UNCHANGED <<testing, testOn, shown>>

Posts(kind) == toHost' = toHost \cup {[kind |-> kind, id |-> steps', of |-> Input]}

Tests ==
  /\ Step /\ panel /\ testOn /\ form.valid
  /\ testing' = [id |-> steps', of |-> Input] /\ testOn' = FALSE /\ shown' = Nothing
  /\ Posts("test")
  /\ UNCHANGED <<settings, model, panel, form, confirming, applying, applyOn, toWeb, asked, removals,
                 texts>>

Applies ==
  /\ Step /\ panel /\ applyOn /\ form.valid /\ (form.provider = Official \/ form.named)
  /\ applying' = [id |-> steps', of |-> Input] /\ applyOn' = FALSE
  /\ Posts("apply")
  /\ UNCHANGED <<settings, model, panel, form, confirming, testing, testOn, shown, toWeb, asked,
                 removals, texts>>

AsksToConfirm ==
  /\ Step /\ panel /\ Removable /\ ~confirming
  /\ confirming' = TRUE /\ asked' = form.provider
  /\ UNCHANGED <<settings, model, panel, form, pendings, buttons, shown, toHost, toWeb, removals,
                 texts>>

Removes ==
  /\ Step /\ panel /\ Removable /\ confirming
  /\ confirming' = FALSE /\ panel' = FALSE /\ Posts("remove")
  /\ removals' = removals \cup {[of |-> form.provider, asked |-> asked]}
  /\ UNCHANGED <<settings, model, form, pendings, buttons, shown, toWeb, asked, texts>>

-----------------------------------------------------------------------------
(* The host.                                                                *)

Answers(r, message) == r \in toHost /\ toHost' = toHost \ {r} /\ toWeb' = Append(toWeb, message)
HostOnly ==
  UNCHANGED <<model, panel, form, confirming, pendings, buttons, shown, asked, removals, texts>>

(* ConnectionTestService.test always has an answer.                         *)
Tested(r) ==
  /\ r.kind = "test"
  /\ \E found \in BOOLEAN : Answers(r, [kind |-> "tested", id |-> r.id, of |-> r.of, good |-> found])
  /\ HostOnly /\ UNCHANGED <<settings, steps>>

(* applySettings: the provider is stored and becomes the default, or not;   *)
(* once it is stored the refresh of the models may still fail.              *)
Stored(r) ==
  /\ r.kind = "apply"
  /\ \E good \in BOOLEAN : Answers(r, [kind |-> "applied", id |-> r.id, of |-> r.of, good |-> good])
  /\ \E route \in IF r.of.provider = New THEN Custom ELSE {r.of.provider} :
       settings' = [settings EXCEPT !.routes = settings.routes \cup {route}, !.default = route]
  /\ HostOnly /\ UNCHANGED steps
StoreFails(r) ==
  /\ r.kind = "apply" /\ Answers(r, [kind |-> "applied", id |-> r.id, of |-> r.of, good |-> FALSE])
  /\ HostOnly /\ UNCHANGED <<settings, steps>>

(* removeProvider: not the one in use; the default falls back before the    *)
(* removal, which may fail.                                                 *)
Without(p) == IF settings.default = p THEN Official ELSE settings.default
RemovedAtHost(r) ==
  /\ r.kind = "remove" /\ r \in toHost /\ toHost' = toHost \ {r}
  /\ IF r.of.provider = settings.active THEN UNCHANGED settings
     ELSE \E routes \in {settings.routes, settings.routes \ {r.of.provider}} :
            settings' = [settings EXCEPT !.routes = routes, !.default = Without(r.of.provider)]
  /\ HostOnly /\ UNCHANGED <<toWeb, steps>>

(* The session's provider changes, or somebody else edits the settings.     *)
HostChanges ==
  /\ Step
  /\ \/ \E p \in settings.routes : settings' = [settings EXCEPT !.active = p]
     \/ \E p \in Custom \ {settings.active} :
          settings' = [settings EXCEPT !.routes = settings.routes \ {p}, !.default = Without(p)]
     \/ settings' = [settings EXCEPT !.writable = ~settings.writable]
  /\ settings' # settings
  /\ HostOnly /\ UNCHANGED <<toHost, toWeb>>

(* publishState; a push that Updates would pass over is left out.           *)
Pushes ==
  /\ ~\E i \in DOMAIN toWeb : toWeb[i].kind = "state" /\ toWeb[i].settings = settings
  /\ settings # known \/ ~signature
  /\ toWeb' = Append(toWeb, [kind |-> "state", settings |-> settings])
  /\ HostOnly /\ UNCHANGED <<settings, toHost, steps>>

-----------------------------------------------------------------------------
(* Messages to the webview.                                                 *)

Receives(kind) == toWeb # <<>> /\ Head(toWeb).kind = kind /\ toWeb' = Tail(toWeb)

(* update: a push that says nothing new leaves the form alone, one that     *)
(* does renders it anew while it is open.                                   *)
Updates ==
  /\ Receives("state")
  /\ LET next == Head(toWeb).settings IN
       IF next = known /\ signature
       THEN UNCHANGED <<model, form, confirming, asked, testing, buttons, shown>>
       ELSE /\ known' = next /\ signature' = TRUE
            /\ IF panel THEN RenderFields(next, Selected(next, TRUE))
               ELSE UNCHANGED <<form, confirming, asked, testing, buttons, shown>>
  /\ UNCHANGED <<settings, panel, applying, toHost, removals, texts, steps>>

RenderApplyResult ==
  /\ Receives("applied")
  /\ LET result == Head(toWeb) IN
       IF result.id # applying.id THEN UNCHANGED <<applying, applyOn, shown, form>>
       ELSE /\ applying' = None /\ applyOn' = known.writable
            /\ shown' = [says |-> IF result.good THEN "saved" ELSE "not saved"]
            /\ form' = IF result.good THEN [form EXCEPT !.key = 0] ELSE form
  /\ UNCHANGED <<settings, model, panel, confirming, testing, testOn, toHost, asked, removals, texts,
                 steps>>

(* Mutant of TestOf: any result is shown.                                   *)
TestOfAny(result) == testing # None

TestOf(result) == testing # None /\ result.id = testing.id

RenderTestResult ==
  /\ Receives("tested")
  /\ LET result == Head(toWeb) IN
       IF ~TestOf(result) THEN UNCHANGED <<testing, testOn, shown, form>>
       ELSE /\ testing' = None /\ testOn' = TRUE
            /\ shown' = [says |-> "tested", of |-> result.of, good |-> result.good]
            /\ form' = IF result.good /\ ~Disabled("models") THEN [form EXCEPT !.models = "found"]
                       ELSE form
  /\ UNCHANGED <<settings, model, panel, confirming, applying, applyOn, toHost, asked, removals,
                 texts, steps>>

Next ==
  \/ Opens \/ Closes \/ Selects \/ TypesName \/ TypesAddress \/ TypesKey \/ TypesModels
  \/ Tests \/ Applies \/ AsksToConfirm \/ Removes
  \/ \E r \in toHost : Tested(r) \/ Stored(r) \/ StoreFails(r) \/ RemovedAtHost(r)
  \/ HostChanges \/ Pushes \/ Updates \/ RenderApplyResult \/ RenderTestResult

Spec == Init /\ [][Next]_vars

-----------------------------------------------------------------------------
TypeOK ==
  /\ known.routes \subseteq Custom \cup {Official} /\ known.writable \in BOOLEAN
  /\ form.provider \in Custom \cup {Official, New, "none"}
  /\ form.models \in {"own", "typed", "found"}
  /\ form.address \in Nat /\ form.key \in Nat

(* What the panel says of a test is of the provider, the address and the    *)
(* key in it, whatever was typed, selected or pushed while the host tested. *)
(* A key that was saved meanwhile is no longer in the form.                 *)
ResultIsOfForm ==
  shown.says = "tested" =>
    /\ shown.of.provider = form.provider /\ shown.of.address = form.address
    /\ form.key \in {0, shown.of.key}

(* A provider is removed only if its own removal was asked to be confirmed  *)
(* in the form as it is.                                                    *)
RemovalConfirmed == \A r \in removals : r.asked = r.of

(* A button that waits is waited for: its answer is at the host or on the   *)
(* way, so that the form is not locked for good.                            *)
Coming(kind, answer, id) ==
  \/ \E r \in toHost : r.kind = kind /\ r.id = id
  \/ \E i \in DOMAIN toWeb : toWeb[i].kind = answer /\ toWeb[i].id = id
FormUnlocks ==
  panel /\ known.writable =>
    /\ ~testOn => testing # None /\ Coming("test", "tested", testing.id)
    /\ ~applyOn => applying # None /\ Coming("apply", "applied", applying.id)

FormIsTrue == ResultIsOfForm /\ RemovalConfirmed /\ FormUnlocks

(* Not kept: an answer takes from the form only what was sent.  The result  *)
(* of an apply empties the key also when another was typed since, for       *)
(* another provider even; that of a test replaces models typed since.       *)
AnswersTakeOwn ==
  [][RenderApplyResult => form'.key \in {form.key, 0} /\ (form'.key # form.key =>
       applying.of.key = form.key)]_vars

(* Not kept: a push that says nothing new leaves the form alone.  open      *)
(* forgets the signature, so that the first push after it renders the form  *)
(* anew, whatever was typed since.                                          *)
TypedStays == [][known' = known /\ Updates => form' = form]_vars
=============================================================================
