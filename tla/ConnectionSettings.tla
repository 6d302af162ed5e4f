-------------------------- MODULE ConnectionSettings --------------------------
(***************************************************************************)
(* Providers and their keys: what the host stores of them                   *)
(* (services/connection-settings-service.ts over the settings, credentials  *)
(* and llm calls of the runtime), and the import of what older builds left   *)
(* in VS Code's settings and secrets (connection-settings/migrations.ts).   *)
(*                                                                          *)
(* A provider is its route; of a profile only the two ways to authorise are *)
(* kept, and of a key only whether there is one.  Which provider VS Code    *)
(* selects is left out.                                                     *)
(***************************************************************************)
EXTENDS Naturals, FiniteSets

CONSTANTS
  Routes,      \* relay providers
  Relay,       \* the route a legacy base URL is imported under
  Official,    \* the built-in provider
  Namespaces,  \* settings namespaces of the running runtime
  MaxConnects, \* bound: connections
  MaxUser,     \* bound: changes the user makes in this window
  MaxOthers,   \* bound: changes made in another window
  MaxFaults    \* bound: calls and writes that fail

PiAi == "llm-pi-ai"
DeepSeek == "llm-deepseek"

SettingsAssumption ==
  /\ Relay \in Routes /\ Official \notin Routes
  /\ Namespaces \subseteq {PiAi, DeepSeek}
  /\ {MaxConnects, MaxUser, MaxOthers, MaxFaults} \subseteq Nat

VARIABLES
  legacy,     \* what older builds left: [providers, key, url]
  profiles,   \* the host's profiles
  outdated,   \* jobs whose revision is not the last one any more
  keys,       \* references with a key at the host
  baseUrl,    \* the official endpoint the host has, "none" for its default
  bound,      \* the service has a client
  view,       \* stateValue: the providers it last read
  job,        \* job["connect"]: connect(); job["user"]: what the form asked for
  was, held, declared, \* history, for the properties
  connects, user, others, faults

host == <<profiles, outdated, keys, baseUrl>>
history == <<was, held, declared>>
bounds == <<connects, user, others, faults>>
vars == <<legacy, host, bound, view, job, history, bounds>>

NoProfile == [there |-> FALSE, keyed |-> FALSE, header |-> FALSE]
Keyed == [there |-> TRUE, keyed |-> TRUE, header |-> FALSE]
Keyless == [there |-> TRUE, keyed |-> FALSE, header |-> TRUE]
Unread == [r \in Routes |-> NoProfile]
Idle == [at |-> "idle", seen |-> Unread, url |-> "none", route |-> Official, key |-> FALSE,
         import |-> {}, pending |-> {}, relay |-> FALSE]

Init ==
  /\ legacy \in [providers : {Routes \ {Relay}}, key : BOOLEAN,
                 url : {"none", "root", "mirror", "relay"}]
  /\ profiles = Unread /\ outdated = {}
  /\ keys = {} /\ baseUrl \in {"none", "root"}
  /\ bound = FALSE /\ view = {}
  /\ job = [p \in {"connect", "user"} |-> Idle]
  /\ was = legacy /\ held = {} /\ declared = {}
  /\ connects = 0 /\ user = 0 /\ others = 0 /\ faults = 0

-----------------------------------------------------------------------------
(* The host.                                                                *)

Sets(refs) == keys' = keys \cup refs /\ held' = held \cup refs

(* settingsMutate refuses a revision that is not the last one.              *)
Mutates(new) ==
  /\ profiles' = new /\ outdated' = DOMAIN job
  /\ declared' = declared \cup {r \in Routes : new[r].there}

ReadBy(p) == outdated' = outdated \ {p}

Goes(p, at) == job' = [job EXCEPT ![p].at = at]
Drops(p) == job' = [job EXCEPT ![p] = Idle]

(* Any call may fail, and all do once the client is gone; the operation     *)
(* ends where it is.                                                        *)
Fails(p) ==
  /\ job[p].at # "idle" /\ Drops(p)
  /\ \/ ~bound /\ UNCHANGED faults
     \/ faults < MaxFaults /\ faults' = faults + 1
  /\ UNCHANGED <<legacy, host, bound, view, history, connects, user, others>>

-----------------------------------------------------------------------------
(* connect(): the import, then the defaults, then refresh().                *)

Connect ==
  /\ ~bound /\ job["connect"] = Idle /\ connects < MaxConnects
  /\ bound' = TRUE /\ connects' = connects + 1 /\ Goes("connect", "describe")
  /\ UNCHANGED <<legacy, host, view, history, user, others, faults>>

Disconnect ==
  /\ bound /\ bound' = FALSE
  /\ UNCHANGED <<legacy, host, view, job, history, bounds>>

(* The legacy base URL of a third party becomes a provider of its own.      *)
Candidates == legacy.providers \cup (IF legacy.url = "relay" THEN {Relay} ELSE {})

Describes ==
  /\ job["connect"].at = "describe"
  /\ job' = [job EXCEPT !["connect"] =
       [@ EXCEPT !.at = "compare", !.seen = profiles, !.url = baseUrl,
                 !.import = Candidates, !.key = legacy.key, !.relay = legacy.url = "relay"]]
  /\ ReadBy("connect")
  /\ UNCHANGED <<legacy, profiles, keys, baseUrl, bound, view, history, bounds>>

(* A relay that cannot be imported is an error; providers that cannot are   *)
(* passed over.                                                             *)
Compares ==
  LET j == job["connect"] IN
  /\ j.at = "compare"
  /\ job' = [job EXCEPT !["connect"] =
       IF PiAi \in Namespaces
       THEN [j EXCEPT !.at = "declare",
                      !.pending = {r \in j.import \ keys : r # Relay \/ j.key}]
       ELSE IF j.relay THEN Idle ELSE [j EXCEPT !.at = "official"]]
  /\ UNCHANGED <<legacy, host, bound, view, history, bounds>>

(* Missing profiles, written in one mutation.                               *)
Declares ==
  LET j == job["connect"]  new == {r \in j.import : ~j.seen[r].there} IN
  /\ j.at = "declare"
  /\ IF new # {} /\ "connect" \in outdated THEN Drops("connect") /\ UNCHANGED <<profiles, outdated, declared>>
     ELSE /\ job' = [job EXCEPT !["connect"] = [@ EXCEPT !.at = "keys", !.seen = Unread, !.import = {}]]
          /\ IF new = {} THEN UNCHANGED <<profiles, outdated, declared>>
             ELSE Mutates([r \in Routes |-> IF r \in new THEN Keyed ELSE profiles[r]])
  /\ UNCHANGED <<legacy, keys, baseUrl, bound, view, was, held, bounds>>

SetsKeys ==
  LET j == job["connect"] IN
  /\ j.at = "keys"
  /\ IF j.pending = {} THEN Goes("connect", "official") /\ UNCHANGED <<keys, held>>
     ELSE \E r \in j.pending : Sets({r}) /\ job' = [job EXCEPT !["connect"].pending = @ \ {r}]
  /\ UNCHANGED <<legacy, profiles, outdated, baseUrl, bound, view, was, declared, bounds>>

(* The official key, unless the host has one.                               *)
ImportsOfficial ==
  LET j == job["connect"] IN
  /\ j.at = "official" /\ Goes("connect", "endpoint")
  /\ Sets(IF j.key /\ ~j.relay THEN {Official} ELSE {})
  /\ UNCHANGED <<legacy, profiles, outdated, baseUrl, bound, view, was, declared, bounds>>

(* The official endpoint, if it is not the default's.                       *)
ImportsEndpoint ==
  LET j == job["connect"] IN
  /\ j.at = "endpoint" /\ Goes("connect", "clear")
  /\ baseUrl' = IF DeepSeek \in Namespaces /\ legacy.url = "mirror" /\ j.url = "none"
                THEN "mirror" ELSE baseUrl
  /\ UNCHANGED <<legacy, profiles, outdated, keys, bound, view, history, bounds>>

(* Mutant of Clears: what older builds left goes as soon as it was read.    *)
ClearsAtOnce ==
  /\ job["connect"].at \in {"compare", "clear"}
  /\ legacy' = [providers |-> {}, key |-> FALSE, url |-> "none"]
  /\ IF job["connect"].at = "compare" THEN UNCHANGED job ELSE Goes("connect", "defaults")
  /\ UNCHANGED <<host, bound, view, history, bounds>>

(* Three writes, in this order; any of them may be the last.                *)
Clears ==
  /\ job["connect"].at = "clear"
  /\ CASE legacy.providers # {} -> legacy' = [legacy EXCEPT !.providers = {}] /\ UNCHANGED job
       [] legacy.providers = {} /\ job["connect"].key ->
            legacy' = [legacy EXCEPT !.key = FALSE] /\ job' = [job EXCEPT !["connect"].key = FALSE]
       [] OTHER -> legacy' = [legacy EXCEPT !.url = "none"] /\ Goes("connect", "defaults")
  /\ UNCHANGED <<host, bound, view, history, bounds>>

(* migrateOfficialDefaults: an endpoint that is the old default goes.       *)
AdoptsDefaults ==
  /\ job["connect"].at = "defaults" /\ Goes("connect", "refresh")
  /\ baseUrl' = IF DeepSeek \in Namespaces /\ baseUrl = "root" THEN "none" ELSE baseUrl
  /\ UNCHANGED <<legacy, profiles, outdated, keys, bound, view, history, bounds>>

-----------------------------------------------------------------------------
(* refresh(): the lists, then the keys; the later answer wins.              *)

Refreshes(p) ==
  /\ job[p].at = "refresh" /\ bound
  /\ job' = [job EXCEPT ![p] = [Idle EXCEPT !.at = "read", !.seen = profiles]]
  /\ UNCHANGED <<legacy, host, bound, view, history, bounds>>

Refreshed(p) ==
  /\ job[p].at = "read" /\ Drops(p)
  /\ view' = {r \in Routes : job[p].seen[r].there}
  /\ UNCHANGED <<legacy, host, bound, history, bounds>>

-----------------------------------------------------------------------------
(* apply() and remove(), asked for in the settings form.                    *)

UserAsks(at) ==
  /\ bound /\ job["user"] = Idle /\ user < MaxUser /\ user' = user + 1
  /\ \E r \in Routes \cup {Official} : \E key \in BOOLEAN :
       /\ at = "remove" => r \in view /\ ~key
       /\ job' = [job EXCEPT !["user"] = [@ EXCEPT !.at = at, !.route = r, !.key = key]]
  /\ UNCHANGED <<legacy, host, bound, view, history, connects, others, faults>>

(* namespace(): the profile and the revision the mutation will be based on. *)
ReadsNamespace(at, next) ==
  LET j == job["user"] IN
  /\ j.at = at /\ bound
  /\ IF PiAi \in Namespaces \/ j.route = Official
     THEN job' = [job EXCEPT !["user"].at = next, !["user"].seen = profiles] /\ ReadBy("user")
     ELSE Drops("user") /\ UNCHANGED outdated
  /\ UNCHANGED <<legacy, profiles, keys, baseUrl, bound, view, history, bounds>>

(* Mutant of Edited: a key is added and the keyless header is left.         *)
EditedHeaderLeft(old, key, existing) ==
  IF existing THEN [there |-> TRUE, keyed |-> old.keyed \/ key, header |-> old.header]
  ELSE IF key THEN Keyed ELSE Keyless

(* The profile after the form: a new one is written whole, one the service  *)
(* knows of gets its fields set, and a key replaces the keyless header.     *)
Edited(old, key, existing) ==
  IF existing THEN [there |-> TRUE, keyed |-> old.keyed \/ key, header |-> old.header /\ ~key]
  ELSE IF key THEN Keyed ELSE Keyless

Applies ==
  LET j == job["user"]  r == j.route IN
  /\ j.at = "write"
  /\ CASE r = Official -> Goes("user", "key") /\ UNCHANGED <<profiles, outdated, declared>>
       [] r # Official /\ "user" \in outdated -> Drops("user") /\ UNCHANGED <<profiles, outdated, declared>>
       [] OTHER ->
            /\ job' = [job EXCEPT !["user"].at = "key", !["user"].seen = Unread]
            /\ Mutates([profiles EXCEPT ![r] = Edited(j.seen[r], j.key, r \in view)])
  /\ UNCHANGED <<legacy, keys, baseUrl, bound, view, was, held, bounds>>

AppliesKey ==
  /\ job["user"].at = "key" /\ Goes("user", "refresh")
  /\ Sets(IF job["user"].key THEN {job["user"].route} ELSE {})
  /\ UNCHANGED <<legacy, profiles, outdated, baseUrl, bound, view, was, declared, bounds>>

(* The profile goes first, the key after it.                                *)
Removes ==
  LET j == job["user"] IN
  /\ j.at = "unset"
  /\ IF "user" \in outdated THEN Drops("user") /\ UNCHANGED <<profiles, outdated, declared>>
     ELSE /\ job' = [job EXCEPT !["user"].at = "forget", !["user"].seen = Unread]
          /\ Mutates([profiles EXCEPT ![j.route] = NoProfile])
  /\ UNCHANGED <<legacy, keys, baseUrl, bound, view, was, held, bounds>>

ForgetsKey ==
  /\ job["user"].at = "forget" /\ Goes("user", "refresh")
  /\ keys' = keys \ {job["user"].route}
  /\ UNCHANGED <<legacy, profiles, outdated, baseUrl, bound, view, history, bounds>>

(* The user clears the official key, and with it what an older build left.  *)
ClearsOfficialKey ==
  /\ bound /\ job["user"] = Idle /\ user < MaxUser /\ user' = user + 1
  /\ keys' = keys \ {Official} /\ Goes("user", "refresh")
  /\ legacy' = [legacy EXCEPT !.key = FALSE] /\ was' = [was EXCEPT !.key = FALSE]
  /\ UNCHANGED <<profiles, outdated, baseUrl, bound, view, held, declared, connects, others, faults>>

(* A key entered while there is no connection waits for the next import.    *)
StoresKey ==
  /\ ~bound /\ user < MaxUser /\ user' = user + 1
  /\ legacy' = [legacy EXCEPT !.key = TRUE] /\ was' = [was EXCEPT !.key = TRUE]
  /\ UNCHANGED <<host, bound, view, job, held, declared, connects, others, faults>>

(* Another window edits a profile.                                          *)
OtherWrites(r) ==
  /\ PiAi \in Namespaces /\ others < MaxOthers /\ others' = others + 1
  /\ \E profile \in {NoProfile, Keyed, Keyless} \ {profiles[r]} :
       Mutates([profiles EXCEPT ![r] = profile])
  /\ UNCHANGED <<legacy, keys, baseUrl, bound, view, job, was, held, connects, user, faults>>

Next ==
  \/ Connect \/ Disconnect \/ Describes \/ Compares \/ Declares \/ SetsKeys \/ ImportsOfficial
  \/ ImportsEndpoint \/ Clears \/ AdoptsDefaults
  \/ \E p \in DOMAIN job : Refreshes(p) \/ Refreshed(p) \/ Fails(p)
  \/ UserAsks("apply") \/ UserAsks("remove")
  \/ ReadsNamespace("apply", "write") \/ ReadsNamespace("remove", "unset")
  \/ Applies \/ AppliesKey \/ Removes \/ ForgetsKey \/ ClearsOfficialKey \/ StoresKey
  \/ \E r \in Routes : OtherWrites(r)

Spec == Init /\ [][Next]_vars

-----------------------------------------------------------------------------
(* What older builds left is cleared only when the host was given it: each  *)
(* provider's profile and key, the other key under the reference of the     *)
(* endpoint it was for, and the profile of that endpoint.  Failures,        *)
(* disconnections and repeated imports included.                            *)
LegacyHandedOver ==
  /\ was.providers \ legacy.providers \subseteq held \cap declared
  /\ was.key /\ ~legacy.key => held \cap {Relay, Official} # {}
  /\ was.url = "relay" /\ legacy.url = "none" => Relay \in declared

(* A profile never has both a key and the header that says there is none.   *)
OneAuthorization == \A r \in Routes : ~(profiles[r].keyed /\ profiles[r].header)

(* No key is lost in the import, and none is hidden by the keyless header.  *)
KeysInPlace == LegacyHandedOver /\ OneAuthorization
==============================================================================
