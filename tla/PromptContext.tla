--------------------------- MODULE PromptContext ---------------------------
(***************************************************************************)
(* What goes with a prompt: the editor selections the host remembers        *)
(* (EditorSelectionService), the chips of the webview                       *)
(* (webview/editor-context) and the handler of sendPrompt that turns the    *)
(* ids of the chips into attachments (view-messages.ts).                    *)
(***************************************************************************)
EXTENDS Naturals, Sequences, FiniteSets, SequencesExt

CONSTANTS
  Selections,  \* selections of editors, by their digest
  Files,       \* files of the workspace
  MaxCached,   \* MAX_CACHED_SELECTIONS
  MaxAttached, \* MAX_ATTACHED_FILES
  MaxMoves,    \* bound: changes of the editor selection, the setting and the files
  MaxClicks    \* bound: steps of the user in the webview

ContextAssumption ==
  /\ "none" \notin Selections /\ MaxCached \in Nat \ {0} /\ MaxAttached \in Nat \ {0}
  /\ MaxMoves \in Nat /\ MaxClicks \in Nat

VARIABLES
  selection, \* of the active editor
  due,       \* publishTimer
  cache,     \* cached, oldest first
  newer,     \* per selection those captured since it last was (history)
  auto,      \* autoAttachSelection
  disk,      \* files there are
  toWeb,     \* editorSelection and state messages on the way
  available, staged, ignored, autoAttach, attachRequested, files, \* the chips
  toHost,    \* attachSelection and sendPrompt messages on the way
  reading,   \* prompts whose files are read
  prompts,   \* prompts the gateway got, with the chips they were sent under (history)
  declined,  \* a selection whose chip the user removed and did not ask for since (history)
  moves, clicks

editor == <<selection, due>>
memory == <<cache, newer>>
chips == <<available, staged, ignored, autoAttach, attachRequested, files>>
host == <<auto, disk>>
vars ==
  <<editor, memory, host, toWeb, chips, toHost, reading, prompts, declined, moves, clicks>>

Init ==
  /\ selection = "none" /\ due = FALSE /\ cache = <<>> /\ newer = [s \in Selections |-> {}]
  /\ auto \in BOOLEAN /\ disk = Files /\ toWeb = <<>>
  /\ available = "none" /\ staged = "none" /\ ignored = "none" /\ autoAttach = auto
  /\ attachRequested = FALSE /\ files = <<>> /\ toHost = <<>> /\ reading = {} /\ prompts = {}
  /\ declined = "none" /\ moves = 0 /\ clicks = 0

-----------------------------------------------------------------------------
(* EditorSelectionService.                                                  *)

LastOf(s, n) == SubSeq(s, IF Len(s) > n THEN Len(s) - n + 1 ELSE 1, Len(s))

(* Mutant of Remembered: a selection captured again keeps its old place.    *)
RememberedInPlace(c, s) ==
  IF \E i \in DOMAIN c : c[i] = s THEN c ELSE LastOf(Append(c, s), MaxCached)

(* The cache once s is captured: newest last, the oldest give way.          *)
Place(c, s) == CHOOSE i \in DOMAIN c : c[i] = s
Forgotten(c, s) == IF Contains(c, s) THEN RemoveAt(c, Place(c, s)) ELSE c
Remembered(c, s) == LastOf(Append(Forgotten(c, s), s), MaxCached)

(* current: captures the selection of the active editor.                    *)
Captures ==
  IF selection = "none" THEN UNCHANGED memory
  ELSE /\ cache' = Remembered(cache, selection)
       /\ newer' = [s \in Selections |-> IF s = selection THEN {} ELSE newer[s] \cup {selection}]

PostsSelection == Captures /\ toWeb' = Append(toWeb, [kind |-> "selection", value |-> selection])

(* The selection, the editor or its document changes: a publish is due.     *)
Selects(s) ==
  /\ moves < MaxMoves /\ moves' = moves + 1
  /\ selection' = s /\ due' = TRUE
  /\ UNCHANGED <<memory, host, toWeb, chips, toHost, reading, prompts, declined, clicks>>

Publishes ==
  /\ due /\ due' = FALSE /\ PostsSelection
  /\ UNCHANGED <<selection, host, chips, toHost, reading, prompts, declined, moves, clicks>>

-----------------------------------------------------------------------------
(* The chips.                                                               *)

(* Mutant of Staging: a removed chip is not remembered.                     *)
StagingAlways(s) ==
  s # "none" /\ (attachRequested \/ (s # available /\ autoAttach))

(* updateSelection stages what was asked for, or what is new if every       *)
(* selection is attached and this one was not declined.                     *)
Staging(s) ==
  s # "none" /\ (attachRequested \/ (s # available /\ autoAttach /\ s # ignored))

ShowsSelection ==
  /\ toWeb # <<>> /\ Head(toWeb).kind = "selection" /\ toWeb' = Tail(toWeb)
  /\ LET s == Head(toWeb).value IN
       /\ available' = s /\ staged' = IF Staging(s) THEN s ELSE staged
       /\ declined' = IF attachRequested THEN "none" ELSE declined
  /\ attachRequested' = FALSE
  /\ UNCHANGED <<editor, memory, host, ignored, autoAttach, files, toHost, reading, prompts, moves,
                 clicks>>

(* A state message: setAutoAttach.                                          *)
ShowsSetting ==
  /\ toWeb # <<>> /\ Head(toWeb).kind = "auto" /\ toWeb' = Tail(toWeb)
  /\ LET enabled == Head(toWeb).value IN
       /\ autoAttach' = enabled
       /\ staged' = IF enabled /\ ~autoAttach /\ available \notin {"none", ignored} THEN available
                    ELSE staged
       /\ declined' = IF enabled = autoAttach THEN declined ELSE "none"
  /\ UNCHANGED <<editor, memory, host, available, ignored, attachRequested, files, toHost, reading,
                 prompts, moves, clicks>>

UserStep == clicks < MaxClicks /\ clicks' = clicks + 1

(* The attach button: the selection known, or one the host is asked for.    *)
Attaches ==
  /\ UserStep
  /\ IF available = "none"
     THEN /\ attachRequested' = TRUE /\ toHost' = Append(toHost, [kind |-> "attach"])
          /\ UNCHANGED <<staged, ignored>>
     ELSE staged' = available /\ ignored' = "none" /\ UNCHANGED <<attachRequested, toHost>>
  /\ declined' = "none"
  /\ UNCHANGED <<editor, memory, host, toWeb, available, autoAttach, files, reading, prompts,
                 moves>>

Removes ==
  /\ UserStep /\ staged # "none" /\ ignored' = staged /\ staged' = "none"
  /\ declined' = IF attachRequested THEN "none" ELSE staged
  /\ UNCHANGED <<editor, memory, host, toWeb, available, autoAttach, attachRequested, files, toHost,
                 reading, prompts, moves>>

(* addFile of a file chosen in the @ menu, and the removal of its chip.     *)
AddsFile(f) ==
  /\ UserStep /\ ~Contains(files, f) /\ files' = LastOf(Append(files, f), MaxAttached)
  /\ UNCHANGED <<editor, memory, host, toWeb, available, staged, ignored, autoAttach, attachRequested,
                 toHost, reading, prompts, declined, moves>>
RemovesFile(f) ==
  /\ UserStep /\ Contains(files, f) /\ files' = Forgotten(files, f)
  /\ UNCHANGED <<editor, memory, host, toWeb, available, staged, ignored, autoAttach, attachRequested,
                 toHost, reading, prompts, declined, moves>>

(* markSubmitted: unless every selection is attached the chip goes, too.    *)
ChipsSubmitted ==
  /\ files' = <<>>
  /\ IF autoAttach THEN UNCHANGED <<staged, ignored, declined>>
     ELSE ignored' = staged /\ staged' = "none" /\ declined' = "none"
  /\ UNCHANGED <<available, autoAttach, attachRequested>>

(* sendPrompt of the webview, with the ids of its chips.                    *)
Sends ==
  /\ UserStep
  /\ toHost' = Append(toHost, [kind |-> "send", selection |-> staged, files |-> ToSet(files)])
  /\ ChipsSubmitted
  /\ UNCHANGED <<editor, memory, host, toWeb, reading, prompts, moves>>

(* The button of a new session.                                             *)
NewSession ==
  /\ UserStep /\ (staged # "none" \/ files # <<>>) /\ ChipsSubmitted
  /\ UNCHANGED <<editor, memory, host, toWeb, toHost, reading, prompts, moves>>

-----------------------------------------------------------------------------
(* The handlers of the host.                                                *)

HostAttaches ==
  /\ toHost # <<>> /\ Head(toHost).kind = "attach" /\ toHost' = Tail(toHost) /\ PostsSelection
  /\ UNCHANGED <<editor, host, chips, reading, prompts, declined, moves, clicks>>

(* sendPrompt looks the selection up at once and then awaits the files; a   *)
(* selection the cache has dropped is left out without a word.              *)
HostTakesPrompt ==
  /\ toHost # <<>> /\ Head(toHost).kind = "send" /\ toHost' = Tail(toHost)
  /\ LET p == Head(toHost) IN
       reading' = reading \cup
         {[sent |-> p, selection |-> IF Contains(cache, p.selection) THEN p.selection ELSE "none",
           displaced |-> p.selection # "none" /\ Cardinality(newer[p.selection]) >= MaxCached]}
  /\ UNCHANGED <<editor, memory, host, toWeb, chips, prompts, declined, moves, clicks>>

(* The files are read and the gateway has the prompt; one that is gone      *)
(* fails it as a whole.                                                     *)
Delivers(r) ==
  /\ r \in reading /\ reading' = reading \ {r}
  /\ prompts' = IF r.sent.files \subseteq disk
                THEN prompts \cup {[sent |-> r.sent, selection |-> r.selection, files |-> r.sent.files,
                                    displaced |-> r.displaced]}
                ELSE prompts
  /\ UNCHANGED <<editor, memory, host, toWeb, chips, toHost, declined, moves, clicks>>

SettingChanges ==
  /\ moves < MaxMoves /\ moves' = moves + 1
  /\ auto' = ~auto /\ toWeb' = Append(toWeb, [kind |-> "auto", value |-> ~auto])
  /\ UNCHANGED <<editor, memory, disk, chips, toHost, reading, prompts, declined, clicks>>

FileGoes(f) ==
  /\ moves < MaxMoves /\ moves' = moves + 1 /\ disk' = disk \ {f}
  /\ UNCHANGED <<editor, memory, auto, toWeb, chips, toHost, reading, prompts, declined, clicks>>

Next ==
  \/ \E s \in (Selections \cup {"none"}) \ {selection} : Selects(s)
  \/ Publishes \/ ShowsSelection \/ ShowsSetting
  \/ Attaches \/ Removes \/ \E f \in Files : AddsFile(f) \/ RemovesFile(f)
  \/ Sends \/ NewSession \/ HostAttaches \/ HostTakesPrompt \/ \E r \in reading : Delivers(r)
  \/ SettingChanges \/ \E f \in disk : FileGoes(f)

Spec == Init /\ [][Next]_vars

-----------------------------------------------------------------------------
(* A prompt carries what its chips said: every file, and the selection      *)
(* unless MaxCached others were captured after it.                          *)
PromptCarriesChips ==
  \A p \in prompts :
    /\ p.files = p.sent.files
    /\ p.selection = p.sent.selection \/ (p.selection = "none" /\ p.displaced)

(* A chip the user removed stays away until the user asks for it, sends or  *)
(* changes the setting, whatever the editor publishes meanwhile.            *)
RemovedStaysOff == declined # "none" => staged # declined

ContextTravels == PromptCarriesChips /\ RemovedStaysOff
=============================================================================
