----------------------------- MODULE SessionImport -----------------------------
(***************************************************************************)
(* Importing sessions from files (import/session-import-service.ts): the    *)
(* importer plugin made ready, archives inspected and unpacked into         *)
(* temporary directories (import/session-archive.ts), the import by the     *)
(* runtime, and the directories removed.                                    *)
(*                                                                          *)
(* An archive is the sequence of its entries; a name is what follows a      *)
(* possible "./".  The layout of the ZIP itself is left out.                *)
(***************************************************************************)
EXTENDS Naturals, Sequences, FiniteSets, FiniteSetsExt, SequencesExt

CONSTANTS
  SessionNames,      \* entry names that are or end with session.jsonl
  ConversationNames, \* entry names that are or end with conversations.json
  Archives,          \* the archives a user may pick
  MaxEntrySize, MaxTotalSize, \* MAX_ENTRY_BYTES, MAX_ARCHIVE_BYTES
  MaxImports,        \* bound: imports started
  MaxFaults          \* bound: calls and writes that fail, crashes

ImportAssumption ==
  /\ SessionNames \cap ConversationNames = {} /\ <<>> \notin Archives
  /\ {MaxEntrySize, MaxTotalSize, MaxImports, MaxFaults} \subseteq Nat

VARIABLES
  plugin,    \* the importer: absent, disabled, unloaded (until a reload), ready
  op,        \* the import under way: [at, targets, items, dirs, files left to write]
  tempDirs,  \* temporary directories on disk: [id, files]
  left,      \* history: directories a crash or a failing rm left behind
  asked,     \* history: [item, there] of the files the runtime was sent to
  made, imports, faults

vars == <<plugin, op, tempDirs, left, asked, made, imports, faults>>

Loose == <<>> \* a transcript or a folder: the runtime finds its sessions
NoOp == [at |-> "idle", targets |-> <<>>, items |-> {}, dirs |-> {}, files |-> {}]

Init ==
  /\ plugin \in {"absent", "disabled", "ready"} /\ op = NoOp
  /\ tempDirs = {} /\ left = {} /\ asked = {} /\ made = 0 /\ imports = 0 /\ faults = 0

Faulty == faults < MaxFaults /\ faults' = faults + 1
Goes(at) == op' = [op EXCEPT !.at = at]

-----------------------------------------------------------------------------
(* Archives.                                                                *)

NamesOf(archive) == {archive[i].name : i \in DOMAIN archive}

Kind(archive) ==
  CASE NamesOf(archive) \cap SessionNames # {} -> "dsh"
    [] NamesOf(archive) \cap SessionNames = {} /\ NamesOf(archive) \cap ConversationNames # {} -> "chatgpt"
    [] OTHER -> "unknown"

Earliest(positions) == {i \in positions : \A j \in positions : i <= j}

(* Every session of a DSH export; of a ChatGPT export the file at its root, *)
(* or else the first below it.                                              *)
Conversations(archive) ==
  LET found == {i \in DOMAIN archive : archive[i].name \in ConversationNames}
      atRoot == {i \in found : archive[i].root}
  IN {archive[i].name : i \in Earliest(IF atRoot # {} THEN atRoot ELSE found)}

Wanted(archive) ==
  CASE Kind(archive) = "dsh" -> NamesOf(archive) \cap SessionNames
    [] Kind(archive) = "chatgpt" -> Conversations(archive)
    [] OTHER -> {}

(* Mutant of Kept: the name as it stands in the archive is compared.        *)
KeptRaw(archive) ==
  {i \in DOMAIN archive : archive[i].name \in Wanted(archive) /\ ~archive[i].dotted}

(* The positions of the entries that are extracted.                         *)
Kept(archive) == {i \in DOMAIN archive : archive[i].name \in Wanted(archive)}

Fits(archive, positions) ==
  /\ \A i \in positions : archive[i].size <= MaxEntrySize
  /\ MapThenSumSet(LAMBDA i : archive[i].size, positions) <= MaxTotalSize

-----------------------------------------------------------------------------
(* The importer plugin.                                                     *)

Begins ==
  /\ op = NoOp /\ imports < MaxImports /\ imports' = imports + 1
  /\ \E targets \in SeqOf(Archives \cup {Loose}, 2) \ {<<>>} :
       op' = [NoOp EXCEPT !.at = "prepare", !.targets = targets]
  /\ UNCHANGED <<plugin, tempDirs, left, asked, made, faults>>

(* Installed and enabled, or else not now: the user declines, or the change *)
(* asks for a reload first.                                                 *)
Prepares ==
  /\ op.at = "prepare"
  /\ plugin' \in (CASE plugin = "absent" -> {"absent", "unloaded", "ready"}
                    [] plugin = "disabled" -> {"unloaded", "ready"}
                    [] OTHER -> {plugin})
  /\ IF plugin' = "absent" \/ (plugin' = "unloaded" /\ plugin # "unloaded")
     THEN op' = NoOp ELSE Goes("targets")
  /\ UNCHANGED <<tempDirs, left, asked, made, imports, faults>>

-----------------------------------------------------------------------------
(* The targets, one after another.                                          *)

Ends == op' = [op EXCEPT !.at = "clean"]

(* The runtime looks for the sessions of a path; none is an error.          *)
Discovers ==
  /\ op.at = "targets" /\ op.targets # <<>> /\ Head(op.targets) = Loose
  /\ \/ op' = [op EXCEPT !.targets = Tail(@), !.items = @ \cup {[dir |-> 0, name |-> "path"]}]
     \/ Ends
  /\ UNCHANGED <<plugin, tempDirs, left, asked, made, imports, faults>>

(* Inspected, extracted into memory, and a directory made for the files.    *)
Unpacks ==
  /\ op.at = "targets" /\ op.targets # <<>> /\ Head(op.targets) \in Archives
  /\ LET archive == Head(op.targets)  dir == made + 1 IN
     IF Wanted(archive) = {} \/ ~Fits(archive, Kept(archive))
     THEN Ends /\ UNCHANGED <<tempDirs, made>>
     ELSE /\ made' = dir /\ tempDirs' = tempDirs \cup {[id |-> dir, files |-> {}]}
          /\ op' = [op EXCEPT !.at = "write", !.dirs = @ \cup {dir}, !.files = Kept(archive)]
  /\ UNCHANGED <<plugin, left, asked, imports, faults>>

WritesFile ==
  /\ op.at = "write"
  /\ \E i \in Earliest(op.files) :
       /\ tempDirs' = {IF d.id = made THEN [d EXCEPT !.files = @ \cup {Head(op.targets)[i].name}]
                       ELSE d : d \in tempDirs}
       /\ op' = [op EXCEPT !.files = @ \ {i}]
  /\ UNCHANGED <<plugin, left, asked, made, imports, faults>>

Unpacked ==
  /\ op.at = "write" /\ op.files = {}
  /\ op' = [op EXCEPT !.at = "targets", !.targets = Tail(@),
              !.items = @ \cup {[dir |-> made, name |-> n] : n \in Wanted(Head(op.targets))}]
  /\ UNCHANGED <<plugin, tempDirs, left, asked, made, imports, faults>>

(* One call for all items, then the list of sessions is read again.         *)
Imports ==
  /\ op.at = "targets" /\ op.targets = <<>> /\ Ends
  /\ asked' = asked \cup {[item |-> i, there |-> i.dir = 0
                             \/ \E d \in tempDirs : d.id = i.dir /\ i.name \in d.files] : i \in op.items}
  /\ UNCHANGED <<plugin, tempDirs, left, made, imports, faults>>

(* Any step may throw; the directories go in any case.                      *)
Fails ==
  /\ op.at \in {"prepare", "targets", "write"} /\ Faulty /\ Ends
  /\ UNCHANGED <<plugin, tempDirs, left, asked, made, imports>>

CleansUp ==
  /\ op.at = "clean" /\ op' = NoOp
  /\ \/ /\ tempDirs' = {d \in tempDirs : d.id \notin op.dirs} /\ UNCHANGED <<left, faults>>
     \/ /\ Faulty /\ left' = left \cup op.dirs /\ UNCHANGED tempDirs
  /\ UNCHANGED <<plugin, asked, made, imports>>

Crash ==
  /\ op # NoOp /\ Faulty /\ op' = NoOp /\ left' = left \cup op.dirs
  /\ UNCHANGED <<plugin, tempDirs, asked, made, imports>>

Next ==
  \/ Begins \/ Prepares \/ Discovers \/ Unpacks \/ WritesFile \/ Unpacked \/ Imports \/ Fails
  \/ CleansUp \/ Crash

Spec == Init /\ [][Next]_vars

-----------------------------------------------------------------------------
(* The runtime is only sent to files that were extracted: what the listing  *)
(* of an archive promises and what its extraction keeps agree.              *)
ItemsExist == \A a \in asked : a.there

(* A temporary directory belongs to the import under way or was left by a   *)
(* crash or a failing removal, whatever failed while it was filled.         *)
TempDirsGone == \A d \in tempDirs : d.id \in op.dirs \cup left

ArchivesImported == ItemsExist /\ TempDirsGone
==============================================================================
