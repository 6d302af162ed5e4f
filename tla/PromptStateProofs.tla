--------------------------- MODULE PromptStateProofs ---------------------------
(***************************************************************************)
(* Proofs about PromptState: what holds of a component by itself holds in   *)
(* the composition, where one component steps and the others rest.          *)
(***************************************************************************)
EXTENDS PromptState, FiniteSetTheorems, SequenceTheorems, TLAPS

-----------------------------------------------------------------------------
(* Sequences.                                                               *)

(* What is left of a queue once its head is taken.                          *)
LEMMA TailOf ==
  ASSUME NEW S, NEW s \in Seq(S), s # <<>>
  PROVE  /\ Tail(s) \in Seq(S) /\ 1 \in DOMAIN s /\ Head(s) = s[1] /\ Head(s) \in S
         /\ Len(Tail(s)) = Len(s) - 1 /\ Len(s) \in Nat \ {0}
         /\ \A i \in DOMAIN Tail(s) :
              i \in Nat /\ i + 1 # 1 /\ i + 1 \in DOMAIN s /\ Tail(s)[i] = s[i + 1]
         /\ \A i \in DOMAIN s : i = 1 \/ (i - 1 \in DOMAIN Tail(s) /\ Tail(s)[i - 1] = s[i])
PROOF
<1>1. /\ Tail(s) \in Seq(S) /\ Head(s) = s[1] /\ Len(Tail(s)) = Len(s) - 1 /\ Len(s) \in Nat \ {0}
      /\ DOMAIN s = 1..Len(s) /\ DOMAIN Tail(s) = 1..Len(Tail(s))
      /\ \A i \in 1..Len(Tail(s)) : Tail(s)[i] = s[i + 1]
  BY HeadTailProperties, LenProperties
<1>2. \A i \in DOMAIN Tail(s) :
        i \in Nat /\ i + 1 # 1 /\ i + 1 \in DOMAIN s /\ Tail(s)[i] = s[i + 1]
  BY <1>1
<1>3. \A i \in DOMAIN s : i = 1 \/ (i - 1 \in DOMAIN Tail(s) /\ Tail(s)[i - 1] = s[i])
  BY <1>1
<1>4. 1 \in DOMAIN s /\ s[1] \in S
  BY <1>1, ElementOfSeq
<1> QED
  BY <1>1, <1>2, <1>3, <1>4

(* A queue with an element more.                                            *)
LEMMA AppendOf ==
  ASSUME NEW S, NEW s \in Seq(S), NEW x \in S
  PROVE  /\ Append(s, x) \in Seq(S) /\ Append(s, x) # <<>> /\ Len(Append(s, x)) = Len(s) + 1
         /\ \A i \in DOMAIN s : i \in DOMAIN Append(s, x) /\ Append(s, x)[i] = s[i]
         /\ \A i \in DOMAIN Append(s, x) : i \in DOMAIN s \/ i = Len(s) + 1
         /\ Len(s) + 1 \in DOMAIN Append(s, x) /\ Append(s, x)[Len(s) + 1] = x
         /\ Len(s) \in Nat /\ Len(s) + 1 \notin DOMAIN s
PROOF BY AppendProperties, LenProperties

(* A queue with an element less.                                            *)
Shortened(s, k) == SubSeq(s, 1, k - 1) \o SubSeq(s, k + 1, Len(s))

LEMMA ShortenedIs ==
  ASSUME NEW S, NEW s \in Seq(S), NEW k \in DOMAIN s
  PROVE  /\ Shortened(s, k) \in Seq(S) /\ Len(Shortened(s, k)) = Len(s) - 1 /\ Len(s) \in Nat
         /\ k \in 1..Len(s)
         /\ \A i \in DOMAIN Shortened(s, k) :
              i \in Nat /\ Shortened(s, k)[i] = IF i < k THEN s[i] ELSE s[i + 1]
PROOF
<1> DEFINE r == Shortened(s, k)
<1>0. r = SubSeq(s, 1, k - 1) \o SubSeq(s, k + 1, Len(s))
  BY DEF Shortened
<1> HIDE DEF r
<1>1. Len(s) \in Nat /\ k \in 1..Len(s)
  BY LenProperties
<1>2. PICK p : p = SubSeq(s, 1, k - 1)
  OBVIOUS
<1>3. PICK q : q = SubSeq(s, k + 1, Len(s))
  OBVIOUS
<1>4. p \in Seq(S) /\ Len(p) = k - 1 /\ \A i \in 1..(k - 1) : p[i] = s[i]
  BY <1>1, <1>2, SubSeqProperties
<1>5. q \in Seq(S) /\ Len(q) = Len(s) - k /\ \A i \in 1..(Len(s) - k) : q[i] = s[k + i]
  BY <1>1, <1>3, SubSeqProperties
<1>6. PICK a \in Nat, b \in Nat : a = Len(p) /\ b = Len(q)
  BY <1>4, <1>5, LenProperties
<1>7. a = k - 1 /\ b = Len(s) - k
  BY <1>4, <1>5, <1>6
<1>8. /\ r \in Seq(S) /\ Len(r) = a + b
      /\ \A i \in 1..(a + b) : r[i] = IF i <= a THEN p[i] ELSE q[i - a]
  <2>1. r = p \o q
    BY <1>0, <1>2, <1>3
  <2>2. Len(p \o q) = a + b
    BY <1>4, <1>5, <1>6, ConcatProperties
  <2>3. \A i \in 1..(a + b) : (p \o q)[i] = IF i <= a THEN p[i] ELSE q[i - a]
    BY <1>4, <1>5, <1>6, ConcatProperties
  <2>4. p \o q \in Seq(S)
    BY <1>4, <1>5, ConcatProperties
  <2> QED
    BY <2>1, <2>2, <2>3, <2>4
<1>9. Len(r) = Len(s) - 1 /\ a + b = Len(s) - 1 /\ k = a + 1
  <2>1. k \in Int /\ Len(s) \in Int
    BY <1>1
  <2>2. k = a + 1
    BY <1>7, <2>1
  <2>3. a + b = Len(s) - 1
    BY <1>7, <2>1
  <2> QED
    BY <1>8, <2>2, <2>3
<1>10. ASSUME NEW i \in DOMAIN r
       PROVE  i \in Nat /\ r[i] = IF i < k THEN s[i] ELSE s[i + 1]
  <2>1. i \in 1..(a + b)
    BY <1>6, <1>8, LenProperties
  <2>2. CASE i <= a
    <3>1. i \in 1..(k - 1) /\ i < k /\ i \in Nat
      BY <1>6, <1>9, <2>1, <2>2
    <3>2. r[i] = p[i]
      BY <1>8, <2>1, <2>2
    <3> QED
      BY <1>4, <3>1, <3>2
  <2>3. CASE ~(i <= a)
    <3>1. i - a \in 1..(Len(s) - k) /\ k + (i - a) = i + 1 /\ ~(i < k) /\ i \in Nat
      BY <1>1, <1>6, <1>9, <2>1, <2>3
    <3>2. r[i] = q[i - a]
      BY <1>8, <2>1, <2>3
    <3>3. q[i - a] = s[k + (i - a)]
      BY <1>5, <3>1
    <3> QED
      BY <3>1, <3>2, <3>3
  <2> QED
    BY <2>2, <2>3
<1> QED
  BY <1>1, <1>8, <1>9, <1>10 DEF r

(* A sequence has its elements in a larger set, too.                        *)
LEMMA WiderSeq ==
  ASSUME NEW S, NEW T, NEW s \in Seq(S)
  PROVE  s \in Seq(S \cup T)
PROOF
<1>1. s \in [1..Len(s) -> S] /\ Len(s) \in Nat
  BY LenProperties, ElementOfSeq
<1>2. s \in [1..Len(s) -> S \cup T]
  BY <1>1
<1> QED
  BY <1>1, <1>2, SeqDef

-----------------------------------------------------------------------------
(* Links to files.                                                          *)

Check == [keys : SUBSET Keys, visit : Nat]
Checking == [keys : SUBSET Keys, visit : Nat, root : LinkSessions]
Checked == [resolved : SUBSET Keys, keys : SUBSET Keys, visit : Nat, root : LinkSessions]

LinksTypeOK ==
  /\ marks \in [Blocks -> [Keys -> {"none", "waiting", "link", "text"}]]
  /\ onScreen \in LinkSessions /\ shown \in LinkSessions /\ visit \in Nat
  /\ verified \subseteq Keys /\ rejected \subseteq Keys /\ candidates \subseteq Keys
  /\ checks \in Seq(Check) /\ checking \subseteq Checking /\ verdicts \in Seq(Checked)

(* A reference whose verdict came from the session before.                  *)
Foreign(k) == <<k, "link">> \in foreign \/ <<k, "text">> \in foreign
Undecided(k) == k \notin verified \cup rejected

(* A placeholder is a candidate of the ledger, and its question is due or   *)
(* was asked.                                                               *)
WaitingIsCandidate ==
  \A b \in Blocks, k \in Keys : marks[b][k] = "waiting" =>
    Undecided(k) /\ k \in candidates /\ (flush \/ k \in unverified)

(* What was asked for the session on screen is under way or failed, ...     *)
AskedIsUnderWay ==
  \A k \in unverified :
    k \in unchecked \/ \E m \in Links!Messages : m.visit = visit /\ k \in m.keys

(* ... and what is under way for it was asked and has no verdict yet.       *)
UnderWayIsAsked ==
  \A m \in Links!Messages : m.visit <= visit /\
    (m.visit = visit => \A k \in m.keys : Foreign(k) \/ (k \in unverified /\ Undecided(k)))

(* Nothing is asked twice.                                                  *)
Apart(m, n) == m.visit = visit /\ n.visit = visit => \A k \in m.keys \cap n.keys : Foreign(k)
AskedOnce ==
  /\ \A i, j \in DOMAIN checks : i # j => Apart(checks[i], checks[j])
  /\ \A c, d \in checking : c # d => Apart(c, d)
  /\ \A i, j \in DOMAIN verdicts : i # j => Apart(verdicts[i], verdicts[j])
  /\ \A i \in DOMAIN checks, c \in checking : Apart(checks[i], c)
  /\ \A i \in DOMAIN checks, j \in DOMAIN verdicts : Apart(checks[i], verdicts[j])
  /\ \A c \in checking, j \in DOMAIN verdicts : Apart(c, verdicts[j])

ResolvedWasAsked == \A i \in DOMAIN verdicts : verdicts[i].resolved \subseteq verdicts[i].keys

LinksInv ==
  /\ LinksTypeOK /\ WaitingIsCandidate /\ AskedIsUnderWay /\ UnderWayIsAsked /\ AskedOnce
  /\ ResolvedWasAsked /\ Links!MarksFollowLedger

LEMMA LinksInit ==
  ASSUME Links!Init
  PROVE  LinksInv
PROOF
<1>1. Links!Messages = {}
  BY DEF Links!Init, Links!Messages
<1> QED
  BY <1>1 DEF Links!Init, Links!Blank, LinksInv, LinksTypeOK, WaitingIsCandidate, AskedIsUnderWay,
     UnderWayIsAsked, AskedOnce, ResolvedWasAsked, Links!MarksFollowLedger

LEMMA RendersKeeps ==
  ASSUME LinksInv, NEW b \in Blocks, NEW K \in SUBSET Keys, Links!Renders(b, K)
  PROVE  LinksInv'
PROOF
<1>1. /\ UNCHANGED <<onScreen, shown, visit, verified, rejected, unverified, checks, checking,
                     verdicts, unchecked, foreign>>
      /\ flush' = TRUE /\ candidates' = candidates \cup (K \ (verified \cup rejected))
      /\ marks' = [marks EXCEPT ![b] = [k \in Keys |-> IF k \in K THEN Links!Verdict(k) ELSE "none"]]
  BY DEF Links!Renders, Links!wires
<1>2. \A c \in Blocks, k \in Keys :
        \/ marks'[c][k] = marks[c][k]
        \/ marks'[c][k] = "none"
        \/ k \in K /\ marks'[c][k] = Links!Verdict(k)
  BY <1>1 DEF LinksInv, LinksTypeOK
<1>3. \A k : Links!Verdict(k)' = Links!Verdict(k) /\ (Foreign(k)' <=> Foreign(k))
             /\ (Undecided(k)' <=> Undecided(k)) /\ (Links!Verdict(k) = "waiting" => Undecided(k))
  BY <1>1 DEF Links!Verdict, Foreign, Undecided
<1>4. LinksTypeOK'
  BY <1>1 DEF LinksInv, LinksTypeOK, Links!Verdict
<1>5. WaitingIsCandidate'
  BY <1>1, <1>2, <1>3 DEF LinksInv, WaitingIsCandidate, Undecided
<1>6. Links!MarksFollowLedger'
  BY <1>1, <1>2, <1>3 DEF LinksInv, Links!MarksFollowLedger
<1>7. Links!Messages' = Links!Messages
  BY <1>1 DEF Links!Messages
<1>8. AskedIsUnderWay' /\ UnderWayIsAsked' /\ AskedOnce' /\ ResolvedWasAsked'
  BY <1>1, <1>3, <1>7 DEF LinksInv, AskedIsUnderWay, UnderWayIsAsked, AskedOnce, Apart, Foreign,
     ResolvedWasAsked
<1> QED
  BY <1>4, <1>5, <1>6, <1>8 DEF LinksInv

LEMMA FlushesKeeps ==
  ASSUME LinksInv, Links!Flushes
  PROVE  LinksInv'
PROOF
<1>1. PICK batch, new : batch = Links!Unasked /\ new = [keys |-> batch, visit |-> visit]
  OBVIOUS
<1>2. /\ UNCHANGED <<onScreen, shown, visit, marks, verified, rejected, candidates, checking,
                     verdicts, unchecked, foreign>>
      /\ ~flush' /\ unverified' = unverified \cup batch
      /\ checks' = IF batch = {} THEN checks ELSE Append(checks, new)
  BY <1>1 DEF Links!Flushes
<1>3. new \in Check /\ new.keys = batch /\ new.visit = visit
      /\ batch = candidates \ (verified \cup rejected \cup unverified)
  BY <1>1 DEF LinksInv, LinksTypeOK, Check, Links!Unasked
<1>4. \A k : (Foreign(k)' <=> Foreign(k)) /\ (Undecided(k)' <=> Undecided(k))
             /\ Links!Verdict(k)' = Links!Verdict(k)
  BY <1>2 DEF Foreign, Undecided, Links!Verdict
<1>5. /\ checks' \in Seq(Check) /\ DOMAIN checks \subseteq DOMAIN checks'
      /\ \A i \in DOMAIN checks' : \/ i \in DOMAIN checks /\ checks'[i] = checks[i]
                                   \/ i = Len(checks) + 1 /\ checks'[i] = new /\ batch # {}
      /\ \A i \in DOMAIN checks : checks'[i] = checks[i]
      /\ batch # {} => \E i \in DOMAIN checks' : checks'[i] = new
  BY <1>2, <1>3 DEF LinksInv, LinksTypeOK
<1>6. /\ Links!Messages \subseteq Links!Messages'
      /\ \A m \in Links!Messages' : m \in Links!Messages \/ m = new
      /\ batch # {} => new \in Links!Messages'
  BY <1>2, <1>5 DEF Links!Messages
<1>7. LinksTypeOK' /\ ResolvedWasAsked' /\ Links!MarksFollowLedger'
  BY <1>2, <1>4, <1>5 DEF LinksInv, LinksTypeOK, ResolvedWasAsked, Links!MarksFollowLedger
<1>8. WaitingIsCandidate'
  BY <1>2, <1>3, <1>4 DEF LinksInv, WaitingIsCandidate, Undecided
<1>9. AskedIsUnderWay'
  BY <1>2, <1>3, <1>6 DEF LinksInv, AskedIsUnderWay
<1>10. UnderWayIsAsked'
  <2>1. visit \in Nat
    BY DEF LinksInv, LinksTypeOK
  <2> QED
    BY <1>2, <1>3, <1>4, <1>6, <2>1 DEF LinksInv, UnderWayIsAsked, Undecided
<1>11. \A m \in Links!Messages : Apart(m, new)' /\ Apart(new, m)'
  BY <1>2, <1>3, <1>4 DEF LinksInv, UnderWayIsAsked, Apart
<1>12. AskedOnce'
  <2>1. \A m, n : Apart(m, n) => Apart(m, n)'
    BY <1>2, <1>4 DEF Apart
  <2>2. /\ \A i \in DOMAIN checks : checks[i] \in Links!Messages
        /\ \A c \in checking : c \in Links!Messages
        /\ \A i \in DOMAIN verdicts : verdicts[i] \in Links!Messages
    BY DEF Links!Messages
  <2> QED
    BY <1>2, <1>5, <1>11, <2>1, <2>2 DEF LinksInv, AskedOnce
<1> QED
  BY <1>7, <1>8, <1>9, <1>10, <1>12 DEF LinksInv

LEMMA HostTakesKeeps ==
  ASSUME LinksInv, Links!HostTakes
  PROVE  LinksInv'
PROOF
<1>1. PICK h, new : h = Head(checks) /\ new = [keys |-> h.keys, visit |-> h.visit, root |-> onScreen]
  OBVIOUS
<1>2. /\ UNCHANGED <<onScreen, shown, visit, marks, verified, rejected, unverified, candidates,
                     flush, verdicts, unchecked, foreign>>
      /\ checks # <<>> /\ checks' = Tail(checks) /\ checking' = checking \cup {new}
  BY <1>1 DEF Links!HostTakes, Links!webview, Links!ledger
<1>3. /\ checks' \in Seq(Check) /\ h = checks[1] /\ h \in Check
      /\ \A i \in DOMAIN checks' :
           i \in Nat /\ i + 1 # 1 /\ i + 1 \in DOMAIN checks /\ checks'[i] = checks[i + 1]
      /\ \A i \in DOMAIN checks : i = 1 \/ (i - 1 \in DOMAIN checks' /\ checks'[i - 1] = checks[i])
      /\ 1 \in DOMAIN checks
  <2>1. checks \in Seq(Check)
    BY DEF LinksInv, LinksTypeOK
  <2> QED
    BY <1>1, <1>2, <2>1, TailOf
<1>4. new \in Checking /\ new.keys = h.keys /\ new.visit = h.visit
  <2>1. h.keys \in SUBSET Keys /\ h.visit \in Nat /\ onScreen \in LinkSessions
    BY <1>3 DEF LinksInv, LinksTypeOK, Check
  <2> QED
    BY <1>1, <2>1 DEF Checking
<1>5. /\ \A m \in Links!Messages' : m = new \/ m \in Links!Messages
      /\ \A m \in Links!Messages : m = h \/ m \in Links!Messages'
      /\ h \in Links!Messages /\ new \in Links!Messages'
  <2>1. \A i \in DOMAIN checks' : checks'[i] \in {checks[j] : j \in DOMAIN checks}
    BY <1>3
  <2>2. \A i \in DOMAIN checks : checks[i] = h \/ checks[i] \in {checks'[j] : j \in DOMAIN checks'}
    BY <1>3
  <2> QED
    BY <1>2, <1>3, <2>1, <2>2 DEF Links!Messages
<1>6. \A k : (Foreign(k)' <=> Foreign(k)) /\ (Undecided(k)' <=> Undecided(k))
             /\ Links!Verdict(k)' = Links!Verdict(k)
  BY <1>2 DEF Foreign, Undecided, Links!Verdict
<1>7. LinksTypeOK' /\ ResolvedWasAsked' /\ Links!MarksFollowLedger' /\ WaitingIsCandidate'
  BY <1>2, <1>3, <1>4, <1>6 DEF LinksInv, LinksTypeOK, ResolvedWasAsked, Links!MarksFollowLedger,
     WaitingIsCandidate
<1>8. AskedIsUnderWay'
  BY <1>2, <1>4, <1>5 DEF LinksInv, AskedIsUnderWay
<1>9. UnderWayIsAsked'
  BY <1>2, <1>4, <1>5, <1>6 DEF LinksInv, UnderWayIsAsked
<1>10. \A m, n : Apart(m, n)' <=> Apart(m, n)
  BY <1>2, <1>6 DEF Apart
<1>11. \A m : (Apart(h, m) => Apart(new, m) /\ Apart(m, new))
       /\ (Apart(m, h) => Apart(m, new) /\ Apart(new, m))
  BY <1>4 DEF Apart
<1>12. AskedOnce'
  BY <1>2, <1>3, <1>10, <1>11 DEF LinksInv, AskedOnce
<1> QED
  BY <1>7, <1>8, <1>9, <1>12 DEF LinksInv

LEMMA HostAnswersKeeps ==
  ASSUME LinksInv, NEW c \in checking, Links!HostAnswers(c)
  PROVE  LinksInv'
PROOF
<1>1. PICK new : new = [resolved |-> c.keys \cap found[c.root], keys |-> c.keys,
                        visit |-> c.visit, root |-> c.root]
  OBVIOUS
<1>2. /\ UNCHANGED <<onScreen, shown, visit, marks, verified, rejected, unverified, candidates,
                     flush, checks, unchecked, foreign>>
      /\ verdicts' = Append(verdicts, new) /\ checking' = checking \ {c}
  BY <1>1 DEF Links!HostAnswers, Links!webview, Links!ledger
<1>3. new \in Checked /\ new.keys = c.keys /\ new.visit = c.visit /\ new.resolved \subseteq new.keys
  <2>1. c \in Checking
    BY DEF LinksInv, LinksTypeOK
  <2> QED
    BY <1>1, <2>1 DEF Checking, Checked
<1>4. /\ verdicts' \in Seq(Checked)
      /\ \A i \in DOMAIN verdicts : i \in DOMAIN verdicts' /\ verdicts'[i] = verdicts[i]
      /\ \A i \in DOMAIN verdicts' : \/ i \in DOMAIN verdicts
                                     \/ i = Len(verdicts) + 1 /\ verdicts'[i] = new
      /\ \E i \in DOMAIN verdicts' : verdicts'[i] = new
  BY <1>2, <1>3 DEF LinksInv, LinksTypeOK
<1>5. /\ \A m \in Links!Messages' : m = new \/ m \in Links!Messages
      /\ \A m \in Links!Messages : m = c \/ m \in Links!Messages'
      /\ c \in Links!Messages /\ new \in Links!Messages'
  BY <1>2, <1>4 DEF Links!Messages
<1>6. \A k : (Foreign(k)' <=> Foreign(k)) /\ (Undecided(k)' <=> Undecided(k))
             /\ Links!Verdict(k)' = Links!Verdict(k)
  BY <1>2 DEF Foreign, Undecided, Links!Verdict
<1>7. LinksTypeOK' /\ ResolvedWasAsked' /\ Links!MarksFollowLedger' /\ WaitingIsCandidate'
  BY <1>2, <1>3, <1>4, <1>6 DEF LinksInv, LinksTypeOK, ResolvedWasAsked, Links!MarksFollowLedger,
     WaitingIsCandidate
<1>8. AskedIsUnderWay'
  BY <1>2, <1>3, <1>5 DEF LinksInv, AskedIsUnderWay
<1>9. UnderWayIsAsked'
  BY <1>2, <1>3, <1>5, <1>6 DEF LinksInv, UnderWayIsAsked
<1>10. \A m, n : Apart(m, n)' <=> Apart(m, n)
  BY <1>2, <1>6 DEF Apart
<1>11. \A m : (Apart(c, m) => Apart(new, m) /\ Apart(m, new))
       /\ (Apart(m, c) => Apart(m, new) /\ Apart(new, m))
  BY <1>3 DEF Apart
<1>12. AskedOnce'
  BY <1>2, <1>4, <1>10, <1>11 DEF LinksInv, AskedOnce
<1> QED
  BY <1>7, <1>8, <1>9, <1>12 DEF LinksInv

LEMMA HostFailsKeeps ==
  ASSUME LinksInv, NEW c \in checking, Links!HostFails(c)
  PROVE  LinksInv'
PROOF
<1>1. /\ UNCHANGED <<onScreen, shown, visit, marks, verified, rejected, unverified, candidates,
                     flush, checks, verdicts, foreign>>
      /\ checking' = checking \ {c}
      /\ unchecked' = IF c.visit = visit THEN unchecked \cup c.keys ELSE unchecked
  BY DEF Links!HostFails, Links!webview, Links!ledger
<1>2. Links!Messages' \subseteq Links!Messages /\ \A m \in Links!Messages : m = c \/ m \in Links!Messages'
  BY <1>1 DEF Links!Messages
<1>3. \A k : (Foreign(k)' <=> Foreign(k)) /\ (Undecided(k)' <=> Undecided(k))
             /\ Links!Verdict(k)' = Links!Verdict(k)
  BY <1>1 DEF Foreign, Undecided, Links!Verdict
<1>4. LinksTypeOK' /\ ResolvedWasAsked' /\ Links!MarksFollowLedger' /\ WaitingIsCandidate'
  BY <1>1, <1>3 DEF LinksInv, LinksTypeOK, ResolvedWasAsked, Links!MarksFollowLedger,
     WaitingIsCandidate
<1>5. AskedIsUnderWay' /\ UnderWayIsAsked'
  BY <1>1, <1>2, <1>3 DEF LinksInv, AskedIsUnderWay, UnderWayIsAsked
<1>6. \A m, n : Apart(m, n)' <=> Apart(m, n)
  BY <1>1, <1>3 DEF Apart
<1>7. AskedOnce'
  BY <1>1, <1>6 DEF LinksInv, AskedOnce
<1> QED
  BY <1>4, <1>5, <1>7 DEF LinksInv

(* An answer decides its references, and marks as foreign those it was not  *)
(* asked about for the session on screen.                                   *)
LEMMA AppliesKeeps ==
  ASSUME LinksInv, Links!Applies
  PROVE  LinksInv'
PROOF
<1>1. PICK a : a = Head(verdicts)
  OBVIOUS
<1>2. /\ UNCHANGED <<onScreen, shown, visit, flush, checks, checking, unchecked>>
      /\ verdicts # <<>> /\ verdicts' = Tail(verdicts) /\ candidates' = candidates \ a.keys
      /\ verified' = (verified \cup a.resolved) \ (a.keys \ a.resolved)
      /\ rejected' = (rejected \ a.resolved) \cup (a.keys \ a.resolved)
      /\ unverified' = unverified \ (a.resolved \cup (a.keys \ a.resolved))
      /\ marks' = [b \in Blocks |-> [k \in Keys |->
            IF marks[b][k] # "waiting" \/ k \notin a.keys THEN marks[b][k]
            ELSE IF k \in a.resolved THEN "link" ELSE "text"]]
      /\ foreign' = IF a.visit = visit /\ a.root = shown THEN foreign
                    ELSE foreign \cup {<<k, IF k \in a.resolved THEN "link" ELSE "text">> :
                                         k \in a.keys}
  BY <1>1 DEF Links!Applies, Links!Marks
<1>3. /\ verdicts' \in Seq(Checked) /\ 1 \in DOMAIN verdicts /\ a = verdicts[1] /\ a \in Checked
      /\ \A i \in DOMAIN verdicts' :
           i \in Nat /\ i + 1 # 1 /\ i + 1 \in DOMAIN verdicts /\ verdicts'[i] = verdicts[i + 1]
      /\ \A i \in DOMAIN verdicts :
           i = 1 \/ (i - 1 \in DOMAIN verdicts' /\ verdicts'[i - 1] = verdicts[i])
  <2>1. verdicts \in Seq(Checked)
    BY DEF LinksInv, LinksTypeOK
  <2> QED
    BY <1>1, <1>2, <2>1, TailOf
<1>4. a.keys \subseteq Keys /\ a.resolved \subseteq a.keys /\ a \in Links!Messages
  <2>1. a.keys \subseteq Keys
    BY <1>3 DEF Checked
  <2> QED
    BY <1>3, <2>1 DEF LinksInv, ResolvedWasAsked, Links!Messages
<1>5. /\ \A k : k \notin a.keys => Undecided(k)' = Undecided(k) /\ Links!Verdict(k)' = Links!Verdict(k)
                  /\ (k \in unverified' <=> k \in unverified)
      /\ \A k \in a.keys : k \notin unverified'
           /\ Links!Verdict(k)' = IF k \in a.resolved THEN "link" ELSE "text"
  BY <1>2, <1>4 DEF Undecided, Links!Verdict
<1>6. /\ \A k : Foreign(k) => Foreign(k)'
      /\ (a.visit = visit /\ a.root = shown) \/ \A k \in a.keys : Foreign(k)'
  <2>1. foreign \subseteq foreign'
    BY <1>2
  <2>2. CASE ~(a.visit = visit /\ a.root = shown)
    <3>1. \A k \in a.keys : <<k, IF k \in a.resolved THEN "link" ELSE "text">> \in foreign'
      BY <1>2, <2>2
    <3> QED
      BY <2>1, <3>1 DEF Foreign
  <2> QED
    BY <2>1, <2>2 DEF Foreign
<1>7. \A b \in Blocks, k \in Keys :
        marks'[b][k] = IF marks[b][k] # "waiting" \/ k \notin a.keys THEN marks[b][k]
                       ELSE IF k \in a.resolved THEN "link" ELSE "text"
  BY <1>2
<1>8. /\ Links!Messages' \subseteq Links!Messages
      /\ \A m \in Links!Messages : m = a \/ m \in Links!Messages'
  <2>1. \A i \in DOMAIN verdicts' : verdicts'[i] \in {verdicts[j] : j \in DOMAIN verdicts}
    BY <1>3
  <2>2. \A i \in DOMAIN verdicts : verdicts[i] = a
        \/ verdicts[i] \in {verdicts'[j] : j \in DOMAIN verdicts'}
    BY <1>3
  <2> QED
    BY <1>2, <2>1, <2>2 DEF Links!Messages
<1>9. LinksTypeOK'
  <2>1. marks' \in [Blocks -> [Keys -> {"none", "waiting", "link", "text"}]]
    BY <1>2 DEF LinksInv, LinksTypeOK
  <2> QED
    BY <1>2, <1>3, <1>4, <2>1 DEF LinksInv, LinksTypeOK
<1>10. ResolvedWasAsked'
  BY <1>3 DEF LinksInv, ResolvedWasAsked
<1>11. WaitingIsCandidate'
  BY <1>2, <1>5, <1>7 DEF LinksInv, WaitingIsCandidate
<1>12. AskedIsUnderWay'
  <2>1. \A k \in unverified' : k \in unverified /\ k \notin a.keys
    BY <1>2, <1>4
  <2> QED
    BY <1>2, <1>8, <2>1 DEF LinksInv, AskedIsUnderWay
<1>13. \A m, n : Apart(m, n) => Apart(m, n)'
  BY <1>2, <1>6 DEF Apart
<1>14. AskedOnce'
  BY <1>2, <1>3, <1>13 DEF LinksInv, AskedOnce
<1>15. \A m \in Links!Messages' : Apart(m, a)
  <2>1. \A i \in DOMAIN verdicts' : Apart(verdicts'[i], a)
    BY <1>3 DEF LinksInv, AskedOnce
  <2>2. (\A i \in DOMAIN checks' : Apart(checks'[i], a)) /\ (\A c \in checking' : Apart(c, a))
    BY <1>2, <1>3 DEF LinksInv, AskedOnce
  <2> QED
    BY <2>1, <2>2 DEF Links!Messages
<1>16. UnderWayIsAsked'
  <2> SUFFICES ASSUME NEW m \in Links!Messages'
               PROVE  /\ m.visit <= visit'
                      /\ m.visit = visit' => \A k \in m.keys :
                           Foreign(k)' \/ (k \in unverified' /\ Undecided(k)')
    BY DEF UnderWayIsAsked
  <2>1. m \in Links!Messages /\ m.visit <= visit' /\ Apart(m, a)
    BY <1>2, <1>8, <1>15 DEF LinksInv, UnderWayIsAsked
  <2>2. ASSUME m.visit = visit', NEW k \in m.keys, k \in a.keys
        PROVE  Foreign(k)'
    BY <1>2, <1>6, <2>1, <2>2 DEF Apart
  <2>3. ASSUME m.visit = visit', NEW k \in m.keys, k \notin a.keys
        PROVE  Foreign(k)' \/ (k \in unverified' /\ Undecided(k)')
    BY <1>2, <1>5, <1>6, <2>1, <2>3 DEF LinksInv, UnderWayIsAsked
  <2> QED
    BY <2>1, <2>2, <2>3
<1>17. Links!MarksFollowLedger'
  <2> SUFFICES ASSUME NEW b \in Blocks, NEW k \in Keys, ~Foreign(k)'
               PROVE  marks'[b][k] \in {"none", Links!Verdict(k)'}
    BY DEF Links!MarksFollowLedger, Foreign
  <2>1. marks[b][k] \in {"none", Links!Verdict(k)}
    BY <1>6 DEF LinksInv, Links!MarksFollowLedger, Foreign
  <2>2. CASE k \notin a.keys
    BY <1>5, <1>7, <2>1, <2>2
  <2>3. CASE k \in a.keys
    <3>1. Undecided(k)
      BY <1>4, <1>6, <2>3 DEF LinksInv, UnderWayIsAsked
    <3>2. marks[b][k] \in {"none", "waiting"}
      BY <2>1, <3>1 DEF Undecided, Links!Verdict
    <3> QED
      BY <1>5, <1>7, <2>3, <3>2
  <2> QED
    BY <2>2, <2>3
<1> QED
  BY <1>9, <1>10, <1>11, <1>12, <1>14, <1>16, <1>17 DEF LinksInv

LEMMA ShowsSessionKeeps ==
  ASSUME LinksInv, Links!ShowsSession
  PROVE  LinksInv'
PROOF
<1>1. /\ UNCHANGED <<onScreen, checks, checking, verdicts>>
      /\ shown' = onScreen /\ visit' = visit + 1 /\ marks' = Links!Blank /\ verified' = {}
      /\ rejected' = {} /\ unverified' = {} /\ candidates' = {} /\ ~flush'
  BY DEF Links!ShowsSession, Links!ClearLedger, Links!wires
<1>2. Links!Messages' = Links!Messages /\ visit \in Nat
  BY <1>1 DEF Links!Messages, LinksInv, LinksTypeOK
<1>3. \A m \in Links!Messages : m.visit \in Nat
  <2>1. (\A m \in Check : m.visit \in Nat) /\ (\A m \in Checking : m.visit \in Nat)
        /\ (\A m \in Checked : m.visit \in Nat)
    BY DEF Check, Checking, Checked
  <2>2. /\ \A i \in DOMAIN checks : checks[i] \in Check
        /\ checking \subseteq Checking
        /\ \A i \in DOMAIN verdicts : verdicts[i] \in Checked
    BY DEF LinksInv, LinksTypeOK
  <2> QED
    BY <2>1, <2>2 DEF Links!Messages
<1>4. \A m \in Links!Messages : m.visit <= visit' /\ m.visit # visit'
  BY <1>1, <1>2, <1>3 DEF LinksInv, UnderWayIsAsked
<1>5. LinksTypeOK' /\ ResolvedWasAsked' /\ Links!MarksFollowLedger' /\ WaitingIsCandidate'
  BY <1>1, <1>2 DEF LinksInv, LinksTypeOK, ResolvedWasAsked, Links!MarksFollowLedger,
     WaitingIsCandidate, Links!Blank
<1>6. AskedIsUnderWay' /\ UnderWayIsAsked'
  BY <1>1, <1>2, <1>4 DEF AskedIsUnderWay, UnderWayIsAsked
<1>7. AskedOnce'
  <2>1. \A m \in Links!Messages : \A n : Apart(m, n)'
    BY <1>4 DEF Apart
  <2>2. /\ \A i \in DOMAIN checks : checks[i] \in Links!Messages
        /\ \A c \in checking : c \in Links!Messages
        /\ \A i \in DOMAIN verdicts : verdicts[i] \in Links!Messages
    BY DEF Links!Messages
  <2> QED
    BY <1>1, <2>1, <2>2 DEF AskedOnce
<1> QED
  BY <1>5, <1>6, <1>7 DEF LinksInv

(* Elsewhere only the session that is open and the files change.            *)
LEMMA LinksRest ==
  ASSUME LinksInv, onScreen' \in LinkSessions,
         UNCHANGED <<shown, visit, marks, verified, rejected, unverified, candidates, flush, checks,
                     checking, verdicts, unchecked, foreign>>
  PROVE  LinksInv'
PROOF
<1>1. Links!Messages' = Links!Messages
  BY DEF Links!Messages
<1>2. \A k : (Foreign(k)' <=> Foreign(k)) /\ (Undecided(k)' <=> Undecided(k))
             /\ Links!Verdict(k)' = Links!Verdict(k)
  BY DEF Foreign, Undecided, Links!Verdict
<1>3. \A m, n : Apart(m, n)' <=> Apart(m, n)
  BY <1>2 DEF Apart
<1>4. AskedOnce'
  BY <1>3 DEF LinksInv, AskedOnce
<1> QED
  BY <1>1, <1>2, <1>4 DEF LinksInv, LinksTypeOK, ResolvedWasAsked, Links!MarksFollowLedger,
     WaitingIsCandidate, AskedIsUnderWay, UnderWayIsAsked

LEMMA LinksKeptByStep ==
  ASSUME LinksInv, [Links!Next]_(Links!vars)
  PROVE  LinksInv'
PROOF
<1>1. ASSUME NEW s \in LinkSessions, Links!Opens(s)
      PROVE  LinksInv'
  BY <1>1, LinksRest DEF Links!Opens, Links!webview, Links!ledger, Links!wires
<1>2. ASSUME NEW s \in LinkSessions, NEW k \in Keys, Links!FileChanges(s, k)
      PROVE  LinksInv'
  BY <1>2, LinksRest DEF Links!FileChanges, Links!webview, Links!ledger, Links!wires, LinksInv,
     LinksTypeOK
<1>3. CASE UNCHANGED Links!vars
  BY <1>3, LinksRest DEF Links!vars, Links!webview, Links!ledger, Links!wires, LinksInv,
         LinksTypeOK
<1> QED
  BY <1>1, <1>2, <1>3, RendersKeeps, FlushesKeeps, HostTakesKeeps, HostAnswersKeeps,
     HostFailsKeeps,
     AppliesKeeps, ShowsSessionKeeps DEF Links!Next

LEMMA LinksImplies ==
  ASSUME LinksInv
  PROVE  Links!LinksSettle
PROOF
<1>1. Links!WaitingIsAsked
  BY DEF LinksInv, WaitingIsCandidate, AskedIsUnderWay, Links!WaitingIsAsked, Links!InFlight
<1> QED
  BY <1>1 DEF LinksInv, Links!LinksSettle

-----------------------------------------------------------------------------
(* The file menu.                                                           *)

MaybeQuery == Queries \cup {"none"}
SearchOf == [query : MaybeQuery, id : Nat, view : Views]
AnswerTo == [query : MaybeQuery, id : Nat, view : Views, files : SUBSET Files]
MenuTyped(m) ==
  /\ DOMAIN m = {"mention", "active", "menu", "list", "timer", "request", "accepted", "arrowed",
                 "mixed"}
  /\ m.mention \in MaybeQuery /\ m.active \in MaybeQuery /\ m.timer \in [query : MaybeQuery, id : Nat]
  /\ m.request \in Nat /\ m.accepted \in Nat /\ m.mixed \in BOOLEAN

MentionTypeOK ==
  /\ DOMAIN menus = Views /\ \A v \in Views : MenuTyped(menus[v])
  /\ searches \in Seq(SearchOf) /\ waiting \in Seq(SearchOf)
  /\ answers \in [Views -> Seq(AnswerTo)]
  /\ disk \subseteq Files /\ index \subseteq Files
  /\ (touched = Mention!NoBuild \/ touched \subseteq Files)

(* The search of a view with its number for a query is under way.           *)
Awaited(v, q, n) ==
  \/ \E i \in DOMAIN searches :
       searches[i].view = v /\ searches[i].query = q /\ searches[i].id = n
  \/ \E i \in DOMAIN waiting : waiting[i].view = v /\ waiting[i].query = q /\ waiting[i].id = n
  \/ \E i \in DOMAIN answers[v] :
       answers[v][i].view = v /\ answers[v][i].query = q /\ answers[v][i].id = n

(* An open menu shows the answer to its query or waits for it, ...          *)
Settled(m, v) ==
  \/ m.menu # "searching" /\ m.list.query = m.active
  \/ m.mixed \/ [view |-> v, id |-> m.request] \in dropped
  \/ m.timer = [query |-> m.active, id |-> m.request]
  \/ Awaited(v, m.active, m.request)
MenusSettled == \A v \in Views : menus[v].active # "none" => Settled(menus[v], v)

(* ... since what a view asked is not newer than its count, nor what it     *)
(* accepted, unless the answer of another view was taken.                   *)
NotNewer(v, n) ==
  /\ \A i \in DOMAIN searches : searches[i].view = v => searches[i].id <= n
  /\ \A i \in DOMAIN waiting : waiting[i].view = v => waiting[i].id <= n
  /\ \A i \in DOMAIN answers[v] : answers[v][i].view = v => answers[v][i].id <= n
CountsHold ==
  \A v \in Views : /\ NotNewer(v, menus[v].request) /\ menus[v].timer.id <= menus[v].request
                   /\ ~menus[v].mixed => menus[v].accepted <= menus[v].request

(* A recent index has every file, but those it may not tell of.             *)
IndexTells == fresh => disk \subseteq index \cup unseen

MentionInv ==
  /\ MentionTypeOK /\ MenusSettled /\ CountsHold /\ IndexTells
  /\ Mention!MenuAnswersQuery /\ Mention!FilesFound

LEMMA MentionInit ==
  ASSUME Mention!MentionAssumption, Mention!Init
  PROVE  MentionInv
PROOF
<1>1. /\ menus = [v \in Views |-> Mention!Closed] /\ searches = <<>> /\ waiting = <<>>
      /\ answers = [v \in Views |-> <<>>] /\ disk \subseteq Files /\ index = {} /\ ~fresh
      /\ touched = Mention!NoBuild /\ unfound = {}
  BY DEF Mention!Init, Mention!MentionAssumption
<1>2. MenuTyped(Mention!Closed) /\ Mention!Closed.active = "none" /\ Mention!Closed.accepted = 0
      /\ Mention!Closed.request = 0 /\ Mention!Closed.timer.id = 0 /\ Mention!Closed.menu = "hidden"
  BY DEF Mention!Closed, Mention!NoTimer, MenuTyped, MaybeQuery
<1>3. \A v \in Views : menus[v] = Mention!Closed /\ answers[v] = <<>>
  BY <1>1
<1>4. MentionTypeOK
  <2>1. answers \in [Views -> Seq(AnswerTo)] /\ searches \in Seq(SearchOf)
        /\ waiting \in Seq(SearchOf)
    BY <1>1
  <2> QED
    BY <1>1, <1>2, <2>1 DEF MentionTypeOK
<1> QED
  BY <1>1, <1>2, <1>3, <1>4 DEF MentionInv, MenusSettled, CountsHold, NotNewer, IndexTells,
     Mention!MenuAnswersQuery, Mention!FilesFound

(* A menu moves: it is settled, and its count is not below its messages.    *)
LEMMA MenuMoves ==
  ASSUME MentionInv, NEW v \in Views, NEW m, menus' = [menus EXCEPT ![v] = m],
         UNCHANGED <<waiting, disk, index, fresh, touched, unseen, unfound, dropped>>,
         MenuTyped(m), searches' \in Seq(SearchOf), answers' \in [Views -> Seq(AnswerTo)],
         \A u \in Views : u # v => answers'[u] = answers[u],
         \A i \in DOMAIN searches : \E j \in DOMAIN searches' : searches'[j] = searches[i],
         \A i \in DOMAIN searches' : searches'[i].view # v =>
           \E j \in DOMAIN searches : searches'[i] = searches[j],
         m.active # "none" => Settled(m, v)',
         NotNewer(v, m.request)', m.timer.id <= m.request, ~m.mixed => m.accepted <= m.request,
         m.menu = "files" /\ ~m.arrowed => m.list.query = m.active
  PROVE  MentionInv'
PROOF
<1>1. /\ DOMAIN menus' = Views /\ menus'[v] = m /\ \A u \in Views : u # v => menus'[u] = menus[u]
  BY DEF MentionInv, MentionTypeOK
<1>2. MentionTypeOK'
  <2>1. \A u \in Views : MenuTyped(menus'[u])
    BY <1>1 DEF MentionInv, MentionTypeOK
  <2> QED
    BY <1>1, <2>1 DEF MentionInv, MentionTypeOK, MenuTyped
<1>3. ASSUME NEW u \in Views, u # v
      PROVE  /\ \A q, n : Awaited(u, q, n) => Awaited(u, q, n)'
             /\ \A n : NotNewer(u, n) => NotNewer(u, n)'
  <2>1. answers'[u] = answers[u]
    BY <1>3
  <2> QED
    BY <1>3, <2>1 DEF Awaited, NotNewer
<1>4. MenusSettled'
  <2>1. SUFFICES ASSUME NEW u \in Views, menus'[u].active # "none"
                 PROVE  Settled(menus[u], u)'
    BY DEF MenusSettled
  <2>2. CASE u = v
    BY <1>1, <2>1, <2>2 DEF Settled
  <2>3. CASE u # v
    <3>1. menus'[u] = menus[u] /\ Settled(menus[u], u)
      BY <1>1, <2>1, <2>3 DEF MentionInv, MenusSettled
    <3>2. Awaited(u, menus[u].active, menus[u].request) => Awaited(u, menus[u].active, menus[u].request)'
      <4>1. PICK q, n : q = menus[u].active /\ n = menus[u].request
        OBVIOUS
      <4>2. Awaited(u, q, n) => Awaited(u, q, n)'
        BY <1>3, <2>3
      <4> QED
        BY <3>1, <4>1, <4>2 DEF Awaited
    <3> QED
      BY <3>1, <3>2 DEF Settled
  <2> QED
    BY <2>2, <2>3
<1>5. CountsHold'
  <2>1. SUFFICES ASSUME NEW u \in Views
                 PROVE  /\ NotNewer(u, menus[u].request)' /\ menus'[u].timer.id <= menus'[u].request
                        /\ ~menus'[u].mixed => menus'[u].accepted <= menus'[u].request
    BY DEF CountsHold
  <2>2. CASE u = v
    BY <1>1, <2>2 DEF NotNewer
  <2>3. CASE u # v
    <3>1. PICK n : n = menus[u].request
      OBVIOUS
    <3>2. NotNewer(u, n)'
      BY <1>3, <2>3, <3>1 DEF MentionInv, CountsHold
    <3> QED
      BY <1>1, <2>3, <3>1, <3>2 DEF MentionInv, CountsHold, NotNewer
  <2> QED
    BY <2>2, <2>3
<1>6. IndexTells' /\ Mention!FilesFound'
  BY DEF MentionInv, IndexTells, Mention!FilesFound
<1>7. Mention!MenuAnswersQuery'
  BY <1>1 DEF MentionInv, Mention!MenuAnswersQuery
<1> QED
  BY <1>2, <1>4, <1>5, <1>6, <1>7 DEF MentionInv

(* A menu that moves by itself.                                             *)
LEMMA MenuAlone ==
  ASSUME MentionInv, NEW v \in Views, NEW m, Mention!Menu(v, m), UNCHANGED <<searches, answers>>,
         MenuTyped(m), m.active # "none" => Settled(m, v),
         menus[v].request <= m.request, m.timer.id <= m.request,
         ~m.mixed => m.accepted <= m.request,
         m.menu = "files" /\ ~m.arrowed => m.list.query = m.active
  PROVE  MentionInv'
PROOF
<1>1. /\ menus' = [menus EXCEPT ![v] = m]
      /\ UNCHANGED <<waiting, disk, index, fresh, touched, unseen, unfound, dropped>>
  BY DEF Mention!Menu, Mention!hostIndex
<1>2. searches \in Seq(SearchOf) /\ waiting \in Seq(SearchOf) /\ answers \in [Views -> Seq(AnswerTo)]
      /\ MenuTyped(menus[v])
  BY DEF MentionInv, MentionTypeOK
<1>3. m.active # "none" => Settled(m, v)'
  BY <1>1 DEF Settled, Awaited
<1>4. NotNewer(v, m.request)'
  <2>1. NotNewer(v, menus[v].request)
    BY DEF MentionInv, CountsHold
  <2>2. /\ \A i \in DOMAIN searches : searches[i].id \in Nat
        /\ \A i \in DOMAIN waiting : waiting[i].id \in Nat
        /\ \A i \in DOMAIN answers[v] : answers[v][i].id \in Nat
    <3>1. \A i \in DOMAIN searches : searches[i] \in SearchOf
      BY <1>2, ElementOfSeq, LenProperties
    <3>2. \A i \in DOMAIN waiting : waiting[i] \in SearchOf
      BY <1>2, ElementOfSeq, LenProperties
    <3>3. \A i \in DOMAIN answers[v] : answers[v][i] \in AnswerTo
      BY <1>2, ElementOfSeq, LenProperties
    <3> QED
      BY <3>1, <3>2, <3>3 DEF SearchOf, AnswerTo
  <2>3. menus[v].request \in Nat /\ m.request \in Nat
    BY <1>2 DEF MenuTyped
  <2> QED
    BY <1>1, <2>1, <2>2, <2>3 DEF NotNewer
<1> QED
  BY <1>1, <1>2, <1>3, <1>4, MenuMoves

(* A step of the host: no message is lost but to the record, none is made.  *)
LEMMA HostMoves ==
  ASSUME MentionInv, UNCHANGED menus, searches' \in Seq(SearchOf), waiting' \in Seq(SearchOf),
         answers' \in [Views -> Seq(AnswerTo)], disk' \subseteq Files, index' \subseteq Files,
         touched' = Mention!NoBuild \/ touched' \subseteq Files, dropped \subseteq dropped',
         \A v \in Views : \A q, n :
           Awaited(v, q, n) => Awaited(v, q, n)' \/ [view |-> v, id |-> n] \in dropped',
         \A v \in Views : \A n : NotNewer(v, n) => NotNewer(v, n)',
         IndexTells', Mention!FilesFound'
  PROVE  MentionInv'
PROOF
<1>1. MentionTypeOK'
  BY DEF MentionInv, MentionTypeOK, MenuTyped
<1>2. MenusSettled'
  <2>1. SUFFICES ASSUME NEW v \in Views, menus[v].active # "none"
                 PROVE  Settled(menus[v], v)'
    BY DEF MenusSettled
  <2>2. Settled(menus[v], v)
    BY <2>1 DEF MentionInv, MenusSettled
  <2>3. PICK m : m = menus[v]
    OBVIOUS
  <2>4. Awaited(v, m.active, m.request) =>
          Awaited(v, m.active, m.request)' \/ [view |-> v, id |-> m.request] \in dropped'
    <3>1. PICK q, n : q = m.active /\ n = m.request
      OBVIOUS
    <3>2. Awaited(v, q, n) => Awaited(v, q, n)' \/ [view |-> v, id |-> n] \in dropped'
      OBVIOUS
    <3> QED
      BY <3>1, <3>2
  <2> QED
    BY <2>2, <2>3, <2>4 DEF Settled, Awaited
<1>3. CountsHold'
  <2>1. SUFFICES ASSUME NEW v \in Views
                 PROVE  /\ NotNewer(v, menus[v].request)' /\ menus[v].timer.id <= menus[v].request
                        /\ ~menus[v].mixed => menus[v].accepted <= menus[v].request
    BY DEF CountsHold
  <2>2. PICK n : n = menus[v].request
    OBVIOUS
  <2>3. NotNewer(v, n)
    BY <2>2 DEF MentionInv, CountsHold
  <2>4. NotNewer(v, n)'
    BY <2>3
  <2> QED
    BY <2>2, <2>4 DEF MentionInv, CountsHold, NotNewer
<1>4. Mention!MenuAnswersQuery'
  BY DEF MentionInv, Mention!MenuAnswersQuery
<1> QED
  BY <1>1, <1>2, <1>3, <1>4 DEF MentionInv

(* What the messages are.                                                   *)
LEMMA MentionTyped ==
  ASSUME MentionInv
  PROVE  /\ \A i \in DOMAIN searches : searches[i] \in SearchOf
         /\ \A i \in DOMAIN waiting : waiting[i] \in SearchOf
         /\ \A v \in Views : \A i \in DOMAIN answers[v] : answers[v][i] \in AnswerTo
PROOF
<1>1. searches \in Seq(SearchOf) /\ waiting \in Seq(SearchOf) /\ answers \in [Views -> Seq(AnswerTo)]
  BY DEF MentionInv, MentionTypeOK
<1> QED
  BY <1>1, ElementOfSeq, LenProperties

LEMMA TypesKeeps ==
  ASSUME MentionInv, NEW v \in Views, NEW q \in MaybeQuery, Mention!Types(v, q)
  PROVE  MentionInv'
PROOF
<1> DEFINE m == Mention!Scheduled([menus[v] EXCEPT !.mention = q])
<1>1. Mention!Menu(v, m) /\ UNCHANGED <<searches, answers>>
  BY DEF Mention!Types
<1>2. MenuTyped(menus[v]) /\ CountsHold
  BY DEF MentionInv, MentionTypeOK
<1>3. CASE q = "none"
  <2>1. m = [menus[v] EXCEPT !.mention = q, !.active = "none", !.menu = "hidden",
                             !.list = Mention!NoList]
    BY <1>2, <1>3 DEF Mention!Scheduled, Mention!ClosedMenu, MenuTyped
  <2>2. /\ MenuTyped(m) /\ m.active = "none" /\ m.request = menus[v].request /\ m.menu = "hidden"
        /\ m.timer = menus[v].timer /\ m.accepted = menus[v].accepted /\ m.mixed = menus[v].mixed
    BY <1>2, <2>1 DEF MenuTyped, MaybeQuery
  <2> HIDE DEF m
  <2>3. menus[v].request \in Nat
    BY <1>2 DEF MenuTyped
  <2> QED
    BY <1>1, <1>2, <2>2, <2>3, MenuAlone DEF CountsHold
<1>4. CASE q # "none"
  <2>1. m = [menus[v] EXCEPT !.mention = q, !.active = q, !.menu = "searching", !.arrowed = FALSE,
               !.request = menus[v].request + 1,
               !.timer = [query |-> q, id |-> menus[v].request + 1]]
    BY <1>2, <1>4 DEF Mention!Scheduled, MenuTyped
  <2>2. /\ MenuTyped(m) /\ m.active = q /\ m.request = menus[v].request + 1
        /\ m.timer = [query |-> m.active, id |-> m.request] /\ m.accepted = menus[v].accepted
        /\ m.mixed = menus[v].mixed /\ m.menu = "searching"
    <3>1. menus[v].request + 1 \in Nat
      BY <1>2 DEF MenuTyped
    <3>2. PICK n \in Nat : n = menus[v].request + 1
      BY <3>1
    <3>3. m = [menus[v] EXCEPT !.mention = q, !.active = q, !.menu = "searching", !.arrowed = FALSE,
                 !.request = n, !.timer = [query |-> q, id |-> n]]
      BY <2>1, <3>2
    <3> HIDE DEF m
    <3>4. /\ m.active = q /\ m.request = n /\ m.timer = [query |-> q, id |-> n]
          /\ m.accepted = menus[v].accepted /\ m.mixed = menus[v].mixed /\ m.menu = "searching"
          /\ m.mention = q /\ DOMAIN m = DOMAIN menus[v]
      BY <1>2, <3>3 DEF MenuTyped
    <3> QED
      BY <1>2, <3>2, <3>4 DEF MenuTyped
  <2> HIDE DEF m
  <2>3. menus[v].request \in Nat /\ menus[v].accepted \in Nat
    BY <1>2 DEF MenuTyped
  <2>4. Settled(m, v) /\ menus[v].request <= m.request /\ m.timer.id <= m.request
    BY <2>2, <2>3 DEF Settled
  <2>5. ~m.mixed => m.accepted <= m.request
    BY <1>2, <2>2, <2>3 DEF CountsHold
  <2> QED
    BY <1>1, <2>2, <2>4, <2>5, MenuAlone
<1> QED
  BY <1>3, <1>4

LEMMA ArrowsKeeps ==
  ASSUME MentionInv, NEW v \in Views, Mention!Arrows(v)
  PROVE  MentionInv'
PROOF
<1> DEFINE m == [menus[v] EXCEPT !.menu = "files", !.arrowed = TRUE]
<1>1. Mention!Menu(v, m) /\ UNCHANGED <<searches, answers>>
  BY DEF Mention!Arrows
<1>2. MenuTyped(menus[v]) /\ CountsHold /\ MenusSettled
  BY DEF MentionInv, MentionTypeOK
<1>3. /\ MenuTyped(m) /\ m.request = menus[v].request /\ m.active = menus[v].active
      /\ m.timer = menus[v].timer /\ m.accepted = menus[v].accepted /\ m.mixed = menus[v].mixed
      /\ m.arrowed /\ m.list = menus[v].list /\ m.menu = "files"
  BY <1>2 DEF MenuTyped
<1> HIDE DEF m
<1>4. m.active # "none" => Settled(m, v)
  BY <1>2, <1>3 DEF MenusSettled, Settled
<1>5. menus[v].request \in Nat
  BY <1>2 DEF MenuTyped
<1> QED
  BY <1>1, <1>2, <1>3, <1>4, <1>5, MenuAlone DEF CountsHold

LEMMA ClosesKeeps ==
  ASSUME MentionInv, NEW v \in Views, Mention!Closes(v) \/ Mention!Chooses(v)
  PROVE  MentionInv'
PROOF
<1>1. MenuTyped(menus[v]) /\ CountsHold
  BY DEF MentionInv, MentionTypeOK
<1>2. PICK m : /\ Mention!Menu(v, m) /\ UNCHANGED <<searches, answers>>
               /\ \/ m = Mention!ClosedMenu(menus[v])
                  \/ m = Mention!ClosedMenu([menus[v] EXCEPT !.mention = "none"])
  BY DEF Mention!Closes, Mention!Chooses
<1>3. /\ MenuTyped(m) /\ m.active = "none" /\ m.request = menus[v].request /\ m.menu = "hidden"
      /\ m.timer = menus[v].timer /\ m.accepted = menus[v].accepted /\ m.mixed = menus[v].mixed
  BY <1>1, <1>2 DEF MenuTyped, MaybeQuery, Mention!ClosedMenu
<1>4. menus[v].request \in Nat
  BY <1>1 DEF MenuTyped
<1> QED
  BY <1>1, <1>2, <1>3, <1>4, MenuAlone DEF CountsHold

LEMMA SearchesKeeps ==
  ASSUME MentionInv, NEW v \in Views, Mention!Searches(v)
  PROVE  MentionInv'
PROOF
<1>1. PICK t : t = menus[v].timer
  OBVIOUS
<1>2. PICK r : r = [query |-> t.query, id |-> t.id, view |-> v]
  OBVIOUS
<1>0. PICK m : m = [menus[v] EXCEPT !.timer = Mention!NoTimer]
  OBVIOUS
<1>3. /\ searches' = Append(searches, r) /\ menus' = [menus EXCEPT ![v] = m] /\ answers' = answers
      /\ UNCHANGED <<waiting, disk, index, fresh, touched, unseen, unfound, dropped>>
  BY <1>0, <1>1, <1>2 DEF Mention!Searches, Mention!Menu, Mention!hostIndex
<1>4. /\ MenuTyped(menus[v]) /\ CountsHold /\ MenusSettled /\ searches \in Seq(SearchOf)
      /\ answers \in [Views -> Seq(AnswerTo)] /\ Mention!MenuAnswersQuery
  BY DEF MentionInv, MentionTypeOK
<1>5. r \in SearchOf /\ r.view = v /\ r.query = t.query /\ r.id = t.id
  BY <1>1, <1>2, <1>4 DEF SearchOf, MenuTyped
<1>6. /\ MenuTyped(m) /\ m.request = menus[v].request /\ m.active = menus[v].active
      /\ m.timer.id = 0 /\ m.accepted = menus[v].accepted /\ m.mixed = menus[v].mixed
      /\ m.arrowed = menus[v].arrowed /\ m.list = menus[v].list /\ m.menu = menus[v].menu
  BY <1>0, <1>4 DEF MenuTyped, Mention!NoTimer, MaybeQuery
<1>7. m.menu = "files" /\ ~m.arrowed => m.list.query = m.active
  BY <1>4, <1>6 DEF Mention!MenuAnswersQuery
<1>8. /\ searches' \in Seq(SearchOf) /\ Len(searches) + 1 \in DOMAIN searches'
      /\ searches'[Len(searches) + 1] = r
      /\ \A i \in DOMAIN searches : i \in DOMAIN searches' /\ searches'[i] = searches[i]
      /\ \A i \in DOMAIN searches' : i \in DOMAIN searches \/ i = Len(searches) + 1
  BY <1>3, <1>4, <1>5, AppendOf
<1>9. m.active # "none" => Settled(m, v)'
  <2>1. SUFFICES ASSUME m.active # "none" PROVE Settled(m, v)'
    OBVIOUS
  <2>2. Settled(menus[v], v)
    BY <1>4, <1>6, <2>1 DEF MenusSettled
  <2>3. Awaited(v, menus[v].active, menus[v].request) => Awaited(v, m.active, m.request)'
    BY <1>3, <1>6, <1>8 DEF Awaited
  <2>4. CASE menus[v].timer = [query |-> menus[v].active, id |-> menus[v].request]
    <3>1. r.query = m.active /\ r.id = m.request
      BY <1>1, <1>5, <1>6, <2>4
    <3>2. Awaited(v, m.active, m.request)'
      BY <1>5, <1>8, <3>1 DEF Awaited
    <3> QED
      BY <3>2 DEF Settled
  <2> QED
    BY <1>3, <1>6, <2>2, <2>3, <2>4 DEF Settled
<1>10. NotNewer(v, m.request)'
  BY <1>1, <1>3, <1>4, <1>5, <1>6, <1>8 DEF CountsHold, NotNewer
<1>11. m.timer.id <= m.request /\ (~m.mixed => m.accepted <= m.request)
  BY <1>4, <1>6 DEF CountsHold, MenuTyped
<1>12. \A i \in DOMAIN searches : \E j \in DOMAIN searches' : searches'[j] = searches[i]
  BY <1>8
<1>13. \A i \in DOMAIN searches' : searches'[i].view # v =>
         \E j \in DOMAIN searches : searches'[i] = searches[j]
  BY <1>5, <1>8
<1> QED
  BY <1>3, <1>4, <1>6, <1>7, <1>8, <1>9, <1>10, <1>11, <1>12, <1>13, MenuMoves

LEMMA MentionAcceptsKeeps ==
  ASSUME MentionInv, NEW v \in Views, Mention!Accepts(v)
  PROVE  MentionInv'
PROOF
<1>1. PICK s : s = answers[v]
  OBVIOUS
<1>2. PICK a : a = Head(s)
  OBVIOUS
<1>3. PICK m : m = Mention!Accepted(menus[v], a, v)
  OBVIOUS
<1>4. /\ s # <<>> /\ answers' = [answers EXCEPT ![v] = Tail(s)] /\ searches' = searches
      /\ menus' = [menus EXCEPT ![v] = m]
      /\ UNCHANGED <<waiting, disk, index, fresh, touched, unseen, unfound, dropped>>
  BY <1>1, <1>2, <1>3 DEF Mention!Accepts, Mention!Menu, Mention!hostIndex
<1>5. /\ MenuTyped(menus[v]) /\ CountsHold /\ MenusSettled /\ searches \in Seq(SearchOf)
      /\ answers \in [Views -> Seq(AnswerTo)] /\ Mention!MenuAnswersQuery /\ s \in Seq(AnswerTo)
  BY <1>1 DEF MentionInv, MentionTypeOK
<1>6. PICK t : t = Tail(s)
  OBVIOUS
<1>7. /\ t \in Seq(AnswerTo) /\ a \in AnswerTo /\ a = s[1] /\ 1 \in DOMAIN s
      /\ \A i \in DOMAIN t : i \in Nat /\ i + 1 \in DOMAIN s /\ t[i] = s[i + 1]
      /\ \A i \in DOMAIN s : i = 1 \/ (i - 1 \in DOMAIN t /\ t[i - 1] = s[i])
  BY <1>2, <1>4, <1>5, <1>6, TailOf
<1>8. /\ answers' \in [Views -> Seq(AnswerTo)] /\ answers'[v] = t
      /\ \A u \in Views : u # v => answers'[u] = answers[u]
  BY <1>4, <1>5, <1>6, <1>7
<1>9. CASE m = menus[v] /\ (menus[v].active = "none" \/ a.id < menus[v].accepted
           \/ a.query # menus[v].active)
  <2>1. m.active # "none" => Settled(m, v)'
    <3>1. SUFFICES ASSUME m.active # "none" PROVE Settled(m, v)'
      OBVIOUS
    <3>2. Settled(menus[v], v)
      BY <1>5, <1>9, <3>1 DEF MenusSettled
    <3>3. Awaited(v, m.active, m.request) => m.mixed \/ Awaited(v, m.active, m.request)'
      <4>1. SUFFICES ASSUME Awaited(v, m.active, m.request), ~m.mixed
                     PROVE  Awaited(v, m.active, m.request)'
        OBVIOUS
      <4>2. CASE \E i \in DOMAIN answers[v] :
                   answers[v][i].view = v /\ answers[v][i].query = m.active
                     /\ answers[v][i].id = m.request
        <5>1. PICK i \in DOMAIN s : s[i].view = v /\ s[i].query = m.active /\ s[i].id = m.request
          BY <1>1, <4>2
        <5>2. i # 1
          <6>1. ~(m.request < m.accepted)
            BY <1>5, <1>9, <4>1 DEF CountsHold, MenuTyped
          <6> QED
            BY <1>7, <1>9, <3>1, <5>1, <6>1
        <5>3. i - 1 \in DOMAIN t /\ t[i - 1] = s[i]
          BY <1>7, <5>2
        <5> QED
          BY <1>8, <5>1, <5>3 DEF Awaited
      <4> QED
        BY <1>4, <4>1, <4>2 DEF Awaited
    <3> QED
      BY <1>4, <1>9, <3>2, <3>3 DEF Settled
  <2>2. MenuTyped(m) /\ m.timer.id <= m.request /\ (~m.mixed => m.accepted <= m.request)
    BY <1>5, <1>9 DEF CountsHold
  <2>3. NotNewer(v, m.request)'
    BY <1>1, <1>4, <1>5, <1>7, <1>8, <1>9 DEF CountsHold, NotNewer
  <2>4. m.menu = "files" /\ ~m.arrowed => m.list.query = m.active
    BY <1>5, <1>9 DEF Mention!MenuAnswersQuery
  <2> QED
    BY <1>4, <1>5, <1>8, <2>1, <2>2, <2>3, <2>4, MenuMoves
<1>10. CASE ~(menus[v].active = "none" \/ a.id < menus[v].accepted \/ a.query # menus[v].active)
  <2>1. m = [menus[v] EXCEPT !.accepted = a.id, !.list = [query |-> a.query, files |-> a.files],
               !.menu = IF a.files = {} THEN "empty" ELSE "files", !.mixed = menus[v].mixed \/ a.view # v]
    BY <1>3, <1>5, <1>10 DEF Mention!Accepted, MenuTyped
  <2>2. a.id \in Nat /\ a.view \in Views /\ a.query = menus[v].active
    BY <1>7, <1>10 DEF AnswerTo
  <2>3. PICK b \in BOOLEAN : b = (menus[v].mixed \/ a.view # v)
    OBVIOUS
  <2>4. PICK g \in {"empty", "files"} : g = IF a.files = {} THEN "empty" ELSE "files"
    OBVIOUS
  <2>5. m = [menus[v] EXCEPT !.accepted = a.id, !.list = [query |-> a.query, files |-> a.files],
               !.menu = g, !.mixed = b]
    BY <2>1, <2>3, <2>4
  <2>6. /\ MenuTyped(m) /\ m.list.query = a.query /\ m.active = menus[v].active /\ m.accepted = a.id
        /\ m.menu = g /\ m.request = menus[v].request /\ m.timer = menus[v].timer
    BY <1>5, <2>2, <2>5 DEF MenuTyped
  <2>7. m.mixed <=> (menus[v].mixed \/ a.view # v)
    <3>1. m.mixed = b
      BY <1>5, <2>5 DEF MenuTyped
    <3> QED
      BY <2>3, <3>1, Zenon
  <2>8. NotNewer(v, m.request)'
    BY <1>1, <1>4, <1>5, <1>7, <1>8, <2>6 DEF CountsHold, NotNewer
  <2>9. ~m.mixed => m.accepted <= m.request
    BY <1>1, <1>5, <1>7, <2>6, <2>7 DEF CountsHold, NotNewer
  <2>10. Settled(m, v)'
    BY <2>2, <2>4, <2>6 DEF Settled
  <2>11. m.timer.id <= m.request
    BY <1>5, <2>6 DEF CountsHold
  <2> QED
    BY <1>4, <1>5, <1>8, <2>2, <2>6, <2>8, <2>9, <2>10, <2>11, MenuMoves
<1> QED
  BY <1>3, <1>9, <1>10 DEF Mention!Accepted

LEMMA MentionHostTakesKeeps ==
  ASSUME Mention!MentionAssumption, MentionInv, Mention!HostTakes
  PROVE  MentionInv'
PROOF
<1>1. PICK r : r = Head(searches)
  OBVIOUS
<1>2. /\ searches # <<>> /\ searches' = Tail(searches)
      /\ UNCHANGED <<menus, disk, index, fresh, unseen, dropped>>
  BY DEF Mention!HostTakes
<1>3. /\ searches \in Seq(SearchOf) /\ waiting \in Seq(SearchOf)
      /\ answers \in [Views -> Seq(AnswerTo)] /\ disk \subseteq Files /\ index \subseteq Files
      /\ (touched = Mention!NoBuild \/ touched \subseteq Files)
      /\ (fresh => disk \subseteq index \cup unseen) /\ unfound = {} /\ CountsHold
  BY DEF MentionInv, MentionTypeOK, IndexTells, Mention!FilesFound
<1>4. PICK t : t = Tail(searches)
  OBVIOUS
<1>5. /\ t \in Seq(SearchOf) /\ r = searches[1] /\ r \in SearchOf /\ 1 \in DOMAIN searches
      /\ \A i \in DOMAIN t : i \in Nat /\ i + 1 \in DOMAIN searches /\ t[i] = searches[i + 1]
      /\ \A i \in DOMAIN searches : i = 1 \/ (i - 1 \in DOMAIN t /\ t[i - 1] = searches[i])
  BY <1>1, <1>2, <1>3, <1>4, TailOf
<1>6. searches' = t /\ t \in Seq(SearchOf)
  BY <1>2, <1>4, <1>5
<1>7. IndexTells'
  BY <1>2 DEF MentionInv, IndexTells
<1>8. CASE fresh /\ index # {}
  <2>1. PICK a : a = Mention!Answer(r, index)
    OBVIOUS
  <2>2. /\ answers' = [v \in Views |-> answers[v] \o [i \in DOMAIN <<r>> |-> Mention!Answer(<<r>>[i], index)]]
        /\ unfound' = unfound \cup Mention!Missing(<<r>>, index, unseen)
        /\ UNCHANGED <<waiting, touched>>
    BY <1>1, <1>8 DEF Mention!HostTakes, Mention!Posts
  <2>3. [i \in DOMAIN <<r>> |-> Mention!Answer(<<r>>[i], index)] = <<a>>
    BY <2>1
  <2>4. /\ a \in AnswerTo /\ a.query = r.query /\ a.id = r.id /\ a.view = r.view
    BY <1>3, <1>5, <2>1 DEF Mention!Answer, Mention!Hits, AnswerTo, SearchOf
  <2>5. \A v \in Views : /\ answers'[v] = Append(answers[v], a) /\ answers[v] \in Seq(AnswerTo)
    <3>1. \A v \in Views : answers[v] \in Seq(AnswerTo)
      BY <1>3
    <3> QED
      BY <2>2, <2>3, <2>4, <3>1, AppendProperties
  <2>6. \A v \in Views :
          /\ answers'[v] \in Seq(AnswerTo) /\ Len(answers[v]) + 1 \in DOMAIN answers'[v]
          /\ answers'[v][Len(answers[v]) + 1] = a
          /\ \A i \in DOMAIN answers[v] : i \in DOMAIN answers'[v] /\ answers'[v][i] = answers[v][i]
          /\ \A i \in DOMAIN answers'[v] : i \in DOMAIN answers[v] \/ i = Len(answers[v]) + 1
    BY <2>4, <2>5, AppendOf
  <2>7. answers' \in [Views -> Seq(AnswerTo)]
    BY <2>2, <2>6
  <2>8. ASSUME NEW v \in Views, NEW q, NEW n, Awaited(v, q, n)
        PROVE  Awaited(v, q, n)'
    <3>1. CASE \E i \in DOMAIN searches :
                 searches[i].view = v /\ searches[i].query = q /\ searches[i].id = n
      <4>1. PICK i \in DOMAIN searches :
                   searches[i].view = v /\ searches[i].query = q /\ searches[i].id = n
        BY <3>1
      <4>2. CASE i = 1
        <5>1. PICK j \in DOMAIN answers'[v] : answers'[v][j] = a
          BY <2>6
        <5> QED
          BY <1>5, <2>4, <4>1, <4>2, <5>1 DEF Awaited
      <4>3. CASE i # 1
        <5>1. i - 1 \in DOMAIN t /\ t[i - 1] = searches[i]
          BY <1>5, <4>3
        <5> QED
          BY <1>6, <4>1, <5>1 DEF Awaited
      <4> QED
        BY <4>2, <4>3
    <3> QED
      BY <2>2, <2>6, <2>8, <3>1 DEF Awaited
  <2>9. ASSUME NEW v \in Views, NEW n, NotNewer(v, n)
        PROVE  NotNewer(v, n)'
    BY <1>5, <1>6, <2>2, <2>4, <2>6, <2>9 DEF NotNewer
  <2>10. Mention!Missing(<<r>>, index, unseen) = {}
    BY <1>3, <1>8 DEF Mention!Missing, Mention!Hits
  <2>11. Mention!FilesFound'
    BY <1>3, <2>2, <2>10 DEF Mention!FilesFound
  <2> QED
    BY <1>2, <1>3, <1>6, <1>7, <2>2, <2>7, <2>8, <2>9, <2>11, HostMoves
<1>9. CASE ~(fresh /\ index # {})
  <2>1. /\ waiting' = Append(waiting, r) /\ touched' = IF touched = Mention!NoBuild THEN {} ELSE touched
        /\ UNCHANGED <<answers, unfound>>
    BY <1>1, <1>9 DEF Mention!HostTakes
  <2>2. /\ waiting' \in Seq(SearchOf) /\ Len(waiting) + 1 \in DOMAIN waiting'
        /\ waiting'[Len(waiting) + 1] = r
        /\ \A i \in DOMAIN waiting : i \in DOMAIN waiting' /\ waiting'[i] = waiting[i]
        /\ \A i \in DOMAIN waiting' : i \in DOMAIN waiting \/ i = Len(waiting) + 1
    BY <1>3, <1>5, <2>1, AppendOf
  <2>3. ASSUME NEW v \in Views, NEW q, NEW n, Awaited(v, q, n)
        PROVE  Awaited(v, q, n)'
    BY <1>5, <1>6, <2>1, <2>2, <2>3 DEF Awaited
  <2>4. ASSUME NEW v \in Views, NEW n, NotNewer(v, n)
        PROVE  NotNewer(v, n)'
    BY <1>5, <1>6, <2>1, <2>2, <2>4 DEF NotNewer
  <2>5. Mention!FilesFound' /\ (touched' = Mention!NoBuild \/ touched' \subseteq Files)
    BY <1>3, <2>1 DEF Mention!FilesFound
  <2> QED
    BY <1>2, <1>3, <1>6, <1>7, <2>1, <2>2, <2>3, <2>4, <2>5, HostMoves
<1> QED
  BY <1>8, <1>9

(* An answer for each search that waited.                                   *)
Replies(rs, found0) == [i \in DOMAIN rs |-> Mention!Answer(rs[i], found0)]

LEMMA RepliesAre ==
  ASSUME NEW rs \in Seq(SearchOf), NEW fs \in SUBSET Files
  PROVE  /\ Replies(rs, fs) \in Seq(AnswerTo) /\ Len(Replies(rs, fs)) = Len(rs)
         /\ DOMAIN Replies(rs, fs) = DOMAIN rs
         /\ \A i \in DOMAIN rs :
              /\ Replies(rs, fs)[i].query = rs[i].query /\ Replies(rs, fs)[i].id = rs[i].id
              /\ Replies(rs, fs)[i].view = rs[i].view
PROOF
<1>1. DOMAIN rs = 1..Len(rs) /\ Len(rs) \in Nat /\ \A i \in DOMAIN rs : rs[i] \in SearchOf
  BY ElementOfSeq, LenProperties
<1>2. \A i \in DOMAIN rs : Replies(rs, fs)[i] = Mention!Answer(rs[i], fs)
  BY DEF Replies
<1>3. \A i \in DOMAIN rs :
        /\ Mention!Answer(rs[i], fs) \in AnswerTo
        /\ Mention!Answer(rs[i], fs).query = rs[i].query /\ Mention!Answer(rs[i], fs).id = rs[i].id
        /\ Mention!Answer(rs[i], fs).view = rs[i].view
  BY <1>1 DEF Mention!Answer, Mention!Hits, AnswerTo, SearchOf
<1>4. Replies(rs, fs) \in [1..Len(rs) -> AnswerTo]
  BY <1>1, <1>2, <1>3 DEF Replies
<1>5. Replies(rs, fs) \in Seq(AnswerTo)
  BY <1>1, <1>4, SeqDef
<1>6. Len(Replies(rs, fs)) = Len(rs)
  BY <1>1, <1>4, <1>5, LenProperties DEF Replies
<1> QED
  BY <1>1, <1>2, <1>3, <1>5, <1>6 DEF Replies

LEMMA IndexBuiltKeeps ==
  ASSUME Mention!MentionAssumption, MentionInv, Mention!IndexBuilt
  PROVE  MentionInv'
PROOF
<1>1. PICK X \in SUBSET touched :
        /\ index' = (disk \ touched) \cup X /\ Mention!Posts(waiting, (disk \ touched) \cup X)
        /\ unfound' = unfound \cup Mention!Missing(waiting, (disk \ touched) \cup X, touched)
  BY DEF Mention!IndexBuilt
<1>2. PICK fs : fs = (disk \ touched) \cup X
  OBVIOUS
<1>3. /\ touched # Mention!NoBuild /\ fresh' = TRUE /\ unseen' = touched /\ touched' = Mention!NoBuild
      /\ waiting' = <<>> /\ UNCHANGED <<menus, searches, disk, dropped>>
  BY DEF Mention!IndexBuilt
<1>4. /\ searches \in Seq(SearchOf) /\ waiting \in Seq(SearchOf)
      /\ answers \in [Views -> Seq(AnswerTo)] /\ disk \subseteq Files /\ touched \subseteq Files
      /\ unfound = {}
  BY <1>3 DEF MentionInv, MentionTypeOK, Mention!FilesFound
<1>5. PICK rs : rs = Replies(waiting, fs)
  OBVIOUS
<1>6. /\ fs \in SUBSET Files /\ index' = fs /\ \A v \in Views : answers'[v] = answers[v] \o rs
      /\ answers' = [v \in Views |-> answers[v] \o rs]
  BY <1>1, <1>2, <1>4, <1>5 DEF Mention!Posts, Replies
<1>7. /\ rs \in Seq(AnswerTo) /\ Len(rs) = Len(waiting) /\ DOMAIN rs = DOMAIN waiting
      /\ \A i \in DOMAIN waiting : rs[i].query = waiting[i].query /\ rs[i].id = waiting[i].id
                                   /\ rs[i].view = waiting[i].view
  BY <1>4, <1>5, <1>6, RepliesAre
<1>8. ASSUME NEW v \in Views
      PROVE  /\ answers'[v] \in Seq(AnswerTo)
             /\ \A i \in DOMAIN answers[v] : i \in DOMAIN answers'[v] /\ answers'[v][i] = answers[v][i]
             /\ \A i \in DOMAIN rs : \E j \in DOMAIN answers'[v] : answers'[v][j] = rs[i]
             /\ \A j \in DOMAIN answers'[v] :
                  \/ j \in DOMAIN answers[v] /\ answers'[v][j] = answers[v][j]
                  \/ \E i \in DOMAIN rs : answers'[v][j] = rs[i]
  <2>1. PICK s : s = answers[v]
    OBVIOUS
  <2>2. PICK w : w = s \o rs
    OBVIOUS
  <2>3. s \in Seq(AnswerTo) /\ answers'[v] = w
    BY <1>4, <1>6, <2>1, <2>2
  <2>4. PICK k \in Nat, n \in Nat : k = Len(s) /\ n = Len(rs)
    BY <1>7, <2>3, LenProperties
  <2>5. /\ w \in Seq(AnswerTo) /\ Len(w) = k + n
        /\ \A i \in 1..(k + n) : w[i] = IF i <= k THEN s[i] ELSE rs[i - k]
    <3>1. Len(s \o rs) = k + n /\ s \o rs \in Seq(AnswerTo)
      BY <1>7, <2>3, <2>4, ConcatProperties
    <3>2. \A i \in 1..(k + n) : (s \o rs)[i] = IF i <= k THEN s[i] ELSE rs[i - k]
      BY <1>7, <2>3, <2>4, ConcatProperties
    <3> QED
      BY <2>2, <3>1, <3>2
  <2>6. DOMAIN w = 1..(k + n) /\ DOMAIN s = 1..k /\ DOMAIN rs = 1..n
    BY <1>7, <2>3, <2>4, <2>5, LenProperties
  <2>7. \A i \in DOMAIN s : i \in DOMAIN w /\ w[i] = s[i]
    BY <2>5, <2>6
  <2>8. ASSUME NEW i \in DOMAIN rs PROVE i + k \in DOMAIN w /\ w[i + k] = rs[i]
    <3>1. i + k \in 1..(k + n) /\ ~(i + k <= k) /\ (i + k) - k = i
      BY <2>6
    <3> QED
      BY <2>5, <2>6, <3>1
  <2>9. ASSUME NEW j \in DOMAIN w, j \notin DOMAIN s
        PROVE  j - k \in DOMAIN rs /\ w[j] = rs[j - k]
    <3>1. j \in 1..(k + n) /\ ~(j <= k) /\ j - k \in 1..n
      BY <2>6, <2>9
    <3> QED
      BY <2>5, <2>6, <3>1
  <2> QED
    BY <2>1, <2>3, <2>5, <2>7, <2>8, <2>9
<1>9. answers' \in [Views -> Seq(AnswerTo)]
  BY <1>6, <1>8
<1>10. ASSUME NEW v \in Views, NEW q, NEW n, Awaited(v, q, n)
       PROVE  Awaited(v, q, n)'
  <2>1. CASE \E i \in DOMAIN waiting :
               waiting[i].view = v /\ waiting[i].query = q /\ waiting[i].id = n
    <3>1. PICK i \in DOMAIN rs : rs[i].view = v /\ rs[i].query = q /\ rs[i].id = n
      BY <1>7, <2>1
    <3>2. PICK j \in DOMAIN answers'[v] : answers'[v][j] = rs[i]
      BY <1>8
    <3> QED
      BY <3>1, <3>2 DEF Awaited
  <2> QED
    BY <1>3, <1>8, <1>10, <2>1 DEF Awaited
<1>11. ASSUME NEW v \in Views, NEW n, NotNewer(v, n)
       PROVE  NotNewer(v, n)'
  <2>1. \A i \in DOMAIN rs : rs[i].view = v => rs[i].id <= n
    BY <1>7, <1>11 DEF NotNewer
  <2>2. ASSUME NEW j \in DOMAIN answers'[v], answers'[v][j].view = v
        PROVE  answers'[v][j].id <= n
    <3>1. CASE j \in DOMAIN answers[v] /\ answers'[v][j] = answers[v][j]
      BY <1>11, <2>2, <3>1 DEF NotNewer
    <3>2. CASE \E i \in DOMAIN rs : answers'[v][j] = rs[i]
      BY <2>1, <2>2, <3>2
    <3> QED
      BY <1>8, <3>1, <3>2
  <2> QED
    BY <1>3, <1>11, <2>2 DEF NotNewer
<1>12. Mention!Missing(waiting, fs, touched) = {} /\ IndexTells'
  BY <1>2, <1>3, <1>6 DEF Mention!Missing, Mention!Hits, IndexTells
<1>13. Mention!FilesFound'
  BY <1>1, <1>2, <1>4, <1>12 DEF Mention!FilesFound
<1>14. waiting' \in Seq(SearchOf)
  BY <1>3
<1> QED
  BY <1>3, <1>4, <1>6, <1>9, <1>10, <1>11, <1>12, <1>13, <1>14, HostMoves

LEMMA IndexFailsKeeps ==
  ASSUME MentionInv, Mention!IndexFails
  PROVE  MentionInv'
PROOF
<1>1. /\ touched' = Mention!NoBuild /\ waiting' = <<>>
      /\ dropped' = dropped \cup {[view |-> waiting[i].view, id |-> waiting[i].id] : i \in DOMAIN waiting}
      /\ UNCHANGED <<menus, searches, answers, disk, index, fresh, unseen, unfound>>
  BY DEF Mention!IndexFails
<1>2. /\ searches \in Seq(SearchOf) /\ answers \in [Views -> Seq(AnswerTo)] /\ disk \subseteq Files
      /\ index \subseteq Files
  BY DEF MentionInv, MentionTypeOK
<1>3. ASSUME NEW v \in Views, NEW q, NEW n, Awaited(v, q, n)
      PROVE  Awaited(v, q, n)' \/ [view |-> v, id |-> n] \in dropped'
  BY <1>1, <1>3 DEF Awaited
<1>4. ASSUME NEW v \in Views, NEW n, NotNewer(v, n)
      PROVE  NotNewer(v, n)'
  BY <1>1, <1>4 DEF NotNewer
<1>5. IndexTells' /\ Mention!FilesFound' /\ waiting' \in Seq(SearchOf)
  BY <1>1 DEF MentionInv, IndexTells, Mention!FilesFound
<1> QED
  BY <1>1, <1>2, <1>3, <1>4, <1>5, HostMoves

(* The files change.                                                        *)
LEMMA DiskMoves ==
  ASSUME MentionInv, NEW f \in Files,
         Mention!EditorChanges(f) \/ Mention!DiskChanges(f)
  PROVE  MentionInv'
PROOF
<1>1. /\ UNCHANGED <<menus, searches, waiting, answers, index, dropped, unfound>>
      /\ \/ disk' = Mention!Toggled(f) /\ touched' = Mention!Touched(f)
         \/ disk' = disk /\ touched' = touched
      /\ \/ fresh' = FALSE
         \/ disk' = Mention!Toggled(f) /\ fresh' = fresh /\ unseen' = unseen \cup {f}
  BY DEF Mention!EditorChanges, Mention!DiskChanges
<1>2. /\ searches \in Seq(SearchOf) /\ waiting \in Seq(SearchOf)
      /\ answers \in [Views -> Seq(AnswerTo)] /\ disk \subseteq Files /\ index \subseteq Files
      /\ (touched = Mention!NoBuild \/ touched \subseteq Files)
  BY DEF MentionInv, MentionTypeOK
<1>3. disk' \subseteq Files /\ (touched' = Mention!NoBuild \/ touched' \subseteq Files)
  BY <1>1, <1>2 DEF Mention!Toggled, Mention!Touched
<1>4. IndexTells'
  BY <1>1 DEF MentionInv, IndexTells, Mention!Toggled
<1>5. Mention!FilesFound'
  BY <1>1 DEF MentionInv, Mention!FilesFound
<1>6. \A v \in Views : \A q, n : Awaited(v, q, n) => Awaited(v, q, n)'
  BY <1>1 DEF Awaited
<1>7. \A v \in Views : \A n : NotNewer(v, n) => NotNewer(v, n)'
  BY <1>1 DEF NotNewer
<1> QED
  BY <1>1, <1>2, <1>3, <1>4, <1>5, <1>6, <1>7, HostMoves

LEMMA ExpiresKeeps ==
  ASSUME MentionInv, Mention!Expires \/ UNCHANGED Mention!vars
  PROVE  MentionInv'
PROOF
<1>1. /\ UNCHANGED <<menus, searches, waiting, answers, disk, touched, index, unseen, dropped, unfound>>
      /\ (fresh' = FALSE \/ fresh' = fresh)
  BY DEF Mention!Expires, Mention!vars, Mention!hostIndex
<1>2. /\ searches \in Seq(SearchOf) /\ waiting \in Seq(SearchOf)
      /\ answers \in [Views -> Seq(AnswerTo)] /\ disk \subseteq Files /\ index \subseteq Files
      /\ (touched = Mention!NoBuild \/ touched \subseteq Files)
  BY DEF MentionInv, MentionTypeOK
<1>3. IndexTells' /\ Mention!FilesFound'
  BY <1>1 DEF MentionInv, IndexTells, Mention!FilesFound
<1>4. \A v \in Views : \A q, n : Awaited(v, q, n) => Awaited(v, q, n)'
  BY <1>1 DEF Awaited
<1>5. \A v \in Views : \A n : NotNewer(v, n) => NotNewer(v, n)'
  BY <1>1 DEF NotNewer
<1> QED
  BY <1>1, <1>2, <1>3, <1>4, <1>5, HostMoves

LEMMA MentionKeptByStep ==
  ASSUME Mention!MentionAssumption, MentionInv, [Mention!Next]_(Mention!vars)
  PROVE  MentionInv'
PROOF
<1>1. CASE Mention!Next
  <2>1. ASSUME NEW v \in Views, NEW q \in Queries \cup {"none"}, Mention!Types(v, q) PROVE MentionInv'
    BY <2>1, TypesKeeps DEF MaybeQuery
  <2>2. ASSUME NEW v \in Views, Mention!Searches(v) PROVE MentionInv'
    BY <2>2, SearchesKeeps
  <2>3. ASSUME NEW v \in Views, Mention!Arrows(v) PROVE MentionInv'
    BY <2>3, ArrowsKeeps
  <2>4. ASSUME NEW v \in Views, Mention!Chooses(v) \/ Mention!Closes(v) PROVE MentionInv'
    BY <2>4, ClosesKeeps
  <2>5. ASSUME NEW v \in Views, Mention!Accepts(v) PROVE MentionInv'
    BY <2>5, MentionAcceptsKeeps
  <2>6. ASSUME NEW f \in Files, Mention!EditorChanges(f) \/ Mention!DiskChanges(f) PROVE MentionInv'
    BY <2>6, DiskMoves
  <2>7. CASE Mention!Expires
    BY <2>7, ExpiresKeeps
  <2> QED
    BY <1>1, <2>1, <2>2, <2>3, <2>4, <2>5, <2>6, <2>7, MentionHostTakesKeeps, IndexBuiltKeeps,
       IndexFailsKeeps DEF Mention!Next
<1>2. CASE UNCHANGED Mention!vars
  BY <1>2, ExpiresKeeps
<1> QED
  BY <1>1, <1>2

(* A menu that has nothing under way shows the answer.                      *)
LEMMA MentionImplies ==
  ASSUME Mention!MentionAssumption, MentionInv
  PROVE  Mention!MentionSettles
PROOF
<1>1. ASSUME NEW v \in Views, menus[v].active # "none", ~Mention!UnderWay(v)
      PROVE  \/ menus[v].menu # "searching" /\ menus[v].list.query = menus[v].active
             \/ menus[v].mixed \/ [view |-> v, id |-> menus[v].request] \in dropped
  <2>1. Settled(menus[v], v)
    BY <1>1 DEF MentionInv, MenusSettled
  <2>2. ~Awaited(v, menus[v].active, menus[v].request) /\ menus[v].timer = Mention!NoTimer
    BY <1>1 DEF Mention!UnderWay, Awaited
  <2>3. menus[v].timer # [query |-> menus[v].active, id |-> menus[v].request]
    BY <1>1, <2>2 DEF Mention!NoTimer
  <2> QED
    BY <2>1, <2>2, <2>3 DEF Settled
<1>2. Mention!SearchNotLost
  BY <1>1 DEF Mention!SearchNotLost
<1> QED
  BY <1>2 DEF MentionInv, Mention!MentionSettles

-----------------------------------------------------------------------------
(* The context of a prompt.                                                 *)

MaybeSelection == Selections \cup {"none"}
WebMessage == [kind : {"selection"}, value : MaybeSelection] \cup [kind : {"auto"}, value : BOOLEAN]
Sent == [kind : {"send"}, selection : MaybeSelection, files : SUBSET Attachments]
HostMessage == [kind : {"attach"}] \cup Sent

ContextTypeOK ==
  /\ selection \in MaybeSelection /\ available \in MaybeSelection /\ staged \in MaybeSelection
  /\ cache \in Seq(Selections) /\ newer \in [Selections -> SUBSET Selections]
  /\ toWeb \in Seq(WebMessage) /\ toHost \in Seq(HostMessage) /\ attached \in Seq(Attachments)

(* What was captured after a selection of the cache is what follows it      *)
(* there, ...                                                               *)
CacheInOrder ==
  /\ Len(cache) <= MaxCached
  /\ \A i, j \in DOMAIN cache : cache[i] = cache[j] => i = j
  /\ \A s \in Selections : IsFiniteSet(newer[s])
  /\ \A i \in DOMAIN cache :
       /\ \A t \in newer[cache[i]] : \E j \in DOMAIN cache : i < j /\ cache[j] = t
       /\ Len(cache) - i <= Cardinality(newer[cache[i]])

(* ... and one that was captured is in the cache or was displaced.          *)
Carried(s) ==
  s # "none" => (\E i \in DOMAIN cache : cache[i] = s) \/ MaxCached <= Cardinality(newer[s])
ChipsCarried ==
  /\ Carried(available) /\ Carried(staged)
  /\ \A i \in DOMAIN toWeb : toWeb[i].kind = "selection" => Carried(toWeb[i].value)
  /\ \A i \in DOMAIN toHost : toHost[i].kind = "send" => Carried(toHost[i].selection)

ReadingCarries ==
  \A r \in reading : r.selection = r.sent.selection \/ (r.selection = "none" /\ r.displaced)

ContextInv ==
  /\ ContextTypeOK /\ CacheInOrder /\ ChipsCarried /\ ReadingCarries
  /\ Context!PromptCarriesChips /\ Context!RemovedStaysOff
  /\ declined # "none" => ignored = declined

LEMMA ContextInit ==
  ASSUME Context!Init
  PROVE  ContextInv
PROOF
<1>1. cache = <<>> /\ newer = [s \in Selections |-> {}] /\ toWeb = <<>> /\ toHost = <<>>
      /\ attached = <<>> /\ available = "none" /\ staged = "none" /\ selection = "none"
      /\ reading = {} /\ prompts = {} /\ declined = "none"
  BY DEF Context!Init
<1>2. ContextTypeOK
  BY <1>1 DEF ContextTypeOK, MaybeSelection
<1>3. CacheInOrder
  <2>1. Len(cache) = 0 /\ DOMAIN cache = {}
    BY <1>1
  <2>2. Context!ContextAssumption
    BY PromptStateAssumption
  <2>3. \A s \in Selections : IsFiniteSet(newer[s])
    BY <1>1, FS_EmptySet
  <2> QED
    BY <2>1, <2>2, <2>3 DEF CacheInOrder, Context!ContextAssumption
<1> QED
  BY <1>1, <1>2, <1>3 DEF ContextInv, ChipsCarried, Carried, ReadingCarries,
     Context!PromptCarriesChips, Context!RemovedStaysOff

(* The end of a sequence.                                                   *)
LEMMA LastOfIs ==
  ASSUME NEW S, NEW s \in Seq(S), NEW n \in Nat
  PROVE  LET r == Context!LastOf(s, n)
         IN  /\ r \in Seq(S) /\ Len(s) \in Nat
             /\ Len(s) <= n => Len(r) = Len(s) /\ \A i \in DOMAIN r : r[i] = s[i]
             /\ Len(s) > n => Len(r) = n /\ \A i \in DOMAIN r : r[i] = s[Len(s) - n + i]
PROOF
<1>0. PICK r : r = Context!LastOf(s, n)
  OBVIOUS
<1>1. PICK m : m = IF Len(s) > n THEN Len(s) - n + 1 ELSE 1
  OBVIOUS
<1>2. Len(s) \in Nat /\ m \in 1..(Len(s) + 1) /\ r = SubSeq(s, m, Len(s))
  BY <1>0, <1>1, LenProperties DEF Context!LastOf
<1>3. /\ r \in Seq(S) /\ Len(r) = Len(s) - m + 1
      /\ \A i \in 1..(Len(s) - m + 1) : r[i] = s[m + i - 1]
  BY <1>2, SubSeqProperties
<1>4. DOMAIN r = 1..(Len(s) - m + 1)
  BY <1>3, LenProperties
<1>5. CASE Len(s) > n
  <2>1. m = Len(s) - n + 1
    BY <1>1, <1>5
  <2>2. \A i \in 1..n : m + i - 1 = Len(s) - n + i
    BY <1>2, <2>1
  <2>3. Len(s) - m + 1 = n
    BY <1>2, <2>1
  <2>4. Len(r) = n /\ \A i \in DOMAIN r : r[i] = s[Len(s) - n + i]
    BY <1>3, <1>4, <2>2, <2>3
  <2> QED
    BY <1>0, <1>2, <1>3, <1>5, <2>4
<1>6. CASE ~(Len(s) > n)
  <2>1. m = 1
    BY <1>1, <1>6
  <2>2. Len(s) - m + 1 = Len(s)
    BY <1>2, <2>1
  <2>3. \A i \in 1..Len(s) : m + i - 1 = i
    BY <1>2, <2>1
  <2>4. Len(r) = Len(s) /\ \A i \in DOMAIN r : r[i] = s[i]
    BY <1>3, <1>4, <2>2, <2>3
  <2> QED
    BY <1>0, <1>2, <1>3, <1>6, <2>4
<1> QED
  BY <1>0, <1>2, <1>3, <1>5, <1>6

(* The cache once a selection is captured: it comes last, where it was the  *)
(* others close up, and if it is a new one in a full cache the first goes   *)
(* (m = 0).                                                                 *)
Shifted(c, t, r, m) ==
  /\ \A k \in DOMAIN c : k = m <=> c[k] = t
  /\ m = 0 => Len(c) = MaxCached
  /\ Len(r) = IF m = Len(c) + 1 THEN Len(c) + 1 ELSE Len(c)
  /\ \A i \in 1..(Len(r) - 1) : r[i] = IF i < m THEN c[i] ELSE c[i + 1]

LEMMA RememberedIs ==
  ASSUME NEW c \in Seq(Selections), \A i, j \in DOMAIN c : c[i] = c[j] => i = j,
         Len(c) <= MaxCached, MaxCached \in Nat \ {0}, NEW t \in Selections
  PROVE  LET r == Context!Remembered(c, t) IN
         /\ r \in Seq(Selections) /\ Len(r) \in Nat \ {0} /\ Len(r) <= MaxCached /\ Len(c) \in Nat
         /\ r[Len(r)] = t
         /\ \E m \in 0..(Len(c) + 1) : Shifted(c, t, r, m)
PROOF
<1>0. PICK r : r = Context!Remembered(c, t)
  OBVIOUS
<1>1. Len(c) \in Nat /\ DOMAIN c = 1..Len(c)
  BY LenProperties
<1>2. CASE Context!Contains(c, t)
  <2>1. PICK m : m = Context!Place(c, t)
    OBVIOUS
  <2>2. m \in DOMAIN c /\ c[m] = t
    <3>1. \E i \in DOMAIN c : c[i] = t
      BY <1>1, <1>2 DEF Context!Contains
    <3> QED
      BY <2>1, <3>1 DEF Context!Place
  <2>3. PICK d : d = Shortened(c, m)
    OBVIOUS
  <2>4. /\ d \in Seq(Selections) /\ Len(d) = Len(c) - 1
        /\ \A i \in DOMAIN d : i \in Nat /\ d[i] = IF i < m THEN c[i] ELSE c[i + 1]
    BY <2>2, <2>3, ShortenedIs
  <2>5. r = Context!LastOf(Append(d, t), MaxCached)
    BY <1>0, <1>2, <2>1, <2>3 DEF Context!Remembered, Context!Forgotten, Context!RemoveAt,
           Shortened
  <2>6. PICK e : e = Append(d, t)
    OBVIOUS
  <2>7. /\ e \in Seq(Selections) /\ Len(e) = Len(c) /\ e[Len(c)] = t
        /\ \A i \in DOMAIN d : e[i] = d[i]
    <3>1. /\ e \in Seq(Selections) /\ Len(e) = Len(d) + 1 /\ e[Len(d) + 1] = t
          /\ \A i \in DOMAIN d : e[i] = d[i]
      BY <2>4, <2>6, AppendOf
    <3>2. Len(d) + 1 = Len(c)
      BY <1>1, <2>4
    <3> QED
      BY <3>1, <3>2
  <2>8. r \in Seq(Selections) /\ Len(r) = Len(c) /\ \A i \in DOMAIN r : r[i] = e[i]
    <3>1. r = Context!LastOf(e, MaxCached) /\ Len(e) <= MaxCached
      BY <2>5, <2>6, <2>7
    <3> QED
      BY <2>7, <3>1, LastOfIs
  <2>9. DOMAIN r = 1..Len(c) /\ DOMAIN d = 1..(Len(c) - 1) /\ m \in 1..Len(c)
    BY <1>1, <2>2, <2>4, <2>8, LenProperties
  <2>10. \A i \in 1..(Len(c) - 1) : r[i] = IF i < m THEN c[i] ELSE c[i + 1]
    <3>1. SUFFICES ASSUME NEW i \in 1..(Len(c) - 1)
                   PROVE  r[i] = IF i < m THEN c[i] ELSE c[i + 1]
      OBVIOUS
    <3>2. i \in DOMAIN r /\ i \in DOMAIN d
      BY <1>1, <2>9
    <3> QED
      BY <2>4, <2>7, <2>8, <3>2
  <2>11. Len(r) \in Nat \ {0} /\ r[Len(r)] = t
    BY <1>1, <2>7, <2>8, <2>9
  <2>12. m \in 0..(Len(c) + 1) /\ m # 0 /\ m # Len(c) + 1
    BY <1>1, <2>9
  <2>13. \A k \in DOMAIN c : k = m <=> c[k] = t
    BY <2>2
  <2>14. Shifted(c, t, r, m)
    BY <2>8, <2>10, <2>12, <2>13 DEF Shifted
  <2> QED
    BY <1>0, <1>1, <2>8, <2>11, <2>12, <2>14
<1>3. CASE ~Context!Contains(c, t)
  <2>1. \A k \in DOMAIN c : c[k] # t
    BY <1>1, <1>3 DEF Context!Contains
  <2>2. r = Context!LastOf(Append(c, t), MaxCached)
    BY <1>0, <1>3 DEF Context!Remembered, Context!Forgotten
  <2>3. PICK e : e = Append(c, t)
    OBVIOUS
  <2>4. /\ e \in Seq(Selections) /\ Len(e) = Len(c) + 1 /\ e[Len(c) + 1] = t
        /\ \A i \in DOMAIN c : e[i] = c[i]
    BY <2>3, AppendOf
  <2>5. CASE Len(c) < MaxCached
    <3>1. Len(e) <= MaxCached
      BY <1>1, <2>4, <2>5
    <3>2. r \in Seq(Selections) /\ Len(r) = Len(c) + 1 /\ \A i \in DOMAIN r : r[i] = e[i]
      <4>1. r = Context!LastOf(e, MaxCached)
        BY <2>2, <2>3
      <4>2. Len(r) = Len(e) /\ r \in Seq(Selections) /\ \A i \in DOMAIN r : r[i] = e[i]
        BY <2>4, <3>1, <4>1, LastOfIs
      <4> QED
        BY <2>4, <4>2
    <3>3. DOMAIN r = 1..(Len(c) + 1)
      BY <1>1, <3>2, LenProperties
    <3>4. /\ \A k \in DOMAIN c : k = Len(c) + 1 <=> c[k] = t
          /\ Len(c) + 1 \in 0..(Len(c) + 1) /\ Len(c) + 1 # 0
      BY <1>1, <2>1
    <3>5. \A i \in 1..Len(c) : i < Len(c) + 1 /\ r[i] = c[i]
      BY <1>1, <2>4, <3>2, <3>3
    <3>6. Len(r) - 1 = Len(c) /\ Len(r) \in Nat \ {0} /\ r[Len(r)] = t /\ Len(r) <= MaxCached
      BY <1>1, <2>4, <2>5, <3>2, <3>3
    <3>7. \A i \in 1..(Len(r) - 1) : r[i] = IF i < Len(c) + 1 THEN c[i] ELSE c[i + 1]
      BY <3>5, <3>6
    <3>8. Shifted(c, t, r, Len(c) + 1)
      BY <3>2, <3>4, <3>7 DEF Shifted
    <3> QED
      BY <1>0, <1>1, <3>2, <3>4, <3>6, <3>8
  <2>6. CASE ~(Len(c) < MaxCached)
    <3>1. Len(e) > MaxCached /\ Len(c) = MaxCached
      <4>1. Len(e) = Len(c) + 1 /\ Len(c) \in Nat /\ MaxCached \in Nat /\ Len(c) <= MaxCached
        BY <1>1, <2>4
      <4> QED
        BY <2>6, <4>1
    <3>2. r \in Seq(Selections) /\ Len(r) = Len(c)
          /\ \A i \in DOMAIN r : r[i] = e[Len(e) - MaxCached + i]
      <4>1. r = Context!LastOf(e, MaxCached)
        BY <2>2, <2>3
      <4>2. Len(r) = MaxCached /\ r \in Seq(Selections)
            /\ \A i \in DOMAIN r : r[i] = e[Len(e) - MaxCached + i]
        BY <2>4, <3>1, <4>1, LastOfIs
      <4> QED
        BY <3>1, <4>2
    <3>3. DOMAIN r = 1..Len(c)
      BY <1>1, <3>2, LenProperties
    <3>4. \A i \in 1..Len(c) : r[i] = e[i + 1]
      <4>1. Len(e) - MaxCached = 1
        BY <1>1, <2>4, <3>1
      <4> QED
        BY <3>2, <3>3, <4>1
    <3>5. \A i \in 1..(Len(c) - 1) : r[i] = c[i + 1] /\ ~(i < 0)
      BY <1>1, <2>4, <3>4
    <3>6. Len(r) \in Nat \ {0} /\ r[Len(r)] = t /\ Len(r) <= MaxCached
      BY <1>1, <2>4, <3>1, <3>2, <3>4
    <3>7. \A k \in DOMAIN c : k = 0 <=> c[k] = t
      BY <1>1, <2>1
    <3>8. \A i \in 1..(Len(r) - 1) : r[i] = IF i < 0 THEN c[i] ELSE c[i + 1]
      BY <3>2, <3>5
    <3>9. 0 \in 0..(Len(c) + 1) /\ 0 # Len(c) + 1
      BY <1>1
    <3>10. Shifted(c, t, r, 0)
      BY <3>1, <3>2, <3>7, <3>8, <3>9 DEF Shifted
    <3> QED
      BY <1>0, <1>1, <3>2, <3>6, <3>9, <3>10
  <2> QED
    BY <2>5, <2>6
<1> QED
  BY <1>0, <1>2, <1>3

(* A capture keeps the order of the cache and what was captured before.     *)
LEMMA CapturesKeep ==
  ASSUME Context!ContextAssumption, ContextTypeOK, CacheInOrder, Context!Captures,
         NEW chip \in MaybeSelection
  PROVE  /\ cache' \in Seq(Selections) /\ newer' \in [Selections -> SUBSET Selections]
         /\ CacheInOrder' /\ (Carried(chip) \/ chip = selection => Carried(chip)')
PROOF
<1>1. CASE selection = "none"
  <2>1. cache' = cache /\ newer' = newer
    BY <1>1 DEF Context!Captures, Context!memory
  <2>2. CacheInOrder' <=> CacheInOrder
    BY <2>1 DEF CacheInOrder
  <2>3. Carried(chip)' <=> Carried(chip)
    BY <2>1 DEF Carried
  <2>4. chip = selection => Carried(chip)
    BY <1>1 DEF Carried
  <2> QED
    BY <2>1, <2>2, <2>3, <2>4 DEF ContextTypeOK
<1>2. CASE selection # "none"
  <2>1. PICK t : t = selection
    OBVIOUS
  <2>2. /\ t \in Selections /\ MaxCached \in Nat \ {0} /\ cache \in Seq(Selections)
        /\ newer \in [Selections -> SUBSET Selections]
    BY <1>2, <2>1 DEF ContextTypeOK, MaybeSelection, Context!ContextAssumption
  <2>3. /\ cache' = Context!Remembered(cache, t)
        /\ newer' = [s \in Selections |-> IF s = t THEN {} ELSE newer[s] \cup {t}]
    BY <1>2, <2>1 DEF Context!Captures
  <2>4. Len(cache) <= MaxCached /\ \A i, j \in DOMAIN cache : cache[i] = cache[j] => i = j
    BY DEF CacheInOrder
  <2>5. /\ cache' \in Seq(Selections) /\ Len(cache') \in Nat \ {0} /\ Len(cache') <= MaxCached
        /\ Len(cache) \in Nat /\ cache'[Len(cache')] = t
    BY <2>2, <2>3, <2>4, RememberedIs
  <2>6. PICK m \in 0..(Len(cache) + 1) :
          /\ \A k \in DOMAIN cache : k = m <=> cache[k] = t
          /\ m = 0 => Len(cache) = MaxCached
          /\ Len(cache') = IF m = Len(cache) + 1 THEN Len(cache) + 1 ELSE Len(cache)
          /\ \A i \in 1..(Len(cache') - 1) : cache'[i] = IF i < m THEN cache[i] ELSE cache[i + 1]
    <3>1. PICK m \in 0..(Len(cache) + 1) : Shifted(cache, t, cache', m)
      BY <2>2, <2>3, <2>4, RememberedIs
    <3> QED
      BY <3>1 DEF Shifted
  <2>7. DOMAIN cache = 1..Len(cache) /\ DOMAIN cache' = 1..Len(cache')
    BY <2>2, <2>5, LenProperties
  <2>8. /\ newer' \in [Selections -> SUBSET Selections]
        /\ \A s \in Selections : newer'[s] = IF s = t THEN {} ELSE newer[s] \cup {t}
    BY <2>2, <2>3
  <2>9. \A s \in Selections : IsFiniteSet(newer[s]) /\ IsFiniteSet(newer'[s])
        /\ (s # t => Cardinality(newer'[s]) =
              IF t \in newer[s] THEN Cardinality(newer[s]) ELSE Cardinality(newer[s]) + 1)
        /\ Cardinality(newer[s]) \in Nat
    <3>1. \A s \in Selections : IsFiniteSet(newer[s])
      BY DEF CacheInOrder
    <3>2. SUFFICES ASSUME NEW s \in Selections
                   PROVE  /\ IsFiniteSet(newer[s]) /\ IsFiniteSet(newer'[s])
                          /\ (s # t => Cardinality(newer'[s]) =
                                IF t \in newer[s] THEN Cardinality(newer[s])
                                ELSE Cardinality(newer[s]) + 1)
                          /\ Cardinality(newer[s]) \in Nat
      OBVIOUS
    <3>3. PICK n : n = newer[s]
      OBVIOUS
    <3>4. /\ IsFiniteSet(n) /\ IsFiniteSet(n \cup {t}) /\ Cardinality(n) \in Nat
          /\ Cardinality(n \cup {t}) = IF t \in n THEN Cardinality(n) ELSE Cardinality(n) + 1
      BY <3>1, <3>3, FS_AddElement, FS_CardinalityType
    <3>5. newer'[s] = IF s = t THEN {} ELSE n \cup {t}
      BY <2>8, <3>3
    <3> QED
      BY <3>3, <3>4, <3>5, FS_EmptySet
  (* The place of an element of the cache, once t has come to its end.      *)
  <2>10. ASSUME NEW k \in DOMAIN cache, k # m, k # 1 \/ m # 0
         PROVE  LET i == IF k < m THEN k ELSE k - 1
                IN i \in 1..(Len(cache') - 1) /\ cache'[i] = cache[k]
    <3>1. k \in 1..Len(cache) /\ m \in Int /\ Len(cache) \in Nat /\ Len(cache') \in Nat
      BY <2>5, <2>6, <2>7
    <3>2. CASE k < m
      BY <2>6, <3>1, <3>2
    <3>3. CASE ~(k < m)
      <4>1. k - 1 \in 1..(Len(cache') - 1) /\ ~(k - 1 < m) /\ k - 1 + 1 = k
        BY <2>6, <2>10, <3>1, <3>3
      <4> QED
        BY <2>6, <3>3, <4>1
    <3> QED
      BY <3>2, <3>3
  <2>11. ASSUME NEW i \in 1..(Len(cache') - 1)
         PROVE  LET k == IF i < m THEN i ELSE i + 1
                IN k \in DOMAIN cache /\ k # m /\ cache'[i] = cache[k] /\ cache[k] # t
    <3>1. i \in 1..(Len(cache') - 1) /\ m \in Int /\ Len(cache) \in Nat /\ Len(cache') \in Nat
      BY <2>5, <2>6
    <3>2. CASE i < m
      BY <2>6, <2>7, <3>1, <3>2
    <3>3. CASE ~(i < m)
      BY <2>6, <2>7, <3>1, <3>3
    <3> QED
      BY <3>2, <3>3
  <2>12. \A i, j \in DOMAIN cache' : cache'[i] = cache'[j] => i = j
    <3>1. SUFFICES ASSUME NEW i \in 1..Len(cache'), NEW j \in 1..Len(cache'), cache'[i] = cache'[j]
                   PROVE  i = j
      BY <2>7
    <3>2. CASE i = Len(cache') \/ j = Len(cache')
      BY <2>5, <2>11, <3>1, <3>2
    <3>3. CASE i # Len(cache') /\ j # Len(cache')
      <4>1. i \in 1..(Len(cache') - 1) /\ j \in 1..(Len(cache') - 1) /\ m \in Int
        BY <2>5, <2>6, <3>3
      <4>2. PICK k : k = IF i < m THEN i ELSE i + 1
        OBVIOUS
      <4>3. PICK l : l = IF j < m THEN j ELSE j + 1
        OBVIOUS
      <4>4. k \in DOMAIN cache /\ l \in DOMAIN cache /\ k # m /\ l # m /\ cache[k] = cache[l]
        BY <2>11, <3>1, <4>1, <4>2, <4>3
      <4>5. k = l
        BY <2>4, <4>4
      <4> QED
        BY <4>1, <4>2, <4>3, <4>4, <4>5
    <3> QED
      BY <3>2, <3>3
  <2>13. ASSUME NEW i \in DOMAIN cache'
         PROVE  /\ \A u \in newer'[cache'[i]] : \E j \in DOMAIN cache' : i < j /\ cache'[j] = u
                /\ Len(cache') - i <= Cardinality(newer'[cache'[i]])
    <3>1. CASE i = Len(cache')
      <4>1. newer'[cache'[i]] = {}
        BY <2>2, <2>5, <2>8, <3>1
      <4>2. Len(cache') - i = 0 /\ Cardinality({}) = 0
        BY <2>5, <3>1, FS_EmptySet
      <4> QED
        BY <4>1, <4>2
    <3>2. CASE i # Len(cache')
      <4>1. i \in 1..(Len(cache') - 1) /\ m \in Int /\ Len(cache') \in 1..Len(cache')
        BY <2>5, <2>6, <2>7, <3>2
      <4>2. PICK k : k = IF i < m THEN i ELSE i + 1
        OBVIOUS
      <4>3. k \in DOMAIN cache /\ k # m /\ cache'[i] = cache[k] /\ cache[k] # t
            /\ cache[k] \in Selections
        BY <2>2, <2>11, <4>1, <4>2, ElementOfSeq
      <4>4. newer'[cache'[i]] = newer[cache[k]] \cup {t}
        BY <2>8, <4>3
      <4>5. /\ \A u \in newer[cache[k]] : \E j \in DOMAIN cache : k < j /\ cache[j] = u
            /\ Len(cache) - k <= Cardinality(newer[cache[k]])
        BY <4>3 DEF CacheInOrder
      <4>6. ASSUME NEW u \in newer'[cache'[i]]
            PROVE  \E j \in DOMAIN cache' : i < j /\ cache'[j] = u
        <5>1. CASE u = t
          <6>1. Len(cache') \in DOMAIN cache' /\ i < Len(cache') /\ cache'[Len(cache')] = t
            BY <2>5, <2>7, <4>1
          <6> QED
            BY <5>1, <6>1
        <5>2. CASE u # t
          <6>1. PICK l \in DOMAIN cache : k < l /\ cache[l] = u
            BY <4>4, <4>5, <4>6, <5>2
          <6>2. l # m /\ k \in Nat /\ l \in Nat /\ l # 1
            BY <2>6, <2>7, <4>3, <5>2, <6>1
          <6>3. PICK j : j = IF l < m THEN l ELSE l - 1
            OBVIOUS
          <6>4. j \in 1..(Len(cache') - 1) /\ cache'[j] = u
            BY <2>10, <6>1, <6>2, <6>3
          <6>5. i < j /\ j \in DOMAIN cache'
            BY <2>5, <2>7, <4>1, <4>2, <4>3, <6>1, <6>2, <6>3, <6>4
          <6> QED
            BY <6>4, <6>5
        <5> QED
          BY <5>1, <5>2
      <4>7. Len(cache') - i <= Cardinality(newer'[cache'[i]])
        <5>1. PICK a \in Nat, b \in Nat :
                /\ a = Cardinality(newer[cache[k]]) /\ b = Cardinality(newer'[cache'[i]])
                /\ b = IF t \in newer[cache[k]] THEN a ELSE a + 1
          <6>1. Cardinality(newer[cache[k]]) \in Nat
            BY <2>9, <4>3
          <6> QED
            BY <2>9, <4>3, <6>1
        <5>2. k \in Nat /\ i \in Nat /\ Len(cache) - k <= a /\ Len(cache) \in Nat
              /\ Len(cache') \in Nat
          BY <2>5, <2>7, <4>1, <4>3, <4>5, <5>1
        <5>3. CASE i < m /\ m # Len(cache) + 1
          BY <2>6, <4>2, <5>1, <5>2, <5>3
        <5>4. CASE ~(i < m) \/ m = Len(cache) + 1
          <6>1. t \notin newer[cache[k]]
            <7>1. SUFFICES ASSUME NEW l \in DOMAIN cache, k < l, cache[l] = t
                           PROVE  FALSE
              BY <4>5
            <7>2. l = m /\ l \in 1..Len(cache)
              BY <2>6, <2>7, <7>1
            <7> QED
              BY <4>1, <4>2, <5>2, <5>4, <7>1, <7>2
          <6>2. b = a + 1
            BY <5>1, <6>1
          <6>3. Len(cache') - i <= Len(cache) - k + 1
            <7>1. CASE m = Len(cache) + 1
              <8>1. Len(cache') = Len(cache) + 1
                BY <2>6, <7>1
              <8>2. k = i
                BY <4>1, <4>2, <5>2, <7>1, <8>1
              <8> QED
                BY <5>2, <8>1, <8>2
            <7>2. CASE m # Len(cache) + 1
              <8>1. Len(cache') = Len(cache) /\ k = i + 1
                BY <2>6, <4>2, <5>4, <7>2
              <8> QED
                BY <5>2, <8>1
            <7> QED
              BY <7>1, <7>2
          <6> QED
            BY <5>1, <5>2, <6>2, <6>3
        <5> QED
          BY <5>3, <5>4
      <4> QED
        BY <4>6, <4>7
    <3> QED
      BY <3>1, <3>2
  <2>14. CacheInOrder'
    BY <2>5, <2>9, <2>12, <2>13 DEF CacheInOrder
  <2>15. ASSUME Carried(chip) \/ chip = selection
         PROVE  Carried(chip)'
    <3>1. CASE chip \in {t, "none"}
      <4>1. Len(cache') \in DOMAIN cache'
        BY <2>5, <2>7
      <4> QED
        BY <2>5, <3>1, <4>1 DEF Carried
    <3>2. CASE chip \notin {t, "none"}
      <4>1. PICK a \in Nat, b \in Nat :
              /\ a = Cardinality(newer[chip]) /\ b = Cardinality(newer'[chip])
              /\ b = IF t \in newer[chip] THEN a ELSE a + 1
        <5>1. chip \in Selections
          BY <3>2 DEF MaybeSelection
        <5> QED
          BY <2>9, <3>2, <5>1
      <4>2. CASE MaxCached <= Cardinality(newer[chip])
        BY <2>2, <4>1, <4>2 DEF Carried
      <4>3. ASSUME NEW k \in DOMAIN cache, cache[k] = chip
            PROVE  Carried(chip)'
        <5>1. k # m /\ k \in Nat
          BY <2>6, <2>7, <3>2, <4>3
        <5>2. CASE k = 1 /\ m = 0
          <6>1. /\ \A u \in newer[chip] : \E j \in DOMAIN cache : cache[j] = u
                /\ Len(cache) - 1 <= a
            BY <4>1, <4>3, <5>2 DEF CacheInOrder
          <6>2. Len(cache) = MaxCached /\ \A j \in DOMAIN cache : cache[j] # t
            BY <2>6, <2>7, <5>2
          <6>3. b = a + 1
            BY <4>1, <6>1, <6>2
          <6>4. MaxCached <= b
            BY <2>2, <4>1, <6>1, <6>2, <6>3
          <6> QED
            BY <4>1, <6>4 DEF Carried
        <5>3. CASE ~(k = 1 /\ m = 0)
          <6>1. PICK i : i = IF k < m THEN k ELSE k - 1
            OBVIOUS
          <6>2. i \in 1..(Len(cache') - 1) /\ cache'[i] = chip
            BY <2>10, <4>3, <5>1, <5>3, <6>1
          <6>3. i \in DOMAIN cache'
            BY <2>5, <2>7, <6>2
          <6> QED
            BY <6>2, <6>3 DEF Carried
        <5> QED
          BY <5>2, <5>3
      <4> QED
        BY <2>1, <2>15, <3>2, <4>2, <4>3 DEF Carried
    <3> QED
      BY <3>1, <3>2
  <2> QED
    BY <2>5, <2>8, <2>14, <2>15
<1> QED
  BY <1>1, <1>2

(* A step that captures nothing.                                            *)
LEMMA CarriedStays ==
  ASSUME UNCHANGED <<cache, newer>>, NEW s
  PROVE  Carried(s)' <=> Carried(s)
PROOF BY DEF Carried

LEMMA ContextMoves ==
  ASSUME ContextInv, UNCHANGED <<cache, newer, reading, prompts>>, ContextTypeOK', ChipsCarried',
         declined' # "none" => staged' # declined' /\ ignored' = declined'
  PROVE  ContextInv'
PROOF
<1>1. CacheInOrder' /\ ReadingCarries' /\ Context!PromptCarriesChips'
  BY DEF ContextInv, CacheInOrder, ReadingCarries, Context!PromptCarriesChips
<1> QED
  BY <1>1 DEF ContextInv, Context!RemovedStaysOff

(* A selection is published or sent to the webview that asked for it.       *)
LEMMA PostsKeeps ==
  ASSUME Context!ContextAssumption, ContextInv, Context!PostsSelection,
         UNCHANGED <<selection, available, staged, ignored, attached, reading, prompts, declined>>,
         toHost' \in Seq(HostMessage),
         \A i \in DOMAIN toHost' : \E j \in DOMAIN toHost : toHost'[i] = toHost[j]
  PROVE  ContextInv'
PROOF
<1>1. PICK t : t = selection
  OBVIOUS
<1>2. PICK m : m = [kind |-> "selection", value |-> t]
  OBVIOUS
<1>3. toWeb' = Append(toWeb, m) /\ Context!Captures
  BY <1>1, <1>2 DEF Context!PostsSelection
<1>4. ContextTypeOK /\ CacheInOrder /\ ChipsCarried
  BY DEF ContextInv
<1>5. m \in WebMessage /\ toWeb \in Seq(WebMessage) /\ t \in MaybeSelection
      /\ m.kind = "selection" /\ m.value = t
  BY <1>1, <1>2, <1>4 DEF ContextTypeOK, WebMessage
<1>6. /\ toWeb' \in Seq(WebMessage)
      /\ \A i \in DOMAIN toWeb : i \in DOMAIN toWeb' /\ toWeb'[i] = toWeb[i]
      /\ \A i \in DOMAIN toWeb' : i \in DOMAIN toWeb \/ i = Len(toWeb) + 1
      /\ toWeb'[Len(toWeb) + 1] = m
  BY <1>3, <1>5, AppendOf
<1>7. /\ cache' \in Seq(Selections) /\ newer' \in [Selections -> SUBSET Selections]
      /\ CacheInOrder' /\ Carried(t)'
  BY <1>1, <1>3, <1>4, <1>5, CapturesKeep
<1>8. ASSUME NEW chip \in MaybeSelection, Carried(chip)
      PROVE  Carried(chip)'
  BY <1>3, <1>4, <1>8, CapturesKeep
<1>9. /\ available \in MaybeSelection /\ staged \in MaybeSelection
      /\ \A i \in DOMAIN toWeb : toWeb[i].kind = "selection" => toWeb[i].value \in MaybeSelection
      /\ \A i \in DOMAIN toHost : toHost[i].kind = "send" => toHost[i].selection \in MaybeSelection
  <2>1. available \in MaybeSelection /\ staged \in MaybeSelection
    BY <1>4 DEF ContextTypeOK
  <2>2. \A i \in DOMAIN toWeb : toWeb[i] \in WebMessage
    BY <1>5, ElementOfSeq, LenProperties
  <2>3. toHost \in Seq(HostMessage)
    BY <1>4 DEF ContextTypeOK
  <2>4. \A i \in DOMAIN toHost : toHost[i] \in HostMessage
    BY <2>3, ElementOfSeq, LenProperties
  <2> QED
    BY <2>1, <2>2, <2>4 DEF WebMessage, HostMessage, Sent
<1>10. ChipsCarried'
  <2>1. Carried(available)' /\ Carried(staged)'
    <3>1. PICK a, b : a = available /\ b = staged
      OBVIOUS
    <3>2. Carried(a)' /\ Carried(b)'
      BY <1>4, <1>8, <1>9, <3>1 DEF ChipsCarried
    <3>3. a = available' /\ b = staged'
      BY <3>1
    <3> QED
      BY <3>2, <3>3 DEF Carried
  <2>2. ASSUME NEW i \in DOMAIN toWeb', toWeb'[i].kind = "selection"
        PROVE  \A a : a = toWeb'[i].value => Carried(a)'
    <3>1. SUFFICES ASSUME NEW a, a = toWeb'[i].value
                   PROVE  Carried(a)'
      OBVIOUS
    <3>2. Carried(a)'
      <4>1. CASE i \in DOMAIN toWeb
        BY <1>4, <1>6, <1>8, <1>9, <2>2, <3>1, <4>1 DEF ChipsCarried
      <4>2. CASE i = Len(toWeb) + 1
        BY <1>5, <1>6, <1>7, <3>1, <4>2
      <4> QED
        BY <1>6, <4>1, <4>2
    <3> QED
      BY <3>2
  <2>3. ASSUME NEW i \in DOMAIN toHost', toHost'[i].kind = "send"
        PROVE  \A a : a = toHost'[i].selection => Carried(a)'
    <3>1. SUFFICES ASSUME NEW a, a = toHost'[i].selection
                   PROVE  Carried(a)'
      OBVIOUS
    <3> QED
      BY <1>4, <1>8, <1>9, <2>3, <3>1 DEF ChipsCarried
  <2>4. \A i \in DOMAIN toWeb' : toWeb'[i].kind = "selection" => Carried(toWeb[i].value)'
    BY <2>2 DEF Carried
  <2>5. \A i \in DOMAIN toHost' : toHost'[i].kind = "send" => Carried(toHost[i].selection)'
    BY <2>3 DEF Carried
  <2> QED
    BY <2>1, <2>4, <2>5 DEF ChipsCarried
<1>11. ContextTypeOK'
  BY <1>4, <1>6, <1>7 DEF ContextTypeOK
<1>12. ReadingCarries' /\ Context!PromptCarriesChips' /\ Context!RemovedStaysOff'
       /\ (declined' # "none" => ignored' = declined')
  BY DEF ContextInv, ReadingCarries, Context!PromptCarriesChips, Context!RemovedStaysOff
<1> QED
  BY <1>7, <1>10, <1>11, <1>12 DEF ContextInv

LEMMA PublishesKeeps ==
  ASSUME Context!ContextAssumption, ContextInv, Context!Publishes \/ Context!HostAttaches
  PROVE  ContextInv'
PROOF
<1>1. toHost \in Seq(HostMessage)
  BY DEF ContextInv, ContextTypeOK
<1>2. CASE Context!Publishes
  BY <1>1, <1>2, PostsKeeps DEF Context!Publishes, Context!host, Context!chips
<1>3. CASE Context!HostAttaches
  <2>1. toHost # <<>> /\ toHost' = Tail(toHost) /\ Context!PostsSelection
    BY <1>3 DEF Context!HostAttaches
  <2>2. /\ toHost' \in Seq(HostMessage)
        /\ \A i \in DOMAIN toHost' : \E j \in DOMAIN toHost : toHost'[i] = toHost[j]
    BY <1>1, <2>1, TailOf
  <2> QED
    BY <1>3, <2>1, <2>2, PostsKeeps DEF Context!HostAttaches, Context!editor, Context!host,
       Context!chips
<1> QED
  BY <1>2, <1>3

(* The chips move: what they say comes from the chips before and from the   *)
(* messages.                                                                *)
LEMMA ChipsMove ==
  ASSUME ContextInv, UNCHANGED <<selection, cache, newer, reading, prompts>>,
         toWeb' \in Seq(WebMessage), toHost' \in Seq(HostMessage), attached' \in Seq(Attachments),
         \A i \in DOMAIN toWeb' : toWeb'[i].kind = "selection" => Carried(toWeb'[i].value),
         \A i \in DOMAIN toHost' : toHost'[i].kind = "send" => Carried(toHost'[i].selection),
         available' \in MaybeSelection, staged' \in MaybeSelection,
         Carried(available'), Carried(staged'),
         declined' # "none" => staged' # declined' /\ ignored' = declined'
  PROVE  ContextInv'
PROOF
<1>1. ChipsCarried'
  <2>1. \A chip : Carried(chip)' <=> Carried(chip)
    BY CarriedStays
  <2> QED
    BY <2>1 DEF ChipsCarried, Carried
<1>2. ContextTypeOK'
  BY DEF ContextInv, ContextTypeOK
<1> QED
  BY <1>1, <1>2, ContextMoves

LEMMA ChipsHere ==
  ASSUME ContextInv
  PROVE  /\ toWeb \in Seq(WebMessage) /\ toHost \in Seq(HostMessage) /\ attached \in Seq(Attachments)
         /\ \A i \in DOMAIN toWeb : toWeb[i].kind = "selection" => Carried(toWeb[i].value)
         /\ \A i \in DOMAIN toHost : toHost[i].kind = "send" => Carried(toHost[i].selection)
         /\ available \in MaybeSelection /\ staged \in MaybeSelection
         /\ Carried(available) /\ Carried(staged)
         /\ declined # "none" => staged # declined /\ ignored = declined
         /\ "none" \in MaybeSelection /\ Carried("none")
PROOF BY DEF ContextInv, ContextTypeOK, ChipsCarried, Context!RemovedStaysOff, MaybeSelection, Carried

LEMMA ShowsKeeps ==
  ASSUME ContextInv, Context!ShowsSelection \/ Context!ShowsSetting
  PROVE  ContextInv'
PROOF
<1>1. PICK m : m = Head(toWeb)
  OBVIOUS
<1>2. toWeb # <<>> /\ toWeb' = Tail(toWeb) /\ m = toWeb[1] /\ m \in WebMessage
      /\ 1 \in DOMAIN toWeb
  BY <1>1, ChipsHere, TailOf DEF Context!ShowsSelection, Context!ShowsSetting
<1>3. /\ toWeb' \in Seq(WebMessage)
      /\ \A i \in DOMAIN toWeb' : toWeb'[i].kind = "selection" => Carried(toWeb'[i].value)
  BY <1>2, ChipsHere, TailOf
<1>4. UNCHANGED <<selection, cache, newer, reading, prompts, toHost, attached, ignored>>
  BY DEF Context!ShowsSelection, Context!ShowsSetting, Context!editor, Context!memory
<1>5. CASE Context!ShowsSelection
  <2>1. PICK t : t = m.value
    OBVIOUS
  <2>2. t \in MaybeSelection /\ Carried(t)
    <3>1. m.kind = "selection"
      BY <1>1, <1>5 DEF Context!ShowsSelection
    <3>2. t \in MaybeSelection
      BY <1>2, <2>1, <3>1 DEF WebMessage
    <3> QED
      BY <1>2, <2>1, <3>1, <3>2, ChipsHere
  <2>3. /\ available' = t /\ staged' = IF Context!Staging(t) THEN t ELSE staged
        /\ declined' = IF attachRequested THEN "none" ELSE declined
    BY <1>1, <1>5, <2>1 DEF Context!ShowsSelection
  <2>4. declined' # "none" => staged' # declined' /\ ignored' = declined'
    BY <1>4, <2>3, ChipsHere DEF Context!Staging
  <2>5. staged' \in {t, staged}
    BY <2>3
  <2>6. available' \in MaybeSelection /\ staged' \in MaybeSelection /\ Carried(available')
        /\ Carried(staged')
    BY <2>2, <2>3, <2>5, ChipsHere
  <2> QED
    BY <1>3, <1>4, <2>4, <2>6, ChipsMove, ChipsHere
<1>6. CASE Context!ShowsSetting
  <2>1. PICK enabled : enabled = m.value
    OBVIOUS
  <2>2. /\ staged' = IF enabled /\ ~autoAttach /\ available \notin {"none", ignored} THEN available
                     ELSE staged
        /\ declined' = IF enabled = autoAttach THEN declined ELSE "none"
        /\ available' = available
    BY <1>1, <1>6, <2>1 DEF Context!ShowsSetting
  <2>3. staged' \in {available, staged} /\ declined' \in {declined, "none"}
        /\ (declined' # "none" => declined' = declined /\ staged' = staged)
    <3>1. CASE enabled = autoAttach
      <4>1. ~(enabled /\ ~autoAttach)
        BY <3>1, Zenon
      <4> QED
        BY <2>2, <3>1, <4>1
    <3>2. CASE enabled # autoAttach
      BY <2>2, <3>2
    <3> QED
      BY <3>1, <3>2
  <2>4. staged' \in MaybeSelection /\ available' \in MaybeSelection /\ Carried(available')
        /\ Carried(staged')
    BY <2>2, <2>3, ChipsHere
  <2>5. declined' # "none" => staged' # declined' /\ ignored' = declined'
    BY <1>4, <2>3, ChipsHere
  <2> QED
    BY <1>3, <1>4, <2>4, <2>5, ChipsMove, ChipsHere
<1> QED
  BY <1>5, <1>6

(* The user clicks.                                                         *)
LEMMA UserKeeps ==
  ASSUME ContextInv,
         \/ Context!Attaches \/ Context!Removes \/ Context!Sends \/ Context!NewSession
         \/ \E f \in Attachments : Context!AddsFile(f) \/ Context!RemovesFile(f)
  PROVE  ContextInv'
PROOF
<1>1. UNCHANGED <<selection, cache, newer, reading, prompts, toWeb>>
  BY DEF Context!Attaches, Context!Removes, Context!Sends, Context!NewSession, Context!AddsFile,
     Context!RemovesFile, Context!editor, Context!memory
<1>2. CASE Context!Attaches
  <2>1. available' = available /\ attached' = attached /\ declined' = "none"
        /\ staged' \in {staged, available}
    BY <1>2 DEF Context!Attaches
  <2>2. toHost' \in Seq(HostMessage)
        /\ \A i \in DOMAIN toHost' : toHost'[i].kind = "send" => Carried(toHost'[i].selection)
    <3>1. CASE toHost' = toHost
      BY <3>1, ChipsHere
    <3>2. CASE toHost' = Append(toHost, [kind |-> "attach"])
      <4>1. PICK o : o = [kind |-> "attach"]
        OBVIOUS
      <4>2. o \in HostMessage /\ o.kind # "send"
        BY <4>1 DEF HostMessage
      <4> QED
        BY <3>2, <4>1, <4>2, AppendOf, ChipsHere
    <3> QED
      BY <1>2, <3>1, <3>2 DEF Context!Attaches
  <2> QED
    BY <1>1, <2>1, <2>2, ChipsHere, ChipsMove
<1>3. CASE Context!Removes
  <2>1. available' = available /\ attached' = attached /\ toHost' = toHost /\ staged' = "none"
        /\ ignored' = staged /\ declined' \in {"none", staged}
    BY <1>3 DEF Context!Removes
  <2> QED
    BY <1>1, <2>1, ChipsHere, ChipsMove
<1>4. ASSUME Context!ChipsSubmitted, toHost' \in Seq(HostMessage),
             \A i \in DOMAIN toHost' : toHost'[i].kind = "send" => Carried(toHost'[i].selection)
      PROVE  ContextInv'
  <2>1. attached' = <<>> /\ available' = available
        /\ (UNCHANGED <<staged, ignored, declined>> \/ (staged' = "none" /\ declined' = "none"))
    BY <1>4 DEF Context!ChipsSubmitted
  <2>2. attached' \in Seq(Attachments)
    BY <2>1
  <2> QED
    BY <1>1, <1>4, <2>1, <2>2, ChipsHere, ChipsMove
<1>5. CASE Context!Sends
  <2>1. PICK o : o = [kind |-> "send", selection |-> staged, files |-> Context!ToSet(attached)]
    OBVIOUS
  <2>2. Context!ToSet(attached) \subseteq Attachments
    BY ChipsHere, ElementOfSeq, LenProperties DEF Context!ToSet
  <2>3. o \in HostMessage /\ o.selection = staged
    BY <2>1, <2>2, ChipsHere DEF HostMessage, Sent
  <2>4. toHost' = Append(toHost, o)
    BY <1>5, <2>1 DEF Context!Sends
  <2>5. toHost' \in Seq(HostMessage)
        /\ \A i \in DOMAIN toHost' : toHost'[i].kind = "send" => Carried(toHost'[i].selection)
    BY <2>3, <2>4, AppendOf, ChipsHere
  <2> QED
    BY <1>4, <1>5, <2>5 DEF Context!Sends
<1>6. CASE Context!NewSession
  BY <1>4, <1>6, ChipsHere DEF Context!NewSession
<1>7. ASSUME NEW f \in Attachments, Context!AddsFile(f) \/ Context!RemovesFile(f)
      PROVE  ContextInv'
  <2>1. UNCHANGED <<available, staged, ignored, toHost, declined>>
    BY <1>7 DEF Context!AddsFile, Context!RemovesFile
  <2>2. attached' \in Seq(Attachments)
    <3>1. CASE Context!AddsFile(f)
      <4>1. PICK e : e = Append(attached, f)
        OBVIOUS
      <4>2. e \in Seq(Attachments) /\ attached' = Context!LastOf(e, MaxAttached)
        BY <3>1, <4>1, ChipsHere, AppendOf DEF Context!AddsFile
      <4>3. MaxAttached \in Nat
        BY PromptStateAssumption DEF Context!ContextAssumption
      <4> QED
        BY <4>2, <4>3, LastOfIs
    <3>2. CASE Context!RemovesFile(f)
      <4>1. PICK k : k = Context!Place(attached, f)
        OBVIOUS
      <4>2. k \in DOMAIN attached
        <5>1. \E i \in DOMAIN attached : attached[i] = f
          BY <3>2, ChipsHere, LenProperties DEF Context!RemovesFile, Context!Contains
        <5> QED
          BY <4>1, <5>1 DEF Context!Place
      <4>3. attached' = Shortened(attached, k)
        BY <3>2, <4>1 DEF Context!RemovesFile, Context!Forgotten, Context!RemoveAt, Shortened
      <4> QED
        BY <4>2, <4>3, ShortenedIs, ChipsHere
    <3> QED
      BY <1>7, <3>1, <3>2
  <2> QED
    BY <1>1, <2>1, <2>2, ChipsHere, ChipsMove
<1> QED
  BY <1>2, <1>3, <1>5, <1>6, <1>7

(* A prompt takes the selection of its chip from the cache.                 *)
LEMMA TakesKeeps ==
  ASSUME Context!ContextAssumption, ContextInv, Context!HostTakesPrompt
  PROVE  ContextInv'
PROOF
<1>1. PICK p : p = Head(toHost)
  OBVIOUS
<1>2. PICK gone : gone = (p.selection # "none" /\ Context!Cardinality(newer[p.selection]) >= MaxCached)
  OBVIOUS
<1>3. PICK kept : kept = IF Context!Contains(cache, p.selection) THEN p.selection ELSE "none"
  OBVIOUS
<1>4. /\ toHost # <<>> /\ p.kind = "send" /\ toHost' = Tail(toHost)
      /\ reading' = reading \cup {[sent |-> p, selection |-> kept, displaced |-> gone]}
      /\ UNCHANGED <<selection, cache, newer, prompts, toWeb, available, staged, ignored, attached,
                     declined>>
  BY <1>1, <1>2, <1>3 DEF Context!HostTakesPrompt, Context!editor, Context!memory, Context!host,
     Context!chips
<1>5. /\ toHost' \in Seq(HostMessage) /\ p \in HostMessage /\ p = toHost[1] /\ 1 \in DOMAIN toHost
      /\ \A i \in DOMAIN toHost' : toHost'[i].kind = "send" => Carried(toHost'[i].selection)
  BY <1>1, <1>4, ChipsHere, TailOf
<1>6. Carried(p.selection) /\ p.selection \in MaybeSelection
  BY <1>4, <1>5, ChipsHere DEF HostMessage, Sent
<1>7. kept = p.selection \/ (kept = "none" /\ gone)
  <2>1. CASE p.selection = "none"
    BY <1>3, <2>1
  <2>2. CASE p.selection # "none" /\ \E i \in DOMAIN cache : cache[i] = p.selection
    <3>1. cache \in Seq(Selections)
      BY DEF ContextInv, ContextTypeOK
    <3>2. Context!Contains(cache, p.selection)
      BY <2>2, <3>1, LenProperties DEF Context!Contains
    <3> QED
      BY <1>3, <3>2
  <2>3. CASE p.selection # "none" /\ ~\E i \in DOMAIN cache : cache[i] = p.selection
    <3>1. MaxCached <= Cardinality(newer[p.selection])
      BY <1>6, <2>3 DEF Carried
    <3>2. Context!Cardinality(newer[p.selection]) = Cardinality(newer[p.selection])
      BY DEF Context!Cardinality, Cardinality
    <3>3. Cardinality(newer[p.selection]) \in Nat /\ MaxCached \in Nat
      <4>1. p.selection \in Selections
        BY <1>6, <2>3 DEF MaybeSelection
      <4>2. IsFiniteSet(newer[p.selection])
        BY <4>1 DEF ContextInv, CacheInOrder
      <4> QED
        BY <4>2, FS_CardinalityType DEF Context!ContextAssumption
    <3>4. gone
      BY <1>2, <2>3, <3>1, <3>2, <3>3
    <3> QED
      BY <1>3, <3>4
  <2> QED
    BY <2>1, <2>2, <2>3
<1>8. ReadingCarries'
  <2>1. ASSUME NEW r \in reading'
        PROVE  r.selection = r.sent.selection \/ (r.selection = "none" /\ r.displaced)
    <3>1. CASE r \in reading
      BY <3>1 DEF ContextInv, ReadingCarries
    <3>2. CASE r = [sent |-> p, selection |-> kept, displaced |-> gone]
      <4>1. r.sent = p /\ r.selection = kept /\ r.displaced = gone
        BY <3>2
      <4> QED
        BY <1>7, <4>1, Zenon
    <3> QED
      BY <1>4, <2>1, <3>1, <3>2
  <2> QED
    BY <2>1 DEF ReadingCarries
<1>9. ChipsCarried'
  <2>1. \A chip : Carried(chip)' <=> Carried(chip)
    BY <1>4, CarriedStays
  <2> QED
    BY <1>4, <1>5, <2>1, ChipsHere DEF ChipsCarried, Carried
<1>10. ContextTypeOK' /\ CacheInOrder' /\ Context!PromptCarriesChips' /\ Context!RemovedStaysOff'
       /\ (declined' # "none" => ignored' = declined')
  BY <1>4, <1>5 DEF ContextInv, ContextTypeOK, CacheInOrder, Context!PromptCarriesChips,
     Context!RemovedStaysOff
<1> QED
  BY <1>8, <1>9, <1>10 DEF ContextInv

LEMMA DeliversKeeps ==
  ASSUME ContextInv, NEW r \in reading, Context!Delivers(r)
  PROVE  ContextInv'
PROOF
<1>1. PICK p : p = [sent |-> r.sent, selection |-> r.selection, files |-> r.sent.files,
                    displaced |-> r.displaced]
  OBVIOUS
<1>2. /\ reading' = reading \ {r} /\ prompts' \in {prompts, prompts \cup {p}}
      /\ UNCHANGED <<selection, cache, newer, toHost, toWeb, available, staged, ignored, attached,
                     declined>>
  BY <1>1 DEF Context!Delivers, Context!editor, Context!memory, Context!host, Context!chips
<1>3. r.selection = r.sent.selection \/ (r.selection = "none" /\ r.displaced)
  BY DEF ContextInv, ReadingCarries
<1>4. p.files = p.sent.files
      /\ (p.selection = p.sent.selection \/ (p.selection = "none" /\ p.displaced))
  <2>1. p.files = p.sent.files /\ p.sent = r.sent /\ p.selection = r.selection
        /\ p.displaced = r.displaced
    BY <1>1
  <2> QED
    BY <1>3, <2>1, Zenon
<1>5. Context!PromptCarriesChips'
  BY <1>2, <1>4 DEF ContextInv, Context!PromptCarriesChips
<1>6. ReadingCarries'
  BY <1>2 DEF ContextInv, ReadingCarries
<1>7. ContextTypeOK' /\ CacheInOrder' /\ ChipsCarried' /\ Context!RemovedStaysOff'
      /\ (declined' # "none" => ignored' = declined')
  BY <1>2 DEF ContextInv, ContextTypeOK, CacheInOrder, ChipsCarried, Carried,
     Context!RemovedStaysOff
<1> QED
  BY <1>5, <1>6, <1>7 DEF ContextInv

(* The editor, the setting and the files move on.                           *)
LEMMA HostMovesKeep ==
  ASSUME ContextInv,
         \/ \E s \in (Selections \cup {"none"}) \ {selection} : Context!Selects(s)
         \/ Context!SettingChanges \/ \E f \in attachable : Context!FileGoes(f)
         \/ UNCHANGED Context!vars
  PROVE  ContextInv'
PROOF
<1>1. UNCHANGED <<cache, newer, reading, prompts, available, staged, ignored, attached, toHost,
                  declined>>
  BY DEF Context!Selects, Context!SettingChanges, Context!FileGoes, Context!vars, Context!editor,
     Context!memory, Context!chips, Context!host
<1>2. selection' \in MaybeSelection
  BY DEF ContextInv, ContextTypeOK, MaybeSelection, Context!Selects, Context!SettingChanges,
     Context!FileGoes, Context!vars, Context!editor
<1>3. /\ toWeb' \in Seq(WebMessage)
      /\ \A i \in DOMAIN toWeb' : toWeb'[i].kind = "selection" => Carried(toWeb'[i].value)
  <2>1. CASE Context!SettingChanges
    <3>1. PICK m : m = [kind |-> "auto", value |-> ~auto]
      OBVIOUS
    <3>2. m \in WebMessage /\ m.kind # "selection"
      <4>1. (~auto) \in BOOLEAN
        OBVIOUS
      <4> QED
        BY <3>1, <4>1 DEF WebMessage
    <3>3. toWeb' = Append(toWeb, m)
      BY <2>1, <3>1 DEF Context!SettingChanges
    <3> QED
      BY <3>2, <3>3, AppendOf, ChipsHere
  <2>2. CASE toWeb' = toWeb
    BY <2>2, ChipsHere
  <2> QED
    BY <2>1, <2>2 DEF Context!Selects, Context!FileGoes, Context!vars
<1>4. ChipsCarried'
  <2>1. \A chip : Carried(chip)' <=> Carried(chip)
    BY <1>1, CarriedStays
  <2> QED
    BY <1>1, <1>3, <2>1, ChipsHere DEF ChipsCarried, Carried
<1>5. ContextTypeOK'
  BY <1>1, <1>2, <1>3 DEF ContextInv, ContextTypeOK
<1> QED
  BY <1>1, <1>4, <1>5, ContextMoves, ChipsHere

LEMMA ContextKeptByStep ==
  ASSUME Context!ContextAssumption, ContextInv, [Context!Next]_(Context!vars)
  PROVE  ContextInv'
PROOF BY PublishesKeeps, ShowsKeeps, UserKeeps, TakesKeeps, DeliversKeeps, HostMovesKeep
      DEF Context!Next

-----------------------------------------------------------------------------
(* The digests that are armed.                                              *)

CallTyped(k) ==
  /\ DOMAIN k = {"at", "want", "opens", "digest", "target", "migrated"}
  /\ k.at \in {"sending", "accepted"} => k.target \in CarrySessions
CreationTyped(k) ==
  /\ DOMAIN k = {"at", "session"} /\ k.session \in DOMAIN mode \cup {NoSession}
  /\ k.at = "selected" <=> k.session # NoSession

CarryTypeOK ==
  /\ DOMAIN mode \subseteq CarrySessions /\ active \in DOMAIN mode
  /\ DOMAIN prompted = CarrySessions /\ DOMAIN armed = CarrySessions
  /\ \A s \in CarrySessions : \E S : prompted[s] \in Seq(S)
  /\ DOMAIN creating = Modes /\ \A m \in Modes : CreationTyped(creating[m])
  /\ DOMAIN call = Prompts /\ \A p \in Prompts : CallTyped(call[p])

(* A session has the digest it was armed with in a prompt, ...              *)
Logged(s) == \E i \in DOMAIN prompted[s] : prompted[s][i].digest = armed[s]

(* ... or the digest is armed, every prompt on its way to the session takes *)
(* it along, and none has reached it.                                       *)
SentTo(p, s) == call[p].at \in {"sending", "accepted"} /\ call[p].target = s
CarriesOn(s) ==
  /\ carry = [target |-> s, text |-> armed[s]]
  /\ \A p \in Prompts : SentTo(p, s) => call[p].at = "sending" /\ call[p].digest = armed[s]
ArmedHeld ==
  \A s \in CarrySessions \ (early \cup displaced) : armed[s] # <<>> => Logged(s) \/ CarriesOn(s)

(* That is so since nothing is sent to a session before it is ready, and    *)
(* nothing is armed for it before.                                          *)
BeingCreated(s) == s \notin DOMAIN mode \/ \E m \in Modes : creating[m].session = s
NothingYet ==
  \A s \in CarrySessions \ early :
    BeingCreated(s) => armed[s] = <<>> /\ \A p \in Prompts : ~SentTo(p, s)
OneCreation ==
  \A m \in Modes, n \in Modes :
    creating[m].session = creating[n].session => m = n \/ creating[m].session = NoSession

CarryInv == CarryTypeOK /\ ArmedHeld /\ NothingYet /\ OneCreation

LEMMA CarryInit ==
  ASSUME Carry!CarryAssumption, Carry!Init
  PROVE  CarryInv
PROOF
<1>1. /\ mode = [s \in {First} |-> FirstMode] /\ active = First
      /\ creating = [m \in Modes |-> Carry!NotCreating] /\ call = [p \in Prompts |-> Carry!Unused]
      /\ armed = [s \in CarrySessions |-> <<>>]
  BY DEF Carry!Init
<1>2. PICK earlier : prompted = [s \in CarrySessions |-> IF s = First THEN earlier ELSE <<>>]
                     /\ earlier \in {<<>>, <<[prompt |-> Before, digest |-> <<>>]>>}
  BY DEF Carry!Init
<1>3. CallTyped(Carry!Unused) /\ Carry!Unused.at = "unused"
  BY DEF Carry!Unused, CallTyped
<1>4. CreationTyped(Carry!NotCreating) /\ Carry!NotCreating.session = NoSession
  BY DEF Carry!NotCreating, CreationTyped
<1>5. First \in CarrySessions /\ DOMAIN mode = {First}
  BY <1>1 DEF Carry!CarryAssumption
<1>6. \A s \in CarrySessions : \E S : prompted[s] \in Seq(S)
  <2>1. PICK x : x = [prompt |-> Before, digest |-> <<>>]
    OBVIOUS
  <2>2. <<>> \in Seq({x}) /\ <<x>> \in Seq({x})
    OBVIOUS
  <2>3. earlier \in Seq({x})
    BY <1>2, <2>1, <2>2
  <2> QED
    BY <1>2, <2>2, <2>3
<1>7. CarryTypeOK
  BY <1>1, <1>2, <1>3, <1>4, <1>5, <1>6 DEF CarryTypeOK
<1>8. ArmedHeld /\ OneCreation
  BY <1>1, <1>4 DEF ArmedHeld, OneCreation
<1>9. NothingYet
  BY <1>1, <1>3 DEF NothingYet, SentTo
<1> QED
  BY <1>7, <1>8, <1>9 DEF CarryInv

(* A step that sends nothing and arms nothing.                              *)
LEMMA CarryMoves ==
  ASSUME Carry!CarryAssumption, CarryInv, DOMAIN mode \subseteq DOMAIN mode',
         DOMAIN mode' \subseteq CarrySessions, active' \in DOMAIN mode',
         UNCHANGED <<prompted, carry, armed, displaced, early>>,
         DOMAIN call' = Prompts, \A p \in Prompts : \A k : k = call'[p] => CallTyped(k),
         \A p \in Prompts : call'[p] = call[p] \/ call'[p].at \notin {"sending", "accepted"},
         DOMAIN creating' = Modes, \A m \in Modes : CreationTyped(creating[m])',
         \A m \in Modes : \/ creating'[m].session \in {creating[m].session, NoSession}
                          \/ creating'[m].session \notin DOMAIN mode,
         OneCreation'
  PROVE  CarryInv'
PROOF
<1>1. CarryTypeOK'
  BY DEF CarryInv, CarryTypeOK, CallTyped
<1>2. \A p \in Prompts : \A s : SentTo(p, s)' => SentTo(p, s) /\ call'[p] = call[p]
  BY DEF SentTo
<1>3. ArmedHeld'
  <2>1. SUFFICES ASSUME NEW s \in CarrySessions \ (early \cup displaced), armed[s] # <<>>
                 PROVE  Logged(s)' \/ CarriesOn(s)'
    BY DEF ArmedHeld
  <2>2. Logged(s) \/ CarriesOn(s)
    BY <2>1 DEF CarryInv, ArmedHeld
  <2> QED
    BY <1>2, <2>2 DEF Logged, CarriesOn
<1>4. NothingYet'
  <2>1. SUFFICES ASSUME NEW s \in CarrySessions \ early, BeingCreated(s)'
                 PROVE  armed[s] = <<>> /\ \A p \in Prompts : ~SentTo(p, s)'
    BY DEF NothingYet
  <2>2. BeingCreated(s)
    BY <2>1 DEF BeingCreated, Carry!CarryAssumption
  <2> QED
    BY <1>2, <2>2 DEF CarryInv, NothingYet
<1> QED
  BY <1>1, <1>3, <1>4 DEF CarryInv

(* What a call is after its record was replaced.                            *)
LEMMA CallBecomes ==
  ASSUME CarryInv, NEW p \in Prompts, NEW k, CallTyped(k), call' = [call EXCEPT ![p] = k]
  PROVE  /\ DOMAIN call' = Prompts /\ call'[p] = k
         /\ \A q \in Prompts : q # p => call'[q] = call[q]
         /\ \A q \in Prompts : \A j : j = call'[q] => CallTyped(j)
PROOF
<1>1. DOMAIN call = Prompts /\ \A q \in Prompts : CallTyped(call[q])
  BY DEF CarryInv, CarryTypeOK
<1>2. DOMAIN call' = Prompts /\ call'[p] = k /\ \A q \in Prompts : q # p => call'[q] = call[q]
  BY <1>1
<1> QED
  BY <1>1, <1>2

LEMMA FreshCalls ==
  ASSUME NEW at
  PROVE  /\ DOMAIN Carry!NowAt(at) = {"at", "want", "opens", "digest", "target", "migrated"}
         /\ Carry!NowAt(at).at = at
         /\ at \notin {"sending", "accepted"} => CallTyped(Carry!NowAt(at))
PROOF BY DEF Carry!NowAt, Carry!Unused, CallTyped

(* A prompt is configured: its mode is set, or a session is created.        *)
LEMMA CreatesMoves ==
  ASSUME Carry!CarryAssumption, CarryInv, NEW p \in Prompts, NEW want, NEW m, NEW moved,
         Carry!Creates(p, want, m, moved),
         UNCHANGED <<mode, prompted, active, carry, armed, displaced, early>>
  PROVE  CarryInv'
PROOF
<1>1. PICK d : d = Carry!Digest
  OBVIOUS
<1>2. PICK k : k = [call[p] EXCEPT !.at = "creating", !.want = want, !.opens = m, !.digest = d,
                                   !.migrated = moved]
  OBVIOUS
<1>3. DOMAIN call = Prompts /\ CallTyped(call[p]) /\ DOMAIN creating = Modes
      /\ \A n \in Modes : CreationTyped(creating[n])
  BY DEF CarryInv, CarryTypeOK
<1>4. call' = [call EXCEPT ![p] = k]
  BY <1>1, <1>2, <1>3 DEF Carry!Creates
<1>5. CallTyped(k) /\ k.at = "creating"
  BY <1>2, <1>3 DEF CallTyped
<1>6. DOMAIN creating' = Modes /\ \A n \in Modes : CreationTyped(creating[n])'
                                 /\ creating'[n].session = creating[n].session
  <2>0. CASE m \notin Modes
    BY <1>3, <2>0 DEF Carry!Creates, CreationTyped
  <2>1. CASE m \in Modes /\ creating[m].at = "none"
    <3>1. creating' = [creating EXCEPT ![m].at = "preparing"]
      BY <2>1 DEF Carry!Creates
    <3>2. creating[m].session = NoSession /\ DOMAIN creating[m] = {"at", "session"}
      BY <1>3, <2>1 DEF CreationTyped
    <3>3. /\ DOMAIN creating' = Modes /\ creating'[m] = [creating[m] EXCEPT !.at = "preparing"]
          /\ \A n \in Modes : n # m => creating'[n] = creating[n]
      BY <1>3, <2>1, <3>1
    <3>4. creating'[m].session = NoSession /\ creating'[m].at = "preparing"
          /\ DOMAIN creating'[m] = {"at", "session"}
      BY <3>2, <3>3
    <3> QED
      BY <1>3, <3>2, <3>3, <3>4 DEF CreationTyped
  <2>2. CASE creating[m].at # "none"
    BY <1>3, <2>2 DEF Carry!Creates, CreationTyped
  <2> QED
    BY <2>0, <2>1, <2>2
<1>7. OneCreation'
  BY <1>6 DEF CarryInv, OneCreation
<1>8. DOMAIN mode \subseteq CarrySessions /\ active \in DOMAIN mode
  BY DEF CarryInv, CarryTypeOK
<1>9. /\ DOMAIN call' = Prompts /\ \A q \in Prompts : \A j : j = call'[q] => CallTyped(j)
      /\ \A q \in Prompts : call'[q] = call[q] \/ call'[q].at \notin {"sending", "accepted"}
  BY <1>4, <1>5, CallBecomes
<1> QED
  BY <1>6, <1>7, <1>8, <1>9, CarryMoves

(* A prompt goes on to a point at which nothing of it is sent.              *)
LEMMA CallMoves ==
  ASSUME Carry!CarryAssumption, CarryInv, NEW p \in Prompts, NEW k, CallTyped(k),
         k.at \notin {"sending", "accepted"}, call' = [call EXCEPT ![p] = k],
         DOMAIN mode' = DOMAIN mode,
         UNCHANGED <<creating, prompted, active, carry, armed, displaced, early>>
  PROVE  CarryInv'
PROOF
<1>1. OneCreation' /\ \A m \in Modes : CreationTyped(creating[m])'
  BY DEF CarryInv, CarryTypeOK, OneCreation, CreationTyped
<1>2. /\ DOMAIN call' = Prompts /\ \A q \in Prompts : \A j : j = call'[q] => CallTyped(j)
      /\ \A q \in Prompts : call'[q] = call[q] \/ call'[q].at \notin {"sending", "accepted"}
  BY CallBecomes
<1>3. DOMAIN mode \subseteq CarrySessions /\ active \in DOMAIN mode /\ DOMAIN creating = Modes
  BY DEF CarryInv, CarryTypeOK
<1> QED
  BY <1>1, <1>2, <1>3, CarryMoves

LEMMA ConfiguresKeeps ==
  ASSUME Carry!CarryAssumption, CarryInv, NEW p \in Prompts, NEW want,
         Carry!Configures(p, want), UNCHANGED <<prompted, active, carry, armed, displaced, early>>
  PROVE  CarryInv'
PROOF
<1>1. CASE Carry!Creates(p, want, want, FALSE) /\ UNCHANGED mode
  BY <1>1, CreatesMoves
<1>2. CASE /\ call' = [call EXCEPT ![p] = Carry!NowAt("applying")] /\ creating' = creating
           /\ mode' = mode \/ mode' = [mode EXCEPT ![active] = want]
  <2>1. CallTyped(Carry!NowAt("applying")) /\ Carry!NowAt("applying").at = "applying"
    BY FreshCalls
  <2>2. DOMAIN mode' = DOMAIN mode
    BY <1>2
  <2> QED
    BY <1>2, <2>1, <2>2, CallMoves
<1> QED
  BY <1>1, <1>2 DEF Carry!Configures

LEMMA SendsKeeps ==
  ASSUME Carry!CarryAssumption, CarryInv, NEW p \in Prompts, NEW want,
         Carry!Sends(p, want)
  PROVE  CarryInv'
PROOF
<1>1. UNCHANGED <<prompted, active, carry, armed, displaced, early>>
  BY DEF Carry!Sends, Carry!screenVars, Carry!history
<1>2. CASE active \in isolated
  BY <1>1, <1>2, ConfiguresKeeps DEF Carry!Sends
<1>3. CASE active \notin isolated
  <2>1. PICK k : k = [call[p] EXCEPT !.at = "checking", !.want = want, !.target = active]
    OBVIOUS
  <2>2. DOMAIN call = Prompts /\ CallTyped(call[p])
    BY DEF CarryInv, CarryTypeOK
  <2>3. call' = [call EXCEPT ![p] = k] /\ UNCHANGED <<mode, creating>>
    BY <1>3, <2>1, <2>2 DEF Carry!Sends
  <2>4. CallTyped(k) /\ k.at = "checking"
    BY <2>1, <2>2 DEF CallTyped
  <2> QED
    BY <1>1, <2>3, <2>4, CallMoves
<1> QED
  BY <1>2, <1>3

LEMMA CheckedKeeps ==
  ASSUME Carry!CarryAssumption, CarryInv, NEW p \in Prompts, Carry!Checked(p) \/ Carry!Moved(p)
  PROVE  CarryInv'
PROOF
<1>1. UNCHANGED <<prompted, active, carry, armed, displaced, early>>
  BY DEF Carry!Checked, Carry!Moved, Carry!screenVars, Carry!history
<1>2. \/ Carry!Configures(p, call[p].want)
      \/ Carry!Creates(p, call[p].want, mode[call[p].target], TRUE) /\ UNCHANGED mode
  BY DEF Carry!Checked, Carry!Moved
<1> QED
  BY <1>1, <1>2, ConfiguresKeeps, CreatesMoves

(* Those who waited for a creation that failed.                             *)
LEMMA CallersFail ==
  ASSUME CarryInv, NEW m, Carry!FailCallers(m)
  PROVE  /\ DOMAIN call' = Prompts /\ \A q \in Prompts : \A j : j = call'[q] => CallTyped(j)
         /\ \A q \in Prompts : call'[q] = call[q] \/ call'[q].at \notin {"sending", "accepted"}
PROOF
<1>1. \A q \in Prompts : CallTyped(call[q])
  BY DEF CarryInv, CarryTypeOK
<1>2. CallTyped(Carry!NowAt("failed")) /\ Carry!NowAt("failed").at = "failed"
  BY FreshCalls
<1>3. /\ DOMAIN call' = Prompts
      /\ \A q \in Prompts : call'[q] = call[q] \/ call'[q] = Carry!NowAt("failed")
  BY DEF Carry!FailCallers
<1> QED
  BY <1>1, <1>2, <1>3

LEMMA SessionCreatedKeeps ==
  ASSUME Carry!CarryAssumption, CarryInv, NEW m \in Modes, Carry!SessionCreated(m)
  PROVE  CarryInv'
PROOF
<1>1. UNCHANGED <<prompted, carry, armed, displaced, early>> /\ creating[m].at = "preparing"
  BY DEF Carry!SessionCreated, Carry!history
<1>2. /\ DOMAIN mode \subseteq CarrySessions /\ active \in DOMAIN mode /\ DOMAIN creating = Modes
      /\ \A n \in Modes : CreationTyped(creating[n]) /\ DOMAIN call = Prompts
      /\ \A q \in Prompts : CallTyped(call[q])
  BY DEF CarryInv, CarryTypeOK
<1>3. CASE Carry!FailCallers(m) /\ creating' = [creating EXCEPT ![m] = Carry!NotCreating]
           /\ UNCHANGED <<mode, active>>
  <2>1. /\ DOMAIN creating' = Modes /\ creating'[m] = Carry!NotCreating
        /\ \A n \in Modes : n # m => creating'[n] = creating[n]
    BY <1>2, <1>3
  <2>2. /\ \A n \in Modes : creating'[n].session \in {creating[n].session, NoSession}
        /\ \A n \in Modes : CreationTyped(creating[n])'
    BY <1>2, <1>3, <2>1 DEF Carry!NotCreating, CreationTyped
  <2>3. OneCreation'
    BY <2>2 DEF CarryInv, OneCreation
  <2> QED
    BY <1>1, <1>2, <1>3, <2>1, <2>2, <2>3, CallersFail, CarryMoves
<1>4. CASE \E s \in CarrySessions \ DOMAIN mode :
             /\ mode' = [t \in DOMAIN mode \cup {s} |-> IF t = s THEN m ELSE mode[t]]
             /\ active' = s /\ creating' = [creating EXCEPT ![m] = [at |-> "selected", session |-> s]]
             /\ UNCHANGED call
  <2>1. PICK s \in CarrySessions \ DOMAIN mode :
             /\ mode' = [t \in DOMAIN mode \cup {s} |-> IF t = s THEN m ELSE mode[t]]
             /\ active' = s /\ creating' = [creating EXCEPT ![m] = [at |-> "selected", session |-> s]]
             /\ UNCHANGED call
    BY <1>4
  <2>2. /\ DOMAIN creating' = Modes /\ creating'[m] = [at |-> "selected", session |-> s]
        /\ \A n \in Modes : n # m => creating'[n] = creating[n]
        /\ DOMAIN mode' = DOMAIN mode \cup {s}
    BY <1>2, <2>1
  <2>3. s # NoSession /\ \A n \in Modes : creating[n].session # s
    BY <1>2, <2>1 DEF CreationTyped, Carry!CarryAssumption
  <2>4. \A n \in Modes : CreationTyped(creating[n])'
    BY <1>2, <2>2, <2>3 DEF CreationTyped
  <2>5. OneCreation'
    BY <2>2, <2>3 DEF CarryInv, OneCreation
  <2>6. \A n \in Modes : \/ creating'[n].session \in {creating[n].session, NoSession}
                         \/ creating'[n].session \notin DOMAIN mode
    BY <2>1, <2>2
  <2>7. \A q \in Prompts : \A j : j = call'[q] => CallTyped(j)
    BY <1>2, <2>1
  <2> QED
    BY <1>1, <1>2, <2>1, <2>2, <2>4, <2>5, <2>6, <2>7, CarryMoves
<1> QED
  BY <1>1, <1>3, <1>4 DEF Carry!SessionCreated, Carry!screenVars

(* Whoever waited for a session goes on, and its digest is armed.           *)
LEMMA CreationEndsKeeps ==
  ASSUME Carry!CarryAssumption, CarryInv, NEW m \in Modes, Carry!CreationEnds(m)
  PROVE  CarryInv'
PROOF
<1>1. /\ UNCHANGED <<mode, prompted, active, early>> /\ creating[m].at = "selected"
      /\ creating' = [creating EXCEPT ![m] = Carry!NotCreating]
  BY DEF Carry!CreationEnds, Carry!screenVars
<1>2. /\ DOMAIN mode \subseteq CarrySessions /\ active \in DOMAIN mode /\ DOMAIN creating = Modes
      /\ \A n \in Modes : CreationTyped(creating[n]) /\ DOMAIN call = Prompts
      /\ \A q \in Prompts : CallTyped(call[q])
      /\ DOMAIN prompted = CarrySessions /\ DOMAIN armed = CarrySessions
      /\ \A s \in CarrySessions : \E S : prompted[s] \in Seq(S)
  BY DEF CarryInv, CarryTypeOK
<1>3. /\ DOMAIN creating' = Modes /\ creating'[m] = Carry!NotCreating
      /\ \A n \in Modes : n # m => creating'[n] = creating[n]
  BY <1>1, <1>2
<1>4. /\ \A n \in Modes : creating'[n].session \in {creating[n].session, NoSession}
      /\ \A n \in Modes : CreationTyped(creating[n])'
  BY <1>1, <1>2, <1>3 DEF Carry!NotCreating, CreationTyped
<1>5. OneCreation'
  BY <1>4 DEF CarryInv, OneCreation
<1>6. CASE Carry!FailCallers(m) /\ UNCHANGED <<carry, armed, displaced>>
  BY <1>1, <1>2, <1>3, <1>4, <1>5, <1>6, CallersFail, CarryMoves
<1>7. CASE ~(Carry!FailCallers(m) /\ UNCHANGED <<carry, armed, displaced>>)
  <2>1. PICK o \in Carry!Callers(m) : Carry!Arms(creating[m].session, call[o].digest)
    BY <1>7 DEF Carry!CreationEnds
  <2>2. call' = [p \in Prompts |-> IF p \notin Carry!Callers(m) THEN call[p]
                      ELSE IF call[p].migrated
                      THEN [Carry!NowAt("migrated") EXCEPT !.want = call[p].want]
                      ELSE Carry!NowAt("applying")]
    BY <1>7 DEF Carry!CreationEnds
  <2>3. /\ DOMAIN call' = Prompts /\ \A q \in Prompts : \A j : j = call'[q] => CallTyped(j)
        /\ \A q \in Prompts : call'[q] = call[q] \/ call'[q].at \notin {"sending", "accepted"}
    <3>1. ASSUME NEW q \in Prompts, NEW w
          PROVE  /\ CallTyped([Carry!NowAt("migrated") EXCEPT !.want = w])
                 /\ [Carry!NowAt("migrated") EXCEPT !.want = w].at = "migrated"
      BY FreshCalls DEF CallTyped
    <3>2. CallTyped(Carry!NowAt("applying")) /\ Carry!NowAt("applying").at = "applying"
      BY FreshCalls
    <3>3. ASSUME NEW q \in Prompts
          PROVE  /\ call'[q] = call[q] \/ call'[q].at \notin {"sending", "accepted"}
                 /\ \A j : j = call'[q] => CallTyped(j)
      <4>1. \/ call'[q] = call[q] \/ call'[q] = Carry!NowAt("applying")
            \/ call'[q] = [Carry!NowAt("migrated") EXCEPT !.want = call[q].want]
        BY <2>2
      <4> QED
        BY <1>2, <3>1, <3>2, <4>1
    <3> QED
      BY <2>2, <3>3
  <2>4. CASE call[o].digest = <<>>
    <3>1. UNCHANGED <<carry, armed, displaced>>
      BY <2>1, <2>4 DEF Carry!Arms
    <3> QED
      BY <1>1, <1>2, <1>3, <1>4, <1>5, <2>3, <3>1, CarryMoves
  <2>5. CASE call[o].digest # <<>>
    <3>1. PICK x, d : x = creating[m].session /\ d = call[o].digest
      OBVIOUS
    <3>2. /\ carry' = [target |-> x, text |-> d] /\ armed' = [armed EXCEPT ![x] = d]
          /\ displaced' = displaced \cup ({carry.target} \ {NoSession, x})
      BY <2>1, <2>5, <3>1 DEF Carry!Arms
    <3>3. x \in DOMAIN mode /\ x \in CarrySessions /\ BeingCreated(x)
      BY <1>1, <1>2, <3>1 DEF CreationTyped, BeingCreated
    <3>4. /\ DOMAIN armed' = CarrySessions /\ armed'[x] = d
          /\ \A s \in CarrySessions : s # x => armed'[s] = armed[s]
      BY <1>2, <3>2, <3>3
    <3>5. \A p \in Prompts : \A s : SentTo(p, s)' => SentTo(p, s)
      BY <2>3 DEF SentTo
    <3>6. CarryTypeOK'
      BY <1>1, <1>2, <1>3, <1>4, <2>3, <3>4 DEF CarryTypeOK, CallTyped
    <3>7. ASSUME NEW s \in CarrySessions \ (early \cup displaced'), armed'[s] # <<>>
          PROVE  Logged(s)' \/ CarriesOn(s)'
      <4>1. CASE s = x
        <5>1. \A p \in Prompts : ~SentTo(p, s)'
          BY <3>3, <3>5, <3>7, <4>1 DEF CarryInv, NothingYet
        <5> QED
          BY <3>2, <3>4, <4>1, <5>1 DEF CarriesOn
      <4>2. CASE s # x
        <5>1. armed'[s] = armed[s] /\ s \notin displaced
          BY <3>2, <3>4, <3>7, <4>2
        <5>2. Logged(s) \/ CarriesOn(s)
          BY <3>7, <5>1 DEF CarryInv, ArmedHeld
        <5>3. ~CarriesOn(s)
          <6>1. CarriesOn(s) => carry.target = s
            BY DEF CarriesOn
          <6> QED
            BY <3>2, <3>7, <4>2, <6>1 DEF Carry!CarryAssumption
        <5> QED
          BY <1>1, <5>1, <5>2, <5>3 DEF Logged
      <4> QED
        BY <4>1, <4>2
    <3>8. ArmedHeld'
      BY <1>1, <3>7 DEF ArmedHeld
    <3>9. NothingYet'
      <4>1. SUFFICES ASSUME NEW s \in CarrySessions \ early, BeingCreated(s)'
                     PROVE  armed'[s] = <<>> /\ \A p \in Prompts : ~SentTo(p, s)'
        BY <1>1 DEF NothingYet
      <4>2. BeingCreated(s) /\ s # x
        <5>1. PICK z : z = s
          OBVIOUS
        <5>2. CASE s \notin DOMAIN mode'
          BY <1>1, <3>3, <5>2 DEF BeingCreated
        <5>3. CASE \E n \in Modes : creating'[n].session = s
          <6>1. PICK n \in Modes : creating'[n].session = s
            BY <5>3
          <6>2. n # m /\ creating[n].session = s
            BY <1>3, <6>1 DEF Carry!NotCreating, Carry!CarryAssumption
          <6> QED
            BY <3>1, <4>1, <6>2 DEF CarryInv, OneCreation, BeingCreated, Carry!CarryAssumption
        <5> QED
          BY <4>1, <5>2, <5>3 DEF BeingCreated
      <4> QED
        BY <3>4, <3>5, <4>1, <4>2 DEF CarryInv, NothingYet
    <3> QED
      BY <1>5, <3>6, <3>8, <3>9 DEF CarryInv
  <2> QED
    BY <2>4, <2>5
<1> QED
  BY <1>6, <1>7

(* A prompt is sent to the session that is active, with what is armed.      *)
LEMMA AppliedKeeps ==
  ASSUME Carry!CarryAssumption, CarryInv, NEW p \in Prompts, Carry!Applied(p)
  PROVE  CarryInv'
PROOF
<1>1. UNCHANGED <<mode, prompted, active, carry, creating, armed, displaced>>
  BY DEF Carry!Applied, Carry!screenVars
<1>2. /\ DOMAIN mode \subseteq CarrySessions /\ active \in DOMAIN mode /\ DOMAIN call = Prompts
      /\ \A q \in Prompts : CallTyped(call[q])
  BY DEF CarryInv, CarryTypeOK
<1>3. CASE call' = [call EXCEPT ![p] = Carry!NowAt("failed")] /\ UNCHANGED early
  BY <1>1, <1>3, FreshCalls, CallMoves
<1>4. CASE ~(call' = [call EXCEPT ![p] = Carry!NowAt("failed")] /\ UNCHANGED early)
  <2>1. PICK d : d = IF carry.target = active THEN carry.text ELSE <<>>
    OBVIOUS
  <2>2. PICK k : k = [call[p] EXCEPT !.at = "sending", !.target = active, !.digest = d]
    OBVIOUS
  <2>3. /\ call' = [call EXCEPT ![p] = k]
        /\ early' = early \cup ({active} \cap {creating[n].session : n \in Modes})
    BY <1>2, <1>4, <2>1, <2>2 DEF Carry!Applied
  <2>4. CallTyped(k) /\ k.at = "sending" /\ k.target = active /\ k.digest = d
    BY <1>2, <2>2 DEF CallTyped
  <2>5. /\ DOMAIN call' = Prompts /\ call'[p] = k
        /\ \A q \in Prompts : q # p => call'[q] = call[q]
        /\ \A q \in Prompts : \A j : j = call'[q] => CallTyped(j)
    BY <2>3, <2>4, CallBecomes
  <2>6. CarryTypeOK'
    BY <1>1, <2>5 DEF CarryInv, CarryTypeOK, CreationTyped, CallTyped
  <2>7. \A q \in Prompts : \A s :
          SentTo(q, s)' => (SentTo(q, s) /\ call'[q] = call[q]) \/ (q = p /\ s = active)
    BY <2>4, <2>5 DEF SentTo
  <2>8. ArmedHeld'
    <3>1. SUFFICES ASSUME NEW s \in CarrySessions \ (early' \cup displaced), armed[s] # <<>>
                   PROVE  Logged(s)' \/ CarriesOn(s)'
      BY <1>1 DEF ArmedHeld
    <3>2. Logged(s) \/ CarriesOn(s)
      BY <2>3, <3>1 DEF CarryInv, ArmedHeld
    <3>3. CASE Logged(s)
      BY <1>1, <3>3 DEF Logged
    <3>4. CASE CarriesOn(s)
      <4>1. ASSUME NEW q \in Prompts, SentTo(q, s)'
            PROVE  call'[q].at = "sending" /\ call'[q].digest = armed[s]
        <5>1. CASE q = p /\ s = active
          BY <2>1, <2>4, <2>5, <3>4, <5>1 DEF CarriesOn
        <5>2. CASE SentTo(q, s) /\ call'[q] = call[q]
          BY <3>4, <5>2 DEF CarriesOn
        <5> QED
          BY <2>7, <4>1, <5>1, <5>2
      <4> QED
        BY <1>1, <3>4, <4>1 DEF CarriesOn
    <3> QED
      BY <3>2, <3>3, <3>4
  <2>9. NothingYet'
    <3>1. SUFFICES ASSUME NEW s \in CarrySessions \ early', BeingCreated(s)'
                   PROVE  armed[s] = <<>> /\ \A q \in Prompts : ~SentTo(q, s)'
      BY <1>1 DEF NothingYet
    <3>2. BeingCreated(s) /\ s \notin early
      BY <1>1, <2>3, <3>1 DEF BeingCreated
    <3>3. s # active
      BY <1>2, <2>3, <3>1, <3>2 DEF BeingCreated
    <3> QED
      BY <2>7, <3>1, <3>2, <3>3 DEF CarryInv, NothingYet
  <2>10. OneCreation'
    BY <1>1 DEF CarryInv, OneCreation
  <2> QED
    BY <2>6, <2>8, <2>9, <2>10 DEF CarryInv
<1> QED
  BY <1>3, <1>4

(* The host has a prompt, and with it what it took along.                   *)
LEMMA HostAcceptsKeeps ==
  ASSUME Carry!CarryAssumption, CarryInv, NEW p \in Prompts, Carry!HostAccepts(p)
  PROVE  CarryInv'
PROOF
<1>1. UNCHANGED <<mode, active, carry, creating, armed, displaced, early>> /\ call[p].at = "sending"
  BY DEF Carry!HostAccepts, Carry!screenVars, Carry!history
<1>2. PICK x, r : x = call[p].target /\ r = [prompt |-> p, digest |-> call[p].digest]
  OBVIOUS
<1>3. PICK k : k = [Carry!NowAt("accepted") EXCEPT !.target = x]
  OBVIOUS
<1>4. /\ prompted' = [prompted EXCEPT ![x] = Append(prompted[x], r)] /\ call' = [call EXCEPT ![p] = k]
  BY <1>2, <1>3 DEF Carry!HostAccepts
<1>5. /\ DOMAIN call = Prompts /\ \A q \in Prompts : CallTyped(call[q])
      /\ DOMAIN prompted = CarrySessions /\ \A s \in CarrySessions : \E S : prompted[s] \in Seq(S)
  BY DEF CarryInv, CarryTypeOK
<1>6. x \in CarrySessions /\ SentTo(p, x)
  BY <1>1, <1>2, <1>5 DEF CallTyped, SentTo
<1>7. CallTyped(k) /\ k.at = "accepted" /\ k.target = x
  BY <1>3, <1>6, FreshCalls DEF CallTyped
<1>8. /\ DOMAIN call' = Prompts /\ call'[p] = k
      /\ \A q \in Prompts : q # p => call'[q] = call[q]
      /\ \A q \in Prompts : \A j : j = call'[q] => CallTyped(j)
  BY <1>4, <1>7, CallBecomes
<1>9. PICK S : prompted[x] \in Seq(S)
  BY <1>5, <1>6
<1>10. prompted[x] \in Seq(S \cup {r}) /\ r \in S \cup {r}
  <2>1. \A i \in 1..Len(prompted[x]) : prompted[x][i] \in S \cup {r}
    BY <1>9, ElementOfSeq
  <2> QED
    BY <1>9, <2>1, LenProperties, SeqDef
<1>11. PICK t : t = Append(prompted[x], r)
  OBVIOUS
<1>12. /\ t \in Seq(S \cup {r})
       /\ \A i \in DOMAIN prompted[x] : i \in DOMAIN t /\ t[i] = prompted[x][i]
       /\ \E i \in DOMAIN t : t[i] = r
  BY <1>10, <1>11, AppendOf
<1>13. /\ DOMAIN prompted' = CarrySessions /\ prompted'[x] = t
       /\ \A s \in CarrySessions : s # x => prompted'[s] = prompted[s]
  BY <1>4, <1>5, <1>6, <1>11
<1>14. CarryTypeOK'
  <2>1. \A s \in CarrySessions : \E R : prompted'[s] \in Seq(R)
    BY <1>5, <1>12, <1>13
  <2> QED
    BY <1>1, <1>8, <1>13, <2>1 DEF CarryInv, CarryTypeOK, CreationTyped, CallTyped
<1>15. \A q \in Prompts : \A s : SentTo(q, s)' => SentTo(q, s) /\ (q # p => call'[q] = call[q])
  BY <1>1, <1>2, <1>6, <1>7, <1>8 DEF SentTo
<1>16. ArmedHeld'
  <2>1. SUFFICES ASSUME NEW s \in CarrySessions \ (early \cup displaced), armed[s] # <<>>
                 PROVE  Logged(s)' \/ CarriesOn(s)'
    BY <1>1 DEF ArmedHeld
  <2>2. Logged(s) \/ CarriesOn(s)
    BY <2>1 DEF CarryInv, ArmedHeld
  <2>3. CASE Logged(s)
    BY <1>1, <1>12, <1>13, <2>1, <2>3 DEF Logged
  <2>4. CASE CarriesOn(s) /\ s = x
    <3>1. r.digest = armed[s]
      BY <1>2, <1>6, <2>4 DEF CarriesOn
    <3> QED
      BY <1>1, <1>12, <1>13, <2>1, <2>4, <3>1 DEF Logged
  <2>5. CASE CarriesOn(s) /\ s # x
    <3>1. ASSUME NEW q \in Prompts, SentTo(q, s)'
          PROVE  call'[q].at = "sending" /\ call'[q].digest = armed[s]
      <4>1. SentTo(q, s) /\ q # p
        BY <1>7, <1>8, <1>15, <2>5, <3>1 DEF SentTo
      <4> QED
        BY <1>8, <2>5, <4>1 DEF CarriesOn
    <3> QED
      BY <1>1, <2>5, <3>1 DEF CarriesOn
  <2> QED
    BY <2>2, <2>3, <2>4, <2>5
<1>17. NothingYet'
  BY <1>1, <1>15 DEF CarryInv, NothingYet, BeingCreated
<1>18. OneCreation'
  BY <1>1 DEF CarryInv, OneCreation
<1> QED
  BY <1>14, <1>16, <1>17, <1>18 DEF CarryInv

(* What was armed is cleared when its prompt is confirmed.                  *)
LEMMA ConfirmedKeeps ==
  ASSUME Carry!CarryAssumption, CarryInv, NEW p \in Prompts, Carry!Confirmed(p)
  PROVE  CarryInv'
PROOF
<1>1. /\ UNCHANGED <<mode, prompted, active, creating, armed, displaced, early>>
      /\ call[p].at = "accepted"
      /\ call' = [call EXCEPT ![p] = Carry!NowAt("done")]
  BY DEF Carry!Confirmed, Carry!screenVars, Carry!history
<1>2. PICK x : x = call[p].target
  OBVIOUS
<1>3. carry' = IF carry.target = x THEN Carry!NoCarry ELSE carry
  BY <1>2 DEF Carry!Confirmed, Carry!ClearCarryOver
<1>4. CallTyped(Carry!NowAt("done")) /\ Carry!NowAt("done").at = "done"
  BY FreshCalls
<1>5. /\ DOMAIN call' = Prompts /\ call'[p] = Carry!NowAt("done")
      /\ \A q \in Prompts : q # p => call'[q] = call[q]
      /\ \A q \in Prompts : \A j : j = call'[q] => CallTyped(j)
  BY <1>1, <1>4, CallBecomes
<1>6. CarryTypeOK'
  BY <1>1, <1>5 DEF CarryInv, CarryTypeOK, CreationTyped, CallTyped
<1>7. \A q \in Prompts : \A s : SentTo(q, s)' => SentTo(q, s) /\ call'[q] = call[q]
  BY <1>4, <1>5 DEF SentTo
<1>8. SentTo(p, x)
  BY <1>1, <1>2 DEF SentTo
<1>9. ArmedHeld'
  <2>1. SUFFICES ASSUME NEW s \in CarrySessions \ (early \cup displaced), armed[s] # <<>>
                 PROVE  Logged(s)' \/ CarriesOn(s)'
    BY <1>1 DEF ArmedHeld
  <2>2. Logged(s) \/ CarriesOn(s)
    BY <2>1 DEF CarryInv, ArmedHeld
  <2>3. CASE Logged(s)
    BY <1>1, <2>3 DEF Logged
  <2>4. CASE CarriesOn(s)
    <3>1. s # x
      BY <1>1, <1>8, <2>4 DEF CarriesOn
    <3>2. carry' = carry
      BY <1>3, <2>4, <3>1 DEF CarriesOn
    <3> QED
      BY <1>1, <1>7, <2>4, <3>2 DEF CarriesOn
  <2> QED
    BY <2>2, <2>3, <2>4
<1>10. NothingYet'
  BY <1>1, <1>7 DEF CarryInv, NothingYet, BeingCreated
<1>11. OneCreation'
  BY <1>1 DEF CarryInv, OneCreation
<1> QED
  BY <1>6, <1>9, <1>10, <1>11 DEF CarryInv

LEMMA SendFailsKeeps ==
  ASSUME Carry!CarryAssumption, CarryInv, NEW p \in Prompts, Carry!SendFails(p)
  PROVE  CarryInv'
PROOF
<1>1. /\ UNCHANGED <<mode, prompted, active, carry, creating, armed, displaced, early>>
      /\ call' = [call EXCEPT ![p] = Carry!NowAt("failed")]
  BY DEF Carry!SendFails, Carry!screenVars, Carry!history
<1> QED
  BY <1>1, FreshCalls, CallMoves

LEMMA ScreenMoves ==
  ASSUME Carry!CarryAssumption, CarryInv, active' \in DOMAIN mode,
         UNCHANGED <<mode, prompted, carry, creating, call, armed, displaced, early>>
  PROVE  CarryInv'
PROOF
<1>1. CarryTypeOK'
  BY DEF CarryInv, CarryTypeOK, CreationTyped, CallTyped
<1>2. ArmedHeld' /\ NothingYet' /\ OneCreation'
  BY DEF CarryInv, ArmedHeld, NothingYet, OneCreation, Logged, CarriesOn, SentTo, BeingCreated
<1> QED
  BY <1>1, <1>2 DEF CarryInv

LEMMA CarryKeptByStep ==
  ASSUME Carry!CarryAssumption, CarryInv, [Carry!Next]_(Carry!vars)
  PROVE  CarryInv'
PROOF
<1>1. active \in DOMAIN mode
  BY DEF CarryInv, CarryTypeOK
<1>2. CASE Carry!Next
  <2>1. ASSUME NEW p \in Prompts, Carry!Moved(p) \/ Carry!Checked(p) PROVE CarryInv'
    BY <2>1, CheckedKeeps
  <2>2. ASSUME NEW p \in Prompts, NEW want, Carry!Sends(p, want) PROVE CarryInv'
    BY <2>2, SendsKeeps
  <2>3. ASSUME NEW p \in Prompts, Carry!Applied(p) PROVE CarryInv'
    BY <2>3, AppliedKeeps
  <2>4. ASSUME NEW p \in Prompts, Carry!HostAccepts(p) PROVE CarryInv'
    BY <2>4, HostAcceptsKeeps
  <2>5. ASSUME NEW p \in Prompts, Carry!Confirmed(p) PROVE CarryInv'
    BY <2>5, ConfirmedKeeps
  <2>6. ASSUME NEW p \in Prompts, Carry!SendFails(p) PROVE CarryInv'
    BY <2>6, SendFailsKeeps
  <2>7. ASSUME NEW m \in Modes, Carry!SessionCreated(m) PROVE CarryInv'
    BY <2>7, SessionCreatedKeeps
  <2>8. ASSUME NEW m \in Modes, Carry!CreationEnds(m) PROVE CarryInv'
    BY <2>8, CreationEndsKeeps
  <2>9. CASE Carry!Arrives
    <3>1. active' \in DOMAIN mode
          /\ UNCHANGED <<mode, prompted, carry, creating, call, armed, displaced, early>>
      BY <1>1, <2>9 DEF Carry!Arrives, Carry!history
    <3> QED
      BY <3>1, ScreenMoves
  <2>10. ASSUME NEW s \in CarrySessions, Carry!SelectSession(s) PROVE CarryInv'
    <3>1. active' \in DOMAIN mode
          /\ UNCHANGED <<mode, prompted, carry, creating, call, armed, displaced, early>>
      BY <2>10 DEF Carry!SelectSession, Carry!history
    <3> QED
      BY <3>1, ScreenMoves
  <2> QED
    BY <1>2, <2>1, <2>2, <2>3, <2>4, <2>5, <2>6, <2>7, <2>8, <2>9, <2>10 DEF Carry!Next
<1>3. CASE UNCHANGED Carry!vars
  BY <1>1, <1>3, ScreenMoves DEF Carry!vars
<1> QED
  BY <1>2, <1>3

LEMMA CarryImplies ==
  ASSUME CarryInv
  PROVE  Carry!ArmedContextKept
PROOF BY DEF CarryInv, ArmedHeld, Logged, CarriesOn, Carry!ArmedContextKept, Carry!Kept

-----------------------------------------------------------------------------
(* The queue.                                                               *)

InboxTyped == (\E S : inbox \in Seq(S)) /\ \A i \in DOMAIN inbox : "id" \in DOMAIN inbox[i]
CallFields == {"kind", "id", "text", "at"}
CallsTyped == (\E S : calls \in Seq(S)) /\ \A c \in DOMAIN calls : DOMAIN calls[c] = CallFields

(* Once its last frame was read, the gateway knows the inbox, by the frame  *)
(* or by a snapshot that is not older.                                      *)
StreamTells ==
  /\ \E S : frames \in Seq(S)
  /\ ~link => frames = <<>>
  /\ frames # <<>> => frames[Len(frames)] = inbox
  /\ DOMAIN follow = {"at", "items", "overtaken"} /\ (follow.at # "none" => open)
  /\ link /\ frames = <<>> =>
       /\ open /\ follow = Dock!NoSnapshot /\ ~passed => queue = inbox
       /\ follow.at = "built" /\ ~follow.overtaken => follow.items = inbox

(* The webview edits a row that is there.                                   *)
EditsRow ==
  /\ DOMAIN edit = {"id", "typed"}
  /\ edit.id # Dock!NoItem => Dock!Found(Dock!Rows(queue), edit.id)

DockInv == InboxTyped /\ CallsTyped /\ StreamTells /\ EditsRow /\ Dock!PromptKept

LEMMA DockInit ==
  ASSUME Dock!QueueAssumption, Dock!Init
  PROVE  DockInv
PROOF
<1> DEFINE n == Cardinality(Queued)
           T == {Dock!Item(p, 0, 0, FALSE) : p \in Queued}
<1>1. /\ inbox \in [1..n -> T] /\ Dock!IsInjective(inbox)
      /\ frames = <<>> /\ follow = Dock!NoSnapshot /\ queue = inbox /\ edit = Dock!NoEdit
      /\ calls = <<>>
  <2>1. Dock!Cardinality(Queued) = Cardinality(Queued)
    BY DEF Dock!Cardinality, Cardinality
  <2> QED
    BY <2>1 DEF Dock!Init
<1>2. IsFiniteSet(Queued) /\ n \in Nat
  <2>1. IsFiniteSet(Queued)
    BY DEF Dock!QueueAssumption, Dock!IsFiniteSet, IsFiniteSet
  <2> QED
    BY <2>1, FS_CardinalityType
<1> HIDE DEF n
<1>3. inbox \in Seq(T) /\ DOMAIN inbox = 1..n
  BY <1>1, <1>2, SeqDef
<1>4. \A i \in 1..n : "id" \in DOMAIN inbox[i] /\ Dock!PromptOf(inbox[i].id) \in Queued
  BY <1>1 DEF Dock!Item, Dock!PromptOf
<1>5. \A i \in 1..n : \A j \in 1..n :
        Dock!PromptOf(inbox[i].id) = Dock!PromptOf(inbox[j].id) => i = j
  <2>1. \A i \in 1..n : inbox[i] = Dock!Item(Dock!PromptOf(inbox[i].id), 0, 0, FALSE)
    BY <1>1 DEF Dock!Item, Dock!PromptOf
  <2> QED
    BY <1>1, <1>3, <2>1 DEF Dock!IsInjective
<1>6. Dock!PromptKept
  <2>1. PICK f : f = [i \in 1..n |-> Dock!PromptOf(inbox[i].id)]
    OBVIOUS
  <2>2. f \in Injection(1..n, Queued)
    BY <1>4, <1>5, <2>1 DEF Injection, IsInjective
  <2>3. Cardinality(1..n) = Cardinality(Queued)
    BY <1>2, FS_Interval DEF n
  <2>4. f \in Surjection(1..n, Queued)
    BY <1>2, <2>2, <2>3, FS_Injection
  <2>5. \A p \in Queued : \E i \in 1..n : f[i] = p
    BY <2>4 DEF Surjection
  <2>6. \A p \in Queued : Dock!Waits(p)
    BY <1>3, <2>1, <2>5 DEF Dock!Waits
  <2> QED
    BY <2>6 DEF Dock!PromptKept
<1>7. InboxTyped /\ CallsTyped
  <2>1. <<>> \in Seq({}) /\ DOMAIN <<>> = {}
    OBVIOUS
  <2> QED
    BY <1>1, <1>3, <1>4, <2>1 DEF InboxTyped, CallsTyped
<1>8. StreamTells
  BY <1>1 DEF StreamTells, Dock!NoSnapshot
<1>9. EditsRow
  BY <1>1 DEF EditsRow, Dock!NoEdit
<1> QED
  BY <1>6, <1>7, <1>8, <1>9 DEF DockInv

-----------------------------------------------------------------------------
(* The inbox changes, and a frame says so.                                  *)
LEMMA InboxChanges ==
  ASSUME DockInv, NEW items, Dock!InboxBecomes(items), UNCHANGED <<link, open, follow, queue, passed>>
  PROVE  StreamTells' /\ inbox' = items
PROOF
<1>1. inbox' = items /\ frames' = IF link THEN Append(frames, items) ELSE frames
  BY DEF Dock!InboxBecomes
<1>2. CASE ~link
  BY <1>1, <1>2 DEF DockInv, StreamTells
<1>3. CASE link
  <2>1. PICK S : frames \in Seq(S)
    BY DEF DockInv, StreamTells
  <2>2. frames \in Seq(S \cup {items}) /\ items \in S \cup {items}
    BY <2>1, WiderSeq
  <2>3. /\ frames' \in Seq(S \cup {items}) /\ frames' # <<>> /\ Len(frames') = Len(frames) + 1
        /\ frames'[Len(frames) + 1] = items
    BY <1>1, <1>3, <2>2, AppendOf
  <2> QED
    BY <1>1, <1>3, <2>3 DEF DockInv, StreamTells
<1> QED
  BY <1>1, <1>2, <1>3

LEMMA InboxShortened ==
  ASSUME InboxTyped, NEW i \in DOMAIN inbox, inbox' = Dock!RemoveAt(inbox, i)
  PROVE  /\ InboxTyped'
         /\ \A p : Dock!Waits(p) => Dock!Waits(p)' \/ p = Dock!PromptOf(inbox[i].id)
PROOF
<1>1. PICK S : inbox \in Seq(S)
  BY DEF InboxTyped
<1>2. PICK s, r : s = inbox /\ r = Shortened(s, i)
  OBVIOUS
<1>3. inbox' = r
  BY <1>2 DEF Dock!RemoveAt, Shortened
<1>4. /\ r \in Seq(S) /\ Len(r) = Len(s) - 1 /\ Len(s) \in Nat /\ i \in 1..Len(s)
      /\ \A j \in DOMAIN r : j \in Nat /\ r[j] = IF j < i THEN s[j] ELSE s[j + 1]
  BY <1>1, <1>2, ShortenedIs
<1>5. DOMAIN s = 1..Len(s) /\ DOMAIN r = 1..(Len(s) - 1)
  BY <1>1, <1>2, <1>4, LenProperties
<1>6. ASSUME NEW j \in DOMAIN r PROVE \E k \in DOMAIN s : r[j] = s[k]
  <2>1. j \in DOMAIN s /\ j + 1 \in DOMAIN s
    BY <1>4, <1>5
  <2> QED
    BY <1>4, <2>1
<1>7. ASSUME NEW k \in DOMAIN s, k # i PROVE \E j \in DOMAIN r : r[j] = s[k]
  <2>1. CASE k < i
    <3>1. k \in DOMAIN r
      BY <1>4, <1>5, <2>1
    <3> QED
      BY <1>4, <2>1, <3>1
  <2>2. CASE ~(k < i)
    <3>1. k - 1 \in DOMAIN r /\ ~(k - 1 < i) /\ (k - 1) + 1 = k
      BY <1>4, <1>5, <1>7, <2>2
    <3> QED
      BY <1>4, <3>1
  <2> QED
    BY <2>1, <2>2
<1>8. InboxTyped'
  BY <1>2, <1>3, <1>4, <1>6 DEF InboxTyped
<1>9. ASSUME NEW p, Dock!Waits(p), p # Dock!PromptOf(inbox[i].id)
      PROVE  Dock!Waits(p)'
  <2>1. PICK k \in DOMAIN s : Dock!PromptOf(s[k].id) = p
    BY <1>2, <1>9 DEF Dock!Waits
  <2>2. PICK j \in DOMAIN r : r[j] = s[k]
    BY <1>2, <1>7, <1>9, <2>1
  <2> QED
    BY <1>3, <2>1, <2>2 DEF Dock!Waits
<1> QED
  BY <1>8, <1>9

LEMMA InboxReplaced ==
  ASSUME InboxTyped, NEW i \in DOMAIN inbox, NEW r, "id" \in DOMAIN r, r.id = inbox[i].id,
         inbox' = [inbox EXCEPT ![i] = r]
  PROVE  InboxTyped' /\ \A p : Dock!Waits(p) => Dock!Waits(p)'
PROOF
<1>1. PICK S : inbox \in Seq(S)
  BY DEF InboxTyped
<1>2. inbox \in Seq(S \cup {r}) /\ r \in S \cup {r} /\ i \in 1..Len(inbox)
  BY <1>1, WiderSeq, LenProperties
<1>3. inbox' \in Seq(S \cup {r})
  BY <1>2, ExceptSeq
<1>4. /\ DOMAIN inbox' = DOMAIN inbox /\ inbox'[i] = r
      /\ \A j \in DOMAIN inbox : j # i => inbox'[j] = inbox[j]
  OBVIOUS
<1>5. InboxTyped'
  BY <1>3, <1>4 DEF InboxTyped
<1>6. \A j \in DOMAIN inbox : inbox'[j].id = inbox[j].id
  BY <1>4
<1> QED
  BY <1>4, <1>5, <1>6 DEF Dock!Waits

LEMMA InboxGrows ==
  ASSUME InboxTyped, NEW x, "id" \in DOMAIN x, inbox' = Append(inbox, x)
  PROVE  InboxTyped' /\ (\A p : Dock!Waits(p) => Dock!Waits(p)') /\ Dock!Waits(Dock!PromptOf(x.id))'
PROOF
<1>1. PICK S : inbox \in Seq(S)
  BY DEF InboxTyped
<1>2. inbox \in Seq(S \cup {x}) /\ x \in S \cup {x}
  BY <1>1, WiderSeq
<1>3. /\ inbox' \in Seq(S \cup {x}) /\ Len(inbox) + 1 \in DOMAIN inbox'
      /\ inbox'[Len(inbox) + 1] = x
      /\ \A i \in DOMAIN inbox : i \in DOMAIN inbox' /\ inbox'[i] = inbox[i]
      /\ \A i \in DOMAIN inbox' : i \in DOMAIN inbox \/ i = Len(inbox) + 1
  BY <1>2, AppendOf
<1>4. InboxTyped'
  BY <1>3 DEF InboxTyped
<1>5. \A p : Dock!Waits(p) => Dock!Waits(p)'
  BY <1>3 DEF Dock!Waits
<1>6. PICK y : y = Dock!PromptOf(x.id)
  OBVIOUS
<1>7. Dock!Waits(y)'
  BY <1>3, <1>6 DEF Dock!Waits
<1> QED
  BY <1>4, <1>5, <1>6, <1>7 DEF Dock!Waits

(* A command goes on.                                                       *)
Underway == {"steering", "queueing"}
LEMMA CallGoes ==
  ASSUME CallsTyped, NEW c \in DOMAIN calls, NEW k, DOMAIN k = CallFields, k.id = calls[c].id,
         calls' = [calls EXCEPT ![c] = k], calls[c].at # "failed"
  PROVE  /\ CallsTyped' /\ \A p : Dock!Told(p) => Dock!Told(p)'
         /\ \A p : Dock!UnderWay(p) =>
              Dock!UnderWay(p)' \/ (p = Dock!PromptOf(k.id) /\ calls[c].at \in Underway)
         /\ \A p : p = Dock!PromptOf(k.id) =>
              (k.at = "failed" => Dock!Told(p)') /\ (k.at \in Underway => Dock!UnderWay(p)')
PROOF
<1>1. PICK S : calls \in Seq(S)
  BY DEF CallsTyped
<1>2. calls \in Seq(S \cup {k}) /\ k \in S \cup {k} /\ c \in 1..Len(calls)
  BY <1>1, WiderSeq, LenProperties
<1>3. calls' \in Seq(S \cup {k})
  BY <1>2, ExceptSeq
<1>4. /\ DOMAIN calls' = DOMAIN calls /\ calls'[c] = k
      /\ \A d \in DOMAIN calls : d # c => calls'[d] = calls[d]
  OBVIOUS
<1>5. CallsTyped'
  BY <1>3, <1>4 DEF CallsTyped
<1>6. \A p : Dock!Told(p) => Dock!Told(p)'
  BY <1>4 DEF Dock!Told
<1>7. \A p : Dock!UnderWay(p) =>
        Dock!UnderWay(p)' \/ (p = Dock!PromptOf(k.id) /\ calls[c].at \in Underway)
  BY <1>4 DEF Dock!UnderWay, Underway
<1>8. \A p : p = Dock!PromptOf(k.id) =>
        (k.at = "failed" => Dock!Told(p)') /\ (k.at \in Underway => Dock!UnderWay(p)')
  BY <1>4 DEF Dock!UnderWay, Dock!Told, Underway
<1> QED
  BY <1>5, <1>6, <1>7, <1>8

LEMMA CallIsAt ==
  ASSUME CallsTyped, NEW c \in DOMAIN calls, NEW at, Dock!Goes(c, at), calls[c].at # "failed"
  PROVE  /\ CallsTyped' /\ \A p : Dock!Told(p) => Dock!Told(p)'
         /\ \A p : Dock!UnderWay(p) =>
              Dock!UnderWay(p)' \/ (p = Dock!PromptOf(calls[c].id) /\ calls[c].at \in Underway)
         /\ \A p : p = Dock!PromptOf(calls[c].id) =>
              (at = "failed" => Dock!Told(p)') /\ (at \in Underway => Dock!UnderWay(p)')
PROOF
<1>1. PICK k : k = [calls[c] EXCEPT !.at = at]
  OBVIOUS
<1>2. DOMAIN k = CallFields /\ k.id = calls[c].id /\ k.at = at
  BY <1>1 DEF CallsTyped, CallFields
<1>3. calls' = [calls EXCEPT ![c] = k]
  BY <1>1 DEF Dock!Goes
<1> QED
  BY <1>2, <1>3, CallGoes

(* What became of the prompts.                                              *)
Answered(p) == \E item \in answered : Dock!PromptOf(item.id) = p
LEMMA PromptsStay ==
  ASSUME Dock!PromptKept, withdrawn \subseteq withdrawn', answered \subseteq answered',
         \A p : Dock!Waits(p) => \/ Dock!Waits(p)' \/ Answered(p)' \/ p \in withdrawn'
                                 \/ Dock!UnderWay(p)' \/ Dock!Told(p)',
         \A p : Dock!UnderWay(p) => Dock!UnderWay(p)' \/ Dock!Waits(p)' \/ Dock!Told(p)',
         \A p : Dock!Told(p) => Dock!Told(p)'
  PROVE  Dock!PromptKept'
PROOF
<1>1. \A p : Answered(p) => Answered(p)'
  BY DEF Answered
<1>2. ASSUME NEW p \in Queued \ withdrawn'
      PROVE  Dock!Waits(p)' \/ Answered(p)' \/ Dock!UnderWay(p)' \/ Dock!Told(p)'
  <2>1. Dock!Waits(p) \/ Answered(p) \/ Dock!UnderWay(p) \/ Dock!Told(p)
    BY <1>2 DEF Dock!PromptKept, Answered
  <2> QED
    BY <1>1, <1>2, <2>1
<1> QED
  BY <1>2 DEF Dock!PromptKept, Answered

LEMMA ClaimsKeeps ==
  ASSUME DockInv, Dock!Claims
  PROVE  DockInv'
PROOF
<1>1. PICK i \in DOMAIN inbox :
        Dock!InboxBecomes(Dock!RemoveAt(inbox, i)) /\ answered' = answered \cup {inbox[i]}
  BY DEF Dock!Claims
<1>2. UNCHANGED <<link, open, follow, queue, edit, calls, withdrawn, passed>>
  BY DEF Dock!Claims, Dock!shownVars, Dock!history
<1>3. PICK items : items = Dock!RemoveAt(inbox, i)
  OBVIOUS
<1>4. StreamTells' /\ inbox' = items
  BY <1>1, <1>2, <1>3, InboxChanges
<1>5. InboxTyped' /\ \A p : Dock!Waits(p) => Dock!Waits(p)' \/ p = Dock!PromptOf(inbox[i].id)
  BY <1>3, <1>4, InboxShortened DEF DockInv
<1>6. \A p : p = Dock!PromptOf(inbox[i].id) => Answered(p)'
  BY <1>1 DEF Answered
<1>7. /\ \A p : Dock!UnderWay(p) => Dock!UnderWay(p)'
      /\ \A p : Dock!Told(p) => Dock!Told(p)'
  BY <1>2 DEF Dock!UnderWay, Dock!Told
<1>8. Dock!PromptKept'
  BY <1>1, <1>2, <1>5, <1>6, <1>7, PromptsStay DEF DockInv
<1>9. EditsRow' /\ CallsTyped'
  BY <1>2 DEF DockInv, EditsRow, CallsTyped
<1> QED
  BY <1>4, <1>5, <1>8, <1>9 DEF DockInv

(* A step of the streams or of the webview: the prompts stay where they are.*)
LEMMA ScreenSteps ==
  ASSUME DockInv, UNCHANGED <<inbox, answered, withdrawn, calls>>, StreamTells', EditsRow'
  PROVE  DockInv'
PROOF
<1>1. /\ \A p : Dock!UnderWay(p) => Dock!UnderWay(p)'
      /\ \A p : Dock!Told(p) => Dock!Told(p)'
      /\ \A p : Dock!Waits(p) => Dock!Waits(p)'
  BY DEF Dock!UnderWay, Dock!Told, Dock!Waits
<1>2. Dock!PromptKept'
  BY <1>1, PromptsStay DEF DockInv
<1>3. InboxTyped' /\ CallsTyped'
  BY DEF DockInv, InboxTyped, CallsTyped
<1> QED
  BY <1>2, <1>3 DEF DockInv

LEMMA DockShowsKeeps ==
  ASSUME EditsRow, NEW items, Dock!Shows(items)
  PROVE  EditsRow' /\ queue' = items
PROOF
<1>1. queue' = items
  BY DEF Dock!Shows
<1>2. CASE Dock!Rows(items) = Dock!Rows(queue)
  <2>1. edit' = edit
    BY <1>2 DEF Dock!Shows
  <2> QED
    BY <1>1, <1>2, <2>1 DEF EditsRow
<1>3. CASE Dock!Rows(items) # Dock!Rows(queue) /\ Dock!Found(Dock!Rows(items), edit.id)
  <2>1. edit' = [edit EXCEPT !.typed = FALSE]
    BY <1>3 DEF Dock!Shows
  <2>2. DOMAIN edit' = {"id", "typed"} /\ edit'.id = edit.id
    BY <2>1 DEF EditsRow
  <2> QED
    BY <1>1, <1>3, <2>2 DEF EditsRow
<1>4. CASE Dock!Rows(items) # Dock!Rows(queue) /\ ~Dock!Found(Dock!Rows(items), edit.id)
  <2>1. edit' = Dock!NoEdit
    BY <1>4 DEF Dock!Shows
  <2>2. DOMAIN edit' = {"id", "typed"} /\ edit'.id = Dock!NoItem
    BY <2>1 DEF Dock!NoEdit
  <2> QED
    BY <1>1, <2>2 DEF EditsRow
<1> QED
  BY <1>1, <1>2, <1>3, <1>4

LEMMA FrameArrivesKeeps ==
  ASSUME DockInv, Dock!FrameArrives
  PROVE  DockInv'
PROOF
<1>1. /\ frames # <<>> /\ frames' = Tail(frames)
      /\ UNCHANGED <<inbox, answered, link, open, calls, withdrawn, passed>>
  BY DEF Dock!FrameArrives, Dock!hostVars, Dock!history
<1>2. PICK S : frames \in Seq(S)
  BY DEF DockInv, StreamTells
<1>3. PICK t, h : t = Tail(frames) /\ h = Head(frames)
  OBVIOUS
<1>4. /\ t \in Seq(S) /\ h = frames[1] /\ Len(t) = Len(frames) - 1 /\ Len(frames) \in Nat \ {0}
      /\ \A i \in DOMAIN t : t[i] = frames[i + 1]
  BY <1>1, <1>2, <1>3, TailOf
<1>5. t = <<>> => Len(frames) = 1
  BY <1>2, <1>4
<1>6. t # <<>> => t[Len(t)] = inbox
  <2>1. SUFFICES ASSUME t # <<>> PROVE t[Len(t)] = inbox
    OBVIOUS
  <2>2. Len(t) \in DOMAIN t
    BY <1>4, <2>1, LenProperties, EmptySeq
  <2>3. Len(t) + 1 = Len(frames)
    BY <1>4
  <2> QED
    BY <1>1, <1>4, <2>2, <2>3 DEF DockInv, StreamTells
<1>7. t = <<>> => h = inbox
  BY <1>1, <1>4, <1>5 DEF DockInv, StreamTells
<1>8. CASE open
  <2>1. PICK b : b = (follow.overtaken \/ follow.at = "built")
    OBVIOUS
  <2>2. Dock!Shows(h) /\ follow' = [follow EXCEPT !.overtaken = b]
    BY <1>3, <1>8, <2>1 DEF Dock!FrameArrives
  <2>3. EditsRow' /\ queue' = h
    BY <2>2, DockShowsKeeps DEF DockInv
  <2>4. follow.at = "built" => b
    BY <2>1, Zenon
  <2>5. /\ DOMAIN follow' = {"at", "items", "overtaken"} /\ follow'.at = follow.at
        /\ follow'.overtaken = b
    BY <2>2 DEF DockInv, StreamTells
  <2>6. ~(follow'.at = "built" /\ ~follow'.overtaken)
    BY <2>4, <2>5
  <2>7. StreamTells'
    BY <1>1, <1>3, <1>4, <1>6, <1>7, <1>8, <2>3, <2>5, <2>6 DEF DockInv, StreamTells
  <2> QED
    BY <1>1, <2>3, <2>7, ScreenSteps
<1>9. CASE ~open
  <2>1. UNCHANGED <<follow, queue, edit>>
    BY <1>9 DEF Dock!FrameArrives, Dock!shownVars
  <2>2. EditsRow'
    BY <2>1 DEF DockInv, EditsRow
  <2>3. StreamTells'
    BY <1>1, <1>3, <1>4, <1>6, <1>7, <1>9, <2>1 DEF DockInv, StreamTells
  <2> QED
    BY <1>1, <2>2, <2>3, ScreenSteps
<1> QED
  BY <1>8, <1>9

(* The stream and the snapshot of the session.                              *)
LEMMA StreamSteps ==
  ASSUME DockInv, \/ Dock!StreamLost \/ Dock!StreamBack \/ Dock!Leaves \/ Dock!Returns
                  \/ Dock!SnapshotBuilt \/ Dock!SnapshotArrives
  PROVE  DockInv'
PROOF
<1>1. CASE Dock!StreamLost
  <2>1. /\ UNCHANGED <<inbox, answered, open, follow, queue, edit, calls, withdrawn, passed>>
        /\ link' = FALSE /\ frames' = <<>>
    BY <1>1 DEF Dock!StreamLost, Dock!hostVars, Dock!history, Dock!shownVars
  <2>2. StreamTells' /\ EditsRow'
    BY <2>1 DEF DockInv, StreamTells, EditsRow
  <2> QED
    BY <2>1, <2>2, ScreenSteps
<1>2. CASE Dock!StreamBack
  <2>1. /\ UNCHANGED <<inbox, answered, open, follow, queue, edit, calls, withdrawn, passed>>
        /\ link' = TRUE /\ frames' = <<inbox>>
    BY <1>2 DEF Dock!StreamBack, Dock!hostVars, Dock!history, Dock!shownVars
  <2>2. frames' \in Seq({inbox}) /\ frames' # <<>> /\ Len(frames') = 1 /\ frames'[1] = inbox
    BY <2>1
  <2>3. StreamTells' /\ EditsRow'
    BY <2>1, <2>2 DEF DockInv, StreamTells, EditsRow
  <2> QED
    BY <2>1, <2>3, ScreenSteps
<1>3. CASE Dock!Leaves
  <2>1. /\ UNCHANGED <<inbox, answered, link, frames, calls, withdrawn, passed>>
        /\ open' = FALSE /\ follow' = Dock!NoSnapshot /\ Dock!Shows(<<>>)
    BY <1>3 DEF Dock!Leaves, Dock!hostVars, Dock!history
  <2>2. EditsRow'
    BY <2>1, DockShowsKeeps DEF DockInv
  <2>3. StreamTells'
    BY <2>1 DEF DockInv, StreamTells, Dock!NoSnapshot
  <2> QED
    BY <2>1, <2>2, <2>3, ScreenSteps
<1>4. CASE Dock!Returns
  <2>1. /\ UNCHANGED <<inbox, answered, link, frames, queue, edit, calls, withdrawn, passed>>
        /\ open' = TRUE /\ follow' = [Dock!NoSnapshot EXCEPT !.at = "asked"]
    BY <1>4 DEF Dock!Returns, Dock!hostVars, Dock!history, Dock!shownVars
  <2>2. StreamTells' /\ EditsRow'
    BY <2>1 DEF DockInv, StreamTells, EditsRow, Dock!NoSnapshot
  <2> QED
    BY <2>1, <2>2, ScreenSteps
<1>5. CASE Dock!SnapshotBuilt
  <2>1. /\ UNCHANGED <<inbox, answered, link, frames, open, queue, edit, calls, withdrawn, passed>>
        /\ follow.at = "asked" /\ follow' = [at |-> "built", items |-> inbox, overtaken |-> FALSE]
    BY <1>5 DEF Dock!SnapshotBuilt, Dock!hostVars, Dock!history, Dock!shownVars
  <2>2. StreamTells' /\ EditsRow'
    BY <2>1 DEF DockInv, StreamTells, EditsRow, Dock!NoSnapshot
  <2> QED
    BY <2>1, <2>2, ScreenSteps
<1>6. CASE Dock!SnapshotArrives
  <2>1. PICK x : x = follow.items
    OBVIOUS
  <2>2. /\ UNCHANGED <<inbox, answered, link, frames, open, calls, withdrawn>>
        /\ follow.at = "built" /\ follow' = Dock!NoSnapshot /\ Dock!Shows(x)
    BY <1>6, <2>1 DEF Dock!SnapshotArrives, Dock!hostVars
  <2>3. ~passed' => ~passed /\ ~follow.overtaken
    <3>1. passed' = (passed \/ follow.overtaken)
      BY <1>6 DEF Dock!SnapshotArrives
    <3> QED
      BY <3>1, Zenon
  <2>4. EditsRow' /\ queue' = x
    BY <2>2, DockShowsKeeps DEF DockInv
  <2>5. StreamTells'
    BY <2>1, <2>2, <2>3, <2>4 DEF DockInv, StreamTells, Dock!NoSnapshot
  <2> QED
    BY <2>2, <2>4, <2>5, ScreenSteps
<1> QED
  BY <1>1, <1>2, <1>3, <1>4, <1>5, <1>6

LEMMA DockEditsKeeps ==
  ASSUME DockInv, Dock!Edits
  PROVE  DockInv'
PROOF
<1>1. UNCHANGED <<inbox, answered, link, frames, open, follow, queue, calls, withdrawn, passed>>
  BY DEF Dock!Edits, Dock!hostVars, Dock!history
<1>2. StreamTells'
  BY <1>1 DEF DockInv, StreamTells
<1>3. EditsRow'
  <2>1. CASE \E i \in DOMAIN Dock!Rows(queue) :
               edit' = [id |-> Dock!Rows(queue)[i].id, typed |-> FALSE]
    BY <1>1, <2>1 DEF EditsRow, Dock!Found
  <2>2. CASE edit' = [edit EXCEPT !.typed = TRUE]
    <3>1. DOMAIN edit' = {"id", "typed"} /\ edit'.id = edit.id
      BY <2>2 DEF DockInv, EditsRow
    <3> QED
      BY <1>1, <3>1 DEF DockInv, EditsRow
  <2>3. CASE edit' = Dock!NoEdit
    BY <2>3 DEF EditsRow, Dock!NoEdit
  <2> QED
    BY <2>1, <2>2, <2>3 DEF Dock!Edits, Dock!Starts
<1> QED
  BY <1>1, <1>2, <1>3, ScreenSteps

LEMMA ClicksKeeps ==
  ASSUME DockInv, Dock!Clicks
  PROVE  DockInv'
PROOF
<1>1. PICK kind, item, text : Dock!Command(kind, item, text) /\ (edit' = edit \/ edit' = Dock!NoEdit)
  BY DEF Dock!Clicks
<1>2. PICK k : k = [kind |-> kind, id |-> item.id, text |-> text, at |-> "asking"]
  OBVIOUS
<1>3. /\ UNCHANGED <<inbox, answered, link, frames, open, follow, queue, withdrawn, passed>>
      /\ calls' = Append(calls, k)
  BY <1>1, <1>2 DEF Dock!Command, Dock!hostVars, Dock!history
<1>4. PICK S : calls \in Seq(S)
  BY DEF DockInv, CallsTyped
<1>5. calls \in Seq(S \cup {k}) /\ k \in S \cup {k}
  BY <1>4, WiderSeq
<1>6. /\ calls' \in Seq(S \cup {k}) /\ Len(calls) + 1 \in DOMAIN calls'
      /\ calls'[Len(calls) + 1] = k
      /\ \A i \in DOMAIN calls : i \in DOMAIN calls' /\ calls'[i] = calls[i]
      /\ \A i \in DOMAIN calls' : i \in DOMAIN calls \/ i = Len(calls) + 1
  BY <1>3, <1>5, AppendOf
<1>7. CallsTyped'
  BY <1>2, <1>6 DEF DockInv, CallsTyped, CallFields
<1>8. /\ \A p : Dock!UnderWay(p) => Dock!UnderWay(p)'
      /\ \A p : Dock!Told(p) => Dock!Told(p)'
      /\ \A p : Dock!Waits(p) => Dock!Waits(p)'
  BY <1>3, <1>6 DEF Dock!UnderWay, Dock!Told, Dock!Waits
<1>9. Dock!PromptKept'
  BY <1>3, <1>8, PromptsStay DEF DockInv
<1>10. InboxTyped' /\ StreamTells'
  BY <1>3 DEF DockInv, InboxTyped, StreamTells
<1>11. EditsRow'
  BY <1>1, <1>3 DEF DockInv, EditsRow, Dock!NoEdit
<1> QED
  BY <1>7, <1>9, <1>10, <1>11 DEF DockInv

-----------------------------------------------------------------------------
(* What a command does.                                                     *)

(* A command that leaves the inbox alone; where it had the prompt on its    *)
(* way, it still has, or the user is told.                                  *)
LEMMA CommandAlone ==
  ASSUME DockInv, NEW c \in DOMAIN calls, CallsTyped',
         UNCHANGED <<inbox, answered, link, frames, open, follow, queue, edit, withdrawn, passed>>,
         \A p : Dock!UnderWay(p) => Dock!UnderWay(p)' \/ Dock!Told(p)',
         \A p : Dock!Told(p) => Dock!Told(p)'
  PROVE  DockInv'
PROOF
<1>1. \A p : Dock!Waits(p) => Dock!Waits(p)'
  BY DEF Dock!Waits
<1>2. Dock!PromptKept'
  BY <1>1, PromptsStay DEF DockInv
<1>3. InboxTyped' /\ StreamTells' /\ EditsRow'
  BY DEF DockInv, InboxTyped, StreamTells, EditsRow
<1> QED
  BY <1>2, <1>3 DEF DockInv

(* A command that changes the inbox.                                        *)
LEMMA CommandChanges ==
  ASSUME DockInv, NEW items, Dock!InboxBecomes(items), InboxTyped', CallsTyped',
         UNCHANGED <<answered, link, open, follow, queue, edit, passed>>,
         withdrawn \subseteq withdrawn',
         \A p : Dock!Waits(p) =>
           Dock!Waits(p)' \/ p \in withdrawn' \/ Dock!UnderWay(p)' \/ Dock!Told(p)',
         \A p : Dock!UnderWay(p) => Dock!UnderWay(p)' \/ Dock!Waits(p)' \/ Dock!Told(p)',
         \A p : Dock!Told(p) => Dock!Told(p)'
  PROVE  DockInv'
PROOF
<1>1. StreamTells'
  BY InboxChanges
<1>2. Dock!PromptKept'
  BY PromptsStay DEF DockInv
<1>3. EditsRow'
  BY DEF DockInv, EditsRow
<1> QED
  BY <1>1, <1>2, <1>3 DEF DockInv

(* The item a command is about.                                             *)
LEMMA WithIs ==
  ASSUME NEW items, NEW id, Dock!Found(items, id)
  PROVE  Dock!With(items, id) \in DOMAIN items /\ items[Dock!With(items, id)].id = id
PROOF BY DEF Dock!Found, Dock!With

LEMMA SteerAskedKeeps ==
  ASSUME DockInv, NEW c \in DOMAIN calls, Dock!SteerAsked(c)
  PROVE  DockInv'
PROOF
<1>1. /\ UNCHANGED <<answered, link, open, follow, queue, edit, withdrawn, passed>>
      /\ calls[c].at = "asking" /\ CallsTyped /\ InboxTyped
  BY DEF Dock!SteerAsked, Dock!history, Dock!shownVars, DockInv
<1>2. PICK at : Dock!Goes(c, at)
  BY DEF Dock!SteerAsked, Dock!Ends
<1>3. /\ CallsTyped' /\ \A p : Dock!Told(p) => Dock!Told(p)'
      /\ \A p : Dock!UnderWay(p) => Dock!UnderWay(p)'
  BY <1>1, <1>2, CallIsAt DEF Underway
<1>4. CASE UNCHANGED <<inbox, frames>>
  BY <1>1, <1>3, <1>4, CommandAlone
<1>5. CASE ~UNCHANGED <<inbox, frames>>
  <2>1. PICK i : i = Dock!With(inbox, calls[c].id)
    OBVIOUS
  <2>2. /\ Dock!Found(inbox, calls[c].id)
        /\ Dock!InboxBecomes([inbox EXCEPT ![i].steered = TRUE])
    BY <1>5, <2>1 DEF Dock!SteerAsked
  <2>3. i \in DOMAIN inbox
    BY <2>1, <2>2, WithIs
  <2>4. PICK r : r = [inbox[i] EXCEPT !.steered = TRUE]
    OBVIOUS
  <2>5. "id" \in DOMAIN r /\ r.id = inbox[i].id
    BY <1>1, <2>3, <2>4 DEF InboxTyped
  <2>6. PICK items : items = [inbox EXCEPT ![i] = r]
    OBVIOUS
  <2>7. Dock!InboxBecomes(items)
    BY <2>2, <2>4, <2>6
  <2>8. inbox' = [inbox EXCEPT ![i] = r]
    BY <2>6, <2>7 DEF Dock!InboxBecomes
  <2>9. InboxTyped' /\ \A p : Dock!Waits(p) => Dock!Waits(p)'
    BY <1>1, <2>3, <2>5, <2>8, InboxReplaced
  <2> QED
    BY <1>1, <1>3, <2>7, <2>9, CommandChanges
<1> QED
  BY <1>4, <1>5

LEMMA SteerRefusedKeeps ==
  ASSUME DockInv, NEW c \in DOMAIN calls, Dock!SteerRefused(c)
  PROVE  DockInv'
PROOF
<1>1. /\ UNCHANGED <<inbox, answered, link, frames, open, follow, queue, edit, withdrawn, passed>>
      /\ calls[c].at = "refused" /\ CallsTyped
  BY DEF Dock!SteerRefused, Dock!hostVars, Dock!streamVars, Dock!history, Dock!shownVars, DockInv
<1>2. CASE Dock!Goes(c, "failed")
  <2>1. /\ CallsTyped' /\ \A p : Dock!Told(p) => Dock!Told(p)'
        /\ \A p : Dock!UnderWay(p) => Dock!UnderWay(p)'
    BY <1>1, <1>2, CallIsAt DEF Underway
  <2> QED
    BY <1>1, <2>1, CommandAlone
<1>3. CASE ~Dock!Goes(c, "failed")
  <2>1. PICK t : calls' = [calls EXCEPT ![c].at = "removing", ![c].text = t]
    BY <1>3 DEF Dock!SteerRefused
  <2>2. PICK k : k = [calls[c] EXCEPT !.at = "removing", !.text = t]
    OBVIOUS
  <2>3. DOMAIN k = CallFields /\ k.id = calls[c].id /\ k.at = "removing"
    BY <1>1, <2>2 DEF CallsTyped, CallFields
  <2>4. calls' = [calls EXCEPT ![c] = k]
    BY <2>1, <2>2
  <2>5. /\ CallsTyped' /\ \A p : Dock!Told(p) => Dock!Told(p)'
        /\ \A p : Dock!UnderWay(p) => Dock!UnderWay(p)'
    BY <1>1, <2>3, <2>4, CallGoes DEF Underway
  <2> QED
    BY <1>1, <2>5, CommandAlone
<1> QED
  BY <1>2, <1>3

LEMMA RemovedKeeps ==
  ASSUME DockInv, NEW c \in DOMAIN calls, Dock!Removed(c)
  PROVE  DockInv'
PROOF
<1>1. /\ UNCHANGED <<answered, link, open, follow, queue, edit, passed>>
      /\ calls[c].at \in {"removing", "asking"} /\ CallsTyped /\ InboxTyped
  BY DEF Dock!Removed, Dock!shownVars, DockInv
<1>2. PICK id, next : id = calls[c].id /\ next = IF calls[c].kind = "remove" THEN "done" ELSE "steering"
  OBVIOUS
<1>3. CASE ~Dock!Found(inbox, id)
  <2>1. Dock!Goes(c, "failed") /\ UNCHANGED <<inbox, frames, withdrawn>>
    BY <1>2, <1>3 DEF Dock!Removed
  <2>2. /\ CallsTyped' /\ \A p : Dock!Told(p) => Dock!Told(p)'
        /\ \A p : Dock!UnderWay(p) => Dock!UnderWay(p)'
    BY <1>1, <2>1, CallIsAt DEF Underway
  <2> QED
    BY <1>1, <2>1, <2>2, CommandAlone
<1>4. CASE Dock!Found(inbox, id)
  <2>1. PICK i : i = Dock!With(inbox, id)
    OBVIOUS
  <2>2. i \in DOMAIN inbox /\ inbox[i].id = id
    BY <1>4, <2>1, WithIs
  <2>3. PICK items : items = Dock!RemoveAt(inbox, i)
    OBVIOUS
  <2>4. /\ Dock!InboxBecomes(items)
        /\ withdrawn' = IF calls[c].kind = "remove" THEN withdrawn \cup {Dock!PromptOf(id)} ELSE withdrawn
        /\ Dock!Ends(c, next)
    BY <1>2, <1>4, <2>1, <2>3 DEF Dock!Removed, Dock!Without
  <2>5. inbox' = Dock!RemoveAt(inbox, i)
    BY <2>3, <2>4 DEF Dock!InboxBecomes
  <2>6. InboxTyped' /\ \A p : Dock!Waits(p) => Dock!Waits(p)' \/ p = Dock!PromptOf(id)
    BY <1>1, <2>2, <2>5, InboxShortened
  <2>7. PICK at \in {"failed", next} : Dock!Goes(c, at)
    BY <2>4 DEF Dock!Ends
  <2>8. /\ CallsTyped' /\ \A p : Dock!Told(p) => Dock!Told(p)'
        /\ \A p : Dock!UnderWay(p) => Dock!UnderWay(p)'
        /\ \A p : p = Dock!PromptOf(id) =>
             (at = "failed" => Dock!Told(p)') /\ (at \in Underway => Dock!UnderWay(p)')
    BY <1>1, <1>2, <2>7, CallIsAt DEF Underway
  <2>9. \A p : p = Dock!PromptOf(id) => p \in withdrawn' \/ Dock!UnderWay(p)' \/ Dock!Told(p)'
    <3>1. CASE calls[c].kind = "remove"
      BY <2>4, <3>1
    <3>2. CASE calls[c].kind # "remove"
      BY <1>2, <2>7, <2>8, <3>2 DEF Underway
    <3> QED
      BY <3>1, <3>2
  <2>10. withdrawn \subseteq withdrawn'
    BY <2>4
  <2> QED
    BY <1>1, <2>4, <2>6, <2>8, <2>9, <2>10, CommandChanges
<1> QED
  BY <1>3, <1>4

LEMMA EditedKeeps ==
  ASSUME DockInv, NEW c \in DOMAIN calls, Dock!Edited(c)
  PROVE  DockInv'
PROOF
<1>1. /\ UNCHANGED <<answered, link, open, follow, queue, edit, withdrawn, passed>>
      /\ calls[c].at = "asking" /\ CallsTyped /\ InboxTyped
  BY DEF Dock!Edited, Dock!shownVars, DockInv
<1>2. PICK at : Dock!Goes(c, at)
  BY DEF Dock!Edited, Dock!Ends
<1>3. /\ CallsTyped' /\ \A p : Dock!Told(p) => Dock!Told(p)'
      /\ \A p : Dock!UnderWay(p) => Dock!UnderWay(p)'
  BY <1>1, <1>2, CallIsAt DEF Underway
<1>4. PICK id : id = calls[c].id
  OBVIOUS
<1>5. CASE ~Dock!Found(inbox, id)
  <2>1. UNCHANGED <<inbox, frames>>
    BY <1>4, <1>5 DEF Dock!Edited
  <2> QED
    BY <1>1, <1>3, <2>1, CommandAlone
<1>6. CASE Dock!Found(inbox, id)
  <2>1. PICK i, t : i = Dock!With(inbox, id) /\ t = calls[c].text
    OBVIOUS
  <2>2. Dock!InboxBecomes([inbox EXCEPT ![i].text = t])
    BY <1>4, <1>6, <2>1 DEF Dock!Edited
  <2>3. i \in DOMAIN inbox
    BY <1>6, <2>1, WithIs
  <2>4. PICK r : r = [inbox[i] EXCEPT !.text = t]
    OBVIOUS
  <2>5. "id" \in DOMAIN r /\ r.id = inbox[i].id
    BY <1>1, <2>3, <2>4 DEF InboxTyped
  <2>6. PICK items : items = [inbox EXCEPT ![i] = r]
    OBVIOUS
  <2>7. Dock!InboxBecomes(items)
    BY <2>2, <2>4, <2>6
  <2>8. inbox' = [inbox EXCEPT ![i] = r]
    BY <2>6, <2>7 DEF Dock!InboxBecomes
  <2>9. InboxTyped' /\ \A p : Dock!Waits(p) => Dock!Waits(p)'
    BY <1>1, <2>3, <2>5, <2>8, InboxReplaced
  <2> QED
    BY <1>1, <1>3, <2>7, <2>9, CommandChanges
<1> QED
  BY <1>5, <1>6

(* A prompt is sent again.                                                  *)
LEMMA ResentWaits ==
  ASSUME DockInv, NEW c \in DOMAIN calls, NEW steered, Dock!Resent(c, steered)
  PROVE  /\ InboxTyped' /\ (\E items : Dock!InboxBecomes(items))
         /\ \A p : Dock!Waits(p) => Dock!Waits(p)'
         /\ \A p : p = Dock!PromptOf(calls[c].id) => Dock!Waits(p)'
PROOF
<1>1. PICK id, copy : /\ id = calls[c].id
                      /\ Dock!InboxBecomes(Append(inbox,
                           Dock!Item(Dock!PromptOf(id), copy, calls[c].text, steered)))
  BY DEF Dock!Resent
<1>2. PICK x : x = Dock!Item(Dock!PromptOf(id), copy, calls[c].text, steered)
  OBVIOUS
<1>3. "id" \in DOMAIN x /\ Dock!PromptOf(x.id) = Dock!PromptOf(id)
  BY <1>2 DEF Dock!Item, Dock!PromptOf
<1>4. PICK items : items = Append(inbox, x)
  OBVIOUS
<1>5. Dock!InboxBecomes(items)
  BY <1>1, <1>2, <1>4
<1>6. inbox' = Append(inbox, x)
  BY <1>4, <1>5 DEF Dock!InboxBecomes
<1>7. PICK y : y = Dock!PromptOf(x.id)
  OBVIOUS
<1>8. InboxTyped' /\ (\A p : Dock!Waits(p) => Dock!Waits(p)') /\ Dock!Waits(y)'
  BY <1>3, <1>6, <1>7, InboxGrows DEF DockInv, Dock!Waits
<1> QED
  BY <1>1, <1>3, <1>5, <1>7, <1>8

LEMMA ResteeredKeeps ==
  ASSUME DockInv, NEW c \in DOMAIN calls, Dock!Resteered(c) \/ Dock!QueuedAgain(c)
  PROVE  DockInv'
PROOF
<1>1. /\ UNCHANGED <<answered, link, open, follow, queue, edit, withdrawn, passed>>
      /\ calls[c].at \in {"steering", "queueing"} /\ CallsTyped
  BY DEF Dock!Resteered, Dock!QueuedAgain, Dock!shownVars, Dock!history, DockInv
<1>2. PICK at : /\ Dock!Goes(c, at)
                /\ \/ Dock!Resent(c, TRUE) \/ Dock!Resent(c, FALSE)
                   \/ at = "queueing" /\ UNCHANGED <<inbox, frames>>
  BY DEF Dock!Resteered, Dock!QueuedAgain, Dock!Ends
<1>3. /\ CallsTyped' /\ \A p : Dock!Told(p) => Dock!Told(p)'
      /\ \A p : Dock!UnderWay(p) => Dock!UnderWay(p)' \/ p = Dock!PromptOf(calls[c].id)
      /\ \A p : p = Dock!PromptOf(calls[c].id) => (at \in Underway => Dock!UnderWay(p)')
  BY <1>1, <1>2, CallIsAt
<1>4. CASE at = "queueing" /\ UNCHANGED <<inbox, frames>>
  <2>1. \A p : Dock!UnderWay(p) => Dock!UnderWay(p)'
    BY <1>3, <1>4 DEF Underway
  <2> QED
    BY <1>1, <1>3, <1>4, <2>1, CommandAlone
<1>5. CASE Dock!Resent(c, TRUE) \/ Dock!Resent(c, FALSE)
  <2>1. /\ InboxTyped' /\ (\E items : Dock!InboxBecomes(items))
        /\ \A p : Dock!Waits(p) => Dock!Waits(p)'
        /\ \A p : p = Dock!PromptOf(calls[c].id) => Dock!Waits(p)'
    BY <1>5, ResentWaits
  <2>2. PICK items : Dock!InboxBecomes(items)
    BY <2>1
  <2> QED
    BY <1>1, <1>3, <2>1, <2>2, CommandChanges
<1> QED
  BY <1>2, <1>4, <1>5

LEMMA FailsKeeps ==
  ASSUME DockInv, NEW c \in DOMAIN calls, Dock!QueueingFails(c) \/ Dock!RequestFails(c)
  PROVE  DockInv'
PROOF
<1>1. /\ UNCHANGED <<inbox, answered, link, frames, open, follow, queue, edit, withdrawn, passed>>
      /\ calls[c].at # "failed" /\ CallsTyped /\ Dock!Goes(c, "failed")
  BY DEF Dock!QueueingFails, Dock!RequestFails, Dock!hostVars, Dock!streamVars, Dock!history,
         Dock!shownVars, DockInv
<1>2. /\ CallsTyped' /\ \A p : Dock!Told(p) => Dock!Told(p)'
      /\ \A p : Dock!UnderWay(p) => Dock!UnderWay(p)' \/ Dock!Told(p)'
  BY <1>1, CallIsAt
<1> QED
  BY <1>1, <1>2, CommandAlone

LEMMA DockKeptByStep ==
  ASSUME DockInv, [Dock!Next]_(Dock!vars)
  PROVE  DockInv'
PROOF
<1>1. CASE Dock!TurnEnds \/ UNCHANGED Dock!vars
  <2>1. UNCHANGED <<inbox, answered, link, frames, open, follow, queue, edit, calls, withdrawn, passed>>
    BY <1>1 DEF Dock!TurnEnds, Dock!vars, Dock!streamVars, Dock!shownVars, Dock!history
  <2>2. StreamTells' /\ EditsRow'
    BY <2>1 DEF DockInv, StreamTells, EditsRow
  <2> QED
    BY <2>1, <2>2, ScreenSteps
<1>2. ASSUME NEW c \in DOMAIN calls,
             \/ Dock!SteerAsked(c) \/ Dock!SteerRefused(c) \/ Dock!Removed(c) \/ Dock!Edited(c)
             \/ Dock!Resteered(c) \/ Dock!QueuedAgain(c) \/ Dock!QueueingFails(c)
             \/ Dock!RequestFails(c)
      PROVE  DockInv'
  BY <1>2, SteerAskedKeeps, SteerRefusedKeeps, RemovedKeeps, EditedKeeps, ResteeredKeeps,
     FailsKeeps
<1> QED
  BY <1>1, <1>2, ClaimsKeeps, FrameArrivesKeeps, StreamSteps, DockEditsKeeps, ClicksKeeps
     DEF Dock!Next

LEMMA DockImplies ==
  ASSUME DockInv
  PROVE  Dock!QueueKept
PROOF BY DEF DockInv, StreamTells, EditsRow, Dock!QueueKept, Dock!DockInStep, Dock!Quiet

-----------------------------------------------------------------------------
(* The composition.                                                         *)

ComponentInv ==
  /\ tool = "carry" => CarryInv
  /\ tool = "dock" => DockInv
  /\ tool = "links" => LinksInv
  /\ tool = "mention" => MentionInv
  /\ tool = "context" => ContextInv

Assumptions ==
  /\ Carry!CarryAssumption /\ Dock!QueueAssumption /\ Mention!MentionAssumption
  /\ Context!ContextAssumption

LEMMA ComponentAssumptions == Assumptions
  BY PromptStateAssumption DEF Assumptions

(* The components start as they do by themselves.                           *)
LEMMA ComponentInit == PromptInit => ComponentInv
  <1> SUFFICES ASSUME PromptInit
               PROVE  ComponentInv
    OBVIOUS
  <1>1. Assumptions
    BY ComponentAssumptions
  <1>2. Carry!Init /\ Dock!Init /\ Links!Init /\ Mention!Init /\ Context!Init
    BY DEF PromptInit
  <1>3. CarryInv
    BY <1>1, <1>2, CarryInit DEF Assumptions
  <1>4. DockInv
    BY <1>1, <1>2, DockInit DEF Assumptions
  <1>5. LinksInv
    BY <1>1, <1>2, LinksInit DEF Assumptions
  <1>6. MentionInv
    BY <1>1, <1>2, MentionInit DEF Assumptions
  <1>7. ContextInv
    BY <1>1, <1>2, ContextInit DEF Assumptions
  <1> QED
    BY <1>3, <1>4, <1>5, <1>6, <1>7 DEF ComponentInv

(* A step is one of the component that steps, which keeps its invariant.    *)
LEMMA ComponentStep == ComponentInv /\ [PromptNext]_promptVars => ComponentInv'
  <1> SUFFICES ASSUME ComponentInv, [PromptNext]_promptVars
               PROVE  ComponentInv'
    OBVIOUS
  <1>1. Assumptions
    BY ComponentAssumptions
  <1>2. tool' = tool
    BY DEF PromptNext, promptVars, CarrySteps, DockSteps, LinkSteps, MentionSteps, ContextSteps
  <1>3. ASSUME tool = "carry"
        PROVE  CarryInv'
    <2>1. CarrySteps \/ UNCHANGED promptVars
      BY <1>3 DEF PromptNext, DockSteps, LinkSteps, MentionSteps, ContextSteps
    <2>2. UNCHANGED promptVars => UNCHANGED Carry!vars
      BY DEF promptVars, carryVars, Carry!vars
    <2>3. [Carry!Next]_(Carry!vars)
      BY <2>1, <2>2 DEF CarrySteps
    <2> QED
      BY <1>1, <1>3, <2>3, CarryKeptByStep DEF ComponentInv, Assumptions
  <1>4. ASSUME tool = "dock"
        PROVE  DockInv'
    <2>1. DockSteps \/ UNCHANGED promptVars
      BY <1>4 DEF PromptNext, CarrySteps, LinkSteps, MentionSteps, ContextSteps
    <2>2. UNCHANGED promptVars => UNCHANGED Dock!vars
      BY DEF promptVars, dockVars, Dock!vars
    <2>3. [Dock!Next]_(Dock!vars)
      BY <2>1, <2>2 DEF DockSteps
    <2> QED
      BY <1>1, <1>4, <2>3, DockKeptByStep DEF ComponentInv, Assumptions
  <1>5. ASSUME tool = "links"
        PROVE  LinksInv'
    <2>1. LinkSteps \/ UNCHANGED promptVars
      BY <1>5 DEF PromptNext, CarrySteps, DockSteps, MentionSteps, ContextSteps
    <2>2. UNCHANGED promptVars => UNCHANGED Links!vars
      BY DEF promptVars, linkVars, Links!vars, Links!webview, Links!wires, Links!ledger
    <2>3. [Links!Next]_(Links!vars)
      BY <2>1, <2>2 DEF LinkSteps
    <2> QED
      BY <1>1, <1>5, <2>3, LinksKeptByStep DEF ComponentInv
  <1>6. ASSUME tool = "mention"
        PROVE  MentionInv'
    <2>1. MentionSteps \/ UNCHANGED promptVars
      BY <1>6 DEF PromptNext, CarrySteps, DockSteps, LinkSteps, ContextSteps
    <2>2. UNCHANGED promptVars => UNCHANGED Mention!vars
      BY DEF promptVars, mentionVars, Mention!vars, Mention!hostIndex
    <2>3. [Mention!Next]_(Mention!vars)
      BY <2>1, <2>2 DEF MentionSteps
    <2> QED
      BY <1>1, <1>6, <2>3, MentionKeptByStep DEF ComponentInv, Assumptions
  <1>7. ASSUME tool = "context"
        PROVE  ContextInv'
    <2>1. ContextSteps \/ UNCHANGED promptVars
      BY <1>7 DEF PromptNext, CarrySteps, DockSteps, LinkSteps, MentionSteps
    <2>2. UNCHANGED promptVars => UNCHANGED Context!vars
      BY DEF promptVars, contextVars, Context!vars, Context!editor, Context!memory, Context!host,
             Context!chips
    <2>3. [Context!Next]_(Context!vars)
      BY <2>1, <2>2 DEF ContextSteps
    <2> QED
      BY <1>1, <1>7, <2>3, ContextKeptByStep DEF ComponentInv, Assumptions
  <1> QED
    BY <1>2, <1>3, <1>4, <1>5, <1>6, <1>7 DEF ComponentInv

(* Prompts: whatever fails and whoever sends in between, the digest armed   *)
(* for a fresh session is there until a prompt carried it or another        *)
(* session's took its place; and a queued prompt the user did not withdraw  *)
(* waits, was taken by a turn, is on its way, or its failure was told,      *)
(* while the dock comes to show the inbox and edits a row that is there.    *)
THEOREM CommandsAlwaysKept == PromptSpec => []CommandsKept
  <1>1. ComponentInv => CommandsKept
    BY CarryImplies, DockImplies DEF ComponentInv, CommandsKept, With
  <1> QED
    BY <1>1, ComponentInit, ComponentStep, PTL DEF PromptSpec

(* Files at hand: whatever is lost or answers late, the links of what is on *)
(* screen and the file menu come to show the answer to what was asked, an   *)
(* answer leaves no file out that it could know of, and a prompt takes      *)
(* along the selection and the files its chips showed.                      *)
THEOREM FilesAlwaysAtHand == PromptSpec => []FilesAtHand
  <1>1. ComponentInv => FilesAtHand
    <2>1. Assumptions
      BY ComponentAssumptions
    <2> QED
      BY <2>1, LinksImplies, MentionImplies DEF ComponentInv, Assumptions, FilesAtHand, With,
         ContextInv, Context!ContextTravels
  <1> QED
    BY <1>1, ComponentInit, ComponentStep, PTL DEF PromptSpec
=============================================================================
