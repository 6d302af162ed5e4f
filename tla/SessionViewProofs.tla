-------------------------- MODULE SessionViewProofs --------------------------
(***************************************************************************)
(* What is proved about SessionView for any number of sessions, select      *)
(* calls and losses, and any length of the pages and of the logs.           *)
(***************************************************************************)
EXTENDS SessionView, FiniteSetTheorems, SequenceTheorems, TLAPS

-----------------------------------------------------------------------------
(* Entries in the order of their seqs.                                      *)

Increasing(es) == \A i, j \in DOMAIN es : i < j => es[i].seq < es[j].seq

Distinct(es) == \A d, e \in es : d.seq = e.seq => d = e

(* Finitely many entries with distinct seqs have one order, which loses and *)
(* adds none: the position of an entry is the number of smaller ones.       *)
LEMMA OrderedProperties ==
  ASSUME NEW es, es \subseteq [session : Sessions, seq : Int],
         IsFiniteSet(es), Distinct(es)
  PROVE  /\ Ordered(es) \in Seq(es)
         /\ Range(Ordered(es)) = es
         /\ Increasing(Ordered(es))
<1> DEFINE n == Cardinality(es)
           Below(e) == {d \in es : d.seq < e.seq}
           rank == [e \in es |-> Cardinality(Below(e))]
<1>1. n \in Nat
  BY FS_CardinalityType
<1>2. \A e \in es : e.seq \in Int
  OBVIOUS
<1>3. ASSUME NEW e \in es
      PROVE  rank[e] \in 0..(n - 1)
  <2>1. Below(e) \in SUBSET (es \ {e})
    BY <1>2
  <2>2. IsFiniteSet(es \ {e}) /\ Cardinality(es \ {e}) = n - 1
    BY FS_RemoveElement
  <2>3. IsFiniteSet(Below(e)) /\ Cardinality(Below(e)) <= n - 1
    BY <2>1, <2>2, FS_Subset
  <2>4. Cardinality(Below(e)) \in Nat
    BY <2>3, FS_CardinalityType
  <2> QED
    BY <1>1, <2>3, <2>4
<1>4. ASSUME NEW d \in es, NEW e \in es, d.seq < e.seq
      PROVE  rank[d] < rank[e]
  <2>1. Below(d) \in SUBSET Below(e) /\ d \in Below(e) /\ d \notin Below(d)
    BY <1>2, <1>4
  <2>2. IsFiniteSet(Below(e))
    BY FS_Subset
  <2>3. Cardinality(Below(d)) <= Cardinality(Below(e))
    BY <2>1, <2>2, FS_Subset
  <2>4. Cardinality(Below(d)) # Cardinality(Below(e))
    BY <2>1, <2>2, FS_Subset
  <2>5. rank[d] \in Nat /\ rank[e] \in Nat
    BY <1>1, <1>3
  <2> QED
    BY <2>3, <2>4, <2>5
<1>5. \A d, e \in es : rank[d] = rank[e] => d = e
  <2> SUFFICES ASSUME NEW d \in es, NEW e \in es, d # e
               PROVE  rank[d] # rank[e]
    OBVIOUS
  <2>1. d.seq \in Int /\ e.seq \in Int /\ d.seq # e.seq
    BY <1>2 DEF Distinct
  <2>2. rank[d] \in Int /\ rank[e] \in Int
    BY <1>1, <1>3
  <2>3. CASE d.seq < e.seq
    <3>1. rank[d] < rank[e]
      BY <1>4, <2>3
    <3> QED
      BY <2>2, <3>1
  <2>4. CASE e.seq < d.seq
    <3>1. rank[e] < rank[d]
      BY <1>4, <2>4
    <3> QED
      BY <2>2, <3>1
  <2> QED
    BY <2>1, <2>3, <2>4
<1>6. rank \in Injection(es, 0..(n - 1))
  BY <1>3, <1>5 DEF Injection, IsInjective
<1>7. IsFiniteSet(0..(n - 1)) /\ Cardinality(0..(n - 1)) = n
  <2>1. 0 \in Int /\ n - 1 \in Int
    BY <1>1
  <2>2. IsFiniteSet(0..(n - 1))
        /\ Cardinality(0..(n - 1)) = IF 0 > n - 1 THEN 0 ELSE (n - 1) - 0 + 1
    BY <2>1, FS_Interval
  <2> QED
    BY <1>1, <2>2
<1>8. rank \in Surjection(es, 0..(n - 1))
  BY <1>6, <1>7, FS_Injection
<1>9. ASSUME NEW i \in 1..n
      PROVE  Ordered(es)[i] \in es /\ rank[Ordered(es)[i]] = i - 1
  <2>1. i - 1 \in 0..(n - 1)
    BY <1>1
  <2>2. PICK e \in es : rank[e] = i - 1
    BY <1>8, <2>1 DEF Surjection
  <2>3. PICK f \in es : f = CHOOSE x \in es : Cardinality(Below(x)) = i - 1
    BY <2>2, Zenon
  <2>4. Cardinality(Below(f)) = i - 1
    BY <2>2, <2>3, Zenon
  <2>5. Ordered(es)[i] = f
    BY <2>3 DEF Ordered
  <2> QED
    BY <2>4, <2>5
<1>10. DOMAIN Ordered(es) = 1..n
  BY DEF Ordered
<1>11. Ordered(es) \in Seq(es)
  <2>1. Ordered(es) \in [1..n -> es]
    BY <1>9, <1>10 DEF Ordered
  <2> QED
    BY <1>1, <2>1
<1>12. ASSUME NEW e \in es
       PROVE  \E i \in 1..n : Ordered(es)[i] = e
  <2>1. PICK i \in 1..n : i - 1 = rank[e]
    <3>1. rank[e] + 1 \in 1..n /\ (rank[e] + 1) - 1 = rank[e]
      BY <1>1, <1>3
    <3> QED
      BY <3>1
  <2>2. Ordered(es)[i] \in es /\ rank[Ordered(es)[i]] = rank[e]
    BY <1>9, <2>1
  <2> QED
    BY <1>5, <2>2
<1>13. Range(Ordered(es)) = es
  BY <1>9, <1>10, <1>12, Zenon DEF Range
<1>14. ASSUME NEW i \in 1..n, NEW j \in 1..n, i < j
       PROVE  Ordered(es)[i].seq < Ordered(es)[j].seq
  <2> DEFINE d == Ordered(es)[i]
             e == Ordered(es)[j]
  <2>1. d \in es /\ rank[d] = i - 1
    BY <1>9
  <2>2. e \in es /\ rank[e] = j - 1
    BY <1>9
  <2>3. d.seq \in Int /\ e.seq \in Int
    BY <1>2, <2>1, <2>2
  <2>4. rank[d] < rank[e]
    BY <1>14, <2>1, <2>2
  <2>5. CASE e.seq < d.seq
    <3>1. rank[e] < rank[d]
      BY <1>4, <2>1, <2>2, <2>5
    <3> QED
      BY <2>1, <2>2, <2>4, <3>1
  <2>6. d.seq # e.seq
    BY <2>1, <2>2, <2>4 DEF Distinct
  <2> QED
    BY <2>3, <2>5, <2>6
<1> QED
  BY <1>10, <1>11, <1>13, <1>14 DEF Increasing

-----------------------------------------------------------------------------
(* What the transcript operators return.                                    *)

OnceEach(es) == \A i, j \in DOMAIN es : es[i].seq = es[j].seq => i = j

(* A function on 1..n is a sequence of length n.                            *)
LEMMA FunctionIsSeq ==
  ASSUME NEW S, NEW n \in Nat, NEW f \in [1..n -> S]
  PROVE  f \in Seq(S) /\ Len(f) = n
  OBVIOUS

(* Increasing entries have distinct seqs.                                   *)
LEMMA IncreasingOnce ==
  ASSUME NEW es \in Seq(Entry), Increasing(es)
  PROVE  OnceEach(es)
<1> SUFFICES ASSUME NEW i \in DOMAIN es, NEW j \in DOMAIN es,
                    es[i].seq = es[j].seq, i # j
             PROVE  FALSE
  BY DEF OnceEach
<1>1. i \in 1..Len(es) /\ j \in 1..Len(es)
  BY LenProperties
<1>2. es[i] \in Entry /\ es[j] \in Entry
  BY <1>1, ElementOfSeq
<1>3. es[i].seq \in Int /\ es[j].seq \in Int
  BY <1>2 DEF Entry
<1>4. i < j \/ j < i
  BY <1>1
<1>5. es[i].seq < es[j].seq \/ es[j].seq < es[i].seq
  BY <1>4 DEF Increasing
<1> QED
  BY <1>3, <1>5

(* The entries of a sequence are finitely many.                             *)
LEMMA RangeFinite ==
  ASSUME NEW S, NEW es \in Seq(S)
  PROVE  /\ Range(es) \subseteq S
         /\ IsFiniteSet(Range(es))
         /\ \A i \in 1..Len(es) : es[i] \in Range(es)
<1>1. /\ Len(es) \in Nat
      /\ es \in [1..Len(es) -> S]
      /\ DOMAIN es = 1..Len(es)
  BY LenProperties
<1>2. es \in Surjection(1..Len(es), Range(es))
  BY <1>1 DEF Surjection, Range
<1>3. IsFiniteSet(1..Len(es))
  BY <1>1, FS_Interval
<1>4. IsFiniteSet(Range(es))
  BY <1>2, <1>3, FS_Surjection
<1> QED
  BY <1>1, <1>4 DEF Range

(* A sequence without repetition gives a set without repetition.            *)
LEMMA OnceDistinct ==
  ASSUME NEW es \in Seq(Entry), OnceEach(es)
  PROVE  Distinct(Range(es))
  BY DEF OnceEach, Distinct, Range

(* A page of session s ends with the youngest entry up to top.              *)
LEMMA RecordsProperties ==
  ASSUME TypeOK, NEW s \in Sessions, NEW top \in 0..MaxSeq
  PROVE  /\ Records(s, top) \in Seq(Entry)
         /\ Increasing(Records(s, top))
         /\ \A i \in 1..Len(Records(s, top)) :
              /\ Records(s, top)[i].seq <= top
              /\ Records(s, top)[i].seq <= log[s]
         /\ top \in 1..log[s] =>
              /\ Records(s, top) # <<>>
              /\ Records(s, top)[Len(Records(s, top))].seq = top
<1> DEFINE last == IF top > log[s] THEN log[s] ELSE top
           first == IF last > Window THEN last - Window + 1 ELSE 1
           n == last + 1 - first
<1>1. /\ log[s] \in 1..MaxSeq /\ MaxSeq \in Nat \ {0} /\ Window \in Nat \ {0}
  BY ViewAssumption DEF TypeOK
<1>2. /\ last \in 0..MaxSeq /\ last <= top /\ last <= log[s]
      /\ first \in 1..(last + 1)
      /\ n \in 0..last
      /\ last >= 1 => n >= 1
      /\ first + n - 1 = last
      /\ top \in 1..log[s] => last = top
  BY <1>1
<1>3. Records(s, top) = [i \in 1..n |-> [session |-> s, seq |-> first + i - 1]]
  BY DEF Records
<1> HIDE DEF last, first
<1> DEFINE page == [i \in 1..n |-> [session |-> s, seq |-> first + i - 1]]
<1>4. ASSUME NEW i \in 1..n
      PROVE  /\ page[i].seq = first + i - 1
             /\ first + i - 1 \in 1..last
             /\ page[i] \in Entry
  <2>1. first + i - 1 \in 1..last
    BY <1>2
  <2>2. first + i - 1 \in 1..MaxSeq
    BY <1>1, <1>2, <2>1
  <2>3. page[i] = [session |-> s, seq |-> first + i - 1]
    OBVIOUS
  <2> QED
    BY <2>1, <2>2, <2>3 DEF Entry
<1>5. n \in Nat
  BY <1>2
<1>6. page \in [1..n -> Entry]
  BY <1>4
<1> HIDE DEF n
<1>7. page \in Seq(Entry) /\ Len(page) = n
  BY <1>5, <1>6, FunctionIsSeq
<1>8. Increasing(page)
  <2> SUFFICES ASSUME NEW i \in 1..n, NEW j \in 1..n, i < j
               PROVE  page[i].seq < page[j].seq
    BY DEF Increasing
  <2> QED
    BY <1>2, <1>4
<1>9. \A i \in 1..n : page[i].seq <= top /\ page[i].seq <= log[s]
  <2> TAKE i \in 1..n
  <2> QED
    BY <1>1, <1>2, <1>4
<1>10. ASSUME top \in 1..log[s]
       PROVE  page # <<>> /\ page[Len(page)].seq = top
  <2>1. n >= 1 /\ n \in 1..n /\ first + n - 1 = top
    BY <1>1, <1>2, <1>10
  <2>2. page[n].seq = top
    BY <1>4, <2>1
  <2> QED
    BY <1>7, <2>1, <2>2
<1> QED
  BY <1>3, <1>7, <1>8, <1>9, <1>10, Zenon

(* The merged history keeps what is on screen, is in order, and ends where  *)
(* the snapshot ends when nothing on screen is newer.                       *)
LEMMA MergeProperties ==
  ASSUME NEW base \in Seq(Entry), NEW live \in Seq(Entry),
         Increasing(base), OnceEach(live)
  PROVE  /\ MergeHistory(base, live) \in Seq(Entry)
         /\ Increasing(MergeHistory(base, live))
         /\ Range(live) \subseteq Range(MergeHistory(base, live))
         /\ Range(MergeHistory(base, live)) \subseteq Range(live) \cup Range(base)
         /\ \A e \in Range(base) :
              \E d \in Range(MergeHistory(base, live)) : d.seq = e.seq
<1> DEFINE new == {e \in Range(base) : e.seq \notin Seqs(live)}
           all == Range(live) \cup new
<1>1. OnceEach(base)
  BY IncreasingOnce
<1>2. Distinct(Range(base)) /\ Distinct(Range(live))
  BY <1>1, OnceDistinct
<1>3. /\ Range(base) \subseteq Entry /\ IsFiniteSet(Range(base))
      /\ Range(live) \subseteq Entry /\ IsFiniteSet(Range(live))
  BY RangeFinite
<1>4. \A e \in Range(live) : e.seq \in Seqs(live)
  BY DEF Range, Seqs
<1>5. Distinct(all)
  BY <1>2, <1>4 DEF Distinct
<1>6. IsFiniteSet(all)
  <2>1. new \in SUBSET Range(base)
    OBVIOUS
  <2>2. IsFiniteSet(new)
    BY <1>3, <2>1, FS_Subset
  <2> QED
    BY <1>3, <2>2, FS_Union
<1>7. all \subseteq Entry
  BY <1>3
<1>8. all \subseteq [session : Sessions, seq : Int]
  BY <1>7, ViewAssumption DEF Entry
<1>9. /\ Ordered(all) \in Seq(all)
      /\ Range(Ordered(all)) = all
      /\ Increasing(Ordered(all))
  BY <1>5, <1>6, <1>8, OrderedProperties
<1>10. MergeHistory(base, live) = Ordered(all)
  BY DEF MergeHistory
<1>11. Ordered(all) \in Seq(Entry)
  BY <1>7, <1>9, SeqMonotonic
<1>12. \A e \in Range(base) : \E d \in all : d.seq = e.seq
  BY DEF Range, Seqs
<1> QED
  BY <1>9, <1>10, <1>11, <1>12

(* What is put in front of the transcript is not on screen yet.             *)
LEMMA PrependProperties ==
  ASSUME TypeOK, NoDuplicates, NEW page \in Seq(Entry), Increasing(page)
  PROVE  /\ OlderPrepended(page) \in Seq(Entry)
         /\ OnceEach(OlderPrepended(page))
         /\ \A i \in 1..Len(OlderPrepended(page)) :
              OlderPrepended(page)[i] \in Range(page) \cup Range(entries)
         /\ entries # <<>> =>
              /\ OlderPrepended(page) # <<>>
              /\ OlderPrepended(page)[Len(OlderPrepended(page))] = entries[Len(entries)]
         /\ /\ Increasing(entries)
            /\ \A d \in Range(page), e \in Range(entries) : d.seq < e.seq
            => Increasing(OlderPrepended(page))
<1> DEFINE new == {e \in Range(page) : e.seq \notin Seqs(entries)}
           o == Ordered(new)
<1>1. entries \in Seq(Entry)
  BY DEF TypeOK
<1>2. Distinct(Range(page))
  BY IncreasingOnce, OnceDistinct
<1>3. Range(page) \subseteq Entry /\ IsFiniteSet(Range(page))
  BY RangeFinite
<1>4. new \in SUBSET Range(page) /\ IsFiniteSet(new)
  <2>1. new \in SUBSET Range(page)
    OBVIOUS
  <2> QED
    BY <1>3, <2>1, FS_Subset
<1>5. new \subseteq [session : Sessions, seq : Int]
  BY <1>3, ViewAssumption DEF Entry
<1>6. Distinct(new)
  BY <1>2 DEF Distinct
<1>7. o \in Seq(new) /\ Range(o) = new /\ Increasing(o)
  BY <1>4, <1>5, <1>6, OrderedProperties
<1>8. o \in Seq(Entry)
  <2>1. new \subseteq Entry
    BY <1>3
  <2> QED
    BY <1>7, <2>1, SeqMonotonic
<1>9. OlderPrepended(page) = o \o entries
  BY DEF OlderPrepended
<1> HIDE DEF o
<1> DEFINE p == o \o entries
<1>10. /\ p \in Seq(Entry) /\ Len(p) = Len(o) + Len(entries)
       /\ \A i \in 1..(Len(o) + Len(entries)) :
            p[i] = IF i <= Len(o) THEN o[i] ELSE entries[i - Len(o)]
  BY <1>1, <1>8, ConcatProperties
<1> HIDE DEF p
<1>11. /\ Len(o) \in Nat /\ Len(entries) \in Nat
       /\ DOMAIN o = 1..Len(o) /\ DOMAIN entries = 1..Len(entries)
       /\ DOMAIN p = 1..Len(p)
  BY <1>1, <1>8, <1>10, LenProperties
<1>12. /\ \A i \in 1..Len(o) : o[i] \in new
       /\ \A i \in 1..Len(entries) : entries[i] \in Range(entries)
  BY <1>1, <1>7, ElementOfSeq, RangeFinite
<1>13. \A i \in 1..Len(p) : \/ i \in 1..Len(o) /\ p[i] = o[i]
                            \/ /\ i - Len(o) \in 1..Len(entries) /\ i > Len(o)
                               /\ p[i] = entries[i - Len(o)]
  BY <1>10, <1>11
<1>14. \A d \in new, e \in Range(entries) : d.seq # e.seq
  BY DEF Seqs, Range
<1>15. OnceEach(o)
  BY <1>7, <1>8, IncreasingOnce
<1>16. OnceEach(p)
  <2> SUFFICES ASSUME NEW i \in 1..Len(p), NEW j \in 1..Len(p), p[i].seq = p[j].seq
               PROVE  i = j
    BY <1>11 DEF OnceEach
  <2>1. CASE i \in 1..Len(o) /\ j \in 1..Len(o)
    <3>1. p[i] = o[i] /\ p[j] = o[j]
      BY <1>11, <1>13, <2>1
    <3> QED
      BY <1>11, <1>15, <2>1, <3>1 DEF OnceEach
  <2>2. CASE i \notin 1..Len(o) /\ j \notin 1..Len(o)
    <3>1. /\ p[i] = entries[i - Len(o)] /\ i - Len(o) \in 1..Len(entries)
          /\ p[j] = entries[j - Len(o)] /\ j - Len(o) \in 1..Len(entries)
      BY <1>13, <2>2
    <3>2. i - Len(o) = j - Len(o)
      BY <1>11, <3>1 DEF NoDuplicates
    <3> QED
      BY <1>10, <1>11, <3>2
  <2>3. CASE i \in 1..Len(o) /\ j \notin 1..Len(o)
    <3>1. p[i] \in new /\ p[j] \in Range(entries)
      BY <1>11, <1>12, <1>13, <2>3
    <3> QED
      BY <1>14, <3>1
  <2>4. CASE i \notin 1..Len(o) /\ j \in 1..Len(o)
    <3>1. p[j] \in new /\ p[i] \in Range(entries)
      BY <1>11, <1>12, <1>13, <2>4
    <3> QED
      BY <1>14, <3>1
  <2> QED
    BY <2>1, <2>2, <2>3, <2>4
<1>17. \A i \in 1..Len(p) : p[i] \in Range(page) \cup Range(entries)
  BY <1>12, <1>13
<1>18. ASSUME entries # <<>>
       PROVE  p # <<>> /\ p[Len(p)] = entries[Len(entries)]
  <2>1. Len(entries) >= 1
    BY <1>1, <1>18, EmptySeq
  <2>2. Len(p) \in 1..(Len(o) + Len(entries)) /\ ~(Len(p) <= Len(o))
        /\ Len(p) - Len(o) = Len(entries)
    BY <1>10, <1>11, <2>1
  <2>3. p[Len(p)] = entries[Len(p) - Len(o)]
    BY <1>10, <2>2, Zenon
  <2>4. p # <<>>
    BY <1>10, <1>11, <2>1, EmptySeq
  <2> QED
    BY <2>2, <2>3, <2>4
<1>19. ASSUME Increasing(entries),
              \A d \in Range(page), e \in Range(entries) : d.seq < e.seq
       PROVE  Increasing(p)
  <2> SUFFICES ASSUME NEW i \in 1..Len(p), NEW j \in 1..Len(p), i < j
               PROVE  p[i].seq < p[j].seq
    BY <1>11 DEF Increasing
  <2>1. CASE j \in 1..Len(o)
    <3>1. i \in 1..Len(o) /\ p[i] = o[i] /\ p[j] = o[j]
      BY <1>10, <1>11, <1>13, <2>1
    <3> QED
      BY <1>7, <1>11, <2>1, <3>1 DEF Increasing
  <2>2. CASE i \in 1..Len(o) /\ j \notin 1..Len(o)
    <3>1. p[i] \in new /\ p[j] \in Range(entries)
      BY <1>11, <1>12, <1>13, <2>2
    <3> QED
      BY <1>19, <3>1
  <2>3. CASE i \notin 1..Len(o) /\ j \notin 1..Len(o)
    <3>1. /\ p[i] = entries[i - Len(o)] /\ i - Len(o) \in 1..Len(entries)
          /\ p[j] = entries[j - Len(o)] /\ j - Len(o) \in 1..Len(entries)
      BY <1>13, <2>3
    <3>2. i - Len(o) < j - Len(o)
      BY <1>10, <1>11
    <3> QED
      BY <1>11, <1>19, <3>1, <3>2 DEF Increasing
  <2> QED
    BY <1>10, <1>11, <2>1, <2>2, <2>3
<1> HIDE DEF new
<1>20. OlderPrepended(page) = p
  BY <1>9 DEF p
<1> QED
  BY <1>10, <1>16, <1>17, <1>18, <1>19, <1>20

-----------------------------------------------------------------------------
(* The invariant.                                                           *)

(* Who is under way names a session: a select call that was made, a repair  *)
(* that captured its address, a page that was asked for, an open stream.    *)
CallsMade(cs, ws) ==
  /\ \A c \in Calls :
       cs[c].phase # "unused" \/ cs[c].timer => cs[c].session \in Sessions
  /\ \A s \in Sessions : ws[s] # NoCall => cs[ws[s]].phase # "unused"

Shape ==
  /\ CallsMade(calls, waiter)
  /\ \A k \in Callers :
       /\ repair[k].phase \in {"list", "page"}
            => repair[k].session \in Sessions /\ active \in Sessions
       /\ repair[k].phase = "page" => repair[k].through \in 0..MaxSeq
  /\ older # NoOlder => older.session \in Sessions /\ older.before >= 1
  /\ follow.phase = "open" => follow.session = active /\ active \in Sessions
  /\ follow.phase = "waiting" <=> repair["follow"].phase # "none"

(* Cursors and the pages asked for with them do not reach beyond the log.   *)
WithinLog ==
  /\ \A s \in Sessions : cursor[s] # NoSession => cursor[s] <= log[s]
  /\ older # NoOlder => older.through <= log[older.session]

(* The wire of an open stream holds the end of the log, frame by frame; only*)
(* its first frame can be the snapshot.                                     *)
WireIsTail ==
  follow.phase = "open" =>
    \A i \in DOMAIN follow.wire :
      /\ follow.wire[i].seq = log[active] - Len(follow.wire) + i
      /\ i > 1 => follow.wire[i].type = "event"

SnapshotDue ==
  /\ follow.phase = "open" /\ follow.wire # <<>>
  /\ follow.wire[1].type = "snapshot"

(* What is on screen, or can still be put in front of it, when a snapshot   *)
(* is due is not newer than the snapshot.                                   *)
SnapshotIsNewest ==
  SnapshotDue =>
    /\ cursor[active] # NoSession => cursor[active] <= follow.wire[1].seq
    /\ older # NoOlder /\ older.session = active
         => older.through <= follow.wire[1].seq
    /\ ~disturbed => \A i \in DOMAIN entries : entries[i].seq <= follow.wire[1].seq

(* Undisturbed, the transcript is in order and within the log, and once the *)
(* snapshot is handled it ends right before the frames still on the wire.   *)
InOrder ==
  ~disturbed =>
    /\ Increasing(entries)
    /\ entries # <<>> => active \in Sessions
    /\ active \in Sessions => \A i \in DOMAIN entries : entries[i].seq <= log[active]
    /\ follow.phase = "open" /\ ~SnapshotDue =>
         /\ entries # <<>>
         /\ entries[Len(entries)].seq = log[active] - Len(follow.wire)

-----------------------------------------------------------------------------
(* Types.                                                                   *)

(* Types and names hold at the start.                                       *)
LEMMA TypesInit == Init => TypeOK /\ Shape
<1> SUFFICES ASSUME Init PROVE TypeOK /\ Shape
  OBVIOUS
<1>1. /\ MaxSeq \in Nat \ {0} /\ MaxLosses \in Nat
      /\ NoSession \notin Sessions /\ NoCall \notin Calls
  BY ViewAssumption
<1>2. /\ entries \in Seq(Entry) /\ follow \in Follow
  BY DEF Init, Follow, NoFollow
<1>3. /\ calls \in [Calls -> Call]
      /\ cursor \in [Sessions -> Cursor] /\ waiter \in [Sessions -> Calls \cup {NoCall}]
  BY DEF Init, Call, Cursor
<1>4. /\ repair \in [Callers -> Repair] /\ older \in Older
      /\ log \in [Sessions -> 1..MaxSeq]
  BY <1>1 DEF Init, Repair, NoRepair, Cursor, Older, NoOlder
<1>5. /\ generation \in Nat /\ losses \in 0..MaxLosses
  BY <1>1 DEF Init
<1>6. TypeOK
  BY <1>2, <1>3, <1>4, <1>5 DEF Init, TypeOK
<1>7. CallsMade(calls, waiter)
  BY DEF Init, CallsMade
<1>8. Shape
  BY <1>7 DEF Init, Shape, NoRepair, NoFollow, Callers
<1> QED
  BY <1>6, <1>8

Movements == {"models", "returned"}

Moved(cs, c, phase) == [cs EXCEPT ![c].phase = phase, ![c].timer = FALSE]

(* A call that is moved on keeps its session, and its timer is over.        *)
LEMMA CallMoved ==
  ASSUME NEW cs \in [Calls -> Call], NEW c \in Calls,
         NEW phase \in Movements
  PROVE  /\ Moved(cs, c, phase) \in [Calls -> Call]
         /\ \A x \in Calls : x # c => Moved(cs, c, phase)[x] = cs[x]
         /\ Moved(cs, c, phase)[c].session = cs[c].session
         /\ Moved(cs, c, phase)[c].phase = phase
         /\ ~Moved(cs, c, phase)[c].timer
<1>1. cs[c] \in Call /\ DOMAIN cs = Calls
  OBVIOUS
<1> DEFINE r == [cs[c] EXCEPT !.phase = phase, !.timer = FALSE]
<1>2. /\ r \in Call
      /\ r.session = cs[c].session /\ r.generation = cs[c].generation
      /\ r.phase = phase /\ r.timer = FALSE
  BY <1>1 DEF Call, Movements
<1>3. Moved(cs, c, phase) = [cs EXCEPT ![c] = r]
  BY <1>1 DEF Moved
<1> HIDE DEF r
<1> QED
  BY <1>1, <1>2, <1>3

(* Whoever waits for the snapshot of a session is moved on.                 *)
LEMMA Resolved ==
  ASSUME TypeOK, NEW cs \in [Calls -> Call], CallsMade(cs, waiter),
         NEW s \in Sessions, waiter' = [waiter EXCEPT ![s] = NoCall],
         \/ waiter[s] = NoCall /\ calls' = cs
         \/ /\ waiter[s] # NoCall
            /\ \E phase \in Movements : calls' = Moved(cs, waiter[s], phase)
  PROVE  /\ waiter' \in [Sessions -> Calls \cup {NoCall}]
         /\ calls' \in [Calls -> Call]
         /\ CallsMade(calls', waiter')
<1>1. waiter \in [Sessions -> Calls \cup {NoCall}]
  BY DEF TypeOK
<1>2. /\ waiter' \in [Sessions -> Calls \cup {NoCall}]
      /\ \A x \in Sessions : waiter'[x] # NoCall => waiter'[x] = waiter[x]
  BY <1>1
<1>3. CASE waiter[s] = NoCall /\ calls' = cs
  BY <1>1, <1>2, <1>3 DEF CallsMade
<1>4. CASE waiter[s] # NoCall /\ \E phase \in Movements : calls' = Moved(cs, waiter[s], phase)
  <2>1. waiter[s] \in Calls /\ cs[waiter[s]].phase # "unused"
    BY <1>1, <1>4 DEF CallsMade
  <2>2. PICK phase \in Movements : calls' = Moved(cs, waiter[s], phase)
    BY <1>4
  <2> DEFINE m == Moved(cs, waiter[s], phase)
  <2>3. /\ m \in [Calls -> Call]
        /\ \A x \in Calls : x # waiter[s] => m[x] = cs[x]
        /\ m[waiter[s]].session = cs[waiter[s]].session
        /\ m[waiter[s]].phase = phase
        /\ ~m[waiter[s]].timer
    <3>1. waiter[s] \in Calls
      BY <2>1
    <3> QED
      BY <3>1, CallMoved, Zenon
  <2> HIDE DEF m
  <2>4. calls' = m
    BY <2>2 DEF m
  <2>5. \A x \in Calls : /\ m[x].session = cs[x].session
                         /\ m[x].phase # "unused" \/ cs[x].phase = "unused"
                         /\ m[x].timer => cs[x].timer
    BY <2>3 DEF Movements
  <2>6. \A x \in Calls : m[x].phase # "unused" => cs[x].phase # "unused"
    BY <2>1, <2>3
  <2>7. \A x \in Calls : m[x].phase # "unused" \/ m[x].timer => m[x].session \in Sessions
    BY <2>5, <2>6 DEF CallsMade
  <2>8. \A x \in Sessions : waiter'[x] # NoCall => m[waiter'[x]].phase # "unused"
    <3> SUFFICES ASSUME NEW x \in Sessions, waiter'[x] # NoCall
                 PROVE  m[waiter[x]].phase # "unused"
      BY <1>2
    <3>1. waiter[x] \in Calls
      BY <1>1, <1>2
    <3>2. cs[waiter[x]].phase # "unused"
      BY <1>2 DEF CallsMade
    <3> QED
      BY <2>5, <3>1, <3>2
  <2> QED
    BY <1>2, <2>3, <2>4, <2>7, <2>8 DEF CallsMade
<1> QED
  BY <1>3, <1>4

(* Select calls keep the types.                                             *)
LEMMA TypesOfCalls ==
  ASSUME TypeOK, Shape, NEW c \in Calls,
         \/ \E s \in Sessions : SelectSession(c, s) \/ SelectSubagent(c, s)
         \/ CallStep(c)
  PROVE  TypeOK' /\ Shape'
<1>1. /\ calls \in [Calls -> Call] /\ generation \in Nat
      /\ waiter \in [Sessions -> Calls \cup {NoCall}]
      /\ active \in Sessions \cup {NoSession}
      /\ cursor \in [Sessions -> Cursor] /\ catalog \in Sessions \cup {NoSession}
      /\ follow \in Follow
  BY DEF TypeOK
<1>2. /\ <<>> \in Seq(Entry) /\ NoFollow("ready") \in Follow
      /\ 0 \in Cursor
  BY ViewAssumption DEF NoFollow, Follow, Cursor
<1>3. ASSUME NEW s \in Sessions, SelectSession(c, s)
      PROVE  TypeOK' /\ Shape'
  <2>1. /\ calls' \in [Calls -> Call] /\ generation' \in Nat
        /\ waiter' \in [Sessions -> Calls \cup {NoCall}]
    BY <1>1, <1>3 DEF SelectSession, Call
  <2>2. /\ follow' \in Follow /\ entries' \in Seq(Entry) /\ hasMore' \in BOOLEAN
        /\ disturbed' \in BOOLEAN
    BY <1>1, <1>2, <1>3 DEF SelectSession, AbortFollow, ClearTranscript
  <2>3. TypeOK'
    BY <2>1, <2>2, <1>3 DEF TypeOK, SelectSession
  <2>4. follow'.phase # "open" /\ (follow'.phase = "waiting" <=> follow.phase = "waiting")
    BY <1>3 DEF SelectSession, AbortFollow, NoFollow
  <2>5. CallsMade(calls', waiter')
    BY <1>1, <1>3 DEF SelectSession, Shape, CallsMade, Call
  <2> QED
    BY <2>3, <2>4, <2>5, <1>3 DEF Shape, SelectSession, NoOlder
<1>4. ASSUME NEW s \in Sessions, SelectSubagent(c, s)
      PROVE  TypeOK' /\ Shape'
  <2>1. /\ calls' \in [Calls -> Call] /\ generation' \in Nat
    BY <1>1, <1>4 DEF SelectSubagent, Call
  <2>2. CallsMade(calls', waiter')
    BY <1>1, <1>4 DEF SelectSubagent, Shape, CallsMade, Call
  <2> QED
    BY <2>1, <2>2, <1>4 DEF TypeOK, Shape, SelectSubagent, transcriptVars, NoOlder
<1>5. ASSUME Returns(c), calls[c].phase # "unused", waiter' = waiter
      PROVE  /\ calls' \in [Calls -> Call]
             /\ CallsMade(calls', waiter')
  <2>1. calls[c].session \in Sessions
    BY <1>5 DEF Shape, CallsMade
  <2>2. /\ calls' \in [Calls -> Call]
        /\ \A x \in Calls : x # c => calls'[x] = calls[x]
        /\ calls'[c].session = calls[c].session
        /\ calls'[c].phase = "returned"
    <3>1. calls' = Moved(calls, c, "returned")
      BY <1>5 DEF Returns, Moved
    <3>2. "returned" \in Movements
      BY DEF Movements
    <3>3. calls \in [Calls -> Call]
      BY <1>1
    <3> DEFINE m == Moved(calls, c, "returned")
    <3>4. /\ m \in [Calls -> Call]
          /\ \A x \in Calls : x # c => m[x] = calls[x]
          /\ m[c].session = calls[c].session
          /\ m[c].phase = "returned"
      BY <3>2, <3>3, CallMoved
    <3> QED
      BY <3>1, <3>4
  <2> QED
    BY <1>1, <1>5, <2>1, <2>2 DEF Shape, CallsMade
<1>6. CASE SubagentListed(c)
  <2>1. /\ calls' \in [Calls -> Call]
        /\ CallsMade(calls', waiter')
    BY <1>5, <1>6 DEF SubagentListed
  <2>2. calls[c].session \in Sessions
    BY <1>6 DEF SubagentListed, Shape, CallsMade
  <2>3. CASE calls[c].generation = generation
    <3>1. /\ active' \in Sessions /\ cursor' \in [Sessions -> Cursor]
          /\ catalog' \in Sessions
      BY <1>1, <1>2, <1>6, <2>2, <2>3 DEF SubagentListed
    <3>2. /\ follow' \in Follow /\ entries' \in Seq(Entry) /\ hasMore' \in BOOLEAN
          /\ disturbed' \in BOOLEAN
      BY <1>1, <1>2, <1>6, <2>3 DEF SubagentListed, AbortFollow, ClearTranscript
    <3>3. TypeOK'
      BY <2>1, <3>1, <3>2, <1>6 DEF TypeOK, SubagentListed
    <3>4. follow'.phase # "open" /\ (follow'.phase = "waiting" <=> follow.phase = "waiting")
      BY <1>6, <2>3 DEF SubagentListed, AbortFollow, NoFollow
    <3> QED
      BY <2>1, <3>1, <3>3, <3>4, <1>6 DEF Shape, SubagentListed, NoOlder
  <2>4. CASE calls[c].generation # generation
    BY <2>1, <1>6, <2>4 DEF TypeOK, Shape, SubagentListed, transcriptVars, NoOlder
  <2> QED
    BY <2>3, <2>4
<1>7. CASE SubagentFails(c)
  <2>1. /\ calls' \in [Calls -> Call]
        /\ CallsMade(calls', waiter')
    BY <1>5, <1>7 DEF SubagentFails
  <2> QED
    BY <2>1, <1>7 DEF TypeOK, Shape, SubagentFails, transcriptVars, NoOlder
<1>8. CASE TimerFires(c)
  <2> DEFINE s == calls[c].session
             fired == [calls EXCEPT ![c].timer = FALSE]
  <2>1. s \in Sessions
    BY <1>8 DEF TimerFires, Shape, CallsMade
  <2>2. fired \in [Calls -> Call] /\ CallsMade(fired, waiter)
    <3>1. /\ fired \in [Calls -> Call]
          /\ \A x \in Calls : /\ fired[x].session = calls[x].session
                              /\ fired[x].phase = calls[x].phase
                              /\ fired[x].timer => calls[x].timer
      BY <1>1 DEF Call
    <3> QED
      BY <1>1, <3>1 DEF Shape, CallsMade
  <2>3. waiter' = [waiter EXCEPT ![s] = NoCall]
    BY <1>8 DEF TimerFires
  <2>4. \/ waiter[s] = NoCall /\ calls' = fired
        \/ /\ waiter[s] # NoCall
           /\ \E phase \in Movements : calls' = Moved(fired, waiter[s], phase)
    BY <1>8 DEF TimerFires, Moved, Movements
  <2> HIDE DEF fired, s
  <2>5. /\ waiter' \in [Sessions -> Calls \cup {NoCall}]
        /\ calls' \in [Calls -> Call]
        /\ CallsMade(calls', waiter')
    BY <2>1, <2>2, <2>3, <2>4, Resolved
  <2> QED
    BY <2>5, <1>8 DEF TypeOK, Shape, TimerFires, transcriptVars, NoOlder
<1>9. CASE ModelsLoaded(c)
  <2>1. /\ calls' \in [Calls -> Call]
        /\ CallsMade(calls', waiter')
    BY <1>1, <1>9 DEF ModelsLoaded, Call, Shape, CallsMade
  <2> QED
    BY <2>1, <1>9 DEF TypeOK, Shape, ModelsLoaded, transcriptVars, NoOlder
<1>10. CASE CatalogsLoaded(c)
  <2>1. /\ calls' \in [Calls -> Call]
        /\ CallsMade(calls', waiter')
    BY <1>5, <1>10 DEF CatalogsLoaded
  <2>2. catalog' \in Sessions \cup {NoSession}
    BY <1>1, <1>10 DEF CatalogsLoaded, Shape, CallsMade
  <2> QED
    BY <2>1, <2>2, <1>10 DEF TypeOK, Shape, CatalogsLoaded, transcriptVars, NoOlder
<1> QED
  BY <1>3, <1>4, <1>6, <1>7, <1>8, <1>9, <1>10 DEF CallStep

(* Frames of the follow stream keep the types.                              *)
LEMMA TypesOfFrames ==
  ASSUME TypeOK, Shape, NoDuplicates, HandleFrame
  PROVE  TypeOK' /\ Shape'
<1>1. /\ follow \in Follow /\ entries \in Seq(Entry) /\ cursor \in [Sessions -> Cursor]
      /\ calls \in [Calls -> Call] /\ log \in [Sessions -> 1..MaxSeq]
      /\ repair \in [Callers -> Repair]
  BY DEF TypeOK
<1>2. /\ follow.phase = "open" /\ follow.wire # <<>>
      /\ follow' = [follow EXCEPT !.wire = Tail(@)]
  BY DEF HandleFrame, HandleSnapshot, HandleGap, HandleEvent, Handles
<1>3. /\ follow.wire \in Seq(Frame) /\ follow.session \in Sessions /\ active \in Sessions
      /\ follow.session = active
  BY <1>1, <1>2 DEF Follow, Shape
<1>4. /\ Tail(follow.wire) \in Seq(Frame) /\ Head(follow.wire) \in Frame
  BY <1>2, <1>3, HeadTailProperties
<1>5. /\ follow' \in Follow /\ follow'.phase = "open" /\ follow'.session = active
      /\ follow'.wire = Tail(follow.wire)
  BY <1>1, <1>2, <1>3, <1>4 DEF Follow
<1>6. Head(follow.wire).seq \in 1..MaxSeq /\ Head(follow.wire).seq \in 0..MaxSeq
  BY <1>4, ViewAssumption DEF Frame
<1>7. CASE HandleSnapshot
  <2> DEFINE records == Records(follow.session, Head(follow.wire).seq)
  <2>1. records \in Seq(Entry) /\ Increasing(records)
    BY <1>3, <1>6, RecordsProperties
  <2>2. OnceEach(entries)
    BY DEF NoDuplicates, OnceEach
  <2>3. MergeHistory(records, entries) \in Seq(Entry)
    BY <1>1, <2>1, <2>2, MergeProperties
  <2>4. entries' \in Seq(Entry)
    BY <1>7, <2>3 DEF HandleSnapshot
  <2>5. hasMore' \in BOOLEAN
    BY <1>7 DEF HandleSnapshot, MoreBefore
  <2>6. cursor' \in [Sessions -> Cursor]
    BY <1>1, <1>3, <1>6, <1>7 DEF HandleSnapshot, Cursor
  <2>7. ResolveWaiter(follow.session)
    BY <1>7 DEF HandleSnapshot
  <2>8. waiter' = [waiter EXCEPT ![follow.session] = NoCall]
    BY <2>7 DEF ResolveWaiter
  <2>9. \/ waiter[follow.session] = NoCall /\ calls' = calls
        \/ /\ waiter[follow.session] # NoCall
           /\ \E phase \in Movements :
                calls' = Moved(calls, waiter[follow.session], phase)
    BY <2>7 DEF ResolveWaiter, Moved, Movements
  <2>10. CallsMade(calls, waiter)
    BY DEF Shape
  <2>11. /\ waiter' \in [Sessions -> Calls \cup {NoCall}]
         /\ calls' \in [Calls -> Call]
         /\ CallsMade(calls', waiter')
    BY <1>1, <1>3, <2>8, <2>9, <2>10, Resolved
  <2>12. TypeOK'
    BY <1>5, <1>7, <2>4, <2>5, <2>6, <2>11 DEF TypeOK, HandleSnapshot
  <2>13. Shape'
    BY <1>2, <1>3, <1>5, <1>7, <2>11 DEF Shape, HandleSnapshot, NoOlder
  <2> QED
    BY <2>12, <2>13
<1>8. CASE HandleGap
  <2>1. repair' \in [Callers -> Repair]
    BY <1>1, <1>3, <1>8 DEF HandleGap, Repair, Cursor, Callers
  <2>2. TypeOK'
    BY <1>5, <1>8, <2>1 DEF TypeOK, HandleGap, selectionVars, transcriptVars
  <2>3. /\ repair'["follow"] = repair["follow"]
        /\ \A k \in Callers : repair'[k] = repair[k] \/ /\ repair'[k].phase = "list"
                                                        /\ repair'[k].session = active
    BY <1>1, <1>8 DEF HandleGap, Callers
  <2>4. Shape'
    BY <1>2, <1>3, <1>5, <1>8, <2>3
       DEF Shape, HandleGap, selectionVars, transcriptVars, NoOlder, Callers
  <2> QED
    BY <2>2, <2>4
<1>9. CASE HandleEvent
  <2> DEFINE e == [session |-> follow.session, seq |-> Head(follow.wire).seq]
  <2>1. e \in Entry
    BY <1>3, <1>6 DEF Entry
  <2>2. ASSUME e.seq \in Seqs(entries) PROVE entries' \in Seq(Entry)
    <3>1. Len(entries) \in Nat /\ DOMAIN entries = 1..Len(entries)
          /\ \A i \in 1..Len(entries) : entries[i] \in Entry
      BY <1>1, LenProperties, ElementOfSeq
    <3>2. entries' = [i \in 1..Len(entries) |->
                        IF entries[i].seq = e.seq THEN e ELSE entries[i]]
      BY <1>9, <2>2, <3>1 DEF HandleEvent
    <3>3. entries' \in [1..Len(entries) -> Entry]
      BY <2>1, <3>1, <3>2
    <3> QED
      BY <3>1, <3>3, FunctionIsSeq
  <2>3. ASSUME e.seq \notin Seqs(entries) PROVE entries' \in Seq(Entry)
    <3>1. entries' = Append(entries, e)
      BY <1>9, <2>3 DEF HandleEvent
    <3> QED
      BY <1>1, <2>1, <3>1, AppendProperties
  <2>4. entries' \in Seq(Entry)
    BY <2>2, <2>3
  <2>5. TypeOK'
    BY <1>5, <1>9, <2>4 DEF TypeOK, HandleEvent, selectionVars
  <2>6. Shape'
    BY <1>2, <1>3, <1>5, <1>9 DEF Shape, HandleEvent, selectionVars, NoOlder
  <2> QED
    BY <2>5, <2>6
<1> QED
  BY <1>7, <1>8, <1>9 DEF HandleFrame

(* The pumps, the repairs, the older pages and the host keep the types.     *)
LEMMA TypesOfPumps ==
  ASSUME TypeOK, Shape, FollowIdles \/ FollowOpens \/ FollowLost \/ OtherStreamLost
  PROVE  TypeOK' /\ Shape'
<1>1. /\ follow \in Follow /\ repair \in [Callers -> Repair]
      /\ log \in [Sessions -> 1..MaxSeq]
      /\ losses \in 0..MaxLosses /\ MaxLosses \in Nat
      /\ active \in Sessions \cup {NoSession}
  BY ViewAssumption DEF TypeOK
<1>2. \A k \in {"follow", "other"} :
        repair' = [repair EXCEPT ![k].phase = "pause"] =>
          /\ repair' \in [Callers -> Repair]
          /\ repair'[k].phase = "pause"
          /\ \A x \in Callers : x # k => repair'[x] = repair[x]
  BY <1>1 DEF Callers, Repair
<1>3. \A phase \in {"ready", "waiting"} :
        /\ NoFollow(phase) \in Follow /\ NoFollow(phase).phase = phase
  BY DEF NoFollow, Follow
<1>4. CASE FollowIdles
  <2>1. follow' = NoFollow("waiting") /\ repair' = [repair EXCEPT !["follow"].phase = "pause"]
    BY <1>4 DEF FollowIdles
  <2>2. TypeOK'
    BY <1>2, <1>3, <1>4, <2>1 DEF TypeOK, FollowIdles, selectionVars, transcriptVars
  <2>3. Shape'
    BY <1>2, <1>3, <1>4, <2>1
       DEF Shape, FollowIdles, selectionVars, transcriptVars, NoOlder, Callers
  <2> QED
    BY <2>2, <2>3
<1>5. CASE FollowOpens
  <2>1. active \in Sessions
    BY <1>1, <1>5 DEF FollowOpens
  <2> DEFINE frame == [type |-> "snapshot", seq |-> log[active]]
  <2>2. frame \in Frame
    BY <1>1, <2>1 DEF Frame
  <2>3. <<frame>> \in Seq(Frame)
    BY <2>2
  <2>4. /\ follow' \in Follow /\ follow'.phase = "open" /\ follow'.session = active
    BY <1>5, <2>1, <2>3 DEF FollowOpens, Follow
  <2>5. TypeOK'
    BY <1>5, <2>4 DEF TypeOK, FollowOpens, selectionVars, transcriptVars
  <2>6. Shape'
    BY <1>5, <2>1, <2>4 DEF Shape, FollowOpens, selectionVars, transcriptVars, NoOlder
  <2> QED
    BY <2>5, <2>6
<1>6. CASE FollowLost
  <2>1. follow' = NoFollow("waiting") /\ repair' = [repair EXCEPT !["follow"].phase = "pause"]
    BY <1>6 DEF FollowLost
  <2>2. losses' \in 0..MaxLosses
    BY <1>1, <1>6 DEF FollowLost
  <2>3. TypeOK'
    BY <1>2, <1>3, <1>6, <2>1, <2>2 DEF TypeOK, FollowLost, selectionVars, transcriptVars
  <2>4. Shape'
    BY <1>2, <1>3, <1>6, <2>1
       DEF Shape, FollowLost, selectionVars, transcriptVars, NoOlder, Callers
  <2> QED
    BY <2>3, <2>4
<1>7. CASE OtherStreamLost
  <2>1. repair' = [repair EXCEPT !["other"].phase = "pause"]
    BY <1>7 DEF OtherStreamLost
  <2>2. TypeOK'
    BY <1>2, <1>7, <2>1 DEF TypeOK, OtherStreamLost, selectionVars, transcriptVars
  <2>3. Shape'
    BY <1>2, <1>7, <2>1
       DEF Shape, OtherStreamLost, selectionVars, transcriptVars, NoOlder, Callers
  <2> QED
    BY <2>2, <2>3
<1> QED
  BY <1>4, <1>5, <1>6, <1>7

(* Repairs capture, read and install under known sessions.                  *)
LEMMA TypesOfRepairs ==
  ASSUME TypeOK, Shape, NEW k \in Callers, RepairStep(k)
  PROVE  TypeOK' /\ Shape'
<1>1. /\ follow \in Follow /\ repair \in [Callers -> Repair]
      /\ active \in Sessions \cup {NoSession} /\ cursor \in [Sessions -> Cursor]
      /\ NoRepair \in Repair /\ NoRepair.phase = "none"
  BY DEF TypeOK, NoRepair, Repair, Cursor
<1>2. ASSUME Repaired(k), repair[k].phase # "none"
      PROVE  /\ repair' \in [Callers -> Repair] /\ follow' \in Follow
             /\ repair'[k] = NoRepair
             /\ \A x \in Callers : x # k => repair'[x] = repair[x]
             /\ follow'.phase = "open" => follow' = follow
             /\ follow'.phase = "waiting" <=> repair'["follow"].phase # "none"
  <2>1. /\ repair' \in [Callers -> Repair]
        /\ repair'[k] = NoRepair
        /\ \A x \in Callers : x # k => repair'[x] = repair[x]
    BY <1>1, <1>2 DEF Repaired
  <2>2. CASE k = "follow"
    <3>1. follow' \in Follow /\ follow'.phase = "ready"
      BY <1>1, <1>2, <2>2 DEF Repaired, Follow
    <3> QED
      BY <1>1, <2>1, <2>2, <3>1
  <2>3. CASE k # "follow"
    <3>1. follow' = follow
      BY <1>2, <2>3 DEF Repaired
    <3>2. repair'["follow"] = repair["follow"]
      BY <2>1, <2>3 DEF Callers
    <3> QED
      BY <1>1, <2>1, <3>1, <3>2 DEF Shape
  <2> QED
    BY <2>2, <2>3
<1>3. CASE RepairStarts(k)
  <2>1. CASE active = NoSession
    <3>1. Repaired(k) /\ repair[k].phase # "none"
      BY <1>3, <2>1 DEF RepairStarts
    <3>2. TypeOK'
      BY <1>2, <1>3, <3>1 DEF TypeOK, RepairStarts, selectionVars, transcriptVars
    <3>3. Shape'
      BY <1>1, <1>2, <1>3, <3>1
         DEF Shape, RepairStarts, selectionVars, transcriptVars, NoOlder
    <3> QED
      BY <3>2, <3>3
  <2>2. CASE active # NoSession
    <3> DEFINE r == [phase |-> "list", session |-> active, through |-> NoSession]
    <3>1. active \in Sessions /\ r \in Repair
      BY <1>1, <2>2 DEF Repair, Cursor
    <3>2. repair' = [repair EXCEPT ![k] = r] /\ follow' = follow
      BY <1>3, <2>2 DEF RepairStarts
    <3>3. /\ repair' \in [Callers -> Repair] /\ repair'[k] = r
          /\ \A x \in Callers : x # k => repair'[x] = repair[x]
      BY <1>1, <3>1, <3>2
    <3>4. TypeOK'
      BY <1>3, <3>2, <3>3 DEF TypeOK, RepairStarts, selectionVars, transcriptVars
    <3>5. repair'["follow"].phase # "none" <=> repair["follow"].phase # "none"
      BY <1>3, <3>3 DEF RepairStarts, Callers
    <3>6. Shape'
      BY <1>3, <3>1, <3>2, <3>3, <3>5
         DEF Shape, RepairStarts, selectionVars, transcriptVars, NoOlder
    <3> QED
      BY <3>4, <3>6
  <2> QED
    BY <2>1, <2>2
<1>4. CASE RepairReads(k)
  <2>1. CASE cursor[active] = NoSession
    <3>1. Repaired(k) /\ repair[k].phase # "none"
      BY <1>4, <2>1 DEF RepairReads
    <3>2. TypeOK'
      BY <1>2, <1>4, <3>1 DEF TypeOK, RepairReads, selectionVars, transcriptVars
    <3>3. Shape'
      BY <1>1, <1>2, <1>4, <3>1
         DEF Shape, RepairReads, selectionVars, transcriptVars, NoOlder
    <3> QED
      BY <3>2, <3>3
  <2>2. CASE cursor[active] # NoSession
    <3>1. repair[k].phase = "list" /\ active \in Sessions /\ repair[k].session \in Sessions
      BY <1>4 DEF RepairReads, Shape
    <3>2. cursor[active] \in 0..MaxSeq
      BY <1>1, <2>2, <3>1 DEF Cursor
    <3> DEFINE r == [repair[k] EXCEPT !.phase = "page", !.through = cursor[active]]
    <3>3. /\ r \in Repair /\ r.phase = "page" /\ r.through = cursor[active]
          /\ r.session = repair[k].session
      BY <1>1, <3>1, <3>2 DEF Repair, Cursor
    <3>4. repair' = [repair EXCEPT ![k] = r] /\ follow' = follow
      BY <1>1, <1>4, <2>2 DEF RepairReads
    <3> HIDE DEF r
    <3>5. /\ repair' \in [Callers -> Repair] /\ repair'[k] = r
          /\ \A x \in Callers : x # k => repair'[x] = repair[x]
      BY <1>1, <3>3, <3>4
    <3>6. TypeOK'
      BY <1>4, <3>4, <3>5 DEF TypeOK, RepairReads, selectionVars, transcriptVars
    <3>7. repair'["follow"].phase # "none" <=> repair["follow"].phase # "none"
      BY <3>1, <3>3, <3>5 DEF Callers
    <3>8. Shape'
      BY <1>4, <3>1, <3>2, <3>3, <3>4, <3>5, <3>7
         DEF Shape, RepairReads, selectionVars, transcriptVars, NoOlder
    <3> QED
      BY <3>6, <3>8
  <2> QED
    BY <2>1, <2>2
<1>5. CASE RepairLands(k)
  <2> DEFINE page == Records(repair[k].session, repair[k].through)
  <2>1. /\ Repaired(k) /\ repair[k].phase = "page"
        /\ repair[k].session \in Sessions /\ repair[k].through \in 0..MaxSeq
    BY <1>5 DEF RepairLands, Shape
  <2>2. page \in Seq(Entry)
    BY <2>1, RecordsProperties
  <2>3. entries' \in Seq(Entry) /\ hasMore' \in BOOLEAN /\ disturbed' \in BOOLEAN
    BY <1>5, <2>2 DEF RepairLands, MoreBefore
  <2>4. TypeOK'
    BY <1>2, <1>5, <2>1, <2>3 DEF TypeOK, RepairLands, selectionVars
  <2>5. Shape'
    BY <1>1, <1>2, <1>5, <2>1 DEF Shape, RepairLands, selectionVars, NoOlder
  <2> QED
    BY <2>4, <2>5
<1>6. CASE RepairFails(k)
  <2>1. Repaired(k) /\ repair[k].phase # "none"
    BY <1>6 DEF RepairFails
  <2>2. TypeOK'
    BY <1>2, <1>6, <2>1 DEF TypeOK, RepairFails, selectionVars, transcriptVars
  <2>3. Shape'
    BY <1>1, <1>2, <1>6, <2>1
       DEF Shape, RepairFails, selectionVars, transcriptVars, NoOlder
  <2> QED
    BY <2>2, <2>3
<1> QED
  BY <1>3, <1>4, <1>5, <1>6 DEF RepairStep

(* An older page ends before the entry it was asked for.                    *)
LEMMA OlderPageProperties ==
  ASSUME TypeOK, Shape, older # NoOlder
  PROVE  /\ OlderPage \in Seq(Entry)
         /\ Increasing(OlderPage)
         /\ \A i \in 1..Len(OlderPage) : /\ OlderPage[i].seq < older.before
                                         /\ OlderPage[i].seq <= older.through
<1> DEFINE top == IF older.before - 1 < older.through THEN older.before - 1
                                                      ELSE older.through
<1>1. /\ older.session \in Sessions /\ older.before \in 1..MaxSeq
      /\ older.through \in 0..MaxSeq
  BY ViewAssumption DEF TypeOK, Shape, Older
<1>2. /\ top \in 0..MaxSeq /\ top < older.before /\ top <= older.through
  BY <1>1, ViewAssumption
<1>3. OlderPage = Records(older.session, top)
  BY DEF OlderPage
<1> HIDE DEF top
<1>4. /\ OlderPage \in Seq(Entry) /\ Increasing(OlderPage)
      /\ \A i \in 1..Len(OlderPage) : OlderPage[i].seq <= top
  BY <1>1, <1>2, <1>3, RecordsProperties
<1>5. \A i \in 1..Len(OlderPage) : OlderPage[i].seq \in Int
  <2> TAKE i \in 1..Len(OlderPage)
  <2>1. OlderPage[i] \in Entry
    BY <1>4, ElementOfSeq
  <2> QED
    BY <2>1, ViewAssumption DEF Entry
<1> QED
  BY <1>1, <1>2, <1>4, <1>5

(* Older pages keep the types.                                              *)
LEMMA TypesOfOlder ==
  ASSUME TypeOK, Shape, NoDuplicates, LoadOlder \/ OlderStep
  PROVE  TypeOK' /\ Shape'
<1>1. /\ entries \in Seq(Entry) /\ cursor \in [Sessions -> Cursor]
      /\ active \in Sessions \cup {NoSession} /\ NoOlder \in Older
  BY ViewAssumption DEF TypeOK, NoOlder, Older
<1>2. CASE LoadOlder
  <2>1. active \in Sessions
    BY <1>1, <1>2 DEF LoadOlder
  <2>2. Head(entries) \in Entry
    BY <1>1, <1>2, HeadTailProperties DEF LoadOlder
  <2>3. Head(entries).seq \in 1..MaxSeq
    BY <2>2 DEF Entry
  <2>4. (IF cursor[active] = NoSession THEN 0 ELSE cursor[active]) \in 0..MaxSeq
    BY <1>1, <2>1, ViewAssumption DEF Cursor
  <2>5. /\ older' \in Older /\ older'.session = active /\ older'.before = Head(entries).seq
    BY <1>2, <2>1, <2>3, <2>4, ViewAssumption DEF LoadOlder, Older
  <2>6. older'.before >= 1
    BY <2>3, <2>5
  <2>7. TypeOK'
    BY <1>2, <2>5 DEF TypeOK, LoadOlder, selectionVars, transcriptVars
  <2>8. Shape'
    BY <1>2, <2>1, <2>5, <2>6 DEF Shape, LoadOlder, selectionVars, transcriptVars, NoOlder
  <2> QED
    BY <2>7, <2>8
<1>3. CASE OlderLands
  <2>1. older # NoOlder /\ entries' = OlderPrepended(OlderPage)
    BY <1>3 DEF OlderLands
  <2>2. OlderPage \in Seq(Entry) /\ Increasing(OlderPage)
    BY <2>1, OlderPageProperties
  <2>3. entries' \in Seq(Entry)
    BY <2>1, <2>2, PrependProperties
  <2>4. hasMore' \in BOOLEAN /\ disturbed' \in BOOLEAN
    BY <1>3 DEF OlderLands, MoreBefore, OlderIsLate
  <2>5. TypeOK'
    BY <1>1, <1>3, <2>3, <2>4 DEF TypeOK, OlderLands, selectionVars
  <2>6. Shape'
    BY <1>3 DEF Shape, OlderLands, selectionVars, NoOlder
  <2> QED
    BY <2>5, <2>6
<1>4. CASE OlderFails
  BY <1>1, <1>4 DEF TypeOK, Shape, OlderFails, selectionVars, transcriptVars, NoOlder
<1> QED
  BY <1>2, <1>3, <1>4 DEF OlderStep

(* An append moves one log by one and leaves the phase of the stream.       *)
LEMMA TypesOfHost ==
  ASSUME TypeOK, Shape, NEW s \in Sessions, HostAppends(s)
  PROVE  /\ TypeOK' /\ Shape'
         /\ follow'.phase = follow.phase /\ follow'.session = follow.session
         /\ log' \in [Sessions -> 1..MaxSeq] /\ log'[s] = log[s] + 1
         /\ \A x \in Sessions : x # s => log'[x] = log[x]
<1>1. /\ log \in [Sessions -> 1..MaxSeq] /\ follow \in Follow
      /\ MaxSeq \in Nat \ {0} /\ log[s] < MaxSeq
  BY ViewAssumption DEF TypeOK, HostAppends
<1>2. log[s] \in 1..MaxSeq /\ log[s] + 1 \in 1..MaxSeq
  BY <1>1
<1>3. /\ log' \in [Sessions -> 1..MaxSeq] /\ log'[s] = log[s] + 1
      /\ \A x \in Sessions : x # s => log'[x] = log[x]
  BY <1>1, <1>2 DEF HostAppends
<1>4. /\ follow' \in Follow /\ follow'.phase = follow.phase
      /\ follow'.session = follow.session
  <2>1. CASE follow.phase = "open" /\ follow.session = s
    <3> DEFINE w == Append(follow.wire, [type |-> "event", seq |-> log[s] + 1])
    <3>1. [type |-> "event", seq |-> log[s] + 1] \in Frame
      BY <1>2 DEF Frame
    <3>2. follow.wire \in Seq(Frame)
      BY <1>1 DEF Follow
    <3>3. w \in Seq(Frame)
      BY <3>1, <3>2, AppendProperties
    <3>4. follow' = [follow EXCEPT !.wire = w]
      BY <2>1 DEF HostAppends
    <3> HIDE DEF w
    <3> QED
      BY <1>1, <3>3, <3>4 DEF Follow
  <2>2. CASE ~(follow.phase = "open" /\ follow.session = s)
    BY <1>1, <2>2 DEF HostAppends
  <2> QED
    BY <2>1, <2>2
<1>5. TypeOK'
  BY <1>3, <1>4 DEF TypeOK, HostAppends, selectionVars, transcriptVars
<1>6. Shape'
  BY <1>4 DEF Shape, HostAppends, selectionVars, transcriptVars, NoOlder
<1> QED
  BY <1>3, <1>4, <1>5, <1>6

(* Every step keeps the types.                                              *)
LEMMA TypesInductive ==
  ASSUME TypeOK, Shape, NoDuplicates, [Next]_vars
  PROVE  TypeOK' /\ Shape'
<1>1. CASE UNCHANGED vars
  <2>1. /\ UNCHANGED <<active, generation, calls, waiter>>
        /\ UNCHANGED <<entries, hasMore, cursor, disturbed>>
        /\ UNCHANGED <<catalog, follow, repair, older, log, losses>>
    BY <1>1 DEF vars, selectionVars, transcriptVars
  <2>2. TypeOK'
    BY <2>1 DEF TypeOK
  <2>3. Shape'
    BY <2>1 DEF Shape, NoOlder
  <2> QED
    BY <2>2, <2>3
<1>2. CASE Next
  BY <1>2, TypesOfCalls, TypesOfFrames, TypesOfPumps, TypesOfRepairs, TypesOfOlder,
     TypesOfHost DEF Next
<1> QED
  BY <1>1, <1>2

-----------------------------------------------------------------------------
(* No seq twice, and none taken off by a frame.                             *)

(* The empty transcript repeats nothing.                                    *)
LEMMA EmptyOnce == OnceEach(<<>>) /\ Increasing(<<>>)
  BY DEF OnceEach, Increasing

(* An event replaces the entry with its seq or is appended.                 *)
LEMMA EventProperties ==
  ASSUME TypeOK, Shape, HandleEvent
  PROVE  \/ /\ Len(entries') = Len(entries) /\ DOMAIN entries' = 1..Len(entries)
            /\ \A i \in 1..Len(entries) : entries'[i].seq = entries[i].seq
            /\ Head(follow.wire).seq \in Seqs(entries)
         \/ /\ Head(follow.wire).seq \notin Seqs(entries)
            /\ entries' = Append(entries, [session |-> follow.session,
                                           seq |-> Head(follow.wire).seq])
<1> DEFINE e == [session |-> follow.session, seq |-> Head(follow.wire).seq]
<1>1. e.seq = Head(follow.wire).seq
  OBVIOUS
<1>2. CASE e.seq \in Seqs(entries)
  <2>1. Len(entries) \in Nat /\ DOMAIN entries = 1..Len(entries)
    BY LenProperties DEF TypeOK
  <2>2. entries' = [i \in 1..Len(entries) |->
                      IF entries[i].seq = e.seq THEN e ELSE entries[i]]
    BY <1>2, <2>1 DEF HandleEvent
  <2>3. \A i \in 1..Len(entries) : entries'[i].seq = entries[i].seq
    BY <2>2
  <2>4. entries' \in [1..Len(entries) -> {entries'[i] : i \in 1..Len(entries)}]
    BY <2>2
  <2>5. Len(entries') = Len(entries)
    BY <2>1, <2>4, FunctionIsSeq
  <2> QED
    BY <1>1, <1>2, <2>2, <2>3, <2>5
<1>3. CASE e.seq \notin Seqs(entries)
  BY <1>1, <1>3 DEF HandleEvent
<1> QED
  BY <1>2, <1>3

(* What is merged when the snapshot is handled.                             *)
LEMMA SnapshotProperties ==
  ASSUME TypeOK, Shape, NoDuplicates, HandleSnapshot
  PROVE  /\ Records(active, Head(follow.wire).seq) \in Seq(Entry)
         /\ Increasing(Records(active, Head(follow.wire).seq))
         /\ entries' = MergeHistory(Records(active, Head(follow.wire).seq), entries)
         /\ follow.session = active /\ active \in Sessions
         /\ Head(follow.wire).seq \in 1..MaxSeq
         /\ OnceEach(entries) /\ entries \in Seq(Entry)
<1>1. /\ follow.phase = "open" /\ follow.wire # <<>> /\ follow \in Follow
      /\ follow.session = active /\ active \in Sessions
  BY DEF TypeOK, Shape, HandleSnapshot, Handles
<1>2. Head(follow.wire) \in Frame
  BY <1>1, HeadTailProperties DEF Follow
<1>3. Head(follow.wire).seq \in 1..MaxSeq /\ Head(follow.wire).seq \in 0..MaxSeq
  BY <1>2, ViewAssumption DEF Frame
<1>4. /\ Records(active, Head(follow.wire).seq) \in Seq(Entry)
      /\ Increasing(Records(active, Head(follow.wire).seq))
  BY <1>1, <1>3, RecordsProperties
<1>5. entries' = MergeHistory(Records(active, Head(follow.wire).seq), entries)
  BY <1>1 DEF HandleSnapshot
<1>6. OnceEach(entries) /\ entries \in Seq(Entry)
  BY DEF NoDuplicates, OnceEach, TypeOK
<1> QED
  BY <1>1, <1>3, <1>4, <1>5, <1>6

(* No step shows a seq twice.                                               *)
LEMMA NoDuplicatesInductive ==
  ASSUME TypeOK, Shape, NoDuplicates, [Next]_vars
  PROVE  NoDuplicates'
<1>1. OnceEach(entries) /\ entries \in Seq(Entry)
  BY DEF NoDuplicates, OnceEach, TypeOK
<1>2. SUFFICES entries' = entries \/ OnceEach(entries')
  BY <1>1 DEF NoDuplicates, OnceEach
<1>3. ASSUME NEW c \in Calls, NEW s \in Sessions, SelectSession(c, s)
      PROVE  entries' = entries \/ OnceEach(entries')
  BY <1>3, EmptyOnce DEF SelectSession, ClearTranscript
<1>4. ASSUME NEW c \in Calls, NEW s \in Sessions, SelectSubagent(c, s)
      PROVE  entries' = entries \/ OnceEach(entries')
  BY <1>4 DEF SelectSubagent, transcriptVars
<1>5. ASSUME NEW c \in Calls, CallStep(c)
      PROVE  entries' = entries \/ OnceEach(entries')
  BY <1>5, EmptyOnce DEF CallStep, SubagentListed, ClearTranscript, SubagentFails,
     TimerFires, ModelsLoaded, CatalogsLoaded, transcriptVars
<1>6. CASE FollowIdles \/ FollowOpens \/ FollowLost \/ OtherStreamLost \/ HandleGap
  BY <1>6 DEF FollowIdles, FollowOpens, FollowLost, OtherStreamLost, HandleGap,
     transcriptVars
<1>7. CASE HandleSnapshot
  <2>1. Increasing(entries') /\ entries' \in Seq(Entry)
    BY <1>7, SnapshotProperties, MergeProperties
  <2> QED
    BY <2>1, IncreasingOnce
<1>8. CASE HandleEvent
  <2>1. CASE /\ Len(entries') = Len(entries) /\ DOMAIN entries' = 1..Len(entries)
             /\ \A i \in 1..Len(entries) : entries'[i].seq = entries[i].seq
    <3>1. DOMAIN entries = 1..Len(entries)
      BY <1>1, LenProperties
    <3> QED
      BY <1>1, <2>1, <3>1 DEF OnceEach
  <2> DEFINE e == [session |-> follow.session, seq |-> Head(follow.wire).seq]
  <2>2. CASE e.seq \notin Seqs(entries) /\ entries' = Append(entries, e)
    <3>1. /\ follow.phase = "open" /\ follow.wire # <<>> /\ follow \in Follow
          /\ follow.session \in Sessions
      BY <1>8 DEF TypeOK, Shape, HandleEvent, Handles
    <3>2. Head(follow.wire) \in Frame
      BY <3>1, HeadTailProperties DEF Follow
    <3>3. e \in Entry
      BY <3>1, <3>2 DEF Entry, Frame
    <3>4. /\ entries' \in Seq(Entry) /\ Len(entries') = Len(entries) + 1
          /\ \A i \in 1..Len(entries) : entries'[i] = entries[i]
          /\ entries'[Len(entries) + 1] = e
      BY <1>1, <2>2, <3>3, AppendProperties
    <3>5. /\ Len(entries) \in Nat /\ DOMAIN entries = 1..Len(entries)
          /\ DOMAIN entries' = 1..(Len(entries) + 1)
      BY <1>1, <3>4, LenProperties
    <3>6. \A i \in 1..Len(entries) : entries'[i].seq # e.seq
      BY <2>2, <3>4, <3>5 DEF Seqs
    <3>7. \A i \in 1..(Len(entries) + 1) : i \in 1..Len(entries) \/ i = Len(entries) + 1
      BY <3>5
    <3>8. \A i, j \in 1..Len(entries) : entries'[i].seq = entries'[j].seq => i = j
      BY <1>1, <3>4, <3>5 DEF OnceEach
    <3> QED
      BY <3>4, <3>5, <3>6, <3>7, <3>8 DEF OnceEach
  <2> QED
    BY <1>8, <2>1, <2>2, EventProperties
<1>9. ASSUME NEW k \in Callers, RepairStep(k)
      PROVE  entries' = entries \/ OnceEach(entries')
  <2>1. CASE RepairStarts(k) \/ RepairReads(k) \/ RepairFails(k)
    BY <2>1 DEF RepairStarts, RepairReads, RepairFails, transcriptVars
  <2>2. CASE RepairLands(k)
    <3>1. /\ repair[k].session \in Sessions /\ repair[k].through \in 0..MaxSeq
      BY <2>2 DEF RepairLands, Shape
    <3>2. entries' = Records(repair[k].session, repair[k].through)
      BY <2>2 DEF RepairLands
    <3> QED
      BY <3>1, <3>2, RecordsProperties, IncreasingOnce
  <2> QED
    BY <1>9, <2>1, <2>2 DEF RepairStep
<1>10. CASE LoadOlder \/ OlderFails
  BY <1>10 DEF LoadOlder, OlderFails, transcriptVars
<1>11. CASE OlderLands
  <2>1. older # NoOlder /\ entries' = OlderPrepended(OlderPage)
    BY <1>11 DEF OlderLands
  <2>2. OlderPage \in Seq(Entry) /\ Increasing(OlderPage)
    BY <2>1, OlderPageProperties
  <2> QED
    BY <2>1, <2>2, PrependProperties
<1>12. ASSUME NEW s \in Sessions, HostAppends(s)
       PROVE  entries' = entries \/ OnceEach(entries')
  BY <1>12 DEF HostAppends, transcriptVars
<1>13. CASE UNCHANGED vars
  BY <1>13 DEF vars, transcriptVars
<1> QED
  BY <1>3, <1>4, <1>5, <1>6, <1>7, <1>8, <1>9, <1>10, <1>11, <1>12, <1>13
     DEF Next, HandleFrame, OlderStep

(* Snapshots and events keep every seq on screen.                           *)
LEMMA FramesKeep ==
  ASSUME TypeOK, Shape, NoDuplicates, HandleFrame
  PROVE  Seqs(entries) \subseteq Seqs(entries')
<1>1. CASE HandleSnapshot
  <2>1. Range(entries) \subseteq Range(entries')
    BY <1>1, SnapshotProperties, MergeProperties
  <2> QED
    BY <2>1 DEF Range, Seqs
<1>2. CASE HandleGap
  BY <1>2 DEF HandleGap, transcriptVars
<1>3. CASE HandleEvent
  <2>1. /\ entries \in Seq(Entry) /\ Len(entries) \in Nat
        /\ DOMAIN entries = 1..Len(entries)
    BY LenProperties DEF TypeOK
  <2>2. CASE /\ Len(entries') = Len(entries) /\ DOMAIN entries' = 1..Len(entries)
             /\ \A i \in 1..Len(entries) : entries'[i].seq = entries[i].seq
    BY <2>1, <2>2 DEF Seqs
  <2> DEFINE e == [session |-> follow.session, seq |-> Head(follow.wire).seq]
  <2>3. CASE entries' = Append(entries, e)
    <3>1. entries \in Seq(Entry \cup {e}) /\ e \in Entry \cup {e}
      BY <2>1, SeqMonotonic
    <3>2. /\ entries' \in Seq(Entry \cup {e}) /\ Len(entries') = Len(entries) + 1
          /\ \A i \in 1..Len(entries) : entries'[i] = entries[i]
      BY <2>3, <3>1, AppendProperties
    <3>3. DOMAIN entries' = 1..(Len(entries) + 1)
      BY <3>2, LenProperties
    <3>4. 1..Len(entries) \subseteq 1..(Len(entries) + 1)
      BY <2>1
    <3> QED
      BY <2>1, <3>2, <3>3, <3>4 DEF Seqs
  <2> QED
    BY <1>3, <2>2, <2>3, EventProperties
<1> QED
  BY <1>1, <1>2, <1>3 DEF HandleFrame

-----------------------------------------------------------------------------
(* The catalogs.                                                            *)

(* A catalog is installed only for the selection it was loaded for.         *)
LEMMA CatalogInductive ==
  ASSUME CatalogOfSelection, [Next]_vars
  PROVE  CatalogOfSelection'
<1>1. ASSUME NEW c \in Calls, NEW s \in Sessions,
             SelectSession(c, s) \/ SelectSubagent(c, s)
      PROVE  CatalogOfSelection'
  BY <1>1 DEF CatalogOfSelection, SelectSession, SelectSubagent
<1>2. ASSUME NEW c \in Calls, CallStep(c)
      PROVE  CatalogOfSelection'
  <2>1. CASE SubagentListed(c)
    BY <2>1 DEF SubagentListed, CatalogOfSelection
  <2>2. CASE SubagentFails(c) \/ TimerFires(c) \/ ModelsLoaded(c)
    BY <2>2 DEF SubagentFails, TimerFires, ModelsLoaded, CatalogOfSelection
  <2>3. CASE CatalogsLoaded(c)
    BY <2>3 DEF CatalogsLoaded, IsCurrentSelection, CatalogOfSelection
  <2> QED
    BY <1>2, <2>1, <2>2, <2>3 DEF CallStep
<1>3. CASE FollowIdles \/ FollowOpens \/ FollowLost \/ OtherStreamLost
  BY <1>3 DEF FollowIdles, FollowOpens, FollowLost, OtherStreamLost, selectionVars,
     CatalogOfSelection
<1>4. CASE HandleFrame
  BY <1>4 DEF HandleFrame, HandleSnapshot, HandleGap, HandleEvent, selectionVars,
     CatalogOfSelection
<1>5. ASSUME NEW k \in Callers, RepairStep(k)
      PROVE  CatalogOfSelection'
  BY <1>5 DEF RepairStep, RepairStarts, RepairReads, RepairLands, RepairFails,
     selectionVars, CatalogOfSelection
<1>6. CASE LoadOlder \/ OlderStep
  BY <1>6 DEF LoadOlder, OlderStep, OlderLands, OlderFails, selectionVars,
     CatalogOfSelection
<1>7. ASSUME NEW s \in Sessions, HostAppends(s)
      PROVE  CatalogOfSelection'
  BY <1>7 DEF HostAppends, selectionVars, CatalogOfSelection
<1>8. CASE UNCHANGED vars
  BY <1>8 DEF vars, selectionVars, CatalogOfSelection
<1> QED
  BY <1>1, <1>2, <1>3, <1>4, <1>5, <1>6, <1>7, <1>8 DEF Next

-----------------------------------------------------------------------------
(* The wire and the log.                                                    *)

(* A repair leaves an open stream as it is.                                 *)
LEMMA RepairFollow ==
  ASSUME TypeOK, NEW k \in Callers, RepairStep(k)
  PROVE  /\ follow'.phase = "open" => follow' = follow
         /\ UNCHANGED <<active, cursor, older, log>>
<1>1. follow \in Follow
  BY DEF TypeOK
<1>2. ASSUME Repaired(k)
      PROVE  follow'.phase = "open" => follow' = follow
  <2>1. CASE k = "follow"
    BY <1>1, <1>2, <2>1 DEF Repaired, Follow
  <2>2. CASE k # "follow"
    BY <1>2, <2>2 DEF Repaired
  <2> QED
    BY <2>1, <2>2
<1>3. follow' = follow \/ Repaired(k)
  BY DEF RepairStep, RepairStarts, RepairReads, RepairLands, RepairFails
<1>4. UNCHANGED <<active, cursor, older, log>>
  BY DEF RepairStep, RepairStarts, RepairReads, RepairLands, RepairFails,
     selectionVars, transcriptVars
<1> QED
  BY <1>2, <1>3, <1>4

(* A select call aborts the open stream or leaves it and the selection.     *)
LEMMA CallFollow ==
  ASSUME TypeOK, NEW c \in Calls,
         \/ \E s \in Sessions : SelectSession(c, s) \/ SelectSubagent(c, s)
         \/ CallStep(c)
  PROVE  /\ \/ follow'.phase # "open" /\ entries' = <<>>
            \/ UNCHANGED <<active, follow, transcriptVars>>
         /\ UNCHANGED <<older, log>>
         /\ cursor' = cursor \/ \E s \in Sessions \cup {NoSession} :
                                  cursor' = [cursor EXCEPT ![s] = 0]
<1>1. ASSUME NEW s \in Sessions, SelectSession(c, s)
      PROVE  /\ follow'.phase # "open" /\ entries' = <<>>
             /\ UNCHANGED <<older, log, cursor>>
  BY <1>1 DEF SelectSession, AbortFollow, ClearTranscript, NoFollow
<1>2. ASSUME NEW s \in Sessions, SelectSubagent(c, s)
      PROVE  UNCHANGED <<active, follow, transcriptVars, older, log, cursor>>
  BY <1>2 DEF SelectSubagent, transcriptVars
<1>3. CASE SubagentListed(c)
  <2>1. CASE calls[c].generation = generation
    <3>1. follow'.phase # "open" /\ entries' = <<>> /\ UNCHANGED <<older, log>>
      BY <1>3, <2>1 DEF SubagentListed, AbortFollow, ClearTranscript, NoFollow
    <3>2. cursor' = [cursor EXCEPT ![calls[c].session] = 0]
      BY <1>3, <2>1 DEF SubagentListed
    <3>3. calls[c].session \in Sessions \cup {NoSession}
      BY DEF TypeOK, Call
    <3> QED
      BY <3>1, <3>2, <3>3
  <2>2. CASE calls[c].generation # generation
    BY <1>3, <2>2 DEF SubagentListed, transcriptVars
  <2> QED
    BY <2>1, <2>2
<1>4. CASE SubagentFails(c) \/ TimerFires(c) \/ ModelsLoaded(c) \/ CatalogsLoaded(c)
  BY <1>4 DEF SubagentFails, TimerFires, ModelsLoaded, CatalogsLoaded, transcriptVars
<1> QED
  BY <1>1, <1>2, <1>3, <1>4 DEF CallStep

(* Handling a frame takes it off the wire, and its place there gives its    *)
(* seq.                                                                     *)
LEMMA FrameFollow ==
  ASSUME TypeOK, Shape, WireIsTail, HandleFrame
  PROVE  /\ follow.phase = "open" /\ follow'.phase = "open"
         /\ follow.session = active /\ active \in Sessions
         /\ UNCHANGED <<active, older, log, disturbed>>
         /\ follow.wire \in Seq(Frame) /\ follow'.wire \in Seq(Frame)
         /\ Len(follow.wire) \in Nat \ {0} /\ Len(follow'.wire) = Len(follow.wire) - 1
         /\ \A i \in 1..Len(follow'.wire) : follow'.wire[i] = follow.wire[i + 1]
         /\ Head(follow.wire) = follow.wire[1]
         /\ follow.wire[1].seq = log[active] - Len(follow'.wire)
         /\ follow.wire[1].seq <= log[active] /\ follow.wire[1].seq \in 1..MaxSeq
<1>1. /\ follow.phase = "open" /\ follow.wire # <<>> /\ follow \in Follow
      /\ follow' = [follow EXCEPT !.wire = Tail(@)]
      /\ follow.session = active /\ active \in Sessions /\ log[active] \in 1..MaxSeq
  BY DEF TypeOK, Shape, HandleFrame, HandleSnapshot, HandleGap, HandleEvent, Handles
<1>2. follow.wire \in Seq(Frame) /\ follow'.wire = Tail(follow.wire)
      /\ follow'.phase = "open"
  BY <1>1 DEF Follow
<1>3. /\ follow'.wire \in Seq(Frame)
      /\ Len(follow.wire) \in Nat \ {0} /\ Len(follow'.wire) = Len(follow.wire) - 1
      /\ \A i \in 1..Len(follow'.wire) : follow'.wire[i] = follow.wire[i + 1]
      /\ Head(follow.wire) = follow.wire[1]
  BY <1>1, <1>2, HeadTailProperties, EmptySeq
<1>4. 1 \in DOMAIN follow.wire /\ 1 \in 1..Len(follow.wire)
  BY <1>2, <1>3, LenProperties
<1>5. follow.wire[1] \in Frame
  BY <1>2, <1>4, ElementOfSeq
<1>6. follow.wire[1].seq = log[active] - Len(follow.wire) + 1
  BY <1>1, <1>4 DEF WireIsTail
<1>7. UNCHANGED <<active, older, log, disturbed>>
  BY DEF HandleFrame, HandleSnapshot, HandleGap, HandleEvent, selectionVars,
     transcriptVars
<1>8. follow.wire[1].seq \in 1..MaxSeq
  BY <1>5 DEF Frame
<1>9. log[active] \in Int
  BY <1>1, ViewAssumption
<1>10. follow.wire[1].seq = log[active] - Len(follow'.wire)
       /\ follow.wire[1].seq <= log[active]
  BY <1>3, <1>6, <1>9
<1> QED
  BY <1>1, <1>2, <1>3, <1>7, <1>8, <1>10

(* An append to the followed session extends the wire by the next event.    *)
LEMMA HostFollow ==
  ASSUME TypeOK, Shape, WireIsTail, NEW s \in Sessions, HostAppends(s)
  PROVE  /\ log' \in [Sessions -> 1..MaxSeq]
         /\ \A x \in Sessions : log'[x] \in Nat /\ log[x] \in Nat /\ log[x] <= log'[x]
         /\ follow'.phase = follow.phase
         /\ follow.phase = "open" =>
              /\ active \in Sessions
              /\ follow.wire \in Seq(Frame) /\ follow'.wire \in Seq(Frame)
              /\ log'[active] - Len(follow'.wire) = log[active] - Len(follow.wire)
              /\ Len(follow.wire) <= Len(follow'.wire)
              /\ \A i \in 1..Len(follow.wire) : follow'.wire[i] = follow.wire[i]
              /\ \A i \in 1..Len(follow'.wire) :
                   i \notin 1..Len(follow.wire) =>
                     /\ follow'.wire[i].type = "event"
                     /\ follow'.wire[i].seq = log[active] - Len(follow.wire) + i
<1>1. /\ log' \in [Sessions -> 1..MaxSeq] /\ log'[s] = log[s] + 1
      /\ \A x \in Sessions : x # s => log'[x] = log[x]
      /\ follow'.phase = follow.phase
  BY TypesOfHost
<1>2. \A x \in Sessions : log[x] \in 1..MaxSeq /\ log'[x] \in 1..MaxSeq
  BY <1>1 DEF TypeOK
<1>3. \A x \in Sessions : log'[x] \in Nat /\ log[x] \in Nat /\ log[x] <= log'[x]
  BY <1>1, <1>2, ViewAssumption
<1>4. ASSUME follow.phase = "open"
      PROVE  /\ active \in Sessions
             /\ follow.wire \in Seq(Frame) /\ follow'.wire \in Seq(Frame)
             /\ log'[active] - Len(follow'.wire) = log[active] - Len(follow.wire)
             /\ Len(follow.wire) <= Len(follow'.wire)
             /\ \A i \in 1..Len(follow.wire) : follow'.wire[i] = follow.wire[i]
             /\ \A i \in 1..Len(follow'.wire) :
                  i \notin 1..Len(follow.wire) =>
                    /\ follow'.wire[i].type = "event"
                    /\ follow'.wire[i].seq = log[active] - Len(follow.wire) + i
  <2>1. /\ follow \in Follow /\ follow.session = active /\ active \in Sessions
        /\ follow.wire \in Seq(Frame)
    BY <1>4 DEF TypeOK, Shape, Follow
  <2>2. Len(follow.wire) \in Nat /\ DOMAIN follow.wire = 1..Len(follow.wire)
    BY <2>1, LenProperties
  <2>3. CASE active = s
    <3> DEFINE f == [type |-> "event", seq |-> log[s] + 1]
    <3>1. f \in Frame
      BY <1>1, <1>2 DEF Frame
    <3>2. follow' = [follow EXCEPT !.wire = Append(@, f)]
      BY <1>4, <2>1, <2>3 DEF HostAppends
    <3>3. follow'.wire = Append(follow.wire, f)
      BY <2>1, <3>2 DEF Follow
    <3>4. /\ follow'.wire \in Seq(Frame) /\ Len(follow'.wire) = Len(follow.wire) + 1
          /\ \A i \in 1..Len(follow.wire) : follow'.wire[i] = follow.wire[i]
          /\ follow'.wire[Len(follow.wire) + 1] = f
      BY <2>1, <3>1, <3>3, AppendProperties
    <3>5. f.type = "event" /\ f.seq = log[active] - Len(follow.wire) + (Len(follow.wire) + 1)
      BY <1>3, <2>1, <2>2, <2>3
    <3> HIDE DEF f
    <3>6. log'[active] - Len(follow'.wire) = log[active] - Len(follow.wire)
      <4>1. log'[active] = log[active] + 1 /\ log[active] \in Nat
        BY <1>1, <1>3, <2>1, <2>3
      <4>2. Len(follow'.wire) = Len(follow.wire) + 1 /\ Len(follow.wire) \in Nat
        BY <2>2, <3>4
      <4> QED
        BY <4>1, <4>2
    <3>7. \A i \in 1..Len(follow'.wire) :
            i \notin 1..Len(follow.wire) => i = Len(follow.wire) + 1
      BY <2>2, <3>4
    <3>8. Len(follow.wire) <= Len(follow'.wire)
      BY <2>2, <3>4
    <3> QED
      BY <2>1, <3>4, <3>5, <3>6, <3>7, <3>8
  <2>4. CASE active # s
    <3>1. follow' = follow /\ log'[active] = log[active]
      BY <1>1, <2>1, <2>4 DEF HostAppends
    <3> QED
      BY <2>1, <2>2, <3>1
  <2> QED
    BY <2>3, <2>4
<1> QED
  BY <1>1, <1>3, <1>4

(* Cursors and pages stay within the log.                                   *)
LEMMA WithinLogInductive ==
  ASSUME TypeOK, Shape, WireIsTail, WithinLog, [Next]_vars
  PROVE  WithinLog'
<1>1. ASSUME UNCHANGED <<cursor, older, log>>
      PROVE  WithinLog'
  BY <1>1 DEF WithinLog, NoOlder
<1>2. \A s \in Sessions : log[s] \in Nat /\ log[s] >= 0 /\ cursor[s] \in Cursor
  BY ViewAssumption DEF TypeOK
<1>3. ASSUME NEW c \in Calls,
             \/ \E s \in Sessions : SelectSession(c, s) \/ SelectSubagent(c, s)
             \/ CallStep(c)
      PROVE  WithinLog'
  <2>1. UNCHANGED <<older, log>>
    BY <1>3, CallFollow
  <2>2. \A s \in Sessions : cursor'[s] = cursor[s] \/ cursor'[s] = 0
    <3>1. cursor' = cursor \/ \E s \in Sessions \cup {NoSession} :
                                cursor' = [cursor EXCEPT ![s] = 0]
      BY <1>3, CallFollow
    <3> QED
      BY <3>1 DEF TypeOK
  <2> QED
    BY <1>2, <2>1, <2>2 DEF WithinLog, NoOlder
<1>4. CASE FollowIdles \/ FollowOpens \/ FollowLost \/ OtherStreamLost
  BY <1>1, <1>4 DEF FollowIdles, FollowOpens, FollowLost, OtherStreamLost,
     transcriptVars
<1>5. CASE HandleFrame
  <2>1. CASE HandleSnapshot
    <3>1. /\ follow.session = active /\ active \in Sessions /\ UNCHANGED <<older, log>>
          /\ Head(follow.wire).seq <= log[active]
      BY <1>5, FrameFollow
    <3>2. cursor' = [cursor EXCEPT ![active] = Head(follow.wire).seq]
      BY <2>1, <3>1 DEF HandleSnapshot
    <3>3. \A s \in Sessions : \/ cursor'[s] = cursor[s]
                              \/ s = active /\ cursor'[s] = Head(follow.wire).seq
      BY <3>2 DEF TypeOK
    <3> QED
      BY <3>1, <3>3 DEF WithinLog, NoOlder
  <2>2. CASE HandleGap \/ HandleEvent
    BY <1>1, <2>2 DEF HandleGap, HandleEvent, transcriptVars
  <2> QED
    BY <1>5, <2>1, <2>2 DEF HandleFrame
<1>6. ASSUME NEW k \in Callers, RepairStep(k)
      PROVE  WithinLog'
  BY <1>1, <1>6, RepairFollow
<1>7. CASE LoadOlder
  <2>1. /\ active \in Sessions /\ UNCHANGED <<cursor, log>>
        /\ older'.session = active
        /\ older'.through = IF cursor[active] = NoSession THEN 0 ELSE cursor[active]
    BY <1>7 DEF LoadOlder, transcriptVars, TypeOK
  <2>2. older'.through <= log[active]
    BY <1>2, <2>1 DEF WithinLog
  <2> QED
    BY <2>1, <2>2 DEF WithinLog
<1>8. CASE OlderStep
  BY <1>8 DEF OlderStep, OlderLands, OlderFails, transcriptVars, WithinLog, NoOlder
<1>9. ASSUME NEW s \in Sessions, HostAppends(s)
      PROVE  WithinLog'
  <2>1. UNCHANGED <<cursor, older>>
    BY <1>9 DEF HostAppends, transcriptVars
  <2>2. \A x \in Sessions : log'[x] \in Nat /\ log[x] \in Nat /\ log[x] <= log'[x]
    BY <1>9, HostFollow
  <2>3. \A x \in Sessions : cursor[x] # NoSession => cursor[x] \in Nat
    BY DEF TypeOK, Cursor
  <2>4. older # NoOlder => older.session \in Sessions /\ older.through \in Nat
    BY DEF TypeOK, Shape, Older
  <2> QED
    BY <2>1, <2>2, <2>3, <2>4 DEF WithinLog, NoOlder
<1>10. CASE UNCHANGED vars
  BY <1>1, <1>10 DEF vars, transcriptVars
<1> QED
  BY <1>3, <1>4, <1>5, <1>6, <1>7, <1>8, <1>9, <1>10 DEF Next

(* The wire stays the end of the log.                                       *)
LEMMA WireIsTailInductive ==
  ASSUME TypeOK, Shape, WireIsTail, [Next]_vars
  PROVE  WireIsTail'
<1>1. ASSUME UNCHANGED <<active, follow, log>>
      PROVE  WireIsTail'
  BY <1>1 DEF WireIsTail
<1>2. ASSUME follow'.phase # "open"
      PROVE  WireIsTail'
  BY <1>2 DEF WireIsTail
<1>3. ASSUME NEW c \in Calls,
             \/ \E s \in Sessions : SelectSession(c, s) \/ SelectSubagent(c, s)
             \/ CallStep(c)
      PROVE  WireIsTail'
  BY <1>1, <1>2, <1>3, CallFollow
<1>4. CASE FollowIdles \/ FollowLost
  BY <1>2, <1>4 DEF FollowIdles, FollowLost, NoFollow
<1>5. CASE OtherStreamLost \/ LoadOlder \/ OlderStep
  BY <1>1, <1>5 DEF OtherStreamLost, LoadOlder, OlderStep, OlderLands, OlderFails,
     selectionVars
<1>6. CASE FollowOpens
  <2>1. /\ follow'.wire = <<[type |-> "snapshot", seq |-> log[active]]>>
        /\ UNCHANGED <<active, log>>
    BY <1>6 DEF FollowOpens, selectionVars
  <2>2. log[active] \in Nat
    BY <1>6, ViewAssumption DEF FollowOpens, TypeOK
  <2>3. /\ DOMAIN follow'.wire = {1} /\ Len(follow'.wire) = 1
        /\ follow'.wire[1].seq = log[active]
    BY <2>1
  <2> QED
    BY <2>1, <2>2, <2>3 DEF WireIsTail
<1>7. CASE HandleFrame
  <2>1. /\ UNCHANGED <<active, log>> /\ active \in Sessions
        /\ follow.phase = "open"
        /\ follow.wire \in Seq(Frame) /\ follow'.wire \in Seq(Frame)
        /\ Len(follow.wire) \in Nat \ {0} /\ Len(follow'.wire) = Len(follow.wire) - 1
        /\ \A i \in 1..Len(follow'.wire) : follow'.wire[i] = follow.wire[i + 1]
    BY <1>7, FrameFollow
  <2>2. log[active] \in Nat
    BY <2>1, ViewAssumption DEF TypeOK
  <2>3. /\ DOMAIN follow.wire = 1..Len(follow.wire)
        /\ DOMAIN follow'.wire = 1..Len(follow'.wire)
    BY <2>1, LenProperties
  <2>4. ASSUME NEW i \in 1..Len(follow'.wire)
        PROVE  /\ follow'.wire[i].seq = log[active] - Len(follow'.wire) + i
               /\ i > 1 => follow'.wire[i].type = "event"
    <3>1. i + 1 \in 1..Len(follow.wire) /\ i + 1 > 1
      BY <2>1
    <3>2. PICK j \in 1..Len(follow.wire) : j = i + 1
      BY <3>1
    <3>3. /\ follow.wire[j].seq = log[active] - Len(follow.wire) + j
          /\ follow.wire[j].type = "event"
      BY <2>1, <2>3, <3>1, <3>2 DEF WireIsTail
    <3>4. log[active] - Len(follow.wire) + j = log[active] - Len(follow'.wire) + i
      <4>1. /\ Len(follow.wire) \in Nat /\ Len(follow'.wire) = Len(follow.wire) - 1
            /\ i \in Nat /\ j = i + 1
        BY <2>1, <3>2
      <4> DEFINE a == log[active]
                 b == Len(follow.wire)
                 c == Len(follow'.wire)
      <4> HIDE DEF a, b, c
      <4>2. a \in Nat /\ b \in Nat /\ c = b - 1 /\ i \in Nat /\ j = i + 1
        BY <2>2, <4>1 DEF a, b, c
      <4>3. a - b + j = a - c + i
        BY <4>2
      <4> QED
        BY <4>3 DEF a, b, c
    <3>5. follow'.wire[i] = follow.wire[j]
      BY <2>1, <3>2
    <3> QED
      BY <3>3, <3>4, <3>5
  <2> QED
    BY <2>1, <2>3, <2>4 DEF WireIsTail
<1>8. ASSUME NEW k \in Callers, RepairStep(k)
      PROVE  WireIsTail'
  BY <1>1, <1>2, <1>8, RepairFollow
<1>9. ASSUME NEW s \in Sessions, HostAppends(s)
      PROVE  WireIsTail'
  <2>1. CASE follow.phase = "open"
    <3>1. /\ active \in Sessions
          /\ follow.wire \in Seq(Frame) /\ follow'.wire \in Seq(Frame)
          /\ log'[active] - Len(follow'.wire) = log[active] - Len(follow.wire)
          /\ \A i \in 1..Len(follow.wire) : follow'.wire[i] = follow.wire[i]
          /\ \A i \in 1..Len(follow'.wire) :
               i \notin 1..Len(follow.wire) =>
                 /\ follow'.wire[i].type = "event"
                 /\ follow'.wire[i].seq = log[active] - Len(follow.wire) + i
      BY <1>9, <2>1, HostFollow
    <3>2. active' = active
      BY <1>9 DEF HostAppends, selectionVars
    <3>3. /\ DOMAIN follow.wire = 1..Len(follow.wire)
          /\ DOMAIN follow'.wire = 1..Len(follow'.wire)
      BY <3>1, LenProperties
    <3>4. ASSUME NEW i \in 1..Len(follow'.wire)
          PROVE  /\ follow'.wire[i].seq = log'[active] - Len(follow'.wire) + i
                 /\ i > 1 => follow'.wire[i].type = "event"
      <4>1. CASE i \in 1..Len(follow.wire)
        <5>1. /\ follow.wire[i].seq = log[active] - Len(follow.wire) + i
              /\ i > 1 => follow.wire[i].type = "event"
          BY <2>1, <3>3, <4>1 DEF WireIsTail
        <5> QED
          BY <3>1, <4>1, <5>1
      <4>2. CASE i \notin 1..Len(follow.wire)
        BY <3>1, <4>2
      <4> QED
        BY <4>1, <4>2
    <3> QED
      BY <3>2, <3>3, <3>4 DEF WireIsTail
  <2>2. CASE follow.phase # "open"
    <3>1. follow'.phase # "open"
      BY <1>9, <2>2, HostFollow
    <3> QED
      BY <1>2, <3>1
  <2> QED
    BY <2>1, <2>2
<1>10. CASE UNCHANGED vars
  BY <1>1, <1>10 DEF vars, selectionVars
<1> QED
  BY <1>3, <1>4, <1>5, <1>6, <1>7, <1>8, <1>9, <1>10 DEF Next

-----------------------------------------------------------------------------
(* The transcript follows the log.                                          *)

(* Nothing overtakes a snapshot that is due.                                *)
LEMMA SnapshotIsNewestInductive ==
  ASSUME TypeOK, Shape, NoDuplicates, WithinLog, WireIsTail, SnapshotIsNewest,
         InOrder, [Next]_vars
  PROVE  SnapshotIsNewest'
<1>1. ASSUME UNCHANGED <<active, follow, transcriptVars, older>>
      PROVE  SnapshotIsNewest'
  BY <1>1 DEF SnapshotIsNewest, SnapshotDue, transcriptVars, NoOlder
<1>2. ASSUME follow'.phase # "open"
      PROVE  SnapshotIsNewest'
  BY <1>2 DEF SnapshotIsNewest, SnapshotDue
<1>3. ASSUME NEW c \in Calls,
             \/ \E s \in Sessions : SelectSession(c, s) \/ SelectSubagent(c, s)
             \/ CallStep(c)
      PROVE  SnapshotIsNewest'
  BY <1>1, <1>2, <1>3, CallFollow
<1>4. CASE FollowIdles \/ FollowLost
  BY <1>2, <1>4 DEF FollowIdles, FollowLost, NoFollow
<1>5. CASE OtherStreamLost \/ OlderFails
  <2>1. UNCHANGED <<active, follow, transcriptVars>>
    BY <1>5 DEF OtherStreamLost, OlderFails, selectionVars
  <2>2. older' = older \/ older' = NoOlder
    BY <1>5 DEF OtherStreamLost, OlderFails
  <2> QED
    BY <2>1, <2>2 DEF SnapshotIsNewest, SnapshotDue, transcriptVars, NoOlder
<1>6. CASE FollowOpens
  <2>1. /\ active \in Sessions /\ follow'.wire[1].seq = log[active]
        /\ UNCHANGED <<active, transcriptVars, older>>
    BY <1>6 DEF FollowOpens, TypeOK, selectionVars
  <2>2. cursor[active] # NoSession => cursor[active] <= log[active]
    BY <2>1 DEF WithinLog
  <2>3. older # NoOlder /\ older.session = active => older.through <= log[active]
    BY DEF WithinLog
  <2>4. ~disturbed => \A i \in DOMAIN entries : entries[i].seq <= log[active]
    BY <2>1 DEF InOrder
  <2> QED
    BY <2>1, <2>2, <2>3, <2>4 DEF SnapshotIsNewest, transcriptVars, NoOlder
<1>7. CASE HandleFrame
  <2>1. /\ follow.phase = "open"
        /\ follow.wire \in Seq(Frame) /\ follow'.wire \in Seq(Frame)
        /\ Len(follow.wire) \in Nat \ {0} /\ Len(follow'.wire) = Len(follow.wire) - 1
        /\ \A i \in 1..Len(follow'.wire) : follow'.wire[i] = follow.wire[i + 1]
    BY <1>7, FrameFollow
  <2>2. ~SnapshotDue'
    <3> SUFFICES ASSUME follow'.wire # <<>>
                 PROVE  follow'.wire[1].type # "snapshot"
      BY DEF SnapshotDue
    <3>1. Len(follow'.wire) \in Nat \ {0}
      BY <2>1, EmptySeq
    <3>2. follow'.wire[1] = follow.wire[2] /\ 2 \in 1..Len(follow.wire)
      BY <2>1, <3>1
    <3>3. DOMAIN follow.wire = 1..Len(follow.wire)
      BY <2>1, LenProperties
    <3>4. follow.wire[2].type = "event"
      BY <2>1, <3>2, <3>3 DEF WireIsTail
    <3> QED
      BY <3>2, <3>4
  <2> QED
    BY <2>2 DEF SnapshotIsNewest
<1>8. ASSUME NEW k \in Callers, RepairStep(k)
      PROVE  SnapshotIsNewest'
  <2>1. CASE follow'.phase = "open"
    <3>1. UNCHANGED <<active, cursor, older, follow>>
      BY <1>8, <2>1, RepairFollow
    <3>2. disturbed' \/ UNCHANGED <<entries, disturbed>>
      BY <1>8, <2>1, <3>1 DEF RepairStep, RepairStarts, RepairReads, RepairLands,
         RepairFails, transcriptVars
    <3> QED
      BY <3>1, <3>2 DEF SnapshotIsNewest, SnapshotDue, NoOlder
  <2> QED
    BY <1>2, <2>1
<1>9. CASE LoadOlder
  <2>1. /\ UNCHANGED <<active, follow, transcriptVars>> /\ active \in Sessions
        /\ older'.session = active
        /\ older'.through = IF cursor[active] = NoSession THEN 0 ELSE cursor[active]
    BY <1>9 DEF LoadOlder, selectionVars, TypeOK
  <2>2. SnapshotDue => older'.through <= follow.wire[1].seq
    <3> SUFFICES ASSUME SnapshotDue
                 PROVE  older'.through <= follow.wire[1].seq
      OBVIOUS
    <3>1. cursor[active] # NoSession => cursor[active] <= follow.wire[1].seq
      BY DEF SnapshotIsNewest
    <3>2. follow.wire \in Seq(Frame) /\ follow.wire # <<>>
      BY DEF SnapshotDue, TypeOK, Follow
    <3>3. 1 \in 1..Len(follow.wire)
      BY <3>2, EmptySeq
    <3>4. follow.wire[1] \in Frame
      BY <3>2, <3>3, ElementOfSeq
    <3>5. 0 <= follow.wire[1].seq
      BY <3>4, ViewAssumption DEF Frame
    <3> QED
      BY <2>1, <3>1, <3>5
  <2> QED
    BY <2>1, <2>2 DEF SnapshotIsNewest, SnapshotDue, transcriptVars
<1>10. CASE OlderLands
  <2>1. /\ older # NoOlder /\ UNCHANGED <<active, cursor, follow>> /\ older' = NoOlder
        /\ entries' = OlderPrepended(OlderPage)
        /\ disturbed' = (disturbed \/ OlderIsLate)
    BY <1>10 DEF OlderLands, selectionVars
  <2>2. ASSUME SnapshotDue, ~disturbed', NEW i \in DOMAIN entries'
        PROVE  entries'[i].seq <= follow.wire[1].seq
    <3>1. ~disturbed /\ older.session = active
      BY <2>1, <2>2 DEF OlderIsLate
    <3>2. /\ older.through <= follow.wire[1].seq
          /\ \A j \in DOMAIN entries : entries[j].seq <= follow.wire[1].seq
      BY <2>1, <2>2, <3>1 DEF SnapshotIsNewest
    <3>3. /\ OlderPage \in Seq(Entry) /\ Increasing(OlderPage)
          /\ \A j \in 1..Len(OlderPage) : OlderPage[j].seq <= older.through
      BY <2>1, OlderPageProperties
    <3>4. entries' \in Seq(Entry) /\ DOMAIN entries' = 1..Len(entries')
      <4>1. entries' \in Seq(Entry)
        BY <2>1, <3>3, PrependProperties
      <4> QED
        BY <4>1, LenProperties
    <3>5. entries'[i] \in Range(OlderPage) \cup Range(entries)
      BY <2>1, <2>2, <3>3, <3>4, PrependProperties
    <3>6. CASE entries'[i] \in Range(entries)
      BY <3>2, <3>6 DEF Range
    <3>7. CASE entries'[i] \in Range(OlderPage)
      <4>1. DOMAIN OlderPage = 1..Len(OlderPage)
        BY <3>3, LenProperties
      <4>2. PICK j \in 1..Len(OlderPage) : entries'[i] = OlderPage[j]
        BY <3>7, <4>1 DEF Range
      <4>3. OlderPage[j] \in Entry
        BY <3>3, ElementOfSeq
      <4>4. OlderPage[j].seq \in Int /\ older.through \in Int
        BY <4>3, ViewAssumption DEF Entry, TypeOK, Older
      <4>5. follow.wire[1].seq \in Int
        <5>1. follow.wire \in Seq(Frame) /\ follow.wire # <<>>
          BY <2>2 DEF SnapshotDue, TypeOK, Follow
        <5>2. 1 \in 1..Len(follow.wire)
          BY <5>1, EmptySeq
        <5>3. follow.wire[1] \in Frame
          BY <5>1, <5>2, ElementOfSeq
        <5> QED
          BY <5>3, ViewAssumption DEF Frame
      <4>6. OlderPage[j].seq <= older.through
        BY <3>3
      <4> QED
        BY <3>2, <4>2, <4>4, <4>5, <4>6
    <3> QED
      BY <3>5, <3>6, <3>7
  <2> QED
    BY <2>1, <2>2 DEF SnapshotIsNewest, SnapshotDue
<1>11. ASSUME NEW s \in Sessions, HostAppends(s)
       PROVE  SnapshotIsNewest'
  <2>1. UNCHANGED <<active, transcriptVars, older>>
    BY <1>11 DEF HostAppends, selectionVars
  <2>2. ASSUME SnapshotDue'
        PROVE  SnapshotDue /\ follow'.wire[1] = follow.wire[1]
    <3>1. follow.phase = "open" /\ follow'.wire # <<>> /\ follow'.wire[1].type = "snapshot"
      BY <1>11, <2>2, HostFollow DEF SnapshotDue
    <3>2. /\ follow.wire \in Seq(Frame) /\ follow'.wire \in Seq(Frame)
          /\ \A i \in 1..Len(follow.wire) : follow'.wire[i] = follow.wire[i]
          /\ \A i \in 1..Len(follow'.wire) :
               i \notin 1..Len(follow.wire) => follow'.wire[i].type = "event"
      BY <1>11, <3>1, HostFollow
    <3>3. 1 \in 1..Len(follow'.wire)
      BY <3>1, <3>2, EmptySeq
    <3>4. 1 \in 1..Len(follow.wire)
      BY <3>1, <3>2, <3>3
    <3>5. follow.wire # <<>>
      BY <3>4, EmptySeq
    <3> QED
      BY <3>1, <3>2, <3>4, <3>5 DEF SnapshotDue
  <2> QED
    BY <2>1, <2>2 DEF SnapshotIsNewest, transcriptVars, NoOlder
<1>12. CASE UNCHANGED vars
  BY <1>1, <1>12 DEF vars, selectionVars
<1> QED
  BY <1>3, <1>4, <1>5, <1>6, <1>7, <1>8, <1>9, <1>10, <1>11, <1>12 DEF Next, OlderStep

(* The last entry of a transcript in order is the greatest.                 *)
LEMMA LastIsGreatest ==
  ASSUME NEW es \in Seq(Entry), Increasing(es)
  PROVE  \A i \in 1..Len(es) : /\ es[i].seq \in Int /\ es[Len(es)].seq \in Int
                               /\ es[i].seq <= es[Len(es)].seq
                               /\ es[1].seq \in Int /\ es[1].seq <= es[i].seq
<1>1. Len(es) \in Nat /\ DOMAIN es = 1..Len(es)
  BY LenProperties
<1>2. \A i \in 1..Len(es) : es[i].seq \in Int
  <2> TAKE i \in 1..Len(es)
  <2>1. es[i] \in Entry
    BY ElementOfSeq
  <2> QED
    BY <2>1, ViewAssumption DEF Entry
<1> SUFFICES ASSUME NEW i \in 1..Len(es)
             PROVE  /\ es[i].seq \in Int /\ es[Len(es)].seq \in Int
                    /\ es[i].seq <= es[Len(es)].seq
                    /\ es[1].seq \in Int /\ es[1].seq <= es[i].seq
  OBVIOUS
<1>3. Len(es) \in 1..Len(es) /\ 1 \in 1..Len(es)
  BY <1>1
<1>4. i = Len(es) \/ i < Len(es)
  <2>1. \A n \in Nat : \A j \in 1..n : j = n \/ j < n
    OBVIOUS
  <2>2. Len(es) \in Nat
    BY <1>1
  <2> QED
    BY <2>1, <2>2, Zenon
<1>5. i < Len(es) => es[i].seq < es[Len(es)].seq
  BY <1>1, <1>3 DEF Increasing
<1>6. i = 1 \/ 1 < i
  BY <1>1
<1>7. 1 < i => es[1].seq < es[i].seq
  BY <1>1, <1>3 DEF Increasing
<1> QED
  BY <1>2, <1>3, <1>4, <1>5, <1>6, <1>7

(* After the snapshot is merged the transcript ends where the snapshot ends.*)
LEMMA SnapshotInOrder ==
  ASSUME TypeOK, Shape, NoDuplicates, WireIsTail, SnapshotIsNewest, InOrder,
         HandleSnapshot
  PROVE  InOrder'
<1> DEFINE top == Head(follow.wire).seq
           page == Records(active, top)
           m == MergeHistory(page, entries)
<1>1. /\ page \in Seq(Entry) /\ Increasing(page) /\ entries' = m
      /\ active \in Sessions /\ top \in 1..MaxSeq
      /\ OnceEach(entries) /\ entries \in Seq(Entry)
  BY SnapshotProperties
<1>2. HandleFrame
  BY DEF HandleFrame
<1>3. /\ follow.phase = "open" /\ UNCHANGED <<active, log, disturbed>>
      /\ follow.wire \in Seq(Frame) /\ Len(follow.wire) \in Nat \ {0}
      /\ Head(follow.wire) = follow.wire[1]
      /\ top = log[active] - Len(follow'.wire) /\ top <= log[active]
  BY <1>2, FrameFollow
<1>4. log[active] \in 1..MaxSeq
  BY <1>1 DEF TypeOK
<1>5. top \in 1..log[active] /\ top \in 0..MaxSeq
  BY <1>1, <1>3, <1>4, ViewAssumption
<1>6. /\ \A i \in 1..Len(page) : page[i].seq <= top
      /\ page # <<>> /\ page[Len(page)].seq = top
  BY <1>1, <1>5, RecordsProperties
<1> HIDE DEF page, top
<1>7. /\ m \in Seq(Entry) /\ Increasing(m)
      /\ Range(m) \subseteq Range(entries) \cup Range(page)
      /\ \A e \in Range(page) : \E d \in Range(m) : d.seq = e.seq
  BY <1>1, MergeProperties
<1>8. SnapshotDue
  BY <1>3, EmptySeq DEF SnapshotDue, HandleSnapshot, Handles
<1> HIDE DEF m
<1> SUFFICES ASSUME ~disturbed
             PROVE  /\ Increasing(m)
                    /\ \A i \in DOMAIN m : m[i].seq <= log[active]
                    /\ m # <<>> /\ m[Len(m)].seq = log[active] - Len(follow'.wire)
  BY <1>1, <1>3 DEF InOrder
<1>9. \A i \in DOMAIN entries : entries[i].seq <= top
  BY <1>3, <1>8 DEF SnapshotIsNewest, top
<1>10. \A e \in Range(m) : e.seq <= top
  <2>1. \A e \in Range(entries) : e.seq <= top
    BY <1>9 DEF Range
  <2>2. \A e \in Range(page) : e.seq <= top
    <3>1. DOMAIN page = 1..Len(page)
      BY <1>1, LenProperties
    <3> QED
      BY <1>6, <3>1 DEF Range
  <2> QED
    BY <1>7, <2>1, <2>2
<1>11. /\ Len(m) \in Nat /\ DOMAIN m = 1..Len(m)
       /\ Len(page) \in Nat /\ DOMAIN page = 1..Len(page)
  BY <1>1, <1>7, LenProperties
<1>12. Len(page) \in 1..Len(page)
  BY <1>1, <1>6, EmptySeq
<1>13. page[Len(page)] \in Range(page)
  BY <1>11, <1>12 DEF Range
<1>14. PICK d \in Range(m) : d.seq = top
  BY <1>6, <1>7, <1>13
<1>15. PICK i \in 1..Len(m) : m[i].seq = top
  BY <1>11, <1>14 DEF Range
<1>16. Len(m) \in 1..Len(m) /\ m # <<>>
  BY <1>7, <1>11, <1>15, EmptySeq
<1>17. m[Len(m)].seq \in Int /\ top <= m[Len(m)].seq
  BY <1>7, <1>15, LastIsGreatest
<1>18. m[Len(m)].seq <= top
  BY <1>10, <1>11, <1>16 DEF Range
<1>19. m[Len(m)].seq = top
  BY <1>1, <1>17, <1>18
<1>20. \A j \in DOMAIN m : m[j].seq <= log[active]
  <2> SUFFICES ASSUME NEW j \in 1..Len(m)
               PROVE  m[j].seq <= log[active]
    BY <1>11
  <2>1. m[j].seq <= top
    BY <1>10, <1>11 DEF Range
  <2>2. m[j].seq \in Int
    BY <1>7, LastIsGreatest
  <2> QED
    BY <1>1, <1>3, <1>4, <2>1, <2>2, ViewAssumption
<1> QED
  BY <1>3, <1>7, <1>16, <1>19, <1>20

(* An event on the wire of an undisturbed view is the next one.             *)
LEMMA EventIsNext ==
  ASSUME TypeOK, Shape, WireIsTail, InOrder, ~disturbed,
         HandleGap \/ HandleEvent
  PROVE  /\ entries # <<>> /\ Increasing(entries)
         /\ Head(follow.wire).seq = entries[Len(entries)].seq + 1
         /\ entries[Len(entries)].seq \in Int
<1>1. HandleFrame
  BY DEF HandleFrame
<1>2. /\ follow.phase = "open" /\ active \in Sessions
      /\ follow.wire \in Seq(Frame) /\ Len(follow.wire) \in Nat \ {0}
      /\ Len(follow'.wire) = Len(follow.wire) - 1
      /\ Head(follow.wire) = follow.wire[1]
      /\ follow.wire[1].seq = log[active] - Len(follow'.wire)
  BY <1>1, FrameFollow
<1>3. ~SnapshotDue
  BY <1>2 DEF HandleGap, HandleEvent, Handles, SnapshotDue
<1>4. /\ entries # <<>> /\ Increasing(entries)
      /\ entries[Len(entries)].seq = log[active] - Len(follow.wire)
  BY <1>2, <1>3 DEF InOrder
<1>5. log[active] \in Int
  BY <1>2, ViewAssumption DEF TypeOK
<1> QED
  BY <1>2, <1>4, <1>5

(* An event extends an undisturbed transcript by one.                       *)
LEMMA EventInOrder ==
  ASSUME TypeOK, Shape, WireIsTail, InOrder, HandleGap \/ HandleEvent
  PROVE  InOrder'
<1> SUFFICES ASSUME ~disturbed
             PROVE  InOrder'
  <2>1. disturbed' = disturbed
    BY DEF HandleGap, HandleEvent, transcriptVars
  <2> QED
    BY <2>1 DEF InOrder
<1> DEFINE last == entries[Len(entries)]
           e == [session |-> follow.session, seq |-> Head(follow.wire).seq]
<1>1. HandleFrame
  BY DEF HandleFrame
<1>2. /\ UNCHANGED <<active, log, disturbed>> /\ active \in Sessions
      /\ follow.session = active
      /\ Head(follow.wire) = follow.wire[1]
      /\ follow.wire[1].seq = log[active] - Len(follow'.wire)
      /\ follow.wire[1].seq <= log[active]
      /\ follow.wire[1].seq \in 1..MaxSeq
  BY <1>1, FrameFollow
<1>3. /\ entries # <<>> /\ Increasing(entries) /\ entries \in Seq(Entry)
      /\ Head(follow.wire).seq = last.seq + 1 /\ last.seq \in Int
  BY EventIsNext DEF TypeOK
<1>4. Len(entries) \in Nat \ {0} /\ DOMAIN entries = 1..Len(entries)
  BY <1>3, EmptySeq, LenProperties
<1>5. \A i \in 1..Len(entries) : /\ entries[i].seq \in Int
                                 /\ entries[i].seq <= last.seq
  BY <1>3, LastIsGreatest
<1>6. CASE HandleGap
  <2>1. Last(entries) = last
    BY <1>3 DEF Last
  <2>2. IsGap(Head(follow.wire).seq)
    BY <1>6 DEF HandleGap
  <2> HIDE DEF last
  <2>3. Head(follow.wire).seq > last.seq + 1
    BY <2>1, <2>2 DEF IsGap
  <2> QED
    BY <1>3, <2>3
<1>7. CASE HandleEvent
  <2>1. e.seq \notin Seqs(entries)
    <3> SUFFICES ASSUME NEW i \in 1..Len(entries), entries[i].seq = e.seq
                 PROVE  FALSE
      BY <1>4 DEF Seqs
    <3> QED
      BY <1>3, <1>5
  <2>2. entries' = Append(entries, e)
    BY <1>7, <2>1, EventProperties
  <2>3. e \in Entry /\ e.seq = last.seq + 1
    BY <1>2, <1>3 DEF Entry
  <2> HIDE DEF e
  <2>4. /\ entries' \in Seq(Entry) /\ Len(entries') = Len(entries) + 1
        /\ \A i \in 1..Len(entries) : entries'[i] = entries[i]
        /\ entries'[Len(entries) + 1] = e
    BY <1>3, <2>2, <2>3, AppendProperties
  <2>5. DOMAIN entries' = 1..(Len(entries) + 1) /\ entries' # <<>>
    BY <1>4, <2>4, LenProperties, EmptySeq
  <2>6. Increasing(entries')
    <3> SUFFICES ASSUME NEW i \in 1..(Len(entries) + 1), NEW j \in 1..(Len(entries) + 1),
                        i < j
                 PROVE  entries'[i].seq < entries'[j].seq
      BY <2>5 DEF Increasing
    <3>1. i \in 1..Len(entries)
      BY <1>4
    <3>2. CASE j \in 1..Len(entries)
      BY <1>3, <1>4, <2>4, <3>1, <3>2 DEF Increasing
    <3>3. CASE j = Len(entries) + 1
      BY <1>3, <1>5, <2>3, <2>4, <3>1, <3>3
    <3> QED
      BY <1>4, <3>2, <3>3
  <2>7. e.seq <= log[active] /\ e.seq = log[active] - Len(follow'.wire)
    BY <1>2, <1>3, <2>3
  <2>8. \A i \in DOMAIN entries' : entries'[i].seq <= log[active]
    <3> SUFFICES ASSUME NEW i \in 1..(Len(entries) + 1)
                 PROVE  entries'[i].seq <= log[active]
      BY <2>5
    <3>1. CASE i \in 1..Len(entries)
      BY <1>2, <1>4, <2>4, <3>1 DEF InOrder
    <3>2. CASE i = Len(entries) + 1
      BY <2>4, <2>7, <3>2
    <3> QED
      BY <1>4, <3>1, <3>2
  <2> QED
    BY <1>2, <2>4, <2>5, <2>6, <2>7, <2>8 DEF InOrder
<1> QED
  BY <1>6, <1>7

(* A page that is not late goes before what is on screen.                   *)
LEMMA OlderInOrder ==
  ASSUME TypeOK, Shape, NoDuplicates, WithinLog, InOrder, OlderLands
  PROVE  InOrder'
<1>1. /\ older # NoOlder /\ UNCHANGED <<active, cursor, follow, log>>
      /\ entries' = OlderPrepended(OlderPage)
      /\ disturbed' = (disturbed \/ OlderIsLate)
  BY DEF OlderLands, selectionVars
<1> SUFFICES ASSUME ~disturbed, ~OlderIsLate
             PROVE  InOrder'
  BY <1>1 DEF InOrder
<1>2. /\ older.session = active /\ active \in Sessions
      /\ older.before \in Int /\ older.through \in Int
      /\ entries # <<>> => ~(Head(entries).seq < older.before)
  BY <1>1, ViewAssumption DEF OlderIsLate, Shape, TypeOK, Older
<1>3. /\ OlderPage \in Seq(Entry) /\ Increasing(OlderPage)
      /\ \A i \in 1..Len(OlderPage) : /\ OlderPage[i].seq < older.before
                                      /\ OlderPage[i].seq <= older.through
  BY <1>1, OlderPageProperties
<1>4. /\ entries \in Seq(Entry) /\ Increasing(entries)
      /\ \A i \in DOMAIN entries : entries[i].seq <= log[active]
      /\ older.through <= log[active] /\ log[active] \in Int
  BY <1>1, <1>2, ViewAssumption DEF InOrder, WithinLog, TypeOK
<1>5. ASSUME NEW d \in Range(OlderPage)
      PROVE  d.seq \in Int /\ d.seq < older.before /\ d.seq <= log[active]
  <2>1. DOMAIN OlderPage = 1..Len(OlderPage)
    BY <1>3, LenProperties
  <2>2. PICK j \in 1..Len(OlderPage) : d = OlderPage[j]
    BY <2>1 DEF Range
  <2>3. OlderPage[j].seq \in Int
    BY <1>3, LastIsGreatest
  <2>4. OlderPage[j].seq < older.before /\ OlderPage[j].seq <= older.through
    BY <1>3
  <2> QED
    BY <1>2, <1>4, <2>2, <2>3, <2>4
<1>6. \A d \in Range(OlderPage), e \in Range(entries) : d.seq < e.seq
  <2> SUFFICES ASSUME NEW d \in Range(OlderPage), NEW e \in Range(entries)
               PROVE  d.seq < e.seq
    OBVIOUS
  <2>1. DOMAIN entries = 1..Len(entries) /\ Len(entries) \in Nat
    BY <1>4, LenProperties
  <2>2. PICK j \in 1..Len(entries) : e = entries[j]
    BY <2>1 DEF Range
  <2>3. entries # <<>>
    BY <1>4, <2>1, <2>2, EmptySeq
  <2>4. Head(entries) = entries[1]
    BY <1>4, <2>3, HeadTailProperties
  <2>5. entries[1].seq \in Int /\ entries[j].seq \in Int /\ entries[1].seq <= entries[j].seq
    BY <1>4, LastIsGreatest
  <2> QED
    BY <1>2, <1>5, <2>2, <2>3, <2>4, <2>5
<1>7. /\ entries' \in Seq(Entry) /\ Increasing(entries')
      /\ \A i \in 1..Len(entries') : entries'[i] \in Range(OlderPage) \cup Range(entries)
      /\ entries # <<>> => /\ entries' # <<>>
                           /\ entries'[Len(entries')] = entries[Len(entries)]
  BY <1>1, <1>3, <1>4, <1>6, PrependProperties
<1>8. \A i \in DOMAIN entries' : entries'[i].seq <= log[active]
  <2>1. DOMAIN entries' = 1..Len(entries')
    BY <1>7, LenProperties
  <2>2. \A e \in Range(entries) : e.seq <= log[active]
    BY <1>4 DEF Range
  <2> QED
    BY <1>5, <1>7, <2>1, <2>2
<1>9. follow.phase = "open" /\ ~SnapshotDue
        => /\ entries # <<>>
           /\ entries[Len(entries)].seq = log[active] - Len(follow.wire)
  BY DEF InOrder
<1>10. SnapshotDue' <=> SnapshotDue
  BY <1>1 DEF SnapshotDue
<1> QED
  BY <1>1, <1>2, <1>7, <1>8, <1>9, <1>10 DEF InOrder

(* Every step keeps an undisturbed transcript in order.                     *)
LEMMA InOrderInductive ==
  ASSUME TypeOK, Shape, NoDuplicates, WithinLog, WireIsTail, SnapshotIsNewest,
         InOrder, [Next]_vars
  PROVE  InOrder'
<1>1. ASSUME UNCHANGED <<active, follow, transcriptVars, log>>
      PROVE  InOrder'
  BY <1>1 DEF InOrder, SnapshotDue, transcriptVars
<1>2. ASSUME UNCHANGED <<active, transcriptVars, log>>,
             follow'.phase # "open" \/ SnapshotDue'
      PROVE  InOrder'
  BY <1>2 DEF InOrder, transcriptVars
<1>3. ASSUME NEW c \in Calls,
             \/ \E s \in Sessions : SelectSession(c, s) \/ SelectSubagent(c, s)
             \/ CallStep(c)
      PROVE  InOrder'
  <2>1. CASE follow'.phase # "open" /\ entries' = <<>>
    <3>1. Increasing(entries') /\ DOMAIN entries' = {}
      BY <2>1, EmptyOnce
    <3> QED
      BY <2>1, <3>1 DEF InOrder
  <2>2. CASE UNCHANGED <<active, follow, transcriptVars>>
    BY <1>1, <1>3, <2>2, CallFollow
  <2> QED
    BY <1>3, <2>1, <2>2, CallFollow
<1>4. CASE FollowIdles \/ FollowLost
  BY <1>2, <1>4 DEF FollowIdles, FollowLost, NoFollow, selectionVars
<1>5. CASE OtherStreamLost \/ LoadOlder \/ OlderFails
  BY <1>1, <1>5 DEF OtherStreamLost, LoadOlder, OlderFails, selectionVars
<1>6. CASE FollowOpens
  <2>1. UNCHANGED <<active, transcriptVars, log>> /\ SnapshotDue'
    BY <1>6 DEF FollowOpens, SnapshotDue, selectionVars
  <2> QED
    BY <1>2, <2>1
<1>7. ASSUME NEW k \in Callers, RepairStep(k)
      PROVE  InOrder'
  <2>1. CASE RepairLands(k)
    <3>1. /\ repair[k].session \in Sessions /\ repair[k].through \in 0..MaxSeq
          /\ entries' = Records(repair[k].session, repair[k].through)
          /\ disturbed' = (disturbed \/ follow.phase = "open" \/ repair[k].session # active)
      BY <2>1 DEF RepairLands, Shape
    <3>2. UNCHANGED <<active, log>> /\ (follow'.phase = "open" => follow' = follow)
      BY <1>7, RepairFollow
    <3>3. /\ entries' \in Seq(Entry) /\ Increasing(entries')
          /\ \A i \in 1..Len(entries') : entries'[i].seq <= log[repair[k].session]
      BY <3>1, RecordsProperties
    <3>4. DOMAIN entries' = 1..Len(entries')
      BY <3>3, LenProperties
    <3> QED
      BY <3>1, <3>2, <3>3, <3>4 DEF InOrder
  <2>2. CASE RepairStarts(k) \/ RepairReads(k) \/ RepairFails(k)
    <3>1. UNCHANGED transcriptVars
      BY <2>2 DEF RepairStarts, RepairReads, RepairFails
    <3>2. UNCHANGED <<active, log>> /\ (follow'.phase = "open" => follow' = follow)
      BY <1>7, RepairFollow
    <3> QED
      BY <1>1, <1>2, <3>1, <3>2
  <2> QED
    BY <1>7, <2>1, <2>2 DEF RepairStep
<1>8. ASSUME NEW s \in Sessions, HostAppends(s)
      PROVE  InOrder'
  <2> SUFFICES ASSUME ~disturbed
               PROVE  InOrder'
    BY <1>8 DEF HostAppends, transcriptVars, InOrder
  <2>1. UNCHANGED <<active, transcriptVars>>
    BY <1>8 DEF HostAppends, selectionVars
  <2>2. \A x \in Sessions : log'[x] \in Nat /\ log[x] \in Nat /\ log[x] <= log'[x]
    BY <1>8, HostFollow
  <2>3. entries \in Seq(Entry) /\ Increasing(entries)
    BY DEF TypeOK, InOrder
  <2>4. active \in Sessions => \A i \in DOMAIN entries : entries[i].seq <= log'[active]
    <3> SUFFICES ASSUME active \in Sessions, NEW i \in DOMAIN entries
                 PROVE  entries[i].seq <= log'[active]
      OBVIOUS
    <3>1. entries[i].seq <= log[active]
      BY DEF InOrder
    <3>2. i \in 1..Len(entries)
      BY <2>3, LenProperties
    <3>3. entries[i].seq \in Int
      BY <2>3, <3>2, LastIsGreatest
    <3> QED
      BY <2>2, <3>1, <3>3
  <2>5. ASSUME follow'.phase = "open", ~SnapshotDue'
        PROVE  /\ entries # <<>>
               /\ entries[Len(entries)].seq = log'[active] - Len(follow'.wire)
    <3>1. follow.phase = "open"
      BY <1>8, <2>5, HostFollow
    <3>2. /\ follow.wire \in Seq(Frame) /\ follow'.wire \in Seq(Frame)
          /\ log'[active] - Len(follow'.wire) = log[active] - Len(follow.wire)
          /\ Len(follow.wire) <= Len(follow'.wire)
          /\ \A i \in 1..Len(follow.wire) : follow'.wire[i] = follow.wire[i]
      BY <1>8, <3>1, HostFollow
    <3>3. ~SnapshotDue
      <4> SUFFICES ASSUME SnapshotDue
                   PROVE  FALSE
        OBVIOUS
      <4>1. follow.wire # <<>> /\ follow.wire[1].type = "snapshot"
        BY DEF SnapshotDue
      <4>2. Len(follow.wire) \in Nat \ {0}
        BY <3>2, <4>1, EmptySeq
      <4>3. follow'.wire[1] = follow.wire[1]
        BY <3>2, <4>2
      <4>4. Len(follow'.wire) \in Nat \ {0}
        BY <3>2, <4>2, LenProperties
      <4>5. follow'.wire # <<>>
        BY <4>4, EmptySeq
      <4> QED
        BY <2>5, <4>1, <4>3, <4>5 DEF SnapshotDue
    <3> QED
      BY <3>1, <3>2, <3>3 DEF InOrder
  <2>6. entries # <<>> => active \in Sessions
    BY DEF InOrder
  <2> QED
    BY <2>1, <2>3, <2>4, <2>5, <2>6 DEF InOrder, transcriptVars
<1>9. CASE UNCHANGED vars
  BY <1>1, <1>9 DEF vars, selectionVars
<1> QED
  BY <1>3, <1>4, <1>5, <1>6, <1>7, <1>8, <1>9, SnapshotInOrder, EventInOrder,
     OlderInOrder DEF Next, OlderStep, HandleFrame

-----------------------------------------------------------------------------
(* The theorems.                                                            *)

ViewInv ==
  /\ TypeOK /\ Shape
  /\ NoDuplicates /\ CatalogOfSelection
  /\ WithinLog /\ WireIsTail /\ SnapshotIsNewest /\ InOrder

(* The invariant holds at the start.                                        *)
LEMMA ViewInvInit == Init => ViewInv
<1> SUFFICES ASSUME Init PROVE ViewInv
  OBVIOUS
<1>1. TypeOK /\ Shape
  BY TypesInit
<1>2. NoDuplicates /\ CatalogOfSelection
  BY DEF Init, NoDuplicates, CatalogOfSelection
<1>3. WithinLog
  BY DEF Init, WithinLog
<1>4. follow.phase # "open"
  BY DEF Init, NoFollow
<1>5. WireIsTail /\ SnapshotIsNewest
  BY <1>4 DEF WireIsTail, SnapshotIsNewest, SnapshotDue
<1>6. InOrder
  BY <1>4, EmptyOnce DEF Init, InOrder
<1> QED
  BY <1>1, <1>2, <1>3, <1>5, <1>6 DEF ViewInv

(* Every step keeps the invariant.                                          *)
LEMMA ViewInvInductive == ViewInv /\ [Next]_vars => ViewInv'
  BY TypesInductive, NoDuplicatesInductive, CatalogInductive, WithinLogInductive,
     WireIsTailInductive, SnapshotIsNewestInductive, InOrderInductive DEF ViewInv

(* The invariant of the view.                                               *)
LEMMA ViewInvariant == Spec => []ViewInv
  BY ViewInvInit, ViewInvInductive, PTL DEF Spec

(* Every variable of the view keeps its type.                               *)
THEOREM TypeCorrect == Spec => []TypeOK
<1>1. ViewInv => TypeOK
  BY DEF ViewInv
<1> QED
  BY <1>1, ViewInvariant, PTL

(* No seq is on screen twice.                                               *)
THEOREM NoEntryTwice == Spec => []NoDuplicates
<1>1. ViewInv => NoDuplicates
  BY DEF ViewInv
<1> QED
  BY <1>1, ViewInvariant, PTL

(* Skills and sub-agents on screen are those of the selected session.       *)
THEOREM CatalogsBelong == Spec => []CatalogOfSelection
<1>1. ViewInv => CatalogOfSelection
  BY DEF ViewInv
<1> QED
  BY <1>1, ViewInvariant, PTL

(* A frame of the follow stream never takes an entry off the screen.        *)
THEOREM FramesOnlyAdd == Spec => FramesNeverRemove
<1>1. ViewInv /\ [Next]_vars
        => [HandleFrame => Seqs(entries) \subseteq Seqs(entries')]_vars
  BY FramesKeep DEF ViewInv
<1> QED
  BY <1>1, ViewInvariant, PTL DEF Spec, FramesNeverRemove

(* The transcript of an undisturbed selection is in order, and ends where   *)
(* the log ends once the frames under way are handled.                      *)
THEOREM ViewCatchesUp == Spec => []CaughtUp
<1>1. ViewInv => CaughtUp
  <2> SUFFICES ASSUME ViewInv, ~disturbed, follow.phase = "open"
               PROVE  /\ \A i \in 2..Len(entries) : entries[i - 1].seq < entries[i].seq
                      /\ follow.wire = <<>> =>
                           entries # <<>> /\ Last(entries).seq = log[active]
    BY DEF CaughtUp
  <2>1. entries \in Seq(Entry) /\ Increasing(entries)
    BY DEF ViewInv, TypeOK, InOrder
  <2>2. ASSUME NEW i \in 2..Len(entries)
        PROVE  entries[i - 1].seq < entries[i].seq
    <3>1. Len(entries) \in Nat /\ DOMAIN entries = 1..Len(entries)
      BY <2>1, LenProperties
    <3>2. i - 1 \in 1..Len(entries) /\ i \in 1..Len(entries) /\ i - 1 < i
      BY <3>1
    <3> QED
      BY <2>1, <3>1, <3>2 DEF Increasing
  <2>3. ASSUME follow.wire = <<>>
        PROVE  entries # <<>> /\ Last(entries).seq = log[active]
    <3>1. /\ entries # <<>>
          /\ entries[Len(entries)].seq = log[active] - Len(follow.wire)
      BY <2>3 DEF ViewInv, InOrder, SnapshotDue
    <3>2. active \in Sessions /\ log[active] \in Int
      BY <3>1, ViewAssumption DEF ViewInv, InOrder, TypeOK
    <3>3. Len(follow.wire) = 0
      BY <2>3
    <3> QED
      BY <3>1, <3>2, <3>3 DEF Last
  <2> QED
    BY <2>2, <2>3
<1> QED
  BY <1>1, ViewInvariant, PTL
==============================================================================
