---------------------- MODULE PendingInteractionsProofs ----------------------
(***************************************************************************)
(* Proofs about PendingInteractions, for every set of requests and agents  *)
(* and every value of the bounds.                                          *)
(***************************************************************************)
EXTENDS PendingInteractions, FiniteSetTheorems, SequenceTheorems, TLAPS

(* The size of what is on offer is a number: the host replays it frame by   *)
(* frame.                                                                   *)
LEMMA OfferedFinite ==
  TypeOK => /\ IsFiniteSet(offered)
            /\ Cardinality(offered) \in Nat
  BY InteractionAssumption, FS_Subset, FS_CardinalityType DEF TypeOK,
     InteractionAssumption

(* The frames of a replay are frames.                                       *)
LEMMA ReplayTyped ==
  ASSUME TypeOK, NEW replay \in [1..Cardinality(offered) -> offered]
  PROVE  <<[type |-> "ready"]>> \o
           [i \in DOMAIN replay |-> [type |-> "waterfall", request |-> replay[i]]]
             \in Seq(Frame)
  <1> DEFINE tail == [i \in DOMAIN replay |-> [type |-> "waterfall", request |-> replay[i]]]
  <1>1. Cardinality(offered) \in Nat
    BY OfferedFinite
  <1>2. \A i \in 1..Cardinality(offered) :
          [type |-> "waterfall", request |-> replay[i]] \in Frame
    BY DEF TypeOK, Frame
  <1>3. tail \in [1..Cardinality(offered) -> Frame]
    BY <1>2
  <1>4. tail \in Seq(Frame)
    BY <1>1, <1>3, SMT
  <1>5. <<[type |-> "ready"]>> \in Seq(Frame)
    BY SMT DEF Frame
  <1> HIDE DEF tail
  <1>6. <<[type |-> "ready"]>> \o tail \in Seq(Frame)
    BY <1>4, <1>5, SMT
  <1> QED
    BY <1>6 DEF tail

(* Appending one frame to the socket.                                       *)
LEMMA SendTyped ==
  ASSUME wire \in Seq(Frame), NEW f \in Frame, Send(<<f>>)
  PROVE  wire' \in Seq(Frame)
  BY DEF Send

(* What a handler leaves to be handled.                                     *)
LEMMA HandledTyped ==
  ASSUME wire \in Seq(Frame), NEW t, Handles(t)
  PROVE  /\ Head(wire) \in Frame
         /\ wire' \in Seq(Frame)
  BY DEF Handles

(* Every action of the service, the pump, the user and the host keeps types. *)
LEMMA TypeInductive == TypeOK /\ [Next]_vars => TypeOK'
  <1> SUFFICES ASSUME TypeOK, [Next]_vars PROVE TypeOK'
    OBVIOUS
  <1> USE InteractionAssumption DEF InteractionAssumption, TypeOK
  <1>1. CASE StartEventStreams
    BY <1>1 DEF StartEventStreams, Abort, DisconnectNow, Lose, answerVars, hostVars
  <1>2. CASE ServiceDisconnect
    BY <1>2 DEF ServiceDisconnect, Abort, DisconnectNow, Lose, answerVars, hostVars
  <1>3. ASSUME NEW g \in closing, AbortedPumpEnds(g) PROVE TypeOK'
    BY <1>3 DEF AbortedPumpEnds, Disconnect, answerVars, hostVars
  <1>4. CASE PumpReconnects
    BY <1>4 DEF PumpReconnects, Disconnect, answerVars, hostVars
  <1>5. CASE HandleReady
    BY <1>5, HandledTyped DEF HandleReady, answerVars, hostVars
  <1>6. CASE HandleWaterfall
    <2> DEFINE r == Head(wire).request
               d == [connection |-> generation, request |-> r, serial |-> deliveries + 1]
               view == [connection |-> generation, request |-> r]
    <2>1. r \in Requests /\ wire' \in Seq(Frame)
      BY <1>6, HandledTyped DEF HandleWaterfall, Handles, Frame
    <2>2. generation # 0 => d \in Delivery /\ view \in View
      BY <2>1 DEF Delivery, View
    <2>3. pending' \subseteq pending \cup {d} /\ displayed' \subseteq displayed \cup {view}
      BY <1>6 DEF HandleWaterfall
    <2>4. generation = 0 => pending' = pending /\ displayed' = displayed
      BY <1>6 DEF HandleWaterfall
    <2>5. deliveries' \in Nat
      BY <1>6 DEF HandleWaterfall
    <2> QED
      BY <1>6, <2>1, <2>2, <2>3, <2>4, <2>5 DEF HandleWaterfall, pumpVars,
         answerVars, hostVars
  <1>7. CASE HandleCancel
    BY <1>7, HandledTyped DEF HandleCancel, Remaining, pumpVars, answerVars, hostVars
  <1>8. CASE HandleRemoved
    BY <1>8, HandledTyped DEF HandleRemoved, Remaining, pumpVars, answerVars, hostVars
  <1>9. ASSUME NEW view \in displayed, BeginResponse(view) PROVE TypeOK'
    <2> DEFINE key == Key(view.connection, view.request)
    <2>1. view \in View
      OBVIOUS
    <2>2. key \in (Nat \ {0}) \X Requests
      BY <2>1 DEF View, Key
    <2>3. PICK d \in pending :
            answers' = answers \cup {[id |-> attempts + 1, delivery |-> d,
                                      clicked |-> view, outcome |-> "none"]}
      BY <1>9 DEF BeginResponse
    <2>4. [id |-> attempts + 1, delivery |-> d, clicked |-> view,
           outcome |-> "none"] \in Answer
      BY <2>1 DEF Answer
    <2> QED
      BY <1>9, <2>2, <2>3, <2>4 DEF BeginResponse, pumpVars, hostVars
  <1>10. ASSUME NEW a \in answers, AnswerSucceeds(a) PROVE TypeOK'
    BY <1>10 DEF AnswerSucceeds, Remaining, pumpVars, hostVars
  <1>11. ASSUME NEW a \in answers, AnswerFails(a) PROVE TypeOK'
    BY <1>11 DEF AnswerFails, pumpVars, hostVars
  <1>12. ASSUME NEW a \in answers, HostTakesAnswer(a) PROVE TypeOK'
    <2>1. a.delivery.request \in Requests /\ a \in Answer
      BY DEF Answer, Delivery
    <2>2. [a EXCEPT !.outcome = "taken"] \in Answer
      BY <2>1 DEF Answer
    <2>3. [type |-> "cancel", request |-> a.delivery.request] \in Frame
      BY <2>1 DEF Frame
    <2>4. wire' \in Seq(Frame)
      BY <1>12, <2>3, SendTyped DEF HostTakesAnswer
    <2> QED
      BY <1>12, <2>1, <2>2, <2>4 DEF HostTakesAnswer, pumpVars, storeVars
  <1>13. CASE HostAcceptsSocket
    BY <1>13, ReplayTyped DEF HostAcceptsSocket, storeVars, answerVars, hostVars
  <1>14. CASE SocketLost
    <2>1. wire' \in Seq(Frame)
      <3>1. wire' = wire \/ wire' = <<>>
        BY <1>14, Zenon DEF SocketLost
      <3>2. wire \in Seq(Frame) /\ <<>> \in Seq(Frame)
        OBVIOUS
      <3> QED
        BY <3>1, <3>2, Zenon
    <2>2. pump' = "lost"
      BY <1>14 DEF SocketLost
    <2>3. losses < MaxLosses /\ losses' = losses + 1
      BY <1>14 DEF SocketLost, Lose
    <2>4. losses' \in 0..MaxLosses
      BY <2>3
    <2> QED
      BY <1>14, <2>1, <2>2, <2>4 DEF SocketLost, storeVars, answerVars, hostVars
  <1>15. ASSUME NEW r \in Requests, HostOffers(r) PROVE TypeOK'
    <2>1. [type |-> "waterfall", request |-> r] \in Frame
      BY DEF Frame
    <2> QED
      BY <1>15, <2>1, SendTyped DEF HostOffers, pumpVars, storeVars, answerVars
  <1>16. ASSUME NEW r \in Requests, HostWithdraws(r) PROVE TypeOK'
    <2>1. [type |-> "cancel", request |-> r] \in Frame
      BY DEF Frame
    <2> QED
      BY <1>16, <2>1, SendTyped DEF HostWithdraws, pumpVars, storeVars, answerVars
  <1>17. ASSUME NEW s \in Sessions, HostRemovesSession(s) PROVE TypeOK'
    <2>1. [type |-> "removed", session |-> s] \in Frame
      BY DEF Frame
    <2> QED
      BY <1>17, <2>1, SendTyped DEF HostRemovesSession, pumpVars, storeVars,
         answerVars
  <1>18. CASE UNCHANGED vars
    BY <1>18 DEF vars, pumpVars, storeVars, answerVars, hostVars
  <1> QED
    BY <1>1, <1>2, <1>3, <1>4, <1>5, <1>6, <1>7, <1>8, <1>9, <1>10, <1>11,
       <1>12, <1>13, <1>14, <1>15, <1>16, <1>17, <1>18
       DEF Next, HandleFrame, Settle

(* Every variable keeps its type: generations, keys and serial numbers are  *)
(* those of real connections, deliveries and requests.                      *)
THEOREM TypeCorrect == Spec => []TypeOK
  <1>1. Init => TypeOK
    BY InteractionAssumption DEF Init, TypeOK, InteractionAssumption
  <1> QED
    BY <1>1, TypeInductive, PTL DEF Spec

-----------------------------------------------------------------------------
(* The inductive invariant behind the safety properties.                    *)

(* The current pump owns the connection, and no aborted one names it.       *)
ConnectionInv ==
  /\ connection = generation
  /\ generation <= revision
  /\ \A g \in closing : g <= revision /\ g # generation

(* A serial number stands for one delivery, on display or being answered.   *)
Known == pending \cup {a.delivery : a \in answers}

SerialInv ==
  /\ \A d \in Known : d.serial <= deliveries
  /\ \A d, e \in Known : d.serial = e.serial => d = e

(* An answer to what is on display holds its lock.                          *)
LockInv ==
  \A a \in answers : a.delivery \in pending => KeyOf(a.delivery) \in replying

RecordsInv ==
  /\ OwnedByConnection
  /\ SerialInv
  /\ LockInv
  /\ LockedOnlyWhileAnswering
  /\ OneAnswerPerDelivery
  /\ ClickAnswersWhatWasShown

SafetyInv == TypeOK /\ ConnectionInv /\ RecordsInv

(* Records on display are told by their keys.                               *)
LEMMA KeysTellRecords ==
  ASSUME TypeOK, OwnedByConnection, NEW d \in pending, NEW e \in pending,
         KeyOf(d) = KeyOf(e)
  PROVE  d = e
  BY DEF TypeOK, OwnedByConnection, Delivery, KeyOf, Key

(* Clearing the store keeps the invariant.                                  *)
LEMMA ClearedRecords ==
  ASSUME TypeOK, RecordsInv, pending' = {}, replying' = {},
         answers' = answers, deliveries' = deliveries
  PROVE  RecordsInv'
  BY DEF RecordsInv, OwnedByConnection, SerialInv, Known, LockInv,
     LockedOnlyWhileAnswering, OneAnswerPerDelivery, ClickAnswersWhatWasShown

(* So does removing records together with their locks.                      *)
LEMMA RemovedRecords ==
  ASSUME TypeOK, RecordsInv, NEW D \in SUBSET pending, Remaining(D),
         answers' = answers, deliveries' = deliveries, connection' = connection
  PROVE  RecordsInv'
  <1> USE DEF RecordsInv
  <1>1. pending' = pending \ D /\ replying' = replying \ {KeyOf(d) : d \in D}
    BY DEF Remaining
  <1>2. OwnedByConnection'
    BY <1>1 DEF OwnedByConnection
  <1>3. SerialInv'
    BY <1>1 DEF SerialInv, Known
  <1>4. ASSUME NEW a \in answers, a.delivery \in pending'
        PROVE  KeyOf(a.delivery) \in replying'
    <2>1. a.delivery \in pending /\ a.delivery \notin D
      BY <1>1, <1>4
    <2>2. KeyOf(a.delivery) \in replying
      BY <2>1 DEF LockInv
    <2>3. \A d \in D : KeyOf(d) # KeyOf(a.delivery)
      BY <2>1, KeysTellRecords
    <2> QED
      BY <1>1, <2>2, <2>3
  <1>5. LockInv'
    <2> SUFFICES ASSUME NEW a \in answers', (a.delivery \in pending)'
                 PROVE  (KeyOf(a.delivery) \in replying)'
      BY DEF LockInv
    <2> QED
      BY <1>4 DEF KeyOf, Key
  <1>6. LockedOnlyWhileAnswering'
    <2> SUFFICES ASSUME NEW key \in replying'
                 PROVE  \E d \in pending', a \in answers :
                          KeyOf(d) = key /\ a.delivery = d
      BY DEF LockedOnlyWhileAnswering, KeyOf, Key
    <2>1. PICK d \in pending, a \in answers : KeyOf(d) = key /\ a.delivery = d
      BY <1>1 DEF LockedOnlyWhileAnswering
    <2>2. d \notin D
      BY <1>1, <2>1
    <2> QED
      BY <1>1, <2>1, <2>2
  <1>7. OneAnswerPerDelivery' /\ ClickAnswersWhatWasShown'
    BY DEF OneAnswerPerDelivery, ClickAnswersWhatWasShown
  <1> QED
    BY <1>2, <1>3, <1>5, <1>6, <1>7

(* finishResponse(pending, true) keeps it.                                  *)
LEMMA SucceededRecords ==
  ASSUME TypeOK, RecordsInv, NEW a \in answers, AnswerSucceeds(a)
  PROVE  RecordsInv'
  <1> USE DEF RecordsInv
  <1> DEFINE D == {e \in pending : e = a.delivery}
  <1>1. /\ answers' = answers \ {a} /\ deliveries' = deliveries
        /\ connection' = connection
        /\ pending' = pending \ D /\ replying' = replying \ {KeyOf(d) : d \in D}
    BY DEF AnswerSucceeds, Remaining, Matching
  <1> HIDE DEF D
  <1>2. OwnedByConnection' /\ SerialInv'
    BY <1>1 DEF OwnedByConnection, SerialInv, Known
  <1>3. LockInv'
    <2> SUFFICES ASSUME NEW b \in answers', (b.delivery \in pending)'
                 PROVE  (KeyOf(b.delivery) \in replying)'
      BY DEF LockInv
    <2>1. b \in answers /\ b.delivery \in pending /\ b.delivery \notin D
      BY <1>1
    <2>2. KeyOf(b.delivery) \in replying
      BY <2>1 DEF LockInv
    <2>3. \A d \in D : KeyOf(d) # KeyOf(b.delivery)
      BY <2>1, KeysTellRecords DEF D
    <2> QED
      BY <1>1, <2>2, <2>3 DEF KeyOf, Key
  <1>4. LockedOnlyWhileAnswering'
    <2> SUFFICES ASSUME NEW key \in replying'
                 PROVE  \E d \in pending', b \in answers' :
                          KeyOf(d) = key /\ b.delivery = d
      BY DEF LockedOnlyWhileAnswering, KeyOf, Key
    <2>1. PICK d \in pending, b \in answers : KeyOf(d) = key /\ b.delivery = d
      BY <1>1 DEF LockedOnlyWhileAnswering
    <2>2. d \notin D
      BY <1>1, <2>1
    <2>3. b # a
      BY <2>1, <2>2 DEF D
    <2> QED
      BY <1>1, <2>1, <2>2, <2>3
  <1>5. OneAnswerPerDelivery' /\ ClickAnswersWhatWasShown'
    BY <1>1 DEF OneAnswerPerDelivery, ClickAnswersWhatWasShown
  <1> QED
    BY <1>2, <1>3, <1>4, <1>5

(* finishResponse(pending, false) keeps it.                                 *)
LEMMA FailedRecords ==
  ASSUME TypeOK, RecordsInv, NEW a \in answers, AnswerFails(a)
  PROVE  RecordsInv'
  <1> USE DEF RecordsInv
  <1> DEFINE D == {e \in pending : e = a.delivery}
  <1>1. /\ answers' = answers \ {a} /\ deliveries' = deliveries
        /\ connection' = connection /\ pending' = pending
        /\ replying' = replying \ {KeyOf(d) : d \in D}
    BY DEF AnswerFails, Matching
  <1> HIDE DEF D
  <1>2. OwnedByConnection' /\ SerialInv'
    BY <1>1 DEF OwnedByConnection, SerialInv, Known
  <1>3. LockInv'
    <2> SUFFICES ASSUME NEW b \in answers', (b.delivery \in pending)'
                 PROVE  (KeyOf(b.delivery) \in replying)'
      BY DEF LockInv
    <2>1. b \in answers /\ b # a /\ b.delivery \in pending
      BY <1>1
    <2>2. KeyOf(b.delivery) \in replying
      BY <2>1 DEF LockInv
    <2>3. b.delivery # a.delivery
      BY <2>1 DEF OneAnswerPerDelivery
    <2>4. \A d \in D : KeyOf(d) # KeyOf(b.delivery)
      BY <2>1, <2>3, KeysTellRecords DEF D
    <2> QED
      BY <1>1, <2>2, <2>4 DEF KeyOf, Key
  <1>4. LockedOnlyWhileAnswering'
    <2> SUFFICES ASSUME NEW key \in replying'
                 PROVE  \E d \in pending', b \in answers' :
                          KeyOf(d) = key /\ b.delivery = d
      BY DEF LockedOnlyWhileAnswering, KeyOf, Key
    <2>1. PICK d \in pending, b \in answers : KeyOf(d) = key /\ b.delivery = d
      BY <1>1 DEF LockedOnlyWhileAnswering
    <2>2. d \notin D
      BY <1>1, <2>1
    <2>3. b # a
      BY <2>1, <2>2 DEF D
    <2> QED
      BY <1>1, <2>1, <2>3
  <1>5. OneAnswerPerDelivery' /\ ClickAnswersWhatWasShown'
    BY <1>1 DEF OneAnswerPerDelivery, ClickAnswersWhatWasShown
  <1> QED
    BY <1>2, <1>3, <1>4, <1>5

(* A request put on display gets a serial number nobody has.                *)
LEMMA ShownRecords ==
  ASSUME TypeOK, ConnectionInv, RecordsInv, HandleWaterfall
  PROVE  RecordsInv'
  <1> USE DEF RecordsInv
  <1> DEFINE r == Head(wire).request
             new == [connection |-> generation, request |-> r,
                     serial |-> deliveries + 1]
  <1>1. answers' = answers /\ replying' = replying /\ connection' = connection
    BY DEF HandleWaterfall, answerVars
  <1>2. CASE pending' = pending /\ deliveries' = deliveries
    BY <1>1, <1>2 DEF OwnedByConnection, SerialInv, Known, LockInv,
       LockedOnlyWhileAnswering, OneAnswerPerDelivery,
       ClickAnswersWhatWasShown, KeyOf, Key
  <1>3. CASE /\ pending' = pending \cup {new} /\ deliveries' = deliveries + 1
             /\ generation # 0 /\ connection = generation
             /\ \A d \in pending : KeyOf(d) # Key(generation, r)
    <2>1. \A d \in pending : d.connection = generation /\ d.request # r
      BY <1>3 DEF OwnedByConnection, KeyOf, Key
    <2>2. OwnedByConnection'
      BY <1>1, <1>3, <2>1 DEF OwnedByConnection
    <2>3. \A d \in Known : d.serial <= deliveries /\ d.serial \in Nat
      BY DEF SerialInv, Known, TypeOK, Delivery, Answer
    <2>4. Known' = Known \cup {new}
      BY <1>1, <1>3 DEF Known
    <2>5. SerialInv'
      BY <1>3, <2>3, <2>4 DEF SerialInv, TypeOK
    <2>6. new \notin Known
      BY <2>3 DEF TypeOK
    <2>7. LockInv'
      BY <1>1, <1>3, <2>6 DEF LockInv, Known, KeyOf, Key
    <2>8. LockedOnlyWhileAnswering'
      BY <1>1, <1>3 DEF LockedOnlyWhileAnswering, KeyOf, Key
    <2>9. OneAnswerPerDelivery' /\ ClickAnswersWhatWasShown'
      BY <1>1 DEF OneAnswerPerDelivery, ClickAnswersWhatWasShown
    <2> QED
      BY <2>2, <2>5, <2>7, <2>8, <2>9
  <1> QED
    BY <1>2, <1>3 DEF HandleWaterfall

(* An answer begins only for a delivery that has none under way.            *)
LEMMA AnsweredRecords ==
  ASSUME TypeOK, RecordsInv, NEW view \in displayed, BeginResponse(view)
  PROVE  RecordsInv'
  <1> USE DEF RecordsInv
  <1> DEFINE key == Key(view.connection, view.request)
  <1>1. PICK d \in pending :
          /\ KeyOf(d) = key
          /\ answers' = answers \cup {[id |-> attempts + 1, delivery |-> d,
                                       clicked |-> view, outcome |-> "none"]}
    BY DEF BeginResponse
  <1>2. /\ key \notin replying /\ replying' = replying \cup {key}
        /\ pending' = pending /\ connection' = connection
        /\ deliveries' = deliveries
    BY DEF BeginResponse
  <1> DEFINE new == [id |-> attempts + 1, delivery |-> d, clicked |-> view,
                     outcome |-> "none"]
  <1>3. \A a \in answers : a.delivery # d
    BY <1>1, <1>2 DEF LockInv
  <1> HIDE DEF key
  <1>4. OwnedByConnection'
    BY <1>2 DEF OwnedByConnection
  <1>5. SerialInv'
    <2>1. Known' = Known
      BY <1>1, <1>2 DEF Known
    <2> QED
      BY <1>2, <2>1 DEF SerialInv
  <1>6. LockInv'
    <2> SUFFICES ASSUME NEW a \in answers', (a.delivery \in pending)'
                 PROVE  (KeyOf(a.delivery) \in replying)'
      BY DEF LockInv
    <2>1. CASE a \in answers
      BY <1>2, <2>1 DEF LockInv, KeyOf, Key
    <2>2. CASE a = new
      <3>1. a.delivery = d
        BY <2>2
      <3> QED
        BY <1>1, <1>2, <3>1 DEF KeyOf, Key
    <2> QED
      BY <1>1, <2>1, <2>2
  <1>7. LockedOnlyWhileAnswering'
    <2> SUFFICES ASSUME NEW k \in replying'
                 PROVE  \E e \in pending', b \in answers' :
                          KeyOf(e) = k /\ b.delivery = e
      BY DEF LockedOnlyWhileAnswering, KeyOf, Key
    <2>1. CASE k = key
      <3>1. new \in answers' /\ new.delivery = d /\ d \in pending'
        BY <1>1, <1>2
      <3> QED
        BY <1>1, <2>1, <3>1
    <2>2. CASE k \in replying
      <3>1. PICK e \in pending, b \in answers : KeyOf(e) = k /\ b.delivery = e
        BY <2>2 DEF LockedOnlyWhileAnswering
      <3> QED
        BY <1>1, <1>2, <3>1
    <2> QED
      BY <1>2, <2>1, <2>2
  <1>8. OneAnswerPerDelivery'
    BY <1>1, <1>3 DEF OneAnswerPerDelivery
  <1>9. ClickAnswersWhatWasShown'
    <2>1. view.connection = d.connection /\ view.request = d.request
      BY <1>1 DEF KeyOf, Key, key
    <2> QED
      BY <1>1, <2>1 DEF ClickAnswersWhatWasShown
  <1> QED
    BY <1>4, <1>5, <1>6, <1>7, <1>8, <1>9

(* Taking an answer changes neither its delivery nor what was clicked.      *)
LEMMA TakenRecords ==
  ASSUME TypeOK, RecordsInv, NEW a \in answers, HostTakesAnswer(a)
  PROVE  RecordsInv'
  <1> USE DEF RecordsInv
  <1> DEFINE taken == [a EXCEPT !.outcome = "taken"]
  <1>1. /\ answers' = (answers \ {a}) \cup {taken}
        /\ pending' = pending /\ replying' = replying
        /\ connection' = connection /\ deliveries' = deliveries
    BY DEF HostTakesAnswer, storeVars
  <1>2. taken.delivery = a.delivery /\ taken.clicked = a.clicked
    BY DEF TypeOK, Answer
  <1> HIDE DEF taken
  <1>3. OwnedByConnection'
    BY <1>1 DEF OwnedByConnection
  <1>4. SerialInv'
    <2>1. Known' = Known
      BY <1>1, <1>2 DEF Known
    <2> QED
      BY <1>1, <2>1 DEF SerialInv
  <1>5. LockInv'
    BY <1>1, <1>2 DEF LockInv, KeyOf, Key
  <1>6. LockedOnlyWhileAnswering'
    BY <1>1, <1>2 DEF LockedOnlyWhileAnswering, KeyOf, Key
  <1>7. OneAnswerPerDelivery' /\ ClickAnswersWhatWasShown'
    BY <1>1, <1>2 DEF OneAnswerPerDelivery, ClickAnswersWhatWasShown
  <1> QED
    BY <1>3, <1>4, <1>5, <1>6, <1>7

(* Nothing that leaves the store and the answers alone disturbs it.         *)
LEMMA SameRecords ==
  ASSUME RecordsInv, UNCHANGED <<connection, pending, replying, deliveries, answers>>
  PROVE  RecordsInv'
  BY DEF RecordsInv, OwnedByConnection, SerialInv, Known, LockInv,
     LockedOnlyWhileAnswering, OneAnswerPerDelivery, ClickAnswersWhatWasShown,
     KeyOf, Key

(* Every action keeps the whole invariant, one lemma above for each kind.   *)
LEMMA SafetyInductive == SafetyInv /\ [Next]_vars => SafetyInv'
  <1> SUFFICES ASSUME SafetyInv, [Next]_vars PROVE ConnectionInv' /\ RecordsInv'
    BY TypeInductive DEF SafetyInv
  <1> USE DEF SafetyInv
  <1>1. CASE StartEventStreams \/ ServiceDisconnect
    <2>1. /\ connection' = 0 /\ generation' = 0 /\ revision' = revision
          /\ closing' \subseteq closing \cup {generation}
          /\ \A g \in closing' : g # 0
      BY <1>1 DEF StartEventStreams, ServiceDisconnect, Abort, DisconnectNow, TypeOK
    <2>2. ConnectionInv'
      BY <2>1 DEF ConnectionInv, TypeOK
    <2>3. RecordsInv'
      BY <1>1, ClearedRecords DEF StartEventStreams, ServiceDisconnect,
         DisconnectNow, answerVars
    <2> QED
      BY <2>2, <2>3
  <1>2. ASSUME NEW g \in closing, AbortedPumpEnds(g)
        PROVE  ConnectionInv' /\ RecordsInv'
    <2>1. connection # g
      BY DEF ConnectionInv
    <2>2. UNCHANGED <<connection, pending, replying>>
      BY <1>2, <2>1 DEF AbortedPumpEnds, Disconnect
    <2>3. ConnectionInv'
      BY <1>2, <2>2 DEF AbortedPumpEnds, ConnectionInv
    <2>4. RecordsInv'
      BY <1>2, <2>2, SameRecords DEF AbortedPumpEnds, answerVars
    <2> QED
      BY <2>3, <2>4
  <1>3. CASE PumpReconnects
    <2>1. ConnectionInv'
      BY <1>3 DEF PumpReconnects, Disconnect, ConnectionInv, TypeOK
    <2>2. CASE generation = 0
      BY <1>3, <2>1, <2>2, SameRecords DEF PumpReconnects, answerVars
    <2>3. CASE generation # 0
      BY <1>3, <2>1, <2>3, ClearedRecords
         DEF PumpReconnects, Disconnect, ConnectionInv, answerVars
    <2> QED
      BY <2>2, <2>3
  <1>4. CASE HandleReady
    <2>1. ConnectionInv'
      BY <1>4 DEF HandleReady, ConnectionInv, TypeOK
    <2>2. RecordsInv'
      BY <1>4, ClearedRecords DEF HandleReady, answerVars
    <2> QED
      BY <2>1, <2>2
  <1>5. CASE HandleWaterfall
    <2>1. ConnectionInv'
      BY <1>5 DEF HandleWaterfall, ConnectionInv, pumpVars
    <2> QED
      BY <1>5, <2>1, ShownRecords
  <1>6. CASE HandleCancel \/ HandleRemoved
    <2>1. ConnectionInv'
      BY <1>6 DEF HandleCancel, HandleRemoved, ConnectionInv, pumpVars
    <2>2. UNCHANGED <<answers, deliveries, connection>>
      BY <1>6 DEF HandleCancel, HandleRemoved, answerVars
    <2>3. \/ UNCHANGED <<pending, replying>>
          \/ \E D \in SUBSET pending : Remaining(D)
      BY <1>6 DEF HandleCancel, HandleRemoved
    <2> QED
      BY <2>1, <2>2, <2>3, SameRecords, RemovedRecords
  <1>7. ASSUME NEW view \in displayed, BeginResponse(view)
        PROVE  ConnectionInv' /\ RecordsInv'
    <2>1. ConnectionInv'
      BY <1>7 DEF BeginResponse, ConnectionInv, pumpVars
    <2> QED
      BY <1>7, <2>1, AnsweredRecords
  <1>8. ASSUME NEW a \in answers,
               AnswerSucceeds(a) \/ AnswerFails(a) \/ HostTakesAnswer(a)
        PROVE  ConnectionInv' /\ RecordsInv'
    <2>1. ConnectionInv'
      BY <1>8 DEF AnswerSucceeds, AnswerFails, HostTakesAnswer, ConnectionInv,
         pumpVars, storeVars
    <2> QED
      BY <1>8, <2>1, SucceededRecords, FailedRecords, TakenRecords
  <1>9. CASE \/ HostAcceptsSocket \/ SocketLost
             \/ \E r \in Requests : HostOffers(r) \/ HostWithdraws(r)
             \/ \E s \in Sessions : HostRemovesSession(s)
             \/ UNCHANGED vars
    <2>1. UNCHANGED <<storeVars, answers, generation, closing>>
      BY <1>9 DEF HostAcceptsSocket, SocketLost, HostOffers, HostWithdraws,
         HostRemovesSession, vars, pumpVars, answerVars, storeVars
    <2> QED
      BY <2>1, SameRecords DEF ConnectionInv, storeVars
  <1> QED
    BY <1>1, <1>2, <1>3, <1>4, <1>5, <1>6, <1>7, <1>8, <1>9
       DEF Next, HandleFrame, Settle

(* It holds before anything happened.                                       *)
LEMMA SafetyInit == Init => SafetyInv
  BY InteractionAssumption DEF Init, SafetyInv, TypeOK, ConnectionInv,
     RecordsInv, OwnedByConnection, SerialInv, Known, LockInv,
     LockedOnlyWhileAnswering, OneAnswerPerDelivery,
     ClickAnswersWhatWasShown, InteractionAssumption

(* The invariant behind the theorems below holds in every reachable state.  *)
THEOREM SafetyInvariant == Spec => []SafetyInv
  BY SafetyInit, SafetyInductive, PTL DEF Spec

(* The records on display are those of the open connection, each request    *)
(* once, however connections overlap and whenever old pumps clean up.       *)
THEOREM RecordsOwned == Spec => []OwnedByConnection
  BY SafetyInvariant, PTL DEF SafetyInv, RecordsInv

(* A record is locked only while an answer to it is under way.              *)
THEOREM NeverStuck == Spec => []LockedOnlyWhileAnswering
  BY SafetyInvariant, PTL DEF SafetyInv, RecordsInv

(* At most one answer to a delivery is under way, whatever failed before.   *)
THEOREM NeverAnsweredTwice == Spec => []OneAnswerPerDelivery
  BY SafetyInvariant, PTL DEF SafetyInv, RecordsInv

(* An answer goes to the delivery the user clicked on.                      *)
THEOREM ClicksAreExact == Spec => []ClickAnswersWhatWasShown
  BY SafetyInvariant, PTL DEF SafetyInv, RecordsInv

-----------------------------------------------------------------------------
(* No request is lost.                                                      *)

(* What has been answered is not on offer again.                            *)
AnsweredInv ==
  /\ offered \cap answered = {}
  /\ \A a \in answers : a.outcome = "taken" => a.delivery.request \in answered

(* A socket begins with its ready frame, and has no other: as long as the   *)
(* pump has no generation, the ready frame is what it handles next.         *)
WireInv ==
  /\ pump \in {"stopped", "opening"} => generation = 0
  /\ \A i \in DOMAIN wire : wire[i].type = "ready" => i = 1
  /\ (pump = "up" /\ generation = 0) => (wire # <<>> /\ wire[1].type = "ready")

(* The frames after the one that is handled.                                *)
LEMMA TailOfWire ==
  ASSUME wire \in Seq(Frame), wire # <<>>, wire' = Tail(wire)
  PROVE  /\ Len(wire) \in Nat /\ Len(wire) >= 1
         /\ DOMAIN wire = 1..Len(wire) /\ Head(wire) = wire[1]
         /\ Len(wire') = Len(wire) - 1 /\ DOMAIN wire' = 1..(Len(wire) - 1)
         /\ \A i \in 1..(Len(wire) - 1) : wire'[i] = wire[i + 1]
  <1>1. Len(wire) \in Nat /\ DOMAIN wire = 1..Len(wire) /\ Len(wire) >= 1
    BY EmptySeq, LenProperties
  <1>2. Tail(wire) \in Seq(Frame) /\ Len(Tail(wire)) = Len(wire) - 1
    BY HeadTailProperties
  <1> QED
    BY <1>1, <1>2, HeadTailProperties, LenProperties

(* The frames before one that is sent.                                      *)
LEMMA WireWithFrame ==
  ASSUME wire \in Seq(Frame), NEW f \in Frame, wire' = wire \o <<f>>
  PROVE  /\ Len(wire) \in Nat /\ DOMAIN wire = 1..Len(wire)
         /\ Len(wire') = Len(wire) + 1 /\ DOMAIN wire' = 1..(Len(wire) + 1)
         /\ \A i \in 1..Len(wire) : wire'[i] = wire[i]
         /\ wire'[Len(wire) + 1] = f
  <1>1. wire' = Append(wire, f)
    BY SMT
  <1> QED
    BY <1>1, AppendProperties, LenProperties

(* Handling a frame leaves a request that will be shown on its way: either  *)
(* its own frame was handled, or a later one, or it is on display and the   *)
(* frame was not about it.                                                  *)
LEMMA HandledShown ==
  ASSUME wire \in Seq(Frame), wire # <<>>, wire' = Tail(wire), NEW r,
         WillBeShown(r),
         OnDisplay(r) /\ ~Kills(Head(wire), r) => OnDisplay(r)',
         Head(wire) = [type |-> "waterfall", request |-> r] => OnDisplay(r)'
  PROVE  WillBeShown(r)'
  <1> DEFINE n == Len(wire)
  <1>1. /\ n \in Nat /\ n >= 1 /\ Head(wire) = wire[1] /\ Len(wire') = n - 1
        /\ \A i \in 1..(n - 1) : wire'[i] = wire[i + 1]
    BY TailOfWire
  <1>2. PICK i \in 0..n :
          /\ IF i = 0 THEN OnDisplay(r)
                      ELSE wire[i] = [type |-> "waterfall", request |-> r]
          /\ \A j \in (i + 1)..n : ~Kills(wire[j], r)
    BY DEF WillBeShown, OnDisplay
  <1>3. \A k \in Nat : (i <= k + 1 /\ 1 <= k + 1) =>
          \A j \in (k + 1)..(n - 1) : ~Kills(wire'[j], r)
    <2> SUFFICES ASSUME NEW k \in Nat, i <= k + 1, NEW j \in (k + 1)..(n - 1)
                 PROVE  ~Kills(wire'[j], r)
      OBVIOUS
    <2>1. j \in 1..(n - 1) /\ j + 1 \in (i + 1)..n
      BY <1>1
    <2>2. wire'[j] = wire[j + 1] /\ ~Kills(wire[j + 1], r)
      BY <1>1, <1>2, <2>1
    <2> QED
      BY <2>2, Zenon
  <1>4. CASE i \in {0, 1}
    <2>1. OnDisplay(r)'
      <3>1. CASE i = 0
        <4>1. 1 \in (i + 1)..n
          BY <1>1, <3>1
        <4> QED
          BY <1>1, <1>2, <3>1, <4>1
      <3>2. CASE i = 1
        BY <1>1, <1>2, <3>2
      <3> QED
        BY <1>4, <3>1, <3>2
    <2>2. \A j \in 1..(n - 1) : ~Kills(wire'[j], r)
      BY <1>3, <1>4
    <2>3. 0 \in 0..(n - 1)
      BY <1>1
    <2> QED
      BY <1>1, <2>1, <2>2, <2>3 DEF WillBeShown, OnDisplay
  <1>5. CASE i \in 2..n
    <2>1. i - 1 \in 1..(n - 1) /\ i - 1 \in Nat /\ (i - 1) + 1 = i /\ i - 1 # 0
          /\ i - 1 \in 0..(n - 1)
      BY <1>1, <1>5
    <2>2. wire'[i - 1] = [type |-> "waterfall", request |-> r]
      BY <1>1, <1>2, <1>5, <2>1
    <2>3. \A j \in ((i - 1) + 1)..(n - 1) : ~Kills(wire'[j], r)
      <3>1. i <= (i - 1) + 1 /\ 1 <= (i - 1) + 1
        BY <1>5
      <3> QED
        BY <1>3, <2>1, <3>1, Zenon
    <2> QED
      BY <1>1, <2>1, <2>2, <2>3 DEF WillBeShown
  <1> QED
    BY <1>1, <1>4, <1>5

(* A frame that is sent leaves the requests it is not about on their way.   *)
LEMMA SentShown ==
  ASSUME wire \in Seq(Frame), NEW f \in Frame, wire' = wire \o <<f>>,
         pending' = pending, NEW r, WillBeShown(r), ~Kills(f, r)
  PROVE  WillBeShown(r)'
  <1> DEFINE n == Len(wire)
  <1>1. /\ n \in Nat /\ Len(wire') = n + 1
        /\ \A i \in 1..n : wire'[i] = wire[i]
        /\ wire'[n + 1] = f
    BY WireWithFrame
  <1>2. PICK i \in 0..n :
          /\ IF i = 0 THEN \E d \in pending : d.request = r
                      ELSE wire[i] = [type |-> "waterfall", request |-> r]
          /\ \A j \in (i + 1)..n : ~Kills(wire[j], r)
    BY DEF WillBeShown
  <1>3. \A j \in (i + 1)..(n + 1) : ~Kills(wire'[j], r)
    <2> SUFFICES ASSUME NEW j \in (i + 1)..(n + 1)
                 PROVE  ~Kills(wire'[j], r)
      OBVIOUS
    <2>1. CASE j = n + 1
      BY <1>1, <2>1
    <2>2. CASE j # n + 1
      <3>1. j \in (i + 1)..n /\ j \in 1..n
        BY <1>1, <2>2
      <3>2. wire'[j] = wire[j] /\ ~Kills(wire[j], r)
        BY <1>1, <1>2, <3>1
      <3> QED
        BY <3>2, Zenon
    <2> QED
      BY <2>1, <2>2
  <1>4. i \in 0..(n + 1) /\ (i # 0 => i \in 1..n)
    BY <1>1
  <1>5. IF i = 0 THEN \E d \in pending' : d.request = r
                 ELSE wire'[i] = [type |-> "waterfall", request |-> r]
    BY <1>1, <1>2, <1>4
  <1> QED
    BY <1>1, <1>3, <1>4, <1>5 DEF WillBeShown

(* A request that is sent will be shown.                                    *)
LEMMA OfferShown ==
  ASSUME wire \in Seq(Frame), NEW r \in Requests,
         wire' = wire \o <<[type |-> "waterfall", request |-> r]>>
  PROVE  WillBeShown(r)'
  <1> DEFINE n == Len(wire)
  <1>1. [type |-> "waterfall", request |-> r] \in Frame
    BY DEF Frame
  <1>2. /\ n \in Nat /\ Len(wire') = n + 1
        /\ wire'[n + 1] = [type |-> "waterfall", request |-> r]
    BY <1>1, WireWithFrame
  <1>3. n + 1 \in 0..(n + 1) /\ n + 1 # 0 /\ ((n + 1) + 1)..(n + 1) = {}
    BY <1>2
  <1> QED
    BY <1>2, <1>3 DEF WillBeShown

(* Leaving the wire alone and what is on display on display.                *)
LEMMA SameShown ==
  ASSUME NEW r, WillBeShown(r), wire' = wire, OnDisplay(r) => OnDisplay(r)'
  PROVE  WillBeShown(r)'
  BY DEF WillBeShown, OnDisplay

(* The replay after the ready frame names everything on offer.              *)
LEMMA ReplayOffers ==
  ASSUME TypeOK, HostAcceptsSocket
  PROVE  /\ wire' # <<>> /\ wire'[1] = [type |-> "ready"]
         /\ \A i \in DOMAIN wire' : i # 1 => wire'[i].type = "waterfall"
         /\ \A r \in offered : WillBeShown(r)'
  <1>1. PICK replay \in [1..Cardinality(offered) -> offered] :
          /\ \A r \in offered : \E i \in DOMAIN replay : replay[i] = r
          /\ wire' = <<[type |-> "ready"]>> \o
               [i \in DOMAIN replay |-> [type |-> "waterfall", request |-> replay[i]]]
    BY DEF HostAcceptsSocket
  <1> DEFINE m == Cardinality(offered)
             tail == [i \in DOMAIN replay |-> [type |-> "waterfall", request |-> replay[i]]]
             head == <<[type |-> "ready"]>>
  <1>2. m \in Nat /\ DOMAIN replay = 1..m
    BY OfferedFinite
  <1>3. \A i \in 1..m : tail[i] = [type |-> "waterfall", request |-> replay[i]]
    BY <1>2
  <1>4. tail \in Seq(Frame) /\ Len(tail) = m
    <2>1. \A i \in 1..m : [type |-> "waterfall", request |-> replay[i]] \in Frame
      BY DEF TypeOK, Frame
    <2>2. tail \in [1..m -> Frame]
      BY <1>2, <2>1
    <2> QED
      BY <1>2, <2>2, SMT
  <1>5. head \in Seq(Frame) /\ Len(head) = 1 /\ head[1] = [type |-> "ready"]
    BY DEF Frame
  <1> HIDE DEF head, tail
  <1>6. /\ wire' = head \o tail
        /\ wire' \in Seq(Frame) /\ Len(wire') = 1 + m
        /\ \A i \in 1..(1 + m) :
             wire'[i] = IF i <= 1 THEN head[i] ELSE tail[i - 1]
    <2>1. wire' = head \o tail
      BY <1>1 DEF head, tail
    <2>2. /\ head \o tail \in Seq(Frame)
          /\ Len(head \o tail) = Len(head) + Len(tail)
          /\ \A i \in 1..(Len(head) + Len(tail)) :
               (head \o tail)[i] = IF i <= Len(head) THEN head[i]
                                                     ELSE tail[i - Len(head)]
      BY <1>4, <1>5, ConcatProperties, Zenon
    <2> QED
      BY <1>4, <1>5, <2>1, <2>2, Zenon
  <1>7. wire'[1] = [type |-> "ready"] /\ DOMAIN wire' = 1..(1 + m) /\ wire' # <<>>
    BY <1>2, <1>5, <1>6, LenProperties, EmptySeq
  <1>8. \A i \in 2..(1 + m) :
          wire'[i] = [type |-> "waterfall", request |-> replay[i - 1]]
    <2> SUFFICES ASSUME NEW i \in 2..(1 + m)
                 PROVE  wire'[i] = [type |-> "waterfall", request |-> replay[i - 1]]
      OBVIOUS
    <2>1. i \in 1..(1 + m) /\ ~(i <= 1) /\ i - 1 \in 1..m
      BY <1>2
    <2> QED
      BY <1>3, <1>6, <2>1
  <1>9. \A i \in 2..(1 + m) : wire'[i].type = "waterfall"
    <2>1. \A x : [type |-> "waterfall", request |-> x].type = "waterfall"
      OBVIOUS
    <2> QED
      BY <1>8, <2>1, Zenon
  <1>10. ASSUME NEW r \in offered
         PROVE  WillBeShown(r)'
    <2>1. PICK k \in 1..m : replay[k] = r
      BY <1>1, <1>2
    <2>2. k + 1 \in 2..(1 + m) /\ (k + 1) - 1 = k /\ k + 1 \in 0..(1 + m) /\ k + 1 # 0
      BY <1>2
    <2>3. wire'[k + 1] = [type |-> "waterfall", request |-> r]
      BY <1>8, <2>1, <2>2
    <2>4. \A j \in ((k + 1) + 1)..(1 + m) : ~Kills(wire'[j], r)
      <3> SUFFICES ASSUME NEW j \in ((k + 1) + 1)..(1 + m)
                   PROVE  ~Kills(wire'[j], r)
        OBVIOUS
      <3>1. j \in 2..(1 + m)
        BY <1>2
      <3>2. wire'[j].type = "waterfall"
        BY <1>9, <3>1
      <3> QED
        BY <3>2 DEF Kills
    <2> QED
      BY <1>6, <2>2, <2>3, <2>4 DEF WillBeShown
  <1>11. \A i \in DOMAIN wire' : i # 1 => i \in 2..(1 + m)
    BY <1>2, <1>7
  <1> QED
    BY <1>7, <1>9, <1>10, <1>11

(* The host answers for what it no longer offers.                           *)
LEMMA AnsweredInductive ==
  ASSUME TypeOK, AnsweredInv, [Next]_vars
  PROVE  AnsweredInv'
  <1> USE DEF AnsweredInv
  <1>1. ASSUME NEW view \in displayed, BeginResponse(view)
        PROVE  AnsweredInv'
    BY <1>1 DEF BeginResponse, hostVars
  <1>2. ASSUME NEW a \in answers, AnswerSucceeds(a) \/ AnswerFails(a)
        PROVE  AnsweredInv'
    BY <1>2 DEF AnswerSucceeds, AnswerFails, hostVars
  <1>3. ASSUME NEW a \in answers, HostTakesAnswer(a)
        PROVE  AnsweredInv'
    <2>1. /\ offered' = offered \ {a.delivery.request}
          /\ answered' = answered \cup {a.delivery.request}
          /\ answers' = (answers \ {a}) \cup {[a EXCEPT !.outcome = "taken"]}
      BY <1>3 DEF HostTakesAnswer
    <2>2. [a EXCEPT !.outcome = "taken"].delivery = a.delivery
      BY DEF TypeOK, Answer
    <2> QED
      BY <2>1, <2>2
  <1>4. ASSUME NEW r \in Requests, HostOffers(r) \/ HostWithdraws(r)
        PROVE  AnsweredInv'
    BY <1>4 DEF HostOffers, HostWithdraws, answerVars
  <1>5. ASSUME NEW s \in Sessions, HostRemovesSession(s)
        PROVE  AnsweredInv'
    BY <1>5 DEF HostRemovesSession, answerVars
  <1>6. CASE UNCHANGED <<answerVars, hostVars>>
    BY <1>6 DEF answerVars, hostVars
  <1> QED
    BY <1>1, <1>2, <1>3, <1>4, <1>5, <1>6
       DEF Next, vars, StartEventStreams, ServiceDisconnect, AbortedPumpEnds,
           PumpReconnects, HandleFrame, HandleReady, HandleWaterfall, HandleCancel,
           HandleRemoved, HostAcceptsSocket, SocketLost, Settle

(* The steps of the host that say something on the socket while it is up.   *)
Tells(f) ==
  /\ f \in Frame /\ f.type # "ready"
  /\ UNCHANGED <<pumpVars, pending>>
  /\ Send(<<f>>)

(* All but the answer it may keep to itself.                                *)
LEMMA HostTells ==
  ASSUME TypeOK
  PROVE  /\ \A r \in Requests : HostOffers(r) =>
              /\ Tells([type |-> "waterfall", request |-> r])
              /\ offered' = offered \cup {r}
         /\ \A r \in Requests : HostWithdraws(r) =>
              /\ Tells([type |-> "cancel", request |-> r])
              /\ offered' = offered \ {r}
         /\ \A s \in Sessions : HostRemovesSession(s) =>
              /\ Tells([type |-> "removed", session |-> s])
              /\ offered' = {r \in offered : Owner[r] # s}
         /\ \A a \in answers : HostTakesAnswer(a) =>
              /\ offered' = offered \ {a.delivery.request}
              /\ \/ Tells([type |-> "cancel", request |-> a.delivery.request])
                 \/ UNCHANGED <<pumpVars, pending, wire>>
  <1>1. \A r \in Requests : /\ [type |-> "waterfall", request |-> r] \in Frame
                            /\ [type |-> "cancel", request |-> r] \in Frame
    BY DEF Frame
  <1>2. \A s \in Sessions : [type |-> "removed", session |-> s] \in Frame
    BY DEF Frame
  <1>3. \A a \in answers : a.delivery.request \in Requests
    BY DEF TypeOK, Answer, Delivery
  <1>4. \A r \in Requests : HostOffers(r) =>
          /\ Tells([type |-> "waterfall", request |-> r])
          /\ offered' = offered \cup {r}
    BY <1>1 DEF HostOffers, Tells, storeVars
  <1>5. \A r \in Requests : HostWithdraws(r) =>
          /\ Tells([type |-> "cancel", request |-> r])
          /\ offered' = offered \ {r}
    BY <1>1 DEF HostWithdraws, Tells, storeVars
  <1>6. \A s \in Sessions : HostRemovesSession(s) =>
          /\ Tells([type |-> "removed", session |-> s])
          /\ offered' = {r \in offered : Owner[r] # s}
    BY <1>2 DEF HostRemovesSession, Tells, storeVars
  <1>7. \A a \in answers : HostTakesAnswer(a) =>
          /\ offered' = offered \ {a.delivery.request}
          /\ \/ Tells([type |-> "cancel", request |-> a.delivery.request])
             \/ UNCHANGED <<pumpVars, pending, wire>>
    BY <1>1, <1>3 DEF HostTakesAnswer, Tells, storeVars
  <1> QED
    BY <1>4, <1>5, <1>6, <1>7

(* The socket's order of frames.                                            *)
LEMMA WireInductive ==
  ASSUME TypeOK, ConnectionInv, WireInv, [Next]_vars
  PROVE  WireInv'
  <1>1. CASE StartEventStreams \/ ServiceDisconnect
    BY <1>1 DEF StartEventStreams, ServiceDisconnect, Abort, WireInv
  <1>2. CASE PumpReconnects
    BY <1>2 DEF PumpReconnects, WireInv
  <1>3. ASSUME NEW t \in {"ready", "waterfall", "cancel", "removed"}, Handles(t),
               pump' = pump, generation' = generation \/ generation' > 0,
               generation = 0 /\ t # "ready" => generation' = 0,
               t = "ready" => generation' > 0
        PROVE  WireInv'
    <2>1. wire \in Seq(Frame) /\ wire # <<>> /\ wire' = Tail(wire) /\ Head(wire).type = t
          /\ pump \in {"up", "lost"}
      BY <1>3 DEF Handles, TypeOK
    <2>2. /\ Len(wire) \in Nat /\ Len(wire) >= 1
          /\ DOMAIN wire = 1..Len(wire) /\ Head(wire) = wire[1]
          /\ DOMAIN wire' = 1..(Len(wire) - 1)
          /\ \A i \in 1..(Len(wire) - 1) : wire'[i] = wire[i + 1]
      BY <2>1, TailOfWire
    <2>3. \A i \in DOMAIN wire' : wire'[i].type # "ready"
      <3> SUFFICES ASSUME NEW i \in 1..(Len(wire) - 1)
                   PROVE  wire'[i].type # "ready"
        BY <2>2
      <3>1. i + 1 \in DOMAIN wire /\ i + 1 # 1
        BY <2>2
      <3>2. wire[i + 1].type # "ready"
        BY <3>1 DEF WireInv
      <3> QED
        BY <2>2, <3>2
    <2>4. ~(pump = "up" /\ generation' = 0)
      BY <1>3, <2>1, <2>2 DEF WireInv, TypeOK
    <2> QED
      BY <1>3, <2>1, <2>3, <2>4 DEF WireInv
  <1>4. CASE HandleReady
    <2>1. generation' > 0 /\ pump' = pump /\ Handles("ready")
      BY <1>4 DEF HandleReady, TypeOK
    <2> QED
      BY <1>3, <2>1
  <1>5. CASE HandleWaterfall
    <2>1. generation' = generation /\ pump' = pump /\ Handles("waterfall")
      BY <1>5 DEF HandleWaterfall, pumpVars
    <2> QED
      BY <1>3, <2>1
  <1>6. CASE HandleCancel
    <2>1. generation' = generation /\ pump' = pump /\ Handles("cancel")
      BY <1>6 DEF HandleCancel, pumpVars
    <2> QED
      BY <1>3, <2>1
  <1>7. CASE HandleRemoved
    <2>1. generation' = generation /\ pump' = pump /\ Handles("removed")
      BY <1>7 DEF HandleRemoved, pumpVars
    <2> QED
      BY <1>3, <2>1
  <1>8. CASE HostAcceptsSocket
    <2>1. pump' = "up" /\ generation' = generation
      BY <1>8 DEF HostAcceptsSocket
    <2>2. \A i \in DOMAIN wire' : wire'[i].type = "ready" => i = 1
      BY <1>8, ReplayOffers
    <2>3. wire' # <<>> /\ wire'[1].type = "ready"
      BY <1>8, ReplayOffers
    <2> QED
      BY <2>1, <2>2, <2>3 DEF WireInv
  <1>9. CASE SocketLost
    BY <1>9 DEF SocketLost, WireInv
  <1>10. ASSUME NEW f, Tells(f)
         PROVE  WireInv'
    <2>1. f \in Frame /\ f.type # "ready" /\ pump' = pump /\ generation' = generation
      BY <1>10 DEF Tells, pumpVars
    <2>2. CASE pump # "up"
      BY <1>10, <2>1, <2>2 DEF Tells, Send, WireInv
    <2>3. CASE pump = "up"
      <3>1. wire \in Seq(Frame) /\ wire' = wire \o <<f>>
        BY <1>10, <2>3 DEF Tells, Send, TypeOK
      <3>2. /\ Len(wire) \in Nat /\ DOMAIN wire = 1..Len(wire)
            /\ Len(wire') = Len(wire) + 1 /\ DOMAIN wire' = 1..(Len(wire) + 1)
            /\ \A i \in 1..Len(wire) : wire'[i] = wire[i]
            /\ wire'[Len(wire) + 1] = f
        BY <2>1, <3>1, WireWithFrame
      <3>3. \A i \in DOMAIN wire' : i \in 1..Len(wire) \/ i = Len(wire) + 1
        BY <3>2
      <3>4. \A i \in DOMAIN wire' : wire'[i].type = "ready" => i = 1
        BY <2>1, <3>2, <3>3 DEF WireInv
      <3>5. wire # <<>> => wire' # <<>> /\ wire'[1] = wire[1]
        <4> SUFFICES ASSUME wire # <<>>
                     PROVE  wire' # <<>> /\ wire'[1] = wire[1]
          OBVIOUS
        <4>1. Len(wire) >= 1
          BY <3>1, <3>2, EmptySeq
        <4>2. 1 \in 1..Len(wire) /\ DOMAIN wire' # {}
          BY <3>2, <4>1
        <4> QED
          BY <3>2, <4>2
      <3> QED
        BY <2>1, <2>3, <3>4, <3>5 DEF WireInv
    <2> QED
      BY <2>2, <2>3
  <1>11. CASE UNCHANGED <<pump, generation, wire>>
    BY <1>11 DEF WireInv
  <1>12. CASE \/ \E r \in Requests : HostOffers(r) \/ HostWithdraws(r)
              \/ \E s \in Sessions : HostRemovesSession(s)
              \/ \E a \in answers : HostTakesAnswer(a)
    BY <1>10, <1>11, <1>12, HostTells DEF pumpVars
  <1>13. CASE \/ \E g \in closing : AbortedPumpEnds(g)
              \/ \E view \in displayed : BeginResponse(view)
              \/ \E a \in answers : Settle(a)
              \/ UNCHANGED vars
    BY <1>11, <1>13 DEF AbortedPumpEnds, BeginResponse, Settle, AnswerSucceeds,
                        AnswerFails, pumpVars, vars
  <1> QED
    BY <1>1, <1>2, <1>4, <1>5, <1>6, <1>7, <1>8, <1>9, <1>12, <1>13
       DEF Next, HandleFrame

(* What a handler does to the records of one request.                       *)
LEMMA HandlerShows ==
  ASSUME SafetyInv, WireInv, pump = "up", HandleFrame, NEW r \in Requests
  PROVE  /\ wire \in Seq(Frame) /\ wire # <<>> /\ wire' = Tail(wire)
         /\ OnDisplay(r) /\ ~Kills(Head(wire), r) => OnDisplay(r)'
         /\ Head(wire) = [type |-> "waterfall", request |-> r] => OnDisplay(r)'
  <1> USE DEF SafetyInv
  <1>1. wire \in Seq(Frame) /\ wire # <<>> /\ wire' = Tail(wire)
    BY DEF HandleFrame, HandleReady, HandleWaterfall, HandleCancel, HandleRemoved,
           Handles, TypeOK
  <1>2. CASE HandleReady
    BY <1>1, <1>2 DEF HandleReady, Handles, Kills
  <1>3. CASE HandleWaterfall
    <2> DEFINE q == Head(wire).request
    <2>1. Head(wire).type = "waterfall" /\ Head(wire) = wire[1]
      BY <1>1, <1>3, TailOfWire DEF HandleWaterfall, Handles
    <2>2. generation # 0 /\ connection = generation
      BY <2>1 DEF WireInv, ConnectionInv
    <2>3. CASE \E d \in pending : KeyOf(d) = Key(generation, q)
      <3>1. pending' = pending
        BY <1>3, <2>3 DEF HandleWaterfall
      <3>2. \E d \in pending : d.request = q
        BY <2>3 DEF KeyOf, Key
      <3> QED
        BY <1>1, <3>1, <3>2 DEF OnDisplay
    <2>4. CASE ~ \E d \in pending : KeyOf(d) = Key(generation, q)
      <3>1. pending' = pending \cup {[connection |-> generation, request |-> q,
                                      serial |-> deliveries + 1]}
        BY <1>3, <2>2, <2>4 DEF HandleWaterfall
      <3>2. OnDisplay(r) => OnDisplay(r)'
        BY <3>1 DEF OnDisplay
      <3>3. ASSUME q = r PROVE OnDisplay(r)'
        <4> DEFINE d == [connection |-> generation, request |-> q, serial |-> deliveries + 1]
        <4>1. d \in pending' /\ d.request = r
          BY <3>1, <3>3
        <4> QED
          BY <4>1, Zenon DEF OnDisplay
      <3> QED
        BY <1>1, <3>2, <3>3
    <2> QED
      BY <2>3, <2>4
  <1>4. CASE HandleCancel
    <2>1. Head(wire).type = "cancel"
      BY <1>4 DEF HandleCancel, Handles
    <2>2. \A d \in pending : d.request # Head(wire).request => d \in pending'
      BY <1>4 DEF HandleCancel, Remaining, KeyOf, Key
    <2> QED
      BY <1>1, <2>1, <2>2 DEF OnDisplay, Kills
  <1>5. CASE HandleRemoved
    <2>1. Head(wire).type = "removed"
      BY <1>5 DEF HandleRemoved, Handles
    <2>2. \A d \in pending : Owner[d.request] # Head(wire).session => d \in pending'
      BY <1>5 DEF HandleRemoved, Remaining
    <2> QED
      BY <1>1, <2>1, <2>2 DEF OnDisplay, Kills
  <1> QED
    BY <1>1, <1>2, <1>3, <1>4, <1>5 DEF HandleFrame

(* The host's frames are about what it ceases to offer.                     *)
LEMMA TellingKeeps ==
  ASSUME TypeOK, NoLostRequest, pump' = "up", NEW f, Tells(f), offered' \subseteq offered,
         \A r \in offered' : ~Kills(f, r)
  PROVE  NoLostRequest'
  <1>1. /\ wire \in Seq(Frame) /\ f \in Frame /\ pump = "up"
        /\ wire' = wire \o <<f>> /\ pending' = pending
    BY DEF Tells, Send, pumpVars, TypeOK
  <1>2. \A r \in offered' : WillBeShown(r)'
    BY <1>1, SentShown DEF NoLostRequest
  <1> QED
    BY <1>2 DEF NoLostRequest

(* Every step keeps what is on offer on its way to the user.                *)
LEMMA OfferInductive ==
  ASSUME SafetyInv, AnsweredInv, WireInv, NoLostRequest, [Next]_vars
  PROVE  NoLostRequest'
  <1> USE DEF SafetyInv
  <1> SUFFICES ASSUME pump' = "up"
               PROVE  NoLostRequest'
    BY DEF NoLostRequest
  <1>1. CASE HandleFrame
    <2>1. pump = "up" /\ offered' = offered
      BY <1>1 DEF HandleFrame, HandleReady, HandleWaterfall, HandleCancel,
                  HandleRemoved, pumpVars, hostVars
    <2>2. ASSUME NEW r \in offered
          PROVE  WillBeShown(r)'
      <3>1. r \in Requests /\ WillBeShown(r)
        BY <2>1 DEF NoLostRequest, TypeOK
      <3> QED
        BY <1>1, <2>1, <3>1, HandlerShows, HandledShown
    <2> QED
      BY <2>1, <2>2 DEF NoLostRequest
  <1>2. CASE HostAcceptsSocket
    <2>1. offered' = offered
      BY <1>2 DEF HostAcceptsSocket, hostVars
    <2> QED
      BY <1>2, <2>1, ReplayOffers DEF NoLostRequest
  <1>3. ASSUME NEW r \in Requests, HostOffers(r)
        PROVE  NoLostRequest'
    <2> DEFINE f == [type |-> "waterfall", request |-> r]
    <2>1. Tells(f) /\ offered' = offered \cup {r}
      BY <1>3, HostTells
    <2>2. /\ wire \in Seq(Frame) /\ f \in Frame /\ pump = "up"
          /\ wire' = wire \o <<f>> /\ pending' = pending
      BY <2>1 DEF Tells, Send, pumpVars, TypeOK
    <2>3. \A q \in offered : ~Kills(f, q)
      BY DEF Kills
    <2>4. \A q \in offered : WillBeShown(q)'
      BY <2>2, <2>3, SentShown DEF NoLostRequest
    <2>5. WillBeShown(r)'
      BY <2>2, OfferShown
    <2> QED
      BY <2>1, <2>4, <2>5 DEF NoLostRequest
  <1>4. ASSUME NEW r \in Requests, HostWithdraws(r)
        PROVE  NoLostRequest'
    <2> DEFINE f == [type |-> "cancel", request |-> r]
    <2>1. Tells(f) /\ offered' = offered \ {r}
      BY <1>4, HostTells
    <2>2. \A q \in offered' : ~Kills(f, q)
      BY <2>1 DEF Kills
    <2> QED
      BY <2>1, <2>2, TellingKeeps
  <1>5. ASSUME NEW s \in Sessions, HostRemovesSession(s)
        PROVE  NoLostRequest'
    <2> DEFINE f == [type |-> "removed", session |-> s]
    <2>1. Tells(f) /\ offered' = {r \in offered : Owner[r] # s}
      BY <1>5, HostTells
    <2>2. \A q \in offered' : ~Kills(f, q)
      BY <2>1 DEF Kills
    <2> QED
      BY <2>1, <2>2, TellingKeeps
  <1>6. ASSUME UNCHANGED <<pump, wire>>, offered' \subseteq offered,
               \A d \in pending : d.request \in offered' => d \in pending'
        PROVE  NoLostRequest'
    <2>1. \A r \in offered' : OnDisplay(r) => OnDisplay(r)'
      BY <1>6 DEF OnDisplay
    <2>2. \A r \in offered' : WillBeShown(r)'
      BY <1>6, <2>1, SameShown DEF NoLostRequest
    <2> QED
      BY <2>2 DEF NoLostRequest
  <1>7. ASSUME NEW a \in answers, HostTakesAnswer(a)
        PROVE  NoLostRequest'
    <2> DEFINE f == [type |-> "cancel", request |-> a.delivery.request]
    <2>1. offered' = offered \ {a.delivery.request}
      BY <1>7, HostTells
    <2>2. CASE Tells(f)
      <3>1. \A q \in offered' : ~Kills(f, q)
        BY <2>1 DEF Kills
      <3> QED
        BY <2>1, <2>2, <3>1, TellingKeeps
    <2>3. CASE UNCHANGED <<pumpVars, pending, wire>>
      BY <1>6, <2>1, <2>3 DEF pumpVars
    <2> QED
      BY <1>7, <2>2, <2>3, HostTells
  <1>8. ASSUME NEW a \in answers, AnswerSucceeds(a)
        PROVE  NoLostRequest'
    <2>1. /\ UNCHANGED <<pump, wire, offered>> /\ pending' = pending \ Matching(a.delivery)
          /\ a.outcome = "taken"
      BY <1>8 DEF AnswerSucceeds, Remaining, pumpVars, hostVars
    <2>2. a.delivery.request \notin offered
      BY <2>1 DEF AnsweredInv
    <2>3. \A d \in pending : d.request \in offered => d \in pending'
      BY <2>1, <2>2 DEF Matching
    <2> QED
      BY <1>6, <2>1, <2>3
  <1>9. ASSUME NEW g \in closing, AbortedPumpEnds(g)
        PROVE  NoLostRequest'
    <2>1. connection # g
      BY DEF ConnectionInv
    <2> QED
      BY <1>6, <1>9, <2>1 DEF AbortedPumpEnds, Disconnect, hostVars
  <1>10. CASE \/ \E view \in displayed : BeginResponse(view)
              \/ \E a \in answers : AnswerFails(a)
              \/ UNCHANGED vars
    BY <1>6, <1>10 DEF BeginResponse, AnswerFails, vars, pumpVars, storeVars, hostVars
  <1>11. CASE StartEventStreams \/ ServiceDisconnect \/ PumpReconnects \/ SocketLost
    BY <1>11 DEF StartEventStreams, ServiceDisconnect, PumpReconnects, SocketLost
  <1> QED
    BY <1>1, <1>2, <1>3, <1>4, <1>5, <1>7, <1>8, <1>9, <1>10, <1>11 DEF Next, Settle

(* No request is lost: while the stream is up, what the host offers is on   *)
(* display or will be once the frames under way are handled, whatever was   *)
(* answered, refused, repeated, cancelled and offered again before.         *)
THEOREM NothingIsLost == Spec => []NoLostRequest
  <1> DEFINE IInv == SafetyInv /\ AnsweredInv /\ WireInv /\ NoLostRequest
  <1>1. Init => IInv
    <2> SUFFICES ASSUME Init
                 PROVE  IInv
      OBVIOUS
    <2>1. SafetyInv
      BY SafetyInit
    <2> QED
      BY <2>1 DEF Init, AnsweredInv, WireInv, NoLostRequest
  <1>2. IInv /\ [Next]_vars => IInv'
    BY SafetyInductive, AnsweredInductive, WireInductive, OfferInductive DEF SafetyInv
  <1> QED
    BY <1>1, <1>2, PTL DEF Spec

-----------------------------------------------------------------------------
(* The store implements the ledger.                                         *)

Outstanding == {a.delivery.serial : a \in answers}

(* A request's ticket is the serial number of its record.                   *)
LEMMA TicketOfRecord ==
  ASSUME OwnedByConnection, NEW d \in pending
  PROVE  Ticket(d.request) = d.serial
  BY DEF OwnedByConnection, Ticket, OnDisplay

(* A request that is not on display has no ticket.                          *)
LEMMA TicketOfNothing ==
  ASSUME NEW r, ~OnDisplay(r)
  PROVE  Ticket(r) = 0
  BY DEF Ticket

(* A ticket that is not 0 stands for one record.                            *)
LEMMA RecordOfTicket ==
  ASSUME NEW r, OnDisplay(r)
  PROVE  \E d \in pending : d.request = r /\ Ticket(r) = d.serial
  BY DEF Ticket, OnDisplay

(* The settled answer's ticket is no other answer's.                        *)
LEMMA OneOutstanding ==
  ASSUME SafetyInv, NEW a \in answers, answers' = answers \ {a}
  PROVE  Outstanding' = Outstanding \ {a.delivery.serial}
  <1>1. \A b \in answers : b.delivery.serial = a.delivery.serial => b = a
    BY DEF SafetyInv, RecordsInv, SerialInv, Known, OneAnswerPerDelivery
  <1> QED
    BY <1>1 DEF Outstanding

(* Records removed together with their locks: a withdrawal.                 *)
LEMMA RemovalWithdraws ==
  ASSUME SafetyInv, NEW D \in SUBSET pending, pending' = pending \ D,
         UNCHANGED <<answers, deliveries>>
  PROVE  Ledger!Next
  <1> DEFINE R == {d.request : d \in D}
  <1>1. R \in SUBSET Requests
    BY DEF SafetyInv, TypeOK, Delivery
  <1>2. ASSUME NEW r \in Requests
        PROVE  Ticket(r)' = IF r \in R THEN 0 ELSE Ticket(r)
    <2>1. CASE r \in R
      <3>1. PICK d \in D : d.request = r
        BY <2>1
      <3>2. \A e \in pending : e.request = r => e = d
        BY <3>1 DEF SafetyInv, RecordsInv, OwnedByConnection
      <3>3. ~OnDisplay(r)'
        BY <3>1, <3>2 DEF OnDisplay
      <3> QED
        BY <2>1, <3>3 DEF Ticket
    <2>2. CASE r \notin R
      <3>1. {d \in pending' : d.request = r} = {d \in pending : d.request = r}
        BY <2>2
      <3>2. OnDisplay(r)' <=> OnDisplay(r)
        BY <3>1 DEF OnDisplay
      <3>3. CASE OnDisplay(r)
        <4>1. PICK d \in pending : d.request = r
          BY <3>3 DEF OnDisplay
        <4>2. d \in pending'
          BY <3>1, <4>1
        <4>3. Ticket(r) = d.serial
          BY <4>1, TicketOfRecord DEF SafetyInv, RecordsInv
        <4>4. \A e \in pending' : e.request = r => e = d
          BY <4>1 DEF SafetyInv, RecordsInv, OwnedByConnection
        <4>5. Ticket(r)' = d.serial
          BY <3>2, <3>3, <4>1, <4>2, <4>4 DEF Ticket
        <4> QED
          BY <2>2, <4>3, <4>5
      <3>4. CASE ~OnDisplay(r)
        BY <2>2, <3>2, <3>4 DEF Ticket
      <3> QED
        BY <3>3, <3>4
    <2> QED
      BY <2>1, <2>2
  <1>3. [r \in Requests |-> Ticket(r)]' =
          [r \in Requests |-> IF r \in R THEN 0
                              ELSE [q \in Requests |-> Ticket(q)][r]]
    BY <1>2
  <1>4. Ledger!Withdraw(R)
    BY <1>3 DEF Ledger!Withdraw
  <1> QED
    BY <1>1, <1>4 DEF Ledger!Next

(* The tickets do not change when the records do not.                       *)
LEMMA SameTickets ==
  ASSUME pending' = pending
  PROVE  \A r \in Requests : Ticket(r)' = Ticket(r)
  BY DEF Ticket, OnDisplay

(* A waterfall frame shows its request under a new ticket, or does nothing. *)
LEMMA WaterfallShows ==
  ASSUME SafetyInv, HandleWaterfall
  PROVE  Ledger!Next \/ UNCHANGED Ledger!ledgerVars
  <1>1. PICK r \in Requests : r = Head(wire).request
    BY HandledTyped DEF HandleWaterfall, Handles, Frame, SafetyInv, TypeOK
  <1> DEFINE new == [connection |-> generation, request |-> r,
                     serial |-> deliveries + 1]
  <1>2. answers' = answers /\ connection' = connection
    BY DEF HandleWaterfall, answerVars
  <1>3. CASE pending' = pending /\ deliveries' = deliveries
    BY <1>2, <1>3, SameTickets DEF Ledger!ledgerVars
  <1>4. CASE /\ pending' = pending \cup {new} /\ deliveries' = deliveries + 1
             /\ \A d \in pending : KeyOf(d) # Key(generation, r)
    <2>1. \A d \in pending : d.request # r
      BY <1>4 DEF SafetyInv, RecordsInv, ConnectionInv, OwnedByConnection,
         KeyOf, Key
    <2>2. ~OnDisplay(r)
      BY <2>1 DEF OnDisplay
    <2>3. Ticket(r)' = deliveries + 1
      <3>1. new \in pending' /\ new.request = r /\ new.serial = deliveries + 1
        BY <1>4
      <3>2. \A e \in pending' : e.request = r => e = new
        BY <1>4, <2>1
      <3> QED
        BY <3>1, <3>2 DEF Ticket, OnDisplay
    <2>4. ASSUME NEW q \in Requests, q # r
          PROVE  Ticket(q)' = Ticket(q)
      <3>1. OnDisplay(q)' <=> OnDisplay(q)
        BY <1>4, <2>4 DEF OnDisplay
      <3>2. CASE OnDisplay(q)
        <4>1. PICK d \in pending : d.request = q
          BY <3>2 DEF OnDisplay
        <4>2. \A e \in pending' : e.request = q => e = d
          BY <1>4, <2>4, <4>1 DEF SafetyInv, RecordsInv, OwnedByConnection
        <4>3. Ticket(q)' = d.serial
          BY <1>4, <3>1, <3>2, <4>1, <4>2 DEF Ticket
        <4> QED
          BY <4>1, <4>3, TicketOfRecord DEF SafetyInv, RecordsInv
      <3>3. CASE ~OnDisplay(q)
        BY <3>1, <3>3 DEF Ticket
      <3> QED
        BY <3>2, <3>3
    <2>5. [q \in Requests |-> Ticket(q)]' =
            [[q \in Requests |-> Ticket(q)] EXCEPT ![r] = deliveries + 1]
      BY <1>1, <2>3, <2>4
    <2>6. Ledger!Show(r)
      BY <1>1, <1>2, <1>4, <2>2, <2>5, TicketOfNothing DEF Ledger!Show
    <2> QED
      BY <1>1, <2>6 DEF Ledger!Next
  <1> QED
    BY <1>1, <1>3, <1>4 DEF HandleWaterfall

(* A click that is taken answers the ticket on display.                     *)
LEMMA ClickAnswers ==
  ASSUME SafetyInv, NEW view \in displayed, BeginResponse(view)
  PROVE  Ledger!Next
  <1> DEFINE key == Key(view.connection, view.request)
  <1>1. PICK d \in pending :
          /\ KeyOf(d) = key
          /\ answers' = answers \cup {[id |-> attempts + 1, delivery |-> d,
                                       clicked |-> view, outcome |-> "none"]}
    BY DEF BeginResponse
  <1>2. pending' = pending /\ deliveries' = deliveries /\ key \notin replying
    BY DEF BeginResponse
  <1>3. d.request \in Requests /\ d.serial # 0
    BY DEF SafetyInv, TypeOK, Delivery
  <1>4. Ticket(d.request) = d.serial
    BY TicketOfRecord DEF SafetyInv, RecordsInv
  <1>5. d.serial \notin Outstanding
    BY <1>1, <1>2 DEF SafetyInv, RecordsInv, LockInv, SerialInv, Known, Outstanding
  <1>6. Outstanding' = Outstanding \cup {d.serial}
    <2> DEFINE new == [id |-> attempts + 1, delivery |-> d, clicked |-> view,
                       outcome |-> "none"]
    <2>1. answers' = answers \cup {new} /\ new.delivery.serial = d.serial
      BY <1>1
    <2> HIDE DEF new
    <2> QED
      BY <2>1 DEF Outstanding
  <1>7. Ledger!Answer(d.request)
    BY <1>2, <1>3, <1>4, <1>5, <1>6, SameTickets
       DEF Ledger!Answer, Ledger!Answering, Outstanding
  <1> QED
    BY <1>3, <1>7 DEF Ledger!Next

(* A successful answer retires its own ticket and no other.                 *)
LEMMA SuccessAccepts ==
  ASSUME SafetyInv, NEW a \in answers, AnswerSucceeds(a)
  PROVE  Ledger!Next
  <1> DEFINE t == a.delivery.serial
             D == {e \in pending : e = a.delivery}
  <1>1. /\ answers' = answers \ {a} /\ deliveries' = deliveries
        /\ pending' = pending \ D
    BY DEF AnswerSucceeds, Remaining, Matching
  <1>2. Outstanding' = Outstanding \ {t} /\ t \in Outstanding
    BY <1>1, OneOutstanding DEF Outstanding
  <1>3. t # 0
    BY DEF SafetyInv, TypeOK, Answer, Delivery
  <1>4. ASSUME NEW r \in Requests
        PROVE  Ticket(r)' = IF Ticket(r) = t THEN 0 ELSE Ticket(r)
    <2>1. CASE ~OnDisplay(r)
      <3>1. ~OnDisplay(r)'
        BY <1>1, <2>1 DEF OnDisplay
      <3> QED
        BY <2>1, <3>1 DEF Ticket
    <2>2. CASE OnDisplay(r)
      <3>1. PICK d \in pending : d.request = r /\ Ticket(r) = d.serial
        BY <2>2, RecordOfTicket
      <3>2. \A e \in pending : e.request = r => e = d
        BY <3>1 DEF SafetyInv, RecordsInv, OwnedByConnection
      <3>3. d.serial = t <=> d = a.delivery
        BY <3>1 DEF SafetyInv, RecordsInv, SerialInv, Known
      <3>4. CASE d = a.delivery
        <4>1. ~OnDisplay(r)'
          BY <1>1, <3>2, <3>4 DEF OnDisplay
        <4> QED
          BY <3>1, <3>4, <4>1 DEF Ticket
      <3>5. CASE d # a.delivery
        <4>1. d \in pending' /\ \A e \in pending' : e.request = r => e = d
          BY <1>1, <3>1, <3>2, <3>5
        <4>2. Ticket(r)' = d.serial
          BY <3>1, <4>1 DEF Ticket, OnDisplay
        <4> QED
          BY <3>1, <3>3, <3>5, <4>2
      <3> QED
        BY <3>4, <3>5
    <2> QED
      BY <2>1, <2>2
  <1>5. [r \in Requests |-> Ticket(r)]' =
          [r \in Requests |-> IF [q \in Requests |-> Ticket(q)][r] = t THEN 0
                              ELSE [q \in Requests |-> Ticket(q)][r]]
    BY <1>4
  <1>6. Ledger!Accepted(t)
    BY <1>1, <1>2, <1>5 DEF Ledger!Accepted, Outstanding
  <1> QED
    BY <1>2, <1>6 DEF Ledger!Next, Outstanding

(* A failed answer leaves the offer as it is.                               *)
LEMMA FailureRefuses ==
  ASSUME SafetyInv, NEW a \in answers, AnswerFails(a)
  PROVE  Ledger!Next
  <1> DEFINE t == a.delivery.serial
  <1>1. answers' = answers \ {a} /\ deliveries' = deliveries /\ pending' = pending
    BY DEF AnswerFails
  <1>2. Outstanding' = Outstanding \ {t} /\ t \in Outstanding
    BY <1>1, OneOutstanding DEF Outstanding
  <1>3. Ledger!Refused(t)
    BY <1>1, <1>2, SameTickets DEF Ledger!Refused, Outstanding
  <1> QED
    BY <1>2, <1>3 DEF Ledger!Next, Outstanding

(* Every step of the store is a step of the ledger or changes nothing in it. *)
LEMMA StepImplementsLedger ==
  SafetyInv /\ [Next]_vars => [Ledger!Next]_(Ledger!ledgerVars)
  <1> SUFFICES ASSUME SafetyInv, [Next]_vars
               PROVE  Ledger!Next \/ UNCHANGED Ledger!ledgerVars
    OBVIOUS
  <1>1. CASE \/ StartEventStreams \/ ServiceDisconnect \/ PumpReconnects
             \/ HandleReady \/ HandleCancel \/ HandleRemoved
             \/ \E g \in closing : AbortedPumpEnds(g)
    <2>1. UNCHANGED <<answers, deliveries>>
      BY <1>1 DEF StartEventStreams, ServiceDisconnect, PumpReconnects,
         HandleReady, HandleCancel, HandleRemoved, AbortedPumpEnds, answerVars
    <2>2. \/ pending' = {}
          \/ pending' = pending
          \/ \E D \in SUBSET pending : pending' = pending \ D
      BY <1>1 DEF StartEventStreams, ServiceDisconnect, PumpReconnects,
         HandleReady, HandleCancel, HandleRemoved, AbortedPumpEnds, Disconnect,
         DisconnectNow, Remaining
    <2>3. PICK D \in SUBSET pending : pending' = pending \ D
      <3>1. CASE pending' = {}
        <4>1. pending' = pending \ pending
          BY <3>1
        <4> QED
          BY <4>1
      <3>2. CASE pending' = pending
        <4>1. pending' = pending \ {}
          BY <3>2
        <4> QED
          BY <4>1
      <3> QED
        BY <2>2, <3>1, <3>2
    <2> QED
      BY <2>1, <2>3, RemovalWithdraws
  <1>2. CASE HandleWaterfall
    BY <1>2, WaterfallShows
  <1>3. ASSUME NEW view \in displayed, BeginResponse(view)
        PROVE  Ledger!Next
    BY <1>3, ClickAnswers
  <1>4. ASSUME NEW a \in answers, Settle(a)
        PROVE  Ledger!Next
    BY <1>4, SuccessAccepts, FailureRefuses DEF Settle
  <1>5. ASSUME NEW a \in answers, HostTakesAnswer(a)
        PROVE  UNCHANGED Ledger!ledgerVars
    <2> DEFINE taken == [a EXCEPT !.outcome = "taken"]
    <2>1. /\ answers' = (answers \ {a}) \cup {taken}
          /\ pending' = pending /\ deliveries' = deliveries
      BY <1>5 DEF HostTakesAnswer, storeVars
    <2>2. taken.delivery = a.delivery
      BY DEF SafetyInv, TypeOK, Answer
    <2> HIDE DEF taken
    <2>3. Outstanding' = Outstanding
      BY <2>1, <2>2 DEF Outstanding
    <2> QED
      BY <2>1, <2>3, SameTickets DEF Ledger!ledgerVars, Outstanding
  <1>6. CASE \/ HostAcceptsSocket \/ SocketLost
             \/ \E r \in Requests : HostOffers(r) \/ HostWithdraws(r)
             \/ \E s \in Sessions : HostRemovesSession(s)
             \/ UNCHANGED vars
    <2>1. UNCHANGED <<pending, deliveries, answers>>
      BY <1>6 DEF HostAcceptsSocket, SocketLost, HostOffers, HostWithdraws,
         HostRemovesSession, vars, answerVars, storeVars
    <2> QED
      BY <2>1, SameTickets DEF Ledger!ledgerVars
  <1> QED
    BY <1>1, <1>2, <1>3, <1>4, <1>5, <1>6 DEF Next, HandleFrame

(* Every behaviour of the store, its pumps and the host is one of the       *)
(* ledger: an outcome concerns the delivery it was sent for and no other.   *)
THEOREM StoreImplementsLedger == Spec => ImplementsLedger
  <1>1. Init => Ledger!Init
    BY DEF Init, Ledger!Init, Ticket, OnDisplay
  <1> QED
    BY <1>1, StepImplementsLedger, SafetyInvariant, PTL
       DEF Spec, ImplementsLedger, Ledger!Spec
=============================================================================
