-------------------------- MODULE GatewayStateProofs -------------------------
(***************************************************************************)
(* Proofs about GatewayState: what holds of a component by itself holds in  *)
(* the composition, where one component steps and the others rest.          *)
(***************************************************************************)
EXTENDS GatewayState, FiniteSetTheorems, SequenceTheorems, TLAPS

-----------------------------------------------------------------------------
(* The client of the transport.                                             *)

CallStates == Client!Settled \cup {"auth", "sent"}
GeneratorStates == {"idle", "auth", "running", "waiting", "yielded", "returned", "threw"}

(* A call that the close found before its fetch carries the abort with it,  *)
(* so that it cannot leave afterwards.                                      *)
AbortsArrive ==
  closed => \A c \in Requests :
    calls[c].kind \in Client!Abortable =>
      /\ calls[c].state # "sent"
      /\ calls[c].state = "auth" => calls[c].aborted

(* The stream has a socket once it is past the exchange, and an aborted     *)
(* signal has closed it.                                                    *)
SocketInv ==
  /\ generator \in {"idle", "auth"} => socket = "none"
  /\ generator \in {"running", "waiting", "yielded"} => socket # "none"
  /\ signal => socket \notin {"connecting", "open"}

(* As long as the host may send, no item is missing between the one yielded *)
(* and the last one sent.                                                   *)
ItemsAreComplete ==
  (socket # "closed" /\ pushed # Client!Finished) =>
    /\ ~failure
    /\ \A i \in DOMAIN items : items[i] # Client!End
    /\ pushed = delivered + Len(items)

(* The items of the inbox follow the one yielded, and nothing follows an    *)
(* end but another.                                                         *)
ItemsInOrder ==
  /\ \A i \in DOMAIN items : items[i] # Client!End => items[i] = delivered + i
  /\ \A i, j \in DOMAIN items : (i < j /\ items[i] = Client!End) => items[j] = Client!End

(* A generator that waits has nothing to take; the end of its socket has    *)
(* been told to one that does not.                                          *)
EndIsTold ==
  /\ generator = "waiting" => items = <<>> /\ ~failure /\ socket # "closed"
  /\ (generator \in {"running", "yielded"} /\ socket = "closed") =>
       failure \/ \E i \in DOMAIN items : items[i] = Client!End

-----------------------------------------------------------------------------
(* Sequences.                                                              *)

(* Appending to the inbox leaves what was in it where it was.               *)
LEMMA Appended ==
  ASSUME NEW s \in Seq(Nat), NEW x \in Nat
  PROVE  /\ Append(s, x) \in Seq(Nat)
         /\ Len(Append(s, x)) = Len(s) + 1
         /\ DOMAIN Append(s, x) = 1..(Len(s) + 1)
         /\ DOMAIN s = 1..Len(s)
         /\ \A i \in 1..Len(s) : Append(s, x)[i] = s[i]
         /\ Append(s, x)[Len(s) + 1] = x
  BY AppendProperties, LenProperties

(* Taking the head of the inbox moves the others up by one.                 *)
LEMMA Taken ==
  ASSUME NEW s \in Seq(Nat), s # <<>>
  PROVE  /\ Head(s) = s[1] /\ Head(s) \in Nat
         /\ Tail(s) \in Seq(Nat)
         /\ Len(s) \in Nat /\ Len(s) >= 1 /\ Len(Tail(s)) = Len(s) - 1
         /\ DOMAIN s = 1..Len(s)
         /\ DOMAIN Tail(s) = 1..(Len(s) - 1)
         /\ \A i \in 1..(Len(s) - 1) : Tail(s)[i] = s[i + 1]
  <1>1. Len(s) \in Nat /\ DOMAIN s = 1..Len(s) /\ Len(s) >= 1
    BY EmptySeq, LenProperties
  <1>2. Tail(s) \in Seq(Nat) /\ Len(Tail(s)) = Len(s) - 1
    BY HeadTailProperties
  <1> QED
    BY <1>1, <1>2, HeadTailProperties, LenProperties

-----------------------------------------------------------------------------
(* Unary calls.                                                             *)

CallsInv ==
  /\ closed \in BOOLEAN
  /\ calls \in [Requests -> [kind : Client!Kinds, state : CallStates, aborted : BOOLEAN]]
  /\ AbortsArrive

(* A close finds every call through callRaw and marks those that have not   *)
(* left yet; a call that is made later does not leave at all.               *)
LEMMA CallsSafe ==
  ASSUME CallsInv, [Client!Next]_(Client!vars)
  PROVE  CallsInv'
  <1> USE DEF CallsInv, AbortsArrive, CallStates, Client!Settled, Client!Kinds, Client!Abortable
  <1>1. ASSUME NEW c \in Requests, NEW kind \in Client!Kinds, Client!Begin(c, kind)
        PROVE  CallsInv'
    BY <1>1 DEF Client!Begin, Client!streamVars
  <1>2. ASSUME NEW c \in Requests, Client!Authenticated(c)
        PROVE  CallsInv'
    BY <1>2 DEF Client!Authenticated, Client!Sent, Client!Ends
  <1>3. ASSUME NEW c \in Requests, Client!ExchangeFails(c) \/ Client!Answered(c)
               \/ Client!TimesOut(c)
        PROVE  CallsInv'
    <2>1. PICK state \in {"done", "failed"} : calls' = [calls EXCEPT ![c].state = state]
      BY <1>3 DEF Client!ExchangeFails, Client!Answered, Client!TimesOut, Client!Ends
    <2>2. closed' = closed
      BY <1>3 DEF Client!ExchangeFails, Client!Answered, Client!TimesOut
    <2> QED
      BY <2>1, <2>2
  <1>4. CASE Client!AbortPendingRequests
    BY <1>4 DEF Client!AbortPendingRequests
  <1>5. CASE UNCHANGED Client!callVars
    BY <1>5 DEF Client!callVars
  <1> QED
    BY <1>1, <1>2, <1>3, <1>4, <1>5
       DEF Client!Next, Client!vars, Client!OpenStream, Client!Connect, Client!Abort,
           Client!SocketOpens, Client!Message,
           Client!SocketEnds, Client!Take, Client!Drained, Client!Stops, Client!Consumed

-----------------------------------------------------------------------------
(* The stream.                                                              *)

ItemsTypeOK ==
  /\ generator \in GeneratorStates
  /\ signal \in BOOLEAN
  /\ socket \in {"none", "connecting", "open", "closing", "closed"}
  /\ items \in Seq(Nat)
  /\ failure \in BOOLEAN
  /\ pushed \in Nat /\ delivered \in Nat

ItemsInv == ItemsTypeOK /\ SocketInv /\ ItemsAreComplete /\ ItemsInOrder /\ EndIsTold

(* The steps that leave the inbox alone.                                    *)
LEMMA ItemsRest ==
  ASSUME ItemsInv,
         \/ Client!OpenStream \/ Client!Connect \/ Client!Abort \/ Client!SocketOpens
            \/ Client!Drained \/ Client!Stops \/ Client!Consumed
         \/ UNCHANGED Client!streamVars
  PROVE  ItemsInv'
  <1> USE DEF ItemsInv, ItemsTypeOK, GeneratorStates, SocketInv, ItemsAreComplete,
              ItemsInOrder, EndIsTold
  <1>1. CASE Client!OpenStream
    BY <1>1 DEF Client!OpenStream
  <1>2. CASE Client!Connect
    BY <1>2 DEF Client!Connect
  <1>3. CASE Client!Abort
    BY <1>3 DEF Client!Abort
  <1>4. CASE Client!SocketOpens
    BY <1>4 DEF Client!SocketOpens
  <1>5. CASE Client!Drained
    BY <1>5 DEF Client!Drained, Client!Leaves
  <1>6. CASE Client!Stops
    BY <1>6 DEF Client!Stops, Client!Leaves
  <1>7. CASE Client!Consumed
    BY <1>7 DEF Client!Consumed, Client!Leaves
  <1>8. CASE UNCHANGED Client!streamVars
    BY <1>8 DEF Client!streamVars
  <1> QED
    BY <1>1, <1>2, <1>3, <1>4, <1>5, <1>6, <1>7, <1>8

(* An item of the host, while it may send.                                  *)
LEMMA ItemArrives ==
  ASSUME Client!ClientAssumption, ItemsInv, socket \in {"open", "closing"},
         pushed < MaxItems, pushed' = pushed + 1, Client!Enqueue(pushed + 1),
         UNCHANGED <<signal, socket, delivered>>, ~Client!Over
  PROVE  ItemsInv'
  <1> DEFINE n == Len(items)
  <1>1. /\ items' = Append(items, pushed + 1) /\ n \in Nat
        /\ pushed # Client!Finished /\ pushed + 1 # Client!Finished /\ pushed + 1 \in Nat
    BY LenProperties DEF Client!Enqueue, ItemsInv, ItemsTypeOK, Client!ClientAssumption,
           Client!Finished
  <1>2. /\ items' \in Seq(Nat) /\ Len(items') = n + 1
        /\ DOMAIN items' = 1..(n + 1) /\ DOMAIN items = 1..n
        /\ \A i \in 1..n : items'[i] = items[i]
        /\ items'[n + 1] = pushed + 1
    BY <1>1, Appended DEF ItemsInv, ItemsTypeOK
  <1>3. ~failure /\ pushed = delivered + n /\ \A i \in 1..n : items[i] # Client!End
    BY <1>1, <1>2 DEF ItemsInv, ItemsAreComplete
  <1>4. \A i \in 1..(n + 1) : items'[i] = delivered + i /\ items'[i] # Client!End
    <2>1. \A i \in 1..n : items'[i] = delivered + i /\ items'[i] # Client!End
      BY <1>2, <1>3 DEF ItemsInv, ItemsInOrder
    <2>2. \A i \in 1..(n + 1) : i \in 1..n \/ i = n + 1
      BY <1>1
    <2> QED
      BY <1>1, <1>2, <1>3, <2>1, <2>2 DEF Client!End, ItemsInv, ItemsTypeOK
  <1> QED
    BY <1>1, <1>2, <1>3, <1>4
       DEF ItemsInv, ItemsTypeOK, SocketInv, ItemsAreComplete, ItemsInOrder,
           EndIsTold, Client!Enqueue, Client!Woken, GeneratorStates, Client!Over

(* An end, of the host or of the socket: it wakes who waits, and nothing    *)
(* but another end comes after it.                                          *)
LEMMA EndArrives ==
  ASSUME Client!ClientAssumption, ItemsInv, socket \in {"connecting", "open", "closing"},
         pushed' = Client!Finished \/ (socket' = "closed" /\ UNCHANGED pushed),
         socket' \in {socket, "closed"}, Client!Enqueue(Client!End),
         UNCHANGED <<signal, delivered>>
  PROVE  ItemsInv'
  <1> DEFINE n == Len(items)
  <1>1. /\ items' = Append(items, Client!End) /\ n \in Nat /\ pushed' \in Nat
           /\ Client!End \in Nat
        /\ generator' = Client!Woken /\ UNCHANGED failure
    BY LenProperties DEF Client!Enqueue, ItemsInv, ItemsTypeOK, Client!ClientAssumption,
           Client!Finished, Client!End
  <1>2. /\ items' \in Seq(Nat) /\ Len(items') = n + 1
        /\ DOMAIN items' = 1..(n + 1) /\ DOMAIN items = 1..n
        /\ \A i \in 1..n : items'[i] = items[i]
        /\ items'[n + 1] = Client!End
    BY <1>1, Appended DEF ItemsInv, ItemsTypeOK
  <1>3. \A i \in 1..(n + 1) : i \in 1..n \/ i = n + 1
    BY <1>1
  <1>4. ItemsInOrder'
    <2>1. \A i \in 1..(n + 1) : items'[i] # Client!End => items'[i] = delivered + i
      BY <1>2, <1>3 DEF ItemsInv, ItemsInOrder
    <2>2. \A i, j \in 1..(n + 1) : (i < j /\ items'[i] = Client!End) => items'[j] = Client!End
      BY <1>1, <1>2, <1>3 DEF ItemsInv, ItemsInOrder
    <2> QED
      BY <1>2, <2>1, <2>2 DEF ItemsInOrder
  <1>5. n + 1 \in DOMAIN items'
    BY <1>1, <1>2
  <1> QED
    BY <1>1, <1>2, <1>4, <1>5
       DEF ItemsInv, ItemsTypeOK, SocketInv, ItemsAreComplete, EndIsTold, Client!Woken,
           GeneratorStates

(* A failure throws the inbox away and wakes who waits.                     *)
LEMMA FailureArrives ==
  ASSUME Client!ClientAssumption, ItemsInv, socket \in {"connecting", "open", "closing"},
         pushed' = Client!Finished \/ (socket' = "closed" /\ UNCHANGED pushed),
         socket' \in {socket, "closed"}, Client!Fail, UNCHANGED <<signal, delivered>>
  PROVE  ItemsInv'
  <1>1. failure' = TRUE /\ generator' = Client!Woken /\ pushed' \in Nat
    <2>1. CASE failure
      <3>1. UNCHANGED <<failure, generator>> /\ failure = TRUE
        BY <2>1 DEF Client!Fail, ItemsInv, ItemsTypeOK
      <3>2. generator = Client!Woken
        BY <2>1 DEF ItemsInv, EndIsTold, Client!Woken
      <3> QED
        BY <3>1, <3>2 DEF ItemsInv, ItemsTypeOK, Client!ClientAssumption, Client!Finished
    <2>2. CASE ~failure
      BY <2>2 DEF Client!Fail, ItemsInv, ItemsTypeOK, Client!ClientAssumption, Client!Finished
    <2> QED
      BY <2>1, <2>2
  <1>2. items' \in Seq(Nat) /\ (items' = items \/ items' = <<>>)
    <2>1. items' = items \/ items' = <<>>
      BY DEF Client!Fail
    <2>2. items \in Seq(Nat) /\ <<>> \in Seq(Nat)
      BY EmptySeq DEF ItemsInv, ItemsTypeOK
    <2> QED
      BY <2>1, <2>2
  <1>3. ItemsInOrder'
    BY <1>2 DEF ItemsInv, ItemsInOrder
  <1> QED
    BY <1>1, <1>2, <1>3
       DEF ItemsInv, ItemsTypeOK, SocketInv, ItemsAreComplete, EndIsTold, Client!Woken,
           GeneratorStates

(* The generator takes the head.                                            *)
LEMMA HeadTaken ==
  ASSUME ItemsInv, Client!Take
  PROVE  ItemsInv'
  <1> DEFINE n == Len(items)
  <1>1. /\ items # <<>> /\ items \in Seq(Nat) /\ items' = Tail(items)
        /\ UNCHANGED <<signal, failure, pushed>>
    BY DEF Client!Take, ItemsInv, ItemsTypeOK
  <1>2. /\ Head(items) = items[1] /\ Head(items) \in Nat
        /\ items' \in Seq(Nat) /\ n \in Nat /\ n >= 1 /\ Len(items') = n - 1
        /\ DOMAIN items = 1..n /\ DOMAIN items' = 1..(n - 1)
        /\ \A i \in 1..(n - 1) : items'[i] = items[i + 1]
    BY <1>1, Taken
  <1>3. \A i \in 1..(n - 1) : i + 1 \in 1..n /\ 1 < i + 1
    BY <1>2
  <1>4. CASE Head(items) = Client!End
    <2>1. \A i \in 1..(n - 1) : items'[i] = Client!End
      <3> SUFFICES ASSUME NEW i \in 1..(n - 1)
                   PROVE  items'[i] = Client!End
        OBVIOUS
      <3>1. 1 \in DOMAIN items /\ i + 1 \in DOMAIN items /\ 1 < i + 1 /\ items[1] = Client!End
        BY <1>2, <1>3, <1>4
      <3>2. items[i + 1] = Client!End
        BY <3>1 DEF ItemsInv, ItemsInOrder
      <3> QED
        BY <1>2, <3>2
    <2>2. generator' = "returned" /\ UNCHANGED delivered
          /\ socket' = IF socket \in {"connecting", "open"} THEN "closing" ELSE socket
      BY <1>4 DEF Client!Take, Client!Leaves
    <2>3. ~(socket # "closed" /\ pushed # Client!Finished)
      BY <1>2, <1>4 DEF ItemsInv, ItemsAreComplete
    <2> QED
      BY <1>1, <1>2, <2>1, <2>2, <2>3
         DEF ItemsInv, ItemsTypeOK, SocketInv, ItemsAreComplete, ItemsInOrder,
             EndIsTold, GeneratorStates
  <1>5. CASE Head(items) # Client!End
    <2>1. /\ generator' = "yielded" /\ delivered' = Head(items) /\ UNCHANGED socket
          /\ generator = "running"
      BY <1>5 DEF Client!Take
    <2>2. delivered' = delivered + 1 /\ delivered \in Nat
      BY <1>2, <1>5, <2>1 DEF ItemsInv, ItemsTypeOK, ItemsInOrder
    <2>3. \A i \in 1..(n - 1) : items'[i] # Client!End => items'[i] = delivered' + i
      <3> SUFFICES ASSUME NEW i \in 1..(n - 1), items'[i] # Client!End
                   PROVE  items'[i] = delivered' + i
        OBVIOUS
      <3>1. items[i + 1] = delivered + (i + 1)
        BY <1>2, <1>3 DEF ItemsInv, ItemsInOrder
      <3> QED
        BY <1>2, <2>2, <3>1
    <2>4. \A i, j \in 1..(n - 1) : (i < j /\ items'[i] = Client!End) => items'[j] = Client!End
      <3> SUFFICES ASSUME NEW i \in 1..(n - 1), NEW j \in 1..(n - 1), i < j,
                          items'[i] = Client!End
                   PROVE  items'[j] = Client!End
        OBVIOUS
      <3>1. i + 1 \in 1..n /\ j + 1 \in 1..n /\ i + 1 < j + 1
        BY <1>2
      <3> QED
        BY <1>2, <3>1 DEF ItemsInv, ItemsInOrder
    <2>5. (\E i \in 1..n : items[i] = Client!End) => \E i \in 1..(n - 1) : items'[i] = Client!End
      <3> SUFFICES ASSUME NEW i \in 1..n, items[i] = Client!End
                   PROVE  \E k \in 1..(n - 1) : items'[k] = Client!End
        OBVIOUS
      <3>1. i # 1
        BY <1>2, <1>5
      <3>2. i - 1 \in 1..(n - 1) /\ (i - 1) + 1 = i
        BY <1>2, <3>1
      <3> QED
        BY <1>2, <3>2
    <2>6. (socket # "closed" /\ pushed # Client!Finished) =>
            /\ ~failure /\ \A i \in 1..(n - 1) : items'[i] # Client!End
            /\ pushed = delivered' + (n - 1)
      <3> SUFFICES ASSUME socket # "closed", pushed # Client!Finished
                   PROVE  /\ ~failure /\ \A i \in 1..(n - 1) : items'[i] # Client!End
                          /\ pushed = delivered' + (n - 1)
        OBVIOUS
      <3>1. ~failure /\ (\A i \in 1..n : items[i] # Client!End) /\ pushed = delivered + n
        BY <1>2 DEF ItemsInv, ItemsAreComplete
      <3>2. pushed = delivered' + (n - 1)
        BY <1>2, <2>2, <3>1
      <3> QED
        BY <1>2, <1>3, <3>1, <3>2
    <2>7. ItemsAreComplete' /\ ItemsInOrder'
      BY <1>1, <1>2, <2>1, <2>3, <2>4, <2>6 DEF ItemsAreComplete, ItemsInOrder
    <2>8. EndIsTold'
      BY <1>1, <1>2, <2>1, <2>5 DEF ItemsInv, EndIsTold
    <2> QED
      BY <1>1, <1>2, <2>1, <2>2, <2>7, <2>8
         DEF ItemsInv, ItemsTypeOK, SocketInv, GeneratorStates
  <1> QED
    BY <1>4, <1>5

LEMMA ItemsSafe ==
  ASSUME Client!ClientAssumption, ItemsInv, [Client!Next]_(Client!vars)
  PROVE  ItemsInv'
  <1>1. CASE Client!Message
    <2>1. /\ socket \in {"open", "closing"} /\ ~Client!Over
          /\ UNCHANGED <<signal, socket, delivered>>
      BY <1>1 DEF Client!Message
    <2>2. CASE pushed < MaxItems /\ pushed' = pushed + 1 /\ Client!Enqueue(pushed')
      <3>1. Client!Enqueue(pushed + 1)
        BY <2>2 DEF Client!Enqueue
      <3> QED
        BY <2>1, <2>2, <3>1, ItemArrives
    <2>3. CASE pushed' = Client!Finished /\ Client!Enqueue(Client!End)
      BY <2>1, <2>3, EndArrives
    <2>4. CASE pushed' = Client!Finished /\ Client!Fail
      BY <2>1, <2>4, FailureArrives
    <2> QED
      BY <1>1, <2>2, <2>3, <2>4 DEF Client!Message
  <1>2. CASE Client!SocketEnds
    <2>1. /\ socket \in {"connecting", "open", "closing"} /\ socket' = "closed"
          /\ UNCHANGED <<signal, pushed, delivered>>
      BY <1>2 DEF Client!SocketEnds
    <2>2. CASE Client!Fail
      BY <2>1, <2>2, FailureArrives
    <2>3. CASE Client!Enqueue(Client!End)
      BY <2>1, <2>3, EndArrives
    <2> QED
      BY <1>2, <2>2, <2>3 DEF Client!SocketEnds
  <1>3. CASE Client!Take
    BY <1>3, HeadTaken
  <1>4. CASE Client!OpenStream \/ Client!Connect \/ Client!Abort \/ Client!SocketOpens
             \/ Client!Drained \/ Client!Stops \/ Client!Consumed
    BY <1>4, ItemsRest
  <1>5. CASE \/ \E c \in Requests : \/ \E kind \in Client!Kinds : Client!Begin(c, kind)
                                 \/ Client!Authenticated(c) \/ Client!ExchangeFails(c)
                                 \/ Client!Answered(c) \/ Client!TimesOut(c)
             \/ Client!AbortPendingRequests \/ UNCHANGED Client!vars
    <2>1. UNCHANGED Client!streamVars
      BY <1>5 DEF Client!Begin, Client!Authenticated, Client!ExchangeFails, Client!Answered,
             Client!TimesOut,
                  Client!AbortPendingRequests, Client!vars
    <2> QED
      BY <2>1, ItemsRest
  <1> QED
    BY <1>1, <1>2, <1>3, <1>4, <1>5 DEF Client!Next

-----------------------------------------------------------------------------
(* The invariant holds at the start, is kept by every step, and is all that *)
(* the property needs.                                                      *)
LEMMA ClientInit ==
  ASSUME Client!ClientAssumption
  PROVE  Client!Init => CallsInv /\ ItemsInv
  <1> SUFFICES ASSUME Client!Init
               PROVE  CallsInv /\ ItemsInv
    OBVIOUS
  <1>1. CallsInv
    BY DEF Client!Init, CallsInv, AbortsArrive, CallStates, Client!Settled, Client!Kinds
  <1>2. items \in Seq(Nat) /\ Len(items) = 0 /\ DOMAIN items = {}
    BY DEF Client!Init
  <1>3. ItemsTypeOK /\ SocketInv /\ EndIsTold
    BY <1>2 DEF Client!Init, ItemsTypeOK, GeneratorStates, SocketInv, EndIsTold
  <1>4. pushed = delivered + Len(items) /\ ~failure
    BY <1>2 DEF Client!Init
  <1>5. ItemsAreComplete /\ ItemsInOrder
    BY <1>2, <1>4, Zenon DEF ItemsAreComplete, ItemsInOrder
  <1> QED
    BY <1>1, <1>3, <1>5 DEF ItemsInv

LEMMA ClientInductive ==
  ASSUME Client!ClientAssumption
  PROVE  CallsInv /\ ItemsInv /\ [Client!Next]_(Client!vars) => CallsInv' /\ ItemsInv'
  BY CallsSafe, ItemsSafe

LEMMA ClientInvImplies == CallsInv /\ ItemsInv => Client!ClientSettles
  <1> SUFFICES ASSUME CallsInv, ItemsInv
               PROVE  Client!ClientSettles
    OBVIOUS
  <1>1. Client!ClosedCallsSettle
    BY DEF CallsInv, AbortsArrive, Client!ClosedCallsSettle
  <1>2. Client!NoLostWakeup
    BY DEF ItemsInv, ItemsTypeOK, SocketInv, ItemsInOrder, EndIsTold, Client!NoLostWakeup
  <1> QED
    BY <1>1, <1>2 DEF Client!ClientSettles

-----------------------------------------------------------------------------
(* The output of jobs.                                                      *)

OpenedFrame == [type : {"opened"}, from : Nat]
ChunkFrame == [type : {"output"}, chunk : Nat, gap : BOOLEAN]
EndFrame == [type : {"finished", "error"}]
OutputFrames == OpenedFrame \cup ChunkFrame \cup EndFrame

Observing == {"loading", "streaming", "reconnecting"}
Observed == [job : Jobs \cup {Output!None}, next : Nat, text : Seq(Nat), lossy : BOOLEAN,
             state : Observing \cup {Output!None, "finished", "error"}]

JobTypeOK ==
  /\ active \in JobSessions
  /\ jobs \subseteq Jobs
  /\ roster \in Seq(SUBSET Jobs)
  /\ watched \in Observed
  /\ output \in Seq(OutputFrames)
  /\ written \in [Jobs -> Nat] /\ base \in [Jobs -> Nat] /\ done \in [Jobs -> BOOLEAN]

-----------------------------------------------------------------------------
(* The chunk that frame i of a stream should bring, when the observer has   *)
(* everything before chunk "next"; for the end marker, and behind the last  *)
(* frame, the number of chunks written.                                     *)
Expected(next, frames, i) ==
  IF i = 1 THEN next
  ELSE IF frames[i - 1].type = "opened" THEN frames[i - 1].from
  ELSE frames[i - 1].chunk + 1

Fits(next, frames, i, top, over) ==
  /\ frames[i].type = "opened" => i = 1 /\ next <= frames[i].from /\ frames[i].from <= top
  /\ frames[i].type = "output" =>
       /\ Expected(next, frames, i) <= frames[i].chunk /\ frames[i].chunk < top
       /\ ~frames[i].gap => frames[i].chunk = Expected(next, frames, i)
  /\ frames[i].type = "finished" =>
       over /\ i = Len(frames) /\ Expected(next, frames, i) = top
  /\ frames[i].type = "error" => over /\ i = Len(frames)

(* The frames under way go on where the observer is and reach what the job  *)
(* has written; only frames marked as a gap leave chunks out.               *)
FramesFit(next, frames, top, over) ==
  /\ \A i \in 1..Len(frames) : Fits(next, frames, i, top, over)
  /\ (frames = <<>> \/ frames[Len(frames)].type \in {"opened", "output"}) =>
       Expected(next, frames, Len(frames) + 1) = top

FramesFollow ==
  /\ (watched.state \in Observing \/ output # <<>>) => watched.job \in Jobs
  /\ watched.state \notin Observing => output = <<>>
  /\ \A j \in Jobs : base[j] <= written[j]
  /\ watched.job \in Jobs => watched.next <= written[watched.job]
  /\ watched.state = "finished" =>
       watched.job \in Jobs /\ done[watched.job] /\ watched.next = written[watched.job]
  /\ (watched.state = "streaming" \/ output # <<>>) =>
       FramesFit(watched.next, output, written[watched.job], done[watched.job])

(* The text kept is a part of what came before "next", in order.            *)
TextIsExact ==
  /\ ~watched.lossy => watched.text = [i \in 1..watched.next |-> i - 1]
  /\ \A i \in 1..Len(watched.text) : watched.text[i] < watched.next
  /\ \A i, k \in 1..Len(watched.text) : i < k => watched.text[i] < watched.text[k]

(* A roster that was not aborted lists jobs of the session it is of.        *)
RosterOfSession ==
  pump # Output!Aborted => \A i \in 1..Len(roster) : \A j \in roster[i] : SessionOf[j] = pump

JobInv == JobTypeOK /\ FramesFollow /\ TextIsExact /\ RosterOfSession /\ Output!JobsOfSession

-----------------------------------------------------------------------------
(* Frames.                                                                  *)

(* What frames of each type carry.                                          *)
LEMMA OutputFrameFields ==
  ASSUME NEW f \in OutputFrames
  PROVE  /\ f.type \in {"opened", "output", "finished", "error"}
         /\ f.type = "opened" => f \in OpenedFrame /\ f.from \in Nat
         /\ f.type = "output" => f \in ChunkFrame /\ f.chunk \in Nat /\ f.gap \in BOOLEAN
         /\ f.type \in {"finished", "error"} => f \in EndFrame
  BY DEF OutputFrames, OpenedFrame, ChunkFrame, EndFrame

(* Frames go on where the first one led once it is taken.                   *)
LEMMA ExpectedTail ==
  ASSUME NEW f \in Seq(OutputFrames), f # <<>>, NEW next,
         NEW after, after = Expected(next, f, 2)
  PROVE  /\ Len(Tail(f)) = Len(f) - 1 /\ Len(f) \in Nat /\ Len(f) >= 1
         /\ Tail(f) \in Seq(OutputFrames)
         /\ \A i \in 1..(Len(f) - 1) : Tail(f)[i] = f[i + 1]
         /\ \A i \in 1..Len(f) : Expected(after, Tail(f), i) = Expected(next, f, i + 1)
  <1>1. Len(f) \in Nat /\ Len(f) >= 1
    BY EmptySeq, LenProperties
  <1>2. /\ Len(Tail(f)) = Len(f) - 1 /\ Tail(f) \in Seq(OutputFrames)
        /\ \A i \in 1..(Len(f) - 1) : Tail(f)[i] = f[i + 1]
    BY HeadTailProperties
  <1>3. ASSUME NEW i \in 1..Len(f)
        PROVE  Expected(after, Tail(f), i) = Expected(next, f, i + 1)
    <2>1. CASE i = 1
      BY <2>1 DEF Expected
    <2>2. CASE i # 1
      <3>1. PICK j \in 1..(Len(f) - 1) : i = j + 1
        BY <1>1, <2>2
      <3>2. Tail(f)[i - 1] = f[i]
        BY <1>1, <1>2, <3>1
      <3>3. i + 1 # 1 /\ (i + 1) - 1 = i
        BY <3>1
      <3> QED
        BY <2>2, <3>2, <3>3 DEF Expected
    <2> QED
      BY <2>1, <2>2
  <1> QED
    BY <1>1, <1>2, <1>3

(* Taking the first frame leaves frames that fit what it led to.            *)
LEMMA FitTail ==
  ASSUME NEW f \in Seq(OutputFrames), f # <<>>, NEW next \in Nat, NEW top \in Nat,
         NEW over \in BOOLEAN, FramesFit(next, f, top, over),
         NEW after, after = Expected(next, f, 2),
         f[1].type \in {"opened", "output"}
  PROVE  FramesFit(after, Tail(f), top, over)
  <1> DEFINE g == Tail(f)
             n == Len(f)
  <1>1. /\ Len(g) = n - 1 /\ n \in Nat /\ n >= 1 /\ g \in Seq(OutputFrames)
        /\ \A i \in 1..(n - 1) : g[i] = f[i + 1]
        /\ \A i \in 1..n : Expected(after, g, i) = Expected(next, f, i + 1)
    BY ExpectedTail
  <1>2. ASSUME NEW i \in 1..(n - 1)
        PROVE  Fits(after, g, i, top, over)
    <2>1. i + 1 \in 1..n /\ i + 1 # 1 /\ (i = n - 1 <=> i + 1 = n)
      BY <1>1
    <2>2. Fits(next, f, i + 1, top, over)
      BY <2>1 DEF FramesFit
    <2>3. g[i] = f[i + 1] /\ Expected(after, g, i) = Expected(next, f, i + 1)
      BY <1>1
    <2> QED
      BY <1>1, <2>1, <2>2, <2>3 DEF Fits
  <1>3. ASSUME g = <<>> \/ g[Len(g)].type \in {"opened", "output"}
        PROVE  Expected(after, g, Len(g) + 1) = top
    <2>1. Expected(after, g, Len(g) + 1) = Expected(next, f, n + 1)
      BY <1>1
    <2>2. f[n].type \in {"opened", "output"}
      <3>1. CASE g = <<>>
        <4>1. Len(g) = 0
          BY <3>1, EmptySeq
        <4>2. Len(g) = n - 1 /\ n \in Nat
          BY <1>1
        <4>3. n = 1
          BY <4>1, <4>2
        <4> QED
          BY <4>3
      <3>2. CASE g # <<>>
        <4>1. Len(g) >= 1
          BY <1>1, <3>2, EmptySeq
        <4>2. g[Len(g)] = f[n]
          BY <1>1, <4>1
        <4> QED
          BY <1>3, <3>2, <4>2
      <3> QED
        BY <3>1, <3>2
    <2> QED
      BY <2>1, <2>2 DEF FramesFit
  <1> QED
    BY <1>1, <1>2, <1>3 DEF FramesFit

(* A frame that goes on where the last one ended is fit to follow them.     *)
LEMMA FitAppend ==
  ASSUME NEW f \in Seq(OutputFrames), NEW next \in Nat, NEW top \in Nat,
         FramesFit(next, f, top, FALSE), NEW x \in ChunkFrame, x.chunk = top
  PROVE  FramesFit(next, Append(f, x), top + 1, FALSE)
  <1> DEFINE g == Append(f, x)
             n == Len(f)
  <1>1. x \in OutputFrames /\ x.type = "output"
    BY DEF OutputFrames, ChunkFrame
  <1>2. /\ n \in Nat /\ Len(g) = n + 1 /\ g # <<>>
        /\ \A i \in 1..n : g[i] = f[i]
        /\ g[n + 1] = x
    BY <1>1, AppendProperties, LenProperties
  <1>3. ASSUME NEW i \in 1..(n + 1)
        PROVE  Expected(next, g, i) = Expected(next, f, i)
    <2>1. CASE i = 1
      BY <2>1 DEF Expected
    <2>2. CASE i # 1
      <3>1. i - 1 \in 1..n
        BY <1>2, <2>2
      <3> QED
        BY <1>2, <3>1 DEF Expected
    <2> QED
      BY <2>1, <2>2
  <1>4. \A i \in 1..n : f[i].type # "finished" /\ f[i].type # "error"
    BY DEF FramesFit, Fits
  <1>5. ASSUME NEW i \in 1..n
        PROVE  Fits(next, g, i, top + 1, FALSE)
    <2>1. Fits(next, f, i, top, FALSE) /\ g[i] = f[i]
      BY <1>2 DEF FramesFit
    <2>2. Expected(next, g, i) = Expected(next, f, i)
      BY <1>2, <1>3
    <2>3. f[i] \in OutputFrames
      BY ElementOfSeq
    <2>4. f[i].type = "opened" => f[i].from \in Nat
      BY <2>3, OutputFrameFields
    <2>5. f[i].type = "output" => f[i].chunk \in Nat
      BY <2>3, OutputFrameFields
    <2> QED
      BY <1>4, <2>1, <2>2, <2>4, <2>5 DEF Fits
  <1>6. f = <<>> \/ f[Len(f)].type \in {"opened", "output"}
    <2>1. f # <<>> => n \in 1..n
      BY <1>2, EmptySeq
    <2>2. f # <<>> => f[n] \in OutputFrames
      BY <2>1, ElementOfSeq
    <2> QED
      BY <1>4, <2>1, <2>2, OutputFrameFields
  <1>7. Expected(next, f, n + 1) = top
    BY <1>6 DEF FramesFit
  <1>8. Fits(next, g, n + 1, top + 1, FALSE)
    BY <1>1, <1>2, <1>3, <1>7 DEF Fits
  <1>9. \A i \in 1..(n + 1) : Fits(next, g, i, top + 1, FALSE)
    <2>1. \A i \in 1..(n + 1) : i \in 1..n \/ i = n + 1
      BY <1>2
    <2> QED
      BY <1>5, <1>8, <2>1
  <1>10. Expected(next, g, (n + 1) + 1) = top + 1
    <2>1. (n + 1) + 1 # 1 /\ ((n + 1) + 1) - 1 = n + 1
      BY <1>2
    <2> QED
      BY <1>1, <1>2, <2>1 DEF Expected
  <1> QED
    BY <1>2, <1>9, <1>10 DEF FramesFit

(* A reader that is too slow loses its last frame to one that is marked.    *)
LEMMA FitReplaced ==
  ASSUME NEW f \in Seq(OutputFrames), NEW next \in Nat, NEW top \in Nat,
         FramesFit(next, f, top, FALSE), NEW x \in ChunkFrame, x.chunk = top, x.gap,
         Len(f) > 1
  PROVE  FramesFit(next, Append(SubSeq(f, 1, Len(f) - 1), x), top + 1, FALSE)
  <1> DEFINE h == SubSeq(f, 1, Len(f) - 1)
             g == Append(h, x)
             n == Len(f)
  <1>1. x \in OutputFrames /\ x.type = "output"
    BY DEF OutputFrames, ChunkFrame
  <1>2. n \in Nat /\ n >= 2
    BY LenProperties
  <1>3. h \in Seq(OutputFrames) /\ Len(h) = n - 1 /\ \A i \in 1..(n - 1) : h[i] = f[i]
    <2>1. \A i \in 1..(n - 1) : f[i] \in OutputFrames
      BY <1>2, ElementOfSeq
    <2>2. 1 \in Int /\ n - 1 \in Int /\ h = SubSeq(f, 1, n - 1)
      BY <1>2
    <2>3. /\ SubSeq(f, 1, n - 1) \in Seq(OutputFrames)
          /\ Len(SubSeq(f, 1, n - 1)) = IF 1 <= n - 1 THEN (n - 1) - 1 + 1 ELSE 0
          /\ \A i \in 1..((n - 1) - 1 + 1) : SubSeq(f, 1, n - 1)[i] = f[1 + i - 1]
      BY <2>1, <2>2, SubSeqProperties
    <2> QED
      BY <1>2, <2>2, <2>3
  <1>4. /\ Len(g) = n /\ g # <<>>
        /\ \A i \in 1..(n - 1) : g[i] = f[i]
        /\ g[n] = x
    <2>1. /\ Append(h, x) # <<>> /\ Len(Append(h, x)) = Len(h) + 1
          /\ \A i \in 1..Len(h) : Append(h, x)[i] = h[i]
          /\ Append(h, x)[Len(h) + 1] = x
      BY <1>1, <1>3, AppendProperties
    <2> QED
      BY <1>2, <1>3, <2>1
  <1>5. ASSUME NEW i \in 1..n
        PROVE  Expected(next, g, i) = Expected(next, f, i)
    <2>1. CASE i = 1
      BY <2>1 DEF Expected
    <2>2. CASE i # 1
      <3>1. i - 1 \in 1..(n - 1)
        BY <1>2, <2>2
      <3> QED
        BY <1>4, <3>1 DEF Expected
    <2> QED
      BY <2>1, <2>2
  <1>6. \A i \in 1..n : f[i].type # "finished" /\ f[i].type # "error"
    BY DEF FramesFit, Fits
  <1>7. n \in 1..n /\ n # 1 /\ f # <<>>
    <2>1. Len(<<>>) = 0
      BY EmptySeq
    <2>2. f # <<>>
      BY <1>2, <2>1
    <2>3. n \in 1..n /\ n # 1
      <3> HIDE DEF n
      <3> QED
        BY <1>2
    <2> QED
      BY <2>2, <2>3, Zenon
  <1>8. f[n].type = "output" /\ f[n].chunk \in Nat
    <2>1. f[n] \in OutputFrames
      BY <1>7, ElementOfSeq
    <2>2. Fits(next, f, n, top, FALSE)
      BY <1>7 DEF FramesFit
    <2>3. f[n].type # "opened"
      BY <1>7, <2>2 DEF Fits
    <2> QED
      BY <1>6, <1>7, <2>1, <2>3, OutputFrameFields
  <1>9. Expected(next, f, n) <= top /\ f[n].chunk + 1 = top
    <2>1. Fits(next, f, n, top, FALSE)
      BY <1>7 DEF FramesFit
    <2>2. Expected(next, f, n + 1) = top
      BY <1>8 DEF FramesFit
    <2>3. n + 1 # 1 /\ (n + 1) - 1 = n
      BY <1>2
    <2>4. f[n].chunk + 1 = top
      BY <1>8, <2>2, <2>3 DEF Expected
    <2>5. Expected(next, f, n) <= f[n].chunk
      BY <1>8, <2>1 DEF Fits
    <2>6. Expected(next, f, n) \in Nat
      <3>1. n - 1 \in 1..Len(f)
        BY <1>2
      <3>2. f[n - 1] \in OutputFrames /\ (n - 1) \in 1..n
        BY <3>1, ElementOfSeq
      <3>3. f[n - 1].type = "opened" => f[n - 1].from \in Nat
        BY <3>2, OutputFrameFields
      <3>4. f[n - 1].type # "opened" => f[n - 1].chunk \in Nat
        BY <1>6, <3>2, OutputFrameFields
      <3> QED
        BY <3>3, <3>4 DEF Expected
    <2> QED
      BY <1>8, <2>4, <2>5, <2>6
  <1>10. ASSUME NEW i \in 1..(n - 1)
         PROVE  Fits(next, g, i, top + 1, FALSE)
    <2>1. i \in 1..n
      BY <1>2
    <2>2. Fits(next, f, i, top, FALSE)
      BY <2>1 DEF FramesFit
    <2>7. g[i] = f[i] /\ i # n
      BY <1>2, <1>4
    <2>3. Expected(next, g, i) = Expected(next, f, i)
      BY <1>5, <2>1
    <2>4. f[i] \in OutputFrames
      BY <2>1, ElementOfSeq
    <2>5. f[i].type = "opened" => f[i].from \in Nat
      BY <2>4, OutputFrameFields
    <2>6. f[i].type = "output" => f[i].chunk \in Nat
      BY <2>4, OutputFrameFields
    <2> QED
      BY <1>6, <2>1, <2>2, <2>3, <2>5, <2>6, <2>7 DEF Fits
  <1>11. Fits(next, g, n, top + 1, FALSE)
    <2>1. Expected(next, g, n) <= top
      BY <1>5, <1>7, <1>9
    <2> QED
      BY <1>1, <1>4, <2>1 DEF Fits
  <1>12. \A i \in 1..n : Fits(next, g, i, top + 1, FALSE)
    <2>1. \A i \in 1..n : i \in 1..(n - 1) \/ i = n
      BY <1>2
    <2> QED
      BY <1>10, <1>11, <2>1
  <1>13. Expected(next, g, n + 1) = top + 1
    <2>1. n + 1 # 1 /\ (n + 1) - 1 = n
      BY <1>2
    <2> QED
      BY <1>1, <1>4, <2>1 DEF Expected
  <1> QED
    BY <1>4, <1>12, <1>13 DEF FramesFit

(* The end marker fits behind all that was written.                         *)
LEMMA FitFinished ==
  ASSUME NEW f \in Seq(OutputFrames), NEW next \in Nat, NEW top \in Nat,
         FramesFit(next, f, top, FALSE), NEW x \in EndFrame, x.type = "finished"
  PROVE  FramesFit(next, Append(f, x), top, TRUE)
  <1> DEFINE g == Append(f, x)
             n == Len(f)
  <1>1. x \in OutputFrames
    BY DEF OutputFrames
  <1>2. /\ n \in Nat /\ Len(g) = n + 1 /\ g # <<>>
        /\ \A i \in 1..n : g[i] = f[i]
        /\ g[n + 1] = x
    BY <1>1, AppendProperties, LenProperties
  <1>3. ASSUME NEW i \in 1..(n + 1)
        PROVE  Expected(next, g, i) = Expected(next, f, i)
    <2>1. CASE i = 1
      BY <2>1 DEF Expected
    <2>2. CASE i # 1
      <3>1. i - 1 \in 1..n
        BY <1>2, <2>2
      <3> QED
        BY <1>2, <3>1 DEF Expected
    <2> QED
      BY <2>1, <2>2
  <1>4. \A i \in 1..n : f[i].type # "finished" /\ f[i].type # "error"
    BY DEF FramesFit, Fits
  <1>5. ASSUME NEW i \in 1..n
        PROVE  Fits(next, g, i, top, TRUE)
    <2>1. Fits(next, f, i, top, FALSE) /\ g[i] = f[i]
      BY <1>2 DEF FramesFit
    <2>2. Expected(next, g, i) = Expected(next, f, i)
      BY <1>2, <1>3
    <2> QED
      BY <1>4, <2>1, <2>2 DEF Fits
  <1>6. f = <<>> \/ f[Len(f)].type \in {"opened", "output"}
    <2>1. f # <<>> => n \in 1..n
      BY <1>2, EmptySeq
    <2>2. f # <<>> => f[n] \in OutputFrames
      BY <2>1, ElementOfSeq
    <2> QED
      BY <1>4, <2>1, <2>2, OutputFrameFields
  <1>7. Expected(next, f, n + 1) = top
    BY <1>6 DEF FramesFit
  <1>8. Fits(next, g, n + 1, top, TRUE)
    BY <1>2, <1>3, <1>7 DEF Fits
  <1>9. \A i \in 1..(n + 1) : Fits(next, g, i, top, TRUE)
    <2>1. \A i \in 1..(n + 1) : i \in 1..n \/ i = n + 1
      BY <1>2
    <2> QED
      BY <1>5, <1>8, <2>1
  <1> QED
    BY <1>2, <1>9 DEF FramesFit

(* The answer to jobFollow: from the offset on, chunk by chunk.             *)
LEMMA FitAnswer ==
  ASSUME NEW next \in Nat, NEW from \in Nat, NEW top \in Nat, next <= from, from <= top,
         NEW f,
         f = <<[type |-> "opened", from |-> from]>>
             \o [i \in 1..(top - from) |->
                  [type |-> "output", chunk |-> from + i - 1, gap |-> FALSE]]
  PROVE  f \in Seq(OutputFrames) /\ f # <<>> /\ FramesFit(next, f, top, FALSE)
  <1> DEFINE o == <<[type |-> "opened", from |-> from]>>
             Chunk(i) == [type |-> "output", chunk |-> from + i - 1, gap |-> FALSE]
             rest == [i \in 1..(top - from) |-> Chunk(i)]
             n == top - from
  <1>1. n \in Nat
    OBVIOUS
  <1>2. o \in Seq(OutputFrames) /\ Len(o) = 1 /\ o[1] = [type |-> "opened", from |-> from]
    BY DEF OutputFrames, OpenedFrame
  <1>3. rest \in Seq(OutputFrames) /\ Len(rest) = n /\ \A i \in 1..n : rest[i] = Chunk(i)
    <2>1. \A i \in 1..n : Chunk(i) \in OutputFrames
      <3>1. SUFFICES ASSUME NEW i \in 1..n
                     PROVE  Chunk(i) \in OutputFrames
        OBVIOUS
      <3>2. from + i - 1 \in Nat
        OBVIOUS
      <3> QED
        BY <3>2 DEF OutputFrames, ChunkFrame
    <2>2. rest \in [1..n -> OutputFrames]
      BY <2>1
    <2> HIDE DEF Chunk
    <2> QED
      BY <1>1, <2>2
  <1> HIDE DEF Chunk, rest, o
  <1>4. f = o \o rest
    BY DEF o, rest, Chunk
  <1>14. /\ o \o rest \in Seq(OutputFrames)
         /\ Len(o \o rest) = Len(o) + Len(rest)
         /\ \A i \in 1..(Len(o) + Len(rest)) :
              (o \o rest)[i] = IF i <= Len(o) THEN o[i] ELSE rest[i - Len(o)]
    BY <1>2, <1>3, ConcatProperties
  <1>17. Len(o) + Len(rest) = n + 1
    <2> HIDE DEF n
    <2> QED
      BY <1>1, <1>2, <1>3
  <1>5. f \in Seq(OutputFrames) /\ Len(f) = n + 1
    BY <1>4, <1>14, <1>17, Zenon
  <1>6. \A i \in 1..(n + 1) : f[i] = IF i <= 1 THEN o[i] ELSE rest[i - 1]
    BY <1>2, <1>4, <1>14, <1>17, Zenon
  <1>7. f[1] = [type |-> "opened", from |-> from]
    BY <1>1, <1>2, <1>6
  <1>8. ASSUME NEW i \in 1..n
        PROVE  f[i + 1] = Chunk(i)
    <2>1. i + 1 \in 1..(n + 1) /\ ~(i + 1 <= 1) /\ (i + 1) - 1 = i
      BY <1>1
    <2> QED
      BY <1>3, <1>6, <2>1
  <1>9. ASSUME NEW i \in 1..(n + 1)
        PROVE  Expected(next, f, i + 1) = from + i - 1
    <2>1. i + 1 # 1 /\ (i + 1) - 1 = i
      BY <1>1
    <2>2. CASE i = 1
      BY <1>7, <2>1, <2>2 DEF Expected
    <2>3. CASE i # 1
      <3>1. PICK k \in 1..n : i = k + 1
        BY <1>1, <2>3
      <3>2. f[i] = Chunk(k)
        BY <1>8, <3>1
      <3>3. f[i].type = "output" /\ f[i].chunk = from + k - 1
        BY <3>2 DEF Chunk
      <3> QED
        BY <2>1, <3>1, <3>3 DEF Expected
    <2> QED
      BY <2>2, <2>3
  <1>10. Fits(next, f, 1, top, FALSE)
    BY <1>7 DEF Fits
  <1>11. ASSUME NEW i \in 1..n
         PROVE  Fits(next, f, i + 1, top, FALSE)
    <2>1. f[i + 1].type = "output" /\ f[i + 1].chunk = from + i - 1
      BY <1>8 DEF Chunk
    <2>2. i \in 1..(n + 1) /\ from + i - 1 < top
      BY <1>1
    <2>3. Expected(next, f, i + 1) = from + i - 1
      BY <1>9, <2>2
    <2> QED
      BY <2>1, <2>2, <2>3 DEF Fits
  <1>12. \A i \in 1..(n + 1) : Fits(next, f, i, top, FALSE)
    <2>1. SUFFICES ASSUME NEW i \in 1..(n + 1)
                   PROVE  Fits(next, f, i, top, FALSE)
      OBVIOUS
    <2>2. CASE i = 1
      BY <1>10, <2>2
    <2>3. CASE i # 1
      <3>1. PICK k \in 1..n : i = k + 1
        BY <1>1, <2>3
      <3> QED
        BY <1>11, <3>1
    <2> QED
      BY <2>2, <2>3
  <1>13. Expected(next, f, (n + 1) + 1) = top
    <2>1. n + 1 \in 1..(n + 1) /\ from + (n + 1) - 1 = top
      BY <1>1
    <2> QED
      BY <1>9, <2>1
  <1>15. f # <<>>
    <2>1. Len(<<>>) = 0
      BY EmptySeq
    <2> QED
      BY <1>1, <1>5, <2>1
  <1>16. FramesFit(next, f, top, FALSE)
    BY <1>5, <1>12, <1>13, <1>15 DEF FramesFit
  <1> QED
    BY <1>5, <1>15, <1>16

-----------------------------------------------------------------------------
(* Types.                                                                   *)

(* What a session runs is a set of its own jobs.                            *)
LEMMA RunningTyped ==
  ASSUME NEW s
  PROVE  Output!Running(s) \subseteq Jobs /\ \A j \in Output!Running(s) : SessionOf[j] = s
  BY DEF Output!Running

(* What the observer becomes when it takes a frame.                         *)
LEMMA TakenTyped ==
  ASSUME NEW w \in Observed, NEW f \in OutputFrames
  PROVE  /\ f.type = "opened" => Output!Opened(w, f) \in Observed
         /\ f.type = "output" => Output!Appended(w, f) \in Observed
         /\ [w EXCEPT !.state = "finished"] \in Observed
         /\ [w EXCEPT !.state = "error"] \in Observed
         /\ [w EXCEPT !.state = "reconnecting"] \in Observed
  <1>1. f.type = "opened" => Output!Opened(w, f) \in Observed
    <2>1. f.type = "opened" => f.from \in Nat
      BY OutputFrameFields
    <2> QED
      BY <2>1 DEF Output!Opened, Observed, Observing
  <1>2. ASSUME f.type = "output"
        PROVE  Output!Appended(w, f) \in Observed
    <2>1. f.chunk \in Nat /\ f.chunk + 1 \in Nat /\ f.gap \in BOOLEAN
      BY <1>2, OutputFrameFields
    <2>2. w.text \in Seq(Nat)
      BY DEF Observed
    <2>3. Append(w.text, f.chunk) \in Seq(Nat) /\ Append(w.text, f.chunk) # <<>>
      BY <2>1, <2>2, AppendProperties
    <2>4. Tail(Append(w.text, f.chunk)) \in Seq(Nat)
      BY <2>3, HeadTailProperties
    <2> DEFINE cut == Len(Append(w.text, f.chunk)) > TextCap
               t == IF cut THEN Tail(Append(w.text, f.chunk)) ELSE Append(w.text, f.chunk)
    <2>5. t \in Seq(Nat) /\ cut \in BOOLEAN
      BY <2>3, <2>4
    <2>6. Output!Appended(w, f) = [w EXCEPT !.next = f.chunk + 1, !.state = "streaming",
                                     !.text = t, !.lossy = @ \/ f.gap \/ cut]
      BY DEF Output!Appended
    <2> HIDE DEF t, cut
    <2>7. (w.lossy \/ f.gap \/ cut) \in BOOLEAN
      OBVIOUS
    <2> QED
      BY <2>1, <2>5, <2>6, <2>7 DEF Observed, Observing
  <1>3. /\ [w EXCEPT !.state = "finished"] \in Observed
        /\ [w EXCEPT !.state = "error"] \in Observed
        /\ [w EXCEPT !.state = "reconnecting"] \in Observed
    BY DEF Observed, Observing
  <1> QED
    BY <1>1, <1>2, <1>3

(* Nobody watched, or a job from its beginning.                             *)
LEMMA WatchTyped ==
  /\ Output!Unwatched \in Observed
  /\ \A j \in Jobs : Output!Watched(j) \in Observed /\ Output!Watched(j).job = j
     /\ Output!Watched(j).next = 0
                     /\ Output!Watched(j).text = <<>> /\ Output!Watched(j).lossy = FALSE
                     /\ Output!Watched(j).state = "loading"
  <1>1. <<>> \in Seq(Nat)
    BY EmptySeq
  <1> QED
    BY <1>1 DEF Output!Unwatched, Output!Watched, Observed, Observing

(* Chunks, markers and errors are frames.                                   *)
LEMMA MarkersTyped ==
  /\ [type |-> "finished"] \in OutputFrames /\ [type |-> "error"] \in OutputFrames
  /\ \A c \in Nat : \A g \in BOOLEAN :
       [type |-> "output", chunk |-> c, gap |-> g] \in ChunkFrame
  /\ ChunkFrame \subseteq OutputFrames
  BY DEF OutputFrames, ChunkFrame, EndFrame

(* The answer of the host to jobFollow, as a sequence of frames.            *)
LEMMA AnswerTyped ==
  ASSUME JobTypeOK, FramesFollow, Output!JobFollow
  PROVE  /\ watched.job \in Jobs /\ watched' = watched /\ output' \in Seq(OutputFrames)
         /\ UNCHANGED <<active, jobs, pump, roster, written, base, done>>
         /\ output' # <<>>
         /\ FramesFit(watched.next, output', written[watched.job], done[watched.job])
  <1> DEFINE j == watched.job
             from == Output!ResumeAt(watched)
             opening == <<[type |-> "opened", from |-> from]>>
                      \o [i \in 1..(written[j] - from) |->
                            [type |-> "output", chunk |-> from + i - 1, gap |-> FALSE]]
             end == [type |-> "finished"]
  <1>1. j \in Jobs /\ watched.next \in Nat /\ written[j] \in Nat /\ base[j] \in Nat
        /\ done[j] \in BOOLEAN
    BY DEF Output!JobFollow, FramesFollow, JobTypeOK, Observed, Observing
  <1>2. watched.next <= written[j] /\ base[j] <= written[j]
    BY <1>1 DEF FramesFollow
  <1>3. from \in Nat /\ watched.next <= from /\ from <= written[j]
    BY <1>1, <1>2 DEF Output!ResumeAt
  <1>4. opening \in Seq(OutputFrames) /\ opening # <<>>
        /\ FramesFit(watched.next, opening, written[j], FALSE)
    <2> HIDE DEF from, j
    <2> QED
      BY <1>1, <1>3, FitAnswer
  <1>5. watched' = watched /\ UNCHANGED <<active, jobs, pump, roster, written, base, done>>
    BY DEF Output!JobFollow, Output!hostVars
  <1>6. CASE output' = <<[type |-> "error"]>> /\ done[j]
    <2>1. output' \in Seq(OutputFrames) /\ output' # <<>> /\ Len(output') = 1
          /\ output'[1] = [type |-> "error"]
      BY <1>6, MarkersTyped
    <2>2. Fits(watched.next, output', 1, written[j], TRUE)
      BY <2>1 DEF Fits
    <2>4. output'[Len(output')].type = "error"
      BY <2>1
    <2>5. ~(output' = <<>> \/ output'[Len(output')].type \in {"opened", "output"})
      BY <2>1, <2>4
    <2>6. \A i \in 1..Len(output') : Fits(watched.next, output', i, written[j], TRUE)
      <3>1. \A i \in 1..Len(output') : i = 1
        BY <2>1
      <3> QED
        BY <2>2, <3>1
    <2>3. FramesFit(watched.next, output', written[j], TRUE)
      BY <2>5, <2>6 DEF FramesFit
    <2> QED
      BY <1>1, <1>5, <1>6, <2>1, <2>3
  <1>7. CASE output' = opening \o (IF done[j] THEN <<end>> ELSE <<>>)
    <2>1. CASE done[j]
      <3>1. end \in EndFrame /\ end \in OutputFrames /\ end.type = "finished"
        BY DEF OutputFrames, EndFrame
      <3>2. output' = Append(opening, end)
        <4> HIDE DEF opening, end
        <4> QED
          BY <1>4, <1>7, <2>1, <3>1, AppendIsConcat
      <3>3. Append(opening, end) \in Seq(OutputFrames) /\ Append(opening, end) # <<>>
        <4> HIDE DEF opening, end
        <4> QED
          BY <1>4, <3>1, AppendProperties
      <3>4. FramesFit(watched.next, Append(opening, end), written[j], TRUE)
        <4> HIDE DEF opening, end, j
        <4> QED
          BY <1>1, <1>4, <3>1, FitFinished
      <3> HIDE DEF opening, end, j
      <3>5. done[j] = TRUE
        BY <1>1, <2>1
      <3> QED
        BY <1>1, <1>5, <3>2, <3>3, <3>4, <3>5 DEF j
    <2>2. CASE ~done[j]
      <3> HIDE DEF opening, end, j
      <3>1. output' = opening
        <4>1. opening \o <<>> = opening
          BY <1>4, ConcatEmptySeq
        <4> QED
          BY <1>7, <2>2, <4>1
      <3>2. done[j] = FALSE
        BY <1>1, <2>2
      <3> QED
        BY <1>1, <1>4, <1>5, <3>1, <3>2 DEF j
    <2> QED
      BY <2>1, <2>2
  <1> QED
    BY <1>6, <1>7 DEF Output!JobFollow

(* What a job's chunk or end does to the frames under way.                  *)
LEMMA HostFrames ==
  ASSUME Output!JobAssumption, JobTypeOK, FramesFollow, NEW j \in Jobs,
         Output!JobWrites(j) \/ Output!JobEnds(j)
  PROVE  /\ output' \in Seq(OutputFrames) /\ watched' = watched
         /\ UNCHANGED <<active, jobs, pump>>
         /\ ~done[j]
         /\ ~Output!Following(j) => output' = output
         /\ output # <<>> => output' # <<>>
         /\ Output!Following(j) =>
              FramesFit(watched.next, output', written'[j], done'[j])
  <1>1. written[j] \in Nat /\ watched.next \in Nat /\ ~done[j] /\ output \in Seq(OutputFrames)
        /\ done[j] = FALSE
    BY DEF Output!JobWrites, Output!JobEnds, JobTypeOK, Observed
  <1>2. Output!Following(j) => FramesFit(watched.next, output, written[j], FALSE)
    BY <1>1 DEF FramesFollow, Output!Following
  <1>3. ASSUME NEW f \in Seq(OutputFrames), NEW x \in OutputFrames
        PROVE  Append(f, x) \in Seq(OutputFrames) /\ Append(f, x) # <<>>
    BY AppendProperties
  <1>4. CASE Output!JobWrites(j)
    <2> DEFINE quick == [type |-> "output", chunk |-> written[j], gap |-> FALSE]
               lost == [type |-> "output", chunk |-> written[j], gap |-> TRUE]
    <2>1. /\ watched' = watched /\ UNCHANGED <<active, jobs, pump, done>>
          /\ written' = [written EXCEPT ![j] = @ + 1]
          /\ output' = IF ~Output!Following(j) THEN output
                       ELSE IF Len(output) > Window THEN Append(SubSeq(output, 1, Len(output) - 1), lost)
                       ELSE Append(output, quick)
      BY <1>4 DEF Output!JobWrites
    <2>2. written'[j] = written[j] + 1 /\ done'[j] = FALSE
      BY <1>1, <2>1 DEF JobTypeOK
    <2>3. /\ quick \in ChunkFrame /\ lost \in ChunkFrame /\ quick \in OutputFrames
             /\ lost \in OutputFrames
          /\ quick.chunk = written[j] /\ lost.chunk = written[j] /\ lost.gap
      BY <1>1, MarkersTyped
    <2> HIDE DEF quick, lost
    <2>4. CASE ~Output!Following(j)
      BY <1>1, <2>1, <2>4
    <2>5. CASE Output!Following(j) /\ ~(Len(output) > Window)
      <3>1. output' = Append(output, quick)
        BY <2>1, <2>5
      <3>2. FramesFit(watched.next, Append(output, quick), written[j] + 1, FALSE)
        BY <1>1, <1>2, <2>3, <2>5, FitAppend
      <3> QED
        BY <1>1, <1>3, <2>1, <2>2, <2>3, <2>5, <3>1, <3>2
    <2>6. CASE Output!Following(j) /\ Len(output) > Window
      <3>1. output' = Append(SubSeq(output, 1, Len(output) - 1), lost)
        BY <2>1, <2>6
      <3>2. Len(output) > 1 /\ Len(output) \in Nat
        BY <1>1, <2>6, LenProperties DEF Output!JobAssumption
      <3>3. FramesFit(watched.next, Append(SubSeq(output, 1, Len(output) - 1), lost),
            written[j] + 1, FALSE)
        BY <1>1, <1>2, <2>3, <2>6, <3>2, FitReplaced
      <3>4. SubSeq(output, 1, Len(output) - 1) \in Seq(OutputFrames)
        <4>1. \A i \in 1..(Len(output) - 1) : output[i] \in OutputFrames
          BY <1>1, <3>2, ElementOfSeq
        <4>2. 1 \in Int /\ Len(output) - 1 \in Int
          BY <3>2
        <4> QED
          BY <4>1, <4>2, SubSeqProperties
      <3> QED
        BY <1>1, <1>3, <2>1, <2>2, <2>3, <2>6, <3>1, <3>3, <3>4
    <2> QED
      BY <2>4, <2>5, <2>6
  <1>5. CASE Output!JobEnds(j)
    <2> DEFINE end == [type |-> "finished"]
    <2>1. /\ watched' = watched /\ UNCHANGED <<active, jobs, pump, written>>
          /\ done' = [done EXCEPT ![j] = TRUE]
          /\ output' = IF Output!Following(j) THEN Append(output, end) ELSE output
      BY <1>5 DEF Output!JobEnds
    <2>2. written'[j] = written[j] /\ done'[j] = TRUE
      BY <1>1, <2>1 DEF JobTypeOK
    <2>3. end \in EndFrame /\ end \in OutputFrames /\ end.type = "finished"
      BY DEF OutputFrames, EndFrame
    <2> HIDE DEF end
    <2>4. CASE ~Output!Following(j)
      BY <1>1, <2>1, <2>4
    <2>5. CASE Output!Following(j)
      <3>1. FramesFit(watched.next, Append(output, end), written[j], TRUE)
        BY <1>1, <1>2, <2>3, <2>5, FitFinished
      <3> QED
        BY <1>1, <1>3, <2>1, <2>2, <2>3, <2>5, <3>1
    <2> QED
      BY <2>4, <2>5
  <1> QED
    BY <1>4, <1>5

(* What the observer holds once it took the first frame.                    *)
LEMMA FrameTaken ==
  ASSUME JobTypeOK, FramesFollow, Output!OutputFrame
  PROVE  /\ output \in Seq(OutputFrames) /\ output # <<>> /\ output' = Tail(output)
         /\ Head(output) = output[1] /\ output[1] \in OutputFrames
         /\ watched \in Observed /\ watched.job \in Jobs
         /\ watched' \in Observed /\ watched'.job = watched.job
         /\ UNCHANGED <<active, jobs, pump, roster, written, base, done>>
         /\ \/ output[1].type = "opened" /\ watched' = Output!Opened(watched, output[1])
            \/ output[1].type = "output" /\ watched' = Output!Appended(watched, output[1])
            \/ output[1].type = "finished" /\ watched' = [watched EXCEPT !.state = "finished"]
            \/ output[1].type = "error" /\ watched' = [watched EXCEPT !.state = "error"]
  <1>1. /\ output \in Seq(OutputFrames) /\ output # <<>> /\ output' = Tail(output)
        /\ watched \in Observed /\ watched.job \in Jobs
        /\ UNCHANGED <<active, jobs, pump, roster, written, base, done>>
    BY DEF Output!OutputFrame, JobTypeOK, FramesFollow, Output!hostVars
  <1>2. Head(output) = output[1] /\ output[1] \in OutputFrames
    BY <1>1, HeadTailProperties
  <1>3. output[1].type \in {"opened", "output", "finished", "error"}
    BY <1>2, OutputFrameFields
  <1> DEFINE f == output[1]
  <1>4. watched' = CASE f.type = "opened" -> Output!Opened(watched, f)
                     [] f.type = "output" -> Output!Appended(watched, f)
                     [] f.type = "finished" -> [watched EXCEPT !.state = "finished"]
                     [] f.type = "error" -> [watched EXCEPT !.state = "error"]
    BY <1>2 DEF Output!OutputFrame
  <1>5. \/ f.type = "opened" /\ watched' = Output!Opened(watched, f)
        \/ f.type = "output" /\ watched' = Output!Appended(watched, f)
        \/ f.type = "finished" /\ watched' = [watched EXCEPT !.state = "finished"]
        \/ f.type = "error" /\ watched' = [watched EXCEPT !.state = "error"]
    <2> HIDE DEF f
    <2>1. f.type \in {"opened", "output", "finished", "error"}
      BY <1>3 DEF f
    <2>2. CASE f.type = "opened"
      BY <1>4, <2>2
    <2>3. CASE f.type = "output"
      BY <1>4, <2>3
    <2>4. CASE f.type = "finished"
      BY <1>4, <2>4
    <2>5. CASE f.type = "error"
      BY <1>4, <2>5
    <2> QED
      BY <2>1, <2>2, <2>3, <2>4, <2>5
  <1>6. watched' \in Observed
    BY <1>1, <1>2, <1>5, TakenTyped
  <1>7. watched'.job = watched.job
    <2>1. ASSUME NEW w \in Observed, NEW x
          PROVE  /\ Output!Opened(w, x).job = w.job /\ Output!Appended(w, x).job = w.job
                 /\ [w EXCEPT !.state = "finished"].job = w.job
                 /\ [w EXCEPT !.state = "error"].job = w.job
      BY DEF Output!Opened, Output!Appended, Observed
    <2>2. /\ Output!Opened(watched, f).job = watched.job
             /\ Output!Appended(watched, f).job = watched.job
          /\ [watched EXCEPT !.state = "finished"].job = watched.job
          /\ [watched EXCEPT !.state = "error"].job = watched.job
      BY <1>1, <2>1
    <2> HIDE DEF f
    <2> QED
      BY <1>5, <2>2, Zenon
  <1> QED
    BY <1>1, <1>2, <1>5, <1>6, <1>7

(* Every step keeps every piece of state in its type.                       *)
LEMMA JobTypesHold ==
  ASSUME Output!JobAssumption, JobTypeOK, FramesFollow, [Output!Next]_(Output!vars)
  PROVE  JobTypeOK'
  <1>1. Output!Running(active) \subseteq Jobs /\ Output!Running(pump) \subseteq Jobs
    BY RunningTyped
  <1>2. <<>> \in Seq(SUBSET Jobs) /\ <<>> \in Seq(OutputFrames)
    BY EmptySeq
  <1>3. roster \in Seq(SUBSET Jobs)
    BY DEF JobTypeOK
  <1>4. CASE Output!PumpOpens
    <2>1. <<Output!Running(active)>> \in Seq(SUBSET Jobs)
      BY <1>1
    <2> QED
      BY <1>4, <2>1 DEF Output!PumpOpens, Output!hostVars, JobTypeOK
  <1>5. CASE Output!RosterFrame
    <2>1. Tail(roster) \in Seq(SUBSET Jobs) /\ Head(roster) \in SUBSET Jobs
      BY <1>3, <1>5, HeadTailProperties DEF Output!RosterFrame
    <2> QED
      BY <1>2, <1>5, <2>1 DEF Output!RosterFrame, Output!hostVars, JobTypeOK
  <1>6. CASE Output!RosterEnds
    BY <1>2, <1>6 DEF Output!RosterEnds, Output!hostVars, JobTypeOK
  <1>7. CASE Output!SwitchSession
    BY <1>2, <1>7, WatchTyped DEF Output!SwitchSession, Output!hostVars, JobTypeOK
  <1>8. CASE Output!StopFollowing
    BY <1>2, <1>8, WatchTyped DEF Output!StopFollowing, Output!hostVars, JobTypeOK
  <1>9. ASSUME NEW j \in Jobs, Output!FollowJob(j)
        PROVE  JobTypeOK'
    BY <1>2, <1>9, WatchTyped DEF Output!FollowJob, Output!hostVars, JobTypeOK
  <1>10. ASSUME NEW j \in Jobs, Output!JobWrites(j) \/ Output!JobEnds(j)
         PROVE  JobTypeOK'
    <2>1. output' \in Seq(OutputFrames) /\ watched' = watched /\ UNCHANGED <<active, jobs, pump>>
      BY <1>10, HostFrames
    <2>2. CASE Output!JobWrites(j)
      <3>1. written' \in [Jobs -> Nat]
        BY <2>2 DEF Output!JobWrites, JobTypeOK
      <3>2. base' \in [Jobs -> Nat]
        BY <2>2 DEF Output!JobWrites, JobTypeOK
      <3> QED
        BY <2>1, <2>2, <3>1, <3>2 DEF Output!JobWrites, JobTypeOK
    <2>3. CASE Output!JobEnds(j)
      <3>1. Output!Running(pump) \ {j} \in SUBSET Jobs
        BY <1>1
      <3>2. Append(roster, Output!Running(pump) \ {j}) \in Seq(SUBSET Jobs)
        BY <1>3, <3>1, AppendProperties
      <3> QED
        BY <2>1, <2>3, <3>2 DEF Output!JobEnds, JobTypeOK
    <2> QED
      BY <1>10, <2>2, <2>3
  <1>11. CASE Output!JobFollow
    BY <1>11, AnswerTyped DEF JobTypeOK
  <1>12. CASE Output!OutputFrame
    <2>1. Tail(output) \in Seq(OutputFrames)
      BY <1>12, FrameTaken, HeadTailProperties
    <2> QED
      BY <1>12, <2>1, FrameTaken DEF JobTypeOK
  <1>13. CASE Output!StreamBreaks
    <2>1. [watched EXCEPT !.state = "reconnecting"] \in Observed
      BY DEF JobTypeOK, Observed, Observing
    <2> QED
      BY <1>2, <1>13, <2>1 DEF Output!StreamBreaks, Output!hostVars, JobTypeOK
  <1>14. CASE UNCHANGED Output!vars
    BY <1>14 DEF Output!vars, Output!hostVars, JobTypeOK
  <1> QED
    BY <1>4, <1>5, <1>6, <1>7, <1>8, <1>9, <1>10, <1>11, <1>12, <1>13, <1>14 DEF Output!Next

-----------------------------------------------------------------------------
(* The roster.                                                              *)

(* The roster that is open, what waits on it and the jobs shown are of the  *)
(* session that is open.                                                    *)
LEMMA RosterHolds ==
  ASSUME Output!JobAssumption, JobTypeOK, FramesFollow, RosterOfSession, Output!JobsOfSession,
         [Output!Next]_(Output!vars)
  PROVE  RosterOfSession' /\ Output!JobsOfSession'
  <1>1. roster \in Seq(SUBSET Jobs)
    BY DEF JobTypeOK
  <1>2. Len(<<>>) = 0
    BY EmptySeq
  <1>3. CASE Output!PumpOpens
    <2>1. RosterOfSession'
      BY <1>3, RunningTyped DEF Output!PumpOpens, RosterOfSession
    <2>2. Output!JobsOfSession'
      BY <1>3 DEF Output!PumpOpens, Output!JobsOfSession
    <2> QED
      BY <2>1, <2>2
  <1>4. CASE Output!RosterFrame
    <2>1. roster # <<>> /\ active' = active /\ watched' = watched
      BY <1>4 DEF Output!RosterFrame
    <2>2. /\ Head(roster) = roster[1] /\ Len(roster) \in Nat /\ Len(roster) >= 1
          /\ Len(Tail(roster)) = Len(roster) - 1
          /\ \A i \in 1..(Len(roster) - 1) : Tail(roster)[i] = roster[i + 1]
      BY <1>1, <2>1, EmptySeq, LenProperties, HeadTailProperties
    <2>3. CASE pump # Output!Aborted /\ pump = active
      <3>1. jobs' = roster[1] /\ roster' = Tail(roster) /\ pump' = pump
        BY <1>4, <2>2, <2>3 DEF Output!RosterFrame
      <3>2. \A i \in 1..Len(roster) : \A j \in roster[i] : SessionOf[j] = pump
        BY <2>3 DEF RosterOfSession
      <3>3. \A j \in jobs' : SessionOf[j] = active
        <4>1. 1 \in 1..Len(roster)
          BY <2>2
        <4> QED
          BY <2>3, <3>1, <3>2, <4>1
      <3>4. \A i \in 1..Len(roster') : \A j \in roster'[i] : SessionOf[j] = pump
        <4>1. SUFFICES ASSUME NEW i \in 1..(Len(roster) - 1)
                       PROVE  \A j \in roster'[i] : SessionOf[j] = pump
          BY <2>2, <3>1
        <4>2. roster'[i] = roster[i + 1] /\ i + 1 \in 1..Len(roster)
          BY <2>2, <3>1
        <4> QED
          BY <3>2, <4>2
      <3> QED
        BY <2>1, <3>1, <3>3, <3>4 DEF RosterOfSession, Output!JobsOfSession
    <2>4. CASE ~(pump # Output!Aborted /\ pump = active)
      <3>1. roster' = <<>> /\ jobs' = jobs
        BY <1>4, <2>4 DEF Output!RosterFrame
      <3> QED
        BY <1>2, <2>1, <3>1 DEF RosterOfSession, Output!JobsOfSession
    <2> QED
      BY <2>3, <2>4
  <1>5. CASE Output!RosterEnds
    BY <1>2, <1>5 DEF Output!RosterEnds, RosterOfSession, Output!JobsOfSession
  <1>6. CASE Output!SwitchSession
    <2>1. jobs' = {} /\ watched' = Output!Unwatched /\ roster' = roster
          /\ ((pump' = Output!None /\ pump = Output!None) \/ pump' = Output!Aborted)
      BY <1>6 DEF Output!SwitchSession
    <2>2. Output!Unwatched.job = Output!None
      BY DEF Output!Unwatched
    <2>3. Output!JobsOfSession'
      BY <2>1, <2>2 DEF Output!JobsOfSession
    <2>4. RosterOfSession'
      BY <2>1 DEF RosterOfSession
    <2> QED
      BY <2>3, <2>4
  <1>7. CASE Output!StopFollowing
    <2>1. jobs' = jobs /\ active' = active /\ pump' = pump /\ roster' = roster
          /\ watched' = Output!Unwatched
      BY <1>7 DEF Output!StopFollowing
    <2>2. Output!Unwatched.job = Output!None
      BY DEF Output!Unwatched
    <2> QED
      BY <2>1, <2>2 DEF RosterOfSession, Output!JobsOfSession
  <1>8. ASSUME NEW j \in Jobs, Output!FollowJob(j)
        PROVE  RosterOfSession' /\ Output!JobsOfSession'
    <2>1. jobs' = jobs /\ active' = active /\ pump' = pump /\ roster' = roster
          /\ watched' = Output!Watched(j) /\ j \in jobs
      BY <1>8 DEF Output!FollowJob
    <2>2. watched'.job = j
      BY <2>1, WatchTyped
    <2> QED
      BY <2>1, <2>2 DEF RosterOfSession, Output!JobsOfSession
  <1>9. ASSUME NEW j \in Jobs, Output!JobWrites(j) \/ Output!JobEnds(j)
        PROVE  RosterOfSession' /\ Output!JobsOfSession'
    <2>1. watched' = watched /\ UNCHANGED <<active, jobs, pump>>
      BY <1>9, HostFrames
    <2>2. Output!JobsOfSession'
      BY <2>1 DEF Output!JobsOfSession
    <2>3. CASE roster' = roster
      BY <2>1, <2>2, <2>3 DEF RosterOfSession
    <2>4. CASE roster' = Append(roster, Output!Running(pump) \ {j})
      <3>1. Output!Running(pump) \ {j} \in SUBSET Jobs
            /\ \A k \in Output!Running(pump) \ {j} : SessionOf[k] = pump
        BY RunningTyped
      <3>2. /\ Len(roster) \in Nat /\ Len(roster') = Len(roster) + 1
            /\ \A i \in 1..Len(roster) : roster'[i] = roster[i]
            /\ roster'[Len(roster) + 1] = Output!Running(pump) \ {j}
        <4> DEFINE x == Output!Running(pump) \ {j}
        <4>1. x \in SUBSET Jobs
          BY <3>1
        <4> HIDE DEF x
        <4>2. /\ Len(roster) \in Nat /\ Len(Append(roster, x)) = Len(roster) + 1
              /\ \A i \in 1..Len(roster) : Append(roster, x)[i] = roster[i]
              /\ Append(roster, x)[Len(roster) + 1] = x
          BY <1>1, <4>1, AppendProperties, LenProperties
        <4> QED
          BY <2>4, <4>2, Zenon DEF x
      <3>3. RosterOfSession'
        <4>1. SUFFICES ASSUME pump # Output!Aborted, NEW i \in 1..(Len(roster) + 1)
                       PROVE  \A k \in roster'[i] : SessionOf[k] = pump
          BY <2>1, <3>2 DEF RosterOfSession
        <4>2. CASE i \in 1..Len(roster)
          BY <3>2, <4>1, <4>2 DEF RosterOfSession
        <4>3. CASE i = Len(roster) + 1
          BY <3>1, <3>2, <4>3
        <4> QED
          BY <3>2, <4>2, <4>3
      <3> QED
        BY <2>2, <3>3
    <2>5. roster' = roster \/ roster' = Append(roster, Output!Running(pump) \ {j})
      BY <1>9 DEF Output!JobWrites, Output!JobEnds
    <2> QED
      BY <2>3, <2>4, <2>5
  <1>10. CASE Output!JobFollow
    BY <1>10, AnswerTyped DEF RosterOfSession, Output!JobsOfSession
  <1>11. CASE Output!OutputFrame
    <2>1. watched'.job = watched.job /\ UNCHANGED <<active, jobs, pump, roster>>
      BY <1>11, FrameTaken
    <2> QED
      BY <2>1 DEF RosterOfSession, Output!JobsOfSession
  <1>12. CASE Output!StreamBreaks
    <2>1. UNCHANGED <<active, jobs, pump, roster>>
          /\ watched' = [watched EXCEPT !.state = "reconnecting"]
      BY <1>12 DEF Output!StreamBreaks
    <2>2. watched'.job = watched.job
      BY <2>1 DEF JobTypeOK, Observed
    <2> QED
      BY <2>1, <2>2 DEF RosterOfSession, Output!JobsOfSession
  <1>13. CASE UNCHANGED Output!vars
    BY <1>13 DEF Output!vars, RosterOfSession, Output!JobsOfSession
  <1> QED
    BY <1>3, <1>4, <1>5, <1>6, <1>7, <1>8, <1>9, <1>10, <1>11, <1>12, <1>13 DEF Output!Next

-----------------------------------------------------------------------------
(* The frames under way.                                                    *)

(* Nothing is under way for an observer that begins.                        *)
LEMMA FramesReset ==
  ASSUME FramesFollow, JobTypeOK, output' = <<>>,
         UNCHANGED <<written, base, done>>,
         \/ watched' = Output!Unwatched
         \/ \E j \in Jobs : watched' = Output!Watched(j)
         \/ /\ watched.state \in Observing
            /\ watched' = [watched EXCEPT !.state = "reconnecting"]
  PROVE  FramesFollow'
  <1>1. CASE watched' = Output!Unwatched
    <2>1. watched'.state = Output!None /\ watched'.next = 0
      BY <1>1 DEF Output!Unwatched
    <2>2. Output!None \notin Observing /\ Output!None # "finished" /\ Output!None # "streaming"
      BY DEF Output!None, Observing
    <2>3. \A j \in Jobs : written[j] \in Nat
      BY DEF JobTypeOK
    <2>4. watched'.job \in Jobs => watched'.next <= written[watched'.job]
      BY <2>1, <2>3
    <2> QED
      BY <2>1, <2>2, <2>4 DEF FramesFollow
  <1>2. ASSUME NEW j \in Jobs, watched' = Output!Watched(j)
        PROVE  FramesFollow'
    <2>1. watched'.state = "loading" /\ watched'.next = 0 /\ watched'.job = j
      BY <1>2, WatchTyped
    <2>2. written[j] \in Nat /\ 0 <= written[j]
      BY DEF JobTypeOK
    <2>3. "loading" \in Observing
      BY DEF Observing
    <2> QED
      BY <2>1, <2>2, <2>3 DEF FramesFollow
  <1>3. ASSUME watched.state \in Observing, watched' = [watched EXCEPT !.state = "reconnecting"]
        PROVE  FramesFollow'
    <2>1. watched'.state = "reconnecting" /\ watched'.next = watched.next
          /\ watched'.job = watched.job
      BY <1>3 DEF JobTypeOK, Observed
    <2>2. "reconnecting" \in Observing
      BY DEF Observing
    <2> QED
      BY <1>3, <2>1, <2>2 DEF FramesFollow
  <1> QED
    BY <1>1, <1>2, <1>3

(* A step that leaves the observer alone, with frames that fit.             *)
LEMMA FramesKept ==
  ASSUME FramesFollow, watched' = watched,
         \A j \in Jobs : base'[j] <= written'[j] /\ written[j] <= written'[j]
                         /\ written[j] \in Nat /\ written'[j] \in Nat,
         \A j \in Jobs : done[j] => done'[j] /\ written'[j] = written[j],
         JobTypeOK,
         watched.state \notin Observing => output' = <<>>,
         output' # <<>> => watched.job \in Jobs,
         (watched.state = "streaming" \/ output' # <<>>) =>
           FramesFit(watched.next, output', written'[watched.job], done'[watched.job])
  PROVE  FramesFollow'
  <1>1. watched.next \in Nat
    BY DEF JobTypeOK, Observed
  <1>2. watched.job \in Jobs => watched.next <= written'[watched.job]
    BY <1>1 DEF FramesFollow
  <1> QED
    BY <1>2 DEF FramesFollow

(* The observer takes a frame: the rest goes on where it now is.            *)
LEMMA FramesOfFrame ==
  ASSUME JobTypeOK, FramesFollow, Output!OutputFrame
  PROVE  FramesFollow'
  <1> DEFINE j == watched.job
             f == output[1]
             top == written[j]
             n == Len(output)
  <1>1. /\ output \in Seq(OutputFrames) /\ output # <<>> /\ output' = Tail(output)
           /\ f \in OutputFrames
        /\ watched \in Observed /\ j \in Jobs /\ watched'.job = j /\ watched' \in Observed
        /\ UNCHANGED <<written, base, done>>
    BY FrameTaken
  <1>2. top \in Nat /\ done[j] \in BOOLEAN /\ watched.next \in Nat /\ watched.next <= top
    BY <1>1 DEF JobTypeOK, Observed, FramesFollow
  <1>3. FramesFit(watched.next, output, top, done[j])
    BY <1>1 DEF FramesFollow
  <1>4. n \in Nat /\ n >= 1
    BY <1>1, EmptySeq, LenProperties
  <1>5. Fits(watched.next, output, 1, top, done[j])
    BY <1>3, <1>4 DEF FramesFit
  <1>6. \A k \in Jobs : base[k] <= written[k]
    BY DEF FramesFollow
  <1>7. ASSUME f.type \in {"opened", "output"}, watched'.next = Expected(watched.next, output, 2),
               watched'.next \in Nat, watched'.next <= top, watched'.state = "streaming"
        PROVE  FramesFollow'
    <2>1. FramesFit(watched'.next, Tail(output), top, done[j])
      BY <1>1, <1>2, <1>3, <1>7, FitTail
    <2>2. watched'.state \in Observing /\ watched'.state # "finished"
      BY <1>7 DEF Observing
    <2> QED
      BY <1>1, <1>6, <1>7, <2>1, <2>2 DEF FramesFollow
  <1>8. Expected(watched.next, output, 2) = IF f.type = "opened" THEN f.from ELSE f.chunk + 1
    BY DEF Expected
  <1>9. CASE f.type = "opened" /\ watched' = Output!Opened(watched, f)
    <2>1. f.from \in Nat
      BY <1>1, <1>9, OutputFrameFields
    <2>2. watched'.next = f.from /\ watched'.state = "streaming"
      BY <1>1, <1>9 DEF Output!Opened, Observed
    <2>3. f.from <= top
      BY <1>5, <1>9 DEF Fits
    <2> QED
      BY <1>7, <1>8, <1>9, <2>1, <2>2, <2>3
  <1>10. CASE f.type = "output" /\ watched' = Output!Appended(watched, f)
    <2>1. f.chunk \in Nat /\ f.chunk + 1 \in Nat
      BY <1>1, <1>10, OutputFrameFields
    <2>2. watched'.next = f.chunk + 1 /\ watched'.state = "streaming"
      BY <1>1, <1>10 DEF Output!Appended, Observed
    <2>3. f.chunk < top
      BY <1>5, <1>10 DEF Fits
    <2>4. f.chunk + 1 <= top
      BY <1>2, <2>1, <2>3
    <2> QED
      BY <1>7, <1>8, <1>10, <2>1, <2>2, <2>4
  <1>11. ASSUME f.type \in {"finished", "error"}
         PROVE  done[j] /\ output' = <<>>
    <2>1. done[j] /\ 1 = n
      BY <1>5, <1>11 DEF Fits
    <2>2. Tail(output) \in Seq(OutputFrames) /\ Len(Tail(output)) = n - 1
      BY <1>1, HeadTailProperties
    <2>3. Len(Tail(output)) = 0
      BY <2>1, <2>2
    <2> QED
      BY <1>1, <2>1, <2>2, <2>3, EmptySeq
  <1>12. CASE f.type = "finished" /\ watched' = [watched EXCEPT !.state = "finished"]
    <2>1. watched'.state = "finished" /\ watched'.next = watched.next
      BY <1>1, <1>12 DEF Observed
    <2>2. Expected(watched.next, output, 1) = top
      BY <1>5, <1>12 DEF Fits
    <2>3. watched.next = top
      BY <2>2 DEF Expected
    <2>4. "finished" \notin Observing
      BY DEF Observing
    <2>5. done[j] /\ output' = <<>>
      BY <1>11, <1>12
    <2> QED
      BY <1>1, <1>2, <1>6, <2>1, <2>3, <2>4, <2>5 DEF FramesFollow
  <1>13. CASE f.type = "error" /\ watched' = [watched EXCEPT !.state = "error"]
    <2>1. watched'.state = "error" /\ watched'.next = watched.next
      BY <1>1, <1>13 DEF Observed
    <2>2. "error" \notin Observing
      BY DEF Observing
    <2>3. done[j] /\ output' = <<>>
      BY <1>11, <1>13
    <2> QED
      BY <1>1, <1>2, <1>6, <2>1, <2>2, <2>3 DEF FramesFollow
  <1> QED
    BY <1>9, <1>10, <1>12, <1>13, FrameTaken

(* Every step leaves frames that go on where the observer is.               *)
LEMMA FramesHold ==
  ASSUME Output!JobAssumption, JobTypeOK, FramesFollow, [Output!Next]_(Output!vars)
  PROVE  FramesFollow'
  <1>1. \A j \in Jobs : base[j] \in Nat /\ written[j] \in Nat /\ base[j] <= written[j]
    BY DEF JobTypeOK, FramesFollow
  <1>2. ASSUME UNCHANGED <<watched, output, written, base, done>>
        PROVE  FramesFollow'
    BY <1>2 DEF FramesFollow
  <1>3. CASE Output!PumpOpens \/ Output!RosterFrame \/ Output!RosterEnds \/ UNCHANGED Output!vars
    BY <1>2, <1>3 DEF Output!PumpOpens, Output!RosterFrame, Output!RosterEnds, Output!vars,
           Output!hostVars
  <1>4. CASE Output!SwitchSession \/ Output!StopFollowing
    BY <1>4, FramesReset DEF Output!SwitchSession, Output!StopFollowing, Output!hostVars
  <1>5. ASSUME NEW j \in Jobs, Output!FollowJob(j)
        PROVE  FramesFollow'
    BY <1>5, FramesReset DEF Output!FollowJob, Output!hostVars
  <1>6. CASE Output!StreamBreaks
    <2>1. watched.state \in Observing
      BY <1>6 DEF Output!StreamBreaks, Observing
    <2> QED
      BY <1>6, <2>1, FramesReset DEF Output!StreamBreaks, Output!hostVars
  <1>7. CASE Output!JobFollow
    <2>1. watched.state \in Observing
      BY <1>7 DEF Output!JobFollow, Observing
    <2> QED
      BY <1>1, <1>7, <2>1, AnswerTyped, FramesKept
  <1>8. CASE Output!OutputFrame
    BY <1>8, FramesOfFrame
  <1>9. ASSUME NEW j \in Jobs, Output!JobWrites(j) \/ Output!JobEnds(j)
        PROVE  FramesFollow'
    <2>1. /\ output' \in Seq(OutputFrames) /\ watched' = watched
          /\ ~done[j]
          /\ ~Output!Following(j) => output' = output
          /\ output # <<>> => output' # <<>>
          /\ Output!Following(j) =>
               FramesFit(watched.next, output', written'[j], done'[j])
      BY <1>9, HostFrames
    <2>2. \A k \in Jobs : k # j => written'[k] = written[k] /\ base'[k] = base[k]
                                   /\ done'[k] = done[k]
      BY <1>9 DEF Output!JobWrites, Output!JobEnds, JobTypeOK
    <2>3. /\ written'[j] \in Nat /\ written[j] <= written'[j] /\ base'[j] <= written'[j]
      <3>1. CASE Output!JobWrites(j)
        <4>1. written'[j] = written[j] + 1
          BY <3>1 DEF Output!JobWrites, JobTypeOK
        <4>2. base'[j] = IF written'[j] - base[j] > Window THEN base[j] + 1 ELSE base[j]
          BY <3>1 DEF Output!JobWrites, JobTypeOK
        <4> QED
          BY <1>1, <4>1, <4>2
      <3>2. CASE Output!JobEnds(j)
        BY <1>1, <3>2 DEF Output!JobEnds
      <3> QED
        BY <1>9, <3>1, <3>2
    <2>4. \A k \in Jobs : base'[k] <= written'[k] /\ written[k] <= written'[k]
                          /\ written[k] \in Nat /\ written'[k] \in Nat
      BY <1>1, <2>2, <2>3
    <2>5. \A k \in Jobs : done[k] => done'[k] /\ written'[k] = written[k]
      BY <2>1, <2>2
    <2>6. watched.state \notin Observing => output' = <<>>
      <3>1. "streaming" \in Observing
        BY DEF Observing
      <3> QED
        BY <2>1, <3>1 DEF FramesFollow, Output!Following
    <2>7. output' # <<>> => watched.job \in Jobs
      BY <2>1 DEF FramesFollow, Output!Following
    <2>8. (watched.state = "streaming" \/ output' # <<>>) =>
            FramesFit(watched.next, output', written'[watched.job], done'[watched.job])
      <3>1. CASE Output!Following(j)
        BY <2>1, <3>1 DEF Output!Following
      <3>2. CASE ~Output!Following(j)
        <4>1. output' = output
          BY <2>1, <3>2
        <4>2. ASSUME watched.state = "streaming" \/ output # <<>>
              PROVE  /\ watched.job # j /\ watched.job \in Jobs
                     /\ FramesFit(watched.next, output, written[watched.job], done[watched.job])
          <5>1. "streaming" \in Observing
            BY DEF Observing
          <5> QED
            BY <3>2, <4>2, <5>1 DEF Output!Following, FramesFollow
        <4> QED
          BY <2>2, <4>1, <4>2
      <3> QED
        BY <3>1, <3>2
    <2> QED
      BY <2>1, <2>4, <2>5, <2>6, <2>7, <2>8, FramesKept
  <1> QED
    BY <1>3, <1>4, <1>5, <1>6, <1>7, <1>8, <1>9 DEF Output!Next

-----------------------------------------------------------------------------
(* The text.                                                                *)

(* Nothing is kept of a job that was not heard of.                          *)
LEMMA EmptyExact ==
  /\ Len(<<>>) = 0 /\ <<>> = [i \in 1..0 |-> i - 1]
  /\ \A i \in 1..0 : FALSE
  <1>1. Len(<<>>) = 0
    BY EmptySeq
  <1>2. [i \in 1..0 |-> i - 1] \in Seq(Nat) /\ Len([i \in 1..0 |-> i - 1]) = 0
    <2>1. \A i \in 1..0 : i - 1 \in Nat
      OBVIOUS
    <2>2. [i \in 1..0 |-> i - 1] \in [1..0 -> Nat] /\ 0 \in Nat
      BY <2>1
    <2> QED
      BY <2>2
  <1>3. [i \in 1..0 |-> i - 1] = <<>>
    BY <1>2, EmptySeq
  <1> QED
    BY <1>1, <1>3

(* A chunk that is appended keeps the text in order, and whole unless the   *)
(* frame, the cap or an earlier loss marks it.                              *)
LEMMA AppendedExact ==
  ASSUME NEW w \in Observed, NEW f \in ChunkFrame, w.next <= f.chunk,
         ~f.gap => f.chunk = w.next,
         ~w.lossy => w.text = [i \in 1..w.next |-> i - 1],
         \A i \in 1..Len(w.text) : w.text[i] < w.next,
         \A i, k \in 1..Len(w.text) : i < k => w.text[i] < w.text[k]
  PROVE  LET v == Output!Appended(w, f) IN
         /\ ~v.lossy => v.text = [i \in 1..v.next |-> i - 1]
         /\ \A i \in 1..Len(v.text) : v.text[i] < v.next
         /\ \A i, k \in 1..Len(v.text) : i < k => v.text[i] < v.text[k]
  <1> DEFINE v == Output!Appended(w, f)
             t == w.text
             n == Len(t)
             c == f.chunk
             u == Append(t, c)
             cut == Len(u) > TextCap
  <1>1. t \in Seq(Nat) /\ w.next \in Nat /\ c \in Nat /\ f.gap \in BOOLEAN /\ w.lossy \in BOOLEAN
    BY DEF Observed, ChunkFrame
  <1>2. /\ n \in Nat /\ u \in Seq(Nat) /\ u # <<>> /\ Len(u) = n + 1 /\ DOMAIN t = 1..n
        /\ \A i \in 1..n : u[i] = t[i] /\ t[i] \in Nat
        /\ u[n + 1] = c
    <2> HIDE DEF c, t
    <2>1. n \in Nat /\ DOMAIN t = 1..n
      BY <1>1, LenProperties
    <2>2. \A i \in 1..n : t[i] \in Nat
      BY <1>1, ElementOfSeq
    <2>3. /\ u \in Seq(Nat) /\ u # <<>> /\ Len(u) = n + 1
          /\ \A i \in 1..Len(t) : u[i] = t[i]
          /\ u[Len(t) + 1] = c
      <3>1. t \in Seq(Nat) /\ c \in Nat
        BY <1>1
      <3> HIDE DEF u, n
      <3>2. Append(t, c) \in Seq(Nat) /\ Append(t, c) # <<>>
        BY <3>1, AppendProperties
      <3>3. Len(Append(t, c)) = Len(t) + 1
        BY <3>1, AppendProperties
      <3>4. (\A i \in 1..Len(t) : Append(t, c)[i] = t[i]) /\ Append(t, c)[Len(t) + 1] = c
        BY <3>1, AppendProperties
      <3> QED
        BY <3>2, <3>3, <3>4 DEF u, n
    <2> QED
      BY <2>1, <2>2, <2>3
  <1>3. \A i \in 1..n : u[i] < c
    BY <1>1, <1>2
  <1>4. \A i \in 1..(n + 1) : u[i] < c + 1 /\ u[i] \in Nat
    <2>1. \A i \in 1..(n + 1) : i \in 1..n \/ i = n + 1
      BY <1>2
    <2> QED
      BY <1>1, <1>2, <1>3, <2>1
  <1>5. \A i, k \in 1..(n + 1) : i < k => u[i] < u[k]
    <2>1. SUFFICES ASSUME NEW i \in 1..(n + 1), NEW k \in 1..(n + 1), i < k
                   PROVE  u[i] < u[k]
      OBVIOUS
    <2>2. i \in 1..n /\ (k \in 1..n \/ k = n + 1)
      BY <1>2, <2>1
    <2>3. CASE k \in 1..n
      BY <1>2, <2>1, <2>2, <2>3
    <2>4. CASE k = n + 1
      BY <1>2, <1>3, <2>2, <2>4
    <2> QED
      BY <2>2, <2>3, <2>4
  <1>6. /\ v.next = c + 1
        /\ v.text = IF cut THEN Tail(u) ELSE u
        /\ v.lossy = (w.lossy \/ f.gap \/ cut)
    BY DEF Output!Appended, Observed
  <1> HIDE DEF v
  <1>7. CASE cut
    <2>1. /\ v.text = Tail(u) /\ v.lossy /\ Len(Tail(u)) = n
          /\ \A i \in 1..n : Tail(u)[i] = u[i + 1]
      <3> HIDE DEF u, n
      <3>1. Len(Tail(u)) = Len(u) - 1 /\ \A i \in 1..Len(Tail(u)) : Tail(u)[i] = u[i + 1]
        BY <1>2, HeadTailProperties
      <3>2. Len(Tail(u)) = n
        BY <1>2, <3>1
      <3> QED
        BY <1>6, <1>7, <3>1, <3>2
    <2>2. \A i \in 1..n : i + 1 \in 1..(n + 1)
      BY <1>2
    <2>3. \A i \in 1..n : Tail(u)[i] < c + 1
      BY <1>4, <2>1, <2>2
    <2>4. \A i, k \in 1..n : i < k => Tail(u)[i] < Tail(u)[k]
      <3>1. SUFFICES ASSUME NEW i \in 1..n, NEW k \in 1..n, i < k
                     PROVE  Tail(u)[i] < Tail(u)[k]
        OBVIOUS
      <3>2. i + 1 < k + 1
        BY <3>1
      <3>3. u[i + 1] < u[k + 1]
        BY <1>5, <2>2, <3>2
      <3> QED
        BY <2>1, <3>3
    <2> HIDE DEF u, c, cut
    <2> QED
      BY <1>6, <2>1, <2>3, <2>4 DEF v
  <1>8. CASE ~cut
    <2>1. v.text = u
      BY <1>6, <1>8
    <2>2. ASSUME ~v.lossy
          PROVE  u = [i \in 1..(c + 1) |-> i - 1]
      <3>1. ~w.lossy /\ ~f.gap
        BY <1>6, <2>2
      <3>2. c = w.next /\ t = [i \in 1..c |-> i - 1]
        BY <3>1
      <3>3. n = c
        BY <1>1, <1>2, <3>2
      <3>4. \A i \in 1..(n + 1) : u[i] = i - 1
        <4>1. \A i \in 1..(n + 1) : i \in 1..n \/ i = n + 1
          BY <1>2
        <4>2. \A i \in 1..n : u[i] = i - 1
          BY <1>2, <3>2, <3>3
        <4>3. u[n + 1] = (n + 1) - 1
          BY <1>2, <3>3
        <4> QED
          BY <4>1, <4>2, <4>3
      <3>5. DOMAIN u = 1..(n + 1) /\ u \in [1..(n + 1) -> Nat]
        BY <1>2, LenProperties
      <3>6. u = [i \in 1..(n + 1) |-> i - 1]
        <4> HIDE DEF u, n
        <4> QED
          BY <3>4, <3>5
      <3> QED
        BY <3>3, <3>6
    <2> HIDE DEF u, c, cut
    <2> QED
      BY <1>2, <1>4, <1>5, <1>6, <2>1, <2>2 DEF v
  <1> HIDE DEF v
  <1> QED
    BY <1>7, <1>8 DEF v

(* Every step leaves a text that is whole, or is marked and in order.       *)
LEMMA TextHolds ==
  ASSUME Output!JobAssumption, JobTypeOK, FramesFollow, TextIsExact, [Output!Next]_(Output!vars)
  PROVE  TextIsExact'
  <1>1. ASSUME watched'.text = <<>>, watched'.next = 0
        PROVE  TextIsExact'
    BY <1>1, EmptyExact DEF TextIsExact
  <1>2. ASSUME watched'.text = watched.text, watched'.next = watched.next,
               watched'.lossy = watched.lossy
        PROVE  TextIsExact'
    BY <1>2 DEF TextIsExact
  <1>3. CASE Output!SwitchSession \/ Output!StopFollowing
    BY <1>1, <1>3 DEF Output!SwitchSession, Output!StopFollowing, Output!Unwatched
  <1>4. ASSUME NEW j \in Jobs, Output!FollowJob(j)
        PROVE  TextIsExact'
    BY <1>1, <1>4, WatchTyped DEF Output!FollowJob
  <1>5. CASE Output!StreamBreaks
    <2>1. watched \in Observed /\ watched' = [watched EXCEPT !.state = "reconnecting"]
      BY <1>5 DEF Output!StreamBreaks, JobTypeOK
    <2>2. watched'.text = watched.text /\ watched'.next = watched.next
          /\ watched'.lossy = watched.lossy
      BY <2>1 DEF Observed
    <2> QED
      BY <1>2, <2>2
  <1>6. CASE Output!JobFollow
    BY <1>2, <1>6, AnswerTyped
  <1>7. ASSUME NEW j \in Jobs, Output!JobWrites(j) \/ Output!JobEnds(j)
        PROVE  TextIsExact'
    BY <1>2, <1>7, HostFrames
  <1>8. CASE Output!PumpOpens \/ Output!RosterFrame \/ Output!RosterEnds \/ UNCHANGED Output!vars
    BY <1>2, <1>8 DEF Output!PumpOpens, Output!RosterFrame, Output!RosterEnds, Output!vars
  <1>9. CASE Output!OutputFrame
    <2> DEFINE f == output[1]
    <2>1. /\ output \in Seq(OutputFrames) /\ output # <<>> /\ f \in OutputFrames
             /\ watched \in Observed
          /\ watched.job \in Jobs
      BY <1>9, FrameTaken
    <2>2. Fits(watched.next, output, 1, written[watched.job], done[watched.job])
      <3>1. 1 \in 1..Len(output)
        BY <2>1, EmptySeq, LenProperties
      <3> QED
        BY <2>1, <3>1 DEF FramesFollow, FramesFit
    <2>3. CASE f.type = "opened" /\ watched' = Output!Opened(watched, f)
      <3>1. watched'.text = watched.text /\ watched'.next = f.from
            /\ watched'.lossy = (watched.lossy \/ f.from > watched.next)
        BY <2>1, <2>3 DEF Output!Opened, Observed
      <3>2. watched.next <= f.from /\ f.from \in Nat /\ watched.next \in Nat
        <4>1. f.from \in Nat
          BY <2>1, <2>3, OutputFrameFields
        <4>2. watched.next \in Nat
          BY <2>1 DEF Observed
        <4>3. watched.next <= f.from
          BY <2>2, <2>3 DEF Fits
        <4> QED
          BY <4>1, <4>2, <4>3
      <3>3. ~watched'.lossy => ~watched.lossy /\ watched'.next = watched.next
        <4>1. f.from > watched.next \/ f.from = watched.next
          BY <3>2
        <4> QED
          BY <3>1, <4>1, Zenon
      <3>4. \A i \in 1..Len(watched.text) : watched.text[i] < watched'.next
        <4>1. \A i \in 1..Len(watched.text) : watched.text[i] \in Nat
          BY <2>1, ElementOfSeq DEF Observed
        <4> QED
          BY <3>1, <3>2, <4>1 DEF TextIsExact
      <3> QED
        BY <3>1, <3>3, <3>4 DEF TextIsExact
    <2>4. CASE f.type = "output" /\ watched' = Output!Appended(watched, f)
      <3>1. f \in ChunkFrame
        BY <2>1, <2>4, OutputFrameFields
      <3>2. watched.next <= f.chunk /\ (~f.gap => f.chunk = watched.next)
        <4>1. Expected(watched.next, output, 1) = watched.next
          BY DEF Expected
        <4> QED
          BY <2>2, <2>4, <4>1 DEF Fits
      <3> HIDE DEF f
      <3> QED
        BY <2>1, <2>4, <3>1, <3>2, AppendedExact DEF TextIsExact
    <2>5. CASE \/ f.type = "finished" /\ watched' = [watched EXCEPT !.state = "finished"]
               \/ f.type = "error" /\ watched' = [watched EXCEPT !.state = "error"]
      <3>1. watched'.text = watched.text /\ watched'.next = watched.next
            /\ watched'.lossy = watched.lossy
        BY <2>1, <2>5 DEF Observed
      <3> QED
        BY <1>2, <3>1
    <2> QED
      BY <1>9, <2>3, <2>4, <2>5, FrameTaken
  <1> QED
    BY <1>3, <1>4, <1>5, <1>6, <1>7, <1>8, <1>9 DEF Output!Next

-----------------------------------------------------------------------------
(* The invariant.                                                           *)

(* At first nothing is watched, kept or under way.                          *)
LEMMA JobInit ==
  ASSUME Output!JobAssumption
  PROVE  Output!Init => JobInv
  <1> SUFFICES ASSUME Output!Init
               PROVE  JobInv
    OBVIOUS
  <1>1. <<>> \in Seq(SUBSET Jobs) /\ <<>> \in Seq(OutputFrames) /\ Len(<<>>) = 0
    BY EmptySeq
  <1>2. JobTypeOK
    BY <1>1, WatchTyped DEF Output!Init, JobTypeOK
  <1>3. watched.state = Output!None /\ watched.next = 0 /\ watched.text = <<>>
        /\ watched.job = Output!None
        /\ output = <<>>
    BY DEF Output!Init, Output!Unwatched
  <1>4. FramesFollow
    <2>1. Output!None \notin Observing /\ Output!None # "finished" /\ Output!None # "streaming"
      BY DEF Output!None, Observing
    <2>2. \A j \in Jobs : written[j] = 0 /\ base[j] = 0
      BY DEF Output!Init
    <2> QED
      BY <1>3, <2>1, <2>2 DEF FramesFollow
  <1>5. TextIsExact
    BY <1>3, EmptyExact DEF TextIsExact
  <1>6. RosterOfSession /\ Output!JobsOfSession
    BY <1>1, <1>3 DEF Output!Init, RosterOfSession, Output!JobsOfSession
  <1> QED
    BY <1>2, <1>4, <1>5, <1>6 DEF JobInv

(* The four parts support each other: the text needs frames that fit, the   *)
(* frames need the types.                                                   *)
LEMMA JobInductive ==
  ASSUME Output!JobAssumption
  PROVE  JobInv /\ [Output!Next]_(Output!vars) => JobInv'
  BY JobTypesHold, FramesHold, TextHolds, RosterHolds DEF JobInv

(* The invariant is stronger than the two properties.                       *)
LEMMA JobInvImplies == JobInv => Output!OutputIsExact /\ Output!JobsOfSession
  <1> SUFFICES ASSUME JobInv
               PROVE  Output!OutputIsExact /\ Output!JobsOfSession
    OBVIOUS
  <1>1. watched.text \in Seq(Nat)
    BY DEF JobInv, JobTypeOK, Observed
  <1>2. DOMAIN watched.text = 1..Len(watched.text)
    BY <1>1, LenProperties
  <1> QED
    BY <1>2 DEF JobInv, TextIsExact, FramesFollow, Output!OutputIsExact

-----------------------------------------------------------------------------
(* The streamed attempt.  What the client will be once it took the frames   *)
(* under way is said by the views the host had when it sent them: every     *)
(* frame leads from one to the next, the client fits the first and the host *)
(* has the last.                                                            *)

Attempt == [id : Nat, after : Nat, turn : Nat, chunks : Seq(Nat)]
Event == [type : {"message", "attempt", "end"}, turn : Nat]
Outcome == {"none", "committed", "logged"}
Frame ==
  [type : {"snapshot"}, log : Seq(Event), revision : Nat, attempt : Attempt]
  \cup [type : {"event"}, event : Event]
  \cup [type : {"start"}, revision : Nat, id : Nat, after : Nat, turn : Nat]
  \cup [type : {"chunk"}, revision : Nat, id : Nat, index : Nat]
  \cup [type : {"done"}, revision : Nat, id : Nat, index : Nat, abandoned : BOOLEAN]

StreamTypeOK ==
  /\ revision \in Nat /\ attempt \in Attempt /\ entries \in Seq(Event)
  /\ link \in {"down", "up"} /\ streamWire \in Seq(Frame)
  /\ streamLog \in Seq(Event)

(* What the host is at when it sends a frame.                               *)
View == [clock : Nat, writing : Attempt, ended : Outcome, started : Nat, turn : Nat, size : Nat]
Host == [clock |-> clock, writing |-> writing, ended |-> ended, started |-> started,
         turn |-> turn, size |-> Len(streamLog)]

(* The attempt under way is the last one that began, in the turn.           *)
Possible(v) ==
  /\ v \in View
  /\ v.writing # Stream!NoAttempt =>
       /\ v.clock > 0 /\ v.started > 0 /\ v.ended \in {"none", "logged"}
       /\ v.writing.id = v.started /\ v.writing.turn = v.turn /\ v.writing.after <= v.size
  /\ v.ended = "logged" => v.writing # Stream!NoAttempt

(* The log settles the attempt under way just when its message is in it.    *)
LogOfAttempt ==
  /\ \A i \in 1..Len(streamLog) : streamLog[i].type = "end" => streamLog[i].turn < turn
  /\ writing # Stream!NoAttempt /\ ended = "none" => Len(streamLog) = writing.after
  /\ ended = "logged" =>
       /\ Len(streamLog) = writing.after + 1
       /\ streamLog[Len(streamLog)].type \in {"message", "attempt"}
          /\ streamLog[Len(streamLog)].turn = writing.turn

-----------------------------------------------------------------------------
(* A client with this revision, attempt and number of entries has all that  *)
(* was sent up to view v.                                                   *)
Has(rev, att, size, v) ==
  /\ size = v.size
  /\ rev = v.clock \/ v.clock = 0
  /\ v.writing # Stream!NoAttempt /\ v.ended = "none" => att = v.writing
  /\ v.ended = "logged" \/ (v.writing = Stream!NoAttempt /\ v.ended = "none")
     => att = Stream!NoAttempt
  /\ v.ended = "committed" =>
       att = Stream!NoAttempt \/ (att.id = v.started /\ att.turn = v.turn /\ att.after <= v.size)

(* What the host sends at view v, and what it is at then.                   *)
SameTurn(v, w) == w.turn = v.turn /\ w.size = v.size

SentStart(v, f, w) ==
  /\ v.writing = Stream!NoAttempt /\ v.ended = "none"
  /\ f = [type |-> "start", revision |-> v.clock + 1, id |-> v.started + 1, after |-> v.size,
          turn |-> v.turn]
  /\ w.clock = v.clock + 1 /\ w.started = v.started + 1 /\ SameTurn(v, w) /\ w.ended = v.ended
  /\ w.writing = [id |-> v.started + 1, after |-> v.size, turn |-> v.turn, chunks |-> <<>>]

SentChunk(v, f, w) ==
  /\ v.writing # Stream!NoAttempt
  /\ f = [type |-> "chunk", revision |-> v.clock + 1, id |-> v.writing.id,
          index |-> Len(v.writing.chunks)]
  /\ w.clock = v.clock + 1 /\ w.started = v.started /\ SameTurn(v, w) /\ w.ended = v.ended
  /\ w.writing = [v.writing EXCEPT !.chunks = Append(@, Len(@) + 1)]

SentDone(v, f, w) ==
  /\ v.writing # Stream!NoAttempt
  /\ f \in [type : {"done"}, revision : {v.clock + 1}, id : {v.writing.id},
            index : {Len(v.writing.chunks)}, abandoned : BOOLEAN]
  /\ w.clock = v.clock + 1 /\ w.started = v.started /\ SameTurn(v, w)
     /\ w.writing = Stream!NoAttempt
  /\ w.ended \in {"none", "committed"}
  /\ w.ended = "none" => f.abandoned \/ v.ended = "logged"
  /\ f.abandoned => w.ended = "none"

SentEvent(v, f, w) ==
  /\ w.clock = v.clock /\ w.started = v.started /\ w.writing = v.writing /\ w.size = v.size + 1
  /\ \E e \in Event :
       /\ f = [type |-> "event", event |-> e]
       /\ \/ /\ v.ended = "committed" /\ e.type = "message" /\ e.turn = v.turn
             /\ w.ended = "none" /\ w.turn = v.turn
          \/ /\ v.writing # Stream!NoAttempt /\ v.ended = "none" /\ e.type # "end"
             /\ e.turn = v.turn
             /\ w.ended = "logged" /\ w.turn = v.turn
          \/ /\ v.writing = Stream!NoAttempt /\ v.ended = "none"
             /\ w.ended = "none" /\ w.turn = v.turn + 1

SentSnapshot(f, w) ==
  /\ f.type = "snapshot"
  /\ Has(f.revision, Stream!Settled(DOMAIN f.log, f.log, f.attempt), Len(f.log), w)

(* Meanwhile the agent may have left.                                       *)
Since(u, w) ==
  w = u \/ (u.writing = Stream!NoAttempt /\ u.ended = "none" /\ w = [u EXCEPT !.clock = 0])

Leads(v, f, w) ==
  \/ SentSnapshot(f, w)
  \/ \E u \in View :
       /\ SentStart(v, f, u) \/ SentChunk(v, f, u) \/ SentDone(v, f, u) \/ SentEvent(v, f, u)
       /\ Since(u, w)

Explains(H) ==
  /\ Len(H) = Len(streamWire) + 1 /\ H[Len(streamWire) + 1] = Host
  /\ \A i \in 1..(Len(streamWire) + 1) : Possible(H[i])
  /\ \A i \in 1..Len(streamWire) : Leads(H[i], streamWire[i], H[i + 1])
  /\ streamWire = <<>> \/ streamWire[1].type # "snapshot"
     => Has(revision, attempt, Len(entries), H[1])

FramesExplained == \E H \in Seq(View) : Explains(H)

StreamInv ==
  /\ StreamTypeOK /\ Possible(Host) /\ LogOfAttempt
  /\ link = "up" => FramesExplained
  /\ link = "down" => streamWire = <<>>

-----------------------------------------------------------------------------
(* The client.                                                              *)

(* The attempt that is none.                                                *)
LEMMA NoAttemptTyped ==
  /\ Stream!NoAttempt \in Attempt
  /\ Stream!NoAttempt.id = 0 /\ Stream!NoAttempt.chunks = <<>>
  BY EmptySeq DEF Stream!NoAttempt, Attempt

(* A client that has what an agent sent has it after the agent left.        *)
LEMMA HasSince ==
  ASSUME NEW r, NEW a, NEW n, NEW u \in View, NEW w, Since(u, w), Has(r, a, n, u)
  PROVE  Has(r, a, n, w)
  <1>1. CASE w = u
    BY <1>1
  <1>2. CASE u.writing = Stream!NoAttempt /\ u.ended = "none" /\ w = [u EXCEPT !.clock = 0]
    <2>1. w.clock = 0 /\ w.writing = u.writing /\ w.ended = u.ended /\ w.size = u.size
          /\ w.started = u.started /\ w.turn = u.turn
      BY <1>2 DEF View
    <2> QED
      BY <1>2, <2>1 DEF Has
  <1> QED
    BY <1>1, <1>2 DEF Since

(* The next attempt: the clock goes on, or it is another agent's first.     *)
LEMMA TakesStart ==
  ASSUME NEW v \in View, NEW u, NEW f, SentStart(v, f, u),
         revision \in Nat, Has(revision, attempt, Len(entries), v), Stream!AcceptStart(f)
  PROVE  Stream!Took /\ Has(revision', attempt', Len(entries'), u)
  <1>1. /\ f.revision = v.clock + 1 /\ f.id = v.started + 1 /\ f.after = v.size
        /\ f.turn = v.turn /\ v.clock \in Nat /\ v.started \in Nat
    BY DEF SentStart, View
  <1>2. /\ u.clock = v.clock + 1 /\ u.size = v.size /\ u.ended = "none"
        /\ u.writing = [id |-> f.id, after |-> f.after, turn |-> f.turn, chunks |-> <<>>]
    BY <1>1 DEF SentStart, SameTurn
  <1>3. attempt = Stream!NoAttempt /\ attempt.id = 0 /\ f.id # 0
    BY <1>1, NoAttemptTyped DEF Has, SentStart
  <1>4. u.writing # Stream!NoAttempt
    <2>1. u.writing.id = f.id
      BY <1>2
    <2> QED
      BY <1>3, <2>1, NoAttemptTyped
  <1> DEFINE known == IF f.revision = 1 /\ f.id # attempt.id THEN 0 ELSE revision
  <1>5. known + 1 = f.revision /\ known \in Nat
    <2>1. CASE f.revision = 1
      BY <1>3, <2>1
    <2>2. CASE f.revision # 1
      BY <1>1, <2>2 DEF Has
    <2> QED
      BY <2>1, <2>2
  <1>6. /\ revision' = f.revision /\ Stream!Took
        /\ attempt' = [id |-> f.id, after |-> f.after, turn |-> f.turn, chunks |-> <<>>]
    <2>1. ~(f.revision <= known) /\ ~(f.revision > known + 1)
      BY <1>5
    <2> QED
      BY <2>1 DEF Stream!AcceptStart
  <1>7. entries' = entries
    BY <1>6 DEF Stream!Took
  <1>8. attempt' = u.writing /\ revision' = u.clock /\ Len(entries') = u.size
    BY <1>1, <1>2, <1>6, <1>7 DEF Has
  <1> QED
    BY <1>2, <1>4, <1>6, <1>8 DEF Has

(* A chunk of the attempt on screen is appended; one of an attempt whose    *)
(* message is there already does not fit.                                   *)
LEMMA TakesChunk ==
  ASSUME NEW v \in View, NEW u, NEW f, SentChunk(v, f, u), Possible(v),
         revision \in Nat, Has(revision, attempt, Len(entries), v), Stream!AcceptChunk(f)
  PROVE  \/ link' = "down" /\ streamWire' = <<>>
         \/ Stream!Took /\ Has(revision', attempt', Len(entries'), u)
  <1>1. /\ f.revision = v.clock + 1 /\ f.id = v.writing.id /\ f.index = Len(v.writing.chunks)
        /\ v.clock \in Nat /\ v.clock > 0 /\ v.ended \in {"none", "logged"}
        /\ v.writing \in Attempt /\ v.writing # Stream!NoAttempt
    BY DEF SentChunk, View, Possible
  <1>2. revision = v.clock
    BY <1>1 DEF Has
  <1>3. /\ ~(f.revision <= revision) /\ ~(f.revision > revision + 1)
        /\ f.revision = revision + 1
    BY <1>1, <1>2
  <1>4. \/ link' = "down" /\ streamWire' = <<>>
        \/ /\ attempt.id = f.id /\ revision' = f.revision /\ Stream!Took
           /\ attempt' = [attempt EXCEPT !.chunks = Append(@, f.index + 1)]
    BY <1>3 DEF Stream!AcceptChunk, Stream!Throw
  <1>5. /\ u.clock = f.revision /\ u.size = v.size /\ u.ended = v.ended
        /\ u.writing = [v.writing EXCEPT !.chunks = Append(@, f.index + 1)]
    BY <1>1 DEF SentChunk, SameTurn
  <1>6. v.writing.id # 0
    BY <1>1 DEF Possible, View
  <1>7. CASE v.ended = "none"
    <2>1. attempt = v.writing
      BY <1>1, <1>7 DEF Has
    <2>2. u.writing # Stream!NoAttempt
      <3>1. u.writing.id = v.writing.id
        BY <1>1, <1>5 DEF Attempt
      <3> QED
        BY <1>6, <3>1, NoAttemptTyped
    <2>3. ASSUME Stream!Took, revision' = f.revision,
                 attempt' = [attempt EXCEPT !.chunks = Append(@, f.index + 1)]
          PROVE  Has(revision', attempt', Len(entries'), u)
      <3>1. entries' = entries
        BY <2>3 DEF Stream!Took
      <3>2. attempt' = u.writing
        BY <1>5, <2>1, <2>3
      <3> QED
        BY <1>5, <1>7, <2>2, <2>3, <3>1, <3>2 DEF Has
    <2> QED
      BY <1>4, <2>3
  <1>8. CASE v.ended = "logged"
    <2>1. attempt = Stream!NoAttempt
      BY <1>8 DEF Has
    <2> QED
      BY <1>1, <1>4, <1>6, <2>1, NoAttemptTyped
  <1> QED
    BY <1>1, <1>7, <1>8

(* The end marker leaves a committed attempt that waits for its message,    *)
(* and nothing else.                                                        *)
LEMMA TakesDone ==
  ASSUME NEW v \in View, NEW u, NEW f, SentDone(v, f, u), Possible(v),
         revision \in Nat, Has(revision, attempt, Len(entries), v), Stream!AcceptEnd(f)
  PROVE  Stream!Took /\ Has(revision', attempt', Len(entries'), u)
  <1>1. /\ f.revision = v.clock + 1 /\ f.id = v.writing.id /\ f.index = Len(v.writing.chunks)
        /\ v.clock \in Nat /\ v.clock > 0 /\ v.ended \in {"none", "logged"}
        /\ v.writing # Stream!NoAttempt /\ f.abandoned \in BOOLEAN
    BY DEF SentDone, View, Possible
  <1>2. revision = v.clock
    BY <1>1 DEF Has
  <1>3. /\ ~(f.revision <= revision) /\ ~(f.revision > revision + 1)
        /\ f.revision = revision + 1
    BY <1>1, <1>2
  <1>4. attempt = Stream!NoAttempt \/ attempt = v.writing
    BY <1>1 DEF Has
  <1>5. attempt = Stream!NoAttempt \/ (attempt.id = f.id /\ Len(attempt.chunks) = f.index)
    BY <1>1, <1>4
  <1>6. /\ revision' = f.revision /\ Stream!Took
        /\ attempt' = IF f.abandoned THEN Stream!NoAttempt ELSE attempt
    BY <1>3, <1>5 DEF Stream!AcceptEnd
  <1>7. entries' = entries
    BY <1>6 DEF Stream!Took
  <1>8. /\ u.ended \in {"none", "committed"}
        /\ u.ended = "none" => f.abandoned \/ v.ended = "logged"
        /\ f.abandoned => u.ended = "none"
    BY DEF SentDone
  <1>9. /\ u.clock = f.revision /\ u.size = v.size /\ u.writing = Stream!NoAttempt
        /\ u.started = v.started /\ u.turn = v.turn
    BY <1>1 DEF SentDone, SameTurn
  <1>10. CASE u.ended = "none"
    <2>1. attempt' = Stream!NoAttempt
      <3>1. CASE f.abandoned
        BY <1>6, <3>1
      <3>2. CASE ~f.abandoned
        <4>1. attempt = Stream!NoAttempt
          BY <1>8, <1>10, <3>2 DEF Has
        <4> QED
          BY <1>6, <3>2, <4>1
      <3> QED
        BY <3>1, <3>2
    <2> QED
      BY <1>6, <1>7, <1>9, <1>10, <2>1 DEF Has
  <1>11. CASE u.ended = "committed"
    <2>1. attempt' = attempt
      BY <1>6, <1>8, <1>11
    <2>2. /\ v.writing.id = u.started /\ v.writing.turn = u.turn /\ v.writing.after <= u.size
      BY <1>1, <1>9 DEF Possible
    <2>3. \/ attempt' = Stream!NoAttempt
          \/ attempt'.id = u.started /\ attempt'.turn = u.turn /\ attempt'.after <= u.size
      BY <1>4, <2>1, <2>2
    <2> QED
      BY <1>6, <1>7, <1>9, <1>11, <2>3 DEF Has
  <1> QED
    BY <1>8, <1>10, <1>11

(* A durable event settles the attempt on screen just when it is its        *)
(* message: the attempt began before it, in the same turn.                  *)
LEMMA TakesEvent ==
  ASSUME NEW v \in View, NEW u, NEW f, SentEvent(v, f, u), Possible(v),
         entries \in Seq(Event), revision \in Nat, attempt \in Attempt,
         Has(revision, attempt, Len(entries), v), Stream!TakeEvent(f)
  PROVE  Has(revision', attempt', Len(entries'), u)
  <1>1. PICK e \in Event :
          /\ f = [type |-> "event", event |-> e]
          /\ \/ /\ v.ended = "committed" /\ e.type = "message" /\ e.turn = v.turn
                /\ u.ended = "none" /\ u.turn = v.turn
             \/ /\ v.writing # Stream!NoAttempt /\ v.ended = "none" /\ e.type # "end"
                /\ e.turn = v.turn
                /\ u.ended = "logged" /\ u.turn = v.turn
             \/ /\ v.writing = Stream!NoAttempt /\ v.ended = "none"
                /\ u.ended = "none" /\ u.turn = v.turn + 1
    BY DEF SentEvent
  <1>2. /\ entries' = Append(entries, e) /\ revision' = revision
        /\ attempt' = Stream!Settled({Len(entries')}, entries', attempt)
    BY <1>1 DEF Stream!TakeEvent
  <1>3. Len(entries') = v.size + 1 /\ entries'[v.size + 1] = e /\ v.size \in Nat
    <2>1. Len(entries) = v.size /\ v.size \in Nat
      BY DEF Has, View
    <2>2. Len(Append(entries, e)) = Len(entries) + 1 /\ Append(entries, e)[Len(entries) + 1] = e
      BY AppendProperties
    <2> QED
      BY <1>2, <2>1, <2>2
  <1>4. attempt' = IF Stream!Settles(v.size + 1, e, attempt) THEN Stream!NoAttempt ELSE attempt
    BY <1>2, <1>3 DEF Stream!Settled
  <1>5. attempt = Stream!NoAttempt => attempt' = Stream!NoAttempt
    BY <1>4
  <1>6. ASSUME e.type \in {"message", "attempt"}, e.turn = attempt.turn, attempt.after <= v.size
        PROVE  attempt' = Stream!NoAttempt
    <2>1. v.size + 1 > attempt.after
      BY <1>3, <1>6 DEF Attempt
    <2> QED
      BY <1>4, <1>6, <2>1 DEF Stream!Settles
  <1>7. u.size = v.size + 1 /\ u.clock = v.clock /\ u.writing = v.writing
    BY DEF SentEvent
  <1>8. revision' = u.clock \/ u.clock = 0
    BY <1>2, <1>7 DEF Has
  <1>9. CASE v.ended = "committed" /\ e.type = "message" /\ e.turn = v.turn
             /\ u.ended = "none" /\ u.turn = v.turn
    <2>1. attempt' = Stream!NoAttempt
      BY <1>5, <1>6, <1>9 DEF Has
    <2>2. u.ended = "none" /\ v.writing = Stream!NoAttempt
      BY <1>9 DEF Possible
    <2> QED
      BY <1>3, <1>7, <1>8, <2>1, <2>2 DEF Has
  <1>10. CASE v.writing # Stream!NoAttempt /\ v.ended = "none" /\ e.type # "end"
              /\ e.turn = v.turn
              /\ u.ended = "logged" /\ u.turn = v.turn
    <2>1. attempt = v.writing
      BY <1>10 DEF Has
    <2>2. attempt.turn = v.turn /\ attempt.after <= v.size
      BY <1>10, <2>1 DEF Possible
    <2>3. attempt' = Stream!NoAttempt
      BY <1>6, <1>10, <2>2 DEF Event
    <2> QED
      BY <1>3, <1>7, <1>8, <1>10, <2>3 DEF Has
  <1>11. CASE v.writing = Stream!NoAttempt /\ v.ended = "none"
              /\ u.ended = "none" /\ u.turn = v.turn + 1
    <2>1. attempt' = Stream!NoAttempt
      BY <1>5, <1>11 DEF Has
    <2> QED
      BY <1>3, <1>7, <1>8, <1>11, <2>1 DEF Has
  <1> QED
    BY <1>1, <1>9, <1>10, <1>11

(* What the types of frames carry.                                          *)
LEMMA FrameFields ==
  ASSUME NEW f \in Frame
  PROVE  /\ f.type \in {"snapshot", "event", "start", "chunk", "done"}
         /\ f.type = "snapshot" => f.log \in Seq(Event) /\ f.revision \in Nat
            /\ f.attempt \in Attempt
         /\ f.type = "event" => f.event \in Event
         /\ f.type = "start" => f.revision \in Nat /\ f.id \in Nat /\ f.after \in Nat
            /\ f.turn \in Nat
         /\ f.type = "chunk" => f.revision \in Nat /\ f.id \in Nat /\ f.index \in Nat
         /\ f.type = "done" => f.revision \in Nat /\ f.id \in Nat /\ f.index \in Nat
                               /\ f.abandoned \in BOOLEAN
  BY DEF Frame

(* Whatever frame is next: the stream is given up, or the client has what   *)
(* the host had sent with it.                                               *)
LEMMA ClientTakes ==
  ASSUME StreamTypeOK, streamWire # <<>>, Stream!Receive,
         NEW v \in View, Possible(v), NEW w, Leads(v, streamWire[1], w),
         streamWire[1].type # "snapshot" => Has(revision, attempt, Len(entries), v)
  PROVE  \/ link' = "down" /\ streamWire' = <<>>
         \/ link' = link /\ streamWire' = Tail(streamWire)
            /\ Has(revision', attempt', Len(entries'), w)
  <1> DEFINE f == streamWire[1]
  <1>1. Head(streamWire) = f /\ revision \in Nat /\ attempt \in Attempt /\ entries \in Seq(Event)
    BY HeadTailProperties DEF StreamTypeOK
  <1>2. Stream!TakeSnapshot(f) \/ Stream!TakeEvent(f) \/ Stream!AcceptStart(f)
        \/ Stream!AcceptChunk(f) \/ Stream!AcceptEnd(f)
    BY <1>1 DEF Stream!Receive
  <1>3. CASE f.type = "snapshot"
    <2>1. Stream!TakeSnapshot(f)
      BY <1>2, <1>3 DEF Stream!TakeEvent, Stream!AcceptStart, Stream!AcceptChunk, Stream!AcceptEnd
    <2>2. SentSnapshot(f, w)
      <3> HIDE DEF f
      <3>1. ASSUME NEW u, SentStart(v, f, u) \/ SentChunk(v, f, u)
            PROVE  FALSE
        BY <1>3, <3>1 DEF SentStart, SentChunk
      <3>2. ASSUME NEW u, SentDone(v, f, u) \/ SentEvent(v, f, u)
            PROVE  FALSE
        BY <1>3, <3>2 DEF SentDone, SentEvent
      <3>3. Leads(v, f, w)
        BY DEF f
      <3> QED
        BY <3>1, <3>2, <3>3 DEF Leads
    <2> QED
      BY <2>1, <2>2 DEF Stream!TakeSnapshot, Stream!Reset, SentSnapshot
  <1>4. CASE f.type # "snapshot"
    <2>1. PICK u \in View :
            /\ SentStart(v, f, u) \/ SentChunk(v, f, u) \/ SentDone(v, f, u) \/ SentEvent(v, f, u)
            /\ Since(u, w)
      BY <1>4 DEF Leads, SentSnapshot
    <2>2. Has(revision, attempt, Len(entries), v)
      BY <1>4
    <2> HIDE DEF f
    <2>3. CASE SentStart(v, f, u)
      <3>1. Stream!AcceptStart(f)
        BY <1>2, <2>3 DEF SentStart, Stream!TakeSnapshot, Stream!TakeEvent, Stream!AcceptChunk,
               Stream!AcceptEnd
      <3>2. Stream!Took /\ Has(revision', attempt', Len(entries'), u)
        BY <1>1, <2>2, <2>3, <3>1, TakesStart
      <3> QED
        BY <2>1, <3>2, HasSince DEF Stream!Took
    <2>4. CASE SentChunk(v, f, u)
      <3>1. Stream!AcceptChunk(f)
        BY <1>2, <2>4 DEF SentChunk, Stream!TakeSnapshot, Stream!TakeEvent, Stream!AcceptStart,
               Stream!AcceptEnd
      <3>2. \/ link' = "down" /\ streamWire' = <<>>
            \/ Stream!Took /\ Has(revision', attempt', Len(entries'), u)
        BY <1>1, <2>2, <2>4, <3>1, TakesChunk
      <3> QED
        BY <2>1, <3>2, HasSince DEF Stream!Took
    <2>5. CASE SentDone(v, f, u)
      <3>1. Stream!AcceptEnd(f)
        BY <1>2, <2>5 DEF SentDone, Stream!TakeSnapshot, Stream!TakeEvent, Stream!AcceptStart,
               Stream!AcceptChunk
      <3>2. Stream!Took /\ Has(revision', attempt', Len(entries'), u)
        BY <1>1, <2>2, <2>5, <3>1, TakesDone
      <3> QED
        BY <2>1, <3>2, HasSince DEF Stream!Took
    <2>6. CASE SentEvent(v, f, u)
      <3>1. Stream!TakeEvent(f)
        BY <1>2, <2>6 DEF SentEvent, Stream!TakeSnapshot, Stream!AcceptStart, Stream!AcceptChunk,
               Stream!AcceptEnd
      <3>2. Has(revision', attempt', Len(entries'), u)
        BY <1>1, <2>2, <2>6, <3>1, TakesEvent
      <3> QED
        BY <2>1, <3>1, <3>2, HasSince DEF Stream!TakeEvent
    <2> QED
      BY <2>1, <2>3, <2>4, <2>5, <2>6
  <1> QED
    BY <1>3, <1>4

-----------------------------------------------------------------------------
(* The frames under way.                                                    *)

(* The stream is there or not; frames are under way in the first case only. *)
WireInv == (link = "up" => FramesExplained) /\ (link = "down" => streamWire = <<>>)

(* A step of the host that sends a frame adds the view it leads to.         *)
LEMMA HostSends ==
  ASSUME StreamTypeOK, WireInv, NEW f \in Frame, f.type # "snapshot", Stream!Sends(f),
         UNCHANGED <<Stream!clientVars, link>>, Leads(Host, f, Host'), Possible(Host')
  PROVE  WireInv'
  <1>1. CASE link = "down"
    BY <1>1 DEF WireInv, Stream!Sends
  <1>2. CASE link = "up"
    <2> DEFINE n == Len(streamWire)
    <2>1. streamWire' = Append(streamWire, f) /\ streamWire \in Seq(Frame) /\ n \in Nat
      BY <1>2, LenProperties DEF Stream!Sends, StreamTypeOK
    <2>2. /\ Len(streamWire') = n + 1 /\ streamWire'[n + 1] = f /\ streamWire' # <<>>
          /\ \A i \in 1..n : streamWire'[i] = streamWire[i]
      BY <2>1, AppendProperties
    <2>3. PICK H \in Seq(View) : Explains(H)
      BY <1>2 DEF WireInv, FramesExplained
    <2>4. Host' \in View
      BY DEF Possible
    <2>5. PICK G \in Seq(View) :
            /\ Len(G) = Len(H) + 1 /\ G[Len(H) + 1] = Host'
            /\ \A i \in 1..Len(H) : G[i] = H[i]
      <3>1. Append(H, Host') \in Seq(View) /\ Len(Append(H, Host')) = Len(H) + 1
        BY <2>3, <2>4, AppendProperties
      <3>2. /\ Append(H, Host')[Len(H) + 1] = Host'
            /\ \A i \in 1..Len(H) : Append(H, Host')[i] = H[i]
        BY <2>3, <2>4, AppendProperties
      <3> QED
        BY <3>1, <3>2
    <2>6. Len(H) = n + 1 /\ H[n + 1] = Host
      BY <2>3 DEF Explains
    <2> HIDE DEF n
    <2>7. G[n + 2] = Host' /\ Len(G) = n + 2 /\ \A i \in 1..(n + 1) : G[i] = H[i]
      BY <2>1, <2>5, <2>6
    <2>8. \A i \in 1..(n + 2) : Possible(G[i])
      <3>1. SUFFICES ASSUME NEW i \in 1..(n + 2)
                     PROVE  Possible(G[i])
        OBVIOUS
      <3>2. i \in 1..(n + 1) \/ i = n + 2
        BY <2>1
      <3>3. ASSUME i = n + 2
            PROVE  Possible(G[i])
        BY <2>7, <3>3 DEF Possible
      <3> QED
        BY <2>3, <2>7, <3>2, <3>3 DEF Explains, n
    <2>9. \A i \in 1..(n + 1) : Leads(G[i], streamWire'[i], G[i + 1])
      <3>1. SUFFICES ASSUME NEW i \in 1..(n + 1)
                     PROVE  Leads(G[i], streamWire'[i], G[i + 1])
        OBVIOUS
      <3>4. i \in 1..n \/ i = n + 1
        BY <2>1
      <3>2. CASE i \in 1..n
        <4>1. i + 1 \in 1..(n + 1)
          BY <2>1, <3>2
        <4>2. Leads(H[i], streamWire[i], H[i + 1])
          BY <2>3, <3>2 DEF Explains, n
        <4> QED
          BY <2>2, <2>7, <3>1, <3>2, <4>1, <4>2
      <3>3. CASE i = n + 1
        <4>1. G[i] = Host /\ G[i + 1] = Host' /\ streamWire'[i] = f
          BY <2>1, <2>2, <2>6, <2>7, <3>3
        <4> QED
          BY <4>1
      <3> QED
        BY <3>2, <3>3, <3>4
    <2>10. Has(revision', attempt', Len(entries'), G[1]) \/ streamWire'[1].type = "snapshot"
      <3>1. CASE streamWire = <<>>
        <4>1. Has(revision, attempt, Len(entries), H[1])
          BY <2>3, <3>1 DEF Explains
        <4>2. 1 \in 1..(n + 1)
          BY <2>1
        <4> QED
          BY <2>7, <4>1, <4>2 DEF Stream!clientVars
      <3>2. CASE streamWire # <<>>
        <4>1. 1 \in 1..n /\ 1 \in 1..(n + 1)
          BY <2>1, <3>2, EmptySeq, LenProperties DEF n
        <4>2. streamWire[1].type # "snapshot" => Has(revision, attempt, Len(entries), H[1])
          BY <2>3, <3>2 DEF Explains
        <4> QED
          BY <2>2, <2>7, <4>1, <4>2 DEF Stream!clientVars
      <3> QED
        BY <3>1, <3>2
    <2>11. Len(streamWire') + 1 = n + 2 /\ Len(streamWire') = n + 1
      BY <2>1, <2>2
    <2>12. Explains(G)'
      BY <2>2, <2>7, <2>8, <2>9, <2>10, <2>11 DEF Explains
    <2> QED
      BY <1>2, <2>12 DEF WireInv, FramesExplained
  <1> QED
    BY <1>1, <1>2 DEF StreamTypeOK

(* The client takes a frame: the other views are left, and it fits the one  *)
(* it was led to.                                                           *)
LEMMA ReceiveKeeps ==
  ASSUME StreamTypeOK, WireInv, Stream!Receive
  PROVE  WireInv'
  <1>1. streamWire # <<>> /\ streamWire \in Seq(Frame) /\ link = "up"
    BY DEF Stream!Receive, WireInv, StreamTypeOK
  <1>2. PICK H \in Seq(View) : Explains(H)
    BY <1>1 DEF WireInv, FramesExplained
  <1> DEFINE n == Len(streamWire)
  <1>3. n \in Nat /\ n > 0 /\ Len(H) = n + 1 /\ H # <<>>
    BY <1>1, <1>2, EmptySeq, LenProperties DEF Explains
  <1>4. /\ Len(Tail(streamWire)) = n - 1
           /\ \A i \in 1..(n - 1) : Tail(streamWire)[i] = streamWire[i + 1]
    <2>1. Len(Tail(streamWire)) = n - 1
      BY <1>1, HeadTailProperties
    <2>2. \A i \in 1..Len(Tail(streamWire)) : Tail(streamWire)[i] = streamWire[i + 1]
      BY <1>1, HeadTailProperties
    <2> QED
      BY <2>1, <2>2
  <1>5. PICK G \in Seq(View) : Len(G) = n /\ \A i \in 1..n : G[i] = H[i + 1]
    <2>1. Tail(H) \in Seq(View) /\ Len(Tail(H)) = Len(H) - 1
      BY <1>2, <1>3, HeadTailProperties
    <2>2. \A i \in 1..Len(Tail(H)) : Tail(H)[i] = H[i + 1]
      BY <1>2, <1>3, HeadTailProperties
    <2>3. Len(Tail(H)) = n
      BY <1>3, <2>1
    <2> QED
      BY <2>1, <2>2, <2>3
  <1> HIDE DEF n
  <1>6. 1 \in 1..n /\ n \in 1..n /\ 1 \in 1..(n + 1) /\ \A i \in 1..n : i + 1 \in 1..(n + 1)
    BY <1>3
  <1>7. /\ H[1] \in View /\ Possible(H[1]) /\ Leads(H[1], streamWire[1], H[2])
        /\ streamWire[1].type # "snapshot" => Has(revision, attempt, Len(entries), H[1])
    BY <1>1, <1>2, <1>6 DEF Explains, Possible, n
  <1>8. \/ link' = "down" /\ streamWire' = <<>>
        \/ link' = link /\ streamWire' = Tail(streamWire)
           /\ Has(revision', attempt', Len(entries'), H[2])
    BY <1>1, <1>7, ClientTakes
  <1>9. CASE link' = "down" /\ streamWire' = <<>>
    BY <1>9 DEF WireInv
  <1>10. CASE link' = link /\ streamWire' = Tail(streamWire)
              /\ Has(revision', attempt', Len(entries'), H[2])
    <2>1. Len(streamWire') = n - 1 /\ Len(streamWire') + 1 = n
      BY <1>3, <1>4, <1>10
    <2>2. Host' = Host
      BY DEF Stream!Receive, Host, Stream!agentVars
    <2>3. G[n] = Host'
      <3>1. G[n] = H[n + 1] /\ H[n + 1] = Host
        BY <1>2, <1>5, <1>6 DEF Explains, n
      <3> QED
        BY <2>2, <3>1
    <2>4. \A i \in 1..n : Possible(G[i])
      BY <1>2, <1>5, <1>6 DEF Explains, n
    <2>5. \A i \in 1..(n - 1) : Leads(G[i], streamWire'[i], G[i + 1])
      <3>1. SUFFICES ASSUME NEW i \in 1..(n - 1)
                     PROVE  Leads(G[i], streamWire'[i], G[i + 1])
        OBVIOUS
      <3>2. i \in 1..n /\ i + 1 \in 1..n
        BY <1>3
      <3>3. Leads(H[i + 1], streamWire[i + 1], H[(i + 1) + 1])
        BY <1>2, <3>2 DEF Explains, n
      <3>4. G[i] = H[i + 1] /\ G[i + 1] = H[(i + 1) + 1] /\ streamWire'[i] = streamWire[i + 1]
        BY <1>4, <1>5, <1>10, <3>2
      <3> QED
        BY <3>3, <3>4
    <2>6. G[1] = H[2]
      BY <1>5, <1>6
    <2>7. Explains(G)'
      BY <1>5, <1>10, <2>1, <2>3, <2>4, <2>5, <2>6 DEF Explains
    <2> QED
      BY <1>1, <1>10, <2>7 DEF WireInv, FramesExplained
  <1> QED
    BY <1>8, <1>9, <1>10

(* A new stream begins with what the host has: what its log settles is not  *)
(* on screen.                                                               *)
LEMMA SnapshotFits ==
  ASSUME StreamTypeOK, Possible(Host), LogOfAttempt
  PROVE  Has(clock, Stream!Settled(DOMAIN streamLog, streamLog, writing), Len(streamLog), Host)
  <1>1. /\ Host.size = Len(streamLog) /\ Host.clock = clock /\ Host.writing = writing
        /\ Host.ended = ended /\ Host.turn = turn /\ Host.started = started
    BY DEF Host
  <1>2. streamLog \in Seq(Event) /\ DOMAIN streamLog = 1..Len(streamLog)
        /\ Len(streamLog) \in Nat /\ writing \in Attempt
    BY <1>1, LenProperties DEF StreamTypeOK, Possible, View
  <1>3. CASE writing = Stream!NoAttempt
    <2>1. Stream!Settled(DOMAIN streamLog, streamLog, writing) = Stream!NoAttempt
      BY <1>3 DEF Stream!Settled
    <2> QED
      BY <1>1, <1>3, <2>1 DEF Has, Possible
  <1>4. CASE writing # Stream!NoAttempt /\ ended = "none"
    <2>1. writing.turn = turn /\ writing.after = Len(streamLog)
      BY <1>1, <1>4 DEF Possible, LogOfAttempt
    <2>2. ASSUME NEW i \in DOMAIN streamLog
          PROVE  ~Stream!Settles(i, streamLog[i], writing)
      <3>1. ~(i > writing.after)
        BY <1>2, <2>1, <2>2
      <3>2. streamLog[i].type = "end" => streamLog[i].turn # writing.turn
        <4>1. streamLog[i] \in Event /\ turn \in Nat
          BY <1>1, <1>2, <2>2, ElementOfSeq DEF Possible, View
        <4>2. streamLog[i].type = "end" => streamLog[i].turn < turn
          BY <1>2, <2>2 DEF LogOfAttempt
        <4> QED
          BY <2>1, <4>1, <4>2 DEF Event
      <3> QED
        BY <3>1, <3>2 DEF Stream!Settles
    <2>3. Stream!Settled(DOMAIN streamLog, streamLog, writing) = writing
      BY <2>2 DEF Stream!Settled
    <2> QED
      BY <1>1, <1>4, <2>3 DEF Has
  <1>5. CASE writing # Stream!NoAttempt /\ ended = "logged"
    <2>1. Stream!Settles(Len(streamLog), streamLog[Len(streamLog)], writing)
          /\ Len(streamLog) \in DOMAIN streamLog
      <3>1. Len(streamLog) = writing.after + 1 /\ writing.after \in Nat
        BY <1>2, <1>5 DEF LogOfAttempt, Attempt
      <3>2. streamLog[Len(streamLog)].type \in {"message", "attempt"}
            /\ streamLog[Len(streamLog)].turn = writing.turn
        BY <1>5 DEF LogOfAttempt
      <3>3. Len(streamLog) > writing.after /\ Len(streamLog) \in 1..Len(streamLog)
        BY <3>1
      <3> QED
        BY <1>2, <3>2, <3>3 DEF Stream!Settles
    <2>2. Stream!Settled(DOMAIN streamLog, streamLog, writing) = Stream!NoAttempt
      BY <2>1 DEF Stream!Settled
    <2> QED
      BY <1>1, <1>5, <2>2 DEF Has
  <1> QED
    BY <1>1, <1>3, <1>4, <1>5 DEF Possible

LEMMA OpenKeeps ==
  ASSUME StreamTypeOK, Possible(Host), LogOfAttempt, Stream!Open
  PROVE  WireInv'
  <1> DEFINE f == [type |-> "snapshot", log |-> streamLog, revision |-> clock,
        attempt |-> writing]
  <1>1. link' = "up" /\ streamWire' = <<f>> /\ Host' = Host
    BY DEF Stream!Open, Host, Stream!agentVars
  <1>2. Leads(Host, f, Host)
    BY SnapshotFits DEF Leads, SentSnapshot
  <1>3. Host \in View
    BY DEF Possible
  <1> HIDE DEF f
  <1>4. PICK G \in Seq(View) : Len(G) = 2 /\ G[1] = Host /\ G[2] = Host
    <2>1. <<Host, Host>> \in Seq(View) /\ Len(<<Host, Host>>) = 2
      BY <1>3
    <2> QED
      BY <2>1
  <1>5. Len(streamWire') = 1 /\ streamWire'[1] = f /\ streamWire' # <<>> /\ f.type = "snapshot"
    BY <1>1 DEF f
  <1>6. \A i \in 1..2 : Possible(G[i])
    <2>1. Possible(G[1]) /\ Possible(G[2])
      BY <1>4
    <2>2. \A i \in 1..2 : i = 1 \/ i = 2
      OBVIOUS
    <2> QED
      BY <2>1, <2>2
  <1>7. \A i \in 1..1 : Leads(G[i], streamWire'[i], G[i + 1])
    <2>1. Leads(G[1], streamWire'[1], G[2])
      BY <1>2, <1>4, <1>5
    <2>2. \A i \in 1..1 : i = 1 /\ i + 1 = 2
      OBVIOUS
    <2> QED
      BY <2>1, <2>2
  <1>8. Explains(G)'
    BY <1>1, <1>4, <1>5, <1>6, <1>7 DEF Explains
  <1> QED
    BY <1>1, <1>8 DEF WireInv, FramesExplained

(* The agent may leave after any frame that leaves nothing under way.       *)
LEMMA LeadsLater ==
  ASSUME NEW v, NEW f, NEW w \in View, Leads(v, f, w), NEW x, Since(w, x)
  PROVE  Leads(v, f, x)
  <1>1. CASE SentSnapshot(f, w)
    BY <1>1, HasSince DEF Leads, SentSnapshot
  <1>2. ASSUME NEW u \in View,
               SentStart(v, f, u) \/ SentChunk(v, f, u) \/ SentDone(v, f, u)
               \/ SentEvent(v, f, u),
               Since(u, w)
        PROVE  Leads(v, f, x)
    <2>1. Since(u, x)
      <3>1. CASE x = w
        BY <1>2, <3>1
      <3>2. CASE w = u
        BY <3>2
      <3>3. CASE w = [u EXCEPT !.clock = 0] /\ x = [w EXCEPT !.clock = 0]
        <4>1. x = [u EXCEPT !.clock = 0]
          BY <3>3 DEF View
        <4> QED
          BY <1>2, <3>3, <4>1 DEF Since
      <3> QED
        BY <1>2, <3>1, <3>2, <3>3 DEF Since
    <2> QED
      BY <1>2, <2>1 DEF Leads
  <1> QED
    BY <1>1, <1>2 DEF Leads

(* An agent that leaves sends nothing: the last view changes.               *)
LEMMA ReattachKeeps ==
  ASSUME StreamTypeOK, Possible(Host), WireInv, Stream!Reattach
  PROVE  WireInv' /\ Possible(Host')
  <1>1. /\ Host' = [Host EXCEPT !.clock = 0] /\ Host.writing = Stream!NoAttempt
           /\ Host.ended = "none"
        /\ Host \in View
    BY DEF Stream!Reattach, Host, Possible
  <1>2. Since(Host, Host') /\ Host' \in View
    BY <1>1 DEF Since, View
  <1>3. Possible(Host')
    BY <1>1, <1>2 DEF Possible, View
  <1>4. /\ streamWire' = streamWire /\ link' = link
        /\ revision' = revision /\ attempt' = attempt /\ entries' = entries
    BY DEF Stream!Reattach, Stream!clientVars
  <1>5. CASE link = "down"
    BY <1>3, <1>4, <1>5 DEF WireInv
  <1>6. CASE link = "up"
    <2>1. PICK H \in Seq(View) : Explains(H)
      BY <1>6 DEF WireInv, FramesExplained
    <2> DEFINE n == Len(streamWire)
    <2>2. n \in Nat /\ Len(H) = n + 1 /\ H[n + 1] = Host /\ n + 1 \in 1..(n + 1)
      BY <2>1, LenProperties DEF Explains, StreamTypeOK
    <2> HIDE DEF n
    <2>3. PICK G \in Seq(View) :
            Len(G) = n + 1 /\ G[n + 1] = Host' /\ \A i \in 1..n : G[i] = H[i]
      <3>1. H \in [1..(n + 1) -> View]
        <4>1. H \in [1..Len(H) -> View]
          BY <2>1, SeqDef
        <4> QED
          BY <2>2, <4>1
      <3>2. PICK g : g = [i \in 1..(n + 1) |-> IF i = n + 1 THEN Host' ELSE H[i]]
        OBVIOUS
      <3>3. g \in [1..(n + 1) -> View]
        BY <1>2, <3>1, <3>2
      <3>4. g \in Seq(View)
        BY <2>2, <3>3, SeqDef
      <3>5. Len(g) = n + 1
        BY <2>2, <3>3, <3>4, LenProperties
      <3>6. \A i \in 1..n : i \in 1..(n + 1) /\ i # n + 1
        BY <2>2
      <3> QED
        BY <2>2, <3>2, <3>4, <3>5, <3>6
    <2>4. \A i \in 1..(n + 1) : i \in 1..n \/ i = n + 1
      BY <2>2
    <2>5. \A i \in 1..(n + 1) : Possible(G[i])
      <3>1. \A i \in 1..n : i \in 1..(n + 1)
        BY <2>2
      <3>2. Possible(G[n + 1])
        BY <1>3, <2>3 DEF Possible
      <3> QED
        BY <2>1, <2>3, <2>4, <3>1, <3>2 DEF Explains, n
    <2>6. ASSUME NEW i \in 1..n
          PROVE  Leads(G[i], streamWire[i], G[i + 1])
      <3>1. Leads(H[i], streamWire[i], H[i + 1]) /\ G[i] = H[i]
        BY <2>1, <2>3, <2>6 DEF Explains, n
      <3>2. i + 1 \in 1..n \/ i + 1 = n + 1
        BY <2>2, <2>6
      <3>3. CASE i + 1 \in 1..n
        BY <2>3, <3>1, <3>3
      <3>4. CASE i + 1 = n + 1
        <4>1. Leads(H[i], streamWire[i], Host) /\ G[i + 1] = Host'
          BY <2>2, <2>3, <3>1, <3>4
        <4>2. Leads(H[i], streamWire[i], Host')
          BY <1>1, <1>2, <4>1, LeadsLater
        <4> QED
          BY <3>1, <4>1, <4>2
      <3> QED
        BY <3>2, <3>3, <3>4
    <2>7. ASSUME streamWire = <<>> \/ streamWire[1].type # "snapshot"
          PROVE  Has(revision, attempt, Len(entries), G[1])
      <3>1. Has(revision, attempt, Len(entries), H[1])
        BY <2>1, <2>7 DEF Explains
      <3>2. n = 0 \/ 1 \in 1..n
        BY <2>2
      <3>3. CASE n = 0
        BY <1>1, <1>2, <2>2, <2>3, <3>1, <3>3, HasSince
      <3>4. CASE 1 \in 1..n
        BY <2>3, <3>1, <3>4
      <3> QED
        BY <3>2, <3>3, <3>4
    <2>8. Explains(G)'
      <3>1. Len(streamWire') = n
        BY <1>4 DEF n
      <3>2. \A i \in 1..n : Leads(G[i], streamWire'[i], G[i + 1])
        BY <1>4, <2>6
      <3>3. streamWire' = <<>> \/ streamWire'[1].type # "snapshot"
              => Has(revision', attempt', Len(entries'), G[1])
        BY <1>4, <2>7
      <3> HIDE DEF n
      <3> QED
        BY <2>3, <2>5, <3>1, <3>2, <3>3 DEF Explains
    <2> QED
      BY <1>3, <1>4, <1>6, <2>8 DEF WireInv, FramesExplained
  <1> QED
    BY <1>3, <1>5, <1>6 DEF StreamTypeOK

-----------------------------------------------------------------------------
(* The steps of the host, view by view.                                     *)

(* What the host is at, field by field.                                     *)
HostFields ==
  /\ Host.clock = clock /\ Host.writing = writing /\ Host.ended = ended
  /\ Host.started = started /\ Host.turn = turn /\ Host.size = Len(streamLog)

(* Frames are frames.                                                       *)
LEMMA FramesTyped ==
  ASSUME NEW r \in Nat, NEW i \in Nat
  PROVE  /\ \A a, n \in Nat :
              [type |-> "start", revision |-> r, id |-> i, after |-> a, turn |-> n] \in Frame
         /\ \A k \in Nat : [type |-> "chunk", revision |-> r, id |-> i, index |-> k] \in Frame
         /\ \A k \in Nat : \A b \in BOOLEAN :
              [type |-> "done", revision |-> r, id |-> i, index |-> k, abandoned |-> b] \in Frame
         /\ \A e \in Event : [type |-> "event", event |-> e] \in Frame
  BY DEF Frame

(* The start of an attempt.                                                 *)
LEMMA StartSent ==
  ASSUME StreamTypeOK, Possible(Host), LogOfAttempt, WireInv, Stream!Start
  PROVE  WireInv' /\ Possible(Host') /\ LogOfAttempt'
  <1> DEFINE f == [type |-> "start", revision |-> clock + 1, id |-> started + 1,
                   after |-> Len(streamLog), turn |-> turn]
             w == [id |-> started + 1, after |-> Len(streamLog), turn |-> turn, chunks |-> <<>>]
  <1>1. /\ clock \in Nat /\ started \in Nat /\ turn \in Nat /\ Len(streamLog) \in Nat
        /\ writing = Stream!NoAttempt /\ ended = "none"
    BY DEF Stream!Start, Possible, Host, View
  <1>2. /\ clock' = clock + 1 /\ started' = started + 1 /\ writing' = w /\ ended' = ended
        /\ turn' = turn /\ streamLog' = streamLog /\ Stream!Sends(f)
           /\ UNCHANGED <<Stream!clientVars, link>>
    BY DEF Stream!Start
  <1>3. w \in Attempt /\ w.id = started + 1 /\ w.turn = turn /\ w.after = Len(streamLog)
    BY <1>1, EmptySeq DEF Attempt
  <1>4. f \in Frame /\ f.type # "snapshot"
    BY <1>1, FramesTyped
  <1>5. Host' = [clock |-> clock + 1, writing |-> w, ended |-> "none", started |-> started + 1,
                 turn |-> turn, size |-> Len(streamLog)]
    BY <1>1, <1>2 DEF Host
  <1> HIDE DEF w
  <1>6. Possible(Host')
    BY <1>1, <1>3, <1>5 DEF Possible, View, Outcome
  <1>7. Leads(Host, f, Host')
    <2>1. HostFields /\ HostFields'
      BY DEF Host, HostFields
    <2>3. SentStart(Host, f, Host')
      BY <1>1, <1>2, <2>1 DEF SentStart, SameTurn, HostFields, w
    <2>2. Since(Host', Host') /\ Host' \in View
      BY <1>6 DEF Since, Possible
    <2> QED
      BY <2>2, <2>3 DEF Leads
  <1>8. LogOfAttempt'
    BY <1>1, <1>2, <1>3 DEF LogOfAttempt
  <1> HIDE DEF f
  <1> QED
    BY <1>2, <1>4, <1>6, <1>7, <1>8, HostSends

(* A chunk.                                                                 *)
LEMMA ChunkSent ==
  ASSUME StreamTypeOK, Possible(Host), LogOfAttempt, WireInv, Stream!Write
  PROVE  WireInv' /\ Possible(Host') /\ LogOfAttempt'
  <1> DEFINE f == [type |-> "chunk", revision |-> clock + 1, id |-> writing.id,
                   index |-> Len(writing.chunks)]
             c == writing.chunks
             w == [writing EXCEPT !.chunks = Append(@, Len(@) + 1)]
  <1>1. /\ clock \in Nat /\ started \in Nat /\ turn \in Nat /\ Len(streamLog) \in Nat
        /\ writing \in Attempt /\ writing # Stream!NoAttempt /\ ended \in Outcome /\ started > 0
        /\ writing.id = started
    BY DEF Stream!Write, Possible, Host, View
  <1>2. /\ clock' = clock + 1 /\ started' = started /\ writing' = w /\ ended' = ended
        /\ turn' = turn /\ streamLog' = streamLog /\ Stream!Sends(f)
           /\ UNCHANGED <<Stream!clientVars, link>>
    BY DEF Stream!Write
  <1>3. c \in Seq(Nat) /\ Len(c) \in Nat /\ Append(c, Len(c) + 1) \in Seq(Nat)
    <2>1. c \in Seq(Nat)
      BY <1>1 DEF Attempt
    <2> HIDE DEF c
    <2>2. Len(c) \in Nat
      BY <2>1, LenProperties
    <2> QED
      BY <2>1, <2>2, AppendProperties
  <1>4. w \in Attempt /\ w.id = writing.id /\ w.turn = writing.turn /\ w.after = writing.after
    BY <1>1, <1>3 DEF Attempt
  <1>5. f \in Frame /\ f.type # "snapshot"
    <2>1. writing.id \in Nat /\ clock + 1 \in Nat
      BY <1>1
    <2> QED
      BY <1>3, <2>1, FramesTyped
  <1>6. Host' = [clock |-> clock + 1, writing |-> w, ended |-> ended, started |-> started,
                 turn |-> turn, size |-> Len(streamLog)]
    BY <1>1, <1>2 DEF Host
  <1>7. w # Stream!NoAttempt
    <2> HIDE DEF w
    <2> QED
      BY <1>1, <1>4, NoAttemptTyped
  <1> HIDE DEF w
  <1>8. Possible(Host')
    <2>1. ended \in {"none", "logged"} /\ writing.turn = turn /\ writing.after <= Len(streamLog)
      BY <1>1 DEF Possible, Host
    <2> QED
      BY <1>1, <1>4, <1>6, <1>7, <2>1 DEF Possible, View
  <1>9. Leads(Host, f, Host')
    <2>1. HostFields /\ HostFields'
      BY DEF Host, HostFields
    <2>3. SentChunk(Host, f, Host')
      BY <1>1, <1>2, <2>1 DEF SentChunk, SameTurn, HostFields, w
    <2>2. Since(Host', Host') /\ Host' \in View
      BY <1>8 DEF Since, Possible
    <2> QED
      BY <2>2, <2>3 DEF Leads
  <1>10. LogOfAttempt'
    BY <1>1, <1>2, <1>4 DEF LogOfAttempt
  <1> HIDE DEF f
  <1> QED
    BY <1>2, <1>5, <1>8, <1>9, <1>10, HostSends

(* The end marker, before or after the message.                             *)
LEMMA DoneSent ==
  ASSUME StreamTypeOK, Possible(Host), LogOfAttempt, WireInv, Stream!EndFirst \/ Stream!EndLater
  PROVE  WireInv' /\ Possible(Host') /\ LogOfAttempt'
  <1>1. /\ clock \in Nat /\ started \in Nat /\ turn \in Nat /\ Len(streamLog) \in Nat
        /\ writing \in Attempt /\ ended \in Outcome
    BY DEF Possible, Host, View
  <1>2. writing # Stream!NoAttempt
    BY DEF Stream!EndFirst, Stream!EndLater, Possible, Host
  <1>3. PICK b \in BOOLEAN :
          /\ Stream!Ended(b) /\ UNCHANGED <<Stream!clientVars, link, streamLog, turn, started>>
          /\ ended' \in {"none", "committed"}
          /\ ended' = "none" => b \/ ended = "logged"
          /\ b => ended' = "none"
    <2>1. CASE Stream!EndFirst
      BY <2>1 DEF Stream!EndFirst
    <2>2. CASE Stream!EndLater
      BY <2>2 DEF Stream!EndLater
    <2> QED
      BY <2>1, <2>2
  <1> DEFINE f == [type |-> "done", revision |-> clock + 1, id |-> writing.id,
                   index |-> Len(writing.chunks), abandoned |-> b]
  <1>4. /\ clock' = clock + 1 /\ writing' = Stream!NoAttempt /\ Stream!Sends(f)
        /\ started' = started /\ turn' = turn /\ streamLog' = streamLog
    BY <1>3 DEF Stream!Ended
  <1>5. writing.id \in Nat /\ Len(writing.chunks) \in Nat
    <2>1. writing.chunks \in Seq(Nat)
      BY <1>1 DEF Attempt
    <2> QED
      BY <1>1, <2>1, LenProperties DEF Attempt
  <1>6. f \in Frame /\ f.type # "snapshot"
    BY <1>1, <1>5, FramesTyped
  <1>7. HostFields /\ HostFields'
    BY DEF Host, HostFields
  <1>8. Possible(Host')
    <2>1. Host' = [clock |-> clock + 1, writing |-> Stream!NoAttempt, ended |-> ended',
                   started |-> started, turn |-> turn, size |-> Len(streamLog)]
      BY <1>4 DEF Host
    <2> HIDE DEF f
    <2> QED
      BY <1>1, <1>3, <2>1, NoAttemptTyped DEF Possible, View, Outcome
  <1>9. Leads(Host, f, Host')
    <2>1. SentDone(Host, f, Host')
      <3>1. f \in [type : {"done"}, revision : {clock + 1}, id : {writing.id},
                   index : {Len(writing.chunks)}, abandoned : BOOLEAN]
        BY <1>1, <1>5
      <3>2. f.abandoned = b
        OBVIOUS
      <3> HIDE DEF f
      <3> QED
        BY <1>2, <1>3, <1>4, <1>7, <3>1, <3>2 DEF SentDone, SameTurn, HostFields
    <2>2. Since(Host', Host') /\ Host' \in View
      BY <1>8 DEF Since, Possible
    <2> QED
      BY <2>1, <2>2 DEF Leads
  <1>10. LogOfAttempt'
    BY <1>3, <1>4 DEF LogOfAttempt
  <1> HIDE DEF f
  <1> QED
    BY <1>3, <1>4, <1>6, <1>8, <1>9, <1>10, HostSends

(* The log grows by one event.                                              *)
LEMMA LogGrows ==
  ASSUME StreamTypeOK, NEW e \in Event, Stream!Logs(e)
  PROVE  /\ streamLog' \in Seq(Event) /\ Len(streamLog') = Len(streamLog) + 1
            /\ streamLog'[Len(streamLog) + 1] = e
         /\ \A i \in 1..Len(streamLog) : streamLog'[i] = streamLog[i]
         /\ Len(streamLog) \in Nat
  <1>1. streamLog \in Seq(Event) /\ streamLog' = Append(streamLog, e) /\ Len(streamLog) \in Nat
    BY LenProperties DEF StreamTypeOK, Stream!Logs
  <1> QED
    BY <1>1, AppendProperties

(* A durable event: the message of the attempt that ended, that of the one  *)
(* under way, or the end of the turn.                                       *)
LEMMA EventSent ==
  ASSUME StreamTypeOK, Possible(Host), LogOfAttempt, WireInv,
         Stream!MessageLater \/ Stream!MessageFirst \/ Stream!TurnEnds
  PROVE  WireInv' /\ Possible(Host') /\ LogOfAttempt'
  <1>1. /\ clock \in Nat /\ started \in Nat /\ turn \in Nat /\ Len(streamLog) \in Nat
        /\ writing \in Attempt /\ ended \in Outcome
        /\ writing # Stream!NoAttempt =>
             /\ clock > 0 /\ started > 0 /\ ended \in {"none", "logged"}
             /\ writing.id = started /\ writing.turn = turn /\ writing.after <= Len(streamLog)
        /\ ended = "logged" => writing # Stream!NoAttempt
    BY DEF Possible, Host, View
  <1>2. PICK e \in Event :
          /\ Stream!Logs(e)
          /\ UNCHANGED <<Stream!clientVars, link, clock, writing, started>>
          /\ \/ /\ ended = "committed" /\ e.type = "message" /\ e.turn = turn
                /\ ended' = "none" /\ turn' = turn
             \/ /\ writing # Stream!NoAttempt /\ ended = "none" /\ e.type # "end" /\ e.turn = turn
                /\ ended' = "logged" /\ turn' = turn
             \/ /\ writing = Stream!NoAttempt /\ ended = "none" /\ e.turn = turn
                /\ ended' = "none" /\ turn' = turn + 1
    <2>1. CASE Stream!MessageLater
      <3>1. [type |-> "message", turn |-> turn] \in Event
        BY <1>1 DEF Event
      <3> QED
        BY <2>1, <3>1 DEF Stream!MessageLater
    <2>2. CASE Stream!MessageFirst
      <3>1. PICK type \in {"message", "attempt"} : Stream!Logs([type |-> type, turn |-> turn])
        BY <2>2 DEF Stream!MessageFirst
      <3>2. [type |-> type, turn |-> turn] \in Event
        BY <1>1 DEF Event
      <3> QED
        BY <2>2, <3>1, <3>2 DEF Stream!MessageFirst
    <2>3. CASE Stream!TurnEnds
      <3>1. [type |-> "end", turn |-> turn] \in Event
        BY <1>1 DEF Event
      <3> QED
        BY <2>3, <3>1 DEF Stream!TurnEnds
    <2> QED
      BY <2>1, <2>2, <2>3
  <1> DEFINE f == [type |-> "event", event |-> e]
  <1>3. Stream!Sends(f) /\ f \in Frame /\ f.type # "snapshot"
    BY <1>2, FramesTyped DEF Stream!Logs
  <1>4. /\ streamLog' \in Seq(Event) /\ Len(streamLog') = Len(streamLog) + 1
           /\ streamLog'[Len(streamLog) + 1] = e
        /\ \A i \in 1..Len(streamLog) : streamLog'[i] = streamLog[i]
    BY <1>2, LogGrows
  <1>5. HostFields /\ HostFields'
    BY DEF Host, HostFields
  <1>6. Possible(Host')
    <2>1. Host' = [clock |-> clock, writing |-> writing, ended |-> ended',
                   started |-> started, turn |-> turn', size |-> Len(streamLog) + 1]
      BY <1>2, <1>4 DEF Host
    <2> HIDE DEF f
    <2>2. ended' \in Outcome /\ turn' \in Nat /\ Len(streamLog) + 1 \in Nat
      BY <1>1, <1>2 DEF Outcome
    <2>3. Host' \in View
      BY <1>1, <2>1, <2>2 DEF View
    <2>4. writing # Stream!NoAttempt =>
            /\ ended' = "logged" /\ turn' = turn /\ writing.after <= Len(streamLog) + 1
      <3>1. writing.after \in Nat
        BY <1>1 DEF Attempt
      <3> QED
        BY <1>1, <1>2, <3>1
    <2>5. ended' = "logged" => writing # Stream!NoAttempt
      BY <1>2
    <2> QED
      BY <1>1, <2>1, <2>3, <2>4, <2>5 DEF Possible
  <1>7. Leads(Host, f, Host')
    <2>1. SentEvent(Host, f, Host')
      BY <1>2, <1>4, <1>5 DEF SentEvent, HostFields
    <2>2. Since(Host', Host') /\ Host' \in View
      BY <1>6 DEF Since, Possible
    <2> QED
      BY <2>1, <2>2 DEF Leads
  <1>8. LogOfAttempt'
    <2> HIDE DEF f
    <2>1. ASSUME NEW i \in 1..Len(streamLog'), streamLog'[i].type = "end"
          PROVE  streamLog'[i].turn < turn'
      <3>1. i \in 1..Len(streamLog) \/ i = Len(streamLog) + 1
        BY <1>1, <1>4, <2>1
      <3>2. CASE i \in 1..Len(streamLog)
        <4>1. streamLog[i].turn < turn /\ streamLog[i] \in Event
          BY <1>4, <2>1, <3>2, ElementOfSeq DEF LogOfAttempt, StreamTypeOK
        <4>2. turn <= turn' /\ turn' \in Nat
          BY <1>1, <1>2
        <4> QED
          BY <1>1, <1>4, <3>2, <4>1, <4>2 DEF Event
      <3>3. CASE i = Len(streamLog) + 1
        BY <1>1, <1>2, <1>4, <2>1, <3>3
      <3> QED
        BY <3>1, <3>2, <3>3
    <2>2. writing' # Stream!NoAttempt => ended' # "none"
      BY <1>1, <1>2
    <2>3. ended' = "logged" =>
            /\ Len(streamLog') = writing'.after + 1
            /\ streamLog'[Len(streamLog')].type \in {"message", "attempt"}
            /\ streamLog'[Len(streamLog')].turn = writing'.turn
      <3>1. SUFFICES ASSUME ended' = "logged"
                     PROVE  /\ Len(streamLog) = writing.after
                            /\ e.type \in {"message", "attempt"} /\ e.turn = writing.turn
        BY <1>2, <1>4
      <3>2. writing # Stream!NoAttempt /\ ended = "none" /\ e.type # "end" /\ e.turn = turn
        BY <1>2, <3>1
      <3> QED
        BY <1>1, <3>2 DEF LogOfAttempt, Event
    <2> QED
      BY <2>1, <2>2, <2>3 DEF LogOfAttempt
  <1> HIDE DEF f
  <1> QED
    BY <1>2, <1>3, <1>6, <1>7, <1>8, HostSends

-----------------------------------------------------------------------------
(* Types.                                                                   *)

(* What the client becomes when it takes the first frame.                   *)
LEMMA ReceiveTyped ==
  ASSUME StreamTypeOK, Stream!Receive
  PROVE  StreamTypeOK'
  <1> DEFINE f == Head(streamWire)
  <1>1. /\ streamWire \in Seq(Frame) /\ streamWire # <<>> /\ Tail(streamWire) \in Seq(Frame)
           /\ f \in Frame
        /\ revision \in Nat /\ attempt \in Attempt /\ entries \in Seq(Event)
           /\ streamLog' = streamLog
        /\ <<>> \in Seq(Frame)
    BY HeadTailProperties, EmptySeq DEF StreamTypeOK, Stream!Receive
  <1>2. Stream!TakeSnapshot(f) \/ Stream!TakeEvent(f) \/ Stream!AcceptStart(f)
        \/ Stream!AcceptChunk(f) \/ Stream!AcceptEnd(f)
    BY DEF Stream!Receive
  <1> HIDE DEF f
  <1>3. streamWire' \in {Tail(streamWire), <<>>} /\ link' \in {link, "down"}
    BY <1>2 DEF Stream!TakeSnapshot, Stream!TakeEvent, Stream!AcceptStart, Stream!AcceptChunk,
           Stream!AcceptEnd, Stream!Took, Stream!Throw
  <1>4. entries' \in Seq(Event)
    <2>1. CASE Stream!TakeSnapshot(f)
      BY <1>1, <2>1, FrameFields DEF Stream!TakeSnapshot
    <2>2. CASE Stream!TakeEvent(f)
      <3>1. f.event \in Event
        BY <1>1, <2>2, FrameFields DEF Stream!TakeEvent
      <3> QED
        BY <1>1, <2>2, <3>1, AppendProperties DEF Stream!TakeEvent
    <2>3. CASE Stream!AcceptStart(f) \/ Stream!AcceptChunk(f) \/ Stream!AcceptEnd(f)
      BY <1>1, <2>3 DEF Stream!AcceptStart, Stream!AcceptChunk, Stream!AcceptEnd, Stream!Took,
             Stream!Throw
    <2> QED
      BY <1>2, <2>1, <2>2, <2>3
  <1>5. revision' \in Nat
    <2>1. CASE Stream!TakeSnapshot(f)
      BY <1>1, <2>1, FrameFields DEF Stream!TakeSnapshot, Stream!Reset
    <2>2. CASE Stream!TakeEvent(f)
      BY <1>1, <2>2 DEF Stream!TakeEvent
    <2>3. CASE Stream!AcceptStart(f)
      <3>1. f.revision \in Nat /\ 0 \in Nat
        BY <1>1, <2>3, FrameFields DEF Stream!AcceptStart
      <3> QED
        BY <1>1, <2>3, <3>1 DEF Stream!AcceptStart, Stream!Throw
    <2>4. CASE Stream!AcceptChunk(f) \/ Stream!AcceptEnd(f)
      <3>1. f.revision \in Nat
        BY <1>1, <2>4, FrameFields DEF Stream!AcceptChunk, Stream!AcceptEnd
      <3> QED
        BY <1>1, <2>4, <3>1 DEF Stream!AcceptChunk, Stream!AcceptEnd, Stream!Throw
    <2> QED
      BY <1>2, <2>1, <2>2, <2>3, <2>4
  <1>6. attempt' \in Attempt
    <2>1. CASE Stream!TakeSnapshot(f)
      <3>1. f.attempt \in Attempt
        BY <1>1, <2>1, FrameFields DEF Stream!TakeSnapshot
      <3> QED
        BY <2>1, <3>1, NoAttemptTyped DEF Stream!TakeSnapshot, Stream!Reset, Stream!Settled
    <2>2. CASE Stream!TakeEvent(f)
      BY <1>1, <2>2, NoAttemptTyped DEF Stream!TakeEvent, Stream!Settled
    <2>3. CASE Stream!AcceptStart(f)
      <3>1. f.id \in Nat /\ f.after \in Nat /\ f.turn \in Nat /\ <<>> \in Seq(Nat)
        BY <1>1, <2>3, FrameFields, EmptySeq DEF Stream!AcceptStart
      <3>2. [id |-> f.id, after |-> f.after, turn |-> f.turn, chunks |-> <<>>] \in Attempt
        BY <3>1 DEF Attempt
      <3> QED
        BY <1>1, <2>3, <3>2, NoAttemptTyped DEF Stream!AcceptStart, Stream!Throw
    <2>4. CASE Stream!AcceptChunk(f)
      <3>1. f.index + 1 \in Nat /\ attempt.chunks \in Seq(Nat)
        BY <1>1, <2>4, FrameFields DEF Stream!AcceptChunk, Attempt
      <3>2. Append(attempt.chunks, f.index + 1) \in Seq(Nat)
        BY <3>1, AppendProperties
      <3>3. [attempt EXCEPT !.chunks = Append(@, f.index + 1)] \in Attempt
        BY <1>1, <3>2 DEF Attempt
      <3> QED
        BY <1>1, <2>4, <3>3 DEF Stream!AcceptChunk, Stream!Throw
    <2>5. CASE Stream!AcceptEnd(f)
      BY <1>1, <2>5, NoAttemptTyped DEF Stream!AcceptEnd, Stream!Throw
    <2> QED
      BY <1>2, <2>1, <2>2, <2>3, <2>4, <2>5
  <1> QED
    BY <1>1, <1>3, <1>4, <1>5, <1>6 DEF StreamTypeOK

(* A step of the host leaves the client alone and may send a frame.         *)
LEMMA HostTyped ==
  ASSUME StreamTypeOK, NEW f \in Frame, Stream!Sends(f), UNCHANGED <<Stream!clientVars, link>>,
         streamLog' \in Seq(Event)
  PROVE  StreamTypeOK'
  <1>1. streamWire' \in Seq(Frame)
    BY AppendProperties DEF Stream!Sends, StreamTypeOK
  <1> QED
    BY <1>1 DEF StreamTypeOK, Stream!clientVars

(* Every step keeps every piece of state in its type.                       *)
LEMMA TypesHold ==
  ASSUME StreamTypeOK, Possible(Host), [Stream!Next]_(Stream!vars)
  PROVE  StreamTypeOK'
  <1>1. /\ clock \in Nat /\ started \in Nat /\ turn \in Nat /\ Len(streamLog) \in Nat
        /\ writing \in Attempt /\ writing.id \in Nat /\ Len(writing.chunks) \in Nat
    <2>1. /\ clock \in Nat /\ started \in Nat /\ turn \in Nat /\ Len(streamLog) \in Nat
          /\ writing \in Attempt
      BY DEF Possible, Host, View
    <2>2. writing.chunks \in Seq(Nat) /\ writing.id \in Nat
      BY <2>1 DEF Attempt
    <2> QED
      BY <2>1, <2>2, LenProperties
  <1>2. CASE Stream!Receive
    BY <1>2, ReceiveTyped
  <1>3. CASE Stream!Open
    <2> DEFINE f == [type |-> "snapshot", log |-> streamLog, revision |-> clock,
          attempt |-> writing]
    <2>1. f \in Frame
      BY <1>1 DEF Frame, StreamTypeOK
    <2>2. streamWire' = <<f>> /\ link' = "up" /\ UNCHANGED <<Stream!clientVars, streamLog>>
      BY <1>3 DEF Stream!Open
    <2> HIDE DEF f
    <2>3. <<f>> \in Seq(Frame)
      BY <2>1
    <2> QED
      BY <2>2, <2>3 DEF StreamTypeOK, Stream!clientVars
  <1>4. CASE Stream!Lose
    BY <1>4, EmptySeq DEF Stream!Lose, StreamTypeOK, Stream!clientVars
  <1>5. CASE Stream!Start
    <2>1. clock + 1 \in Nat /\ started + 1 \in Nat
      BY <1>1
    <2>2. [type |-> "start", revision |-> clock + 1, id |-> started + 1, after |-> Len(streamLog),
           turn |-> turn] \in Frame
      BY <1>1, <2>1, FramesTyped, Zenon
    <2> QED
      BY <1>5, <2>2, HostTyped DEF Stream!Start, StreamTypeOK
  <1>6. CASE Stream!Write
    <2>1. [type |-> "chunk", revision |-> clock + 1, id |-> writing.id,
           index |-> Len(writing.chunks)] \in Frame
      BY <1>1, FramesTyped
    <2> QED
      BY <1>6, <2>1, HostTyped DEF Stream!Write, StreamTypeOK
  <1>7. CASE Stream!EndFirst \/ Stream!EndLater
    <2>1. PICK b \in BOOLEAN : Stream!Ended(b) /\ UNCHANGED <<Stream!clientVars, link, streamLog>>
      BY <1>7 DEF Stream!EndFirst, Stream!EndLater
    <2>2. [type |-> "done", revision |-> clock + 1, id |-> writing.id,
           index |-> Len(writing.chunks), abandoned |-> b] \in Frame
      BY <1>1, FramesTyped
    <2> QED
      BY <2>1, <2>2, HostTyped DEF Stream!Ended, StreamTypeOK
  <1>8. CASE Stream!MessageLater \/ Stream!MessageFirst \/ Stream!TurnEnds
    <2>1. PICK type \in {"message", "attempt", "end"} : Stream!Logs([type |-> type,
          turn |-> turn])
      BY <1>8 DEF Stream!MessageLater, Stream!MessageFirst, Stream!TurnEnds
    <2>2. [type |-> type, turn |-> turn] \in Event
      BY <1>1 DEF Event
    <2>3. streamLog' \in Seq(Event)
      BY <2>1, <2>2, LogGrows
    <2>4. UNCHANGED <<Stream!clientVars, link>>
      BY <1>8 DEF Stream!MessageLater, Stream!MessageFirst, Stream!TurnEnds
    <2> QED
      BY <1>1, <2>1, <2>2, <2>3, <2>4, HostTyped, FramesTyped DEF Stream!Logs
  <1>9. CASE Stream!Reattach \/ UNCHANGED Stream!vars
    BY <1>9 DEF Stream!Reattach, Stream!vars, StreamTypeOK, Stream!clientVars
  <1> QED
    BY <1>2, <1>3, <1>4, <1>5, <1>6, <1>7, <1>8, <1>9 DEF Stream!Next

-----------------------------------------------------------------------------
(* The invariant.                                                           *)

(* At first there is no stream.                                             *)
LEMMA StreamInit == Stream!Init => StreamInv
  <1> SUFFICES ASSUME Stream!Init
               PROVE  StreamInv
    OBVIOUS
  <1>1. <<>> \in Seq(Event) /\ <<>> \in Seq(Frame) /\ Len(<<>>) = 0
    BY EmptySeq
  <1>2. StreamTypeOK
    BY <1>1, NoAttemptTyped DEF Stream!Init, StreamTypeOK
  <1>3. Possible(Host)
    BY <1>1, NoAttemptTyped DEF Stream!Init, Possible, Host, View, Outcome
  <1>4. LogOfAttempt
    BY <1>1 DEF Stream!Init, LogOfAttempt
  <1> QED
    BY <1>2, <1>3, <1>4 DEF Stream!Init, StreamInv

(* Every step keeps what explains the frames under way.                     *)
LEMMA StreamInductive == StreamInv /\ [Stream!Next]_(Stream!vars) => StreamInv'
  <1> SUFFICES ASSUME StreamInv, [Stream!Next]_(Stream!vars)
               PROVE  StreamInv'
    OBVIOUS
  <1>1. StreamTypeOK /\ Possible(Host) /\ LogOfAttempt /\ WireInv
    BY DEF StreamInv, WireInv
  <1>2. StreamTypeOK'
    BY <1>1, TypesHold
  <1>3. WireInv' /\ Possible(Host') /\ LogOfAttempt' => StreamInv'
    BY <1>2 DEF StreamInv, WireInv
  <1>4. ASSUME UNCHANGED <<Stream!agentVars, streamLog>>
        PROVE  Possible(Host') /\ LogOfAttempt'
    <2>1. Host' = Host
      BY <1>4 DEF Host, Stream!agentVars
    <2>2. LogOfAttempt'
      BY <1>1, <1>4 DEF LogOfAttempt, Stream!agentVars
    <2> QED
      BY <1>1, <2>1, <2>2
  <1>5. CASE Stream!Receive
    <2>1. UNCHANGED <<Stream!agentVars, streamLog>>
      BY <1>5 DEF Stream!Receive
    <2> QED
      BY <1>1, <1>3, <1>4, <1>5, <2>1, ReceiveKeeps
  <1>6. CASE Stream!Open
    <2>1. UNCHANGED <<Stream!agentVars, streamLog>>
      BY <1>6 DEF Stream!Open
    <2> QED
      BY <1>1, <1>3, <1>4, <1>6, <2>1, OpenKeeps
  <1>7. CASE Stream!Lose
    <2>1. UNCHANGED <<Stream!agentVars, streamLog>> /\ WireInv'
      BY <1>7 DEF Stream!Lose, WireInv
    <2> QED
      BY <1>3, <1>4, <2>1
  <1>8. CASE Stream!Start
    BY <1>1, <1>3, <1>8, StartSent
  <1>9. CASE Stream!Write
    BY <1>1, <1>3, <1>9, ChunkSent
  <1>10. CASE Stream!EndFirst \/ Stream!EndLater
    BY <1>1, <1>3, <1>10, DoneSent
  <1>11. CASE Stream!MessageLater \/ Stream!MessageFirst \/ Stream!TurnEnds
    BY <1>1, <1>3, <1>11, EventSent
  <1>12. CASE Stream!Reattach
    <2>1. LogOfAttempt'
      BY <1>1, <1>12 DEF LogOfAttempt, Stream!Reattach
    <2> QED
      BY <1>1, <1>3, <1>12, <2>1, ReattachKeeps
  <1>13. CASE UNCHANGED Stream!vars
    <2>1. UNCHANGED <<Stream!agentVars, streamLog>>
      BY <1>13 DEF Stream!vars
    <2>2. WireInv'
      BY <1>1, <1>13 DEF WireInv, FramesExplained, Explains, Stream!vars, Stream!clientVars,
             Stream!agentVars, Host
    <2> QED
      BY <1>3, <1>4, <2>1, <2>2
  <1> QED
    BY <1>5, <1>6, <1>7, <1>8, <1>9, <1>10, <1>11, <1>12, <1>13 DEF Stream!Next

(* With nothing under way the client has what the host has.                 *)
LEMMA StreamInvImplies == StreamInv => Stream!LiveTextIsWriting
  <1> SUFFICES ASSUME StreamInv, Stream!CaughtUp
               PROVE  /\ writing # Stream!NoAttempt /\ ended = "none" => attempt = writing
                      /\ ended = "logged" => attempt = Stream!NoAttempt
                      /\ ended = "committed" => attempt.id \in {0, started}
                      /\ writing = Stream!NoAttempt /\ ended = "none"
                         => attempt = Stream!NoAttempt
                      /\ ended \in Outcome
    BY DEF Stream!LiveTextIsWriting, Outcome
  <1>1. PICK H \in Seq(View) : Explains(H)
    BY DEF StreamInv, FramesExplained, Stream!CaughtUp
  <1>2. streamWire = <<>> /\ Len(streamWire) = 0
    BY EmptySeq DEF Stream!CaughtUp
  <1>3. H[1] = Host /\ Has(revision, attempt, Len(entries), H[1])
    BY <1>1, <1>2 DEF Explains
  <1>4. HostFields
    BY DEF Host, HostFields
  <1>5. ended \in Outcome
    BY DEF StreamInv, Possible, Host, View
  <1> QED
    BY <1>3, <1>4, <1>5, NoAttemptTyped DEF Has, HostFields

(* Text leaves the screen with a snapshot, a new attempt, an event of the   *)
(* log, an end marker of an abandoned attempt, or the stream.               *)
LEMMA StepKeepsText ==
  ASSUME StreamTypeOK, [Stream!Next]_(Stream!vars)
  PROVE  [attempt # Stream!NoAttempt /\ attempt'.id # attempt.id /\ link' = "up"
         /\ streamWire # <<>>
       => Head(streamWire).type \in {"snapshot", "start"} \/ Len(entries') > Len(entries)
          \/ (Head(streamWire).type = "done" /\ Head(streamWire).abandoned)]_(Stream!vars)
  <1> DEFINE f == Head(streamWire)
  <1>1. SUFFICES ASSUME attempt'.id # attempt.id, link' = "up", streamWire # <<>>
                 PROVE  \/ f.type \in {"snapshot", "start"}
                        \/ Len(entries') > Len(entries)
                        \/ f.type = "done" /\ f.abandoned
    OBVIOUS
  <1>2. Stream!Receive
    BY <1>1 DEF Stream!Next, Stream!vars, Stream!clientVars, Stream!Open, Stream!Lose,
           Stream!Start, Stream!Write, Stream!EndFirst, Stream!MessageLater,
                Stream!MessageFirst, Stream!EndLater, Stream!TurnEnds, Stream!Reattach
  <1>3. /\ Stream!TakeSnapshot(f) \/ Stream!TakeEvent(f) \/ Stream!AcceptStart(f)
           \/ Stream!AcceptChunk(f) \/ Stream!AcceptEnd(f)
        /\ f \in Frame /\ attempt \in Attempt /\ entries \in Seq(Event)
    BY <1>1, <1>2, HeadTailProperties DEF Stream!Receive, StreamTypeOK
  <1> HIDE DEF f
  <1>4. CASE Stream!TakeSnapshot(f) \/ Stream!AcceptStart(f)
    BY <1>4 DEF Stream!TakeSnapshot, Stream!AcceptStart
  <1>5. CASE Stream!TakeEvent(f)
    <2>1. entries' = Append(entries, f.event) /\ f.event \in Event
      BY <1>3, <1>5, FrameFields DEF Stream!TakeEvent
    <2>2. Len(entries') = Len(entries) + 1 /\ Len(entries) \in Nat
      BY <1>3, <2>1, AppendProperties, LenProperties
    <2> QED
      BY <2>2
  <1>6. CASE Stream!AcceptChunk(f)
    <2>1. attempt' = attempt \/ attempt' = [attempt EXCEPT !.chunks = Append(@, f.index + 1)]
      BY <1>1, <1>6 DEF Stream!AcceptChunk, Stream!Throw
    <2>2. attempt'.id = attempt.id
      BY <1>3, <2>1 DEF Attempt
    <2> QED
      BY <1>1, <2>2
  <1>7. CASE Stream!AcceptEnd(f)
    <2>1. f.type = "done" /\ attempt' # attempt
      BY <1>1, <1>7 DEF Stream!AcceptEnd
    <2>2. ~f.abandoned => attempt' = attempt
      BY <1>7 DEF Stream!AcceptEnd, Stream!Throw
    <2> QED
      BY <2>1, <2>2
  <1> QED
    BY <1>3, <1>4, <1>5, <1>6, <1>7

-----------------------------------------------------------------------------
(* The notices of finished turns: the invariant follows each turn from its  *)
(* start to its notice, over the wire, in the tracker, and past a cancel()  *)
(* of it.                                                                   *)

Tracked == [number : Nat, since : Nat, failed : BOOLEAN, cancelled : BOOLEAN]
NoticeEvent == [type : {"status"}, session : NoticeSessions, running : BOOLEAN, number : Nat]
         \cup [type : {"error", "removed"}, session : NoticeSessions]
HostTurn == [running : BOOLEAN, errors : BOOLEAN, stopped : BOOLEAN, restored : BOOLEAN, cut : BOOLEAN]

NoticeTypeOK ==
  /\ turns \in [NoticeSessions -> Tracked] /\ summaries \subseteq NoticeSessions
  /\ feed \in Seq(NoticeEvent)
  /\ linked \in BOOLEAN
  /\ stops \subseteq [id : Nat, session : NoticeSessions, number : Nat, since : Nat]
  /\ cancels \in Nat /\ eventLosses \in Nat
  /\ notices \in Seq([session : NoticeSessions, number : Nat, failed : BOOLEAN])
  /\ history \in [NoticeSessions -> Seq(HostTurn)]

(* Events of one session.                                                   *)
Status(e, s) == e.type = "status" /\ e.session = s
Starting(e, s, n) == Status(e, s) /\ e.running /\ e.number = n
Ending(e, s) == Status(e, s) /\ ~e.running
Failing(e, s) == e.type = "error" /\ e.session = s
Removing(e, s) == e.type = "removed" /\ e.session = s

(* Only the last turn of a session runs; cancel() was called for a turn     *)
(* that there is; without a stream nobody sees a turn.                      *)
TurnsOf(s) ==
  /\ \A n \in DOMAIN history[s] : n < Notice!Number(s) => ~history[s][n].running
  /\ \A c \in stops : c.session = s => c.number <= Notice!Number(s)
  /\ ~linked => turns[s] = Notice!NoTurn /\ \A n \in DOMAIN history[s] : history[s][n].cut

(* Status events are of turns that there are, in their order; one that says *)
(* a turn has ended is right, and comes after those that say it runs.       *)
EventsOf(s) ==
  /\ \A i \in DOMAIN feed : Status(feed[i], s) =>
       /\ feed[i].number \in 1..Notice!Number(s)
       /\ ~feed[i].running => ~history[s][feed[i].number].running
       /\ feed[i].running => \/ history[s][feed[i].number].running
                             \/ \E j \in DOMAIN feed : Ending(feed[j], s)
                                /\ feed[j].number = feed[i].number
  /\ \A i, j \in DOMAIN feed : (i < j /\ Status(feed[i], s) /\ Status(feed[j], s)) =>
       /\ feed[i].number <= feed[j].number
       /\ ~feed[i].running => feed[i].number < feed[j].number

(* The tracked turn runs, or its end is under way, before any later turn.   *)
TrackedOf(s) ==
  turns[s] # Notice!NoTurn =>
    /\ turns[s].number \in 1..Notice!Number(s)
    /\ \/ history[s][turns[s].number].running
       \/ \E i \in DOMAIN feed : Ending(feed[i], s) /\ feed[i].number = turns[s].number
    /\ \A i \in DOMAIN feed : Status(feed[i], s) => feed[i].number >= turns[s].number

(* A session is removed after its last turn.                                *)
RemovalOf(s) ==
  /\ \A i \in DOMAIN feed : Removing(feed[i], s) =>
       /\ ~Notice!Runs(s) /\ Notice!Number(s) = MaxNoticedTurns
       /\ \A j \in DOMAIN feed : j > i => feed[j].session # s
  /\ s \notin summaries =>
       /\ ~Notice!Runs(s) /\ Notice!Number(s) = MaxNoticedTurns /\ turns[s] = Notice!NoTurn
       /\ \A i \in DOMAIN feed : feed[i].session # s

(* A turn that was announced is over for the tracker too.                   *)
ToldAs(s, n, i) ==
  /\ n \in 1..Notice!Number(s) /\ ~history[s][n].running
  /\ turns[s].number = 0 \/ turns[s].number > n
  /\ \A j \in DOMAIN feed : Status(feed[j], s) => feed[j].number > n
  /\ \A k \in DOMAIN notices : (notices[k].session = s /\ notices[k].number = n) => k = i
  /\ history[s][n].cut \/ notices[i].failed = history[s][n].errors
  /\ Notice!Marked(s, n) => history[s][n].restored \/ history[s][n].cut

ToldOf(s) ==
  \A n \in Nat : \A i \in DOMAIN notices :
    notices[i].session = s /\ notices[i].number = n => ToldAs(s, n, i)

(* A turn seen from its start on is to come, tracked, or dealt with.        *)
Reaches(s, n) ==
  s \in summaries =>
    \/ turns[s].number = n
    \/ \E i \in DOMAIN feed : Starting(feed[i], s, n)
    \/ ~history[s][n].running /\ (Notice!Noticed(s, n) # {} \/ Notice!Marked(s, n)
       \/ history[s][n].restored)

(* What is known of its errors, and what comes before its end.              *)
ErrorsOfTracked(s, n) ==
  turns[s].number = n =>
    (history[s][n].errors <=>
       \/ turns[s].failed
       \/ \E i \in DOMAIN feed : Failing(feed[i], s) /\ \A j \in DOMAIN feed : j < i
          => ~Ending(feed[j], s))

ErrorsOfNew(s, n) ==
  turns[s].number # n =>
    \A i \in DOMAIN feed :
      (Starting(feed[i], s, n) /\ \A j \in DOMAIN feed : j < i => ~Starting(feed[j], s, n)) =>
        (history[s][n].errors <=>
           \E k \in DOMAIN feed :
             /\ k > i /\ Failing(feed[k], s)
             /\ \A j \in DOMAIN feed : (i < j /\ j < k) => ~Ending(feed[j], s))

(* It is cancelled when the user asked, and the host did not refuse.        *)
MarksOf(s, n) ==
  /\ turns[s].number = n =>
       /\ turns[s].cancelled => Notice!Marked(s, n) \/ history[s][n].restored
       /\ Notice!Marked(s, n) => turns[s].cancelled \/ history[s][n].restored
  /\ turns[s].number # n /\ (\E i \in DOMAIN feed : Starting(feed[i], s, n)) => ~Notice!Marked(s, n)

SeenOf(s) ==
  \A n \in DOMAIN history[s] : ~history[s][n].cut =>
    Reaches(s, n) /\ ErrorsOfTracked(s, n) /\ ErrorsOfNew(s, n) /\ MarksOf(s, n)

SessionInv(s) ==
  TurnsOf(s) /\ EventsOf(s) /\ TrackedOf(s) /\ RemovalOf(s) /\ ToldOf(s) /\ SeenOf(s)

NoticeInv ==
  /\ NoticeTypeOK
  /\ ~linked => feed = <<>>
  /\ \A s \in NoticeSessions : SessionInv(s)

-----------------------------------------------------------------------------
(* Sequences.                                                               *)

(* NoticeEvent e follows what is on the wire.                                     *)
Grows(e) ==
  /\ Len(feed) \in Nat /\ DOMAIN feed = 1..Len(feed)
  /\ Len(feed') = Len(feed) + 1 /\ DOMAIN feed' = 1..(Len(feed) + 1)
  /\ \A i \in 1..Len(feed) : feed'[i] = feed[i]
  /\ feed'[Len(feed) + 1] = e

(* What Sends does to an open stream.                                       *)
LEMMA WireGrows ==
  ASSUME feed \in Seq(NoticeEvent), NEW e \in NoticeEvent, feed' = Append(feed, e)
  PROVE  feed' \in Seq(NoticeEvent) /\ Grows(e)
  <1>1. Len(feed) \in Nat /\ DOMAIN feed = 1..Len(feed)
    BY LenProperties
  <1>2. feed' \in Seq(NoticeEvent) /\ Len(feed') = Len(feed) + 1
        /\ \A i \in 1..Len(feed) : feed'[i] = feed[i]
    BY AppendProperties
  <1>3. feed'[Len(feed) + 1] = e
    BY AppendProperties
  <1>4. DOMAIN feed' = 1..(Len(feed) + 1)
    BY <1>2, LenProperties
  <1> QED
    BY <1>1, <1>2, <1>3, <1>4 DEF Grows

(* The first event is taken from the wire.                                  *)
Shrinks ==
  /\ Len(feed) \in Nat /\ Len(feed) >= 1 /\ DOMAIN feed = 1..Len(feed)
  /\ Len(feed') = Len(feed) - 1 /\ DOMAIN feed' = 1..(Len(feed) - 1)
  /\ \A i \in 1..(Len(feed) - 1) : feed'[i] = feed[i + 1]
  /\ Head(feed) = feed[1]

(* What Receive does.                                                       *)
LEMMA WireShrinks ==
  ASSUME feed \in Seq(NoticeEvent), feed # <<>>, feed' = Tail(feed)
  PROVE  feed' \in Seq(NoticeEvent) /\ Shrinks
  <1>1. Len(feed) \in Nat /\ Len(feed) >= 1 /\ DOMAIN feed = 1..Len(feed)
    BY EmptySeq, LenProperties
  <1>2. feed' \in Seq(NoticeEvent) /\ Len(feed') = Len(feed) - 1
    BY HeadTailProperties
  <1>3. \A i \in 1..(Len(feed) - 1) : feed'[i] = feed[i + 1]
    BY <1>2, HeadTailProperties
  <1>4. DOMAIN feed' = 1..(Len(feed) - 1)
    BY <1>2, LenProperties
  <1> QED
    BY <1>1, <1>2, <1>3, <1>4 DEF Shrinks

(* The places of the wire.                                                  *)
LEMMA DomainOfWire == feed \in Seq(NoticeEvent) => Len(feed) \in Nat /\ DOMAIN feed = 1..Len(feed)
  BY LenProperties

-----------------------------------------------------------------------------
(* A step of another session.                                               *)

(* Session t finds its events where they were, or one place earlier.        *)
SameEvents(t, d) ==
  /\ \A i \in DOMAIN feed : feed[i].session = t => i - d \in DOMAIN feed' /\ feed'[i - d] = feed[i]
  /\ \A i \in DOMAIN feed' : feed'[i].session = t => i + d \in DOMAIN feed /\ feed[i + d] = feed'[i]

SameTurns(t) ==
  /\ turns'[t] = turns[t] /\ history'[t] = history[t]
  /\ (t \in summaries') = (t \in summaries)
  /\ ~linked' => ~linked
  /\ \A c \in stops' : c.session = t => c \in stops
  /\ \A n \in Nat : Notice!Marked(t, n)' <=> Notice!Marked(t, n)
  /\ \A i \in DOMAIN notices' : notices'[i].session = t => i \in DOMAIN notices
     /\ notices'[i] = notices[i]
  /\ \A i \in DOMAIN notices : i \in DOMAIN notices' /\ notices'[i] = notices[i]

(* What is true of a session stays so where its events, its turns, its calls *)
(* and its notices stay.                                                    *)
LEMMA Elsewhere ==
  ASSUME NoticeTypeOK, feed' \in Seq(NoticeEvent), NEW t \in NoticeSessions, SessionInv(t),
         NEW d \in {0, 1}, SameEvents(t, d), SameTurns(t)
  PROVE  SessionInv(t)'
  <1> USE DEF Status, Starting, Ending, Failing, Removing
  <1>1. /\ DOMAIN feed \subseteq Nat /\ DOMAIN feed' \subseteq Nat
        /\ history[t] \in Seq(HostTurn) /\ DOMAIN history[t] = 1..Notice!Number(t)
           /\ Notice!Number(t) \in Nat
    BY LenProperties DEF NoticeTypeOK, Notice!Number
  <1>2. Notice!Number(t)' = Notice!Number(t) /\ Notice!Runs(t)' = Notice!Runs(t)
    BY DEF Notice!Number, Notice!Runs, SameTurns
  <1>3. TurnsOf(t)'
    BY <1>2 DEF SessionInv, TurnsOf, SameTurns
  <1>4. EventsOf(t)'
    <2>1. ASSUME NEW i \in DOMAIN feed', Status(feed'[i], t)
          PROVE  /\ feed'[i].number \in 1..Notice!Number(t)'
                 /\ ~feed'[i].running => ~history'[t][feed'[i].number].running
                 /\ feed'[i].running => \/ history'[t][feed'[i].number].running
                                        \/ \E j \in DOMAIN feed' : Ending(feed'[j], t)
                                           /\ feed'[j].number = feed'[i].number
      <3>1. i + d \in DOMAIN feed /\ feed[i + d] = feed'[i]
        BY <2>1 DEF SameEvents
      <3>2. ASSUME NEW j \in DOMAIN feed, Ending(feed[j], t)
            PROVE  j - d \in DOMAIN feed' /\ feed'[j - d] = feed[j]
        BY <3>2 DEF SameEvents
      <3>3. history'[t] = history[t]
        BY DEF SameTurns
      <3> QED
        BY <1>2, <2>1, <3>1, <3>2, <3>3 DEF SessionInv, EventsOf
    <2>2. ASSUME NEW i \in DOMAIN feed', NEW j \in DOMAIN feed', i < j,
                 Status(feed'[i], t), Status(feed'[j], t)
          PROVE  /\ feed'[i].number <= feed'[j].number
                 /\ ~feed'[i].running => feed'[i].number < feed'[j].number
      <3>1. i + d \in DOMAIN feed /\ feed[i + d] = feed'[i] /\ j + d \in DOMAIN feed
            /\ feed[j + d] = feed'[j]
        BY <2>2 DEF SameEvents
      <3>2. i + d < j + d
        BY <1>1, <2>2
      <3> QED
        BY <2>2, <3>1, <3>2 DEF SessionInv, EventsOf
    <2> QED
      BY <2>1, <2>2 DEF EventsOf
  <1>5. TrackedOf(t)'
    BY <1>2 DEF SessionInv, TrackedOf, SameEvents, SameTurns
  <1>6. RemovalOf(t)'
    <2>1. ASSUME NEW i \in DOMAIN feed', Removing(feed'[i], t), NEW j \in DOMAIN feed', j > i
          PROVE  feed'[j].session # t
      <3> SUFFICES ASSUME feed'[j].session = t PROVE FALSE
        OBVIOUS
      <3>1. i + d \in DOMAIN feed /\ feed[i + d] = feed'[i] /\ j + d \in DOMAIN feed
            /\ feed[j + d] = feed'[j]
        BY <2>1 DEF SameEvents
      <3>2. j + d > i + d
        BY <1>1, <2>1
      <3> QED
        BY <2>1, <3>1, <3>2 DEF SessionInv, RemovalOf
    <2>2. ASSUME NEW i \in DOMAIN feed', Removing(feed'[i], t)
          PROVE  ~Notice!Runs(t)' /\ Notice!Number(t)' = MaxNoticedTurns
      BY <1>2, <2>2 DEF SessionInv, RemovalOf, SameEvents
    <2>3. t \notin summaries' =>
            /\ ~Notice!Runs(t)' /\ Notice!Number(t)' = MaxNoticedTurns /\ turns'[t] = Notice!NoTurn
            /\ \A i \in DOMAIN feed' : feed'[i].session # t
      BY <1>2 DEF SessionInv, RemovalOf, SameEvents, SameTurns
    <2> QED
      BY <2>1, <2>2, <2>3 DEF RemovalOf
  <1>7. ToldOf(t)'
    <2> SUFFICES ASSUME NEW n \in Nat, NEW i \in DOMAIN notices',
                        notices'[i].session = t, notices'[i].number = n
                 PROVE  ToldAs(t, n, i)'
      BY DEF ToldOf
    <2>1. i \in DOMAIN notices /\ notices'[i] = notices[i]
      BY DEF SameTurns
    <2>2. ToldAs(t, n, i)
      BY <2>1 DEF SessionInv, ToldOf
    <2>3. \A j \in DOMAIN feed' : Status(feed'[j], t) => feed'[j].number > n
      BY <2>2 DEF ToldAs, SameEvents
    <2>4. \A k \in DOMAIN notices' : (notices'[k].session = t /\ notices'[k].number = n) => k = i
      BY <2>2 DEF ToldAs, SameTurns
    <2>5. (Notice!Marked(t, n)' <=> Notice!Marked(t, n)) /\ history'[t] = history[t]
          /\ turns'[t] = turns[t]
      BY DEF SameTurns
    <2> QED
      BY <1>2, <2>1, <2>2, <2>3, <2>4, <2>5 DEF ToldAs
  <1>8. SeenOf(t)'
    <2>1. DOMAIN history'[t] = DOMAIN history[t] /\ history'[t] = history[t] /\ turns'[t] = turns[t]
      BY DEF SameTurns
    <2> SUFFICES ASSUME NEW n \in DOMAIN history[t], ~history[t][n].cut
                 PROVE  Reaches(t, n)' /\ ErrorsOfTracked(t, n)' /\ ErrorsOfNew(t, n)' /\ MarksOf(t, n)'
      BY <2>1 DEF SeenOf
    <2>2. Reaches(t, n) /\ ErrorsOfTracked(t, n) /\ ErrorsOfNew(t, n) /\ MarksOf(t, n)
      BY DEF SessionInv, SeenOf
    <2>3. n \in Nat /\ (Notice!Marked(t, n)' <=> Notice!Marked(t, n))
      BY <1>1 DEF SameTurns
    <2>4. (\E i \in DOMAIN feed' : Starting(feed'[i], t, n))
          <=> (\E i \in DOMAIN feed : Starting(feed[i], t, n))
      BY DEF SameEvents
    <2>5. Reaches(t, n)'
      <3>1. Notice!Noticed(t, n) # {} => Notice!Noticed(t, n)' # {}
        BY DEF Notice!Noticed, SameTurns
      <3> QED
        BY <2>1, <2>2, <2>3, <2>4, <3>1 DEF Reaches, SameTurns
    <2>6. MarksOf(t, n)'
      BY <2>1, <2>2, <2>3, <2>4 DEF MarksOf
    <2>7. ASSUME NEW i \in DOMAIN feed, feed[i].session = t
          PROVE  i \in Nat /\ i - d \in DOMAIN feed' /\ feed'[i - d] = feed[i]
      BY <1>1, <2>7 DEF SameEvents
    <2>8. ASSUME NEW i \in DOMAIN feed', feed'[i].session = t
          PROVE  i \in Nat /\ i + d \in DOMAIN feed /\ feed[i + d] = feed'[i]
      BY <1>1, <2>8 DEF SameEvents
    <2>9. ErrorsOfTracked(t, n)'
      <3>1. (\E i \in DOMAIN feed' : Failing(feed'[i], t) /\ \A j \in DOMAIN feed' : j < i
            => ~Ending(feed'[j], t))
            <=> (\E i \in DOMAIN feed : Failing(feed[i], t) /\ \A j \in DOMAIN feed : j < i
              => ~Ending(feed[j], t))
        <4>1. ASSUME NEW i \in DOMAIN feed', Failing(feed'[i], t), \A j \in DOMAIN feed' : j < i
                     => ~Ending(feed'[j], t)
              PROVE  \E k \in DOMAIN feed : Failing(feed[k], t) /\ \A j \in DOMAIN feed : j < k
                     => ~Ending(feed[j], t)
          <5>1. i \in Nat /\ i + d \in DOMAIN feed /\ feed[i + d] = feed'[i]
            BY <2>8, <4>1
          <5>2. ASSUME NEW j \in DOMAIN feed, j < i + d, Ending(feed[j], t) PROVE FALSE
            <6>1. j \in Nat /\ j - d \in DOMAIN feed' /\ feed'[j - d] = feed[j]
              BY <2>7, <5>2
            <6>2. j - d < i
              BY <5>1, <5>2, <6>1
            <6> QED
              BY <4>1, <5>2, <6>1, <6>2
          <5> QED
            BY <4>1, <5>1, <5>2
        <4>2. ASSUME NEW i \in DOMAIN feed, Failing(feed[i], t), \A j \in DOMAIN feed : j < i
                     => ~Ending(feed[j], t)
              PROVE  \E k \in DOMAIN feed' : Failing(feed'[k], t) /\ \A j \in DOMAIN feed' : j < k
                     => ~Ending(feed'[j], t)
          <5>1. i \in Nat /\ i - d \in DOMAIN feed' /\ feed'[i - d] = feed[i]
            BY <2>7, <4>2
          <5>2. ASSUME NEW j \in DOMAIN feed', j < i - d, Ending(feed'[j], t) PROVE FALSE
            <6>1. j \in Nat /\ j + d \in DOMAIN feed /\ feed[j + d] = feed'[j]
              BY <2>8, <5>2
            <6>2. j + d < i
              BY <5>1, <5>2, <6>1
            <6> QED
              BY <4>2, <5>2, <6>1, <6>2
          <5> QED
            BY <4>2, <5>1, <5>2
        <4> QED
          BY <4>1, <4>2
      <3> QED
        BY <2>1, <2>2, <3>1 DEF ErrorsOfTracked
    <2>10. ErrorsOfNew(t, n)'
      <3> SUFFICES ASSUME turns[t].number # n, NEW i \in DOMAIN feed', Starting(feed'[i], t, n),
                          \A j \in DOMAIN feed' : j < i => ~Starting(feed'[j], t, n)
                   PROVE  history[t][n].errors <=>
                            \E k \in DOMAIN feed' : /\ k > i /\ Failing(feed'[k], t)
                              /\ \A j \in DOMAIN feed' : (i < j /\ j < k) => ~Ending(feed'[j], t)
        BY <2>1 DEF ErrorsOfNew
      <3>1. i \in Nat /\ i + d \in DOMAIN feed /\ feed[i + d] = feed'[i]
        BY <2>8
      <3>2. ASSUME NEW j \in DOMAIN feed, j < i + d, Starting(feed[j], t, n) PROVE FALSE
        <4>1. j \in Nat /\ j - d \in DOMAIN feed' /\ feed'[j - d] = feed[j]
          BY <2>7, <3>2
        <4>2. j - d < i
          BY <3>1, <3>2, <4>1
        <4> QED
          BY <3>2, <4>1, <4>2
      <3>3. history[t][n].errors <=>
              \E k \in DOMAIN feed : /\ k > i + d /\ Failing(feed[k], t)
                /\ \A j \in DOMAIN feed : (i + d < j /\ j < k) => ~Ending(feed[j], t)
        BY <2>2, <3>1, <3>2 DEF ErrorsOfNew
      <3>4. ASSUME NEW k \in DOMAIN feed', k > i, Failing(feed'[k], t),
                   \A j \in DOMAIN feed' : (i < j /\ j < k) => ~Ending(feed'[j], t)
            PROVE  \E m \in DOMAIN feed : /\ m > i + d /\ Failing(feed[m], t)
                     /\ \A j \in DOMAIN feed : (i + d < j /\ j < m) => ~Ending(feed[j], t)
        <4>1. k \in Nat /\ k + d \in DOMAIN feed /\ feed[k + d] = feed'[k] /\ k + d > i + d
          BY <2>8, <3>1, <3>4
        <4>2. ASSUME NEW j \in DOMAIN feed, i + d < j, j < k + d, Ending(feed[j], t) PROVE FALSE
          <5>1. j \in Nat /\ j - d \in DOMAIN feed' /\ feed'[j - d] = feed[j]
            BY <2>7, <4>2
          <5>2. i < j - d /\ j - d < k
            BY <3>1, <4>1, <4>2, <5>1
          <5> QED
            BY <3>4, <4>2, <5>1, <5>2
        <4> QED
          BY <3>4, <4>1, <4>2
      <3>5. ASSUME NEW k \in DOMAIN feed, k > i + d, Failing(feed[k], t),
                   \A j \in DOMAIN feed : (i + d < j /\ j < k) => ~Ending(feed[j], t)
            PROVE  \E m \in DOMAIN feed' : /\ m > i /\ Failing(feed'[m], t)
                     /\ \A j \in DOMAIN feed' : (i < j /\ j < m) => ~Ending(feed'[j], t)
        <4>1. k \in Nat /\ k - d \in DOMAIN feed' /\ feed'[k - d] = feed[k]
          BY <2>7, <3>5
        <4>2. k - d > i
          BY <3>1, <3>5, <4>1
        <4>3. ASSUME NEW j \in DOMAIN feed', i < j, j < k - d, Ending(feed'[j], t) PROVE FALSE
          <5>1. j \in Nat /\ j + d \in DOMAIN feed /\ feed[j + d] = feed'[j]
            BY <2>8, <4>3
          <5>2. i + d < j + d /\ j + d < k
            BY <3>1, <4>1, <4>3, <5>1
          <5> QED
            BY <3>5, <4>3, <5>1, <5>2
        <4> QED
          BY <3>5, <4>1, <4>2, <4>3
      <3> QED
        BY <3>3, <3>4, <3>5
    <2> QED
      BY <2>5, <2>6, <2>9, <2>10
  <1> QED
    BY <1>3, <1>4, <1>5, <1>6, <1>7, <1>8 DEF SessionInv

-----------------------------------------------------------------------------
(* The host's steps.                                                        *)

(* The turns of a session.                                                  *)
LEMMA HistoryOf ==
  ASSUME NoticeTypeOK, NEW s \in NoticeSessions
  PROVE  /\ history[s] \in Seq(HostTurn) /\ Notice!Number(s) \in Nat
            /\ DOMAIN history[s] = 1..Notice!Number(s)
         /\ \A n \in 1..Notice!Number(s) : history[s][n] \in HostTurn
         /\ Notice!Runs(s) <=> Notice!Number(s) >= 1 /\ history[s][Notice!Number(s)].running
  <1>1. history[s] \in Seq(HostTurn)
    BY DEF NoticeTypeOK
  <1>2. Notice!Number(s) \in Nat /\ DOMAIN history[s] = 1..Notice!Number(s)
    BY <1>1, LenProperties DEF Notice!Number
  <1>3. \A n \in 1..Notice!Number(s) : history[s][n] \in HostTurn
    BY <1>1, ElementOfSeq DEF Notice!Number
  <1>4. history[s] # <<>> <=> Notice!Number(s) >= 1
    BY <1>1, <1>2, EmptySeq DEF Notice!Number
  <1> QED
    BY <1>1, <1>2, <1>3, <1>4 DEF Notice!Runs, Notice!Number

(* One more turn.                                                           *)
LEMMA HistoryGrows ==
  ASSUME NoticeTypeOK, NEW s \in NoticeSessions,
         history' = [history EXCEPT ![s] = Append(@, [Notice!Turn EXCEPT !.cut = ~linked])]
  PROVE  /\ history' \in [NoticeSessions -> Seq(HostTurn)]
         /\ \A t \in NoticeSessions \ {s} : history'[t] = history[t]
         /\ Notice!Number(s)' = Notice!Number(s) + 1 /\ DOMAIN history'[s] = 1..(Notice!Number(s) + 1)
         /\ \A n \in 1..Notice!Number(s) : history'[s][n] = history[s][n]
         /\ history'[s][Notice!Number(s) + 1].running /\ ~history'[s][Notice!Number(s) + 1].errors
         /\ ~history'[s][Notice!Number(s) + 1].stopped
         /\ history'[s][Notice!Number(s) + 1].cut = ~linked
  <1> DEFINE r == [Notice!Turn EXCEPT !.cut = ~linked]
  <1>1. r \in HostTurn /\ r.running /\ ~r.errors /\ ~r.stopped /\ r.cut = ~linked
    BY DEF Notice!Turn, HostTurn
  <1>2. history[s] \in Seq(HostTurn) /\ Notice!Number(s) = Len(history[s])
        /\ history \in [NoticeSessions -> Seq(HostTurn)]
    BY DEF NoticeTypeOK, Notice!Number
  <1>3. history'[s] = Append(history[s], r) /\ \A t \in NoticeSessions \ {s} : history'[t] = history[t]
    BY <1>2
  <1> HIDE DEF r
  <1>4. /\ history'[s] \in Seq(HostTurn) /\ Len(history'[s]) = Len(history[s]) + 1
        /\ \A n \in 1..Len(history[s]) : history'[s][n] = history[s][n]
        /\ history'[s][Len(history[s]) + 1] = r
    <2>1. r \in HostTurn
      BY <1>1
    <2>2. /\ Append(history[s], r) \in Seq(HostTurn)
          /\ Len(Append(history[s], r)) = Len(history[s]) + 1
          /\ \A n \in 1..Len(history[s]) : Append(history[s], r)[n] = history[s][n]
          /\ Append(history[s], r)[Len(history[s]) + 1] = r
      BY <1>2, <2>1, AppendProperties
    <2> QED
      BY <1>3, <2>2
  <1>5. DOMAIN history'[s] = 1..(Notice!Number(s) + 1) /\ Notice!Number(s)' = Notice!Number(s) + 1
    BY <1>2, <1>4, LenProperties DEF Notice!Number
  <1>6. history' \in [NoticeSessions -> Seq(HostTurn)]
    <2>1. DOMAIN history' = NoticeSessions
      BY <1>2
    <2>2. \A t \in NoticeSessions : history'[t] \in Seq(HostTurn)
      BY <1>2, <1>3, <1>4
    <2>3. history' = [t \in NoticeSessions |-> history'[t]]
      BY <1>2, <2>1
    <2> QED
      BY <2>2, <2>3
  <1> QED
    BY <1>1, <1>2, <1>3, <1>4, <1>5, <1>6

(* One turn changes.                                                        *)
LEMMA TurnChanges ==
  ASSUME NoticeTypeOK, NEW s \in NoticeSessions, NEW n \in 1..Notice!Number(s), NEW r \in HostTurn,
         history' = [history EXCEPT ![s] = [history[s] EXCEPT ![n] = r]]
  PROVE  /\ history' \in [NoticeSessions -> Seq(HostTurn)]
         /\ \A t \in NoticeSessions \ {s} : history'[t] = history[t]
         /\ Notice!Number(s)' = Notice!Number(s) /\ DOMAIN history'[s] = 1..Notice!Number(s)
         /\ \A m \in 1..Notice!Number(s) : m # n => history'[s][m] = history[s][m]
         /\ history'[s][n] = r
  <1>1. history[s] \in Seq(HostTurn) /\ Notice!Number(s) = Len(history[s])
        /\ history \in [NoticeSessions -> Seq(HostTurn)]
    BY DEF NoticeTypeOK, Notice!Number
  <1>2. history'[s] = [history[s] EXCEPT ![n] = r]
        /\ \A t \in NoticeSessions \ {s} : history'[t] = history[t]
    BY <1>1
  <1>3. /\ history'[s] \in Seq(HostTurn) /\ Len(history'[s]) = Len(history[s])
        /\ \A m \in 1..Len(history[s]) : history'[s][m] = IF m = n THEN r ELSE history[s][m]
    BY <1>1, <1>2, ExceptSeq
  <1>4. DOMAIN history'[s] = 1..Notice!Number(s) /\ Notice!Number(s)' = Notice!Number(s)
    BY <1>1, <1>3, LenProperties DEF Notice!Number
  <1>5. history' \in [NoticeSessions -> Seq(HostTurn)]
    <2>1. \A t \in NoticeSessions : history'[t] \in Seq(HostTurn)
      BY <1>1, <1>2, <1>3
    <2>2. history' = [t \in NoticeSessions |-> history'[t]]
      BY <1>1
    <2> QED
      BY <2>1, <2>2
  <1> QED
    BY <1>1, <1>2, <1>3, <1>4, <1>5

(* The step is one of the host's, for session s.                            *)
HostStep(s, e) ==
  /\ Notice!Sends(e) /\ e \in NoticeEvent /\ e.session = s
  /\ \A t \in NoticeSessions \ {s} : history'[t] = history[t]
  /\ history' \in [NoticeSessions -> Seq(HostTurn)]
  /\ UNCHANGED <<Notice!trackVars, linked, Notice!callVars, Notice!noticeVars, eventLosses>>

(* A step of the host for s touches no other session.                       *)
LEMMA HostElsewhere ==
  ASSUME NoticeInv, NEW s \in NoticeSessions, NEW e, HostStep(s, e), SessionInv(s)'
  PROVE  NoticeInv'
  <1>1. feed' \in Seq(NoticeEvent) /\ (linked => Grows(e)) /\ (~linked => feed' = feed)
    BY WireGrows DEF HostStep, Notice!Sends, NoticeInv, NoticeTypeOK
  <1>2. NoticeTypeOK'
    BY <1>1 DEF NoticeInv, NoticeTypeOK, HostStep, Notice!trackVars, Notice!callVars,
           Notice!noticeVars
  <1>3. ASSUME NEW t \in NoticeSessions \ {s} PROVE SessionInv(t)'
    <2>1. SameEvents(t, 0)
      <3>1. CASE linked
        BY <1>1, <1>3, <3>1 DEF SameEvents, Grows, HostStep
      <3>2. CASE ~linked
        BY <1>1, <3>2, DomainOfWire DEF SameEvents, NoticeInv, NoticeTypeOK
      <3> QED
        BY <3>1, <3>2
    <2>2. SameTurns(t)
      BY <1>3 DEF SameTurns, HostStep, Notice!trackVars, Notice!callVars, Notice!noticeVars,
             Notice!Marked
    <2>3. SessionInv(t) /\ NoticeTypeOK /\ t \in NoticeSessions /\ 0 \in {0, 1}
      BY <1>3 DEF NoticeInv
    <2> QED
      BY <1>1, <2>1, <2>2, <2>3, Elsewhere
  <1>4. ~linked' => feed' = <<>>
    BY <1>1 DEF HostStep, NoticeInv
  <1> QED
    BY <1>2, <1>3, <1>4 DEF NoticeInv

(* Without a stream nothing is seen.                                        *)
LEMMA Unseen ==
  ASSUME NoticeInv, NEW s \in NoticeSessions, NEW e, HostStep(s, e), ~linked,
         TurnsOf(s)', ToldOf(s)', RemovalOf(s)'
  PROVE  SessionInv(s)'
  <1>1. feed' = <<>> /\ DOMAIN feed' = {}
    BY EmptySeq, LenProperties DEF HostStep, Notice!Sends, NoticeInv
  <1>2. turns'[s] = Notice!NoTurn /\ \A n \in DOMAIN history'[s] : history'[s][n].cut
    BY DEF TurnsOf, HostStep
  <1>3. EventsOf(s)' /\ TrackedOf(s)'
    BY <1>1, <1>2 DEF EventsOf, TrackedOf
  <1>4. SeenOf(s)'
    BY <1>2 DEF SeenOf
  <1> QED
    BY <1>3, <1>4 DEF SessionInv

(* Whether a turn is marked depends on the calls and on the turn only.      *)
LEMMA SameMarks ==
  ASSUME NEW s \in NoticeSessions, NEW n, stops' = stops, history'[s][n].stopped = history[s][n].stopped
  PROVE  Notice!Marked(s, n)' <=> Notice!Marked(s, n)
  BY DEF Notice!Marked

(* The next turn of a session: nothing under way is of it yet.              *)
LEMMA StartsSafe ==
  ASSUME NoticeInv, NEW s \in NoticeSessions, Notice!HostStarts(s)
  PROVE  NoticeInv'
  <1> DEFINE N == Notice!Number(s)
             e == [type |-> "status", session |-> s, running |-> TRUE, number |-> N + 1]
  <1> USE DEF Status, Starting, Ending, Failing, Removing
  <1>1. /\ N \in Nat /\ DOMAIN history[s] = 1..N /\ ~(N >= 1 /\ history[s][N].running)
           /\ N # MaxNoticedTurns
        /\ DOMAIN feed = 1..Len(feed) /\ Len(feed) \in Nat /\ feed \in Seq(NoticeEvent)
        /\ \A n \in 1..N : history[s][n] \in HostTurn
    BY HistoryOf, DomainOfWire DEF NoticeInv, Notice!HostStarts, NoticeTypeOK
  <1>2. /\ history' \in [NoticeSessions -> Seq(HostTurn)]
        /\ \A t \in NoticeSessions \ {s} : history'[t] = history[t]
        /\ N' = N + 1 /\ DOMAIN history'[s] = 1..(N + 1)
        /\ \A n \in 1..N : history'[s][n] = history[s][n]
        /\ history'[s][N + 1].running /\ ~history'[s][N + 1].errors
        /\ ~history'[s][N + 1].stopped
        /\ history'[s][N + 1].cut = ~linked
    BY HistoryGrows DEF NoticeInv, Notice!HostStarts
  <1>3. e \in NoticeEvent /\ Notice!Sends(e) /\ N + 1 \in Nat
    BY <1>1 DEF NoticeEvent, Notice!HostStarts
  <1>4. HostStep(s, e)
    BY <1>2, <1>3 DEF HostStep, Notice!HostStarts
  <1>5. turns' = turns /\ summaries' = summaries /\ linked' = linked /\ stops' = stops
        /\ notices' = notices
    BY DEF Notice!HostStarts, Notice!trackVars, Notice!callVars, Notice!noticeVars
  <1>6. SessionInv(s)
    BY DEF NoticeInv
  <1>7. e.type = "status" /\ e.session = s /\ e.running /\ e.number = N + 1
    OBVIOUS
  <1>8. linked => Grows(e)
    BY <1>1, <1>3, WireGrows DEF Notice!Sends
  <1>9. ~linked => feed' = feed /\ DOMAIN feed = {}
    BY <1>3, EmptySeq, LenProperties DEF Notice!Sends, NoticeInv
  <1>17. \A n \in 1..N : Notice!Marked(s, n)' <=> Notice!Marked(s, n)
    BY <1>2, <1>5, SameMarks
  <1> HIDE DEF N, e
  <1>10. TurnsOf(s)'
    <2>1. \A n \in DOMAIN history'[s] : n < N + 1 => ~history'[s][n].running
      BY <1>1, <1>2, <1>6 DEF SessionInv, TurnsOf, N
    <2>2. \A c \in stops : c.session = s => c.number <= N
      BY <1>6 DEF SessionInv, TurnsOf, N
    <2>3. \A c \in stops : c.session = s => c.number <= N + 1
      <3>1. \A c \in stops : c.number \in Nat
        BY DEF NoticeInv, NoticeTypeOK
      <3> QED
        BY <1>1, <2>2, <3>1
    <2>4. ASSUME ~linked PROVE turns[s] = Notice!NoTurn
                 /\ \A n \in DOMAIN history'[s] : history'[s][n].cut
      <3>1. turns[s] = Notice!NoTurn /\ \A n \in 1..N : history[s][n].cut
        BY <1>1, <1>6, <2>4 DEF SessionInv, TurnsOf
      <3>2. ASSUME NEW n \in 1..(N + 1) PROVE history'[s][n].cut
        <4>1. n = N + 1 \/ n \in 1..N
          BY <1>1
        <4> QED
          BY <1>2, <2>4, <3>1, <4>1
      <3> QED
        BY <1>2, <3>1, <3>2
    <2> QED
      BY <1>2, <1>5, <2>1, <2>3, <2>4 DEF TurnsOf, N
  <1>11. ToldOf(s)'
    <2> SUFFICES ASSUME NEW n \in Nat, NEW i \in DOMAIN notices,
                        notices[i].session = s, notices[i].number = n
                 PROVE  ToldAs(s, n, i)'
      BY <1>5 DEF ToldOf
    <2>1. ToldAs(s, n, i)
      BY <1>6 DEF SessionInv, ToldOf
    <2>2. n \in 1..N /\ history'[s][n] = history[s][n] /\ (Notice!Marked(s, n)' <=> Notice!Marked(s, n))
      BY <1>2, <1>17, <2>1 DEF ToldAs, N
    <2>3. \A j \in DOMAIN feed' : Status(feed'[j], s) => feed'[j].number > n
      <3>1. CASE linked
        BY <1>1, <1>7, <1>8, <2>1, <2>2, <3>1 DEF Grows, ToldAs
      <3> QED
        BY <1>9, <3>1
    <2> QED
      BY <1>1, <1>2, <1>5, <2>1, <2>2, <2>3 DEF ToldAs, N
  <1>12. RemovalOf(s)'
    <2>1. s \in summaries /\ \A i \in DOMAIN feed : ~Removing(feed[i], s)
      BY <1>1, <1>6 DEF SessionInv, RemovalOf, N
    <2>2. \A i \in DOMAIN feed' : ~Removing(feed'[i], s)
      <3>1. CASE linked
        BY <1>7, <1>8, <2>1, <3>1 DEF Grows
      <3> QED
        BY <1>9, <3>1
    <2> QED
      BY <1>5, <2>1, <2>2 DEF RemovalOf
  <1>13. ASSUME linked PROVE EventsOf(s)'
    <2>1. ASSUME NEW i \in DOMAIN feed', Status(feed'[i], s)
          PROVE  /\ feed'[i].number \in 1..(N + 1)
                 /\ ~feed'[i].running => ~history'[s][feed'[i].number].running
                 /\ feed'[i].running => \/ history'[s][feed'[i].number].running
                      \/ \E j \in DOMAIN feed' : Ending(feed'[j], s) /\ feed'[j].number = feed'[i].number
      <3>1. CASE i = Len(feed) + 1
        BY <1>1, <1>2, <1>7, <1>8, <1>13, <3>1 DEF Grows
      <3>2. CASE i \in DOMAIN feed
        <4>1. feed'[i] = feed[i] /\ \A j \in DOMAIN feed : j \in DOMAIN feed' /\ feed'[j] = feed[j]
          BY <1>1, <1>8, <1>13, <3>2 DEF Grows
        <4>2. /\ feed[i].number \in 1..N
              /\ ~feed[i].running => ~history[s][feed[i].number].running
              /\ feed[i].running => \/ history[s][feed[i].number].running
                      \/ \E j \in DOMAIN feed : Ending(feed[j], s) /\ feed[j].number = feed[i].number
          BY <1>6, <2>1, <3>2, <4>1 DEF SessionInv, EventsOf, N
        <4> QED
          BY <1>1, <1>2, <4>1, <4>2
      <3> QED
        BY <1>1, <1>8, <1>13, <3>1, <3>2 DEF Grows
    <2>2. ASSUME NEW i \in DOMAIN feed', NEW j \in DOMAIN feed', i < j,
                 Status(feed'[i], s), Status(feed'[j], s)
          PROVE  /\ feed'[i].number <= feed'[j].number
                 /\ ~feed'[i].running => feed'[i].number < feed'[j].number
      <3>1. i \in DOMAIN feed /\ feed'[i] = feed[i]
        BY <1>1, <1>8, <1>13, <2>2 DEF Grows
      <3>2. CASE j = Len(feed) + 1
        <4>1. feed[i].number \in 1..N
          BY <1>6, <2>2, <3>1 DEF SessionInv, EventsOf, N
        <4> QED
          BY <1>1, <1>7, <1>8, <1>13, <3>1, <3>2, <4>1 DEF Grows
      <3>3. CASE j \in DOMAIN feed
        BY <1>1, <1>6, <1>8, <1>13, <2>2, <3>1, <3>3 DEF Grows, SessionInv, EventsOf
      <3> QED
        BY <1>1, <1>8, <1>13, <3>2, <3>3 DEF Grows
    <2> QED
      BY <1>2, <2>1, <2>2 DEF EventsOf, N
  <1>14. ASSUME linked PROVE TrackedOf(s)'
    <2> SUFFICES ASSUME turns[s] # Notice!NoTurn
                 PROVE  /\ turns[s].number \in 1..(N + 1)
                        /\ \/ history'[s][turns[s].number].running
                           \/ \E i \in DOMAIN feed' : Ending(feed'[i], s)
                              /\ feed'[i].number = turns[s].number
                        /\ \A i \in DOMAIN feed' : Status(feed'[i], s)
                           => feed'[i].number >= turns[s].number
      BY <1>2, <1>5 DEF TrackedOf, N
    <2>1. /\ turns[s].number \in 1..N
          /\ \/ history[s][turns[s].number].running
             \/ \E i \in DOMAIN feed : Ending(feed[i], s) /\ feed[i].number = turns[s].number
          /\ \A i \in DOMAIN feed : Status(feed[i], s) => feed[i].number >= turns[s].number
      BY <1>6 DEF SessionInv, TrackedOf, N
    <2>2. /\ \A i \in DOMAIN feed : i \in DOMAIN feed' /\ feed'[i] = feed[i]
          /\ \A i \in DOMAIN feed' : i \in DOMAIN feed \/ feed'[i] = e
      BY <1>1, <1>8, <1>14 DEF Grows
    <2>3. turns[s].number \in 1..(N + 1) /\ turns[s].number <= N + 1
      BY <1>1, <2>1
    <2>4. history'[s][turns[s].number].running
          \/ \E i \in DOMAIN feed' : Ending(feed'[i], s) /\ feed'[i].number = turns[s].number
      BY <1>2, <2>1, <2>2
    <2>5. \A i \in DOMAIN feed' : Status(feed'[i], s) => feed'[i].number >= turns[s].number
      BY <1>1, <1>7, <2>1, <2>2, <2>3
    <2> QED
      BY <2>3, <2>4, <2>5
  <1>15. ASSUME linked PROVE SeenOf(s)'
    <2> SUFFICES ASSUME NEW n \in 1..(N + 1), ~history'[s][n].cut
                 PROVE  Reaches(s, n)' /\ ErrorsOfTracked(s, n)' /\ ErrorsOfNew(s, n)' /\ MarksOf(s, n)'
      BY <1>2 DEF SeenOf
    <2>1. /\ Len(feed) + 1 \in DOMAIN feed' /\ feed'[Len(feed) + 1] = e
          /\ \A i \in DOMAIN feed : i \in DOMAIN feed' /\ feed'[i] = feed[i]
          /\ \A i \in DOMAIN feed' : i \in Nat /\ (i \in DOMAIN feed \/ i = Len(feed) + 1)
          /\ \A i \in DOMAIN feed : i < Len(feed) + 1
      BY <1>1, <1>8, <1>15 DEF Grows
    <2>2. turns[s].number <= N /\ turns[s].number \in Nat
      <3>1. turns[s].number \in Nat
        BY DEF NoticeInv, NoticeTypeOK, Tracked
      <3>2. turns[s] = Notice!NoTurn => turns[s].number = 0
        BY DEF Notice!NoTurn
      <3> QED
        BY <1>1, <1>6, <3>1, <3>2 DEF SessionInv, TrackedOf, N
    <2>3. CASE n = N + 1
      <3>1. Starting(feed'[Len(feed) + 1], s, n) /\ turns[s].number # n
        BY <1>1, <1>7, <2>1, <2>2, <2>3
      <3>2. ~Notice!Marked(s, n)'
        <4>1. ASSUME NEW c \in stops, c.session = s, c.number = n PROVE FALSE
          <5>1. c.number <= N
            BY <1>6, <4>1 DEF SessionInv, TurnsOf, N
          <5> QED
            BY <1>1, <2>3, <4>1, <5>1
        <4> QED
          BY <1>2, <1>5, <2>3, <4>1 DEF Notice!Marked
      <3>3. Reaches(s, n)' /\ ErrorsOfTracked(s, n)' /\ MarksOf(s, n)'
        BY <1>5, <2>1, <3>1, <3>2 DEF Reaches, ErrorsOfTracked, MarksOf
      <3>4. ErrorsOfNew(s, n)'
        <4>1. ASSUME NEW i \in DOMAIN feed, Starting(feed[i], s, n) PROVE FALSE
          <5>1. feed[i].number \in 1..N
            BY <1>6, <4>1 DEF SessionInv, EventsOf, N
          <5> QED
            BY <1>1, <2>3, <4>1, <5>1
        <4>2. \A i \in DOMAIN feed' : Starting(feed'[i], s, n) => i = Len(feed) + 1
          BY <2>1, <4>1
        <4>3. \A k \in DOMAIN feed' : ~(k > Len(feed) + 1)
          BY <1>1, <2>1
        <4> QED
          BY <1>2, <2>3, <4>2, <4>3 DEF ErrorsOfNew
      <3> QED
        BY <3>3, <3>4
    <2>4. CASE n \in 1..N
      <3>1. history'[s][n] = history[s][n] /\ turns'[s] = turns[s]
            /\ (Notice!Marked(s, n)' <=> Notice!Marked(s, n))
        BY <1>2, <1>5, <1>17, <2>4
      <3>2. Reaches(s, n) /\ ErrorsOfTracked(s, n) /\ ErrorsOfNew(s, n) /\ MarksOf(s, n)
        BY <1>1, <1>6, <2>4, <3>1 DEF SessionInv, SeenOf
      <3>3. ~Starting(feed'[Len(feed) + 1], s, n) /\ ~Failing(feed'[Len(feed) + 1], s)
            /\ ~Ending(feed'[Len(feed) + 1], s)
        BY <1>1, <1>7, <2>1, <2>4
      <3>4. Reaches(s, n)' /\ MarksOf(s, n)'
        BY <1>5, <2>1, <3>1, <3>2, <3>3 DEF Reaches, MarksOf, Notice!Noticed
      <3>5. ErrorsOfTracked(s, n)'
        BY <2>1, <3>1, <3>2, <3>3 DEF ErrorsOfTracked
      <3>6. ErrorsOfNew(s, n)'
        <4> SUFFICES ASSUME turns[s].number # n, NEW i \in DOMAIN feed', Starting(feed'[i], s, n),
                            \A j \in DOMAIN feed' : j < i => ~Starting(feed'[j], s, n)
                     PROVE  history[s][n].errors <=>
                              \E k \in DOMAIN feed' :
                                /\ k > i /\ Failing(feed'[k], s)
                                /\ \A j \in DOMAIN feed' : (i < j /\ j < k) => ~Ending(feed'[j], s)
          BY <3>1 DEF ErrorsOfNew
        <4>1. i \in DOMAIN feed /\ Starting(feed[i], s, n)
              /\ \A j \in DOMAIN feed : j < i => ~Starting(feed[j], s, n)
          BY <2>1, <3>3
        <4>2. history[s][n].errors <=>
                \E k \in DOMAIN feed :
                  /\ k > i /\ Failing(feed[k], s)
                  /\ \A j \in DOMAIN feed : (i < j /\ j < k) => ~Ending(feed[j], s)
          BY <3>2, <4>1 DEF ErrorsOfNew
        <4>3. ASSUME NEW k \in DOMAIN feed
              PROVE  /\ Failing(feed'[k], s) <=> Failing(feed[k], s)
                     /\ (\A j \in DOMAIN feed' : (i < j /\ j < k) => ~Ending(feed'[j], s))
                          <=> (\A j \in DOMAIN feed : (i < j /\ j < k) => ~Ending(feed[j], s))
          BY <2>1, <3>3
        <4>4. \A k \in DOMAIN feed' : Failing(feed'[k], s) => k \in DOMAIN feed
          BY <2>1, <3>3
        <4> HIDE DEF Failing, Ending
        <4> QED
          BY <2>1, <4>2, <4>3, <4>4
      <3> QED
        BY <3>4, <3>5, <3>6
    <2> QED
      BY <1>1, <2>3, <2>4
  <1>16. SessionInv(s)'
    BY <1>4, <1>10, <1>11, <1>12, <1>13, <1>14, <1>15, Unseen DEF SessionInv
  <1> QED
    BY <1>4, <1>16, HostElsewhere

(* NoticeEvent e stands last on the wire, in place last.                          *)
After(e, last) ==
  /\ last \in Nat /\ last \in DOMAIN feed' /\ feed'[last] = e
  /\ \A i \in DOMAIN feed : i \in DOMAIN feed' /\ feed'[i] = feed[i] /\ i \in Nat /\ i < last
  /\ \A i \in DOMAIN feed' : i \in Nat /\ (i \in DOMAIN feed \/ i = last)

(* What a step of the host leaves alone.                                    *)
HostKeeps(s) ==
  /\ turns' = turns /\ summaries' = summaries /\ linked' = linked /\ stops' = stops /\ notices' = notices
  /\ NoticeTypeOK /\ SessionInv(s)
  /\ Notice!Number(s) \in Nat /\ DOMAIN history[s] = 1..Notice!Number(s)
  /\ Notice!Runs(s) <=> Notice!Number(s) >= 1 /\ history[s][Notice!Number(s)].running

(* What a step of the host does to the wire.                                *)
LEMMA NoticeHostSends ==
  ASSUME NoticeInv, NEW s \in NoticeSessions, NEW e, HostStep(s, e)
  PROVE  /\ linked => After(e, Len(feed) + 1) /\ Len(feed) + 1 \in Nat
         /\ ~linked => feed' = feed /\ DOMAIN feed = {}
         /\ HostKeeps(s)
  <1>1. linked => Grows(e)
    BY WireGrows DEF HostStep, Notice!Sends, NoticeInv, NoticeTypeOK
  <1>2. ~linked => feed' = feed /\ DOMAIN feed = {}
    BY EmptySeq, LenProperties DEF HostStep, Notice!Sends, NoticeInv
  <1>3. Grows(e) => After(e, Len(feed) + 1) /\ Len(feed) + 1 \in Nat
    BY DEF Grows, After
  <1>4. HostKeeps(s)
    BY HistoryOf DEF HostKeeps, HostStep, NoticeInv, Notice!trackVars, Notice!callVars,
           Notice!noticeVars
  <1> QED
    BY <1>1, <1>2, <1>3, <1>4

(* An event that is neither an error nor a start of this turn.              *)
LEMMA QuietEvent ==
  ASSUME NEW s \in NoticeSessions, NEW n, NEW e, NEW last, After(e, last),
         turns' = turns, summaries' = summaries, notices' = notices,
         history'[s][n].running => history[s][n].running,
         history'[s][n].errors = history[s][n].errors,
         history'[s][n].restored = history[s][n].restored,
         Notice!Marked(s, n)' <=> Notice!Marked(s, n), ~Failing(e, s), ~Starting(e, s, n),
         Reaches(s, n), ErrorsOfTracked(s, n), ErrorsOfNew(s, n), MarksOf(s, n)
  PROVE  Reaches(s, n)' /\ ErrorsOfTracked(s, n)' /\ ErrorsOfNew(s, n)' /\ MarksOf(s, n)'
  <1> USE DEF After, Status, Starting, Ending, Failing, Removing
  <1>1. Reaches(s, n)'
    BY DEF Reaches, Notice!Noticed
  <1>2. ErrorsOfTracked(s, n)'
    BY DEF ErrorsOfTracked
  <1>3. ErrorsOfNew(s, n)'
    <2> SUFFICES ASSUME turns[s].number # n, NEW i \in DOMAIN feed', Starting(feed'[i], s, n),
                        \A j \in DOMAIN feed' : j < i => ~Starting(feed'[j], s, n)
                 PROVE  history'[s][n].errors <=>
                          \E k \in DOMAIN feed' : /\ k > i /\ Failing(feed'[k], s)
                            /\ \A j \in DOMAIN feed' : (i < j /\ j < k) => ~Ending(feed'[j], s)
      BY DEF ErrorsOfNew
    <2>1. i \in DOMAIN feed /\ Starting(feed[i], s, n) /\ \A j \in DOMAIN feed : j < i
          => ~Starting(feed[j], s, n)
      OBVIOUS
    <2>2. history[s][n].errors <=>
            \E k \in DOMAIN feed : /\ k > i /\ Failing(feed[k], s)
              /\ \A j \in DOMAIN feed : (i < j /\ j < k) => ~Ending(feed[j], s)
      BY <2>1 DEF ErrorsOfNew
    <2>3. ASSUME NEW k \in DOMAIN feed, k > i, Failing(feed[k], s),
                 \A j \in DOMAIN feed : (i < j /\ j < k) => ~Ending(feed[j], s)
          PROVE  /\ k \in DOMAIN feed' /\ Failing(feed'[k], s)
                 /\ \A j \in DOMAIN feed' : (i < j /\ j < k) => ~Ending(feed'[j], s)
      BY <2>3
    <2>4. ASSUME NEW k \in DOMAIN feed', k > i, Failing(feed'[k], s),
                 \A j \in DOMAIN feed' : (i < j /\ j < k) => ~Ending(feed'[j], s)
          PROVE  /\ k \in DOMAIN feed /\ Failing(feed[k], s)
                 /\ \A j \in DOMAIN feed : (i < j /\ j < k) => ~Ending(feed[j], s)
      BY <2>4
    <2> QED
      BY <2>2, <2>3, <2>4
  <1>4. MarksOf(s, n)'
    BY DEF MarksOf
  <1> QED
    BY <1>1, <1>2, <1>3, <1>4

(* Status events, where the last turn runs.                                 *)
LEMMA StatusWhileRuns ==
  ASSUME NEW s \in NoticeSessions, HostKeeps(s), Notice!Runs(s)
  PROVE  /\ \A i \in DOMAIN feed : Status(feed[i], s) =>
              /\ feed[i].number \in Nat /\ feed[i].number <= Notice!Number(s)
              /\ ~feed[i].running => feed[i].number < Notice!Number(s)
         /\ s \in summaries /\ \A i \in DOMAIN feed : ~Removing(feed[i], s)
         /\ turns[s].number \in Nat /\ turns[s].number <= Notice!Number(s)
         /\ \A n \in Nat, i \in DOMAIN notices : ToldAs(s, n, i) => n < Notice!Number(s)
  <1> DEFINE N == Notice!Number(s)
  <1>1. N \in Nat /\ N >= 1 /\ history[s][N].running /\ DOMAIN history[s] = 1..N /\ SessionInv(s)
    BY DEF HostKeeps
  <1>2. ASSUME NEW i \in DOMAIN feed, Status(feed[i], s)
        PROVE  /\ feed[i].number \in Nat /\ feed[i].number <= N
               /\ ~feed[i].running => feed[i].number < N
    <2>1. feed[i].number \in 1..N /\ (~feed[i].running => ~history[s][feed[i].number].running)
      BY <1>1, <1>2 DEF SessionInv, EventsOf
    <2>2. feed[i].number \in Nat /\ feed[i].number <= N /\ (~feed[i].running => feed[i].number # N)
      BY <1>1, <2>1
    <2> QED
      BY <1>1, <2>2
  <1>3. s \in summaries /\ \A i \in DOMAIN feed : ~Removing(feed[i], s)
    BY DEF HostKeeps, SessionInv, RemovalOf
  <1>4. turns[s].number \in Nat /\ turns[s].number <= N
    <2>1. turns[s].number \in Nat
      BY DEF HostKeeps, NoticeTypeOK, Tracked
    <2>2. turns[s] = Notice!NoTurn => turns[s].number = 0
      BY DEF Notice!NoTurn
    <2>3. turns[s] # Notice!NoTurn => turns[s].number \in 1..N
      BY <1>1 DEF SessionInv, TrackedOf
    <2> QED
      BY <1>1, <2>1, <2>2, <2>3
  <1>5. ASSUME NEW n \in Nat, NEW i \in DOMAIN notices, ToldAs(s, n, i) PROVE n < N
    <2>1. n \in 1..N /\ n # N
      BY <1>1, <1>5 DEF ToldAs
    <2> QED
      BY <1>1, <2>1
  <1> QED
    BY <1>2, <1>3, <1>4, <1>5

(* What the host says of its last turn, while that runs.                    *)
OfLastTurn(s, e) ==
  /\ Notice!Runs(s) /\ HostStep(s, e) /\ e.type \in {"status", "error"}
  /\ Status(e, s) => e.number = Notice!Number(s) /\ (e.running <=> history'[s][Notice!Number(s)].running)
  /\ e.type = "error" => history'[s][Notice!Number(s)].running
  /\ Notice!Number(s)' = Notice!Number(s) /\ DOMAIN history'[s] = 1..Notice!Number(s)
  /\ \A n \in 1..Notice!Number(s) :
       /\ n # Notice!Number(s) => history'[s][n] = history[s][n]
       /\ history'[s][n].cut = history[s][n].cut
       /\ history'[s][n].stopped = history[s][n].stopped
       /\ history'[s][n].restored = history[s][n].restored

(* All but what is known of its errors is kept while the last turn runs.    *)
LEMMA LastTurnSafe ==
  ASSUME NoticeInv, NEW s \in NoticeSessions, NEW e, OfLastTurn(s, e),
         linked => SeenOf(s)'
  PROVE  NoticeInv'
  <1> DEFINE N == Notice!Number(s)
             L == Len(feed) + 1
  <1>1. HostStep(s, e) /\ Notice!Runs(s)
    BY DEF OfLastTurn
  <1>2. /\ linked => After(e, L) /\ L \in Nat
        /\ ~linked => feed' = feed /\ DOMAIN feed = {}
        /\ HostKeeps(s)
    BY <1>1, NoticeHostSends
  <1>3. /\ turns' = turns /\ summaries' = summaries /\ linked' = linked /\ stops' = stops
           /\ notices' = notices
        /\ NoticeTypeOK /\ SessionInv(s)
        /\ N \in Nat /\ DOMAIN history[s] = 1..N /\ N >= 1 /\ history[s][N].running
        /\ N' = N /\ DOMAIN history'[s] = 1..N
    BY <1>2 DEF OfLastTurn, HostKeeps
  <1>4. /\ \A i \in DOMAIN feed : Status(feed[i], s) =>
              /\ feed[i].number \in Nat /\ feed[i].number <= N
              /\ ~feed[i].running => feed[i].number < N
        /\ s \in summaries /\ \A i \in DOMAIN feed : ~Removing(feed[i], s)
        /\ turns[s].number \in Nat /\ turns[s].number <= N
        /\ \A n \in Nat, i \in DOMAIN notices : ToldAs(s, n, i) => n < N
    BY <1>1, <1>2, StatusWhileRuns
  <1>5. /\ Status(e, s) => e.number = N /\ (e.running <=> history'[s][N].running)
        /\ e.type = "error" => history'[s][N].running
        /\ e.type \in {"status", "error"} /\ e.session = s
    BY DEF OfLastTurn, HostStep
  <1>6. \A n \in 1..N :
          /\ n # N => history'[s][n] = history[s][n]
          /\ history'[s][n].cut = history[s][n].cut
          /\ history'[s][n].stopped = history[s][n].stopped
          /\ history'[s][n].restored = history[s][n].restored
    BY DEF OfLastTurn
  <1>7. \A n \in 1..N : Notice!Marked(s, n)' <=> Notice!Marked(s, n)
    BY <1>3, <1>6, SameMarks
  <1> HIDE DEF N, L
  <1> USE DEF Status, Starting, Ending, Failing, Removing
  <1>8. TurnsOf(s)'
    <2>1. \A n \in 1..N : n < N => ~history'[s][n].running
      BY <1>3, <1>6 DEF SessionInv, TurnsOf, N
    <2> QED
      BY <1>3, <1>6, <2>1 DEF SessionInv, TurnsOf, N
  <1>9. ToldOf(s)'
    <2> SUFFICES ASSUME NEW n \in Nat, NEW i \in DOMAIN notices,
                        notices[i].session = s, notices[i].number = n
                 PROVE  ToldAs(s, n, i)'
      BY <1>3 DEF ToldOf
    <2>1. ToldAs(s, n, i) /\ n < N
      BY <1>3, <1>4 DEF SessionInv, ToldOf
    <2>2. n \in 1..N /\ history'[s][n] = history[s][n] /\ (Notice!Marked(s, n)' <=> Notice!Marked(s, n))
      BY <1>3, <1>6, <1>7, <2>1 DEF ToldAs, N
    <2>3. \A j \in DOMAIN feed' : Status(feed'[j], s) => feed'[j].number > n
      <3>1. CASE linked
        <4>1. \A j \in DOMAIN feed' : j \in DOMAIN feed \/ feed'[j] = e
          BY <1>2, <3>1 DEF After
        <4>2. \A j \in DOMAIN feed : feed'[j] = feed[j]
          BY <1>2, <3>1 DEF After
        <4>3. N > n
          BY <1>3, <2>1
        <4> QED
          BY <1>5, <2>1, <4>1, <4>2, <4>3 DEF ToldAs
      <3>2. CASE ~linked
        BY <1>2, <3>2
      <3> QED
        BY <3>1, <3>2
    <2> QED
      BY <1>3, <2>1, <2>2, <2>3 DEF ToldAs, N
  <1>10. RemovalOf(s)'
    <2>1. \A i \in DOMAIN feed' : ~Removing(feed'[i], s)
      BY <1>2, <1>4, <1>5 DEF After
    <2> QED
      BY <1>3, <1>4, <2>1 DEF RemovalOf
  <1>11. ASSUME linked PROVE EventsOf(s)'
    <2>0. After(e, L) /\ L \in Nat
      BY <1>2, <1>11
    <2>1. ASSUME NEW i \in DOMAIN feed', Status(feed'[i], s)
          PROVE  /\ feed'[i].number \in 1..N
                 /\ ~feed'[i].running => ~history'[s][feed'[i].number].running
                 /\ feed'[i].running => \/ history'[s][feed'[i].number].running
                      \/ \E j \in DOMAIN feed' : Ending(feed'[j], s) /\ feed'[j].number = feed'[i].number
      <3>1. CASE i = L
        BY <1>3, <1>5, <2>0, <2>1, <3>1 DEF After
      <3>2. CASE i \in DOMAIN feed
        <4>1. feed'[i] = feed[i] /\ \A j \in DOMAIN feed : j \in DOMAIN feed' /\ feed'[j] = feed[j]
          BY <2>0, <3>2 DEF After
        <4>2. /\ feed[i].number \in 1..N
              /\ ~feed[i].running => ~history[s][feed[i].number].running
              /\ feed[i].running => \/ history[s][feed[i].number].running
                      \/ \E j \in DOMAIN feed : Ending(feed[j], s) /\ feed[j].number = feed[i].number
          BY <1>3, <2>1, <3>2, <4>1 DEF SessionInv, EventsOf, N
        <4>3. CASE feed[i].number # N
          BY <1>6, <4>1, <4>2, <4>3
        <4>4. CASE feed[i].number = N
          <5>1. feed[i].running
            BY <1>3, <4>2, <4>4
          <5>2. history'[s][N].running \/ (Ending(e, s) /\ e.number = N)
            BY <1>5
          <5>3. L \in DOMAIN feed' /\ feed'[L] = e
            BY <2>0 DEF After
          <5> QED
            BY <4>1, <4>2, <4>4, <5>1, <5>2, <5>3
        <4> QED
          BY <4>3, <4>4
      <3> QED
        BY <2>0, <3>1, <3>2 DEF After
    <2>2. ASSUME NEW i \in DOMAIN feed', NEW j \in DOMAIN feed', i < j,
                 Status(feed'[i], s), Status(feed'[j], s)
          PROVE  /\ feed'[i].number <= feed'[j].number
                 /\ ~feed'[i].running => feed'[i].number < feed'[j].number
      <3>1. i \in DOMAIN feed /\ feed'[i] = feed[i] /\ i \in Nat
        <4>1. i # L
          BY <2>0, <2>2 DEF After
        <4> QED
          BY <2>0, <2>2, <4>1 DEF After
      <3>2. CASE j = L
        BY <1>4, <1>5, <2>0, <2>2, <3>1, <3>2 DEF After
      <3>3. CASE j \in DOMAIN feed
        <4>1. feed'[j] = feed[j]
          BY <2>0, <3>3 DEF After
        <4> QED
          BY <1>3, <2>2, <3>1, <3>3, <4>1 DEF SessionInv, EventsOf
      <3> QED
        BY <2>0, <3>2, <3>3 DEF After
    <2> QED
      BY <1>3, <2>1, <2>2 DEF EventsOf, N
  <1>12. ASSUME linked PROVE TrackedOf(s)'
    <2>0. After(e, L) /\ L \in Nat
      BY <1>2, <1>12
    <2> SUFFICES ASSUME turns[s] # Notice!NoTurn
                 PROVE  /\ turns[s].number \in 1..N
                        /\ \/ history'[s][turns[s].number].running
                           \/ \E i \in DOMAIN feed' : Ending(feed'[i], s)
                              /\ feed'[i].number = turns[s].number
                        /\ \A i \in DOMAIN feed' : Status(feed'[i], s)
                           => feed'[i].number >= turns[s].number
      BY <1>3 DEF TrackedOf, N
    <2>1. /\ turns[s].number \in 1..N
          /\ \/ history[s][turns[s].number].running
             \/ \E i \in DOMAIN feed : Ending(feed[i], s) /\ feed[i].number = turns[s].number
          /\ \A i \in DOMAIN feed : Status(feed[i], s) => feed[i].number >= turns[s].number
      BY <1>3 DEF SessionInv, TrackedOf, N
    <2>2. /\ L \in DOMAIN feed' /\ feed'[L] = e
          /\ \A i \in DOMAIN feed : i \in DOMAIN feed' /\ feed'[i] = feed[i]
          /\ \A i \in DOMAIN feed' : i \in DOMAIN feed \/ feed'[i] = e
      BY <2>0 DEF After
    <2>3. history'[s][turns[s].number].running
          \/ \E i \in DOMAIN feed' : Ending(feed'[i], s) /\ feed'[i].number = turns[s].number
      <3>1. CASE turns[s].number # N
        BY <1>6, <2>1, <2>2, <3>1
      <3>2. CASE turns[s].number = N
        BY <1>5, <2>2, <3>2
      <3> QED
        BY <3>1, <3>2
    <2>4. \A i \in DOMAIN feed' : Status(feed'[i], s) => feed'[i].number >= turns[s].number
      BY <1>3, <1>4, <1>5, <2>1, <2>2
    <2> QED
      BY <2>1, <2>3, <2>4
  <1>13. CASE linked
    <2>1. SessionInv(s)'
      BY <1>8, <1>9, <1>10, <1>11, <1>12, <1>13 DEF SessionInv
    <2> QED
      BY <1>1, <2>1, HostElsewhere
  <1>14. CASE ~linked
    <2>1. SessionInv(s)'
      BY <1>1, <1>8, <1>9, <1>10, <1>14, Unseen
    <2> QED
      BY <1>1, <2>1, HostElsewhere
  <1> QED
    BY <1>13, <1>14

(* A turn that runs was announced before: this start is not its first.      *)
LEMMA RepeatsSafe ==
  ASSUME NoticeInv, NEW s \in NoticeSessions, Notice!HostRepeats(s)
  PROVE  NoticeInv'
  <1> DEFINE N == Notice!Number(s)
             e == [type |-> "status", session |-> s, running |-> TRUE, number |-> N]
             L == Len(feed) + 1
  <1> USE DEF Status, Starting, Ending, Failing, Removing
  <1>1. /\ N \in Nat /\ DOMAIN history[s] = 1..N /\ N >= 1 /\ history[s][N].running
        /\ Notice!Runs(s) /\ Notice!Sends(e) /\ history' = history
    BY HistoryOf DEF NoticeInv, Notice!HostRepeats
  <1>2. HostStep(s, e)
    BY <1>1 DEF HostStep, Notice!HostRepeats, NoticeEvent, NoticeInv, NoticeTypeOK
  <1>3. OfLastTurn(s, e)
    BY <1>1, <1>2 DEF OfLastTurn, Notice!Number
  <1>4. (linked => After(e, L)) /\ HostKeeps(s)
    BY <1>2, NoticeHostSends
  <1>5. /\ turns' = turns /\ summaries' = summaries /\ stops' = stops /\ notices' = notices
           /\ SessionInv(s)
    BY <1>4 DEF HostKeeps
  <1>6. s \in summaries
    BY <1>1, <1>4, StatusWhileRuns
  <1>7. e.type = "status" /\ e.session = s /\ e.running /\ e.number = N
    OBVIOUS
  <1> HIDE DEF N, e, L
  <1>8. ASSUME linked, NEW n \in 1..N, ~history[s][n].cut
        PROVE  Reaches(s, n)' /\ ErrorsOfTracked(s, n)' /\ ErrorsOfNew(s, n)' /\ MarksOf(s, n)'
    <2>1. Reaches(s, n) /\ ErrorsOfTracked(s, n) /\ ErrorsOfNew(s, n) /\ MarksOf(s, n)
      BY <1>1, <1>5, <1>8 DEF SessionInv, SeenOf
    <2>2. Notice!Marked(s, n)' <=> Notice!Marked(s, n)
      BY <1>1, <1>5 DEF Notice!Marked
    <2>3. CASE n # N
      BY <1>1, <1>4, <1>5, <1>7, <1>8, <2>1, <2>2, <2>3, QuietEvent
    <2>4. CASE n = N
      <3>1. After(e, L)
        BY <1>4, <1>8
      <3>2. turns[s].number = n \/ \E i \in DOMAIN feed : Starting(feed[i], s, n)
        BY <1>1, <1>6, <2>1, <2>4 DEF Reaches
      <3>3. /\ L \in DOMAIN feed' /\ feed'[L] = e
            /\ \A i \in DOMAIN feed : i \in DOMAIN feed' /\ feed'[i] = feed[i] /\ i \in Nat /\ i < L
            /\ \A i \in DOMAIN feed' : i \in Nat /\ (i \in DOMAIN feed \/ i = L)
            /\ L \in Nat
        BY <3>1 DEF After
      <3>4. Reaches(s, n)'
        BY <1>7, <2>4, <3>3 DEF Reaches
      <3>5. ErrorsOfTracked(s, n)'
        BY <1>1, <1>5, <1>7, <2>1, <3>3 DEF ErrorsOfTracked
      <3>6. MarksOf(s, n)'
        BY <1>1, <1>5, <2>1, <2>2, <3>2 DEF MarksOf
      <3>7. ErrorsOfNew(s, n)'
        <4> SUFFICES ASSUME turns[s].number # n, NEW i \in DOMAIN feed', Starting(feed'[i], s, n),
                            \A j \in DOMAIN feed' : j < i => ~Starting(feed'[j], s, n)
                     PROVE  history[s][n].errors <=>
                              \E k \in DOMAIN feed' : /\ k > i /\ Failing(feed'[k], s)
                                /\ \A j \in DOMAIN feed' : (i < j /\ j < k) => ~Ending(feed'[j], s)
          BY <1>1, <1>5 DEF ErrorsOfNew
        <4>1. i \in DOMAIN feed /\ Starting(feed[i], s, n) /\ \A j \in DOMAIN feed : j < i
              => ~Starting(feed[j], s, n)
          BY <3>2, <3>3
        <4>2. history[s][n].errors <=>
                \E k \in DOMAIN feed : /\ k > i /\ Failing(feed[k], s)
                  /\ \A j \in DOMAIN feed : (i < j /\ j < k) => ~Ending(feed[j], s)
          BY <2>1, <4>1 DEF ErrorsOfNew
        <4>3. ASSUME NEW k \in DOMAIN feed, k > i, Failing(feed[k], s),
                     \A j \in DOMAIN feed : (i < j /\ j < k) => ~Ending(feed[j], s)
              PROVE  /\ k \in DOMAIN feed' /\ Failing(feed'[k], s)
                     /\ \A j \in DOMAIN feed' : (i < j /\ j < k) => ~Ending(feed'[j], s)
          BY <1>7, <3>3, <4>3
        <4>4. ASSUME NEW k \in DOMAIN feed', k > i, Failing(feed'[k], s),
                     \A j \in DOMAIN feed' : (i < j /\ j < k) => ~Ending(feed'[j], s)
              PROVE  /\ k \in DOMAIN feed /\ Failing(feed[k], s)
                     /\ \A j \in DOMAIN feed : (i < j /\ j < k) => ~Ending(feed[j], s)
          BY <1>7, <3>3, <4>4
        <4> QED
          BY <4>2, <4>3, <4>4
      <3> QED
        BY <3>4, <3>5, <3>6, <3>7
    <2> QED
      BY <2>3, <2>4
  <1>9. linked => SeenOf(s)'
    BY <1>1, <1>8 DEF SeenOf
  <1> QED
    BY <1>3, <1>9, LastTurnSafe

(* The end of the last turn is its last event.                              *)
LEMMA EndsSafe ==
  ASSUME NoticeInv, NEW s \in NoticeSessions, Notice!HostEnds(s)
  PROVE  NoticeInv'
  <1> DEFINE N == Notice!Number(s)
             e == [type |-> "status", session |-> s, running |-> FALSE, number |-> N]
             r == [history[s][N] EXCEPT !.running = FALSE]
  <1> USE DEF Status, Starting, Ending, Failing, Removing
  <1>1. /\ N \in Nat /\ DOMAIN history[s] = 1..N /\ N >= 1 /\ history[s][N].running
        /\ Notice!Runs(s) /\ Notice!Sends(e) /\ history[s][N] \in HostTurn /\ N \in 1..N
    BY HistoryOf DEF NoticeInv, Notice!HostEnds
  <1>2. history' = [history EXCEPT ![s] = [history[s] EXCEPT ![N] = r]]
    BY <1>1 DEF Notice!HostEnds, NoticeInv, NoticeTypeOK
  <1>3. /\ r \in HostTurn /\ ~r.running /\ r.errors = history[s][N].errors
        /\ r.stopped = history[s][N].stopped /\ r.restored = history[s][N].restored
        /\ r.cut = history[s][N].cut
    BY <1>1 DEF HostTurn
  <1>4. e \in NoticeEvent
    BY <1>1 DEF NoticeEvent
  <1>7. e.type = "status" /\ e.session = s /\ ~e.running /\ e.number = N
    OBVIOUS
  <1> HIDE DEF r, N, e
  <1>5. /\ history' \in [NoticeSessions -> Seq(HostTurn)]
        /\ \A t \in NoticeSessions \ {s} : history'[t] = history[t]
        /\ N' = N /\ DOMAIN history'[s] = 1..N
        /\ \A m \in 1..N : m # N => history'[s][m] = history[s][m]
        /\ history'[s][N] = r
    BY <1>1, <1>2, <1>3, TurnChanges DEF NoticeInv, N
  <1>6. HostStep(s, e)
    BY <1>1, <1>4, <1>5, <1>7 DEF HostStep, Notice!HostEnds
  <1>8. OfLastTurn(s, e)
    BY <1>1, <1>3, <1>5, <1>6, <1>7 DEF OfLastTurn, N
  <1>9. (linked => After(e, Len(feed) + 1)) /\ HostKeeps(s)
    BY <1>6, NoticeHostSends
  <1>10. turns' = turns /\ summaries' = summaries /\ stops' = stops /\ notices' = notices /\ SessionInv(s)
    BY <1>9 DEF HostKeeps
  <1>11. ASSUME linked, NEW n \in 1..N, ~history'[s][n].cut
        PROVE  Reaches(s, n)' /\ ErrorsOfTracked(s, n)' /\ ErrorsOfNew(s, n)' /\ MarksOf(s, n)'
    <2>1. /\ history'[s][n].running => history[s][n].running
          /\ history'[s][n].errors = history[s][n].errors
          /\ history'[s][n].restored = history[s][n].restored
          /\ history'[s][n].stopped = history[s][n].stopped
          /\ history'[s][n].cut = history[s][n].cut
      BY <1>1, <1>3, <1>5
    <2>2. Reaches(s, n) /\ ErrorsOfTracked(s, n) /\ ErrorsOfNew(s, n) /\ MarksOf(s, n)
      BY <1>1, <1>10, <1>11, <2>1 DEF SessionInv, SeenOf
    <2>3. Notice!Marked(s, n)' <=> Notice!Marked(s, n)
      BY <1>10, <2>1, SameMarks
    <2>4. ~Failing(e, s) /\ ~Starting(e, s, n) /\ After(e, Len(feed) + 1)
      BY <1>7, <1>9, <1>11
    <2> QED
      BY <1>10, <2>1, <2>2, <2>3, <2>4, QuietEvent
  <1>12. linked => SeenOf(s)'
    BY <1>5, <1>11 DEF SeenOf
  <1> QED
    BY <1>8, <1>12, LastTurnSafe

(* An error reaches the turn that runs, and no earlier one: the end of that *)
(* is still before it.                                                      *)
LEMMA ErrsSafe ==
  ASSUME NoticeInv, NEW s \in NoticeSessions, Notice!HostErrs(s)
  PROVE  NoticeInv'
  <1> DEFINE N == Notice!Number(s)
             e == [type |-> "error", session |-> s]
             r == [history[s][N] EXCEPT !.errors = TRUE]
             L == Len(feed) + 1
  <1> USE DEF Status, Starting, Ending, Failing, Removing
  <1>1. /\ N \in Nat /\ DOMAIN history[s] = 1..N /\ N >= 1 /\ history[s][N].running
        /\ Notice!Runs(s) /\ Notice!Sends(e) /\ history[s][N] \in HostTurn /\ N \in 1..N
    BY HistoryOf DEF NoticeInv, Notice!HostErrs
  <1>2. history' = [history EXCEPT ![s] = [history[s] EXCEPT ![N] = r]]
    BY <1>1 DEF Notice!HostErrs, NoticeInv, NoticeTypeOK
  <1>3. /\ r \in HostTurn /\ r.running /\ r.errors
        /\ r.stopped = history[s][N].stopped /\ r.restored = history[s][N].restored
        /\ r.cut = history[s][N].cut
    BY <1>1 DEF HostTurn
  <1>4. e \in NoticeEvent
    BY <1>1 DEF NoticeEvent
  <1>7. e.type = "error" /\ e.session = s
    OBVIOUS
  <1> HIDE DEF r, N, e
  <1>5. /\ history' \in [NoticeSessions -> Seq(HostTurn)]
        /\ \A t \in NoticeSessions \ {s} : history'[t] = history[t]
        /\ N' = N /\ DOMAIN history'[s] = 1..N
        /\ \A m \in 1..N : m # N => history'[s][m] = history[s][m]
        /\ history'[s][N] = r
    BY <1>1, <1>2, <1>3, TurnChanges DEF NoticeInv, N
  <1>6. HostStep(s, e)
    BY <1>1, <1>4, <1>5, <1>7 DEF HostStep, Notice!HostErrs
  <1>8. OfLastTurn(s, e)
    BY <1>1, <1>3, <1>5, <1>6, <1>7 DEF OfLastTurn, N
  <1>9. (linked => After(e, L)) /\ HostKeeps(s)
    BY <1>6, NoticeHostSends
  <1>10. turns' = turns /\ summaries' = summaries /\ stops' = stops /\ notices' = notices /\ SessionInv(s)
    BY <1>9 DEF HostKeeps
  <1> HIDE DEF L
  <1>11. /\ \A i \in DOMAIN feed : Status(feed[i], s) =>
              /\ feed[i].number \in Nat /\ feed[i].number <= N
              /\ ~feed[i].running => feed[i].number < N
    BY <1>1, <1>9, StatusWhileRuns DEF N
  <1>12. ASSUME linked, NEW n \in 1..N, ~history'[s][n].cut
        PROVE  Reaches(s, n)' /\ ErrorsOfTracked(s, n)' /\ ErrorsOfNew(s, n)' /\ MarksOf(s, n)'
    <2>1. /\ history'[s][n].running <=> history[s][n].running
          /\ n # N => history'[s][n].errors = history[s][n].errors
          /\ n = N => history'[s][n].errors
          /\ history'[s][n].restored = history[s][n].restored
          /\ history'[s][n].stopped = history[s][n].stopped
          /\ history'[s][n].cut = history[s][n].cut
      BY <1>1, <1>3, <1>5
    <2>2. Reaches(s, n) /\ ErrorsOfTracked(s, n) /\ ErrorsOfNew(s, n) /\ MarksOf(s, n)
      BY <1>1, <1>10, <1>12, <2>1 DEF SessionInv, SeenOf
    <2>3. Notice!Marked(s, n)' <=> Notice!Marked(s, n)
      BY <1>10, <2>1, SameMarks
    <2>4. /\ L \in DOMAIN feed' /\ feed'[L] = e
          /\ \A i \in DOMAIN feed : i \in DOMAIN feed' /\ feed'[i] = feed[i] /\ i \in Nat /\ i < L
          /\ \A i \in DOMAIN feed' : i \in Nat /\ (i \in DOMAIN feed \/ i = L)
          /\ L \in Nat
      BY <1>9, <1>12 DEF After
    <2>5. n # N => ~history[s][n].running
      BY <1>1, <1>10 DEF SessionInv, TurnsOf, N
    <2>6. Reaches(s, n)'
      BY <1>7, <1>10, <2>1, <2>2, <2>3, <2>4 DEF Reaches, Notice!Noticed
    <2>7. MarksOf(s, n)'
      BY <1>7, <1>10, <2>1, <2>2, <2>3, <2>4 DEF MarksOf
    <2>8. ErrorsOfTracked(s, n)'
      <3> SUFFICES ASSUME turns[s].number = n
                   PROVE  history'[s][n].errors <=>
                            \/ turns[s].failed
                            \/ \E i \in DOMAIN feed' : Failing(feed'[i], s)
                               /\ \A j \in DOMAIN feed' : j < i => ~Ending(feed'[j], s)
        BY <1>10 DEF ErrorsOfTracked
      <3>1. turns[s] # Notice!NoTurn
        BY <1>1 DEF Notice!NoTurn
      <3>2. /\ history[s][n].running \/ \E i \in DOMAIN feed : Ending(feed[i], s) /\ feed[i].number = n
            /\ \A i \in DOMAIN feed : Status(feed[i], s) => feed[i].number >= n
        BY <1>10, <3>1 DEF SessionInv, TrackedOf
      <3>3. CASE n = N
        <4>1. \A j \in DOMAIN feed' : j < L => ~Ending(feed'[j], s)
          BY <1>1, <1>11, <2>4, <3>2, <3>3
        <4> QED
          BY <1>7, <2>1, <2>4, <3>3, <4>1
      <3>4. CASE n # N
        <4>1. PICK p \in DOMAIN feed : Ending(feed[p], s)
          BY <2>5, <3>2, <3>4
        <4>2. p \in DOMAIN feed' /\ Ending(feed'[p], s) /\ p < L
          BY <2>4, <4>1
        <4>3. (\E i \in DOMAIN feed' : Failing(feed'[i], s) /\ \A j \in DOMAIN feed' : j < i
              => ~Ending(feed'[j], s))
              <=> (\E i \in DOMAIN feed : Failing(feed[i], s) /\ \A j \in DOMAIN feed : j < i
                => ~Ending(feed[j], s))
          BY <1>7, <2>4, <4>2
        <4> QED
          BY <2>1, <2>2, <3>4, <4>3 DEF ErrorsOfTracked
      <3> QED
        BY <3>3, <3>4
    <2>9. ErrorsOfNew(s, n)'
      <3> SUFFICES ASSUME turns[s].number # n, NEW i \in DOMAIN feed', Starting(feed'[i], s, n),
                          \A j \in DOMAIN feed' : j < i => ~Starting(feed'[j], s, n)
                   PROVE  history'[s][n].errors <=>
                            \E k \in DOMAIN feed' : /\ k > i /\ Failing(feed'[k], s)
                              /\ \A j \in DOMAIN feed' : (i < j /\ j < k) => ~Ending(feed'[j], s)
        BY <1>10 DEF ErrorsOfNew
      <3>1. i \in DOMAIN feed /\ Starting(feed[i], s, n) /\ \A j \in DOMAIN feed : j < i
            => ~Starting(feed[j], s, n)
        BY <1>7, <2>4
      <3>2. history[s][n].errors <=>
              \E k \in DOMAIN feed : /\ k > i /\ Failing(feed[k], s)
                /\ \A j \in DOMAIN feed : (i < j /\ j < k) => ~Ending(feed[j], s)
        BY <2>2, <3>1 DEF ErrorsOfNew
      <3>3. \A j \in DOMAIN feed : (i < j /\ Ending(feed[j], s)) => feed[j].number >= n
        BY <1>10, <3>1 DEF SessionInv, EventsOf
      <3>4. CASE n = N
        <4>1. \A j \in DOMAIN feed' : (i < j /\ j < L) => ~Ending(feed'[j], s)
          <5> SUFFICES ASSUME NEW j \in DOMAIN feed', i < j, j < L, Ending(feed'[j], s) PROVE FALSE
            OBVIOUS
          <5>1. j \in DOMAIN feed /\ feed[j] = feed'[j]
            BY <2>4
          <5> QED
            BY <1>1, <1>11, <3>3, <3>4, <5>1
        <4>2. L > i
          BY <2>4, <3>1
        <4> QED
          BY <1>7, <2>1, <2>4, <3>4, <4>1, <4>2
      <3>5. CASE n # N
        <4>1. PICK p \in DOMAIN feed : Ending(feed[p], s) /\ feed[p].number = n
          BY <1>10, <2>5, <3>1, <3>5 DEF SessionInv, EventsOf
        <4>2. p > i
          <5>1. ~(p < i)
            BY <1>1, <1>10, <3>1, <4>1 DEF SessionInv, EventsOf
          <5>2. p # i
            BY <3>1, <4>1
          <5> QED
            BY <2>4, <3>1, <5>1, <5>2
        <4>3. p \in DOMAIN feed' /\ Ending(feed'[p], s) /\ p < L
          BY <2>4, <4>1
        <4>4. ASSUME NEW k \in DOMAIN feed', k > i, Failing(feed'[k], s),
                     \A j \in DOMAIN feed' : (i < j /\ j < k) => ~Ending(feed'[j], s)
              PROVE  /\ k \in DOMAIN feed /\ Failing(feed[k], s)
                     /\ \A j \in DOMAIN feed : (i < j /\ j < k) => ~Ending(feed[j], s)
          BY <2>4, <4>2, <4>3, <4>4
        <4>5. ASSUME NEW k \in DOMAIN feed, k > i, Failing(feed[k], s),
                     \A j \in DOMAIN feed : (i < j /\ j < k) => ~Ending(feed[j], s)
              PROVE  /\ k \in DOMAIN feed' /\ Failing(feed'[k], s)
                     /\ \A j \in DOMAIN feed' : (i < j /\ j < k) => ~Ending(feed'[j], s)
          BY <2>4, <4>5
        <4> QED
          BY <2>1, <3>2, <3>5, <4>4, <4>5
      <3> QED
        BY <3>4, <3>5
    <2> QED
      BY <2>6, <2>7, <2>8, <2>9
  <1>13. linked => SeenOf(s)'
    BY <1>5, <1>12 DEF SeenOf
  <1> QED
    BY <1>8, <1>13, LastTurnSafe

(* A session that is removed has had its last turn.                         *)
LEMMA RemovesSafe ==
  ASSUME NoticeInv, NEW s \in NoticeSessions, Notice!HostRemoves(s)
  PROVE  NoticeInv'
  <1> DEFINE e == [type |-> "removed", session |-> s]
             L == Len(feed) + 1
  <1> USE DEF Status, Starting, Ending, Failing, Removing
  <1>1. Notice!Sends(e) /\ ~Notice!Runs(s) /\ Notice!Number(s) = MaxNoticedTurns
        /\ history' = history /\ s \in summaries
        /\ \A i \in DOMAIN feed : feed[i].type # "removed"
    BY DEF Notice!HostRemoves
  <1>2. e \in NoticeEvent /\ e.type = "removed" /\ e.session = s
    BY DEF NoticeEvent
  <1> HIDE DEF e
  <1>3. HostStep(s, e)
    BY <1>1, <1>2 DEF HostStep, Notice!HostRemoves, NoticeInv, NoticeTypeOK
  <1>4. /\ linked => After(e, L)
        /\ ~linked => feed' = feed
        /\ HostKeeps(s)
    BY <1>3, NoticeHostSends
  <1> HIDE DEF L
  <1>5. /\ turns' = turns /\ summaries' = summaries /\ linked' = linked /\ stops' = stops
           /\ notices' = notices
        /\ SessionInv(s) /\ DOMAIN history[s] = 1..Notice!Number(s) /\ Notice!Number(s) \in Nat
    BY <1>4 DEF HostKeeps
  <1>6. /\ Notice!Number(s)' = Notice!Number(s) /\ (Notice!Runs(s)' <=> Notice!Runs(s))
        /\ \A n : Notice!Marked(s, n)' <=> Notice!Marked(s, n)
    BY <1>1, <1>5 DEF Notice!Number, Notice!Runs, Notice!Marked
  <1>7. /\ \A i \in DOMAIN feed : Status(feed[i], s) =>
             \E j \in DOMAIN feed' : feed'[j] = feed[i]
        /\ \A i \in DOMAIN feed' : Status(feed'[i], s) => i \in DOMAIN feed /\ feed[i] = feed'[i]
        /\ \A i \in DOMAIN feed : i \in DOMAIN feed' /\ feed'[i] = feed[i]
    BY <1>2, <1>4 DEF After
  <1>8. TurnsOf(s)'
    BY <1>1, <1>5, <1>6 DEF SessionInv, TurnsOf
  <1>9. EventsOf(s)'
    BY <1>1, <1>5, <1>6, <1>7 DEF SessionInv, EventsOf
  <1>10. TrackedOf(s)'
    BY <1>1, <1>5, <1>6, <1>7 DEF SessionInv, TrackedOf
  <1>11. RemovalOf(s)'
    BY <1>1, <1>2, <1>4, <1>5, <1>6 DEF RemovalOf, After
  <1>12. ToldOf(s)'
    BY <1>1, <1>5, <1>6, <1>7 DEF SessionInv, ToldOf, ToldAs
  <1>13. SeenOf(s)'
    <2> SUFFICES ASSUME NEW n \in DOMAIN history[s], ~history[s][n].cut
                 PROVE  Reaches(s, n)' /\ ErrorsOfTracked(s, n)' /\ ErrorsOfNew(s, n)' /\ MarksOf(s, n)'
      BY <1>1 DEF SeenOf
    <2>1. Reaches(s, n) /\ ErrorsOfTracked(s, n) /\ ErrorsOfNew(s, n) /\ MarksOf(s, n)
      BY <1>5 DEF SessionInv, SeenOf
    <2>2. CASE linked
      BY <1>1, <1>2, <1>4, <1>5, <1>6, <2>1, <2>2, QuietEvent
    <2>3. CASE ~linked
      BY <1>1, <1>4, <1>5, <1>6, <2>1, <2>3 DEF Reaches, ErrorsOfTracked, ErrorsOfNew, MarksOf,
             Notice!Noticed
    <2> QED
      BY <2>2, <2>3
  <1> QED
    BY <1>3, <1>8, <1>9, <1>10, <1>11, <1>12, <1>13, HostElsewhere DEF SessionInv

-----------------------------------------------------------------------------
(* The tracker takes the first event, e, which is one of session s.         *)
Takes(s, e) ==
  /\ 1 \in DOMAIN feed /\ feed[1] = e /\ e.session = s /\ s \in NoticeSessions
  /\ \A i \in DOMAIN feed' : i \in Nat /\ i + 1 \in DOMAIN feed /\ feed'[i] = feed[i + 1] /\ 1 < i + 1
  /\ \A i \in DOMAIN feed : i \in Nat /\ (i = 1
     \/ (1 < i /\ i - 1 \in DOMAIN feed' /\ feed'[i - 1] = feed[i]))
  /\ linked /\ linked' = linked /\ stops' = stops /\ cancels' = cancels /\ eventLosses' = eventLosses
  /\ history' = history
  /\ Notice!Number(s)' = Notice!Number(s) /\ (Notice!Runs(s)' <=> Notice!Runs(s))
     /\ \A n : Notice!Marked(s, n)' <=> Notice!Marked(s, n)
  /\ feed' \in Seq(NoticeEvent) /\ NoticeTypeOK /\ SessionInv(s)
  /\ Notice!Number(s) \in Nat /\ DOMAIN history[s] = 1..Notice!Number(s)
  /\ \A n \in 1..Notice!Number(s) : history[s][n] \in HostTurn
  /\ s \in summaries

(* Receive takes the first event of the wire, and leaves the host alone.    *)
LEMMA FirstEvent ==
  ASSUME NoticeInv, Notice!Receive, NEW e, e = Head(feed), NEW s, s = e.session
  PROVE  e \in NoticeEvent /\ s \in NoticeSessions /\ Takes(s, e)
  <1>1. /\ feed # <<>> /\ feed' = Tail(feed) /\ feed \in Seq(NoticeEvent) /\ linked /\ linked' = linked
        /\ stops' = stops /\ cancels' = cancels /\ eventLosses' = eventLosses /\ history' = history
    BY DEF Notice!Receive, NoticeInv, NoticeTypeOK, Notice!callVars
  <1>2. Shrinks /\ feed' \in Seq(NoticeEvent)
    BY <1>1, WireShrinks
  <1>3. /\ 1 \in DOMAIN feed /\ feed[1] = e
        /\ \A i \in DOMAIN feed' : i \in Nat /\ i + 1 \in DOMAIN feed /\ feed'[i] = feed[i + 1]
           /\ 1 < i + 1
        /\ \A i \in DOMAIN feed : i \in Nat /\ (i = 1
           \/ (1 < i /\ i - 1 \in DOMAIN feed' /\ feed'[i - 1] = feed[i]))
    <2>1. ASSUME NEW i \in DOMAIN feed, i # 1
          PROVE  1 < i /\ i - 1 \in DOMAIN feed' /\ feed'[i - 1] = feed[i]
      <3>1. i - 1 \in 1..(Len(feed) - 1) /\ (i - 1) + 1 = i /\ 1 < i
        BY <1>2, <2>1 DEF Shrinks
      <3>2. feed'[i - 1] = feed[(i - 1) + 1]
        BY <1>2, <3>1 DEF Shrinks
      <3> QED
        BY <1>2, <3>1, <3>2 DEF Shrinks
    <2>2. \A i \in DOMAIN feed' : i \in Nat /\ i + 1 \in DOMAIN feed /\ feed'[i] = feed[i + 1]
          /\ 1 < i + 1
      BY <1>2 DEF Shrinks
    <2> QED
      BY <1>2, <2>1, <2>2 DEF Shrinks
  <1>4. e \in NoticeEvent /\ s \in NoticeSessions
    <2>1. feed[1] \in NoticeEvent
      BY <1>1, <1>2, ElementOfSeq DEF Shrinks
    <2> QED
      BY <1>3, <2>1 DEF NoticeEvent
  <1>5. NoticeTypeOK /\ SessionInv(s) /\ s \in summaries
    <2>1. NoticeTypeOK /\ SessionInv(s)
      BY <1>4 DEF NoticeInv
    <2>2. s \notin summaries => \A i \in DOMAIN feed : feed[i].session # s
      BY <2>1 DEF SessionInv, RemovalOf
    <2> QED
      BY <1>3, <2>1, <2>2
  <1>6. /\ Notice!Number(s) \in Nat /\ DOMAIN history[s] = 1..Notice!Number(s)
        /\ \A n \in 1..Notice!Number(s) : history[s][n] \in HostTurn
    BY <1>4, <1>5, HistoryOf
  <1>7. Notice!Number(s)' = Notice!Number(s) /\ (Notice!Runs(s)' <=> Notice!Runs(s))
        /\ \A n : Notice!Marked(s, n)' <=> Notice!Marked(s, n)
    BY <1>1 DEF Notice!Number, Notice!Runs, Notice!Marked
  <1> QED
    BY <1>1, <1>2, <1>3, <1>4, <1>5, <1>6, <1>7 DEF Takes

(* What a step of the tracker for session s leaves alone.                   *)
TracksOnly(s) ==
  /\ turns' \in [NoticeSessions -> Tracked] /\ \A t \in NoticeSessions \ {s} : turns'[t] = turns[t]
  /\ summaries' \subseteq summaries /\ \A t \in NoticeSessions \ {s} : t \in summaries'
     <=> t \in summaries
  /\ notices' \in Seq([session : NoticeSessions, number : Nat, failed : BOOLEAN])
  /\ \A i \in DOMAIN notices : i \in DOMAIN notices' /\ notices'[i] = notices[i]
  /\ \A i \in DOMAIN notices' : notices'[i].session # s => i \in DOMAIN notices

(* It touches no other session than that of the event.                      *)
LEMMA TakesElsewhere ==
  ASSUME NoticeInv, NEW s, NEW e, Takes(s, e), TracksOnly(s), SessionInv(s)'
  PROVE  NoticeInv'
  <1>1. NoticeTypeOK'
    BY DEF Takes, TracksOnly, NoticeTypeOK
  <1>2. ASSUME NEW t \in NoticeSessions \ {s} PROVE SessionInv(t)'
    <2>1. SameEvents(t, 1)
      BY <1>2 DEF SameEvents, Takes
    <2>2. SameTurns(t)
      BY <1>2 DEF SameTurns, Takes, TracksOnly, Notice!Marked
    <2>3. SessionInv(t) /\ NoticeTypeOK /\ t \in NoticeSessions /\ 1 \in {0, 1}
          /\ feed' \in Seq(NoticeEvent)
      BY <1>2 DEF NoticeInv, Takes
    <2> QED
      BY <2>1, <2>2, <2>3, Elsewhere
  <1>3. linked'
    BY DEF Takes
  <1> QED
    BY <1>1, <1>2, <1>3 DEF NoticeInv

(* The events that are left keep their order, and the end of each turn.     *)
LEMMA TakesKeepsEvents ==
  ASSUME NEW s, NEW e, Takes(s, e)
  PROVE  TurnsOf(s)' /\ EventsOf(s)'
  <1> USE DEF Status, Starting, Ending, Failing, Removing
  <1>1. TurnsOf(s)'
    BY DEF Takes, SessionInv, TurnsOf
  <1>2. EventsOf(s)
    BY DEF Takes, SessionInv
  <1>3. ASSUME NEW i \in DOMAIN feed', Status(feed'[i], s)
        PROVE  /\ feed'[i].number \in 1..Notice!Number(s)
               /\ ~feed'[i].running => ~history[s][feed'[i].number].running
               /\ feed'[i].running => \/ history[s][feed'[i].number].running
                    \/ \E j \in DOMAIN feed' : Ending(feed'[j], s) /\ feed'[j].number = feed'[i].number
    <2>1. i + 1 \in DOMAIN feed /\ feed[i + 1] = feed'[i] /\ 1 < i + 1
      BY DEF Takes
    <2>2. /\ feed'[i].number \in 1..Notice!Number(s)
          /\ ~feed'[i].running => ~history[s][feed'[i].number].running
      BY <1>2, <1>3, <2>1 DEF EventsOf
    <2>3. ASSUME feed'[i].running, ~history[s][feed'[i].number].running
          PROVE  \E j \in DOMAIN feed' : Ending(feed'[j], s) /\ feed'[j].number = feed'[i].number
      <3>1. PICK j \in DOMAIN feed : Ending(feed[j], s) /\ feed[j].number = feed'[i].number
        BY <1>2, <1>3, <2>1, <2>3 DEF EventsOf
      <3>2. j # 1
        <4> SUFFICES ASSUME j = 1 PROVE FALSE
          OBVIOUS
        <4>1. feed[j].number < feed[i + 1].number
          BY <1>2, <1>3, <2>1, <3>1 DEF EventsOf
        <4> QED
          BY <2>1, <2>2, <3>1, <4>1 DEF Takes
      <3>3. j - 1 \in DOMAIN feed' /\ feed'[j - 1] = feed[j]
        BY <3>2 DEF Takes
      <3> QED
        BY <3>1, <3>3
    <2> QED
      BY <2>2, <2>3
  <1>4. ASSUME NEW i \in DOMAIN feed', NEW j \in DOMAIN feed', i < j,
               Status(feed'[i], s), Status(feed'[j], s)
        PROVE  /\ feed'[i].number <= feed'[j].number
               /\ ~feed'[i].running => feed'[i].number < feed'[j].number
    <2>1. /\ i + 1 \in DOMAIN feed /\ feed[i + 1] = feed'[i]
          /\ j + 1 \in DOMAIN feed /\ feed[j + 1] = feed'[j] /\ i + 1 < j + 1
      BY <1>4 DEF Takes
    <2> QED
      BY <1>2, <1>4, <2>1 DEF EventsOf
  <1>5. Notice!Number(s)' = Notice!Number(s) /\ history' = history
    BY DEF Takes
  <1>6. EventsOf(s)'
    BY <1>3, <1>4, <1>5 DEF EventsOf
  <1> QED
    BY <1>1, <1>6

(* NoticeSessions removed, when the first event does not remove this one.         *)
LEMMA TakesKeepsRemoval ==
  ASSUME NEW s, NEW e, Takes(s, e), s \in summaries'
  PROVE  RemovalOf(s)'
  <1> USE DEF Status, Starting, Ending, Failing, Removing
  <1>1. RemovalOf(s)
    BY DEF Takes, SessionInv
  <1>2. ASSUME NEW i \in DOMAIN feed', Removing(feed'[i], s)
        PROVE  /\ ~Notice!Runs(s) /\ Notice!Number(s) = MaxNoticedTurns
               /\ \A j \in DOMAIN feed' : j > i => feed'[j].session # s
    <2>1. i + 1 \in DOMAIN feed /\ feed[i + 1] = feed'[i] /\ i \in Nat
      BY DEF Takes
    <2>2. ASSUME NEW j \in DOMAIN feed', j > i PROVE feed'[j].session # s
      <3>1. j + 1 \in DOMAIN feed /\ feed[j + 1] = feed'[j] /\ j + 1 > i + 1
        BY <2>1, <2>2 DEF Takes
      <3> QED
        BY <1>1, <1>2, <2>1, <3>1 DEF RemovalOf
    <2> QED
      BY <1>1, <1>2, <2>1, <2>2 DEF RemovalOf
  <1>3. Notice!Number(s)' = Notice!Number(s) /\ (Notice!Runs(s)' <=> Notice!Runs(s))
    BY DEF Takes
  <1> QED
    BY <1>2, <1>3 DEF RemovalOf

(* An error comes before the next end.                                      *)
ErrorsAhead(s) ==
  \E i \in DOMAIN feed : Failing(feed[i], s) /\ \A j \in DOMAIN feed : j < i => ~Ending(feed[j], s)

(* The first event is an error, an end, or leaves ahead what was.           *)
LEMMA ErrorsAheadMove ==
  ASSUME NEW s, NEW e, Takes(s, e)
  PROVE  /\ ErrorsAhead(s)' <=> \E k \in DOMAIN feed : /\ k > 1 /\ Failing(feed[k], s)
              /\ \A j \in DOMAIN feed : (1 < j /\ j < k) => ~Ending(feed[j], s)
         /\ ErrorsAhead(s) <=> Failing(e, s) \/ (~Ending(e, s) /\ ErrorsAhead(s)')
  <1> DEFINE Behind(k) == /\ k > 1 /\ Failing(feed[k], s)
                          /\ \A j \in DOMAIN feed : (1 < j /\ j < k) => ~Ending(feed[j], s)
  <1>1. ASSUME NEW k \in DOMAIN feed, Behind(k)
        PROVE  ErrorsAhead(s)'
    <2>1. k \in Nat /\ k - 1 \in DOMAIN feed' /\ feed'[k - 1] = feed[k]
      BY <1>1 DEF Takes
    <2>2. ASSUME NEW j \in DOMAIN feed', j < k - 1 PROVE ~Ending(feed'[j], s)
      <3>1. j \in Nat /\ j + 1 \in DOMAIN feed /\ feed[j + 1] = feed'[j] /\ 1 < j + 1
        BY DEF Takes
      <3>2. j + 1 < k
        BY <2>1, <2>2, <3>1
      <3> QED
        BY <1>1, <3>1, <3>2
    <2> QED
      BY <1>1, <2>1, <2>2 DEF ErrorsAhead
  <1>2. ASSUME NEW k \in DOMAIN feed', Failing(feed'[k], s),
               \A j \in DOMAIN feed' : j < k => ~Ending(feed'[j], s)
        PROVE  k + 1 \in DOMAIN feed /\ Behind(k + 1)
    <2>1. k \in Nat /\ k + 1 \in DOMAIN feed /\ feed[k + 1] = feed'[k] /\ 1 < k + 1
      BY DEF Takes
    <2>2. ASSUME NEW j \in DOMAIN feed, 1 < j, j < k + 1 PROVE ~Ending(feed[j], s)
      <3>1. j \in Nat /\ j - 1 \in DOMAIN feed' /\ feed'[j - 1] = feed[j]
        BY <2>2 DEF Takes
      <3>2. j - 1 < k
        BY <2>1, <2>2, <3>1
      <3> QED
        BY <1>2, <3>1, <3>2
    <2> QED
      BY <1>2, <2>1, <2>2
  <1>3. ErrorsAhead(s)' <=> \E k \in DOMAIN feed : Behind(k)
    BY <1>1, <1>2 DEF ErrorsAhead
  <1>4. /\ 1 \in DOMAIN feed /\ feed[1] = e
        /\ \A i \in DOMAIN feed : i \in Nat /\ (i = 1 \/ 1 < i)
    BY DEF Takes
  <1>5. ErrorsAhead(s) <=> Failing(e, s) \/ (~Ending(e, s) /\ \E k \in DOMAIN feed : Behind(k))
    <2>1. Failing(e, s) => ErrorsAhead(s)
      BY <1>4 DEF ErrorsAhead
    <2>2. ASSUME ~Ending(e, s), NEW k \in DOMAIN feed, Behind(k) PROVE ErrorsAhead(s)
      BY <1>4, <2>2 DEF ErrorsAhead
    <2>3. ASSUME NEW k \in DOMAIN feed, Failing(feed[k], s), \A j \in DOMAIN feed : j < k
                 => ~Ending(feed[j], s)
          PROVE  Failing(e, s) \/ (~Ending(e, s) /\ Behind(k))
      BY <1>4, <2>3
    <2> QED
      BY <2>1, <2>2, <2>3 DEF ErrorsAhead
  <1> QED
    BY <1>3, <1>5

(* A start that is on the wire stays there, unless it is taken.             *)
LEMMA StartsMove ==
  ASSUME NEW s, NEW e, Takes(s, e), NEW n
  PROVE  /\ (\E i \in DOMAIN feed' : Starting(feed'[i], s, n))
            => \E i \in DOMAIN feed : Starting(feed[i], s, n)
         /\ (\E i \in DOMAIN feed : Starting(feed[i], s, n)) =>
              Starting(e, s, n) \/ \E i \in DOMAIN feed' : Starting(feed'[i], s, n)
  BY DEF Takes

(* What a turn that starts later reports.                                   *)
LEMMA ErrorsOfNewMove ==
  ASSUME NEW s, NEW e, Takes(s, e), NEW n, ErrorsOfNew(s, n), turns[s].number # n, ~Starting(e, s, n)
  PROVE  ErrorsOfNew(s, n)'
  <1> SUFFICES ASSUME NEW i \in DOMAIN feed', Starting(feed'[i], s, n),
                      \A j \in DOMAIN feed' : j < i => ~Starting(feed'[j], s, n)
               PROVE  history[s][n].errors <=>
                        \E k \in DOMAIN feed' : /\ k > i /\ Failing(feed'[k], s)
                          /\ \A j \in DOMAIN feed' : (i < j /\ j < k) => ~Ending(feed'[j], s)
    BY DEF ErrorsOfNew, Takes
  <1>1. /\ \A j \in DOMAIN feed' : j \in Nat /\ j + 1 \in DOMAIN feed /\ feed'[j] = feed[j + 1]
           /\ 1 < j + 1
        /\ \A j \in DOMAIN feed : j \in Nat /\ (j = 1
           \/ (1 < j /\ j - 1 \in DOMAIN feed' /\ feed'[j - 1] = feed[j]))
        /\ feed[1] = e
    BY DEF Takes
  <1>2. i \in Nat /\ i + 1 \in DOMAIN feed /\ feed[i + 1] = feed'[i]
    BY <1>1
  <1>3. ASSUME NEW j \in DOMAIN feed, j < i + 1 PROVE ~Starting(feed[j], s, n)
    <2>1. CASE j = 1
      BY <1>1, <2>1
    <2>2. CASE j # 1
      <3>1. j \in Nat /\ j - 1 \in DOMAIN feed' /\ feed'[j - 1] = feed[j] /\ j - 1 < i
        BY <1>1, <1>2, <1>3, <2>2
      <3> QED
        BY <3>1
    <2> QED
      BY <2>1, <2>2
  <1>4. history[s][n].errors <=>
          \E k \in DOMAIN feed : /\ k > i + 1 /\ Failing(feed[k], s)
            /\ \A j \in DOMAIN feed : (i + 1 < j /\ j < k) => ~Ending(feed[j], s)
    BY <1>2, <1>3 DEF ErrorsOfNew
  <1>5. ASSUME NEW k \in DOMAIN feed, k > i + 1, Failing(feed[k], s),
               \A j \in DOMAIN feed : (i + 1 < j /\ j < k) => ~Ending(feed[j], s)
        PROVE  \E m \in DOMAIN feed' : /\ m > i /\ Failing(feed'[m], s)
                 /\ \A j \in DOMAIN feed' : (i < j /\ j < m) => ~Ending(feed'[j], s)
    <2>1. k \in Nat /\ k # 1
      BY <1>1, <1>2, <1>5
    <2>2. k - 1 \in DOMAIN feed' /\ feed'[k - 1] = feed[k] /\ k - 1 > i
      BY <1>1, <1>2, <1>5, <2>1
    <2>3. ASSUME NEW j \in DOMAIN feed', i < j, j < k - 1 PROVE ~Ending(feed'[j], s)
      <3>1. j \in Nat /\ j + 1 \in DOMAIN feed /\ feed[j + 1] = feed'[j]
        BY <1>1
      <3>2. i + 1 < j + 1 /\ j + 1 < k
        BY <1>2, <2>1, <2>3, <3>1
      <3> QED
        BY <1>5, <3>1, <3>2
    <2> QED
      BY <1>5, <2>2, <2>3
  <1>6. ASSUME NEW m \in DOMAIN feed', m > i, Failing(feed'[m], s),
               \A j \in DOMAIN feed' : (i < j /\ j < m) => ~Ending(feed'[j], s)
        PROVE  \E k \in DOMAIN feed : /\ k > i + 1 /\ Failing(feed[k], s)
                 /\ \A j \in DOMAIN feed : (i + 1 < j /\ j < k) => ~Ending(feed[j], s)
    <2>1. m \in Nat /\ m + 1 \in DOMAIN feed /\ feed[m + 1] = feed'[m] /\ m + 1 > i + 1
      BY <1>1, <1>2, <1>6
    <2>2. ASSUME NEW j \in DOMAIN feed, i + 1 < j, j < m + 1 PROVE ~Ending(feed[j], s)
      <3>1. j \in Nat /\ j # 1
        BY <1>1, <1>2, <2>2
      <3>2. j - 1 \in DOMAIN feed' /\ feed'[j - 1] = feed[j] /\ i < j - 1 /\ j - 1 < m
        BY <1>1, <1>2, <2>1, <2>2, <3>1
      <3> QED
        BY <1>6, <3>2
    <2> QED
      BY <1>6, <2>1, <2>2
  <1> QED
    BY <1>4, <1>5, <1>6

(* A turn that starts, or announces itself again.                           *)
LEMMA NoticeTakesStart ==
  ASSUME NoticeInv, NEW s, NEW e, Takes(s, e), e.type = "status", e.running,
         turns' = [turns EXCEPT ![s] = Notice!Starts(@, e.number)],
         summaries' = summaries, notices' = notices
  PROVE  NoticeInv'
  <1> DEFINE m == e.number
             N == Notice!Number(s)
  <1> USE DEF Status, Starting, Ending, Failing, Removing
  <1>1. /\ 1 \in DOMAIN feed /\ feed[1] = e /\ e.session = s /\ s \in NoticeSessions /\ history' = history
        /\ linked /\ linked' = linked /\ N' = N /\ (\A n : Notice!Marked(s, n)' <=> Notice!Marked(s, n))
        /\ NoticeTypeOK /\ SessionInv(s) /\ N \in Nat /\ DOMAIN history[s] = 1..N
        /\ turns \in [NoticeSessions -> Tracked] /\ s \in summaries
        /\ eventLosses \in Nat
    BY DEF Takes, NoticeTypeOK
  <1>2. m \in 1..N /\ m \in Nat
    BY <1>1 DEF SessionInv, EventsOf
  <1>3. turns'[s] = Notice!Starts(turns[s], m) /\ \A t \in NoticeSessions \ {s} : turns'[t] = turns[t]
    BY <1>1
  <1>4. /\ turns[s] = Notice!NoTurn => /\ turns'[s].number = m /\ ~turns'[s].failed
                                          /\ ~turns'[s].cancelled
                               /\ turns'[s] \in Tracked /\ turns[s].number = 0
        /\ turns[s] # Notice!NoTurn => turns'[s] = turns[s]
    <2>1. turns[s] = Notice!NoTurn
          => turns'[s] = [Notice!NoTurn EXCEPT !.number = m, !.since = eventLosses]
      BY <1>3 DEF Notice!Starts
    <2>2. turns[s] # Notice!NoTurn => turns'[s] = turns[s]
      BY <1>3 DEF Notice!Starts
    <2> DEFINE r == [Notice!NoTurn EXCEPT !.number = m, !.since = eventLosses]
    <2>3. r.number = m /\ ~r.failed /\ ~r.cancelled /\ r \in Tracked /\ Notice!NoTurn.number = 0
      BY <1>1, <1>2 DEF Notice!NoTurn, Tracked
    <2> HIDE DEF r
    <2>4. turns[s] = Notice!NoTurn => turns'[s] = r
      BY <2>1 DEF r
    <2> QED
      BY <2>2, <2>3, <2>4
  <1>5. TracksOnly(s)
    <2>1. turns' \in [NoticeSessions -> Tracked]
      <3>1. turns'[s] \in Tracked
        BY <1>1, <1>4
      <3>2. turns' = [turns EXCEPT ![s] = turns'[s]]
        BY <1>1, <1>3
      <3> QED
        BY <1>1, <3>1, <3>2
    <2> QED
      BY <1>1, <1>3, <2>1 DEF TracksOnly, NoticeTypeOK
  <1> HIDE DEF m, N
  <1>6. TurnsOf(s)' /\ EventsOf(s)' /\ RemovalOf(s)'
    BY <1>1, TakesKeepsEvents, TakesKeepsRemoval
  <1>7. ASSUME turns[s] # Notice!NoTurn
        PROVE  /\ turns[s].number \in 1..N
               /\ \A i \in DOMAIN feed : Status(feed[i], s) => feed[i].number >= turns[s].number
               /\ turns[s].number = m
    <2>1. /\ turns[s].number \in 1..N
          /\ \/ history[s][turns[s].number].running
             \/ \E i \in DOMAIN feed : Ending(feed[i], s) /\ feed[i].number = turns[s].number
          /\ \A i \in DOMAIN feed : Status(feed[i], s) => feed[i].number >= turns[s].number
      BY <1>1, <1>7 DEF SessionInv, TrackedOf, N
    <2>2. turns[s].number = m
      <3> SUFFICES ASSUME turns[s].number # m PROVE FALSE
        OBVIOUS
      <3>1. turns[s].number < m /\ turns[s].number < N
        BY <1>1, <1>2, <2>1 DEF m
      <3>2. ~history[s][turns[s].number].running
        BY <1>1, <2>1, <3>1 DEF SessionInv, TurnsOf, N
      <3>3. PICK i \in DOMAIN feed : Ending(feed[i], s) /\ feed[i].number = turns[s].number
        BY <2>1, <3>2
      <3>4. i # 1 /\ 1 < i
        BY <1>1, <3>3 DEF Takes
      <3>5. m <= feed[i].number
        BY <1>1, <3>3, <3>4 DEF SessionInv, EventsOf, m
      <3> QED
        BY <1>2, <2>1, <3>1, <3>3, <3>5
    <2> QED
      BY <2>1, <2>2
  <1>8. turns'[s].number = m
    BY <1>4, <1>7
  <1>9. \A i \in DOMAIN feed : Status(feed[i], s) => feed[i].number >= m
    <2>1. \A i \in DOMAIN feed : i = 1 \/ 1 < i
      BY DEF Takes
    <2>2. \A i \in DOMAIN feed : (1 < i /\ Status(feed[i], s)) => feed[i].number >= m
      BY <1>1, <1>2 DEF SessionInv, EventsOf, m
    <2> QED
      BY <1>1, <1>2, <2>1, <2>2 DEF m
  <1>10. TrackedOf(s)'
    <2>1. history[s][m].running \/ \E i \in DOMAIN feed : Ending(feed[i], s) /\ feed[i].number = m
      BY <1>1 DEF SessionInv, EventsOf, m
    <2>2. history[s][m].running \/ \E i \in DOMAIN feed' : Ending(feed'[i], s) /\ feed'[i].number = m
      <3>1. /\ feed[1] = e
            /\ \A i \in DOMAIN feed : i = 1 \/ (i - 1 \in DOMAIN feed' /\ feed'[i - 1] = feed[i])
        BY DEF Takes
      <3>2. ~Ending(e, s)
        OBVIOUS
      <3> QED
        BY <2>1, <3>1, <3>2
    <2>3. \A i \in DOMAIN feed' : Status(feed'[i], s) => feed'[i].number >= m
      BY <1>9 DEF Takes
    <2> QED
      BY <1>1, <1>2, <1>8, <2>2, <2>3 DEF TrackedOf, N
  <1>11. ToldOf(s)'
    <2> SUFFICES ASSUME NEW n \in Nat, NEW i \in DOMAIN notices,
                        notices[i].session = s, notices[i].number = n
                 PROVE  ToldAs(s, n, i)'
      BY DEF ToldOf
    <2>1. ToldAs(s, n, i)
      BY <1>1 DEF SessionInv, ToldOf
    <2>2. m > n
      BY <1>1, <2>1 DEF ToldAs, m
    <2>3. \A j \in DOMAIN feed' : Status(feed'[j], s) => feed'[j].number > n
      BY <2>1 DEF ToldAs, Takes
    <2> QED
      BY <1>1, <1>8, <2>1, <2>2, <2>3 DEF ToldAs, N
  <1>12. SeenOf(s)'
    <2> SUFFICES ASSUME NEW n \in 1..N, ~history[s][n].cut
                 PROVE  Reaches(s, n)' /\ ErrorsOfTracked(s, n)' /\ ErrorsOfNew(s, n)' /\ MarksOf(s, n)'
      BY <1>1 DEF SeenOf
    <2>1. Reaches(s, n) /\ ErrorsOfTracked(s, n) /\ ErrorsOfNew(s, n) /\ MarksOf(s, n)
      BY <1>1 DEF SessionInv, SeenOf
    <2>2. Starting(e, s, n) <=> n = m
      BY <1>1 DEF m
    <2>3. n # 0
      BY <1>1
    <2>4. turns[s].number = n => turns[s] # Notice!NoTurn /\ n = m /\ turns'[s] = turns[s]
      BY <1>4, <1>7, <2>3
    <2>5. Reaches(s, n)'
      <3>1. (\E i \in DOMAIN feed : Starting(feed[i], s, n)) =>
              n = m \/ \E i \in DOMAIN feed' : Starting(feed'[i], s, n)
        BY <2>2, StartsMove
      <3> QED
        BY <1>1, <1>8, <2>1, <2>4, <3>1 DEF Reaches, Notice!Noticed
    <2>6. ErrorsOfTracked(s, n)'
      <3> SUFFICES ASSUME n = m
                   PROVE  history[s][n].errors <=> turns'[s].failed \/ ErrorsAhead(s)'
        BY <1>1, <1>8 DEF ErrorsOfTracked, ErrorsAhead
      <3>1. CASE turns[s].number = n
        <4>1. history[s][n].errors <=> turns[s].failed \/ ErrorsAhead(s)
          BY <2>1, <3>1 DEF ErrorsOfTracked, ErrorsAhead
        <4>2. ErrorsAhead(s) <=> ErrorsAhead(s)'
          BY <1>1, ErrorsAheadMove
        <4> QED
          BY <2>4, <3>1, <4>1, <4>2
      <3>2. CASE turns[s].number # n
        <4>1. turns[s] = Notice!NoTurn
          BY <1>7, <3>2
        <4>2. \A j \in DOMAIN feed : ~(j < 1)
          BY DEF Takes
        <4>3. history[s][n].errors <=>
                \E k \in DOMAIN feed : /\ k > 1 /\ Failing(feed[k], s)
                  /\ \A j \in DOMAIN feed : (1 < j /\ j < k) => ~Ending(feed[j], s)
          BY <1>1, <2>1, <2>2, <3>2, <4>2 DEF ErrorsOfNew
        <4> QED
          BY <1>4, <4>1, <4>3, ErrorsAheadMove
      <3> QED
        BY <3>1, <3>2
    <2>7. ErrorsOfNew(s, n)'
      <3>1. CASE n = m
        BY <1>8, <3>1 DEF ErrorsOfNew
      <3>2. CASE n # m
        BY <2>1, <2>2, <2>4, <3>2, ErrorsOfNewMove
      <3> QED
        BY <3>1, <3>2
    <2>8. MarksOf(s, n)'
      <3>1. (\E i \in DOMAIN feed' : Starting(feed'[i], s, n))
            => \E i \in DOMAIN feed : Starting(feed[i], s, n)
        BY StartsMove
      <3>2. CASE turns[s].number = n
        BY <1>1, <2>1, <2>4, <3>2 DEF MarksOf
      <3>3. CASE turns[s].number # n
        <4>1. n = m => turns[s] = Notice!NoTurn /\ ~Notice!Marked(s, n)
          BY <1>1, <1>7, <2>1, <2>2, <3>3 DEF MarksOf
        <4> QED
          BY <1>1, <1>4, <1>8, <2>1, <3>1, <3>3, <4>1 DEF MarksOf
      <3> QED
        BY <3>2, <3>3
    <2> QED
      BY <2>5, <2>6, <2>7, <2>8
  <1> QED
    BY <1>1, <1>5, <1>6, <1>10, <1>11, <1>12, TakesElsewhere DEF SessionInv

(* An error belongs to the turn that is tracked.                            *)
LEMMA TakesError ==
  ASSUME NoticeInv, NEW s, NEW e, Takes(s, e), e.type = "error",
         turns' = IF turns[s] = Notice!NoTurn THEN turns ELSE [turns EXCEPT ![s].failed = TRUE],
         summaries' = summaries, notices' = notices
  PROVE  NoticeInv'
  <1> DEFINE N == Notice!Number(s)
  <1> USE DEF Status, Starting, Ending, Failing, Removing
  <1>1. /\ 1 \in DOMAIN feed /\ feed[1] = e /\ e.session = s /\ s \in NoticeSessions /\ history' = history
        /\ linked /\ linked' = linked /\ N' = N /\ (\A n : Notice!Marked(s, n)' <=> Notice!Marked(s, n))
        /\ NoticeTypeOK /\ SessionInv(s) /\ N \in Nat /\ DOMAIN history[s] = 1..N
        /\ turns \in [NoticeSessions -> Tracked] /\ s \in summaries
    BY DEF Takes, NoticeTypeOK
  <1>2. turns[s] \in Tracked
    BY <1>1
  <1>3. /\ \A t \in NoticeSessions \ {s} : turns'[t] = turns[t]
        /\ turns'[s] \in Tracked /\ turns' \in [NoticeSessions -> Tracked]
        /\ turns'[s].number = turns[s].number
        /\ turns'[s].cancelled = turns[s].cancelled
        /\ turns[s] # Notice!NoTurn => turns'[s].failed
        /\ turns[s] = Notice!NoTurn => turns'[s] = turns[s]
    <2>1. CASE turns[s] = Notice!NoTurn
      BY <1>1, <1>2, <2>1
    <2>2. CASE turns[s] # Notice!NoTurn
      <3> DEFINE r == [turns[s] EXCEPT !.failed = TRUE]
      <3>1. r \in Tracked /\ r.number = turns[s].number /\ r.cancelled = turns[s].cancelled /\ r.failed
        BY <1>2 DEF Tracked
      <3>2. turns' = [turns EXCEPT ![s] = r]
        BY <1>1, <2>2
      <3> HIDE DEF r
      <3>3. turns'[s] = r /\ \A t \in NoticeSessions \ {s} : turns'[t] = turns[t]
        BY <1>1, <3>2
      <3> QED
        BY <1>1, <2>2, <3>1, <3>2, <3>3
    <2> QED
      BY <2>1, <2>2
  <1>4. TracksOnly(s)
    BY <1>1, <1>3 DEF TracksOnly, NoticeTypeOK
  <1> HIDE DEF N
  <1>5. TurnsOf(s)' /\ EventsOf(s)' /\ RemovalOf(s)'
    BY <1>1, TakesKeepsEvents, TakesKeepsRemoval
  <1>6. /\ \A i \in DOMAIN feed' : i + 1 \in DOMAIN feed /\ feed[i + 1] = feed'[i]
        /\ \A i \in DOMAIN feed : Status(feed[i], s) => \E j \in DOMAIN feed' : feed'[j] = feed[i]
    BY <1>1 DEF Takes
  <1>7. TrackedOf(s)'
    BY <1>1, <1>3, <1>6 DEF SessionInv, TrackedOf, N
  <1>8. ToldOf(s)'
    <2> SUFFICES ASSUME NEW n \in Nat, NEW i \in DOMAIN notices,
                        notices[i].session = s, notices[i].number = n
                 PROVE  ToldAs(s, n, i)'
      BY DEF ToldOf
    <2>1. ToldAs(s, n, i)
      BY <1>1 DEF SessionInv, ToldOf
    <2>2. \A j \in DOMAIN feed' : Status(feed'[j], s) => feed'[j].number > n
      BY <1>6, <2>1 DEF ToldAs
    <2> QED
      BY <1>1, <1>3, <2>1, <2>2 DEF ToldAs, N
  <1>9. SeenOf(s)'
    <2> SUFFICES ASSUME NEW n \in 1..N, ~history[s][n].cut
                 PROVE  Reaches(s, n)' /\ ErrorsOfTracked(s, n)' /\ ErrorsOfNew(s, n)' /\ MarksOf(s, n)'
      BY <1>1 DEF SeenOf
    <2>1. Reaches(s, n) /\ ErrorsOfTracked(s, n) /\ ErrorsOfNew(s, n) /\ MarksOf(s, n)
      BY <1>1 DEF SessionInv, SeenOf
    <2>2. ~Starting(e, s, n) /\ ~Ending(e, s) /\ Failing(e, s)
      BY <1>1
    <2>3. (\E i \in DOMAIN feed' : Starting(feed'[i], s, n))
          <=> \E i \in DOMAIN feed : Starting(feed[i], s, n)
      BY <2>2, StartsMove
    <2>4. Reaches(s, n)'
      BY <1>1, <1>3, <2>1, <2>3 DEF Reaches, Notice!Noticed
    <2>5. MarksOf(s, n)'
      BY <1>1, <1>3, <2>1, <2>3 DEF MarksOf
    <2>6. ErrorsOfNew(s, n)'
      <3>1. CASE turns[s].number = n
        BY <1>3, <3>1 DEF ErrorsOfNew
      <3> QED
        BY <2>1, <2>2, <3>1, ErrorsOfNewMove
    <2>7. ErrorsOfTracked(s, n)'
      <3> SUFFICES ASSUME turns[s].number = n
                   PROVE  history[s][n].errors <=> turns'[s].failed \/ ErrorsAhead(s)'
        BY <1>1, <1>3 DEF ErrorsOfTracked, ErrorsAhead
      <3>1. turns[s] # Notice!NoTurn
        BY <1>1 DEF Notice!NoTurn
      <3>2. history[s][n].errors <=> turns[s].failed \/ ErrorsAhead(s)
        BY <2>1 DEF ErrorsOfTracked, ErrorsAhead
      <3> QED
        BY <1>3, <2>2, <3>1, <3>2, ErrorsAheadMove
    <2> QED
      BY <2>4, <2>5, <2>6, <2>7
  <1> QED
    BY <1>1, <1>4, <1>5, <1>7, <1>8, <1>9, TakesElsewhere DEF SessionInv

(* A session that is removed has no turn to tell of.                        *)
LEMMA TakesRemoved ==
  ASSUME NoticeInv, NEW s, NEW e, Takes(s, e), e.type = "removed",
         turns' = [turns EXCEPT ![s] = Notice!NoTurn],
         summaries' = summaries \ {s}, notices' = notices
  PROVE  NoticeInv'
  <1> USE DEF Status, Starting, Ending, Failing, Removing
  <1>1. /\ 1 \in DOMAIN feed /\ feed[1] = e /\ e.session = s /\ s \in NoticeSessions /\ history' = history
        /\ Notice!Number(s)' = Notice!Number(s) /\ (Notice!Runs(s)' <=> Notice!Runs(s))
           /\ (\A n : Notice!Marked(s, n)' <=> Notice!Marked(s, n))
        /\ NoticeTypeOK /\ SessionInv(s) /\ Notice!Number(s) \in Nat
           /\ DOMAIN history[s] = 1..Notice!Number(s)
        /\ turns \in [NoticeSessions -> Tracked]
    BY DEF Takes, NoticeTypeOK
  <1>2. /\ turns'[s] = Notice!NoTurn /\ Notice!NoTurn \in Tracked /\ Notice!NoTurn.number = 0
        /\ \A t \in NoticeSessions \ {s} : turns'[t] = turns[t]
        /\ turns' \in [NoticeSessions -> Tracked]
    BY <1>1 DEF Notice!NoTurn, Tracked
  <1>3. TracksOnly(s)
    BY <1>1, <1>2 DEF TracksOnly, NoticeTypeOK
  <1>4. TurnsOf(s)' /\ EventsOf(s)'
    BY TakesKeepsEvents
  <1>5. /\ ~Notice!Runs(s) /\ Notice!Number(s) = MaxNoticedTurns /\ \A j \in DOMAIN feed : j > 1
           => feed[j].session # s
    BY <1>1 DEF SessionInv, RemovalOf
  <1>6. \A i \in DOMAIN feed' : feed'[i].session # s
    <2> SUFFICES ASSUME NEW i \in DOMAIN feed' PROVE feed'[i].session # s
      OBVIOUS
    <2>1. i + 1 \in DOMAIN feed /\ feed'[i] = feed[i + 1] /\ i + 1 > 1
      BY DEF Takes
    <2> QED
      BY <1>5, <2>1
  <1>7. RemovalOf(s)' /\ TrackedOf(s)'
    BY <1>1, <1>2, <1>5, <1>6 DEF RemovalOf, TrackedOf
  <1>8. ToldOf(s)'
    <2> SUFFICES ASSUME NEW n \in Nat, NEW i \in DOMAIN notices,
                        notices[i].session = s, notices[i].number = n
                 PROVE  ToldAs(s, n, i)'
      BY DEF ToldOf
    <2>1. ToldAs(s, n, i)
      BY <1>1 DEF SessionInv, ToldOf
    <2> QED
      BY <1>1, <1>2, <1>6, <2>1 DEF ToldAs
  <1>9. SeenOf(s)'
    BY <1>1, <1>2, <1>6 DEF SeenOf, Reaches, ErrorsOfTracked, ErrorsOfNew, MarksOf
  <1> QED
    BY <1>1, <1>3, <1>4, <1>7, <1>8, <1>9, TakesElsewhere DEF SessionInv

(* The end of a turn: it is told, unless it was cancelled.                  *)
LEMMA TakesEnd ==
  ASSUME NoticeInv, NEW s, NEW e, Takes(s, e), e.type = "status", ~e.running,
         turns' = [turns EXCEPT ![s] = Notice!NoTurn], summaries' = summaries,
         notices' = IF Notice!Due(s)
                    THEN Append(notices,
                      [session |-> s, number |-> turns[s].number, failed |-> turns[s].failed])
                    ELSE notices
  PROVE  NoticeInv'
  <1> DEFINE m == e.number
             N == Notice!Number(s)
             told == [session |-> s, number |-> turns[s].number, failed |-> turns[s].failed]
  <1> USE DEF Status, Starting, Ending, Failing, Removing
  <1>0. PICK L : L = Len(notices) + 1
    OBVIOUS
  <1>1. /\ 1 \in DOMAIN feed /\ feed[1] = e /\ e.session = s /\ s \in NoticeSessions /\ history' = history
        /\ linked /\ linked' = linked /\ N' = N /\ (\A n : Notice!Marked(s, n)' <=> Notice!Marked(s, n))
        /\ NoticeTypeOK /\ SessionInv(s) /\ N \in Nat /\ DOMAIN history[s] = 1..N
        /\ turns \in [NoticeSessions -> Tracked] /\ s \in summaries
        /\ notices \in Seq([session : NoticeSessions, number : Nat, failed : BOOLEAN])
        /\ \A n \in 1..N : history[s][n] \in HostTurn
    BY DEF Takes, NoticeTypeOK
  <1>2. m \in 1..N /\ m \in Nat /\ ~history[s][m].running
    BY <1>1 DEF SessionInv, EventsOf
  <1>3. /\ turns'[s] = Notice!NoTurn /\ Notice!NoTurn \in Tracked /\ Notice!NoTurn.number = 0
        /\ \A t \in NoticeSessions \ {s} : turns'[t] = turns[t]
        /\ turns' \in [NoticeSessions -> Tracked]
        /\ turns[s].number \in Nat /\ turns[s].failed \in BOOLEAN
    BY <1>1 DEF Notice!NoTurn, Tracked
  <1>4. told \in [session : NoticeSessions, number : Nat, failed : BOOLEAN]
        /\ told.session = s /\ told.number = turns[s].number /\ told.failed = turns[s].failed
    BY <1>1, <1>3
  <1>5. Len(notices) \in Nat /\ DOMAIN notices = 1..Len(notices)
    BY <1>1, LenProperties
  <1> HIDE DEF m, N, told
  <1>6. notices' = IF Notice!Due(s) THEN Append(notices, told) ELSE notices
    BY DEF told
  <1>7. ASSUME Notice!Due(s)
        PROVE  /\ notices' \in Seq([session : NoticeSessions, number : Nat, failed : BOOLEAN])
               /\ DOMAIN notices' = 1..L /\ notices'[L] = told
               /\ \A i \in 1..Len(notices) : notices'[i] = notices[i]
    <2> DEFINE S == [session : NoticeSessions, number : Nat, failed : BOOLEAN]
    <2>1. notices \in Seq(S) /\ told \in S
      BY <1>1, <1>4
    <2> HIDE DEF S
    <2>2. /\ Append(notices, told) \in Seq(S)
          /\ Len(Append(notices, told)) = Len(notices) + 1
          /\ \A i \in 1..Len(notices) : Append(notices, told)[i] = notices[i]
          /\ Append(notices, told)[Len(notices) + 1] = told
      BY <2>1, AppendProperties
    <2>3. notices' = Append(notices, told)
      BY <1>6, <1>7
    <2>4. DOMAIN notices' = 1..L
      BY <1>0, <2>2, <2>3, LenProperties
    <2> QED
      BY <1>0, <2>2, <2>3, <2>4 DEF S
  <1>8. /\ notices' \in Seq([session : NoticeSessions, number : Nat, failed : BOOLEAN])
        /\ \A i \in DOMAIN notices : i \in DOMAIN notices' /\ notices'[i] = notices[i]
        /\ \A i \in DOMAIN notices' : i \in DOMAIN notices
           \/ (Notice!Due(s) /\ i = L /\ notices'[i] = told)
        /\ Notice!Due(s) => L \in DOMAIN notices' /\ notices'[L] = told
    <2>1. CASE Notice!Due(s)
      BY <1>0, <1>5, <1>7, <2>1
    <2>2. CASE ~Notice!Due(s)
      BY <1>1, <1>6, <2>2
    <2> QED
      BY <2>1, <2>2
  <1>9. TracksOnly(s)
    BY <1>3, <1>4, <1>8 DEF TracksOnly
  <1>10. TurnsOf(s)' /\ EventsOf(s)' /\ RemovalOf(s)' /\ TrackedOf(s)'
    BY <1>1, <1>3, TakesKeepsEvents, TakesKeepsRemoval DEF TrackedOf
  <1>11. \A i \in DOMAIN feed : Status(feed[i], s) /\ i # 1 => feed[i].number > m
    <2>1. \A i \in DOMAIN feed : i = 1 \/ 1 < i
      BY DEF Takes
    <2>2. \A i \in DOMAIN feed : (1 < i /\ Status(feed[i], s)) => m < feed[i].number
          /\ feed[i].number \in 1..N
      BY <1>1 DEF SessionInv, EventsOf, m, N
    <2> QED
      BY <1>1, <1>2, <2>1, <2>2
  <1>12. \A i \in DOMAIN feed' : Status(feed'[i], s) => feed'[i].number > m
    <2> SUFFICES ASSUME NEW i \in DOMAIN feed', Status(feed'[i], s) PROVE feed'[i].number > m
      OBVIOUS
    <2>1. i + 1 \in DOMAIN feed /\ feed[i + 1] = feed'[i] /\ i + 1 # 1
      BY DEF Takes
    <2> QED
      BY <1>11, <2>1
  <1>13. ASSUME turns[s] # Notice!NoTurn PROVE turns[s].number = m
    <2>1. /\ turns[s].number \in 1..N
          /\ \/ history[s][turns[s].number].running
             \/ \E i \in DOMAIN feed : Ending(feed[i], s) /\ feed[i].number = turns[s].number
          /\ \A i \in DOMAIN feed : Status(feed[i], s) => feed[i].number >= turns[s].number
      BY <1>1, <1>13 DEF SessionInv, TrackedOf, N
    <2> SUFFICES ASSUME turns[s].number # m PROVE FALSE
      OBVIOUS
    <2>2. turns[s].number < m /\ turns[s].number < N
      BY <1>1, <1>2, <2>1 DEF m
    <2>3. ~history[s][turns[s].number].running
      BY <1>1, <2>1, <2>2 DEF SessionInv, TurnsOf, N
    <2>4. PICK i \in DOMAIN feed : Ending(feed[i], s) /\ feed[i].number = turns[s].number
      BY <2>1, <2>3
    <2>5. i # 1
      BY <1>1, <2>2, <2>4, <1>2 DEF m
    <2> QED
      BY <1>2, <1>11, <2>1, <2>2, <2>4, <2>5
  <1>14. \A n \in 1..N : turns[s].number = n => turns[s] # Notice!NoTurn /\ n = m
    BY <1>1, <1>3, <1>13
  <1>15. ASSUME NEW n \in Nat, NEW i \in DOMAIN notices, notices[i].session = s, notices[i].number = n
         PROVE  ToldAs(s, n, i)'
    <2>1. ToldAs(s, n, i)
      BY <1>1, <1>15 DEF SessionInv, ToldOf
    <2>2. m > n
      BY <1>1, <2>1 DEF ToldAs, m
    <2>3. \A j \in DOMAIN feed' : Status(feed'[j], s) => feed'[j].number > n
      BY <2>1 DEF ToldAs, Takes
    <2>4. ASSUME NEW k \in DOMAIN notices', notices'[k].session = s, notices'[k].number = n
          PROVE  k = i
      <3>1. k \in DOMAIN notices
        BY <1>2, <1>4, <1>8, <1>13, <2>2, <2>4 DEF Notice!Due
      <3> QED
        BY <1>8, <2>1, <2>4, <3>1 DEF ToldAs
    <2> QED
      BY <1>1, <1>3, <1>8, <2>1, <2>3, <2>4 DEF ToldAs, N
  <1>16. ASSUME Notice!Due(s) PROVE ToldAs(s, m, L)'
    <2>1. turns[s] # Notice!NoTurn /\ turns[s].number = m /\ ~turns[s].cancelled
      BY <1>13, <1>16 DEF Notice!Due
    <2>2. L \in DOMAIN notices' /\ notices'[L] = told
      BY <1>8, <1>16
    <2>3. ASSUME NEW k \in DOMAIN notices', notices'[k].session = s, notices'[k].number = m
          PROVE  k = L
      <3> SUFFICES ASSUME k \in DOMAIN notices PROVE FALSE
        BY <1>8, <2>3
      <3>1. notices[k].session = s /\ notices[k].number = m
        BY <1>8, <2>3
      <3>2. ToldAs(s, m, k)
        BY <1>1, <1>2, <3>1 DEF SessionInv, ToldOf
      <3>3. e.number > m
        BY <1>1, <3>2 DEF ToldAs
      <3> QED
        BY <1>2, <3>3 DEF m
    <2>4. history[s][m].cut \/ (told.failed = history[s][m].errors
          /\ (Notice!Marked(s, m) => history[s][m].restored))
      <3> SUFFICES ASSUME ~history[s][m].cut
                   PROVE  told.failed = history[s][m].errors
                          /\ (Notice!Marked(s, m) => history[s][m].restored)
        OBVIOUS
      <3>1. ErrorsOfTracked(s, m) /\ MarksOf(s, m)
        BY <1>1, <1>2 DEF SessionInv, SeenOf
      <3>2. ErrorsAhead(s) <=> FALSE
        BY <1>1, ErrorsAheadMove
      <3>3. history[s][m].errors <=> turns[s].failed
        BY <2>1, <3>1, <3>2 DEF ErrorsOfTracked, ErrorsAhead
      <3>4. history[s][m].errors \in BOOLEAN
        BY <1>1, <1>2 DEF HostTurn
      <3>5. Notice!Marked(s, m) => history[s][m].restored
        BY <2>1, <3>1 DEF MarksOf
      <3> QED
        BY <1>3, <1>4, <3>3, <3>4, <3>5
    <2> QED
      BY <1>1, <1>2, <1>3, <1>12, <2>2, <2>3, <2>4 DEF ToldAs, N
  <1>17. ToldOf(s)'
    <2> SUFFICES ASSUME NEW n \in Nat, NEW i \in DOMAIN notices',
                        notices'[i].session = s, notices'[i].number = n
                 PROVE  ToldAs(s, n, i)'
      BY DEF ToldOf
    <2>1. CASE i \in DOMAIN notices
      BY <1>8, <1>15, <2>1
    <2>2. CASE i \notin DOMAIN notices
      <3>1. Notice!Due(s) /\ i = L /\ notices'[i] = told
        BY <1>8, <2>2
      <3>2. n = m
        BY <1>4, <1>13, <3>1 DEF Notice!Due
      <3> QED
        BY <1>16, <3>1, <3>2
    <2> QED
      BY <2>1, <2>2
  <1>18. SeenOf(s)'
    <2> SUFFICES ASSUME NEW n \in 1..N, ~history[s][n].cut
                 PROVE  Reaches(s, n)' /\ ErrorsOfTracked(s, n)' /\ ErrorsOfNew(s, n)' /\ MarksOf(s, n)'
      BY <1>1 DEF SeenOf
    <2>1. Reaches(s, n) /\ ErrorsOfTracked(s, n) /\ ErrorsOfNew(s, n) /\ MarksOf(s, n)
      BY <1>1 DEF SessionInv, SeenOf
    <2>2. ~Starting(e, s, n) /\ n # 0
      BY <1>1
    <2>3. (\E i \in DOMAIN feed' : Starting(feed'[i], s, n))
          <=> \E i \in DOMAIN feed : Starting(feed[i], s, n)
      <3>1. ~(e.type = "status" /\ e.session = s /\ e.running /\ e.number = n)
        BY <2>2
      <3>2. Takes(s, e)
        OBVIOUS
      <3> HIDE DEF Starting
      <3> QED
        BY <2>2, <3>2, StartsMove, Zenon
    <2>4. turns[s].number = n => n = m /\ turns[s] # Notice!NoTurn
      BY <1>14
    <2>5. Notice!Noticed(s, n) # {} => Notice!Noticed(s, n)' # {}
      BY <1>8 DEF Notice!Noticed
    <2>6. Reaches(s, n)'
      <3>1. CASE turns[s].number = n
        <4>1. CASE Notice!Due(s)
          <5>1. L \in Notice!Noticed(s, n)'
            BY <1>4, <1>8, <3>1, <4>1 DEF Notice!Noticed
          <5> QED
            BY <1>1, <1>2, <2>4, <3>1, <5>1 DEF Reaches
        <4>2. CASE ~Notice!Due(s)
          <5>1. turns[s].cancelled
            BY <1>1, <2>4, <3>1, <4>2 DEF Notice!Due
          <5>2. Notice!Marked(s, n) \/ history[s][n].restored
            BY <2>1, <3>1, <5>1 DEF MarksOf
          <5> QED
            BY <1>1, <1>2, <2>4, <3>1, <5>2 DEF Reaches
        <4> QED
          BY <4>1, <4>2
      <3>2. CASE turns[s].number # n
        BY <1>1, <2>1, <2>3, <2>5, <3>2 DEF Reaches
      <3> QED
        BY <3>1, <3>2
    <2>7. ErrorsOfTracked(s, n)'
      BY <1>3, <2>2 DEF ErrorsOfTracked
    <2>8. turns[s].number = n => ~\E i \in DOMAIN feed' : Starting(feed'[i], s, n)
      BY <1>2, <1>12, <2>4
    <2>9. ErrorsOfNew(s, n)'
      <3>1. CASE turns[s].number = n
        BY <2>8, <3>1 DEF ErrorsOfNew
      <3> QED
        BY <2>1, <2>2, <3>1, ErrorsOfNewMove
    <2>10. MarksOf(s, n)'
      BY <1>1, <1>3, <2>1, <2>2, <2>3, <2>8 DEF MarksOf
    <2> QED
      BY <2>6, <2>7, <2>9, <2>10
  <1> QED
    BY <1>1, <1>9, <1>10, <1>17, <1>18, TakesElsewhere DEF SessionInv

(* The event is one of the three kinds.                                     *)
LEMMA ReceiveSafe ==
  ASSUME NoticeInv, Notice!Receive
  PROVE  NoticeInv'
  <1>1. PICK e : e = Head(feed)
    OBVIOUS
  <1>2. PICK s : s = e.session
    OBVIOUS
  <1>3. e \in NoticeEvent /\ s \in NoticeSessions /\ Takes(s, e)
    BY <1>1, <1>2, FirstEvent
  <1>4. CASE Notice!HandleStatus(e)
    <2>1. CASE e.running
      <3>1. turns' = [turns EXCEPT ![s] = Notice!Starts(@, e.number)] /\ summaries' = summaries
            /\ notices' = notices
        BY <1>2, <1>4, <2>1 DEF Notice!HandleStatus, Notice!noticeVars
      <3> QED
        BY <1>3, <1>4, <2>1, <3>1, NoticeTakesStart DEF Notice!HandleStatus
    <2>2. CASE ~e.running
      <3>1. turns' = [turns EXCEPT ![s] = Notice!NoTurn] /\ summaries' = summaries /\ Notice!Complete(s)
        BY <1>2, <1>4, <2>2 DEF Notice!HandleStatus
      <3>2. notices' = IF Notice!Due(s)
                       THEN Append(notices,
                         [session |-> s, number |-> turns[s].number, failed |-> turns[s].failed])
                       ELSE notices
        BY <3>1 DEF Notice!Complete, Notice!noticeVars
      <3> QED
        BY <1>3, <1>4, <2>2, <3>1, <3>2, TakesEnd DEF Notice!HandleStatus
    <2> QED
      BY <2>1, <2>2
  <1>5. CASE Notice!HandleError(e)
    <2>1. /\ e.type = "error" /\ summaries' = summaries /\ notices' = notices
          /\ turns' = IF turns[s] = Notice!NoTurn THEN turns ELSE [turns EXCEPT ![s].failed = TRUE]
      BY <1>2, <1>5 DEF Notice!HandleError, Notice!noticeVars
    <2> QED
      BY <1>3, <2>1, TakesError
  <1>6. CASE Notice!HandleRemoved(e)
    <2>1. /\ e.type = "removed" /\ summaries' = summaries \ {s} /\ notices' = notices
          /\ turns' = [turns EXCEPT ![s] = Notice!NoTurn]
      BY <1>2, <1>6 DEF Notice!HandleRemoved, Notice!noticeVars
    <2> QED
      BY <1>3, <2>1, TakesRemoved
  <1> QED
    BY <1>1, <1>4, <1>5, <1>6 DEF Notice!Receive

-----------------------------------------------------------------------------
(* Steps of cancel(), of the stream and of the queue.                       *)

(* Every session is left alone.                                             *)
LEMMA RestSafe ==
  ASSUME NoticeInv, feed' = feed, turns' = turns, summaries' = summaries, stops' = stops,
         cancels' = cancels, eventLosses' = eventLosses, notices' = notices, history' = history,
         linked' \in BOOLEAN, ~linked' => ~linked
  PROVE  NoticeInv'
  <1>1. NoticeTypeOK' /\ feed' \in Seq(NoticeEvent)
    BY DEF NoticeInv, NoticeTypeOK
  <1>2. ASSUME NEW t \in NoticeSessions PROVE SessionInv(t)'
    <2>1. DOMAIN feed \subseteq Nat /\ \A i \in DOMAIN feed : i - 0 = i /\ i + 0 = i
      BY DomainOfWire DEF NoticeInv, NoticeTypeOK
    <2>2. SameEvents(t, 0)
      BY <2>1 DEF SameEvents
    <2>3. SameTurns(t)
      BY DEF SameTurns, Notice!Marked
    <2> QED
      BY <1>1, <1>2, <2>2, <2>3, Elsewhere DEF NoticeInv
  <1> QED
    BY <1>1, <1>2 DEF NoticeInv

(* One session steps, and the wire stays as it is.                          *)
LEMMA WireRests ==
  ASSUME NoticeInv, NEW s \in NoticeSessions, feed' = feed, NoticeTypeOK', linked' = linked,
         \A t \in NoticeSessions \ {s} : SameTurns(t), SessionInv(s)'
  PROVE  NoticeInv'
  <1>1. DOMAIN feed \subseteq Nat /\ \A i \in DOMAIN feed : i - 0 = i /\ i + 0 = i
    BY DomainOfWire DEF NoticeInv, NoticeTypeOK
  <1>2. ASSUME NEW t \in NoticeSessions \ {s} PROVE SessionInv(t)'
    <2>1. SameEvents(t, 0)
      BY <1>1 DEF SameEvents
    <2>2. SessionInv(t) /\ NoticeTypeOK /\ feed' \in Seq(NoticeEvent) /\ SameTurns(t)
      BY <1>2 DEF NoticeInv, NoticeTypeOK
    <2> QED
      BY <1>2, <2>1, <2>2, Elsewhere
  <1> QED
    BY <1>2 DEF NoticeInv

(* cancel() marks the tracked turn, and is a call for just that turn.       *)
LEMMA CancelSafe ==
  ASSUME NoticeInv, NEW s \in NoticeSessions, Notice!Cancel(s)
  PROVE  NoticeInv'
  <1> DEFINE N == Notice!Number(s)
             c == [id |-> cancels', session |-> s, number |-> turns[s].number, since |-> turns[s].since]
  <1>1. /\ turns \in [NoticeSessions -> Tracked] /\ turns[s] \in Tracked /\ cancels \in Nat
           /\ cancels' = cancels + 1
        /\ SessionInv(s) /\ NoticeTypeOK
    BY DEF NoticeInv, NoticeTypeOK, Notice!Cancel
  <1>2. /\ summaries' = summaries /\ feed' = feed /\ linked' = linked /\ notices' = notices
        /\ history' = history /\ eventLosses' = eventLosses /\ stops' = stops \cup {c}
        /\ turns' = IF turns[s] = Notice!NoTurn THEN turns ELSE [turns EXCEPT ![s].cancelled = TRUE]
    BY DEF Notice!Cancel, Notice!noticeVars
  <1>3. /\ \A t \in NoticeSessions \ {s} : turns'[t] = turns[t]
        /\ turns' \in [NoticeSessions -> Tracked]
        /\ turns'[s].number = turns[s].number
        /\ turns'[s].failed = turns[s].failed
        /\ turns[s] # Notice!NoTurn => turns'[s].cancelled
        /\ turns[s] = Notice!NoTurn => turns'[s] = turns[s]
    <2>1. CASE turns[s] = Notice!NoTurn
      BY <1>1, <1>2, <2>1
    <2>2. CASE turns[s] # Notice!NoTurn
      <3> DEFINE r == [turns[s] EXCEPT !.cancelled = TRUE]
      <3>1. r \in Tracked /\ r.number = turns[s].number /\ r.failed = turns[s].failed /\ r.cancelled
        BY <1>1 DEF Tracked
      <3>2. turns' = [turns EXCEPT ![s] = r]
        BY <1>1, <1>2, <2>2
      <3> HIDE DEF r
      <3>3. turns'[s] = r /\ \A t \in NoticeSessions \ {s} : turns'[t] = turns[t]
        BY <1>1, <3>2
      <3> QED
        BY <1>1, <2>2, <3>1, <3>2, <3>3
    <2> QED
      BY <2>1, <2>2
  <1>4. c \in [id : Nat, session : NoticeSessions, number : Nat, since : Nat]
        /\ c.session = s /\ c.number = turns[s].number
    BY <1>1 DEF Tracked
  <1>5. /\ N \in Nat /\ DOMAIN history[s] = 1..N /\ N' = N /\ (Notice!Runs(s)' <=> Notice!Runs(s))
    BY <1>1, <1>2, HistoryOf DEF Notice!Number, Notice!Runs
  <1> HIDE DEF c, N
  <1>6. NoticeTypeOK'
    <2>1. stops' \subseteq [id : Nat, session : NoticeSessions, number : Nat, since : Nat]
      BY <1>1, <1>2, <1>4 DEF NoticeTypeOK
    <2>2. cancels' \in Nat
      BY <1>1
    <2> QED
      BY <1>1, <1>2, <1>3, <2>1, <2>2 DEF NoticeTypeOK
  <1>7. \A n : Notice!Marked(s, n)' <=> Notice!Marked(s, n) \/ n = turns[s].number
    BY <1>2, <1>4 DEF Notice!Marked
  <1>8. ASSUME NEW t \in NoticeSessions \ {s} PROVE SameTurns(t)
    BY <1>2, <1>3, <1>4, <1>8 DEF SameTurns, Notice!Marked
  <1>9. turns[s].number \in Nat /\ (turns[s] # Notice!NoTurn => turns[s].number \in 1..N)
        /\ (turns[s] = Notice!NoTurn => turns[s].number = 0)
    BY <1>1 DEF SessionInv, TrackedOf, Notice!NoTurn, Tracked, N
  <1>10. TurnsOf(s)'
    <2>1. \A d \in stops' : d.session = s => d.number <= N
      BY <1>1, <1>2, <1>4, <1>5, <1>9 DEF SessionInv, TurnsOf, N
    <2> QED
      BY <1>1, <1>2, <1>3, <1>5, <2>1 DEF SessionInv, TurnsOf, N
  <1>11. EventsOf(s)' /\ TrackedOf(s)' /\ RemovalOf(s)'
    BY <1>1, <1>2, <1>3, <1>5 DEF SessionInv, EventsOf, TrackedOf, RemovalOf, N
  <1>12. ToldOf(s)'
    <2> SUFFICES ASSUME NEW n \in Nat, NEW i \in DOMAIN notices,
                        notices[i].session = s, notices[i].number = n
                 PROVE  ToldAs(s, n, i)'
      BY <1>2 DEF ToldOf
    <2>1. ToldAs(s, n, i)
      BY <1>1 DEF SessionInv, ToldOf
    <2>2. n # turns[s].number
      BY <1>5, <1>9, <2>1 DEF ToldAs, N
    <2> QED
      BY <1>2, <1>3, <1>5, <1>7, <2>1, <2>2 DEF ToldAs, N
  <1>13. SeenOf(s)'
    <2> SUFFICES ASSUME NEW n \in 1..N, ~history[s][n].cut
                 PROVE  Reaches(s, n)' /\ ErrorsOfTracked(s, n)' /\ ErrorsOfNew(s, n)' /\ MarksOf(s, n)'
      BY <1>2, <1>5 DEF SeenOf
    <2>1. Reaches(s, n) /\ ErrorsOfTracked(s, n) /\ ErrorsOfNew(s, n) /\ MarksOf(s, n)
      BY <1>1, <1>5 DEF SessionInv, SeenOf
    <2>2. Reaches(s, n)'
      BY <1>2, <1>3, <1>7, <2>1 DEF Reaches, Notice!Noticed
    <2>3. ErrorsOfTracked(s, n)' /\ ErrorsOfNew(s, n)'
      BY <1>2, <1>3, <2>1 DEF ErrorsOfTracked, ErrorsOfNew
    <2>4. n = turns[s].number => turns[s] # Notice!NoTurn
      BY <1>5, <1>9
    <2>5. MarksOf(s, n)'
      BY <1>2, <1>3, <1>7, <2>1, <2>4 DEF MarksOf
    <2> QED
      BY <2>2, <2>3, <2>5
  <1> QED
    BY <1>2, <1>6, <1>8, <1>10, <1>11, <1>12, <1>13, WireRests DEF SessionInv

(* The host answers cancel(); the tracked turn may lose the mark of it.     *)
LEMMA AnsweredSafe ==
  ASSUME NoticeInv, NEW call \in stops, NEW a \in [stopped : BOOLEAN, restored : BOOLEAN],
         Notice!Answered(call, a), a.stopped \/ a.restored, NEW s, s = call.session,
         turns' \in [NoticeSessions -> Tracked], \A t \in NoticeSessions \ {s} : turns'[t] = turns[t],
         turns'[s].number = turns[s].number, turns'[s].failed = turns[s].failed,
         turns[s] = Notice!NoTurn => turns'[s] = Notice!NoTurn,
         turns'[s] # turns[s] => call.number = turns[s].number /\ a.restored,
         summaries' = summaries, feed' = feed, linked' = linked, cancels' = cancels,
         notices' = notices, eventLosses' = eventLosses
  PROVE  NoticeInv'
  <1> DEFINE N == Notice!Number(s)
             k == call.number
             r == [history[s][k] EXCEPT !.stopped = @ \/ a.stopped, !.restored = @ \/ a.restored]
  <1>1. /\ s \in NoticeSessions /\ k \in Nat /\ NoticeTypeOK /\ SessionInv(s)
           /\ turns \in [NoticeSessions -> Tracked]
        /\ stops' = stops \ {call} /\ history \in [NoticeSessions -> Seq(HostTurn)]
    BY DEF NoticeInv, NoticeTypeOK, Notice!Answered
  <1>2. /\ N \in Nat /\ DOMAIN history[s] = 1..N /\ \A n \in 1..N : history[s][n] \in HostTurn
        /\ Notice!Runs(s) <=> N >= 1 /\ history[s][N].running
    BY <1>1, HistoryOf
  <1>3. k <= N
    BY <1>1 DEF SessionInv, TurnsOf, N
  <1>4. k # 0 => k \in 1..N
    BY <1>1, <1>2, <1>3
  <1>5. ASSUME k # 0
        PROVE  /\ history' \in [NoticeSessions -> Seq(HostTurn)]
               /\ \A t \in NoticeSessions \ {s} : history'[t] = history[t]
               /\ N' = N /\ DOMAIN history'[s] = 1..N
               /\ \A n \in 1..N : n # k => history'[s][n] = history[s][n]
               /\ history'[s][k] = r
    <2>1. history[s][k] \in HostTurn
      BY <1>2, <1>4, <1>5
    <2>2. r \in HostTurn
      BY <2>1 DEF HostTurn
    <2>3. history' = [history EXCEPT ![s][k].stopped = @ \/ a.stopped, ![s][k].restored = @ \/ a.restored]
      BY <1>5 DEF Notice!Answered
    <2>4. history' = [history EXCEPT ![s] = [history[s] EXCEPT ![k] = r]]
      BY <2>3, ZenonT(60)
    <2>5. k \in 1..Notice!Number(s)
      BY <1>4, <1>5
    <2> HIDE DEF r, k
    <2> QED
      BY <1>1, <1>2, <2>2, <2>4, <2>5, TurnChanges
  <1>6. k # 0 => /\ r.running = history[s][k].running /\ r.errors = history[s][k].errors
                 /\ r.cut = history[s][k].cut
                 /\ r.stopped = (history[s][k].stopped \/ a.stopped)
                 /\ r.restored = (history[s][k].restored \/ a.restored)
    <2>1. k # 0 => history[s][k] \in HostTurn
      BY <1>2, <1>4
    <2> QED
      BY <2>1 DEF HostTurn
  <1> HIDE DEF r
  <1>7. k = 0 => history' = history
    BY DEF Notice!Answered
  <1>8. /\ history' \in [NoticeSessions -> Seq(HostTurn)]
           /\ \A t \in NoticeSessions \ {s} : history'[t] = history[t]
        /\ N' = N /\ DOMAIN history'[s] = 1..N
    BY <1>1, <1>2, <1>5, <1>7 DEF Notice!Number
  <1>9. ASSUME NEW n \in 1..N
        PROVE  /\ history'[s][n].running = history[s][n].running
                  /\ history'[s][n].errors = history[s][n].errors
               /\ history'[s][n].cut = history[s][n].cut
               /\ history'[s][n].stopped <=> history[s][n].stopped \/ (n = k /\ a.stopped)
               /\ history'[s][n].restored <=> history[s][n].restored \/ (n = k /\ a.restored)
    <2>1. n # 0
      BY <1>2
    <2>2. CASE n = k
      BY <1>5, <1>6, <2>1, <2>2
    <2>3. CASE n # k
      BY <1>5, <1>7, <2>3
    <2> QED
      BY <2>2, <2>3
  <1>10. NoticeTypeOK'
    BY <1>1, <1>8 DEF NoticeTypeOK
  <1>11. ASSUME NEW t \in NoticeSessions \ {s} PROVE SameTurns(t)
    BY <1>1, <1>8, <1>11 DEF SameTurns, Notice!Marked
  <1>12. ASSUME NEW n \in 1..N
         PROVE  /\ Notice!Marked(s, n)' => Notice!Marked(s, n)
                /\ Notice!Marked(s, n) => Notice!Marked(s, n)' \/ history'[s][n].restored
    <2>1. Notice!Marked(s, n)' => Notice!Marked(s, n)
      BY <1>1, <1>9 DEF Notice!Marked
    <2>2. Notice!Marked(s, n) => Notice!Marked(s, n)' \/ history'[s][n].restored
      BY <1>1, <1>9 DEF Notice!Marked
    <2> QED
      BY <2>1, <2>2
  <1>13. TurnsOf(s)'
    <2>1. TurnsOf(s) /\ Notice!Number(s) = N /\ Notice!Number(s)' = N /\ DOMAIN history[s] = 1..N
      BY <1>1, <1>2, <1>8 DEF SessionInv, N
    <2>2. \A n \in DOMAIN history'[s] : n < Notice!Number(s)' => ~history'[s][n].running
      BY <1>8, <1>9, <2>1 DEF TurnsOf
    <2>3. \A c \in stops' : c.session = s => c.number <= Notice!Number(s)'
      BY <1>1, <2>1 DEF TurnsOf
    <2>4. ~linked' => turns'[s] = Notice!NoTurn
      BY <1>1, <2>1 DEF TurnsOf
    <2>5. ~linked' => \A n \in DOMAIN history'[s] : history'[s][n].cut
      BY <1>1, <1>8, <1>9, <2>1 DEF TurnsOf
    <2> QED
      BY <2>2, <2>3, <2>4, <2>5 DEF TurnsOf
  <1>14. EventsOf(s)'
    <2>1. EventsOf(s)
      BY <1>1 DEF SessionInv
    <2>2. \A i \in DOMAIN feed : Status(feed[i], s) =>
            /\ feed[i].number \in 1..N
            /\ history'[s][feed[i].number].running = history[s][feed[i].number].running
      BY <1>9, <2>1 DEF EventsOf, N
    <2>3. \A i \in DOMAIN feed' : Status(feed'[i], s) =>
            /\ feed'[i].number \in 1..Notice!Number(s)'
            /\ ~feed'[i].running => ~history'[s][feed'[i].number].running
            /\ feed'[i].running =>
                 \/ history'[s][feed'[i].number].running
                 \/ \E j \in DOMAIN feed' : Ending(feed'[j], s) /\ feed'[j].number = feed'[i].number
      BY <1>8, <2>1, <2>2 DEF EventsOf, N
    <2>4. \A i, j \in DOMAIN feed' : (i < j /\ Status(feed'[i], s) /\ Status(feed'[j], s)) =>
            /\ feed'[i].number <= feed'[j].number
            /\ ~feed'[i].running => feed'[i].number < feed'[j].number
      BY <2>1 DEF EventsOf
    <2> QED
      BY <2>3, <2>4 DEF EventsOf
  <1>15. TrackedOf(s)'
    BY <1>1, <1>8, <1>9 DEF SessionInv, TrackedOf, N
  <1>16. RemovalOf(s)'
    <2>1. Notice!Runs(s)' <=> Notice!Runs(s)
      <3>1. Notice!Runs(s)' <=> (N' >= 1 /\ history'[s][N'].running)
        <4>1. history'[s] \in Seq(HostTurn) /\ N' = Len(history'[s])
          BY <1>1, <1>8 DEF Notice!Number
        <4>2. history'[s] # <<>> <=> N' >= 1
          BY <1>2, <1>8, <4>1, EmptySeq
        <4> QED
          BY <4>1, <4>2 DEF Notice!Runs, Notice!Number
      <3>2. N >= 1 => N \in 1..N
        BY <1>2
      <3> QED
        BY <1>2, <1>8, <1>9, <3>1, <3>2
    <2> QED
      BY <1>1, <1>8, <2>1 DEF SessionInv, RemovalOf, N
  <1>17. ToldOf(s)'
    <2> SUFFICES ASSUME NEW n \in Nat, NEW i \in DOMAIN notices,
                        notices[i].session = s, notices[i].number = n
                 PROVE  ToldAs(s, n, i)'
      BY DEF ToldOf
    <2>1. ToldAs(s, n, i) /\ n \in 1..N
      BY <1>1 DEF SessionInv, ToldOf, ToldAs, N
    <2> QED
      BY <1>8, <1>9, <1>12, <2>1 DEF ToldAs, N
  <1>18. SeenOf(s)'
    <2> SUFFICES ASSUME NEW n \in 1..N, ~history'[s][n].cut
                 PROVE  Reaches(s, n)' /\ ErrorsOfTracked(s, n)' /\ ErrorsOfNew(s, n)' /\ MarksOf(s, n)'
      BY <1>8 DEF SeenOf
    <2>1. Reaches(s, n) /\ ErrorsOfTracked(s, n) /\ ErrorsOfNew(s, n) /\ MarksOf(s, n)
      BY <1>1, <1>2, <1>9 DEF SessionInv, SeenOf
    <2>2. Reaches(s, n)'
      BY <1>9, <1>12, <2>1 DEF Reaches, Notice!Noticed
    <2>3. ErrorsOfTracked(s, n)' /\ ErrorsOfNew(s, n)'
      BY <1>9, <2>1 DEF ErrorsOfTracked, ErrorsOfNew
    <2>4. MarksOf(s, n)'
      BY <1>9, <1>12, <2>1 DEF MarksOf
    <2> QED
      BY <2>2, <2>3, <2>4
  <1> QED
    BY <1>1, <1>10, <1>11, <1>13, <1>14, <1>15, <1>16, <1>17, <1>18, WireRests DEF SessionInv

(* Both answers of cancel(): a refusal takes the mark from the turn it was  *)
(* made for, and from no later one.                                         *)
LEMMA CancelEndsSafe ==
  ASSUME NoticeInv, NEW call \in stops, Notice!CancelSucceeds(call) \/ Notice!CancelFails(call)
  PROVE  NoticeInv'
  <1>1. turns \in [NoticeSessions -> Tracked] /\ call.session \in NoticeSessions
        /\ turns[call.session] \in Tracked
    BY DEF NoticeInv, NoticeTypeOK
  <1>2. PICK s : s = call.session
    OBVIOUS
  <1>3. CASE Notice!CancelSucceeds(call)
    <2>1. PICK a : a = [stopped |-> TRUE, restored |-> FALSE]
      OBVIOUS
    <2>2. a \in [stopped : BOOLEAN, restored : BOOLEAN] /\ a.stopped /\ Notice!Answered(call, a)
      BY <1>3, <2>1 DEF Notice!CancelSucceeds
    <2>3. /\ turns' = turns /\ summaries' = summaries /\ feed' = feed /\ linked' = linked
          /\ cancels' = cancels /\ notices' = notices /\ eventLosses' = eventLosses
      BY <1>3 DEF Notice!CancelSucceeds, Notice!trackVars, Notice!noticeVars
    <2> QED
      BY <1>1, <1>2, <2>2, <2>3, AnsweredSafe
  <1>4. CASE Notice!CancelFails(call)
    <2>1. PICK a : a = [stopped |-> FALSE, restored |-> TRUE]
      OBVIOUS
    <2>2. a \in [stopped : BOOLEAN, restored : BOOLEAN] /\ a.restored /\ Notice!Answered(call, a)
      BY <1>4, <2>1 DEF Notice!CancelFails
    <2>3. /\ summaries' = summaries /\ feed' = feed /\ linked' = linked
          /\ cancels' = cancels /\ notices' = notices /\ eventLosses' = eventLosses
          /\ turns' = [turns EXCEPT ![s] = Notice!Restored(turns[s], call)]
      BY <1>2, <1>4 DEF Notice!CancelFails, Notice!noticeVars
    <2> DEFINE r == Notice!Restored(turns[s], call)
    <2>4. /\ r \in Tracked /\ r.number = turns[s].number /\ r.failed = turns[s].failed
          /\ r # turns[s] => call.number = turns[s].number
          /\ turns[s] = Notice!NoTurn => r = Notice!NoTurn
      <3>1. CASE r = turns[s]
        BY <1>1, <1>2, <3>1
      <3>2. CASE r # turns[s]
        <4>1. r = [turns[s] EXCEPT !.cancelled = FALSE] /\ call.number = turns[s].number
              /\ turns[s].number # 0
          BY <3>2 DEF Notice!Restored
        <4>2. turns[s] # Notice!NoTurn
          BY <4>1 DEF Notice!NoTurn
        <4> QED
          BY <1>1, <1>2, <4>1, <4>2 DEF Tracked
      <3> QED
        BY <3>1, <3>2
    <2> HIDE DEF r
    <2>5. turns'[s] = r /\ (\A t \in NoticeSessions \ {s} : turns'[t] = turns[t])
          /\ turns' \in [NoticeSessions -> Tracked]
      BY <1>1, <1>2, <2>3, <2>4 DEF r
    <2> QED
      BY <1>1, <1>2, <2>2, <2>3, <2>4, <2>5, AnsweredSafe
  <1> QED
    BY <1>3, <1>4

(* Without the stream every turn is cut.                                    *)
LEMMA LostSafe == ASSUME NoticeInv, Notice!StreamLost PROVE NoticeInv'
  <1>1. /\ linked' = FALSE /\ eventLosses' = eventLosses + 1 /\ feed' = <<>>
        /\ turns' = [s \in NoticeSessions |-> Notice!NoTurn]
        /\ history' = [s \in NoticeSessions |-> [i \in DOMAIN history[s] |-> [history[s][i] EXCEPT !.cut = TRUE]]]
        /\ summaries' = summaries /\ stops' = stops /\ cancels' = cancels /\ notices' = notices
        /\ NoticeTypeOK
    BY DEF Notice!StreamLost, Notice!callVars, Notice!noticeVars, NoticeInv
  <1>2. DOMAIN feed' = {} /\ feed' \in Seq(NoticeEvent)
    BY <1>1, EmptySeq, LenProperties
  <1>3. ASSUME NEW s \in NoticeSessions
        PROVE  /\ history'[s] \in Seq(HostTurn) /\ DOMAIN history'[s] = 1..Notice!Number(s)
               /\ Notice!Number(s)' = Notice!Number(s) /\ Notice!Number(s) \in Nat
                  /\ DOMAIN history[s] = 1..Notice!Number(s)
               /\ \A n \in 1..Notice!Number(s) :
                    /\ history'[s][n].cut
                    /\ history'[s][n].running = history[s][n].running
                    /\ history'[s][n].stopped = history[s][n].stopped
                    /\ history'[s][n].restored = history[s][n].restored
    <2>1. /\ Notice!Number(s) \in Nat /\ DOMAIN history[s] = 1..Notice!Number(s)
          /\ \A n \in 1..Notice!Number(s) : history[s][n] \in HostTurn
      BY <1>1, HistoryOf
    <2>2. history'[s] = [n \in 1..Notice!Number(s) |-> [history[s][n] EXCEPT !.cut = TRUE]]
      BY <1>1, <2>1
    <2>3. ASSUME NEW n \in 1..Notice!Number(s)
          PROVE  /\ history'[s][n] \in HostTurn /\ history'[s][n].cut
                 /\ history'[s][n].running = history[s][n].running
                 /\ history'[s][n].stopped = history[s][n].stopped
                 /\ history'[s][n].restored = history[s][n].restored
      <3>1. history'[s][n] = [history[s][n] EXCEPT !.cut = TRUE] /\ history[s][n] \in HostTurn
        BY <2>1, <2>2
      <3> QED
        BY <3>1 DEF HostTurn
    <2>4. history'[s] \in [1..Notice!Number(s) -> HostTurn]
      <3>1. history'[s] = [n \in 1..Notice!Number(s) |-> history'[s][n]]
        BY <2>2
      <3> QED
        BY <2>3, <3>1
    <2>5. history'[s] \in Seq(HostTurn)
      BY <2>1, <2>4, SeqDef
    <2>6. Notice!Number(s)' = Notice!Number(s)
      <3>1. DOMAIN history'[s] = 1..Notice!Number(s)
        BY <2>2
      <3> QED
        BY <2>1, <2>5, <3>1, LenProperties DEF Notice!Number
    <2> QED
      BY <2>1, <2>2, <2>3, <2>5, <2>6
  <1>4. NoticeTypeOK'
    <2>1. history' \in [NoticeSessions -> Seq(HostTurn)]
      <3>1. history' = [s \in NoticeSessions |-> history'[s]]
        BY <1>1
      <3> QED
        BY <1>3, <3>1
    <2>2. turns' \in [NoticeSessions -> Tracked]
      BY <1>1 DEF Notice!NoTurn, Tracked
    <2>3. /\ linked' \in BOOLEAN /\ eventLosses' \in Nat /\ summaries' \subseteq NoticeSessions
             /\ cancels' \in Nat
          /\ stops' \subseteq [id : Nat, session : NoticeSessions, number : Nat, since : Nat]
          /\ notices' \in Seq([session : NoticeSessions, number : Nat, failed : BOOLEAN])
      <3>1. /\ eventLosses \in Nat /\ summaries \subseteq NoticeSessions /\ cancels \in Nat
            /\ stops \subseteq [id : Nat, session : NoticeSessions, number : Nat, since : Nat]
            /\ notices \in Seq([session : NoticeSessions, number : Nat, failed : BOOLEAN])
        BY DEF NoticeInv, NoticeTypeOK
      <3>2. /\ linked' = FALSE /\ eventLosses' = eventLosses + 1 /\ summaries' = summaries
               /\ stops' = stops
            /\ cancels' = cancels /\ notices' = notices
        BY <1>1
      <3>3. linked' \in BOOLEAN /\ cancels' \in Nat
        BY <3>1, <3>2
      <3>7. eventLosses' \in Nat
        BY <3>1, <3>2
      <3>4. summaries' \subseteq NoticeSessions
        BY <3>1, <3>2
      <3>5. stops' \subseteq [id : Nat, session : NoticeSessions, number : Nat, since : Nat]
        BY <3>1, <3>2
      <3>6. notices' \in Seq([session : NoticeSessions, number : Nat, failed : BOOLEAN])
        BY <3>1, <3>2
      <3> QED
        BY <3>3, <3>4, <3>5, <3>6, <3>7
    <2> QED
      BY <1>2, <2>1, <2>2, <2>3 DEF NoticeTypeOK
  <1>5. ASSUME NEW s \in NoticeSessions PROVE SessionInv(s)'
    <2>1. SessionInv(s)
      BY DEF NoticeInv
    <2>2. turns'[s] = Notice!NoTurn /\ Notice!NoTurn.number = 0
      BY <1>1 DEF Notice!NoTurn
    <2>3. Notice!Runs(s)' <=> Notice!Runs(s)
      <3>1. history'[s] \in Seq(HostTurn) /\ history[s] \in Seq(HostTurn)
            /\ Len(history'[s]) = Notice!Number(s) /\ Len(history[s]) = Notice!Number(s)
        BY <1>1, <1>3 DEF Notice!Number, NoticeTypeOK
      <3>2. (history'[s] # <<>> <=> Notice!Number(s) # 0) /\ (history[s] # <<>> <=> Notice!Number(s) # 0)
        BY <3>1, EmptySeq
      <3>3. Notice!Number(s) # 0
            => history'[s][Notice!Number(s)].running = history[s][Notice!Number(s)].running
        BY <1>3
      <3> QED
        BY <3>1, <3>2, <3>3 DEF Notice!Runs, Notice!Number
    <2>4. TurnsOf(s)'
      BY <1>1, <1>3, <2>1, <2>2 DEF SessionInv, TurnsOf
    <2>5. EventsOf(s)' /\ TrackedOf(s)'
      BY <1>2, <2>2 DEF EventsOf, TrackedOf
    <2>6. RemovalOf(s)'
      BY <1>1, <1>2, <1>3, <2>1, <2>2, <2>3 DEF SessionInv, RemovalOf
    <2>7. ToldOf(s)'
      <3> SUFFICES ASSUME NEW n \in Nat, NEW i \in DOMAIN notices,
                          notices[i].session = s, notices[i].number = n
                   PROVE  ToldAs(s, n, i)'
        BY <1>1 DEF ToldOf
      <3>1. ToldAs(s, n, i)
        BY <2>1 DEF SessionInv, ToldOf
      <3> QED
        BY <1>1, <1>2, <1>3, <2>2, <3>1 DEF ToldAs
    <2>8. SeenOf(s)'
      BY <1>3 DEF SeenOf
    <2> QED
      BY <2>4, <2>5, <2>6, <2>7, <2>8 DEF SessionInv
  <1> QED
    BY <1>1, <1>4, <1>5 DEF NoticeInv

-----------------------------------------------------------------------------
(* Nothing has started yet.                                                 *)
LEMMA NoticeInit == Notice!Init => NoticeInv
  <1> SUFFICES ASSUME Notice!Init PROVE NoticeInv
    OBVIOUS
  <1>1. DOMAIN feed = {} /\ DOMAIN notices = {} /\ feed \in Seq(NoticeEvent)
        /\ notices \in Seq([session : NoticeSessions, number : Nat, failed : BOOLEAN])
    BY EmptySeq, LenProperties DEF Notice!Init
  <1>2. NoticeTypeOK
    BY <1>1, EmptySeq DEF Notice!Init, NoticeTypeOK, Notice!NoTurn, Tracked
  <1>3. ASSUME NEW s \in NoticeSessions PROVE SessionInv(s)
    <2>1. history[s] = <<>> /\ turns[s] = Notice!NoTurn /\ s \in summaries /\ linked /\ stops = {}
      BY DEF Notice!Init
    <2>2. DOMAIN history[s] = {}
      BY <2>1
    <2> QED
      BY <1>1, <2>1, <2>2 DEF SessionInv, TurnsOf, EventsOf, TrackedOf, RemovalOf, ToldOf, SeenOf
  <1> QED
    BY <1>2, <1>3 DEF NoticeInv, Notice!Init

(* Every step keeps the invariant.                                          *)
LEMMA NoticeInductive == NoticeInv /\ [Notice!Next]_(Notice!vars) => NoticeInv'
  <1> SUFFICES ASSUME NoticeInv, [Notice!Next]_(Notice!vars) PROVE NoticeInv'
    OBVIOUS
  <1>0. linked \in BOOLEAN
    BY DEF NoticeInv, NoticeTypeOK
  <1>1. ASSUME NEW s \in NoticeSessions, Notice!HostStarts(s) \/ Notice!HostRepeats(s)
               \/ Notice!HostErrs(s) \/ Notice!HostEnds(s)
                                   \/ Notice!HostRemoves(s) \/ Notice!Cancel(s)
        PROVE  NoticeInv'
    BY <1>1, StartsSafe, RepeatsSafe, ErrsSafe, EndsSafe, RemovesSafe, CancelSafe
  <1>2. CASE Notice!Receive
    BY <1>2, ReceiveSafe
  <1>3. CASE Notice!StreamLost
    BY <1>3, LostSafe
  <1>4. CASE Notice!StreamBack
    BY <1>4, RestSafe DEF Notice!StreamBack, Notice!trackVars, Notice!callVars, Notice!noticeVars
  <1>5. ASSUME NEW call \in stops, Notice!CancelSucceeds(call) \/ Notice!CancelFails(call)
        PROVE NoticeInv'
    BY <1>5, CancelEndsSafe
  <1>6. CASE Notice!Show \/ Notice!ShowEnds \/ Notice!Dispose
    BY <1>0, <1>6, RestSafe DEF Notice!Show, Notice!ShowEnds, Notice!Dispose, Notice!trackVars,
           Notice!callVars
  <1>7. CASE UNCHANGED Notice!vars
    BY <1>0, <1>7, RestSafe DEF Notice!vars, Notice!trackVars, Notice!callVars, Notice!noticeVars
  <1> QED
    BY <1>1, <1>2, <1>3, <1>4, <1>5, <1>6, <1>7 DEF Notice!Next

(* With nothing under way, a turn that is over was dealt with.              *)
LEMMA NoticeInvImplies == NoticeInv => Notice!NoticesAreDue
  <1> SUFFICES ASSUME NoticeInv PROVE Notice!NoticesAreDue
    OBVIOUS
  <1>1. ASSUME NEW i \in DOMAIN notices, NEW s, s = notices[i].session, NEW n, n = notices[i].number
        PROVE  /\ ~history[s][n].running
               /\ Cardinality(Notice!Noticed(s, n)) = 1
               /\ history[s][n].cut \/ notices[i].failed = history[s][n].errors
               /\ Notice!Marked(s, n) => history[s][n].restored \/ history[s][n].cut
    <2>1. notices[i] \in [session : NoticeSessions, number : Nat, failed : BOOLEAN]
      BY ElementOfSeq, LenProperties DEF NoticeInv, NoticeTypeOK
    <2>2. s \in NoticeSessions /\ n \in Nat
      BY <1>1, <2>1
    <2>3. ToldAs(s, n, i)
      BY <1>1, <2>2 DEF NoticeInv, SessionInv, ToldOf
    <2>4. Notice!Noticed(s, n) = {i}
      BY <1>1, <2>3 DEF ToldAs, Notice!Noticed
    <2>5. Cardinality(Notice!Noticed(s, n)) = 1
      BY <2>4, FS_Singleton
    <2> QED
      BY <2>3, <2>5 DEF ToldAs
  <1>2. ASSUME feed = <<>>, NEW s \in summaries, s \in NoticeSessions, NEW n \in DOMAIN history[s],
               ~history[s][n].running, ~history[s][n].cut, ~history[s][n].restored, ~Notice!Marked(s, n)
        PROVE  Notice!Noticed(s, n) # {}
    <2>1. SessionInv(s) /\ DOMAIN feed = {} /\ NoticeTypeOK
      BY <1>2, EmptySeq, LenProperties DEF NoticeInv
    <2>2. Reaches(s, n)
      BY <1>2, <2>1 DEF SessionInv, SeenOf
    <2>3. turns[s].number # n
      <3>1. turns[s] # Notice!NoTurn => history[s][turns[s].number].running
        BY <2>1 DEF SessionInv, TrackedOf
      <3>2. Notice!NoTurn.number = 0 /\ n # 0
        BY <1>2, <2>1, HistoryOf DEF Notice!NoTurn
      <3> QED
        BY <1>2, <3>1, <3>2
    <2> QED
      BY <1>2, <2>1, <2>2, <2>3 DEF Reaches
  <1>3. summaries \subseteq NoticeSessions
    BY DEF NoticeInv, NoticeTypeOK
  <1>4. \A S : Notice!Cardinality(S) = Cardinality(S)
    BY DEF Notice!Cardinality, Cardinality
  <1> QED
    BY <1>1, <1>2, <1>3, <1>4 DEF Notice!NoticesAreDue

-----------------------------------------------------------------------------
(* The composition.                                                         *)

(* The invariant: that of the component that steps.                         *)
ComponentInv ==
  /\ focus = "client" => CallsInv /\ ItemsInv
  /\ focus = "output" => JobInv
  /\ focus = "stream" => StreamInv
  /\ focus = "notice" => NoticeInv

(* The components start as they do by themselves.                           *)
LEMMA ComponentInit == Init => ComponentInv
  <1> SUFFICES ASSUME Init
               PROVE  ComponentInv
    OBVIOUS
  <1>1. Client!ClientAssumption /\ Output!JobAssumption
    BY GatewayStateAssumption
  <1>2. Client!Init /\ Output!Init /\ Stream!Init /\ Notice!Init
    BY DEF Init
  <1>3. CallsInv /\ ItemsInv
    BY <1>1, <1>2, ClientInit
  <1>4. JobInv
    BY <1>1, <1>2, JobInit
  <1>5. StreamInv
    BY <1>2, StreamInit
  <1>6. NoticeInv
    BY <1>2, NoticeInit
  <1> QED
    BY <1>3, <1>4, <1>5, <1>6 DEF ComponentInv

(* Where the stream steps, each step is one of its own.                     *)
LEMMA StreamStep ==
  ASSUME [Next]_vars, focus = "stream"
  PROVE  [Stream!Next]_(Stream!vars)
  <1>1. StreamSteps \/ UNCHANGED vars
    BY DEF Next, OutputSteps, NoticeSteps, ClientSteps
  <1>2. UNCHANGED vars => UNCHANGED Stream!vars
    BY DEF vars, streamVars, Stream!vars, Stream!clientVars, Stream!agentVars
  <1> QED
    BY <1>1, <1>2 DEF StreamSteps

(* Where another component steps, the stream stays as it is.                *)
LEMMA StreamRests ==
  ASSUME [Next]_vars, focus # "stream"
  PROVE  UNCHANGED Stream!vars
  <1>1. UNCHANGED streamVars
    BY DEF Next, vars, StreamSteps, OutputSteps, NoticeSteps, ClientSteps
  <1> QED
    BY <1>1 DEF streamVars, Stream!vars, Stream!clientVars, Stream!agentVars

(* A step is one of the component that steps, which keeps its invariant.    *)
LEMMA ComponentStep == ComponentInv /\ [Next]_vars => ComponentInv'
  <1> SUFFICES ASSUME ComponentInv, [Next]_vars
               PROVE  ComponentInv'
    OBVIOUS
  <1>1. Client!ClientAssumption /\ Output!JobAssumption
    BY GatewayStateAssumption
  <1>2. focus' = focus
    BY DEF Next, vars, StreamSteps, OutputSteps, NoticeSteps, ClientSteps
  <1>3. ASSUME focus = "client"
        PROVE  (CallsInv /\ ItemsInv)'
    <2>1. ClientSteps \/ UNCHANGED vars
      BY <1>3 DEF Next, StreamSteps, OutputSteps, NoticeSteps
    <2>2. UNCHANGED vars => UNCHANGED Client!vars
      BY DEF vars, clientVars, Client!vars, Client!callVars, Client!streamVars
    <2>3. [Client!Next]_(Client!vars)
      BY <2>1, <2>2 DEF ClientSteps
    <2> QED
      BY <1>1, <1>3, <2>3, ClientInductive DEF ComponentInv
  <1>4. ASSUME focus = "output"
        PROVE  JobInv'
    <2>1. OutputSteps \/ UNCHANGED vars
      BY <1>4 DEF Next, StreamSteps, NoticeSteps, ClientSteps
    <2>2. UNCHANGED vars => UNCHANGED Output!vars
      BY DEF vars, outputVars, Output!vars, Output!hostVars
    <2>3. [Output!Next]_(Output!vars)
      BY <2>1, <2>2 DEF OutputSteps
    <2> QED
      BY <1>1, <1>4, <2>3, JobInductive DEF ComponentInv
  <1>5. ASSUME focus = "stream"
        PROVE  StreamInv'
    BY <1>5, StreamStep, StreamInductive DEF ComponentInv
  <1>6. ASSUME focus = "notice"
        PROVE  NoticeInv'
    <2>1. NoticeSteps \/ UNCHANGED vars
      BY <1>6 DEF Next, StreamSteps, OutputSteps, ClientSteps
    <2>2. UNCHANGED vars => UNCHANGED Notice!vars
      BY DEF vars, noticeVars, Notice!vars, Notice!trackVars, Notice!callVars,
             Notice!noticeVars
    <2>3. [Notice!Next]_(Notice!vars)
      BY <2>1, <2>2 DEF NoticeSteps
    <2> QED
      BY <1>6, <2>3, NoticeInductive DEF ComponentInv
  <1> QED
    BY <1>2, <1>3, <1>4, <1>5, <1>6 DEF ComponentInv

(* HarnessGatewayClient: no request of a closed client stays open, and no   *)
(* stream waits for an item that is there.                                  *)
THEOREM ClientsSettle == Spec => []ClientSettles
  <1>1. ComponentInv => ClientSettles
    BY ClientInvImplies DEF ComponentInv, ClientSettles, Of
  <1> QED
    BY <1>1, ComponentInit, ComponentStep, PTL DEF Spec

(* JobOutputObserver and pumpActiveJobs: the output shown is the host's,    *)
(* and the jobs shown are those of the open session.                        *)
THEOREM JobsAlwaysExact == Spec => []JobsExact
  <1>1. ComponentInv => JobsExact
    BY JobInvImplies DEF ComponentInv, JobsExact, Of
  <1> QED
    BY <1>1, ComponentInit, ComponentStep, PTL DEF Spec

(* TurnCompletionTracker: each turn that ended in front of an open stream   *)
(* is told once, as failed just when it reported an error; one that runs or *)
(* was cancelled is not, even when the cancel() of an earlier one fails.    *)
THEOREM NoticesAlwaysDue == Spec => []NoticesAreDue
  <1>1. ComponentInv => NoticesAreDue
    BY NoticeInvImplies DEF ComponentInv, NoticesAreDue, Of
  <1> QED
    BY <1>1, ComponentInit, ComponentStep, PTL DEF Spec

(* AssistantStreamState: once the frames under way are taken, the text on   *)
(* screen is exactly what the attempt has written, and never that of an     *)
(* attempt whose message is durable.                                        *)
THEOREM LiveTextAlwaysWriting == Spec => []LiveTextIsWriting
  <1>1. ComponentInv => LiveTextIsWriting
    BY StreamInvImplies DEF ComponentInv, LiveTextIsWriting, Of
  <1> QED
    BY <1>1, ComponentInit, ComponentStep, PTL DEF Spec

(* AssistantStreamState.accept: streamed text stays until its message is on *)
(* screen, or an abandoned end, a new attempt or a new stream replaces it.  *)
THEOREM TextNeverFlickers == Spec => NoFlicker
  <1>1. ASSUME ComponentInv, [Next]_vars
        PROVE  [attempt # Stream!NoAttempt /\ attempt'.id # attempt.id /\ link' = "up"
                  /\ streamWire # <<>>
                => Head(streamWire).type \in {"snapshot", "start"} \/ Len(entries') > Len(entries)
                   \/ (Head(streamWire).type = "done"
                      /\ Head(streamWire).abandoned)]_(Stream!vars)
    <2>1. CASE focus # "stream"
      BY <1>1, <2>1, StreamRests
    <2>2. CASE focus = "stream"
      <3>1. StreamTypeOK
        BY <1>1, <2>2 DEF ComponentInv, StreamInv
      <3>2. [Stream!Next]_(Stream!vars)
        BY <1>1, <2>2, StreamStep
      <3> QED
        BY <3>1, <3>2, StepKeepsText
    <2> QED
      BY <2>1, <2>2
  <1> QED
    BY <1>1, ComponentInit, ComponentStep, PTL DEF Spec, NoFlicker, Stream!NoFlicker
=============================================================================
