------------------------ MODULE PendingInteractions ------------------------
(***************************************************************************)
(* The approvals and questions an agent asks of the user:                  *)
(* PendingInteractions, the $events pump of HarnessGatewayService that     *)
(* feeds it (pumpRemoteEvents, handleRemoteEvent, handleWaterfall), the     *)
(* answers the user sends back (respondToInteraction), and the start and   *)
(* stop of the service around them (startEventStreams, disconnect).        *)
(*                                                                         *)
(* The host replays the requests still on offer after every ready frame.   *)
(* Frames keep their order on one socket; answers are HTTP calls that may   *)
(* fail before or after the host took them, and may settle after their     *)
(* connection is gone.                                                     *)
(***************************************************************************)
EXTENDS Naturals, Sequences, FiniteSets

CONSTANTS
  Requests,       \* requests of the host's agents, told by eventId
  Sessions,       \* agents that ask them
  Owner,          \* the agent a request belongs to
  MaxLosses,      \* bound: sockets lost, streams stopped or replaced
  MaxFrames,      \* bound: frames under way on the socket
  MaxDeliveries,  \* bound: requests put before the user
  MaxAnswers      \* bound: answers sent

ASSUME InteractionAssumption ==
  /\ IsFiniteSet(Requests)
  /\ Owner \in [Requests -> Sessions]
  /\ MaxLosses \in Nat
  /\ MaxFrames \in Nat
  /\ MaxDeliveries \in Nat
  /\ MaxAnswers \in Nat

VARIABLES
  pump,        \* the $events pump that has not been aborted
  generation,  \* its local variable of that name, 0 while undefined
  losses,      \* counter for MaxLosses
  closing,     \* generations of aborted pumps whose finally is still to run
  wire,        \* frames of its socket not handled yet
  connection,  \* PendingInteractions.connection, 0 while undefined
  revision,    \* PendingInteractions.revision
  pending,     \* PendingInteractions.pending: its values
  replying,    \* PendingInteractions.replying
  deliveries,  \* number of PendingInteraction objects made so far
  displayed,   \* [connection, request] pairs ever shown: a click may be late
  answers,     \* respondToInteraction calls awaiting the host
  attempts,    \* number of those calls so far
  offered,     \* host: requests it offers to its clients
  answered     \* host: requests it has taken an answer for

storeVars == <<connection, revision, pending, replying, deliveries, displayed>>
pumpVars == <<pump, generation, losses, closing>>
answerVars == <<answers, attempts>>
hostVars == <<offered, answered>>
vars == <<pumpVars, wire, storeVars, answerVars, hostVars>>

View == [connection : Nat \ {0}, request : Requests]
Delivery == [connection : Nat \ {0}, request : Requests, serial : Nat \ {0}]
Answer == [id : Nat \ {0}, delivery : Delivery, clicked : View,
           outcome : {"none", "taken"}]
Frame == [type : {"ready"}]
         \cup [type : {"waterfall", "cancel"}, request : Requests]
         \cup [type : {"removed"}, session : Sessions]

(* Mutant of Key: the key does not tell one connection from the next.       *)
EventKey(g, r) == <<1, r>>

(* `interaction:${generation}:${eventId}`                                   *)
Key(g, r) == <<g, r>>
KeyOf(d) == Key(d.connection, d.request)

-----------------------------------------------------------------------------
(* PendingInteractions.                                                     *)

(* Mutant of Disconnect: an old pump's cleanup is not told from the current. *)
DisconnectAny(g) ==
  /\ connection' = 0
  /\ pending' = {}
  /\ replying' = {}

(* disconnect(generation): only the connection it names.                    *)
Disconnect(g) ==
  IF connection = g
  THEN /\ connection' = 0
       /\ pending' = {}
       /\ replying' = {}
  ELSE UNCHANGED <<connection, pending, replying>>

(* disconnect() with no generation.                                         *)
DisconnectNow ==
  /\ connection' = 0
  /\ pending' = {}
  /\ replying' = {}

(* remove(key) for every record in D.                                       *)
Remaining(D) ==
  /\ pending' = pending \ D
  /\ replying' = replying \ {KeyOf(d) : d \in D}

(* Mutant of Matching: the answer is matched to a record by its key alone.  *)
MatchingKey(d) == {e \in pending : KeyOf(e) = KeyOf(d)}

(* this.pending.get(pending.key) === pending                                *)
Matching(d) == {e \in pending : e = d}

-----------------------------------------------------------------------------
Init ==
  /\ pump = "stopped"
  /\ generation = 0
  /\ losses = 0
  /\ closing = {}
  /\ wire = <<>>
  /\ connection = 0
  /\ revision = 0
  /\ pending = {}
  /\ replying = {}
  /\ deliveries = 0
  /\ displayed = {}
  /\ answers = {}
  /\ attempts = 0
  /\ offered = {}
  /\ answered = {}

-----------------------------------------------------------------------------
(* The service.                                                             *)

Lose == losses < MaxLosses /\ losses' = losses + 1

(* Mutant of Abort: a pump without a generation is cleaned up after too.    *)
AbortAlways ==
  /\ closing' = closing \cup {generation}
  /\ generation' = 0
  /\ wire' = <<>>

(* The pump is aborted: no frame it still holds is handled, its finally     *)
(* runs later.                                                              *)
Abort ==
  /\ closing' = IF generation = 0 THEN closing ELSE closing \cup {generation}
  /\ generation' = 0
  /\ wire' = <<>>

(* startEventStreams: a new pump replaces the one that may be running.      *)
StartEventStreams ==
  /\ IF pump = "stopped" THEN UNCHANGED losses ELSE Lose
  /\ pump' = "opening"
  /\ Abort
  /\ DisconnectNow
  /\ UNCHANGED <<revision, deliveries, displayed, answerVars, hostVars>>

(* disconnect of the service.  It aborts the answers under way as well,     *)
(* which only narrows how they may settle.                                  *)
ServiceDisconnect ==
  /\ pump # "stopped" /\ Lose
  /\ pump' = "stopped"
  /\ Abort
  /\ DisconnectNow
  /\ UNCHANGED <<revision, deliveries, displayed, answerVars, hostVars>>

(* The finally block of a pump that was aborted.                            *)
AbortedPumpEnds(g) ==
  /\ g \in closing
  /\ closing' = closing \ {g}
  /\ Disconnect(g)
  /\ UNCHANGED <<pump, generation, losses, wire, revision, deliveries,
                 displayed, answerVars, hostVars>>

(* Mutant of PumpReconnects: nothing opens a socket after a loss.           *)
PumpGivesUp ==
  /\ pump = "lost" /\ wire = <<>>
  /\ pump' = "lost"
  /\ generation' = 0
  /\ IF generation = 0 THEN UNCHANGED <<connection, pending, replying>>
                       ELSE Disconnect(generation)
  /\ UNCHANGED <<losses, closing, wire, revision, deliveries, displayed,
                 answerVars, hostVars>>

(* The finally block of a pump whose socket was lost; the pump then waits   *)
(* and opens a new one.                                                     *)
PumpReconnects ==
  /\ pump = "lost" /\ wire = <<>>
  /\ pump' = "opening"
  /\ generation' = 0
  /\ IF generation = 0 THEN UNCHANGED <<connection, pending, replying>>
                       ELSE Disconnect(generation)
  /\ UNCHANGED <<losses, closing, wire, revision, deliveries, displayed,
                 answerVars, hostVars>>

Handles(type) ==
  /\ pump \in {"up", "lost"}
  /\ wire # <<>> /\ Head(wire).type = type
  /\ wire' = Tail(wire)

(* beginConnection                                                          *)
HandleReady ==
  /\ Handles("ready")
  /\ revision' = revision + 1
  /\ generation' = revision + 1
  /\ connection' = revision + 1
  /\ pending' = {}
  /\ replying' = {}
  /\ UNCHANGED <<pump, losses, closing, deliveries, displayed, answerVars, hostVars>>

(* Mutant of HandleWaterfall: a repeated delivery makes a second record.    *)
HandleWaterfallTwice ==
  /\ Handles("waterfall")
  /\ LET view == [connection |-> connection, request |-> Head(wire).request]
     IN /\ pending' = pending \cup {[connection |-> connection,
                                     request |-> Head(wire).request,
                                     serial |-> deliveries + 1]}
        /\ deliveries' = deliveries + 1
        /\ displayed' = displayed \cup {view}
  /\ UNCHANGED <<pumpVars, connection, revision, replying, answerVars, hostVars>>

(* handleWaterfall and receive: a repeated delivery is ignored.             *)
HandleWaterfall ==
  /\ Handles("waterfall")
  /\ LET r == Head(wire).request
         ignored == \/ generation = 0
                    \/ connection # generation
                    \/ \E d \in pending : KeyOf(d) = Key(generation, r)
     IN IF ignored
        THEN UNCHANGED <<pending, deliveries, displayed>>
        ELSE /\ deliveries' = deliveries + 1
             /\ pending' = pending \cup {[connection |-> generation,
                                          request |-> r,
                                          serial |-> deliveries + 1]}
             /\ displayed' = displayed \cup {[connection |-> generation,
                                              request |-> r]}
  /\ UNCHANGED <<pumpVars, connection, revision, replying, answerVars, hostVars>>

HandleCancel ==
  /\ Handles("cancel")
  /\ IF generation # 0 /\ connection = generation
     THEN Remaining({d \in pending : KeyOf(d) = Key(generation, Head(wire).request)})
     ELSE UNCHANGED <<pending, replying>>
  /\ UNCHANGED <<pumpVars, connection, revision, deliveries, displayed,
                 answerVars, hostVars>>

(* api-session/removed                                                      *)
HandleRemoved ==
  /\ Handles("removed")
  /\ Remaining({d \in pending : Owner[d.request] = Head(wire).session})
  /\ UNCHANGED <<pumpVars, connection, revision, deliveries, displayed,
                 answerVars, hostVars>>

-----------------------------------------------------------------------------
(* Answers.                                                                 *)

(* Mutant of BeginResponse: an answer under way does not stop a second one. *)
BeginResponseAgain(view) ==
  /\ attempts < MaxAnswers
  /\ LET key == Key(view.connection, view.request)
     IN /\ \E d \in pending :
             /\ KeyOf(d) = key
             /\ answers' = answers \cup
                  {[id |-> attempts + 1, delivery |-> d, clicked |-> view,
                    outcome |-> "none"]}
        /\ replying' = replying \cup {key}
  /\ attempts' = attempts + 1
  /\ UNCHANGED <<pumpVars, wire, connection, revision, pending, deliveries,
                 displayed, hostVars>>

(* beginResponse for the key of a view the user saw, maybe long ago.        *)
BeginResponse(view) ==
  /\ attempts < MaxAnswers
  /\ LET key == Key(view.connection, view.request)
     IN /\ key \notin replying
        /\ \E d \in pending :
             /\ KeyOf(d) = key
             /\ answers' = answers \cup
                  {[id |-> attempts + 1, delivery |-> d, clicked |-> view,
                    outcome |-> "none"]}
        /\ replying' = replying \cup {key}
  /\ attempts' = attempts + 1
  /\ UNCHANGED <<pumpVars, wire, connection, revision, pending, deliveries,
                 displayed, hostVars>>

(* finishResponse(pending, true)                                            *)
AnswerSucceeds(a) ==
  /\ a \in answers /\ a.outcome = "taken"
  /\ answers' = answers \ {a}
  /\ Remaining(Matching(a.delivery))
  /\ UNCHANGED <<pumpVars, wire, connection, revision, deliveries, displayed,
                 attempts, hostVars>>

(* Mutant of AnswerFails: the failed answer leaves its record locked.       *)
AnswerFailsLocked(a) ==
  /\ a \in answers
  /\ answers' = answers \ {a}
  /\ UNCHANGED <<pumpVars, wire, connection, revision, pending, replying,
                 deliveries, displayed, attempts, hostVars>>

(* finishResponse(pending, false): the host refused it, or the answer to    *)
(* the call was lost, timed out or was aborted.                             *)
AnswerFails(a) ==
  /\ a \in answers
  /\ answers' = answers \ {a}
  /\ replying' = replying \ {KeyOf(d) : d \in Matching(a.delivery)}
  /\ UNCHANGED <<pumpVars, wire, connection, revision, pending, deliveries,
                 displayed, attempts, hostVars>>

-----------------------------------------------------------------------------
(* The host (external).                                                     *)

Send(frames) == wire' = IF pump = "up" THEN wire \o frames ELSE wire

HasRoom(n) == pump = "up" => Len(wire) + n <= MaxFrames

(* The socket opens: ready, then a replay of what is on offer.              *)
HostAcceptsSocket ==
  /\ pump = "opening"
  /\ pump' = "up"
  /\ \E replay \in [1..Cardinality(offered) -> offered] :
       /\ \A r \in offered : \E i \in DOMAIN replay : replay[i] = r
       /\ wire' = <<[type |-> "ready"]>> \o
            [i \in DOMAIN replay |-> [type |-> "waterfall", request |-> replay[i]]]
  /\ UNCHANGED <<generation, losses, closing, storeVars, answerVars, hostVars>>

(* The socket is lost, with or without the frames the client had buffered.  *)
SocketLost ==
  /\ pump = "up" /\ Lose
  /\ pump' = "lost"
  /\ wire' \in {wire, <<>>}
  /\ UNCHANGED <<generation, closing, storeVars, answerVars, hostVars>>

(* A request is put on offer, again after it was withdrawn, or repeated.    *)
HostOffers(r) ==
  /\ r \notin answered
  /\ deliveries + Len(wire) < MaxDeliveries /\ HasRoom(1)
  /\ offered' = offered \cup {r}
  /\ Send(<<[type |-> "waterfall", request |-> r]>>)
  /\ UNCHANGED <<pumpVars, storeVars, answerVars, answered>>

HostWithdraws(r) ==
  /\ r \in offered /\ HasRoom(1)
  /\ offered' = offered \ {r}
  /\ Send(<<[type |-> "cancel", request |-> r]>>)
  /\ UNCHANGED <<pumpVars, storeVars, answerVars, answered>>

HostRemovesSession(s) ==
  /\ HasRoom(1)
  /\ \E r \in offered : Owner[r] = s
  /\ offered' = {r \in offered : Owner[r] # s}
  /\ Send(<<[type |-> "removed", session |-> s]>>)
  /\ UNCHANGED <<pumpVars, storeVars, answerVars, answered>>

(* The host takes an answer to a request it offers; whether it also cancels *)
(* the request at the client that answered is left open.                    *)
HostTakesAnswer(a) ==
  /\ a \in answers /\ a.outcome = "none"
  /\ a.delivery.request \in offered
  /\ offered' = offered \ {a.delivery.request}
  /\ answered' = answered \cup {a.delivery.request}
  /\ answers' = (answers \ {a}) \cup {[a EXCEPT !.outcome = "taken"]}
  /\ \/ HasRoom(1) /\ Send(<<[type |-> "cancel", request |-> a.delivery.request]>>)
     \/ UNCHANGED wire
  /\ UNCHANGED <<pumpVars, storeVars, attempts>>

-----------------------------------------------------------------------------
HandleFrame == HandleReady \/ HandleWaterfall \/ HandleCancel \/ HandleRemoved

Settle(a) == AnswerSucceeds(a) \/ AnswerFails(a)

Next ==
  \/ StartEventStreams
  \/ ServiceDisconnect
  \/ \E g \in closing : AbortedPumpEnds(g)
  \/ PumpReconnects
  \/ HandleFrame
  \/ \E view \in displayed : BeginResponse(view)
  \/ \E a \in answers : Settle(a) \/ HostTakesAnswer(a)
  \/ HostAcceptsSocket
  \/ SocketLost
  \/ \E r \in Requests : HostOffers(r) \/ HostWithdraws(r)
  \/ \E s \in Sessions : HostRemovesSession(s)

(* Buffered frames are handled, the pump reconnects and the host lets it:   *)
(* nothing obliges the user, the host's agents or the network to act.       *)
Fairness ==
  /\ WF_vars(HandleFrame)
  /\ WF_vars(PumpReconnects)
  /\ WF_vars(HostAcceptsSocket)

Spec == Init /\ [][Next]_vars
FairSpec == Spec /\ Fairness

-----------------------------------------------------------------------------
TypeOK ==
  /\ pump \in {"stopped", "opening", "up", "lost"}
  /\ generation \in Nat
  /\ losses \in 0..MaxLosses
  /\ closing \subseteq Nat \ {0}
  /\ wire \in Seq(Frame)
  /\ connection \in Nat
  /\ revision \in Nat
  /\ pending \subseteq Delivery
  /\ replying \subseteq (Nat \ {0}) \X Requests
  /\ deliveries \in Nat
  /\ displayed \subseteq View
  /\ answers \subseteq Answer
  /\ attempts \in Nat
  /\ offered \subseteq Requests
  /\ answered \subseteq Requests

(* Whatever is on display belongs to the connection that is open now, and   *)
(* a request is on display at most once: nothing survives a reconnect, and  *)
(* the late cleanup of an old pump takes nothing from the new connection.   *)
OwnedByConnection ==
  /\ \A d \in pending : connection # 0 /\ d.connection = connection
  /\ \A d, e \in pending : d.request = e.request => d = e

(* The user can always answer or retry: a record is locked only while an    *)
(* answer to this very delivery is under way (replying, finishResponse).    *)
LockedOnlyWhileAnswering ==
  \A key \in replying :
    \E d \in pending, a \in answers : KeyOf(d) = key /\ a.delivery = d

(* No delivery is ever answered twice at once, across retries, reconnects,  *)
(* late outcomes and requests that were withdrawn and offered again.        *)
OneAnswerPerDelivery ==
  \A a, b \in answers : a.delivery = b.delivery => a = b

(* A click that was under way while the connection was replaced never       *)
(* answers the replay: an answer goes to the delivery the user saw.         *)
ClickAnswersWhatWasShown ==
  \A a \in answers : /\ a.clicked.connection = a.delivery.connection
                      /\ a.clicked.request = a.delivery.request

Kills(frame, r) ==
  \/ frame.type = "ready"
  \/ frame.type = "cancel" /\ frame.request = r
  \/ frame.type = "removed" /\ frame.session = Owner[r]

(* What the handling of the frames under way leads to: the request was put  *)
(* on display by frame i, or is on display already when i = 0, and no later *)
(* frame takes it away.                                                     *)
WillBeShown(r) ==
  \E i \in 0..Len(wire) :
    /\ IF i = 0 THEN \E d \in pending : d.request = r
                ELSE wire[i] = [type |-> "waterfall", request |-> r]
    /\ \A j \in (i + 1)..Len(wire) : ~Kills(wire[j], r)

(* No request is lost: while the stream is up, what the host offers is on   *)
(* display or will be once the frames under way are handled, whatever was   *)
(* answered, refused, repeated, cancelled and offered again before.         *)
NoLostRequest ==
  pump = "up" => \A r \in offered : WillBeShown(r)

OnDisplay(r) == \E d \in pending : d.request = r

(* A request the host keeps offering is put before the user in the end, as  *)
(* long as the service is not stopped (pumpRemoteEvents, waitToReconnect).  *)
OfferReachesUser ==
  \A r \in Requests :
    (r \in offered /\ pump # "stopped")
      ~> (r \notin offered \/ pump = "stopped" \/ OnDisplay(r))

(* The ledger of tickets this store implements: a ticket is the serial      *)
(* number of a delivery.                                                    *)
Ticket(r) == IF OnDisplay(r) THEN (CHOOSE d \in pending : d.request = r).serial
                             ELSE 0

Ledger == INSTANCE InteractionLedger WITH
  offer <- [r \in Requests |-> Ticket(r)],
  outstanding <- {a.delivery.serial : a \in answers},
  issued <- deliveries

(* The store implements the ledger: connections, streams, keys and late     *)
(* outcomes never show in what the user is asked and what is answered.      *)
ImplementsLedger == Ledger!Spec
=============================================================================
