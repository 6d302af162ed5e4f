---------------------------- MODULE GatewayClient ----------------------------
(***************************************************************************)
(* NodeGatewayClient: the one-off exchange of the launch token for a        *)
(* cookie, unary calls with their deadlines, the closing of a client that   *)
(* is replaced, and one logical stream turned into an async generator.      *)
(***************************************************************************)
EXTENDS Naturals, Sequences

CONSTANTS
  Calls,   \* unary calls
  MaxItems \* bound: items of the stream

ClientAssumption == MaxItems \in Nat

(* The calls of the client by what can end them: callRaw and its wrappers,  *)
(* the fetches with a timeout of their own, and the export with neither.    *)
Abortable == {"rpc"}
Timed == {"rpc", "fetch"}
Kinds == {"rpc", "fetch", "export"}

VARIABLES
  closed,    \* abortPendingRequests was called
  cookie,    \* "unknown", "good", or "empty": an exchange that gave none
  calls,     \* [kind, state, aborted] of each call
  generator, \* "idle", "auth", "running", "waiting", "yielded", "returned", "threw"
  signal,    \* the stream's abort signal
  socket,    \* "none", "connecting", "open", "closing", "closed"
  inbox,     \* items and the end not yet taken
  failure,
  pushed,    \* items the host has sent, Finished
  delivered  \* the last item yielded

callVars == <<closed, calls>>
streamVars == <<generator, signal, socket, inbox, failure, pushed, delivered>>
vars == <<callVars, cookie, streamVars>>

Settled == {"idle", "done", "failed"}
End == 0
Finished == MaxItems + 1 \* the host has ended the stream

Init ==
  /\ closed = FALSE /\ cookie = "unknown"
  /\ calls = [c \in Calls |-> [kind |-> "rpc", state |-> "idle", aborted |-> FALSE]]
  /\ generator = "idle" /\ signal = FALSE /\ socket = "none"
  /\ inbox = <<>> /\ failure = FALSE /\ pushed = 0 /\ delivered = 0

-----------------------------------------------------------------------------
(* Unary calls.                                                             *)

Ends(c, state) == calls' = [calls EXCEPT ![c].state = state]

Begin(c, kind) ==
  /\ calls[c].state = "idle"
  /\ calls' = [calls EXCEPT ![c] = [kind |-> kind, aborted |-> FALSE,
                                    state |-> IF closed THEN "failed" ELSE "auth"]]
  /\ UNCHANGED <<closed, cookie, streamVars>>

(* ensureAuthenticated: a known cookie is used, an exchange that answered   *)
(* without one is remembered as well.                                       *)
Exchanged == IF cookie = "unknown" THEN cookie' \in {"good", "empty"} ELSE UNCHANGED cookie

(* fetch() with an aborted signal rejects at once.                          *)
Sent(c) == Ends(c, IF calls[c].aborted THEN "failed" ELSE "sent")

Authenticated(c) ==
  /\ calls[c].state = "auth"
  /\ Exchanged /\ Sent(c)
  /\ UNCHANGED <<closed, streamVars>>

ExchangeFails(c) ==
  /\ calls[c].state = "auth" /\ cookie = "unknown"
  /\ Ends(c, "failed")
  /\ UNCHANGED <<closed, cookie, streamVars>>

(* An answer, an error of the host, a status that is not OK, a wrong rpcId. *)
Answered(c) ==
  /\ calls[c].state = "sent"
  /\ \E state \in IF cookie = "empty" THEN {"failed"} ELSE {"done", "failed"} : Ends(c, state)
  /\ UNCHANGED <<closed, cookie, streamVars>>

TimesOut(c) ==
  /\ calls[c].state = "sent" /\ calls[c].kind \in Timed
  /\ Ends(c, "failed")
  /\ UNCHANGED <<closed, cookie, streamVars>>

AbortPendingRequests ==
  /\ ~closed /\ closed' = TRUE
  /\ calls' = [c \in Calls |->
       IF calls[c].kind \notin Abortable \/ calls[c].state \in Settled THEN calls[c]
       ELSE [calls[c] EXCEPT !.aborted = TRUE,
                             !.state = IF @ = "sent" THEN "failed" ELSE @]]
  /\ UNCHANGED <<cookie, streamVars>>

-----------------------------------------------------------------------------
(* openStream.  The handlers of the socket run between the generator's      *)
(* steps and wake it when it waits.                                         *)

Woken == IF generator = "waiting" THEN "running" ELSE generator
Over == generator \in {"returned", "threw"}

Enqueue(item) ==
  /\ inbox' = Append(inbox, item) /\ generator' = Woken /\ UNCHANGED failure

(* Mutant of Fail: a failure is left for the generator to find.             *)
FailQuietly == failure' = TRUE /\ inbox' = <<>> /\ UNCHANGED generator

Fail ==
  IF failure THEN UNCHANGED <<failure, inbox, generator>>
  ELSE failure' = TRUE /\ inbox' = <<>> /\ generator' = Woken

OpenStream ==
  /\ generator = "idle" /\ generator' = IF closed THEN "threw" ELSE "auth"
  /\ UNCHANGED <<callVars, cookie, signal, socket, inbox, failure, pushed, delivered>>

(* A signal that was aborted during the exchange closes the new socket.     *)
Connect ==
  /\ generator = "auth" /\ Exchanged
  /\ socket' = IF signal THEN "closing" ELSE "connecting"
  /\ generator' = IF signal THEN "returned" ELSE "running"
  /\ UNCHANGED <<callVars, signal, inbox, failure, pushed, delivered>>

Abort ==
  /\ ~signal /\ signal' = TRUE
  /\ socket' = IF socket \in {"connecting", "open"} THEN "closing" ELSE socket
  /\ UNCHANGED <<callVars, cookie, generator, inbox, failure, pushed, delivered>>

SocketOpens ==
  /\ socket = "connecting" /\ socket' = "open"
  /\ UNCHANGED <<callVars, cookie, generator, signal, inbox, failure, pushed, delivered>>

Message ==
  /\ socket \in {"open", "closing"} /\ ~Over
  /\ pushed < Finished
  /\ \/ pushed < MaxItems /\ pushed' = pushed + 1 /\ Enqueue(pushed')
     \/ pushed' = Finished /\ (Enqueue(End) \/ Fail)
  /\ UNCHANGED <<callVars, cookie, signal, socket, delivered>>

(* 'error' comes before 'close'; a close during the connection has both.    *)
SocketEnds ==
  /\ socket \in {"connecting", "open", "closing"} /\ socket' = "closed"
  /\ \/ Fail
     \/ socket # "connecting" /\ Enqueue(End)
  /\ UNCHANGED <<callVars, cookie, signal, pushed, delivered>>

(* finally: a socket that is still open is told and closed.                 *)
Leaves(how) ==
  /\ generator' = how
  /\ socket' = IF socket \in {"connecting", "open"} THEN "closing" ELSE socket

(* One turn of the generator's loops: an item, the end, the failure, or the *)
(* promise of a wake.                                                       *)
Take ==
  /\ generator = "running" /\ inbox # <<>> /\ inbox' = Tail(inbox)
  /\ IF Head(inbox) = End
     THEN Leaves("returned") /\ UNCHANGED delivered
     ELSE generator' = "yielded" /\ delivered' = Head(inbox) /\ UNCHANGED socket
  /\ UNCHANGED <<callVars, cookie, signal, failure, pushed>>

Drained ==
  /\ generator = "running" /\ inbox = <<>>
  /\ CASE failure -> Leaves("threw")
       [] OTHER -> generator' = "waiting" /\ UNCHANGED socket
  /\ UNCHANGED <<callVars, cookie, signal, inbox, failure, pushed, delivered>>

(* The outer loop stops a woken generator whose signal is aborted.          *)
Stops ==
  /\ generator = "running" /\ signal /\ Leaves("returned")
  /\ UNCHANGED <<callVars, cookie, signal, inbox, failure, pushed, delivered>>

(* The consumer asks for the next item, or leaves its loop.                 *)
Consumed ==
  /\ generator = "yielded"
  /\ \/ generator' = "running" /\ UNCHANGED socket
     \/ Leaves("returned")
  /\ UNCHANGED <<callVars, cookie, signal, inbox, failure, pushed, delivered>>

Next ==
  \/ \E c \in Calls : \/ \E kind \in Kinds : Begin(c, kind)
                      \/ Authenticated(c) \/ ExchangeFails(c) \/ Answered(c) \/ TimesOut(c)
  \/ AbortPendingRequests
  \/ OpenStream \/ Connect \/ Abort \/ SocketOpens \/ Message \/ SocketEnds
  \/ Take \/ Drained \/ Stops \/ Consumed

Spec == Init /\ [][Next]_vars

-----------------------------------------------------------------------------
(* node-gateway-client.ts:112: no call through callRaw is, or ever gets,    *)
(* under way once its client was closed, wherever the close found it.       *)
ClosedCallsSettle ==
  closed => \A c \in Calls : calls[c].kind \in Abortable => calls[c].state # "sent"

(* node-gateway-client.ts:605: a generator that waits will be woken: it has *)
(* missed no item, no end and no failure, its socket is there to report     *)
(* its end, and it is closing when the signal was aborted.  What it took is *)
(* in order and without a gap.                                              *)
NoLostWakeup ==
  /\ generator = "waiting" =>
       /\ inbox = <<>> /\ ~failure
       /\ socket \in IF signal THEN {"closing"} ELSE {"connecting", "open", "closing"}
  /\ \A i \in DOMAIN inbox : inbox[i] # End => inbox[i] = delivered + i

ClientSettles == ClosedCallsSettle /\ NoLostWakeup
=============================================================================
