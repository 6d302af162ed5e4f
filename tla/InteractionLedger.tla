------------------------- MODULE InteractionLedger -------------------------
(***************************************************************************)
(* What the workbench promises about approvals and questions, with no      *)
(* connection, stream, key or client id in sight.  Every time a request is *)
(* put before the user it gets a ticket.  An answer is sent for a ticket,  *)
(* at most one at a time, and its outcome concerns that ticket only: an    *)
(* accepted answer retires it, a refused one makes it answerable again, and *)
(* if the ticket is no longer on display the outcome changes nothing.      *)
(***************************************************************************)
EXTENDS Naturals

CONSTANT Requests  \* requests of the host's agents

VARIABLES
  offer,        \* the ticket each request is displayed under, 0 when it is not
  outstanding,  \* tickets an answer is under way for
  issued        \* the last ticket given out

ledgerVars == <<offer, outstanding, issued>>

Answering(r) == offer[r] # 0 /\ offer[r] \in outstanding

Init ==
  /\ offer = [r \in Requests |-> 0]
  /\ outstanding = {}
  /\ issued = 0

Show(r) ==
  /\ offer[r] = 0
  /\ issued' = issued + 1
  /\ offer' = [offer EXCEPT ![r] = issued + 1]
  /\ UNCHANGED outstanding

Answer(r) ==
  /\ offer[r] # 0
  /\ ~Answering(r)
  /\ outstanding' = outstanding \cup {offer[r]}
  /\ UNCHANGED <<offer, issued>>

Accepted(t) ==
  /\ t \in outstanding
  /\ outstanding' = outstanding \ {t}
  /\ offer' = [r \in Requests |-> IF offer[r] = t THEN 0 ELSE offer[r]]
  /\ UNCHANGED issued

Refused(t) ==
  /\ t \in outstanding
  /\ outstanding' = outstanding \ {t}
  /\ UNCHANGED <<offer, issued>>

(* A cancellation, a removed session, or the end of a connection.           *)
Withdraw(R) ==
  /\ offer' = [r \in Requests |-> IF r \in R THEN 0 ELSE offer[r]]
  /\ UNCHANGED <<outstanding, issued>>

Next ==
  \/ \E r \in Requests : Show(r) \/ Answer(r)
  \/ \E t \in outstanding : Accepted(t) \/ Refused(t)
  \/ \E R \in SUBSET Requests : Withdraw(R)

Spec == Init /\ [][Next]_ledgerVars
=============================================================================
