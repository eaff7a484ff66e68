--------------------------- MODULE OneShotTicket ---------------------------
(***************************************************************************)
(* What the gateway promises about WebSocket tickets: a ticket is issued   *)
(* to one user, is good for one handshake until its deadline, and no       *)
(* longer; before the deadline it is lost only with the gateway's memory.  *)
(***************************************************************************)
EXTENDS Naturals

CONSTANTS Ids, Handshakes, Users, TTL, Nobody

VARIABLES
  now,
  owner,      \* owner[t]: to whom t was issued, Nobody before
  deadline,
  good,       \* tickets that can still be spent
  spentBy     \* spentBy[t]: handshakes that t let in

ticketVars == <<now, owner, deadline, good, spentBy>>

Init ==
  /\ now = 0
  /\ owner = [t \in Ids |-> Nobody]
  /\ deadline = [t \in Ids |-> 0]
  /\ good = {}
  /\ spentBy = [t \in Ids |-> {}]

Tick == /\ now' = now + 1
        /\ UNCHANGED <<owner, deadline, good, spentBy>>

Issue(t, u) ==
  /\ owner[t] = Nobody
  /\ owner' = [owner EXCEPT ![t] = u]
  /\ deadline' = [deadline EXCEPT ![t] = now + TTL]
  /\ good' = good \union {t}
  /\ UNCHANGED <<now, spentBy>>

Spend(t, h) ==
  /\ t \in good /\ now <= deadline[t] /\ spentBy[t] = {}
  /\ good' = good \ {t}
  /\ spentBy' = [spentBy EXCEPT ![t] = {h}]
  /\ UNCHANGED <<now, owner, deadline>>

Lapse(S) ==
  /\ \A t \in S : t \in good /\ now > deadline[t]
  /\ good' = good \ S
  /\ UNCHANGED <<now, owner, deadline, spentBy>>

Forget ==
  /\ good' = {}
  /\ UNCHANGED <<now, owner, deadline, spentBy>>

Next ==
  \/ Tick
  \/ \E t \in Ids : (\E u \in Users : Issue(t, u)) \/ (\E h \in Handshakes : Spend(t, h))
  \/ \E S \in SUBSET Ids : Lapse(S)
  \/ Forget

Spec == Init /\ [][Next]_ticketVars

=============================================================================
