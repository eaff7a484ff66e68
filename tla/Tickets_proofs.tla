--------------------------- MODULE Tickets_proofs ---------------------------
(***************************************************************************)
(* Theorems about Tickets: whom a ticket lets in, and that the gateway's   *)
(* tickets are the one-shot tickets it promises, for every number of       *)
(* users, tickets, handshakes and restarts.                                *)
(***************************************************************************)
EXTENDS Tickets, FiniteSetTheorems, TLAPS

Created == {r \in Signups : signup[r].pc = "created"}

(* Accounts: what the two steps of a registration leave in the tables. *)
AccountInv ==
  /\ users \in Seq([email : Emails, password : Passwords])
  /\ signup \in [Signups -> [pc : {"idle", "checked", "refused", "created", "lost"},
                             email : Emails, password : Passwords]]
  /\ tokens \subseteq DOMAIN users
  /\ \A u, v \in DOMAIN users : users[u].email = users[v].email => u = v
  /\ Len(users) = Cardinality(Created)

(* The map: what was issued is known, what is good was not spent, and the  *)
(* time of the reaper is not ahead.                                        *)
MapInv ==
  /\ clock \in 0..MaxClock
  /\ issued \in 0..MaxTickets
  /\ owner \in [Ids -> 0..MaxUsers]
  /\ expiresAt \in [Ids -> Nat]
  /\ tickets \subseteq 1..issued
  /\ reaper = NoReap \/ reaper \in 0..clock
  /\ restarts \in 0..MaxRestarts
  /\ \A t \in Ids : IF t <= issued THEN owner[t] \in tokens ELSE owner[t] = Nobody

(* The handshakes: one that was let in holds a ticket that is gone, and    *)
(* the identity it was issued for.                                         *)
ShakeInv ==
  /\ shake \in [Handshakes -> [pc : {"idle", "redeemed", "refused", "connected", "failed"},
                               ticket : 0..MaxTickets, user : 0..MaxUsers]]
  /\ \A h \in Handshakes :
       /\ shake[h].ticket \in 0..issued
       /\ shake[h].ticket \notin tickets
       /\ shake[h].pc = "idle" => shake[h].ticket = 0
       /\ shake[h].pc \in {"redeemed", "connected"} =>
            shake[h].ticket # 0 /\ shake[h].user = owner[shake[h].ticket]

IInv == AccountInv /\ MapInv /\ ShakeInv

(* The number of users is a natural number. *)
LEMMA MaxUsersType == MaxUsers \in Nat
BY TicketAssumption, FS_CardinalityType DEF MaxUsers

(* The invariant gives the property that the run checks. *)
LEMMA InvImplies == IInv => IdentityInv
<1> SUFFICES ASSUME IInv PROVE IdentityInv
  OBVIOUS
<1> USE TicketAssumption, MaxUsersType
<1>1. TypeOK
  BY DEF IInv, AccountInv, MapInv, ShakeInv, TypeOK, NoReap
<1>2. OneAccountPerEmail
  BY DEF IInv, AccountInv, OneAccountPerEmail, Created
<1>3. ConnectedAsOwner
  <2> SUFFICES ASSUME NEW h \in Handshakes, shake[h].pc \in {"redeemed", "connected"}
               PROVE  /\ shake[h].ticket \in 1..issued
                      /\ shake[h].user = owner[shake[h].ticket]
                      /\ shake[h].user \in tokens
    BY DEF ConnectedAsOwner
  <2>1. /\ shake[h].ticket \in 1..issued /\ shake[h].ticket \in Ids
        /\ shake[h].user = owner[shake[h].ticket]
    BY DEF IInv, ShakeInv, MapInv, Ids
  <2>2. owner[shake[h].ticket] \in tokens
    BY <2>1 DEF IInv, MapInv
  <2> QED
    BY <2>1, <2>2
<1> QED
  BY <1>1, <1>2, <1>3 DEF IdentityInv

(* An empty table, an empty map, nobody on his way. *)
LEMMA InvInit == Init => IInv
<1> SUFFICES ASSUME Init PROVE IInv
  OBVIOUS
<1> USE TicketAssumption, MaxUsersType DEF Init
<1>1. NoSignup.email \in Emails /\ NoSignup.password \in Passwords /\ NoSignup.pc = "idle"
  BY DEF NoSignup
<1>2. AccountInv
  <2>1. Created = {}
    BY <1>1 DEF Created
  <2>2. signup \in [Signups -> [pc : {"idle", "checked", "refused", "created", "lost"},
                                email : Emails, password : Passwords]]
    BY <1>1 DEF NoSignup
  <2> QED
    BY <2>1, <2>2, FS_EmptySet DEF AccountInv
<1>3. MapInv
  BY DEF MapInv, Ids, Nobody
<1>4. ShakeInv
  BY DEF ShakeInv, NoShake, Nobody
<1> QED
  BY <1>2, <1>3, <1>4 DEF IInv

(* The registrations: only RegisterCreate adds a row, and only for an      *)
(* email that is not in the table.                                         *)
LEMMA InvRegister == ASSUME IInv, NEW r \in Signups, Register(r) PROVE IInv'
<1> USE TicketAssumption, MaxUsersType
<1>0. /\ MapInv' /\ ShakeInv'
      /\ tokens' = tokens
  <2>1. UNCHANGED <<clock, tokens, issued, owner, expiresAt, tickets, reaper, shake, restarts>>
    BY DEF Register, RegisterCheck, RegisterCreate, mapVars
  <2> QED
    BY <2>1 DEF IInv, MapInv, ShakeInv
<1>1. CASE \E e \in Emails, p \in Passwords : RegisterCheck(r, e, p)
  <2>1. PICK e \in Emails, p \in Passwords : RegisterCheck(r, e, p)
    BY <1>1
  <2>2. /\ users' = users
        /\ signup' \in [Signups -> [pc : {"idle", "checked", "refused", "created", "lost"},
                                    email : Emails, password : Passwords]]
    BY <2>1 DEF RegisterCheck, IInv, AccountInv
  <2>3. Created' = Created
    BY <2>1 DEF RegisterCheck, Created, IInv, AccountInv
  <2>4. AccountInv'
    BY <1>0, <2>2, <2>3 DEF IInv, AccountInv
  <2> QED
    BY <1>0, <2>4 DEF IInv
<1>2. CASE RegisterCreate(r) /\ EmailTaken(signup[r].email)
  <2>1. users' = users /\ signup' = [signup EXCEPT ![r].pc = "refused"] /\ signup[r].pc = "checked"
    BY <1>2 DEF RegisterCreate
  <2>2. /\ signup' \in [Signups -> [pc : {"idle", "checked", "refused", "created", "lost"},
                                    email : Emails, password : Passwords]]
        /\ Created' = Created
    BY <2>1 DEF Created, IInv, AccountInv
  <2>4. AccountInv'
    BY <1>0, <2>1, <2>2 DEF IInv, AccountInv
  <2> QED
    BY <1>0, <2>4 DEF IInv
<1>3. CASE RegisterCreate(r) /\ ~EmailTaken(signup[r].email)
  <2>1. /\ users' = Append(users, NewUser(r)) /\ signup' = [signup EXCEPT ![r].pc = "created"]
        /\ signup[r].pc = "checked"
    BY <1>3 DEF RegisterCreate
  <2>2. signup' \in [Signups -> [pc : {"idle", "checked", "refused", "created", "lost"},
                                 email : Emails, password : Passwords]]
    BY <2>1 DEF IInv, AccountInv
  <2>3. Created' = Created \union {r} /\ r \notin Created
    BY <2>1 DEF Created, IInv, AccountInv
  <2>4. IsFiniteSet(Created)
    BY FS_Subset DEF Created
  <2>5. Cardinality(Created') = Cardinality(Created) + 1
    BY <2>3, <2>4, FS_AddElement
  <2>6. NewUser(r) \in [email : Emails, password : Passwords] /\ NewUser(r).email = signup[r].email
    BY DEF NewUser, IInv, AccountInv
  <2>7. /\ users' \in Seq([email : Emails, password : Passwords])
        /\ Len(users') = Len(users) + 1
        /\ DOMAIN users = 1..Len(users) /\ DOMAIN users' = 1..(Len(users) + 1)
        /\ \A u \in DOMAIN users : users'[u] = users[u]
        /\ users'[Len(users) + 1] = NewUser(r)
    BY <2>1, <2>6 DEF IInv, AccountInv
  <2>8. \A u \in DOMAIN users : users[u].email # signup[r].email
    BY <1>3 DEF EmailTaken, HasEmail
  <2>9. \A u, v \in DOMAIN users' : users'[u].email = users'[v].email => u = v
    <3> SUFFICES ASSUME NEW u \in DOMAIN users', NEW v \in DOMAIN users',
                        users'[u].email = users'[v].email
                 PROVE  u = v
      OBVIOUS
    <3>1. Len(users) \in Nat
      BY DEF IInv, AccountInv
    <3>2. (u \in DOMAIN users \/ u = Len(users) + 1) /\ (v \in DOMAIN users \/ v = Len(users) + 1)
      BY <2>7, <3>1
    <3> QED
      BY <2>6, <2>7, <2>8, <3>2 DEF IInv, AccountInv
  <2>10. AccountInv'
    <3>1. Len(users') = Cardinality(Created')
      BY <2>5, <2>7 DEF IInv, AccountInv
    <3>2. tokens' \subseteq DOMAIN users'
      BY <1>0, <2>7 DEF IInv, AccountInv
    <3> QED
      BY <2>2, <2>7, <2>9, <3>1, <3>2 DEF AccountInv
  <2> QED
    BY <1>0, <2>10 DEF IInv
<1> QED
  BY <1>1, <1>2, <1>3 DEF Register

(* Issue: the new ticket is of no handshake yet, and its owner has logged  *)
(* in.                                                                     *)
LEMMA InvIssue == ASSUME IInv, NEW u \in 1..MaxUsers, Issue(u) PROVE IInv'
<1> USE TicketAssumption, MaxUsersType
<1>1. AccountInv'
  BY DEF Issue, accountVars, IInv, AccountInv, Created
<1>2. issued + 1 \in Ids /\ issued \in Nat
  BY DEF Issue, Ids, IInv, MapInv
<1>3. /\ clock' = clock /\ reaper' = reaper /\ restarts' = restarts /\ tokens' = tokens
      /\ issued' = issued + 1 /\ shake' = shake
      /\ owner' = [owner EXCEPT ![issued + 1] = u]
      /\ expiresAt' = [expiresAt EXCEPT ![issued + 1] = clock + TTL]
      /\ tickets' = tickets \union {issued + 1}
      /\ u \in tokens
  BY DEF Issue, accountVars, Authorized
<1>4. MapInv'
  <2>1. issued' \in 0..MaxTickets /\ tickets' \subseteq 1..issued'
    BY <1>2, <1>3 DEF IInv, MapInv, Ids
  <2>2. owner' \in [Ids -> 0..MaxUsers] /\ expiresAt' \in [Ids -> Nat]
    BY <1>2, <1>3 DEF IInv, MapInv
  <2>3. \A t \in Ids : IF t <= issued' THEN owner'[t] \in tokens' ELSE owner'[t] = Nobody
    <3> SUFFICES ASSUME NEW t \in Ids
                 PROVE  IF t <= issued' THEN owner'[t] \in tokens' ELSE owner'[t] = Nobody
      OBVIOUS
    <3>1. CASE t = issued + 1
      BY <1>2, <1>3, <3>1 DEF IInv, MapInv
    <3>2. CASE t # issued + 1
      <4>1. owner'[t] = owner[t]
        BY <1>3, <3>2 DEF IInv, MapInv
      <4>2. (t <= issued) <=> (t <= issued')
        BY <1>2, <1>3, <3>2 DEF Ids
      <4> QED
        BY <1>3, <4>1, <4>2 DEF IInv, MapInv
    <3> QED
      BY <3>1, <3>2
  <2> QED
    BY <1>3, <2>1, <2>2, <2>3 DEF IInv, MapInv
<1>5. ShakeInv'
  <2> SUFFICES ASSUME NEW h \in Handshakes
               PROVE  /\ shake[h].ticket \in 0..issued'
                      /\ shake[h].ticket \notin tickets'
                      /\ shake[h].pc = "idle" => shake[h].ticket = 0
                      /\ shake[h].pc \in {"redeemed", "connected"} =>
                           shake[h].ticket # 0 /\ shake[h].user = owner'[shake[h].ticket]
    BY <1>3 DEF IInv, ShakeInv
  <2>1. /\ shake[h].ticket \in 0..issued /\ shake[h].ticket \notin tickets
        /\ shake[h].pc = "idle" => shake[h].ticket = 0
        /\ shake[h].pc \in {"redeemed", "connected"} =>
             shake[h].ticket # 0 /\ shake[h].user = owner[shake[h].ticket]
    BY DEF IInv, ShakeInv
  <2>2. shake[h].ticket # 0 => shake[h].ticket \in Ids /\ owner'[shake[h].ticket] = owner[shake[h].ticket]
    <3> DEFINE t == shake[h].ticket
    <3> HIDE DEF t
    <3>1. t \in 0..issued
      BY <2>1 DEF t
    <3>2. t # 0 => t \in Ids /\ t # issued + 1
      BY <1>2, <3>1 DEF Ids, IInv, MapInv
    <3>3. t # 0 => owner'[t] = owner[t]
      BY <1>3, <3>2 DEF IInv, MapInv
    <3> QED
      BY <3>2, <3>3 DEF t
  <2> QED
    BY <1>2, <1>3, <2>1, <2>2
<1> QED
  BY <1>1, <1>4, <1>5 DEF IInv

(* Redeem: the ticket goes, and no other handshake holds it. *)
LEMMA InvRedeem == ASSUME IInv, NEW h \in Handshakes, NEW t \in Ids, Redeem(h, t) PROVE IInv'
<1> USE TicketAssumption, MaxUsersType
<1>1. AccountInv' /\ MapInv'
  BY DEF Redeem, Spent, accountVars, mapVars, IInv, AccountInv, MapInv, Created
<1>2. /\ issued' = issued /\ owner' = owner /\ tickets' = tickets \ {t}
      /\ shake[h].pc = "idle"
  BY DEF Redeem, Spent, mapVars
<1>3. CASE t \in tickets /\ ~Expired(t, clock)
  <2>1. shake' = [shake EXCEPT ![h] = [pc |-> "redeemed", ticket |-> t, user |-> owner[t]]]
    BY <1>3 DEF Redeem
  <2>2. t \in 1..issued /\ t \in 0..MaxTickets /\ owner[t] \in 0..MaxUsers
    BY <1>3 DEF IInv, MapInv, Ids
  <2>3. shake' \in [Handshakes -> [pc : {"idle", "redeemed", "refused", "connected", "failed"},
                                   ticket : 0..MaxTickets, user : 0..MaxUsers]]
    BY <2>1, <2>2 DEF IInv, ShakeInv
  <2>4. ShakeInv'
    BY <1>2, <2>1, <2>2, <2>3 DEF IInv, ShakeInv
  <2> QED
    BY <1>1, <2>4 DEF IInv
<1>4. CASE ~(t \in tickets /\ ~Expired(t, clock))
  <2>1. shake' = [shake EXCEPT ![h] = [pc |-> "refused", ticket |-> 0, user |-> 0]]
    <3>1. [NoShake EXCEPT !.pc = "refused"] = [pc |-> "refused", ticket |-> 0, user |-> 0]
      BY DEF NoShake, Nobody
    <3>2. shake' = [shake EXCEPT ![h] = [NoShake EXCEPT !.pc = "refused"]]
      BY <1>4 DEF Redeem
    <3> QED
      BY <3>1, <3>2
  <2>2. shake' \in [Handshakes -> [pc : {"idle", "redeemed", "refused", "connected", "failed"},
                                   ticket : 0..MaxTickets, user : 0..MaxUsers]]
    BY <2>1 DEF IInv, ShakeInv
  <2>3. 0 \in 0..issued /\ 0 \notin tickets
    BY DEF IInv, MapInv
  <2>4. ShakeInv'
    BY <1>2, <2>1, <2>2, <2>3 DEF IInv, ShakeInv
  <2> QED
    BY <1>1, <2>4 DEF IInv
<1> QED
  BY <1>3, <1>4

(* Proxy keeps the ticket and the identity of its handshake. *)
LEMMA InvProxy ==
  ASSUME IInv, NEW h \in Handshakes, NEW ok \in BOOLEAN, Proxy(h, ok) PROVE IInv'
<1> USE TicketAssumption, MaxUsersType
<1>1. AccountInv' /\ MapInv'
  BY DEF Proxy, accountVars, mapVars, IInv, AccountInv, MapInv, Created
<1>2. PICK status \in {"connected", "failed"} : shake' = [shake EXCEPT ![h].pc = status]
  BY DEF Proxy
<1>3. ShakeInv'
  <2>1. issued' = issued /\ owner' = owner /\ tickets' = tickets /\ shake[h].pc = "redeemed"
    BY DEF Proxy, mapVars
  <2>2. shake' \in [Handshakes -> [pc : {"idle", "redeemed", "refused", "connected", "failed"},
                                   ticket : 0..MaxTickets, user : 0..MaxUsers]]
    BY <1>2 DEF IInv, ShakeInv
  <2> QED
    BY <1>2, <2>1, <2>2 DEF IInv, ShakeInv
<1> QED
  BY <1>1, <1>3 DEF IInv

(* A restart fails the handshakes that were under way and empties the map. *)
LEMMA InvRestart == IInv /\ Restart => IInv'
<1> SUFFICES ASSUME IInv, Restart PROVE IInv'
  OBVIOUS
<1> USE TicketAssumption, MaxUsersType
<1>1. AccountInv'
  <2>1. signup' \in [Signups -> [pc : {"idle", "checked", "refused", "created", "lost"},
                                 email : Emails, password : Passwords]]
    BY DEF Restart, IInv, AccountInv
  <2>2. Created' = Created
    BY DEF Restart, Created, IInv, AccountInv
  <2> QED
    BY <2>1, <2>2 DEF Restart, IInv, AccountInv
<1>2. MapInv'
  BY DEF Restart, mapVars, IInv, MapInv
<1>3. ShakeInv'
  <2>1. shake' \in [Handshakes -> [pc : {"idle", "redeemed", "refused", "connected", "failed"},
                                   ticket : 0..MaxTickets, user : 0..MaxUsers]]
    BY DEF Restart, IInv, ShakeInv
  <2>2. \A h \in Handshakes : /\ shake'[h].ticket = shake[h].ticket
                              /\ shake'[h].pc \notin {"redeemed", "connected"}
                              /\ shake'[h].pc = "idle" => shake[h].pc = "idle"
    BY DEF Restart, IInv, ShakeInv
  <2> QED
    BY <2>1, <2>2 DEF Restart, mapVars, IInv, ShakeInv
<1> QED
  BY <1>1, <1>2, <1>3 DEF IInv

(* Every step keeps the invariant. *)
LEMMA InvNext == IInv /\ [Next]_vars => IInv'
<1> SUFFICES ASSUME IInv, [Next]_vars PROVE IInv'
  OBVIOUS
<1> USE TicketAssumption, MaxUsersType
<1>1. CASE Tick
  <2>1. AccountInv'
    BY <1>1 DEF Tick, accountVars, IInv, AccountInv, Created
  <2>2. MapInv'
    <3>1. /\ clock \in 0..MaxClock /\ clock < MaxClock /\ clock' = clock + 1
          /\ UNCHANGED <<tokens, issued, owner, expiresAt, tickets, reaper, restarts>>
      BY <1>1 DEF Tick, accountVars, mapVars, IInv, MapInv
    <3>2. clock' \in 0..MaxClock /\ (reaper = NoReap \/ reaper \in 0..clock')
      BY <3>1 DEF IInv, MapInv
    <3> QED
      BY <3>1, <3>2 DEF IInv, MapInv
  <2>3. ShakeInv'
    BY <1>1 DEF Tick, mapVars, IInv, ShakeInv
  <2> QED
    BY <2>1, <2>2, <2>3 DEF IInv
<1>2. CASE \E r \in Signups : Register(r)
  BY <1>2, InvRegister
<1>3. CASE \E e \in Emails, p \in Passwords : Login(e, p)
  <2>1. PICK u \in DOMAIN users : tokens' = tokens \union {u}
    BY <1>3 DEF Login, GenerateToken
  <2>2. UNCHANGED <<clock, users, signup, issued, owner, expiresAt, tickets, reaper, shake, restarts>>
    BY <1>3 DEF Login, mapVars
  <2>3. Created' = Created
    BY <2>2 DEF Created
  <2>4. AccountInv'
    BY <2>1, <2>2, <2>3 DEF IInv, AccountInv
  <2>5. MapInv' /\ ShakeInv'
    BY <2>1, <2>2 DEF IInv, MapInv, ShakeInv
  <2> QED
    BY <2>4, <2>5 DEF IInv
<1>4. CASE PostTicket
  BY <1>4, InvIssue DEF PostTicket
<1>5. CASE \E h \in Handshakes : Handshake(h)
  BY <1>5, InvRedeem, InvProxy DEF Handshake
<1>6. CASE ReapTick
  <2>1. AccountInv' /\ ShakeInv'
    BY <1>6 DEF ReapTick, accountVars, mapVars, IInv, AccountInv, ShakeInv, Created
  <2>2. MapInv'
    BY <1>6 DEF ReapTick, accountVars, mapVars, IInv, MapInv
  <2> QED
    BY <2>1, <2>2 DEF IInv
<1>7. CASE ReapOnce
  BY <1>7 DEF ReapOnce, accountVars, mapVars, IInv, AccountInv, MapInv, ShakeInv, Created
<1>8. CASE Restart
  BY <1>8, InvRestart
<1>9. CASE UNCHANGED vars
  BY <1>9 DEF vars, IInv, AccountInv, MapInv, ShakeInv, Created
<1> QED
  BY <1>1, <1>2, <1>3, <1>4, <1>5, <1>6, <1>7, <1>8, <1>9 DEF Next

(* Whatever races, one email has one account, and a WebSocket carries the  *)
(* identity of one who has logged in and asked for its ticket: the check   *)
(* in Register with the unique key behind it, JWTMiddleware, Issue and     *)
(* Redeem under the mutex.                                                 *)
THEOREM IdentityHolds == Spec => []IdentityInv
<1>1. Spec => []IInv
  BY InvInit, InvNext, PTL DEF Spec
<1> QED
  BY <1>1, InvImplies, PTL

(* The refinement mapping: a ticket has let in the handshakes that hold it. *)
SpentBy(t) == {h \in Handshakes : shake[h].ticket = t}

(* The gateway starts where the promise does. *)
LEMMA RefinesInit == Init => Promise!Init
BY DEF Init, Promise!Init, NoShake, Ids, Nobody

(* Each step of the gateway is one of the promise's, or is none of its     *)
(* business.                                                               *)
LEMMA RefinesNext == IInv /\ [Next]_vars => [Promise!Next]_Promise!ticketVars
<1> SUFFICES ASSUME IInv, [Next]_vars PROVE [Promise!Next]_Promise!ticketVars
  OBVIOUS
<1> USE TicketAssumption, MaxUsersType
<1>1. CASE Tick
  <2>1. Promise!Tick
    BY <1>1 DEF Tick, Promise!Tick, mapVars
  <2> QED
    BY <2>1 DEF Promise!Next
<1>2. CASE PostTicket
  <2>1. PICK u \in 1..MaxUsers : Issue(u)
    BY <1>2 DEF PostTicket
  <2>2. issued + 1 \in Ids /\ owner[issued + 1] = Nobody
    BY <2>1 DEF Issue, Ids, IInv, MapInv
  <2>3. Promise!Issue(issued + 1, u)
    BY <2>1, <2>2 DEF Issue, Promise!Issue, mapVars
  <2> QED
    BY <2>2, <2>3 DEF Promise!Next
<1>3. ASSUME NEW h \in Handshakes, NEW t \in Ids, Redeem(h, t)
      PROVE  [Promise!Next]_Promise!ticketVars
  <2>1. /\ UNCHANGED <<clock, issued, owner, expiresAt>> /\ tickets' = tickets \ {t}
        /\ shake[h].ticket = 0 /\ 0 \notin Ids
    BY <1>3 DEF Redeem, Spent, mapVars, IInv, ShakeInv, Ids
  <2>2. CASE t \in tickets /\ ~Expired(t, clock)
    <3>1. shake' = [shake EXCEPT ![h] = [pc |-> "redeemed", ticket |-> t, user |-> owner[t]]]
      BY <1>3, <2>2 DEF Redeem
    <3>2. SpentBy(t) = {}
      BY <2>2 DEF SpentBy, IInv, ShakeInv
    <3>3. \A i \in Handshakes : shake'[i].ticket = IF i = h THEN t ELSE shake[i].ticket
      BY <3>1 DEF IInv, ShakeInv
    <3>4. [s \in Ids |-> SpentBy(s)]' = [[s \in Ids |-> SpentBy(s)] EXCEPT ![t] = {h}]
      <4>1. \A s \in Ids : SpentBy(s)' = IF s = t THEN {h} ELSE SpentBy(s)
        BY <2>1, <3>2, <3>3 DEF SpentBy
      <4> QED
        BY <4>1
    <3>5. clock <= expiresAt[t]
      BY <2>2 DEF Expired, IInv, MapInv
    <3>6. Promise!Spend(t, h)
      BY <2>1, <2>2, <3>2, <3>4, <3>5 DEF Promise!Spend, SpentBy
    <3> QED
      BY <3>6 DEF Promise!Next
  <2>3. CASE ~(t \in tickets /\ ~Expired(t, clock))
    <3>1. [s \in Ids |-> SpentBy(s)]' = [s \in Ids |-> SpentBy(s)]
      <4>1. shake' = [shake EXCEPT ![h] = [NoShake EXCEPT !.pc = "refused"]]
        BY <1>3, <2>3 DEF Redeem
      <4>2. [NoShake EXCEPT !.pc = "refused"].ticket = 0
        BY DEF NoShake
      <4>3. \A i \in Handshakes : shake'[i].ticket = shake[i].ticket
        BY <2>1, <4>1, <4>2 DEF IInv, ShakeInv
      <4> QED
        BY <4>3 DEF SpentBy
    <3>2. CASE t \in tickets
      <4>1. clock > expiresAt[t]
        BY <2>3, <3>2 DEF Expired
      <4>2. Promise!Lapse({t})
        BY <2>1, <3>1, <3>2, <4>1 DEF Promise!Lapse, SpentBy
      <4> QED
        BY <4>2 DEF Promise!Next
    <3>3. CASE t \notin tickets
      BY <2>1, <3>1, <3>3 DEF Promise!ticketVars, SpentBy
    <3> QED
      BY <3>2, <3>3
  <2> QED
    BY <2>2, <2>3
<1>4. ASSUME NEW h \in Handshakes, NEW ok \in BOOLEAN, Proxy(h, ok)
      PROVE  UNCHANGED Promise!ticketVars
  <2>1. \A i \in Handshakes : shake'[i].ticket = shake[i].ticket
    BY <1>4 DEF Proxy, IInv, ShakeInv
  <2> QED
    BY <1>4, <2>1 DEF Proxy, mapVars, Promise!ticketVars
<1>5. CASE ReapOnce
  <2> DEFINE S == {t \in tickets : Expired(t, reaper)}
  <2>1. tickets' = tickets \ S /\ UNCHANGED <<clock, owner, expiresAt, shake>>
    BY <1>5 DEF ReapOnce, mapVars
  <2>2. reaper \in 0..clock /\ clock \in Nat
    BY <1>5 DEF ReapOnce, IInv, MapInv
  <2>3. S \in SUBSET Ids /\ \A t \in S : expiresAt[t] \in Nat
    <3>1. tickets \subseteq Ids
      BY DEF IInv, MapInv, Ids
    <3>2. expiresAt \in [Ids -> Nat]
      BY DEF IInv, MapInv
    <3> QED
      BY <3>1, <3>2
  <2>4. \A t \in S : t \in tickets /\ clock > expiresAt[t]
    BY <2>2, <2>3 DEF Expired
  <2>5. Promise!Lapse(S)
    BY <2>1, <2>4 DEF Promise!Lapse
  <2> QED
    BY <2>3, <2>5 DEF Promise!Next
<1>6. CASE Restart
  <2>1. \A i \in Handshakes : shake'[i].ticket = shake[i].ticket
    BY <1>6 DEF Restart, IInv, ShakeInv
  <2>2. Promise!Forget
    BY <1>6, <2>1 DEF Restart, mapVars, Promise!Forget
  <2> QED
    BY <2>2 DEF Promise!Next
<1>7. ASSUME \/ \E r \in Signups : Register(r)
             \/ \E e \in Emails, p \in Passwords : Login(e, p)
             \/ ReapTick \/ UNCHANGED vars
      PROVE  UNCHANGED Promise!ticketVars
  <2>1. UNCHANGED <<clock, owner, expiresAt, tickets, shake>>
    BY <1>7 DEF Register, RegisterCheck, RegisterCreate, Login, ReapTick, mapVars, vars
  <2> QED
    BY <2>1 DEF Promise!ticketVars
<1> QED
  BY <1>1, <1>2, <1>3, <1>4, <1>5, <1>6, <1>7 DEF Next, Handshake

(* The tickets of TicketService are one-shot tickets: each lets in one     *)
(* handshake, not after its deadline, and before it is lost only with the  *)
(* gateway's memory, whoever races whom for the mutex.                     *)
THEOREM TicketsKeepPromise == Spec => KeepsPromise
<1>1. Spec => []IInv
  BY InvInit, InvNext, PTL DEF Spec
<1> QED
  BY <1>1, RefinesInit, RefinesNext, PTL DEF Spec, KeepsPromise, Promise!Spec

=============================================================================
