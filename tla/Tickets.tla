------------------------------ MODULE Tickets ------------------------------
(***************************************************************************)
(* The gateway's way from an account to a WebSocket connection: register,  *)
(* log in, exchange the token for a ticket, spend the ticket in a          *)
(* handshake.  Each request is a slot that is used once.                   *)
(*                                                                         *)
(* Tokens are stateless and outlive every ticket by far (24 h against      *)
(* 30 s): a token is the user id it was signed for.  A ticket is the       *)
(* number of the Issue call, since 32 random bytes do not repeat.          *)
(***************************************************************************)
EXTENDS Naturals, Sequences, FiniteSets

CONSTANTS
  Emails, Passwords,
  Signups,         \* requests to POST /register
  Handshakes,      \* requests to GET /ws
  TTL,             \* TicketTTL
  MaxTickets,      \* bound: tickets issued
  MaxClock,        \* bound: ticks of the clock
  MaxRestarts      \* bound: restarts of the gateway

ASSUME TicketAssumption ==
  /\ Emails # {} /\ Passwords # {} /\ IsFiniteSet(Signups)
  /\ TTL \in Nat /\ MaxTickets \in Nat /\ MaxClock \in Nat /\ MaxRestarts \in Nat

VARIABLES
  clock,
  users,       \* the table of users; an id is a position
  signup,      \* signup[r]: a registration on its way
  tokens,      \* user ids that have logged in
  issued,      \* tickets issued so far
  owner,       \* owner[t], expiresAt[t]: the entry of ticket t, which never
  expiresAt,   \*   changes once it is in the map
  tickets,     \* the keys of TicketService.tickets
  reaper,      \* the time reapExpired passed to reapOnce, while it is due
  shake,       \* shake[h]: a handshake on its way
  restarts

accountVars == <<users, signup, tokens>>
mapVars     == <<issued, owner, expiresAt>>
vars == <<clock, users, signup, tokens, issued, owner, expiresAt, tickets, reaper,
          shake, restarts>>

Ids == 1..MaxTickets
Nobody == 0
MaxUsers == Cardinality(Signups)
NoReap == MaxClock + 1

NoSignup == [pc |-> "idle", email |-> CHOOSE e \in Emails : TRUE,
             password |-> CHOOSE p \in Passwords : TRUE]
NoShake  == [pc |-> "idle", ticket |-> 0, user |-> Nobody]

Init ==
  /\ clock = 0
  /\ users = <<>> /\ signup = [r \in Signups |-> NoSignup] /\ tokens = {}
  /\ issued = 0
  /\ owner = [t \in Ids |-> Nobody] /\ expiresAt = [t \in Ids |-> 0]
  /\ tickets = {}
  /\ reaper = NoReap
  /\ shake = [h \in Handshakes |-> NoShake]
  /\ restarts = 0

Tick ==
  /\ clock < MaxClock
  /\ clock' = clock + 1
  /\ UNCHANGED <<accountVars, mapVars, tickets, reaper, shake, restarts>>

-----------------------------------------------------------------------------
(* Accounts. *)

HasEmail(u, email) == users[u].email = email

EmailTaken(email) == \E u \in DOMAIN users : HasEmail(u, email)

(* Register up to GetByEmail, with bcrypt's work after it: a taken email   *)
(* is refused here ...                                                     *)
RegisterCheck(r, email, password) ==
  /\ signup[r].pc = "idle"
  /\ signup' = [signup EXCEPT ![r] =
       [pc |-> IF EmailTaken(email) THEN "refused" ELSE "checked",
        email |-> email, password |-> password]]
  /\ UNCHANGED <<clock, users, tokens, mapVars, tickets, reaper, shake, restarts>>

NewUser(r) == [email |-> signup[r].email, password |-> signup[r].password]

(* A table without the unique key. *)
RegisterCreate_NoKey(r) ==
  /\ signup[r].pc = "checked"
  /\ users' = Append(users, NewUser(r))
  /\ signup' = [signup EXCEPT ![r].pc = "created"]
  /\ UNCHANGED <<clock, tokens, mapVars, tickets, reaper, shake, restarts>>

(* ... or by the unique key of the table, when another request was faster. *)
RegisterCreate(r) ==
  /\ signup[r].pc = "checked"
  /\ IF EmailTaken(signup[r].email)
     THEN /\ signup' = [signup EXCEPT ![r].pc = "refused"]
          /\ UNCHANGED users
     ELSE /\ users' = Append(users, NewUser(r))
          /\ signup' = [signup EXCEPT ![r].pc = "created"]
  /\ UNCHANGED <<clock, tokens, mapVars, tickets, reaper, shake, restarts>>

Register(r) == \/ \E e \in Emails, p \in Passwords : RegisterCheck(r, e, p)
               \/ RegisterCreate(r)

(* UserService.Login: the row of the email, and bcrypt's comparison. *)
Matches(u, email, password) == HasEmail(u, email) /\ users[u].password = password

(* Ids counted from 0. *)
GenerateToken_FromZero(u) == tokens \union {u - 1}

GenerateToken(u) == tokens \union {u}

(* A login that fails changes nothing. *)
Login(email, password) ==
  /\ \E u \in DOMAIN users : Matches(u, email, password) /\ tokens' = GenerateToken(u)
  /\ UNCHANGED <<clock, users, signup, mapVars, tickets, reaper, shake, restarts>>

-----------------------------------------------------------------------------
(* Tickets.  Issue, Redeem and reapOnce hold the mutex. *)

(* A route outside the auth group. *)
Authorized_Anyone(u) == TRUE

(* JWTMiddleware lets a request through whose token it signed. *)
Authorized(u) == u \in tokens

Issue(u) ==
  LET t == issued + 1
  IN /\ Authorized(u) /\ issued < MaxTickets
     /\ issued' = t
     /\ owner' = [owner EXCEPT ![t] = u]
     /\ expiresAt' = [expiresAt EXCEPT ![t] = clock + TTL]
     /\ tickets' = tickets \union {t}
     /\ UNCHANGED <<clock, accountVars, reaper, shake, restarts>>

(* POST /ws-ticket: a ticket for the user of the token. *)
PostTicket == \E u \in 1..MaxUsers : Issue(u)

(* A sweep that takes tickets at the instant of their expiry. *)
Expired_Early(t, time) == time >= expiresAt[t]

(* time.After is strict: a ticket is still good at the instant itself. *)
Expired(t, time) == time > expiresAt[t]

(* Redeem that leaves the ticket in the map. *)
Spent_Kept(t) == tickets

(* Redeem deletes on read. *)
Spent(t) == tickets \ {t}

(* WSTicketMiddleware: an unknown or expired ticket is a 401. *)
Redeem(h, t) ==
  /\ shake[h].pc = "idle"
  /\ tickets' = Spent(t)
  /\ shake' = [shake EXCEPT ![h] =
       IF t \in tickets /\ ~Expired(t, clock)
       THEN [pc |-> "redeemed", ticket |-> t, user |-> owner[t]]
       ELSE [NoShake EXCEPT !.pc = "refused"]]
  /\ UNCHANGED <<clock, accountVars, mapVars, reaper, restarts>>

(* A token is minted for the user of the ticket and the request is         *)
(* proxied; a failure (500, 502, 503) does not give the ticket back.       *)
Proxy(h, ok) ==
  /\ shake[h].pc = "redeemed"
  /\ shake' = [shake EXCEPT ![h].pc = IF ok THEN "connected" ELSE "failed"]
  /\ UNCHANGED <<clock, accountVars, mapVars, tickets, reaper, restarts>>

Handshake(h) == (\E t \in Ids : Redeem(h, t)) \/ (\E ok \in BOOLEAN : Proxy(h, ok))

(* reapExpired takes the time, then reapOnce waits for the mutex. *)
ReapTick ==
  /\ reaper = NoReap
  /\ reaper' = clock
  /\ UNCHANGED <<clock, accountVars, mapVars, tickets, shake, restarts>>

(* A sweep that never deletes. *)
ReapOnce_Nothing ==
  /\ reaper # NoReap
  /\ reaper' = NoReap
  /\ UNCHANGED <<clock, accountVars, mapVars, tickets, shake, restarts>>

ReapOnce ==
  /\ reaper # NoReap
  /\ tickets' = {t \in tickets : ~Expired(t, reaper)}
  /\ reaper' = NoReap
  /\ UNCHANGED <<clock, accountVars, mapVars, shake, restarts>>

(* The map is in memory, the users and the tokens are not. *)
Restart ==
  /\ restarts < MaxRestarts
  /\ restarts' = restarts + 1
  /\ tickets' = {} /\ reaper' = NoReap
  /\ signup' = [r \in Signups |-> IF signup[r].pc = "checked"
                                  THEN [signup[r] EXCEPT !.pc = "lost"] ELSE signup[r]]
  /\ shake' = [h \in Handshakes |-> IF shake[h].pc \in {"redeemed", "connected"}
                                    THEN [shake[h] EXCEPT !.pc = "failed"] ELSE shake[h]]
  /\ UNCHANGED <<clock, users, tokens, mapVars>>

Next ==
  \/ Tick
  \/ \E r \in Signups : Register(r)
  \/ \E e \in Emails, p \in Passwords : Login(e, p)
  \/ PostTicket
  \/ \E h \in Handshakes : Handshake(h)
  \/ ReapTick \/ ReapOnce
  \/ Restart

Spec == Init /\ [][Next]_vars

(* The ticker of the reaper goes on, and the mutex is free in the end. *)
FairSpec == Spec /\ WF_vars(ReapTick) /\ WF_vars(ReapOnce)

-----------------------------------------------------------------------------
(* The tables, the map of tickets and the requests are well formed; a      *)
(* token is of a user, a ticket in the map has been issued.                *)
TypeOK ==
  /\ clock \in 0..MaxClock
  /\ users \in Seq([email : Emails, password : Passwords])
  /\ signup \in [Signups -> [pc : {"idle", "checked", "refused", "created", "lost"},
                             email : Emails, password : Passwords]]
  /\ tokens \subseteq DOMAIN users
  /\ issued \in 0..MaxTickets
  /\ owner \in [Ids -> 0..MaxUsers]
  /\ expiresAt \in [Ids -> Nat]
  /\ tickets \subseteq 1..issued
  /\ reaper \in 0..NoReap
  /\ shake \in [Handshakes -> [pc : {"idle", "redeemed", "refused", "connected", "failed"},
                               ticket : 0..MaxTickets, user : 0..MaxUsers]]
  /\ restarts \in 0..MaxRestarts

(* One email is one account, although Register looks and inserts in two    *)
(* steps and two requests may be between them: the race is lost at the     *)
(* unique key, and the loser gets no account.                              *)
OneAccountPerEmail ==
  /\ \A u, v \in DOMAIN users : users[u].email = users[v].email => u = v
  /\ Len(users) = Cardinality({r \in Signups : signup[r].pc = "created"})

(* A handshake goes through as the user to whom its ticket was issued, one *)
(* who has an account and logged in to it, whatever was issued, redeemed   *)
(* and reaped in between.                                                  *)
ConnectedAsOwner ==
  \A h \in Handshakes :
    shake[h].pc \in {"redeemed", "connected"} =>
      /\ shake[h].ticket \in 1..issued
      /\ shake[h].user = owner[shake[h].ticket]
      /\ shake[h].user \in tokens

(* The tickets of this gateway are the one-shot tickets it promises: one   *)
(* handshake each, not after the deadline, never reaped before it.         *)
Promise == INSTANCE OneShotTicket WITH
  Users <- 1..MaxUsers,
  now <- clock,
  deadline <- expiresAt,
  good <- tickets,
  spentBy <- [t \in Ids |-> {h \in Handshakes : shake[h].ticket = t}]

KeepsPromise == Promise!Spec

(* A ticket that nobody spends leaves the map once it has expired.         *)
ExpiredIsReaped ==
  \A t \in Ids : (t \in tickets /\ Expired(t, clock)) ~> t \notin tickets

(* Who somebody is: the tables are well formed, an email has one account,  *)
(* and a WebSocket carries the identity its ticket was issued to.          *)
IdentityInv == TypeOK /\ OneAccountPerEmail /\ ConnectedAsOwner

=============================================================================
