----------------------------- MODULE Recipients -----------------------------
(***************************************************************************)
(* Who is told of a message, and where: the subscriptions of a room, the   *)
(* webhook registry of notification-service, the resolution of an event's  *)
(* recipients, which reads the subscribers, the presence and the webhooks  *)
(* one after the other while all three change, and the dial of a call.     *)
(*                                                                         *)
(* Module Notification takes the recipients of an event to be any set of   *)
(* users; here they are computed.  What Notification models (rows, queues, *)
(* retries, shutdown) is left out here.                                    *)
(***************************************************************************)
EXTENDS Naturals

CONSTANTS Users,
          Names,      \* hosts of URLs that are names
          Addresses,  \* IP addresses; as the host of a URL, a literal
          Forbidden,  \* the addresses of forbiddenIP, under the configured allowLoopback
          Malformed,  \* URLs that validateWebhookURL refuses for their form or as a localhost name
          Puts,       \* bound: PUT /webhook requests, each with the secret it mints
          MaxEvents,  \* bound: events resolved
          NoHook      \* no webhook, no call

ASSUME RecipientsAssumption ==
  /\ Forbidden \subseteq Addresses
  /\ MaxEvents \in Nat
  /\ NoHook \notin (Names \cup Addresses) \X Puts

Urls  == Names \cup Addresses
Hooks == Urls \X Puts   \* a URL and its secret, as stored in one row

VARIABLES
  subscribed,  \* the subscribers of the room
  online,      \* who is in the room, as presence-service would answer
  webhook,     \* the webhooks table, keyed by user: a hook or NoHook
  put,         \* the PUT requests
  fan,         \* the resolution of the one event that is in hand
  events,      \* the number of events taken up so far
  jobs,        \* recipients whose call is still to be made: <<user, hook>>
  call,        \* the last call: NoHook, or <<user, hook, address>>
  seen         \* history: what was the case since the resolution began

vars == <<subscribed, online, webhook, put, fan, events, jobs, call, seen>>

NotSent == [pc |-> "unsent"]
IdleFan == [pc |-> "idle"]

-----------------------------------------------------------------------------
(* The registry.                                                           *)

ForbiddenIP(address) == address \in Forbidden

\* Mutant: the address literals are not checked.
Validate_Names(url) == url \notin Malformed

\* validateWebhookURL: the form of the URL, and the address of a literal.  What
\* a name resolves to is not looked at.
Validate(url) == url \notin Malformed /\ ~ForbiddenIP(url)

\* History: the user's row is written, not by these requests.
Disturbed(u, own) ==
  [q \in Puts |-> IF q \notin own /\ put[q].pc # "unsent" /\ put[q].user = u
                  THEN [put[q] EXCEPT !.alone = FALSE] ELSE put[q]]

\* PUT /webhook, up to its fresh secret.  A refused URL is a 400 and changes
\* nothing.
PutMint(p, u, url) ==
  /\ put[p].pc = "unsent" /\ Validate(url)
  /\ put' = [put EXCEPT ![p] = [pc |-> "minted", user |-> u, url |-> url, alone |-> TRUE]]
  /\ UNCHANGED <<subscribed, online, webhook, fan, events, jobs, call>>

\* Mutant: the row keeps the secret it has.
Upserted_KeepSecret(u, url, secret) ==
  <<url, IF webhook[u] = NoHook THEN secret ELSE webhook[u][2]>>

\* Upsert writes the URL and the secret, in a new row or over the old one.
Upserted(u, url, secret) == <<url, secret>>

PutUpsert(p) ==
  /\ put[p].pc = "minted"
  /\ LET r == put[p] IN
     /\ webhook' = [webhook EXCEPT ![r.user] = Upserted(r.user, r.url, p)]
     /\ put' = [Disturbed(r.user, {p}) EXCEPT ![p].pc = "stored", ![p].alone = TRUE]
  /\ UNCHANGED <<subscribed, online, fan, events, jobs, call>>

GetByUserID(u) == webhook[u]

\* The row is read back and answered, with the secret of this request, or, if
\* it is gone, the answer is a 500.
PutReadBack(p) ==
  /\ put[p].pc = "stored"
  /\ LET stored == GetByUserID(put[p].user) IN
     put' = [put EXCEPT ![p] = IF stored = NoHook THEN [@ EXCEPT !.pc = "gone"]
                               ELSE [@ EXCEPT !.pc = "answered", !.url = stored[1]]]
  /\ UNCHANGED <<subscribed, online, webhook, fan, events, jobs, call>>

\* The database fails a PUT, before or after the row was written: a 500.
PutFail(p) ==
  /\ put[p].pc \in {"minted", "stored"}
  /\ put' = [put EXCEPT ![p].pc = "failed"]
  /\ UNCHANGED <<subscribed, online, webhook, fan, events, jobs, call>>

\* DELETE /webhook.
DeleteWebhook(u) ==
  /\ webhook' = [webhook EXCEPT ![u] = NoHook]
  /\ put' = Disturbed(u, {})
  /\ UNCHANGED <<subscribed, online, fan, events, jobs, call>>

-----------------------------------------------------------------------------
(* Subscriptions and presence.                                             *)

\* POST /subscriptions: subscribing twice is one subscription.
Subscribe(u) ==
  /\ subscribed' = subscribed \cup {u}
  /\ UNCHANGED <<online, webhook, put, fan, events, jobs, call>>

\* DELETE /subscriptions/:room
Unsubscribe(u) ==
  /\ subscribed' = subscribed \ {u}
  /\ UNCHANGED <<online, webhook, put, fan, events, jobs, call>>

\* A user enters or leaves the room.
ComeAndGo(u) ==
  /\ online' = (online \cup {u}) \ (online \cap {u})
  /\ UNCHANGED <<subscribed, webhook, put, fan, events, jobs, call>>

-----------------------------------------------------------------------------
(* The resolution of an event's recipients.                                *)

\* The fan-out worker takes up an event of the sender.
FanStart(sender) ==
  /\ fan.pc = "idle" /\ events < MaxEvents
  /\ events' = events + 1
  /\ fan' = [pc |-> "subscribers", sender |-> sender]
  /\ UNCHANGED <<subscribed, online, webhook, put, jobs, call>>

FanSubscribers ==
  /\ fan.pc = "subscribers"
  /\ fan' = [pc |-> "presence", sender |-> fan.sender, subs |-> subscribed]
  /\ UNCHANGED <<subscribed, online, webhook, put, events, jobs, call>>

\* Mutant: nobody is told while presence-service cannot be reached.
Unreachable_Nobody == fan.subs

\* Who counts as online if presence-service gives no answer.
Unreachable == {}

\* Mutant: the sender is told of its own message.
Candidates_Sender(away) == fan.subs \ away

\* The subscribers without the sender and without who is online.
Candidates(away) == fan.subs \ ({fan.sender} \cup away)

\* OnlineUsers answers, or fails: with another status, a body it cannot decode,
\* or no answer in time.
FanPresence ==
  /\ fan.pc = "presence"
  /\ \E blind \in BOOLEAN :
       fan' = [pc |-> "webhooks", sender |-> fan.sender, blind |-> blind,
               candidates |-> Candidates(IF blind THEN Unreachable ELSE online)]
  /\ UNCHANGED <<subscribed, online, webhook, put, events, jobs, call>>

\* ListByUserIDs: one query for all candidates.
ListByUserIDs(us) == {<<u, webhook[u]>> : u \in {v \in us : webhook[v] # NoHook}}

FanWebhooks ==
  /\ fan.pc = "webhooks"
  /\ fan' = [pc |-> "resolved", sender |-> fan.sender, blind |-> fan.blind,
             found |-> ListByUserIDs(fan.candidates)]
  /\ UNCHANGED <<subscribed, online, webhook, put, events, jobs, call>>

\* The database fails one of the two queries: no one is told.
FanFail ==
  /\ fan.pc \in {"subscribers", "webhooks"}
  /\ fan' = IdleFan
  /\ UNCHANGED <<subscribed, online, webhook, put, events, jobs, call>>

\* The recipients go to the delivery workers, hook included.
FanEnd ==
  /\ fan.pc = "resolved"
  /\ jobs' = jobs \cup fan.found
  /\ fan' = IdleFan
  /\ UNCHANGED <<subscribed, online, webhook, put, events, call>>

-----------------------------------------------------------------------------
(* A call.                                                                 *)

\* What the resolver may answer for the host of a URL: whoever controls a name
\* points it anywhere, at any time.
LookupIPAddr(url) == IF url \in Names THEN SUBSET Addresses ELSE {{url}}

\* Mutant: one address that is allowed vouches for the others.
Dialled_AnyAllowed(addrs) == IF addrs \subseteq Forbidden THEN {} ELSE addrs

\* The dialer of newSafeTransport goes through the addresses a host has now, and
\* connects to one that is not forbidden.
Dialled(addrs) == {a \in addrs : ~ForbiddenIP(a)}

\* Mutant: the secret is looked up again for the call.
SignedWith_Current(j) == IF webhook[j[1]] = NoHook THEN j[2][2] ELSE webhook[j[1]][2]

\* The secret of Sign: the one read together with the URL.
SignedWith(j) == j[2][2]

\* An attempt reaches a receiver, and is not repeated.
Call(j) ==
  /\ j \in jobs
  /\ \E addrs \in LookupIPAddr(j[2][1]) : \E a \in Dialled(addrs) : call' = <<j[1], <<j[2][1], SignedWith(j)>>, a>>
  /\ jobs' = jobs \ {j}
  /\ UNCHANGED <<subscribed, online, webhook, put, fan, events>>

\* No attempt reaches one: refused addresses only, or no connection.
CallFails(j) ==
  /\ j \in jobs
  /\ jobs' = jobs \ {j}
  /\ UNCHANGED <<subscribed, online, webhook, put, fan, events, call>>

-----------------------------------------------------------------------------
(* History.                                                                *)

\* The users to be told if the event were resolved in this very moment.
Due == {u \in subscribed \ online : webhook[u] # NoHook}

Now == [due |-> Due, subs |-> subscribed, away |-> online,
        hooks |-> {<<u, webhook[u]>> : u \in {v \in Users : webhook[v] # NoHook}}]

\* Who was due all the time, who subscribed at some time, who online all the
\* time, and which hooks were registered at some time.
Observe ==
  seen' = IF fan'.pc = "idle" THEN IdleFan
          ELSE IF fan.pc = "idle" THEN Now'
          ELSE [due   |-> seen.due \cap Now.due',   subs  |-> seen.subs \cup Now.subs',
                away  |-> seen.away \cap Now.away', hooks |-> seen.hooks \cup Now.hooks']

-----------------------------------------------------------------------------
Init ==
  /\ subscribed = {} /\ online = {}
  /\ webhook = [u \in Users |-> NoHook]
  /\ put = [p \in Puts |-> NotSent]
  /\ fan = IdleFan /\ events = 0 /\ jobs = {} /\ call = NoHook
  /\ seen = IdleFan

Put(p) ==
  \/ \E u \in Users, url \in Urls \cup Malformed : PutMint(p, u, url)
  \/ PutUpsert(p) \/ PutReadBack(p) \/ PutFail(p)

Resolve ==
  \/ \E u \in Users : FanStart(u)
  \/ FanSubscribers \/ FanPresence \/ FanWebhooks \/ FanFail \/ FanEnd

Next ==
  /\ \/ \E p \in Puts : Put(p)
     \/ \E u \in Users : DeleteWebhook(u) \/ Subscribe(u) \/ Unsubscribe(u) \/ ComeAndGo(u)
     \/ Resolve
     \/ \E j \in jobs : Call(j) \/ CallFails(j)
  /\ Observe

Spec == Init /\ [][Next]_vars

-----------------------------------------------------------------------------
(* Properties.                                                             *)

\* Tables, requests and the resolution are well formed; no forbidden URL is on
\* its way into the registry.
TypeOK ==
  /\ subscribed \in SUBSET Users /\ online \in SUBSET Users
  /\ webhook \in [Users -> Hooks \cup {NoHook}]
  /\ \A p \in Puts : put[p] = NotSent \/
       put[p] \in [pc : {"minted", "stored", "answered", "gone", "failed"}, user : Users,
                   url : Urls \ Forbidden, alone : BOOLEAN]
  /\ events \in 0..MaxEvents
  /\ fan.pc \in {"idle", "subscribers", "presence", "webhooks", "resolved"}
  /\ jobs \in SUBSET (Users \X Hooks)
  /\ call = NoHook \/ call \in Users \X Hooks \X Addresses

\* Recipients reads three tables one after the other.  Still, whoever was
\* subscribed, offline and reachable all through it is found, with presence
\* answering or not.
NobodyMissed ==
  fan.pc = "resolved" =>
    \A u \in seen.due \ {fan.sender} : \E j \in fan.found : j[1] = u

\* Nobody is told who was not subscribed at any time of the resolution, nor the
\* sender, nor, as far as presence answered, who was online throughout; and the
\* hook is one that was registered, URL and secret together, in that time.
NobodyUnasked ==
  fan.pc = "resolved" =>
    \A j \in fan.found : /\ j[1] \in seen.subs \ {fan.sender}
                         /\ j[1] \in seen.away => fan.blind
                         /\ j \in seen.hooks

\* The URL and the secret a PUT answered are the registered ones until the next
\* write of that user's webhook; a PUT whose row was gone had one in between.
AnswerHolds ==
  \A p \in Puts :
    /\ put[p].pc = "answered" /\ put[p].alone => webhook[put[p].user] = <<put[p].url, p>>
    /\ put[p].pc = "gone" => ~put[p].alone

\* Two webhooks never share a secret, so that a call to one user's URL cannot be
\* signed with what another user, or an older registration, was given; and no
\* call leaves for a forbidden address, however its name is rebound after the
\* PUT that registered it.
CallsAreOwn ==
  /\ \A u, v \in Users : u # v /\ webhook[u] # NoHook /\ webhook[v] # NoHook => webhook[u][2] # webhook[v][2]
  /\ \A j, k \in jobs : j[2][2] = k[2][2] => j = k
  /\ call # NoHook =>
       /\ call[3] \notin Forbidden
       /\ \A u \in Users : webhook[u] # NoHook /\ webhook[u][2] = call[2][2]
                             => u = call[1] /\ webhook[u] = call[2]

\* The set Recipients returns is right: nobody is missed, nobody is unasked.
RecipientsRight == NobodyMissed /\ NobodyUnasked

\* The registry is well formed and holds what a PUT was answered.
RegistryInv == TypeOK /\ AnswerHolds

=============================================================================
