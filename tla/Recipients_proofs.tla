-------------------------- MODULE Recipients_proofs --------------------------
(***************************************************************************)
(* Theorems about Recipients: what a PUT was answered is registered, the   *)
(* set of recipients is right although three tables change while it is     *)
(* computed, and calls go to whom they were registered for, for any users, *)
(* hosts, addresses, requests and any number of events.                    *)
(***************************************************************************)
EXTENDS Recipients, TLAPS

-----------------------------------------------------------------------------
(* The inductive invariant.                                                *)

Requests == [pc : {"minted", "stored", "answered", "gone", "failed"}, user : Users,
             url : Urls \ Forbidden, alone : BOOLEAN]

WebhookType == webhook \in [Users -> ((Urls \ Forbidden) \X Puts) \cup {NoHook}]
PutType     == put \in [Puts -> Requests \cup {NotSent}]

\* A PUT whose row nobody has written since has its URL and its secret there.
AnswerInv ==
  \A p \in Puts :
    /\ put[p].pc \in {"stored", "answered"} /\ put[p].alone =>
         webhook[put[p].user] = <<put[p].url, p>>
    /\ put[p].pc = "gone" => ~put[p].alone

\* The hooks that are about, each with its user: registered, found for an event,
\* to be called, called.
Registered == {<<u, webhook[u]>> : u \in {v \in Users : webhook[v] # NoHook}}
Found      == IF fan.pc = "resolved" THEN fan.found ELSE {}
Called     == IF call = NoHook THEN {} ELSE {<<call[1], call[2]>>}
About      == Registered \cup Found \cup jobs \cup Called

AboutType ==
  /\ Found \subseteq Users \X Hooks /\ jobs \subseteq Users \X Hooks
  /\ call = NoHook \/ (call \in Users \X Hooks \X Addresses /\ call[3] \notin Forbidden)

\* A secret is that of one user and one URL, wherever it is, and is nowhere
\* before its PUT has written it.
SecretInv ==
  /\ \A x, y \in About : x[2][2] = y[2][2] => x = y
  /\ \A x \in About : put[x[2][2]].pc \notin {"unsent", "minted"}

\* The history is about now as well.
SeenInv ==
  fan.pc # "idle" =>
    /\ seen.due \subseteq Due /\ subscribed \subseteq seen.subs
    /\ seen.away \subseteq online /\ Registered \subseteq seen.hooks

\* The resolution after each of its reads.
FanInv ==
  /\ fan.pc = "presence" =>
       /\ seen.due \subseteq fan.subs /\ fan.subs \subseteq seen.subs
       /\ fan.subs \subseteq Users
  /\ fan.pc = "webhooks" =>
       /\ fan.candidates \subseteq Users
       /\ seen.due \ {fan.sender} \subseteq fan.candidates
       /\ fan.candidates \subseteq seen.subs \ {fan.sender}
       /\ ~fan.blind => fan.candidates \cap seen.away = {}
  /\ NobodyMissed /\ NobodyUnasked

CountType ==
  /\ subscribed \in SUBSET Users /\ online \in SUBSET Users
  /\ events \in 0..MaxEvents
  /\ fan.pc \in {"idle", "subscribers", "presence", "webhooks", "resolved"}

Registry == WebhookType /\ PutType /\ AnswerInv
IInv == Registry /\ AboutType /\ SecretInv /\ FanInv /\ CountType

USE RecipientsAssumption

\* A hook is not the absence of one.
LEMMA HooksExist == \A url \in Urls, p \in Puts : <<url, p>> # NoHook
BY DEF Urls

\* What is about has the type of a user with a hook.
LEMMA AboutTyped == WebhookType /\ AboutType => About \subseteq Users \X Hooks
<1> SUFFICES ASSUME WebhookType, AboutType PROVE About \subseteq Users \X Hooks
  OBVIOUS
<1>1. Registered \subseteq Users \X Hooks
  BY DEF WebhookType, Registered, Hooks
<1>2. Called \subseteq Users \X Hooks
  BY DEF AboutType, Called
<1> QED
  BY <1>1, <1>2 DEF AboutType, About

\* The invariant gives what the run checks.
LEMMA InvImplies == IInv => RegistryInv /\ RecipientsRight /\ CallsAreOwn
<1> SUFFICES ASSUME IInv PROVE RegistryInv /\ RecipientsRight /\ CallsAreOwn
  OBVIOUS
<1> USE DEF IInv, Registry
<1>1. webhook \in [Users -> Hooks \cup {NoHook}]
  BY DEF WebhookType, Hooks
<1>2. \A p \in Puts : put[p] = NotSent \/ put[p] \in Requests
  BY DEF PutType
<1>3. TypeOK
  BY <1>1, <1>2 DEF TypeOK, AboutType, CountType, Requests
<1>4. AnswerHolds
  BY DEF AnswerInv, AnswerHolds
<1>5. RecipientsRight
  BY DEF FanInv, RecipientsRight
<1>6. \A u \in Users : webhook[u] # NoHook => <<u, webhook[u]>> \in About
  BY DEF About, Registered
<1>7. \A u, v \in Users :
        u # v /\ webhook[u] # NoHook /\ webhook[v] # NoHook => webhook[u][2] # webhook[v][2]
  BY <1>6 DEF SecretInv
<1>8. \A j, k \in jobs : j[2][2] = k[2][2] => j = k
  BY DEF SecretInv, About
<1>9. ASSUME call # NoHook
      PROVE  /\ call[3] \notin Forbidden
             /\ \A u \in Users : webhook[u] # NoHook /\ webhook[u][2] = call[2][2]
                                   => u = call[1] /\ webhook[u] = call[2]
  <2>1. <<call[1], call[2]>> \in About
    BY <1>9 DEF About, Called
  <2>2. ASSUME NEW u \in Users, webhook[u] # NoHook, webhook[u][2] = call[2][2]
        PROVE  <<u, webhook[u]>> = <<call[1], call[2]>>
    BY <1>6, <2>1, <2>2 DEF SecretInv
  <2> QED
    BY <1>9, <2>2 DEF AboutType
<1>10. CallsAreOwn
  BY <1>7, <1>8, <1>9 DEF CallsAreOwn
<1> QED
  BY <1>3, <1>4, <1>5, <1>10 DEF RegistryInv

\* Nothing was put, and no event is in hand.
LEMMA InvInit == Init => IInv
<1> SUFFICES ASSUME Init PROVE IInv
  OBVIOUS
<1> USE DEF Init
<1>1. Registry
  BY DEF Registry, WebhookType, PutType, AnswerInv, NotSent
<1>2. About = {} /\ AboutType
  BY DEF About, Registered, Found, Called, AboutType, IdleFan
<1>3. SecretInv
  BY <1>2 DEF SecretInv
<1>4. FanInv
  BY DEF FanInv, IdleFan, NobodyMissed, NobodyUnasked
<1>5. CountType
  BY DEF CountType, IdleFan
<1> QED
  BY <1>1, <1>2, <1>3, <1>4, <1>5 DEF IInv

-----------------------------------------------------------------------------
(* The registry.                                                           *)

\* What a write of the user's row does to the requests.
LEMMA DisturbedRows ==
  ASSUME PutType, NEW u \in Users, NEW own \in SUBSET Puts, NEW q \in Puts
  PROVE  /\ Disturbed(u, own) \in [Puts -> Requests \cup {NotSent}]
         /\ Disturbed(u, own)[q].pc = put[q].pc
         /\ put[q].pc # "unsent" => /\ Disturbed(u, own)[q].user = put[q].user
                                    /\ Disturbed(u, own)[q].url = put[q].url
                                    /\ Disturbed(u, own)[q].alone => put[q].alone
                                    /\ Disturbed(u, own)[q].alone => q \in own \/ put[q].user # u
<1>1. ASSUME NEW x \in Puts
      PROVE  /\ Disturbed(u, own)[x] \in Requests \cup {NotSent}
             /\ Disturbed(u, own)[x].pc = put[x].pc
             /\ put[x].pc # "unsent" => /\ Disturbed(u, own)[x].user = put[x].user
                                        /\ Disturbed(u, own)[x].url = put[x].url
                                        /\ Disturbed(u, own)[x].alone => put[x].alone
                                        /\ Disturbed(u, own)[x].alone => x \in own \/ put[x].user # u
  <2>1. CASE put[x] = NotSent
    BY <2>1 DEF Disturbed, NotSent
  <2>2. CASE put[x] \in Requests
    BY <2>2 DEF Disturbed, Requests
  <2> QED
    BY <2>1, <2>2 DEF PutType
<1> QED
  BY <1>1 DEF Disturbed

\* A request that was sent is one.
LEMMA SentIsRequest ==
  ASSUME PutType, NEW p \in Puts, put[p].pc # "unsent" PROVE put[p] \in Requests
BY DEF PutType, NotSent

\* PutMint.
LEMMA RegistryMint ==
  ASSUME Registry, NEW p \in Puts, NEW u \in Users, NEW url \in Urls \cup Malformed,
         PutMint(p, u, url)
  PROVE  Registry' /\ webhook' = webhook /\ \A q \in Puts : q # p => put'[q] = put[q]
<1> USE DEF Registry
<1>1. /\ put[p].pc = "unsent" /\ url \in Urls \ Forbidden /\ webhook' = webhook
      /\ put' = [put EXCEPT ![p] = [pc |-> "minted", user |-> u, url |-> url, alone |-> TRUE]]
  BY DEF PutMint, Validate, ForbiddenIP
<1>2. [pc |-> "minted", user |-> u, url |-> url, alone |-> TRUE] \in Requests
  BY <1>1 DEF Requests
<1>3. PutType' /\ put'[p].pc = "minted" /\ \A q \in Puts : q # p => put'[q] = put[q]
  BY <1>1, <1>2 DEF PutType
<1>4. WebhookType' /\ AnswerInv'
  BY <1>1, <1>3 DEF WebhookType, AnswerInv
<1> QED
  BY <1>1, <1>3, <1>4

\* PutUpsert: the row has this URL and this secret, and no other request of the
\* user counts as alone any more.
LEMMA RegistryUpsert ==
  ASSUME Registry, NEW p \in Puts, PutUpsert(p)
  PROVE  /\ Registry'
         /\ put[p].pc = "minted" /\ put'[p].pc = "stored"
         /\ \A q \in Puts : q # p => put'[q].pc = put[q].pc
         /\ put[p].user \in Users /\ put[p].url \in Urls \ Forbidden
         /\ webhook'[put[p].user] = <<put[p].url, p>>
         /\ \A v \in Users : v # put[p].user => webhook'[v] = webhook[v]
<1> USE DEF Registry
<1>1. PICK r \in Requests : put[p] = r
  BY SentIsRequest DEF PutUpsert
<1> DEFINE d == Disturbed(r.user, {p})
<1>2. /\ r.pc = "minted" /\ webhook' = [webhook EXCEPT ![r.user] = <<r.url, p>>]
      /\ put' = [d EXCEPT ![p].pc = "stored", ![p].alone = TRUE]
  BY <1>1 DEF PutUpsert, Upserted
<1>3. r.user \in Users /\ r.url \in Urls \ Forbidden
  BY DEF Requests
<1>4. \A q \in Puts :
        /\ d[q].pc = put[q].pc
        /\ put[q].pc # "unsent" => /\ d[q].user = put[q].user /\ d[q].url = put[q].url
                                   /\ d[q].alone => put[q].alone
                                   /\ d[q].alone => q \in {p} \/ put[q].user # r.user
  BY <1>3, DisturbedRows
<1>5. d \in [Puts -> Requests \cup {NotSent}]
  BY <1>3, DisturbedRows
<1> HIDE DEF d
<1>6. d[p] \in Requests
  BY <1>1, <1>2, <1>4, <1>5 DEF NotSent
<1>7. /\ put' \in [Puts -> Requests \cup {NotSent}]
      /\ put'[p].pc = "stored" /\ put'[p].user = r.user /\ put'[p].url = r.url
      /\ \A q \in Puts : q # p => put'[q] = d[q]
  BY <1>1, <1>2, <1>4, <1>5, <1>6 DEF Requests
<1>8. /\ WebhookType' /\ webhook'[r.user] = <<r.url, p>>
      /\ \A v \in Users : v # r.user => webhook'[v] = webhook[v]
  BY <1>2, <1>3 DEF WebhookType
<1>9. AnswerInv'
  <2>1. \A q \in Puts : put[q].pc # "unsent" => put[q].user \in Users
    BY SentIsRequest DEF Requests
  <2>2. ASSUME NEW q \in Puts, q # p
        PROVE  /\ put'[q].pc \in {"stored", "answered"} /\ put'[q].alone =>
                    webhook'[put'[q].user] = <<put'[q].url, q>>
               /\ put'[q].pc = "gone" => ~put'[q].alone
    <3>1. put'[q] = d[q] /\ put'[q].pc = put[q].pc
      BY <1>4, <1>7, <2>2
    <3>2. ASSUME put[q].pc # "unsent"
          PROVE  /\ put'[q].user = put[q].user /\ put'[q].url = put[q].url
                 /\ put'[q].alone => put[q].alone /\ put[q].user # r.user
      BY <1>4, <2>2, <3>1, <3>2
    <3>3. ASSUME put'[q].pc \in {"stored", "answered"}, put'[q].alone
          PROVE  webhook'[put'[q].user] = <<put'[q].url, q>>
      <4>1. webhook[put[q].user] = <<put[q].url, q>> /\ put[q].user # r.user
        BY <3>1, <3>2, <3>3 DEF AnswerInv
      <4> QED
        BY <1>8, <2>1, <3>1, <3>2, <3>3, <4>1
    <3>4. put'[q].pc = "gone" => ~put'[q].alone
      BY <3>1, <3>2 DEF AnswerInv
    <3> QED
      BY <3>3, <3>4
  <2> QED
    BY <1>7, <1>8, <2>2 DEF AnswerInv
<1> QED
  BY <1>1, <1>2, <1>3, <1>4, <1>7, <1>8, <1>9 DEF PutType

\* PutReadBack: if nobody has written the row since, it is the one written.
LEMMA RegistryReadBack ==
  ASSUME Registry, NEW p \in Puts, PutReadBack(p)
  PROVE  /\ Registry' /\ webhook' = webhook
         /\ \A q \in Puts : q # p => put'[q] = put[q]
         /\ put'[p].pc \in {"answered", "gone"}
<1> USE DEF Registry
<1>1. PICK r \in Requests : put[p] = r
  BY SentIsRequest DEF PutReadBack
<1>2. r.pc = "stored" /\ r.user \in Users /\ webhook' = webhook
  BY <1>1 DEF PutReadBack, Requests
<1> DEFINE hook == webhook[r.user]
<1>3. r.alone => hook = <<r.url, p>>
  BY <1>1, <1>2 DEF AnswerInv
<1>4. CASE hook = NoHook
  <2>1. put' = [put EXCEPT ![p] = [r EXCEPT !.pc = "gone"]]
    BY <1>1, <1>4 DEF PutReadBack, GetByUserID
  <2>2. ~r.alone
    BY <1>3, <1>4, HooksExist DEF Requests
  <2>3. [r EXCEPT !.pc = "gone"] \in Requests
    BY DEF Requests
  <2>4. PutType' /\ put'[p].pc = "gone" /\ ~put'[p].alone /\ \A q \in Puts : q # p => put'[q] = put[q]
    BY <2>1, <2>2, <2>3 DEF PutType, Requests
  <2> QED
    BY <1>2, <2>4 DEF WebhookType, AnswerInv
<1>5. CASE hook # NoHook
  <2>1. put' = [put EXCEPT ![p] = [r EXCEPT !.pc = "answered", !.url = hook[1]]]
    BY <1>1, <1>5 DEF PutReadBack, GetByUserID
  <2>2. hook[1] \in Urls \ Forbidden
    BY <1>2, <1>5 DEF WebhookType
  <2>3. /\ [r EXCEPT !.pc = "answered", !.url = hook[1]] \in Requests
    BY <2>2 DEF Requests
  <2>4. /\ PutType' /\ put'[p].pc = "answered" /\ put'[p].alone = r.alone
        /\ put'[p].user = r.user /\ put'[p].url = hook[1]
        /\ \A q \in Puts : q # p => put'[q] = put[q]
    BY <2>1, <2>3 DEF PutType, Requests
  <2>5. r.alone => hook = <<hook[1], p>>
    BY <1>3
  <2>6. AnswerInv'
    BY <1>2, <2>4, <2>5 DEF AnswerInv
  <2> QED
    BY <1>2, <2>4, <2>6 DEF WebhookType
<1> QED
  BY <1>4, <1>5

\* PutFail.
LEMMA RegistryFail ==
  ASSUME Registry, NEW p \in Puts, PutFail(p)
  PROVE  /\ Registry' /\ webhook' = webhook
         /\ \A q \in Puts : q # p => put'[q] = put[q]
         /\ put'[p].pc = "failed"
<1> USE DEF Registry
<1>1. PICK r \in Requests : put[p] = r
  BY SentIsRequest DEF PutFail
<1>2. put' = [put EXCEPT ![p] = [r EXCEPT !.pc = "failed"]] /\ webhook' = webhook
  BY <1>1 DEF PutFail
<1>3. [r EXCEPT !.pc = "failed"] \in Requests
  BY DEF Requests
<1>4. PutType' /\ put'[p].pc = "failed" /\ \A q \in Puts : q # p => put'[q] = put[q]
  BY <1>2, <1>3 DEF PutType, Requests
<1> QED
  BY <1>2, <1>4 DEF WebhookType, AnswerInv

\* DeleteWebhook.
LEMMA RegistryDelete ==
  ASSUME Registry, NEW u \in Users, DeleteWebhook(u)
  PROVE  /\ Registry' /\ webhook'[u] = NoHook
         /\ \A v \in Users : v # u => webhook'[v] = webhook[v]
         /\ \A q \in Puts : put'[q].pc = put[q].pc
<1> USE DEF Registry
<1>1. webhook' = [webhook EXCEPT ![u] = NoHook] /\ put' = Disturbed(u, {})
  BY DEF DeleteWebhook
<1>2. /\ WebhookType' /\ webhook'[u] = NoHook
      /\ \A v \in Users : v # u => webhook'[v] = webhook[v]
  BY <1>1 DEF WebhookType
<1>3. \A q \in Puts :
        /\ put'[q].pc = put[q].pc
        /\ put[q].pc # "unsent" => /\ put'[q].user = put[q].user /\ put'[q].url = put[q].url
                                   /\ put'[q].alone => put[q].alone
                                   /\ put'[q].alone => put[q].user # u
  BY <1>1, DisturbedRows
<1>4. PutType'
  <2>1. Disturbed(u, {}) \in [Puts -> Requests \cup {NotSent}]
    <3>1. CASE Puts = {}
      BY <3>1 DEF Disturbed
    <3>2. CASE Puts # {}
      BY <3>2, DisturbedRows
    <3> QED
      BY <3>1, <3>2
  <2> QED
    BY <1>1, <2>1 DEF PutType
<1>5. \A q \in Puts : put[q].pc # "unsent" => put[q].user \in Users
  BY SentIsRequest DEF Requests
<1>6. AnswerInv'
  BY <1>2, <1>3, <1>5 DEF AnswerInv
<1> QED
  BY <1>2, <1>3, <1>4, <1>6

-----------------------------------------------------------------------------
(* The resolution and its history.                                         *)

\* What an observation does while an event is in hand.
LEMMA Observed ==
  ASSUME Observe, fan'.pc # "idle"
  PROVE  /\ SeenInv'
         /\ fan.pc # "idle" => /\ seen'.due \subseteq seen.due /\ seen.subs \subseteq seen'.subs
                               /\ seen'.away \subseteq seen.away /\ seen.hooks \subseteq seen'.hooks
<1>1. CASE fan.pc = "idle"
  BY <1>1 DEF Observe, Now, SeenInv, Registered
<1>2. CASE fan.pc # "idle"
  <2>1. seen' = [due  |-> seen.due \cap Now.due',   subs  |-> seen.subs \cup Now.subs',
                 away |-> seen.away \cap Now.away', hooks |-> seen.hooks \cup Now.hooks']
    BY <1>2 DEF Observe
  <2>2. /\ Now.due' = Due' /\ Now.subs' = subscribed' /\ Now.away' = online'
        /\ Now.hooks' = Registered'
    BY DEF Now, Registered
  <2>3. /\ seen'.due = seen.due \cap Due' /\ seen'.subs = seen.subs \cup subscribed'
        /\ seen'.away = seen.away \cap online' /\ seen'.hooks = seen.hooks \cup Registered'
    BY <2>1, <2>2
  <2> QED
    BY <2>3 DEF SeenInv
<1> QED
  BY <1>1, <1>2

\* While the resolution stands still, whatever changes around it keeps what it
\* has read right with respect to the history.
LEMMA FanWaits == ASSUME FanInv, Observe, fan' = fan PROVE FanInv'
<1>1. CASE fan.pc = "idle"
  BY <1>1 DEF FanInv, NobodyMissed, NobodyUnasked
<1>2. CASE fan.pc # "idle"
  <2>1. /\ seen'.due \subseteq seen.due /\ seen.subs \subseteq seen'.subs
        /\ seen'.away \subseteq seen.away /\ seen.hooks \subseteq seen'.hooks
    BY <1>2, Observed
  <2>2. NobodyMissed'
    BY <2>1 DEF FanInv, NobodyMissed
  <2>3. NobodyUnasked'
    BY <2>1 DEF FanInv, NobodyUnasked
  <2> QED
    BY <2>1, <2>2, <2>3 DEF FanInv
<1> QED
  BY <1>1, <1>2

\* The resolution of an event is right after every one of its reads.
LEMMA FanSteps == ASSUME FanInv, CountType, Observe, Resolve PROVE FanInv'
<1>1. CASE fan'.pc \in {"idle", "subscribers"}
  BY <1>1 DEF FanInv, NobodyMissed, NobodyUnasked
<1>2. CASE FanSubscribers
  <2>1. /\ fan' = [pc |-> "presence", sender |-> fan.sender, subs |-> subscribed]
        /\ subscribed' = subscribed /\ fan'.pc = "presence" /\ fan'.subs = subscribed
    BY <1>2 DEF FanSubscribers
  <2>2. SeenInv'
    BY <2>1, Observed
  <2>3. seen'.due \subseteq subscribed /\ subscribed \subseteq seen'.subs
    BY <2>1, <2>2 DEF SeenInv, Due
  <2> QED
    BY <2>1, <2>3 DEF FanInv, CountType, NobodyMissed, NobodyUnasked
<1>3. CASE FanPresence
  <2>1. PICK blind \in BOOLEAN :
          fan' = [pc |-> "webhooks", sender |-> fan.sender, blind |-> blind,
                  candidates |-> Candidates(IF blind THEN Unreachable ELSE online)]
    BY <1>3 DEF FanPresence
  <2>2. /\ fan.pc = "presence" /\ subscribed' = subscribed /\ online' = online
    BY <1>3 DEF FanPresence
  <2>3. /\ fan'.pc = "webhooks" /\ fan'.sender = fan.sender /\ fan'.blind = blind
        /\ fan'.candidates = fan.subs \ ({fan.sender} \cup (IF blind THEN {} ELSE online))
    BY <2>1 DEF Candidates, Unreachable
  <2>4. SeenInv' /\ seen'.due \subseteq seen.due /\ seen.subs \subseteq seen'.subs
    BY <2>2, <2>3, Observed
  <2>5. /\ seen'.due \cap online = {} /\ seen'.away \subseteq online
    BY <2>2, <2>3, <2>4 DEF SeenInv, Due
  <2>6. seen.due \subseteq fan.subs /\ fan.subs \subseteq seen.subs /\ fan.subs \subseteq Users
    BY <2>2 DEF FanInv
  <2>7. /\ seen'.due \ {fan'.sender} \subseteq fan'.candidates
        /\ fan'.candidates \subseteq seen'.subs \ {fan'.sender} /\ fan'.candidates \subseteq Users
    BY <2>3, <2>4, <2>5, <2>6
  <2>8. ~fan'.blind => fan'.candidates \cap seen'.away = {}
    BY <2>3, <2>5
  <2> QED
    BY <2>3, <2>7, <2>8 DEF FanInv, NobodyMissed, NobodyUnasked
<1>4. CASE FanWebhooks
  <2>1. /\ fan' = [pc |-> "resolved", sender |-> fan.sender, blind |-> fan.blind,
                   found |-> ListByUserIDs(fan.candidates)]
        /\ fan.pc = "webhooks" /\ webhook' = webhook
    BY <1>4 DEF FanWebhooks
  <2>2. /\ fan'.pc = "resolved" /\ fan'.sender = fan.sender /\ fan'.blind = fan.blind
        /\ fan'.found = {<<u, webhook[u]>> : u \in {v \in fan.candidates : webhook[v] # NoHook}}
    BY <2>1 DEF ListByUserIDs
  <2>3. /\ SeenInv' /\ seen'.due \subseteq seen.due /\ seen.subs \subseteq seen'.subs
        /\ seen'.away \subseteq seen.away
    BY <2>1, <2>2, Observed
  <2>4. /\ seen.due \ {fan.sender} \subseteq fan.candidates
        /\ fan.candidates \subseteq seen.subs \ {fan.sender}
        /\ ~fan.blind => fan.candidates \cap seen.away = {}
    BY <2>1 DEF FanInv
  <2>5. \A u \in seen'.due : webhook[u] # NoHook
    BY <2>1, <2>2, <2>3 DEF SeenInv, Due
  <2>6. NobodyMissed'
    <3> SUFFICES ASSUME NEW u \in seen'.due \ {fan.sender}
                 PROVE  \E j \in fan'.found : j[1] = u
      BY <2>2 DEF NobodyMissed
    <3>1. <<u, webhook[u]>> \in fan'.found
      BY <2>2, <2>3, <2>4, <2>5
    <3> QED
      BY <3>1
  <2>7. NobodyUnasked'
    <3> SUFFICES ASSUME NEW j \in fan'.found
                 PROVE  /\ j[1] \in seen'.subs \ {fan.sender}
                        /\ j[1] \in seen'.away => fan.blind
                        /\ j \in seen'.hooks
      BY <2>2 DEF NobodyUnasked
    <3>1. PICK u \in fan.candidates : webhook[u] # NoHook /\ j = <<u, webhook[u]>>
      BY <2>2
    <3>2. u \in Users
      BY <2>1 DEF FanInv
    <3>3. <<u, webhook[u]>> \in Registered'
      BY <2>1, <3>1, <3>2 DEF Registered
    <3> QED
      BY <2>2, <2>3, <2>4, <3>1, <3>3 DEF SeenInv
  <2> QED
    BY <2>2, <2>6, <2>7 DEF FanInv
<1> QED
  BY <1>1, <1>2, <1>3, <1>4 DEF Resolve, FanStart, FanFail, FanEnd, IdleFan

-----------------------------------------------------------------------------
(* The secrets.                                                            *)

\* A step after which nothing new is about.
LEMMA SecretsKept ==
  ASSUME WebhookType, AboutType, SecretInv, About' \subseteq About,
         \A q \in Puts : put'[q].pc \in {"unsent", "minted"} => put[q].pc \in {"unsent", "minted"}
  PROVE  SecretInv'
<1>1. \A x \in About : x[2][2] \in Puts
  BY AboutTyped DEF Hooks
<1>2. \A x, y \in About' : x[2][2] = y[2][2] => x = y
  BY DEF SecretInv
<1>3. \A x \in About' : put'[x[2][2]].pc \notin {"unsent", "minted"}
  BY <1>1 DEF SecretInv
<1> QED
  BY <1>2, <1>3 DEF SecretInv

\* A step that leaves the hooks and the requests alone.
LEMMA SecretsSame ==
  ASSUME WebhookType, AboutType, SecretInv, UNCHANGED <<webhook, put, fan, jobs, call>>
  PROVE  AboutType' /\ SecretInv'
<1>1. About' = About
  BY DEF About, Registered, Found, Called
<1>2. AboutType'
  BY DEF AboutType, Found
<1> QED
  BY <1>1, <1>2, SecretsKept

\* A PUT brings a hook with a secret that is nowhere yet.
LEMMA SecretsPut ==
  ASSUME IInv, NEW p \in Puts, Put(p) PROVE AboutType' /\ SecretInv'
<1> USE DEF IInv
<1>1. UNCHANGED <<fan, jobs, call>>
  BY DEF Put, PutMint, PutUpsert, PutReadBack, PutFail
<1>2. AboutType' /\ Found' = Found /\ Called' = Called /\ jobs' = jobs
  BY <1>1 DEF AboutType, Found, Called
<1>3. CASE \E u \in Users, url \in Urls \cup Malformed : PutMint(p, u, url)
  <2>1. PICK u \in Users, url \in Urls \cup Malformed : PutMint(p, u, url)
    BY <1>3
  <2>2. put[p].pc = "unsent" /\ webhook' = webhook /\ \A q \in Puts : q # p => put'[q] = put[q]
    BY <2>1, RegistryMint DEF PutMint
  <2>3. About' = About
    BY <1>2, <2>2 DEF About, Registered
  <2> QED
    BY <1>2, <2>2, <2>3, SecretsKept DEF Registry
<1>4. CASE PutUpsert(p)
  <2>1. PICK u \in Users, url \in Urls \ Forbidden : u = put[p].user /\ url = put[p].url
    BY <1>4, RegistryUpsert
  <2>2. /\ put[p].pc = "minted" /\ put'[p].pc = "stored"
        /\ \A q \in Puts : q # p => put'[q].pc = put[q].pc
        /\ webhook'[u] = <<url, p>> /\ \A v \in Users : v # u => webhook'[v] = webhook[v]
    BY <1>4, <2>1, RegistryUpsert
  <2> DEFINE new == <<u, <<url, p>>>>
  <2>3. About' \subseteq About \cup {new}
    BY <1>2, <2>2 DEF About, Registered
  <2>4. About \subseteq Users \X Hooks
    BY AboutTyped DEF Registry
  <2>5. \A x \in About : x[2][2] \in Puts /\ x[2][2] # p
    BY <2>2, <2>4 DEF SecretInv, Hooks
  <2>6. new[2][2] = p
    OBVIOUS
  <2> HIDE DEF new
  <2>7. \A x, y \in About' : x[2][2] = y[2][2] => x = y
    BY <2>3, <2>5, <2>6 DEF SecretInv
  <2>8. \A x \in About' : put'[x[2][2]].pc \notin {"unsent", "minted"}
    BY <2>2, <2>3, <2>5, <2>6 DEF SecretInv
  <2> QED
    BY <1>2, <2>7, <2>8 DEF SecretInv
<1>5. CASE PutReadBack(p) \/ PutFail(p)
  <2>1. /\ webhook' = webhook /\ \A q \in Puts : q # p => put'[q] = put[q]
        /\ put'[p].pc \in {"answered", "gone", "failed"}
    BY <1>5, RegistryReadBack, RegistryFail
  <2>2. About' = About
    BY <1>2, <2>1 DEF About, Registered
  <2> QED
    BY <1>2, <2>1, <2>2, SecretsKept DEF Registry
<1> QED
  BY <1>3, <1>4, <1>5 DEF Put

\* DELETE takes a hook away.
LEMMA SecretsDelete ==
  ASSUME IInv, NEW u \in Users, DeleteWebhook(u) PROVE AboutType' /\ SecretInv'
<1> USE DEF IInv
<1>1. UNCHANGED <<fan, jobs, call>>
  BY DEF DeleteWebhook
<1>2. /\ webhook'[u] = NoHook /\ \A v \in Users : v # u => webhook'[v] = webhook[v]
      /\ \A q \in Puts : put'[q].pc = put[q].pc
  BY RegistryDelete
<1>3. AboutType'
  BY <1>1 DEF AboutType, Found
<1>4. About' \subseteq About
  BY <1>1, <1>2 DEF About, Registered, Found, Called
<1> QED
  BY <1>2, <1>3, <1>4, SecretsKept DEF Registry

\* The resolution copies hooks from the registry to the jobs.
LEMMA SecretsResolve ==
  ASSUME IInv, Resolve PROVE AboutType' /\ SecretInv'
<1> USE DEF IInv
<1>1. UNCHANGED <<webhook, put, call>>
  BY DEF Resolve, FanStart, FanSubscribers, FanPresence, FanWebhooks, FanFail, FanEnd
<1>2. Registered' = Registered /\ Called' = Called
  BY <1>1 DEF Registered, Called
<1>3. Found' \subseteq Found \cup Registered /\ jobs' \subseteq jobs \cup Found
  <2>1. CASE FanWebhooks
    <3>1. /\ jobs' = jobs /\ fan.candidates \subseteq Users
          /\ Found' = {<<u, webhook[u]>> : u \in {v \in fan.candidates : webhook[v] # NoHook}}
      BY <2>1 DEF FanWebhooks, FanInv, Found, ListByUserIDs
    <3> QED
      BY <3>1 DEF Registered
  <2>2. CASE FanEnd
    BY <2>2 DEF FanEnd, Found, IdleFan
  <2>3. CASE (\E u \in Users : FanStart(u)) \/ FanSubscribers \/ FanPresence \/ FanFail
    BY <2>3 DEF FanStart, FanSubscribers, FanPresence, FanFail, Found, IdleFan
  <2> QED
    BY <2>1, <2>2, <2>3 DEF Resolve
<1>4. About' \subseteq About
  BY <1>2, <1>3 DEF About
<1>5. Registered \subseteq Users \X Hooks
  BY AboutTyped DEF Registry, About
<1>6. AboutType'
  BY <1>1, <1>3, <1>5 DEF AboutType
<1> QED
  BY <1>1, <1>4, <1>6, SecretsKept DEF Registry

\* A call goes out with the user, the URL and the secret of its job.
LEMMA SecretsCall ==
  ASSUME IInv, NEW j \in jobs, Call(j) \/ CallFails(j) PROVE AboutType' /\ SecretInv'
<1> USE DEF IInv
<1>1. UNCHANGED <<webhook, put, fan>> /\ jobs' \subseteq jobs
  BY DEF Call, CallFails
<1>2. j \in Users \X Hooks /\ j[2] \in Urls \X Puts
  BY DEF AboutType, Hooks
<1>3. j = <<j[1], <<j[2][1], j[2][2]>>>>
  BY <1>2
<1>4. CASE Call(j)
  <2>1. PICK addrs \in LookupIPAddr(j[2][1]) : \E a \in Dialled(addrs) :
           call' = <<j[1], <<j[2][1], j[2][2]>>, a>>
    BY <1>4 DEF Call, SignedWith
  <2>2. addrs \subseteq Addresses
    BY <1>2 DEF LookupIPAddr, Urls
  <2>3. PICK a \in Addresses : a \notin Forbidden /\ call' = <<j[1], <<j[2][1], j[2][2]>>, a>>
    BY <2>1, <2>2 DEF Dialled, ForbiddenIP
  <2>4. /\ call' \in Users \X Hooks \X Addresses /\ call'[3] \notin Forbidden
        /\ <<call'[1], call'[2]>> = j
    BY <1>2, <1>3, <2>3 DEF Hooks
  <2>5. AboutType'
    BY <1>1, <2>4 DEF AboutType, Found
  <2>6. Called' \subseteq jobs
    BY <2>4 DEF Called
  <2>7. About' \subseteq About
    BY <1>1, <2>6 DEF About, Registered, Found
  <2> QED
    BY <1>1, <2>5, <2>7, SecretsKept DEF Registry
<1>5. CASE CallFails(j)
  <2>1. call' = call
    BY <1>5 DEF CallFails
  <2>2. AboutType' /\ About' \subseteq About
    BY <1>1, <2>1 DEF AboutType, About, Registered, Found, Called
  <2> QED
    BY <1>1, <2>2, SecretsKept DEF Registry
<1> QED
  BY <1>4, <1>5

-----------------------------------------------------------------------------
(* The whole system.                                                       *)

\* Every step keeps the registry in order.
LEMMA InvRegistry == ASSUME IInv, Next PROVE Registry'
<1>1. Registry
  BY DEF IInv
<1>2. ASSUME UNCHANGED <<webhook, put>> PROVE Registry'
  BY <1>1, <1>2 DEF Registry, WebhookType, PutType, AnswerInv
<1>3. CASE \E p \in Puts : Put(p)
  BY <1>1, <1>3, RegistryMint, RegistryUpsert, RegistryReadBack, RegistryFail DEF Put
<1>4. CASE \E u \in Users : DeleteWebhook(u)
  BY <1>1, <1>4, RegistryDelete
<1>5. CASE \E u \in Users : Subscribe(u) \/ Unsubscribe(u) \/ ComeAndGo(u)
  BY <1>2, <1>5 DEF Subscribe, Unsubscribe, ComeAndGo
<1>6. CASE Resolve
  BY <1>2, <1>6 DEF Resolve, FanStart, FanSubscribers, FanPresence, FanWebhooks, FanFail, FanEnd
<1>7. CASE \E j \in jobs : Call(j) \/ CallFails(j)
  BY <1>2, <1>7 DEF Call, CallFails
<1> QED
  BY <1>3, <1>4, <1>5, <1>6, <1>7 DEF Next

\* Every step keeps the hooks that are about in order.
LEMMA InvSecrets == ASSUME IInv, Next PROVE AboutType' /\ SecretInv'
<1>1. CASE \E u \in Users : Subscribe(u) \/ Unsubscribe(u) \/ ComeAndGo(u)
  <2>1. UNCHANGED <<webhook, put, fan, jobs, call>>
    BY <1>1 DEF Subscribe, Unsubscribe, ComeAndGo
  <2> QED
    BY <2>1, SecretsSame DEF IInv, Registry
<1> QED
  BY <1>1, SecretsPut, SecretsDelete, SecretsResolve, SecretsCall DEF Next

\* Every step keeps the resolution right.
LEMMA InvFan == ASSUME IInv, Next PROVE FanInv'
<1>1. FanInv /\ CountType /\ Observe
  BY DEF IInv, Next
<1>2. CASE Resolve
  BY <1>1, <1>2, FanSteps
<1>3. CASE ~Resolve
  <2>1. fan' = fan
    BY <1>3 DEF Next, Put, PutMint, PutUpsert, PutReadBack, PutFail, DeleteWebhook, Subscribe,
                Unsubscribe, ComeAndGo, Call, CallFails
  <2> QED
    BY <1>1, <2>1, FanWaits
<1> QED
  BY <1>2, <1>3

\* Every step keeps the rest in order.
LEMMA InvCounts == ASSUME IInv, Next PROVE CountType'
<1> USE DEF IInv, CountType
<1>1. CASE (\E p \in Puts : Put(p)) \/ (\E u \in Users : DeleteWebhook(u))
           \/ (\E j \in jobs : Call(j) \/ CallFails(j))
  BY <1>1 DEF Put, PutMint, PutUpsert, PutReadBack, PutFail, DeleteWebhook, Call, CallFails
<1>2. CASE \E u \in Users : Subscribe(u) \/ Unsubscribe(u) \/ ComeAndGo(u)
  BY <1>2 DEF Subscribe, Unsubscribe, ComeAndGo
<1>3. CASE Resolve
  <2>1. UNCHANGED <<subscribed, online>>
    BY <1>3 DEF Resolve, FanStart, FanSubscribers, FanPresence, FanWebhooks, FanFail, FanEnd
  <2>2. events' \in 0..MaxEvents
    BY <1>3 DEF Resolve, FanStart, FanSubscribers, FanPresence, FanWebhooks, FanFail, FanEnd
  <2>3. fan'.pc \in {"idle", "subscribers", "presence", "webhooks", "resolved"}
    BY <1>3 DEF Resolve, FanStart, FanSubscribers, FanPresence, FanWebhooks, FanFail, FanEnd,
                IdleFan
  <2> QED
    BY <2>1, <2>2, <2>3
<1> QED
  BY <1>1, <1>2, <1>3 DEF Next

\* The invariant holds all the time.
LEMMA InvAlways == Spec => []IInv
<1>1. IInv /\ [Next]_vars => IInv'
  <2> SUFFICES ASSUME IInv, [Next]_vars PROVE IInv'
    OBVIOUS
  <2>1. CASE Next
    BY <2>1, InvRegistry, InvSecrets, InvFan, InvCounts DEF IInv
  <2>2. CASE UNCHANGED vars
    <3>1. Registry'
      BY <2>2 DEF IInv, Registry, WebhookType, PutType, AnswerInv, vars
    <3>2. AboutType' /\ SecretInv'
      BY <2>2, SecretsSame DEF IInv, Registry, vars
    <3>3. FanInv'
      BY <2>2 DEF IInv, FanInv, NobodyMissed, NobodyUnasked, vars
    <3>4. CountType'
      BY <2>2 DEF IInv, CountType, vars
    <3> QED
      BY <3>1, <3>2, <3>3, <3>4 DEF IInv
  <2> QED
    BY <2>1, <2>2
<1> QED
  BY InvInit, <1>1, PTL DEF Spec

\* The URL and the secret that a PUT was answered are what is registered until
\* the next write of that user's webhook, whatever else is put and deleted.
THEOREM PutAnswersHold == Spec => []RegistryInv
BY InvAlways, InvImplies, PTL

\* Nobody is missed and nobody unasked is told, although the subscribers, the
\* presence and the webhooks change between the reads that resolve an event.
THEOREM ResolutionIsRight == Spec => []RecipientsRight
BY InvAlways, InvImplies, PTL

\* No two webhooks share a secret, a call carries the URL and the secret of one
\* registration of its user, and none leaves for a forbidden address.
THEOREM CallsGoToTheirOwn == Spec => []CallsAreOwn
BY InvAlways, InvImplies, PTL

=============================================================================
