--------------------------- MODULE PresenceStore ---------------------------
(***************************************************************************)
(* presence-service and the Redis keys behind it, for one room: the sorted *)
(* set of the room, whose members are <<user, instance>>, and its entry in *)
(* the index of rooms.  Rooms share nothing but the index key, which every *)
(* write to any of them keeps alive.                                       *)
(*                                                                         *)
(* Time is relative: a score is kept as the number of ticks until it lies  *)
(* in the past, so that time can go on for ever in finitely many states.   *)
(* An entry that has expired stays in its set until a read prunes it.      *)
(*                                                                         *)
(* A handler computes the expiry from its own clock, and only then has     *)
(* Redis run the transaction; it uses no deadline of its caller's, so a    *)
(* request whose caller has given up may still take effect.                *)
(***************************************************************************)
EXTENDS Integers, FiniteSets

CONSTANTS Users,       \* users that may be in the room
          Instances,   \* chat-service instances
          TTL,         \* life of an entry, in ticks
          MaxDelay,    \* bound: ticks from computing an expiry to its EXEC
          Slots        \* bound: requests under way at once

ASSUME PresenceAssumption == /\ TTL \in Nat
                             /\ MaxDelay \in Nat /\ MaxDelay < TTL
                             /\ IsFiniteSet(Users)

Members == Users \X Instances

Absent  == -2    \* not in the sorted set
Expired == -1    \* still in the set, its score is in the past
Scores  == Absent..(2 * TTL)

\* A request: its handler has "sent" nothing to Redis yet, has "stamped" the
\* expiry, or is "done".  caller is who waits for the answer, if anyone still
\* does.
Requests == [op     : {"online", "offline", "refresh"},
             inst   : Instances,
             users  : SUBSET Users,
             stamp  : 0..(2 * TTL),
             st     : {"sent", "stamped", "done"},
             caller : {"worker", "heartbeat", "nobody"}]

Free == [st |-> "free"]

VARIABLES score,      \* presence:room:<room>
          keyLeft,    \* ticks until Redis drops that key, 0 if there is none
          index,      \* the room's score in presence:rooms
          indexLeft,  \* ticks until Redis drops the index, 0 if there is none
          req         \* the requests under way

storeVars == <<score, keyLeft, index, indexLeft, req>>

\* Scores and keys live no longer than two TTLs, and requests are well formed.
StoreTypeOK ==
  /\ score \in [Members -> Scores]
  /\ keyLeft \in 0..(2 * TTL)
  /\ index \in Scores
  /\ indexLeft \in 0..(2 * TTL)
  /\ req \in [Slots -> Requests \cup {Free}]

StoreInit ==
  /\ score = [m \in Members |-> Absent]
  /\ keyLeft = 0
  /\ index = Absent
  /\ indexLeft = 0
  /\ req = [s \in Slots |-> Free]

-----------------------------------------------------------------------------
(* The life of a request.                                                  *)

FreeSlots == {s \in Slots : req[s].st = "free"}
Under(s)  == req[s].st \in {"sent", "stamped"}

Request(op, i, us, who) ==
  [op |-> op, inst |-> i, users |-> us, stamp |-> 0, st |-> "sent", caller |-> who]

\* A request that is done is forgotten once nobody waits for its answer.
Finish(s) == IF req[s].caller = "nobody" THEN Free ELSE [req[s] EXCEPT !.st = "done", !.stamp = 0]

\* Mutant: entries get the life of their key.
ExpiryMillis_KeyTTL == 2 * TTL

\* expiryMillis: now plus the TTL.
ExpiryMillis == TTL

\* The handler of an online or a refresh computes the expiry.
Stamp(s) ==
  /\ req[s].st = "sent" /\ req[s].op # "offline"
  /\ req' = [req EXCEPT ![s].st = "stamped", ![s].stamp = ExpiryMillis]
  /\ UNCHANGED <<score, keyLeft, index, indexLeft>>

\* Mutant: the key lives only as long as an entry.
KeyTTL_Single == TTL

\* Mutant: the key lives for three TTLs.
KeyTTL_Triple == 3 * TTL

\* The EXPIRE every write gives its keys.
KeyTTL == 2 * TTL

\* SetOnline and Refresh: one MULTI that adds the members, keeps the key alive
\* for two TTLs and touches the index.
SetOnline(s) ==
  /\ req[s].st = "stamped"
  /\ score' = [m \in Members |-> IF m[1] \in req[s].users /\ m[2] = req[s].inst
                                 THEN req[s].stamp ELSE score[m]]
  /\ keyLeft' = KeyTTL
  /\ index' = req[s].stamp
  /\ indexLeft' = KeyTTL
  /\ req' = [req EXCEPT ![s] = Finish(s)]

\* Mutant: the member is the user alone, as it was with a single instance.
Removed_AnyInstance(s) == [m \in Members |-> IF m[1] \in req[s].users THEN Absent ELSE score[m]]

\* ZREM of the member this instance reported.
Removed(s) == [m \in Members |-> IF m[1] \in req[s].users /\ m[2] = req[s].inst
                                 THEN Absent ELSE score[m]]

\* Mutant: the room leaves the index with anyone who leaves the room.
LastOneOut_Anyone(s) == TRUE

\* ZCARD = 0 after the ZREM.  Entries that have expired still count.
LastOneOut(s) == \A m \in Members : Removed(s)[m] = Absent

\* SetOffline: one script, so that nothing happens between its commands.
SetOffline(s) ==
  /\ req[s].st = "sent" /\ req[s].op = "offline"
  /\ score' = Removed(s)
  /\ \/ /\ LastOneOut(s)
        /\ keyLeft' = 0 /\ index' = Absent /\ indexLeft' = 0
     \/ /\ ~LastOneOut(s)
        /\ keyLeft' = KeyTTL
        /\ UNCHANGED <<index, indexLeft>>
  /\ req' = [req EXCEPT ![s] = Finish(s)]

\* ListOnline, and the second half of ListRooms: expired members are pruned.
ListOnline ==
  /\ score' = [m \in Members |-> IF score[m] = Expired THEN Absent ELSE score[m]]
  /\ keyLeft' = IF \A m \in Members : score'[m] = Absent THEN 0 ELSE keyLeft
  /\ UNCHANGED <<index, indexLeft, req>>

\* The first half of ListRooms: an expired room is pruned from the index.
PruneIndex ==
  /\ index = Expired
  /\ index' = Absent /\ indexLeft' = 0
  /\ UNCHANGED <<score, keyLeft, req>>

\* A request that never takes effect: the connection broke, or presence-service
\* or Redis failed under it.
LoseRequest(s) ==
  /\ Under(s) /\ req[s].caller = "nobody"
  /\ req' = [req EXCEPT ![s] = Free]
  /\ UNCHANGED <<score, keyLeft, index, indexLeft>>

-----------------------------------------------------------------------------
(* Time.                                                                   *)

Older(x) == IF x >= 0 THEN x - 1 ELSE x

\* No EXEC is as late as MaxDelay allows.
MayPass == \A s \in Slots : req[s].st = "stamped" => req[s].stamp > TTL - MaxDelay

\* A tick passes.  Redis deletes a key whose EXPIRE has run out, with all that
\* is in it.
StoreTick ==
  /\ MayPass
  /\ score' = [m \in Members |-> IF keyLeft <= 1 THEN Absent ELSE Older(score[m])]
  /\ keyLeft' = IF keyLeft = 0 THEN 0 ELSE keyLeft - 1
  /\ index' = IF indexLeft <= 1 THEN Absent ELSE Older(index)
  /\ indexLeft' = IF indexLeft = 0 THEN 0 ELSE indexLeft - 1
  /\ req' = [s \in Slots |-> IF req[s].st = "stamped" THEN [req[s] EXCEPT !.stamp = @ - 1]
                             ELSE req[s]]

Serve(s) == Stamp(s) \/ SetOnline(s) \/ SetOffline(s)

\* presence-service on its own: any instance may ask for anything at any time.
\* An event names one user, a heartbeat a set of them.
Arrive(s, op, i, us) ==
  /\ s \in FreeSlots /\ us # {}
  /\ op # "refresh" => Cardinality(us) = 1
  /\ req' = [req EXCEPT ![s] = Request(op, i, us, "nobody")]
  /\ UNCHANGED <<score, keyLeft, index, indexLeft>>

StoreNext ==
  \/ StoreTick \/ ListOnline \/ PruneIndex
  \/ \E s \in Slots :
       \/ Serve(s) \/ LoseRequest(s)
       \/ \E op \in {"online", "offline", "refresh"}, i \in Instances, us \in SUBSET Users :
            Arrive(s, op, i, us)

StoreSpec == StoreInit /\ [][StoreNext]_storeVars

-----------------------------------------------------------------------------
(* Properties of the store.                                                *)

\* ListOnline would list the member, and the user.
Live(m)   == score[m] >= 0
Listed(u) == \E i \in Instances : Live(<<u, i>>)

\* The index keeps a room as long as its members: its entry outlives every live
\* member's, across refreshes and last-one-out removals by several instances.
\* An EXEC that comes late can lower the entry under one that was stamped later,
\* but by no more than the delay, so that ListRooms misses a room at most for the
\* last MaxDelay ticks of its members.
IndexCoversRoom ==
  \A m \in Members : score[m] >= MaxDelay => index >= score[m] - MaxDelay

\* The key-level EXPIRE only ever reclaims entries that are past their own
\* expiry: Redis never drops someone who is live.
KeyOutlivesMembers == \A m \in Members : Live(m) => keyLeft > score[m]

\* An entry that is live only goes away by an offline of the same user from the
\* same instance: no instance clears what another one reported.
OnlyOwnOffline ==
  [][\A m \in Members : Live(m) /\ score[m] > 0 /\ score'[m] = Absent =>
       \E s \in Slots : /\ req[s].st = "sent" /\ req[s].op = "offline"
                        /\ req[s].inst = m[2] /\ m[1] \in req[s].users]_storeVars

\* What Redis holds for the room is well formed and outlives its members.
StoreInv == StoreTypeOK /\ KeyOutlivesMembers

=============================================================================
