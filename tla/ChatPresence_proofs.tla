------------------------- MODULE ChatPresence_proofs -------------------------
(***************************************************************************)
(* Theorems about PresenceStore, on its own and as part of ChatPresence:   *)
(* what Redis holds outlives its members and is listed by the index, no    *)
(* instance clears what another one reported, and no ghost outlives its    *)
(* TTL, for any number of users, instances, connections and requests and   *)
(* any times.                                                              *)
(***************************************************************************)
EXTENDS ChatPresence, FiniteSetTheorems, SequenceTheorems, TLAPS

-----------------------------------------------------------------------------
(* The store: its inductive invariant.                                     *)

\* An expiry that was computed reaches Redis less than MaxDelay later.
StampInv == \A s \in Slots : req[s].st = "stamped" =>
                               req[s].stamp >= TTL - MaxDelay /\ req[s].stamp <= TTL

\* No entry lives longer than a TTL.
ScoreInv == \A m \in Members : score[m] <= TTL

\* Redis keeps the index at least as long as the room's entry in it counts.
IndexInv == index <= TTL /\ (index >= 0 => indexLeft > index)

StoreIInv ==
  StoreTypeOK /\ StampInv /\ ScoreInv /\ KeyOutlivesMembers /\ IndexInv /\ IndexCoversRoom

USE PresenceAssumption

\* A request in a slot, or none.
LEMMA SlotParts ==
  ASSUME StoreTypeOK, NEW s \in Slots
  PROVE  /\ req[s] = Free \/ req[s] \in Requests
         /\ req[s].st # "free" => req[s] \in Requests
         /\ req[s].st \in {"free", "sent", "stamped", "done"}
BY DEF StoreTypeOK, Free, Requests

\* The store is empty and nothing is under way.
LEMMA StoreIInvInit == StoreInit => StoreIInv
<1> SUFFICES ASSUME StoreInit PROVE StoreIInv
  OBVIOUS
<1> USE DEF StoreInit
<1>1. score \in [Members -> Scores] /\ index \in Scores
  BY DEF Scores, Absent
<1>2. keyLeft \in 0..(2 * TTL) /\ indexLeft \in 0..(2 * TTL)
  OBVIOUS
<1>3. StoreTypeOK
  BY <1>1, <1>2 DEF StoreTypeOK
<1>4. StampInv
  BY DEF StampInv, Free
<1>5. ScoreInv /\ KeyOutlivesMembers /\ IndexInv /\ IndexCoversRoom
  BY DEF ScoreInv, KeyOutlivesMembers, Live, IndexInv, IndexCoversRoom, Absent
<1> QED
  BY <1>3, <1>4, <1>5 DEF StoreIInv

\* A step of the requests alone, that computes no expiry.
LEMMA RequestStep ==
  ASSUME StoreIInv, UNCHANGED <<score, keyLeft, index, indexLeft>>,
         req' \in [Slots -> Requests \cup {Free}],
         \A s \in Slots : req'[s].st = "stamped" =>
                            \/ req[s].st = "stamped" /\ req'[s].stamp = req[s].stamp
                            \/ req'[s].stamp = TTL
  PROVE  StoreIInv'
<1>1. StoreTypeOK'
  BY DEF StoreIInv, StoreTypeOK
<1>2. StampInv'
  BY DEF StoreIInv, StampInv
<1>3. ScoreInv' /\ KeyOutlivesMembers' /\ IndexInv' /\ IndexCoversRoom'
  BY DEF StoreIInv, ScoreInv, KeyOutlivesMembers, Live, IndexInv, IndexCoversRoom
<1> QED
  BY <1>1, <1>2, <1>3 DEF StoreIInv

\* What Finish leaves in a slot.
LEMMA Finished ==
  ASSUME StoreTypeOK, NEW s \in Slots, req[s].st # "free"
  PROVE  Finish(s) \in Requests \cup {Free} /\ Finish(s).st \in {"free", "done"}
<1>1. req[s] \in Requests
  BY SlotParts
<1>2. PICK r \in Requests : req[s] = r
  BY <1>1
<1>3. [r EXCEPT !.st = "done", !.stamp = 0] \in Requests
  <2>1. 0 \in 0..(2 * TTL)
    OBVIOUS
  <2> QED
    BY <2>1 DEF Requests
<1> QED
  BY <1>2, <1>3 DEF Finish, Free, Requests

\* Stamp.
LEMMA StampStep == ASSUME StoreIInv, NEW s \in Slots, Stamp(s) PROVE StoreIInv'
<1>1. PICK r \in Requests : req[s] = r
  BY SlotParts DEF Stamp, StoreIInv
<1>2. /\ req' = [req EXCEPT ![s] = [r EXCEPT !.st = "stamped", !.stamp = TTL]]
      /\ UNCHANGED <<score, keyLeft, index, indexLeft>>
  BY <1>1 DEF Stamp, ExpiryMillis
<1>3. [r EXCEPT !.st = "stamped", !.stamp = TTL] \in Requests
  <2>1. TTL \in 0..(2 * TTL)
    OBVIOUS
  <2> QED
    BY <2>1 DEF Requests
<1>4. /\ req' \in [Slots -> Requests \cup {Free}] /\ req'[s].stamp = TTL
      /\ \A x \in Slots : x # s => req'[x] = req[x]
  BY <1>2, <1>3 DEF StoreIInv, StoreTypeOK, Requests
<1> QED
  BY <1>2, <1>4, RequestStep

\* LoseRequest.
LEMMA LoseStep == ASSUME StoreIInv, NEW s \in Slots, LoseRequest(s) PROVE StoreIInv'
<1>1. req' = [req EXCEPT ![s] = Free] /\ UNCHANGED <<score, keyLeft, index, indexLeft>>
  BY DEF LoseRequest
<1>2. /\ req' \in [Slots -> Requests \cup {Free}] /\ req'[s].st = "free"
      /\ \A x \in Slots : x # s => req'[x] = req[x]
  BY <1>1 DEF StoreIInv, StoreTypeOK, Free
<1> QED
  BY <1>1, <1>2, RequestStep

\* SetOnline: the key and the index are given their two TTLs, and the index
\* gets an expiry that is at most MaxDelay older than any other.
LEMMA OnlineStep == ASSUME StoreIInv, NEW s \in Slots, SetOnline(s) PROVE StoreIInv'
<1>1. PICK r \in Requests : req[s] = r
  BY SlotParts DEF SetOnline, StoreIInv
<1> DEFINE t == r.stamp
<1>2. t \in Int /\ t >= TTL - MaxDelay /\ t <= TTL /\ t > 0
  BY <1>1 DEF SetOnline, StoreIInv, StampInv, Requests
<1>3. /\ score' = [m \in Members |-> IF m[1] \in r.users /\ m[2] = r.inst THEN t ELSE score[m]]
      /\ keyLeft' = 2 * TTL /\ index' = t /\ indexLeft' = 2 * TTL
      /\ req' = [req EXCEPT ![s] = Finish(s)]
  BY <1>1 DEF SetOnline, KeyTTL
<1>4. req' \in [Slots -> Requests \cup {Free}] /\ req'[s].st \in {"free", "done"}
      /\ \A x \in Slots : x # s => req'[x] = req[x]
  <2>1. Finish(s) \in Requests \cup {Free} /\ Finish(s).st \in {"free", "done"}
    BY Finished DEF SetOnline, StoreIInv
  <2> QED
    BY <1>3, <2>1 DEF StoreIInv, StoreTypeOK
<1> HIDE DEF t
<1>5. \A m \in Members : score[m] \in Int /\ score[m] >= -2 /\ score[m] <= TTL
  BY DEF StoreIInv, StoreTypeOK, Scores, Absent, ScoreInv
<1>6. \A m \in Members : score'[m] = t \/ score'[m] = score[m]
  BY <1>3
<1>7. StoreTypeOK'
  <2>1. score' \in [Members -> Scores]
    BY <1>2, <1>3 DEF StoreIInv, StoreTypeOK, Scores, Absent
  <2>2. keyLeft' \in 0..(2 * TTL) /\ index' \in Scores /\ indexLeft' \in 0..(2 * TTL)
    BY <1>2, <1>3 DEF Scores, Absent
  <2> QED
    BY <1>4, <2>1, <2>2 DEF StoreTypeOK
<1>8. StampInv'
  BY <1>4 DEF StoreIInv, StampInv
<1>9. ScoreInv'
  BY <1>2, <1>5, <1>6 DEF ScoreInv
<1>10. KeyOutlivesMembers'
  BY <1>2, <1>3, <1>5, <1>6 DEF KeyOutlivesMembers, Live
<1>11. IndexInv' /\ IndexCoversRoom'
  BY <1>2, <1>3, <1>5, <1>6 DEF IndexInv, IndexCoversRoom
<1> QED
  BY <1>7, <1>8, <1>9, <1>10, <1>11 DEF StoreIInv

\* SetOffline: members only disappear, and the index entry only with the last.
LEMMA OfflineStep == ASSUME StoreIInv, NEW s \in Slots, SetOffline(s) PROVE StoreIInv'
<1>1. /\ req' = [req EXCEPT ![s] = Finish(s)] /\ score' = Removed(s)
      /\ \/ LastOneOut(s) /\ keyLeft' = 0 /\ index' = Absent /\ indexLeft' = 0
         \/ keyLeft' = 2 * TTL /\ UNCHANGED <<index, indexLeft>>
  BY DEF SetOffline, KeyTTL
<1>2. req' \in [Slots -> Requests \cup {Free}] /\ req'[s].st \in {"free", "done"}
      /\ \A x \in Slots : x # s => req'[x] = req[x]
  <2>1. Finish(s) \in Requests \cup {Free} /\ Finish(s).st \in {"free", "done"}
    BY Finished DEF SetOffline, StoreIInv
  <2> QED
    BY <1>1, <2>1 DEF StoreIInv, StoreTypeOK
<1>3. \A m \in Members : score[m] \in Int /\ score[m] >= -2 /\ score[m] <= TTL
  BY DEF StoreIInv, StoreTypeOK, Scores, Absent, ScoreInv
<1>4. \A m \in Members : score'[m] = Absent \/ score'[m] = score[m]
  BY <1>1 DEF Removed
<1>5. LastOneOut(s) => \A m \in Members : score'[m] = Absent
  BY <1>1 DEF LastOneOut
<1>6. StoreTypeOK'
  <2>1. score' \in [Members -> Scores]
    BY <1>1 DEF Removed, StoreIInv, StoreTypeOK, Scores, Absent
  <2>2. keyLeft' \in 0..(2 * TTL) /\ index' \in Scores /\ indexLeft' \in 0..(2 * TTL)
    BY <1>1 DEF StoreIInv, StoreTypeOK, Scores, Absent
  <2> QED
    BY <1>2, <2>1, <2>2 DEF StoreTypeOK
<1>7. StampInv'
  BY <1>2 DEF StoreIInv, StampInv
<1>8. ScoreInv'
  BY <1>3, <1>4 DEF ScoreInv, Absent
<1>9. KeyOutlivesMembers'
  BY <1>1, <1>3, <1>4, <1>5 DEF KeyOutlivesMembers, Live, Absent
<1>10. IndexInv' /\ IndexCoversRoom'
  BY <1>1, <1>3, <1>4, <1>5 DEF StoreIInv, IndexInv, IndexCoversRoom, Absent
<1> QED
  BY <1>6, <1>7, <1>8, <1>9, <1>10 DEF StoreIInv

\* ListOnline: only members that are past their expiry disappear.
LEMMA ListStep == ASSUME StoreIInv, ListOnline PROVE StoreIInv'
<1>1. UNCHANGED <<index, indexLeft, req>>
      /\ \A m \in Members : score'[m] = IF score[m] = Expired THEN Absent ELSE score[m]
  BY DEF ListOnline
<1>2. (keyLeft' = 0 /\ \A m \in Members : score'[m] = Absent) \/ keyLeft' = keyLeft
  BY DEF ListOnline
<1>3. \A m \in Members : score[m] \in Int /\ score[m] >= -2 /\ score[m] <= TTL
  BY DEF StoreIInv, StoreTypeOK, Scores, Absent, ScoreInv
<1>4. StoreTypeOK'
  <2>1. score' \in [Members -> Scores]
    BY DEF ListOnline, StoreIInv, StoreTypeOK, Scores, Absent
  <2> QED
    BY <1>1, <1>2, <2>1 DEF StoreIInv, StoreTypeOK
<1>5. StampInv' /\ ScoreInv'
  BY <1>1, <1>3 DEF StoreIInv, StampInv, ScoreInv, Absent
<1>6. KeyOutlivesMembers'
  BY <1>1, <1>2, <1>3 DEF StoreIInv, KeyOutlivesMembers, Live, Absent, Expired
<1>7. IndexInv' /\ IndexCoversRoom'
  BY <1>1, <1>3 DEF StoreIInv, IndexInv, IndexCoversRoom, Absent, Expired
<1> QED
  BY <1>4, <1>5, <1>6, <1>7 DEF StoreIInv

\* PruneIndex: an index entry goes that covered no one.
LEMMA PruneStep == ASSUME StoreIInv, PruneIndex PROVE StoreIInv'
<1>1. /\ index = -1 /\ index' = -2 /\ indexLeft' = 0 /\ UNCHANGED <<score, keyLeft, req>>
  BY DEF PruneIndex, Absent, Expired
<1>2. StoreTypeOK'
  BY <1>1 DEF StoreIInv, StoreTypeOK, Scores, Absent
<1>3. StampInv' /\ ScoreInv' /\ KeyOutlivesMembers'
  BY <1>1 DEF StoreIInv, StampInv, ScoreInv, KeyOutlivesMembers, Live
<1>4. \A m \in Members : score[m] \in Int
  BY DEF StoreIInv, StoreTypeOK, Scores, Absent
<1>5. IndexInv' /\ IndexCoversRoom'
  BY <1>1, <1>4 DEF StoreIInv, IndexInv, IndexCoversRoom
<1> QED
  BY <1>2, <1>3, <1>5 DEF StoreIInv

\* StoreTick: everything ages alike, and no stamp gets older than MaxDelay.
LEMMA TickStep == ASSUME StoreIInv, StoreTick PROVE StoreIInv'
<1>1. \A m \in Members : score[m] \in Int /\ score[m] >= -2 /\ score[m] <= TTL
  BY DEF StoreIInv, StoreTypeOK, Scores, Absent, ScoreInv
<1>2. /\ keyLeft \in Int /\ 0 <= keyLeft /\ keyLeft <= 2 * TTL
      /\ indexLeft \in Int /\ 0 <= indexLeft /\ indexLeft <= 2 * TTL
      /\ index \in Int /\ -2 <= index /\ index <= TTL
  BY DEF StoreIInv, StoreTypeOK, Scores, Absent, IndexInv
<1>3. \A m \in Members : score'[m] = IF keyLeft <= 1 THEN -2
                                     ELSE IF score[m] >= 0 THEN score[m] - 1 ELSE score[m]
  BY DEF StoreTick, Older, Absent
<1>4. /\ keyLeft' = IF keyLeft = 0 THEN 0 ELSE keyLeft - 1
      /\ index' = IF indexLeft <= 1 THEN -2 ELSE IF index >= 0 THEN index - 1 ELSE index
      /\ indexLeft' = IF indexLeft = 0 THEN 0 ELSE indexLeft - 1
  BY DEF StoreTick, Older, Absent
<1>5. ASSUME NEW s \in Slots
      PROVE  /\ req'[s] \in Requests \cup {Free}
             /\ req'[s].st = "stamped" => /\ req'[s].stamp >= TTL - MaxDelay
                                          /\ req'[s].stamp <= TTL
  <2>1. req' = [x \in Slots |-> IF req[x].st = "stamped" THEN [req[x] EXCEPT !.stamp = @ - 1]
                                ELSE req[x]]
    BY DEF StoreTick
  <2>2. CASE req[s].st # "stamped"
    <3>1. req'[s] = req[s]
      BY <2>1, <2>2
    <3> QED
      BY <2>2, <3>1 DEF StoreIInv, StoreTypeOK
  <2>3. CASE req[s].st = "stamped"
    <3>1. PICK r \in Requests : req[s] = r
      BY <2>3, SlotParts DEF StoreIInv
    <3>2. r.stamp \in Int /\ r.stamp > TTL - MaxDelay /\ r.stamp <= TTL
      BY <2>3, <3>1 DEF StoreTick, MayPass, StoreIInv, StampInv, Requests
    <3>3. r.stamp - 1 \in 0..(2 * TTL)
      BY <3>2
    <3>4. req'[s] = [r EXCEPT !.stamp = r.stamp - 1]
      BY <2>1, <2>3, <3>1
    <3>5. [r EXCEPT !.stamp = r.stamp - 1] \in Requests
      BY <3>3 DEF Requests
    <3>6. req'[s].stamp = r.stamp - 1
      BY <3>4 DEF Requests
    <3> QED
      BY <3>2, <3>4, <3>5, <3>6
  <2> QED
    BY <2>2, <2>3
<1>6. StoreTypeOK'
  <2>1. score' \in [Members -> Scores]
    <3>1. score' = [m \in Members |-> score'[m]]
      BY DEF StoreTick
    <3>2. \A m \in Members : score'[m] \in Scores
      BY <1>1, <1>3 DEF Scores, Absent
    <3> QED
      BY <3>1, <3>2
  <2>2. keyLeft' \in 0..(2 * TTL) /\ index' \in Scores /\ indexLeft' \in 0..(2 * TTL)
    BY <1>2, <1>4 DEF Scores, Absent
  <2>3. req' \in [Slots -> Requests \cup {Free}]
    <3>1. req' = [s \in Slots |-> req'[s]]
      BY DEF StoreTick
    <3> QED
      BY <1>5, <3>1
  <2> QED
    BY <2>1, <2>2, <2>3 DEF StoreTypeOK
<1>7. StampInv'
  BY <1>5 DEF StampInv
<1>8. ScoreInv'
  BY <1>1, <1>3 DEF ScoreInv
<1>9. KeyOutlivesMembers'
  BY <1>1, <1>2, <1>3, <1>4 DEF StoreIInv, KeyOutlivesMembers, Live
<1>10. IndexInv'
  BY <1>2, <1>4 DEF StoreIInv, IndexInv
<1>11. IndexCoversRoom'
  BY <1>1, <1>2, <1>3, <1>4 DEF StoreIInv, IndexInv, IndexCoversRoom
<1> QED
  BY <1>6, <1>7, <1>8, <1>9, <1>10, <1>11 DEF StoreIInv

\* A request of any operation fits in a slot.
LEMMA NewRequest ==
  ASSUME NEW op \in {"online", "offline", "refresh"}, NEW i \in Instances,
         NEW us \in SUBSET Users, NEW who \in {"worker", "heartbeat", "nobody"}
  PROVE  Request(op, i, us, who) \in Requests /\ Request(op, i, us, who).st = "sent"
<1>1. 0 \in 0..(2 * TTL)
  OBVIOUS
<1> QED
  BY <1>1 DEF Request, Requests

\* Arrive.
LEMMA ArriveStep ==
  ASSUME StoreIInv, NEW s \in Slots, NEW op \in {"online", "offline", "refresh"},
         NEW i \in Instances, NEW us \in SUBSET Users, Arrive(s, op, i, us)
  PROVE  StoreIInv'
<1>1. /\ req' = [req EXCEPT ![s] = Request(op, i, us, "nobody")]
      /\ UNCHANGED <<score, keyLeft, index, indexLeft>>
  BY DEF Arrive
<1>2. PICK r \in Requests : Request(op, i, us, "nobody") = r /\ r.st = "sent"
  BY NewRequest
<1>3. /\ req' \in [Slots -> Requests \cup {Free}] /\ req'[s].st = "sent"
      /\ \A x \in Slots : x # s => req'[x] = req[x]
  BY <1>1, <1>2 DEF StoreIInv, StoreTypeOK
<1> QED
  BY <1>1, <1>3, RequestStep

\* Every step of the store on its own.
LEMMA StoreIInvStep == StoreIInv /\ [StoreNext]_storeVars => StoreIInv'
<1> SUFFICES ASSUME StoreIInv, [StoreNext]_storeVars PROVE StoreIInv'
  OBVIOUS
<1>1. CASE StoreTick
  BY <1>1, TickStep
<1>2. CASE ListOnline
  BY <1>2, ListStep
<1>3. CASE PruneIndex
  BY <1>3, PruneStep
<1>4. ASSUME NEW s \in Slots, Serve(s) PROVE StoreIInv'
  BY <1>4, StampStep, OnlineStep, OfflineStep DEF Serve
<1>5. ASSUME NEW s \in Slots, LoseRequest(s) PROVE StoreIInv'
  BY <1>5, LoseStep
<1>6. ASSUME NEW s \in Slots, NEW op \in {"online", "offline", "refresh"}, NEW i \in Instances,
             NEW us \in SUBSET Users, Arrive(s, op, i, us)
      PROVE  StoreIInv'
  BY <1>6, ArriveStep
<1>7. CASE UNCHANGED storeVars
  <2>1. UNCHANGED <<score, keyLeft, index, indexLeft>> /\ UNCHANGED req
    BY <1>7 DEF storeVars
  <2> QED
    BY <2>1, RequestStep DEF StoreIInv, StoreTypeOK
<1> QED
  BY <1>1, <1>2, <1>3, <1>4, <1>5, <1>6, <1>7 DEF StoreNext

\* The inductive invariant of the store.
THEOREM StoreIsInductive == StoreSpec => []StoreIInv
<1>1. StoreInit => StoreIInv
  BY StoreIInvInit
<1> QED
  BY <1>1, StoreIInvStep, PTL DEF StoreSpec

\* Redis never drops a member that is live, whatever the order in which the
\* transactions of all instances arrive: the EXPIRE of a write is always longer
\* than every score in its set.
THEOREM KeysOutliveMembers == StoreSpec => []StoreInv
<1>1. StoreIInv => StoreInv
  BY DEF StoreIInv, StoreInv
<1> QED
  BY <1>1, StoreIsInductive, PTL

\* ListRooms misses a room at most for the last MaxDelay ticks of its members.
THEOREM IndexIsComplete == StoreSpec => []IndexCoversRoom
<1>1. StoreIInv => IndexCoversRoom
  BY DEF StoreIInv
<1> QED
  BY <1>1, StoreIsInductive, PTL

-----------------------------------------------------------------------------
(* Who may clear an entry.                                                 *)

\* What OnlyOwnOffline says of one step.
OwnOffline ==
  \A m \in Members : Live(m) /\ score[m] > 0 /\ score'[m] = Absent =>
    \E s \in Slots : /\ req[s].st = "sent" /\ req[s].op = "offline"
                     /\ req[s].inst = m[2] /\ m[1] \in req[s].users

\* No step of the store but an offline removes an entry that is live, and an
\* offline removes those of its own instance.
LEMMA OwnOfflineStep ==
  ASSUME StoreIInv,
         \/ StoreTick \/ ListOnline \/ UNCHANGED score
         \/ \E s \in Slots : SetOnline(s) \/ SetOffline(s)
  PROVE  OwnOffline
<1> SUFFICES ASSUME NEW m \in Members, score[m] > 0, score'[m] = -2
             PROVE  \E s \in Slots : /\ req[s].st = "sent" /\ req[s].op = "offline"
                                     /\ req[s].inst = m[2] /\ m[1] \in req[s].users
  BY DEF OwnOffline, Absent
<1>1. score[m] \in Int /\ keyLeft \in Int /\ keyLeft > score[m]
  BY DEF StoreIInv, StoreTypeOK, Scores, Absent, KeyOutlivesMembers, Live
<1>2. ~StoreTick
  BY <1>1 DEF StoreTick, Older, Absent
<1>3. ~ListOnline
  BY <1>1 DEF ListOnline, Expired
<1>4. ~UNCHANGED score
  BY <1>1
<1>5. ASSUME NEW s \in Slots, SetOnline(s) PROVE FALSE
  <2>1. PICK r \in Requests : req[s] = r
    BY <1>5, SlotParts DEF SetOnline, StoreIInv
  <2>2. r.stamp \in Int /\ r.stamp >= TTL - MaxDelay
    BY <1>5, <2>1 DEF SetOnline, StoreIInv, StampInv, Requests
  <2>3. score'[m] = r.stamp \/ score'[m] = score[m]
    BY <1>5, <2>1 DEF SetOnline
  <2> QED
    BY <1>1, <2>2, <2>3
<1>6. ASSUME NEW s \in Slots, SetOffline(s)
      PROVE  /\ req[s].st = "sent" /\ req[s].op = "offline"
             /\ req[s].inst = m[2] /\ m[1] \in req[s].users
  BY <1>1, <1>6 DEF SetOffline, Removed
<1> QED
  BY <1>2, <1>3, <1>4, <1>5, <1>6

\* No instance clears what another one reported, and no entry that has time
\* left goes away by itself.
THEOREM InstancesClearTheirOwn == StoreSpec => OnlyOwnOffline
<1>1. StoreIInv /\ [StoreNext]_storeVars => [OwnOffline]_storeVars
  <2> SUFFICES ASSUME StoreIInv, StoreNext PROVE OwnOffline
    OBVIOUS
  <2> QED
    BY OwnOfflineStep DEF StoreNext, Serve, Stamp, LoseRequest, Arrive, PruneIndex
<1> QED
  BY <1>1, StoreIsInductive, PTL DEF StoreSpec, OnlyOwnOffline, OwnOffline

-----------------------------------------------------------------------------
(* ChatPresence: its inductive invariant.                                  *)

USE ChatPresenceAssumption

Jobs   == {Idle} \cup (Events \X (0..MaxRetries) \X (Slots \cup {0}))
Sweeps == {Idle} \cup ((SUBSET Users) \X (Slots \cup {0}))

\* The process, its queue, and what its two goroutines have in hand.
ProcTypes ==
  /\ phase \in [Instances -> {"up", "draining", "closing", "down"}]
  /\ conns \in [Instances -> [Users -> 0..MaxConns]]
  /\ orphans \in [Instances -> [Users -> 0..MaxConns]]
  /\ ended \in [Instances -> BOOLEAN]
  /\ due \in [Instances -> 0..Interval]
  /\ joins \in 0..MaxJoins
  /\ stops \in 0..MaxStops
QueueTypes == queue \in [Instances -> Seq(Events)] /\ \A i \in Instances : Len(queue[i]) <= QueueCap
WorkTypes  == job \in [Instances -> Jobs] /\ sweep \in [Instances -> Sweeps]
ChatTypes  == ProcTypes /\ QueueTypes /\ WorkTypes /\ quiet \in [Members -> 0..(TTL + 1)]

\* Only what speaks for a member gets an expiry.
StampedInv == \A s \in Slots : req[s].st = "stamped" => req[s].op # "offline"

\* Whoever is spoken for is not quiet.
SpokenInv == \A i \in Instances, u \in Users : Spoken(u, i) => quiet[<<u, i>>] = 0

ChatIInv == StoreIInv /\ ChatTypes /\ StampedInv /\ SpokenInv /\ GhostExpires

\* What speaks for a user: an event in a queue, a job, a sweep, a request.
OnlineIn(q, u)  == \E k \in DOMAIN q : q[k] = [user |-> u, status |-> "online"]
InJob(j, u)     == j # Idle /\ j[1] = [user |-> u, status |-> "online"]
InSweep(w, u)   == w # Idle /\ u \in w[1]
Speaks(r, i, u) == r.st \in {"sent", "stamped"} /\ r.op # "offline" /\ r.inst = i /\ u \in r.users

\* Spoken, by its parts.
SpokenNow(u, i) == \/ conns[i][u] > 0
                   \/ OnlineIn(queue[i], u)
                   \/ InJob(job[i], u)
                   \/ InSweep(sweep[i], u)
                   \/ \E s \in Slots : Speaks(req[s], i, u)

\* Spoken is SpokenNow, before and after a step.
LEMMA SpokenParts == \A u, i : /\ Spoken(u, i) <=> SpokenNow(u, i)
                               /\ Spoken(u, i)' <=> SpokenNow(u, i)'
BY DEF Spoken, SpokenNow, OnlineIn, InJob, InSweep, Speaks, Under

\* The requests of a step that starts none: they go on, end, or lose their caller.
ReqKept ==
  /\ req' \in [Slots -> Requests \cup {Free}]
  /\ \A s \in Slots : req'[s].st = "stamped" =>
       req[s].st = "stamped" /\ req'[s].stamp = req[s].stamp /\ req'[s].op = req[s].op
  /\ \A s \in Slots, i \in Instances, u \in Users :
       Speaks(req'[s], i, u) => Speaks(req[s], i, u)

\* A step of an instance that neither touches the store nor makes a connection
\* speaks for no one who was not spoken for.
Silent ==
  /\ UNCHANGED <<score, keyLeft, index, indexLeft, quiet>>
  /\ req' \in [Slots -> Requests \cup {Free}]
  /\ \A s \in Slots : req'[s].st = "stamped" =>
       req[s].st = "stamped" /\ req'[s].stamp = req[s].stamp /\ req'[s].op = req[s].op
  /\ \A i \in Instances, u \in Users : SpokenNow(u, i)' => SpokenNow(u, i)

\* A step that only takes voices away keeps the invariant.
LEMMA SilentStep == ASSUME ChatIInv, ChatTypes', Silent PROVE ChatIInv'
<1>1. StoreIInv'
  BY RequestStep DEF ChatIInv, Silent
<1>2. StampedInv'
  BY DEF ChatIInv, StampedInv, Silent
<1>3. SpokenInv'
  BY SpokenParts DEF ChatIInv, SpokenInv, Silent
<1>4. GhostExpires'
  BY DEF ChatIInv, GhostExpires, Live, Silent
<1> QED
  BY <1>1, <1>2, <1>3, <1>4 DEF ChatIInv

\* The places of one instance change, and only for those it already spoke for.
LEMMA SilentPlaces ==
  ASSUME UNCHANGED <<score, keyLeft, index, indexLeft, quiet>>, ReqKept,
         \A i \in Instances, u \in Users :
           /\ conns'[i][u] > 0 => SpokenNow(u, i)
           /\ OnlineIn(queue'[i], u) => SpokenNow(u, i)
           /\ InJob(job'[i], u) => SpokenNow(u, i)
           /\ InSweep(sweep'[i], u) => SpokenNow(u, i)
  PROVE  Silent
BY DEF Silent, ReqKept, SpokenNow

\* A step that leaves the requests alone starts none.
LEMMA ReqSame == ASSUME StoreTypeOK, UNCHANGED req PROVE ReqKept
BY DEF StoreTypeOK, ReqKept

\* Abandon speaks for no one new.
LEMMA Abandoned ==
  ASSUME StoreTypeOK, NEW s \in Slots
  PROVE  /\ Abandon(s) \in Requests \cup {Free}
         /\ Abandon(s).st = "stamped" => /\ req[s].st = "stamped" /\ Abandon(s).stamp = req[s].stamp
                                         /\ Abandon(s).op = req[s].op
         /\ \A i \in Instances, u \in Users : Speaks(Abandon(s), i, u) => Speaks(req[s], i, u)
<1>1. CASE req[s] \in Requests
  <2>1. PICK r \in Requests : req[s] = r
    BY <1>1
  <2>2. [r EXCEPT !.caller = "nobody"] \in Requests
    BY DEF Requests
  <2>3. Abandon(s) = Free \/ Abandon(s) = [r EXCEPT !.caller = "nobody"]
    BY <2>1 DEF Abandon
  <2>4. CASE Abandon(s) = Free
    BY <2>4 DEF Free, Speaks
  <2>5. CASE Abandon(s) = [r EXCEPT !.caller = "nobody"]
    BY <2>1, <2>2, <2>5 DEF Requests, Speaks
  <2> QED
    BY <2>3, <2>4, <2>5
<1>2. CASE req[s] = Free
  <2>1. [Free EXCEPT !.caller = "nobody"] = Free
    BY DEF Free
  <2>2. Abandon(s) = Free
    BY <1>2, <2>1 DEF Abandon
  <2> QED
    BY <2>2 DEF Free, Speaks
<1> QED
  BY <1>1, <1>2 DEF StoreTypeOK

-----------------------------------------------------------------------------
(* The queue.                                                              *)

\* Notify keeps the bound, and brings at most one user online.
LEMMA Notified ==
  ASSUME NEW q \in Seq(Events), Len(q) <= QueueCap, NEW u \in Users,
         NEW st \in {"online", "offline"}
  PROVE  /\ Notify(q, u, st) \in Seq(Events) /\ Len(Notify(q, u, st)) <= QueueCap
         /\ \A v : OnlineIn(Notify(q, u, st), v) => OnlineIn(q, v) \/ (st = "online" /\ v = u)
<1> DEFINE e == [user |-> u, status |-> st]
<1>1. e \in Events
  BY DEF Events
<1>2. CASE Len(q) < QueueCap
  <2>1. Notify(q, u, st) = Append(q, e)
    BY <1>2 DEF Notify
  <2> HIDE DEF e
  <2>2. PICK a : a = Append(q, e)
    OBVIOUS
  <2>3. /\ a \in Seq(Events) /\ Len(a) = Len(q) + 1
        /\ \A k \in 1..Len(q) : a[k] = q[k]
        /\ a[Len(q) + 1] = e
    BY <1>1, <2>2, AppendProperties
  <2>4. DOMAIN q = 1..Len(q) /\ DOMAIN a = 1..Len(a) /\ Len(q) \in Nat
    BY <2>3, LenProperties
  <2>5. \A k \in DOMAIN a : (k \in DOMAIN q /\ a[k] = q[k]) \/ a[k] = e
    BY <2>3, <2>4
  <2>6. \A v : OnlineIn(a, v) => OnlineIn(q, v) \/ e = [user |-> v, status |-> "online"]
    BY <2>5 DEF OnlineIn
  <2>7. \A v : OnlineIn(a, v) => OnlineIn(q, v) \/ (st = "online" /\ v = u)
    BY <2>6 DEF e
  <2> QED
    BY <1>2, <2>1, <2>2, <2>3, <2>4, <2>7
<1>3. CASE ~(Len(q) < QueueCap)
  BY <1>3 DEF Notify
<1> QED
  BY <1>2, <1>3

\* NotifyAll keeps the bound, and brings no one online.
LEMMA AllNotified ==
  ASSUME NEW q \in Seq(Events), Len(q) <= QueueCap, NEW S \in SUBSET Users, NEW us \in Orders(S)
  PROVE  /\ NotifyAll(q, us) \in Seq(Events) /\ Len(NotifyAll(q, us)) <= QueueCap
         /\ \A v : OnlineIn(NotifyAll(q, us), v) => OnlineIn(q, v)
<1>1. PICK n \in Nat : n = Cardinality(S)
  BY FS_Subset, FS_CardinalityType
<1>2. us \in [1..n -> S]
  BY <1>1 DEF Orders
<1>3. PICK t : t = [k \in DOMAIN us |-> [user |-> us[k], status |-> "offline"]]
  OBVIOUS
<1>4. t \in [1..n -> Events] /\ \A k \in 1..n : t[k].status = "offline"
  BY <1>2, <1>3 DEF Events
<1>5. t \in Seq(Events) /\ Len(t) = n
  BY <1>4
<1>6. PICK all : all = q \o t
  OBVIOUS
<1>7. /\ all \in Seq(Events) /\ Len(all) = Len(q) + n
      /\ \A k \in 1..(Len(q) + n) : all[k] = IF k <= Len(q) THEN q[k] ELSE t[k - Len(q)]
  BY <1>5, <1>6, ConcatProperties
<1>8. PICK l : l = IF Len(all) < QueueCap THEN Len(all) ELSE QueueCap
  OBVIOUS
<1>9. PICK r : r = SubSeq(all, 1, l)
  OBVIOUS
<1>10. NotifyAll(q, us) = r
  BY <1>3, <1>6, <1>8, <1>9 DEF NotifyAll
<1>11. Len(q) \in Nat /\ DOMAIN q = 1..Len(q) /\ Len(all) \in Nat /\ l \in Nat
       /\ l <= Len(all) /\ l <= QueueCap
  BY <1>7, <1>8, LenProperties
<1>12. \A k \in 1..l : all[k] \in Events
  BY <1>7, <1>11, ElementOfSeq
<1>13. r \in Seq(Events) /\ Len(r) = l /\ \A k \in 1..l : r[k] = all[k]
  <2>1. /\ r \in Seq(Events) /\ Len(r) = IF 1 <= l THEN l - 1 + 1 ELSE 0
        /\ \A k \in 1..(l - 1 + 1) : r[k] = all[1 + k - 1]
    BY <1>9, <1>11, <1>12, SubSeqProperties
  <2> QED
    BY <1>11, <2>1
<1>14. DOMAIN r = 1..l
  BY <1>13, LenProperties
<1>15. \A k \in DOMAIN r : (k \in DOMAIN q /\ r[k] = q[k]) \/ r[k].status = "offline"
  <2> SUFFICES ASSUME NEW k \in 1..l PROVE (k \in DOMAIN q /\ r[k] = q[k]) \/ r[k].status = "offline"
    BY <1>14
  <2>1. r[k] = IF k <= Len(q) THEN q[k] ELSE t[k - Len(q)]
    BY <1>7, <1>11, <1>13
  <2>2. CASE k <= Len(q)
    BY <1>11, <2>1, <2>2
  <2>3. CASE ~(k <= Len(q))
    <3>1. k - Len(q) \in 1..n
      BY <1>7, <1>11, <2>3
    <3> QED
      BY <1>4, <2>1, <2>3, <3>1
  <2> QED
    BY <2>2, <2>3
<1>16. \A v : OnlineIn(r, v) => OnlineIn(q, v)
  BY <1>15 DEF OnlineIn
<1> QED
  BY <1>10, <1>11, <1>13, <1>16

\* The worker takes the head of the queue.
LEMMA Taken ==
  ASSUME NEW q \in Seq(Events), Len(q) <= QueueCap, q # <<>>
  PROVE  /\ Head(q) \in Events /\ Tail(q) \in Seq(Events) /\ Len(Tail(q)) <= QueueCap
         /\ \A v : OnlineIn(Tail(q), v) => OnlineIn(q, v)
         /\ \A v : Head(q) = [user |-> v, status |-> "online"] => OnlineIn(q, v)
<1>1. PICK t : t = Tail(q)
  OBVIOUS
<1>2. /\ Head(q) \in Events /\ t \in Seq(Events) /\ Len(t) = Len(q) - 1
      /\ \A k \in 1..Len(t) : t[k] = q[k + 1]
  BY <1>1, HeadTailProperties
<1>3. /\ Len(q) \in Nat /\ Len(q) # 0 /\ DOMAIN q = 1..Len(q)
      /\ DOMAIN t = 1..Len(t) /\ Head(q) = q[1]
  BY <1>2, LenProperties, EmptySeq
<1>4. \A k \in DOMAIN t : k + 1 \in DOMAIN q /\ t[k] = q[k + 1]
  BY <1>2, <1>3
<1>5. 1 \in DOMAIN q
  BY <1>3
<1> QED
  BY <1>1, <1>2, <1>3, <1>4, <1>5 DEF OnlineIn

-----------------------------------------------------------------------------
(* The steps of an instance.                                               *)

\* A connection is made, wherever: the member is spoken for now, and its entry is
\* no older than TTL.
LEMMA MadeStep ==
  ASSUME ChatIInv, NEW i \in Instances, NEW u \in Users, ProcTypes',
         queue' = [queue EXCEPT ![i] = Notify(queue[i], u, "online")],
         quiet' = [quiet EXCEPT ![<<u, i>>] = 0],
         \A j \in Instances, v \in Users : <<v, j>> # <<u, i>> => conns'[j][v] = conns[j][v],
         UNCHANGED <<score, keyLeft, index, indexLeft, req, job, sweep>>
  PROVE  ChatIInv'
<1>1. /\ queue' = [queue EXCEPT ![i] = Notify(queue[i], u, "online")]
      /\ quiet' = [quiet EXCEPT ![<<u, i>>] = 0]
      /\ UNCHANGED <<score, keyLeft, index, indexLeft, req, job, sweep>>
  OBVIOUS
<1>2. ProcTypes'
  OBVIOUS
<1>3. /\ Notify(queue[i], u, "online") \in Seq(Events)
      /\ Len(Notify(queue[i], u, "online")) <= QueueCap
      /\ \A v : OnlineIn(Notify(queue[i], u, "online"), v) => OnlineIn(queue[i], v) \/ v = u
  BY Notified DEF ChatIInv, ChatTypes, QueueTypes
<1>4. QueueTypes'
  BY <1>1, <1>3 DEF ChatIInv, ChatTypes, QueueTypes
<1>5. WorkTypes'
  BY <1>1 DEF ChatIInv, ChatTypes, WorkTypes
<1>6. /\ quiet' \in [Members -> 0..(TTL + 1)]
      /\ \A m \in Members : quiet'[m] = IF m = <<u, i>> THEN 0 ELSE quiet[m]
  BY <1>1 DEF ChatIInv, ChatTypes, Members
<1>7. StoreIInv'
  BY <1>1, RequestStep DEF ChatIInv, StoreIInv, StoreTypeOK
<1>8. StampedInv'
  BY <1>1 DEF ChatIInv, StampedInv
<1>9. SpokenInv'
  <2> SUFFICES ASSUME NEW j \in Instances, NEW v \in Users, SpokenNow(v, j)', <<v, j>> # <<u, i>>
               PROVE  quiet'[<<v, j>>] = 0
    BY <1>6, SpokenParts DEF SpokenInv, Members
  <2>1. conns'[j][v] = conns[j][v]
    OBVIOUS
  <2>2. OnlineIn(queue'[j], v) => OnlineIn(queue[j], v)
    BY <1>1, <1>3 DEF ChatIInv, ChatTypes, QueueTypes
  <2>3. SpokenNow(v, j)
    BY <1>1, <2>1, <2>2 DEF SpokenNow
  <2> QED
    BY <1>6, <2>3, SpokenParts DEF ChatIInv, SpokenInv, Members
<1>10. GhostExpires'
  <2>1. \A m \in Members : score[m] \in Int /\ score[m] <= TTL /\ quiet[m] \in Int
    BY DEF ChatIInv, StoreIInv, StoreTypeOK, Scores, Absent, ScoreInv, ChatTypes
  <2> QED
    BY <1>1, <1>6, <2>1 DEF ChatIInv, GhostExpires, Live
<1> QED
  BY <1>2, <1>4, <1>5, <1>6, <1>7, <1>8, <1>9, <1>10 DEF ChatIInv, ChatTypes

\* Join, in the room of the map.
LEMMA JoinStep == ASSUME ChatIInv, NEW i \in Instances, NEW u \in Users, Join(i, u) PROVE ChatIInv'
<1>1. /\ conns[i][u] + orphans[i][u] < MaxConns /\ joins < MaxJoins /\ joins' = joins + 1
      /\ conns' = [conns EXCEPT ![i][u] = conns[i][u] + 1]
      /\ queue' = [queue EXCEPT ![i] = Notify(queue[i], u, "online")]
      /\ quiet' = [quiet EXCEPT ![<<u, i>>] = 0]
      /\ UNCHANGED <<score, keyLeft, index, indexLeft, req, phase, orphans, job, ended, due, sweep,
                     stops>>
  BY DEF Join, storeVars
<1>2. conns[i][u] \in 0..MaxConns /\ orphans[i][u] \in 0..MaxConns
  BY DEF ChatIInv, ChatTypes, ProcTypes
<1>3. conns[i][u] + 1 \in 0..MaxConns
  BY <1>1, <1>2
<1>4. conns' \in [Instances -> [Users -> 0..MaxConns]] /\ joins' \in 0..MaxJoins
  BY <1>1, <1>3 DEF ChatIInv, ChatTypes, ProcTypes
<1>5. ProcTypes'
  BY <1>1, <1>4 DEF ChatIInv, ChatTypes, ProcTypes
<1>6. \A j \in Instances, v \in Users : <<v, j>> # <<u, i>> => conns'[j][v] = conns[j][v]
  BY <1>1 DEF ChatIInv, ChatTypes, ProcTypes
<1> QED
  BY <1>1, <1>5, <1>6, MadeStep

\* Join, in a room that is being removed.
LEMMA JoinOrphanedStep == ASSUME ChatIInv, NEW i \in Instances, NEW u \in Users, JoinOrphaned(i, u) PROVE ChatIInv'
<1>1. /\ conns[i][u] + orphans[i][u] < MaxConns /\ joins < MaxJoins /\ joins' = joins + 1
      /\ orphans' = [orphans EXCEPT ![i][u] = orphans[i][u] + 1]
      /\ queue' = [queue EXCEPT ![i] = Notify(queue[i], u, "online")]
      /\ quiet' = [quiet EXCEPT ![<<u, i>>] = 0]
      /\ UNCHANGED <<score, keyLeft, index, indexLeft, req, phase, conns, job, ended, due, sweep,
                     stops>>
  BY DEF JoinOrphaned, storeVars
<1>2. conns[i][u] \in 0..MaxConns /\ orphans[i][u] \in 0..MaxConns
  BY DEF ChatIInv, ChatTypes, ProcTypes
<1>3. orphans[i][u] + 1 \in 0..MaxConns
  BY <1>1, <1>2
<1>4. orphans' \in [Instances -> [Users -> 0..MaxConns]] /\ joins' \in 0..MaxJoins
  BY <1>1, <1>3 DEF ChatIInv, ChatTypes, ProcTypes
<1>5. ProcTypes'
  BY <1>1, <1>4 DEF ChatIInv, ChatTypes, ProcTypes
<1>6. \A j \in Instances, v \in Users : <<v, j>> # <<u, i>> => conns'[j][v] = conns[j][v]
  BY <1>1 DEF ChatIInv, ChatTypes, ProcTypes
<1> QED
  BY <1>1, <1>5, <1>6, MadeStep

\* Leave: what is queued is an offline, which speaks for no one.
LEMMA LeaveStep == ASSUME ChatIInv, NEW i \in Instances, NEW u \in Users, Leave(i, u) PROVE ChatIInv'
<1>1. /\ conns[i][u] > 0
      /\ conns' = [conns EXCEPT ![i][u] = conns[i][u] - 1]
      /\ queue' = [queue EXCEPT ![i] = Notify(queue[i], u, "offline")]
      /\ UNCHANGED <<score, keyLeft, index, indexLeft, req, phase, orphans, job, ended, due,
                     sweep, joins, stops, quiet>>
  BY DEF Leave, storeVars
<1>2. ProcTypes' /\ \A j \in Instances, v \in Users : conns'[j][v] > 0 => conns[j][v] > 0
  <2>1. conns[i][u] - 1 \in 0..MaxConns
    BY <1>1 DEF ChatIInv, ChatTypes, ProcTypes
  <2>2. conns' \in [Instances -> [Users -> 0..MaxConns]]
    BY <1>1, <2>1 DEF ChatIInv, ChatTypes, ProcTypes
  <2>3. \A j \in Instances, v \in Users : conns'[j][v] > 0 => conns[j][v] > 0
    BY <1>1 DEF ChatIInv, ChatTypes, ProcTypes
  <2> QED
    BY <1>1, <2>2, <2>3 DEF ChatIInv, ChatTypes, ProcTypes
<1>3. /\ Notify(queue[i], u, "offline") \in Seq(Events)
      /\ Len(Notify(queue[i], u, "offline")) <= QueueCap
      /\ \A v : OnlineIn(Notify(queue[i], u, "offline"), v) => OnlineIn(queue[i], v)
  BY Notified DEF ChatIInv, ChatTypes, QueueTypes
<1>4. QueueTypes' /\ \A j \in Instances, v \in Users : OnlineIn(queue'[j], v) => OnlineIn(queue[j], v)
  BY <1>1, <1>3 DEF ChatIInv, ChatTypes, QueueTypes
<1>5. ChatTypes'
  BY <1>1, <1>2, <1>4 DEF ChatIInv, ChatTypes, WorkTypes
<1>6. ReqKept
  BY <1>1, ReqSame DEF ChatIInv, StoreIInv
<1>7. Silent
  BY <1>1, <1>2, <1>4, <1>6, SilentPlaces DEF SpokenNow
<1> QED
  BY <1>5, <1>7, SilentStep

\* Leave, out of an orphaned room: an offline is queued, or nothing.
LEMMA LeaveOrphanedStep ==
  ASSUME ChatIInv, NEW i \in Instances, NEW u \in Users, LeaveOrphaned(i, u) PROVE ChatIInv'
<1>1. /\ orphans[i][u] > 0
      /\ orphans' = [orphans EXCEPT ![i][u] = orphans[i][u] - 1]
      /\ queue' = [queue EXCEPT ![i] = Notify(queue[i], u, "offline")] \/ queue' = queue
      /\ UNCHANGED <<score, keyLeft, index, indexLeft, req, phase, conns, job, ended, due,
                     sweep, joins, stops, quiet>>
  BY DEF LeaveOrphaned, storeVars
<1>2. ProcTypes'
  <2>1. orphans[i][u] - 1 \in 0..MaxConns
    BY <1>1 DEF ChatIInv, ChatTypes, ProcTypes
  <2>2. orphans' \in [Instances -> [Users -> 0..MaxConns]]
    BY <1>1, <2>1 DEF ChatIInv, ChatTypes, ProcTypes
  <2> QED
    BY <1>1, <2>2 DEF ChatIInv, ChatTypes, ProcTypes
<1>3. /\ Notify(queue[i], u, "offline") \in Seq(Events)
      /\ Len(Notify(queue[i], u, "offline")) <= QueueCap
      /\ \A v : OnlineIn(Notify(queue[i], u, "offline"), v) => OnlineIn(queue[i], v)
  BY Notified DEF ChatIInv, ChatTypes, QueueTypes
<1>4. QueueTypes' /\ \A j \in Instances, v \in Users : OnlineIn(queue'[j], v) => OnlineIn(queue[j], v)
  <2>1. CASE queue' = queue
    BY <2>1 DEF ChatIInv, ChatTypes, QueueTypes
  <2>2. CASE queue' = [queue EXCEPT ![i] = Notify(queue[i], u, "offline")]
    BY <2>2, <1>3 DEF ChatIInv, ChatTypes, QueueTypes
  <2> QED
    BY <1>1, <2>1, <2>2
<1>5. ChatTypes'
  BY <1>1, <1>2, <1>4 DEF ChatIInv, ChatTypes, WorkTypes
<1>6. ReqKept
  BY <1>1, ReqSame DEF ChatIInv, StoreIInv
<1>7. Silent
  BY <1>1, <1>4, <1>6, SilentPlaces DEF SpokenNow
<1> QED
  BY <1>5, <1>7, SilentStep

\* WorkerTake: an event moves from the queue to the worker.
LEMMA TakeStep == ASSUME ChatIInv, NEW i \in Instances, WorkerTake(i) PROVE ChatIInv'
<1>1. /\ queue[i] # <<>>
      /\ job' = [job EXCEPT ![i] = <<Head(queue[i]), MaxRetries, 0>>]
      /\ queue' = [queue EXCEPT ![i] = Tail(queue[i])]
      /\ UNCHANGED <<score, keyLeft, index, indexLeft, req, phase, conns, orphans, ended, due, sweep,
                     joins, stops, quiet>>
  BY DEF WorkerTake, storeVars
<1>2. /\ Head(queue[i]) \in Events /\ Tail(queue[i]) \in Seq(Events)
      /\ Len(Tail(queue[i])) <= QueueCap
      /\ \A v : OnlineIn(Tail(queue[i]), v) => OnlineIn(queue[i], v)
      /\ \A v : Head(queue[i]) = [user |-> v, status |-> "online"] => OnlineIn(queue[i], v)
  BY <1>1, Taken DEF ChatIInv, ChatTypes, QueueTypes
<1>3. QueueTypes' /\ \A j \in Instances, v \in Users : OnlineIn(queue'[j], v) => OnlineIn(queue[j], v)
  BY <1>1, <1>2 DEF ChatIInv, ChatTypes, QueueTypes
<1>4. <<Head(queue[i]), MaxRetries, 0>> \in Jobs
  <2>1. MaxRetries \in 0..MaxRetries
    OBVIOUS
  <2> QED
    BY <1>2, <2>1 DEF Jobs
<1>5. WorkTypes' /\ \A j \in Instances, v \in Users :
                      InJob(job'[j], v) => InJob(job[j], v) \/ OnlineIn(queue[j], v)
  BY <1>1, <1>2, <1>4 DEF ChatIInv, ChatTypes, WorkTypes, InJob
<1>6. ChatTypes'
  BY <1>1, <1>3, <1>5 DEF ChatIInv, ChatTypes, ProcTypes
<1>7. ReqKept
  BY <1>1, ReqSame DEF ChatIInv, StoreIInv
<1>8. Silent
  BY <1>1, <1>3, <1>5, <1>7, SilentPlaces DEF SpokenNow
<1> QED
  BY <1>6, <1>8, SilentStep

\* A request is sent that speaks only for those its sender spoke for.
LEMMA SendStep ==
  ASSUME ChatIInv, ChatTypes', UNCHANGED <<score, keyLeft, index, indexLeft, quiet, conns, queue>>,
         NEW i \in Instances, NEW s \in Slots, NEW op \in {"online", "offline", "refresh"},
         NEW us \in SUBSET Users, NEW who \in {"worker", "heartbeat", "nobody"},
         req' = [req EXCEPT ![s] = Request(op, i, us, who)],
         \A u \in us : op # "offline" => SpokenNow(u, i),
         \A j \in Instances, u \in Users :
           /\ InJob(job'[j], u) => InJob(job[j], u)
           /\ InSweep(sweep'[j], u) => InSweep(sweep[j], u)
  PROVE  ChatIInv'
<1>1. PICK r : r = Request(op, i, us, who)
  OBVIOUS
<1>2. r \in Requests /\ r.st = "sent" /\ r.op = op /\ r.inst = i /\ r.users = us
  BY <1>1, NewRequest DEF Request
<1>3. /\ req' \in [Slots -> Requests \cup {Free}] /\ req'[s] = r
      /\ \A x \in Slots : x # s => req'[x] = req[x]
  BY <1>1, <1>2 DEF ChatIInv, StoreIInv, StoreTypeOK
<1>4. \A x \in Slots : req'[x].st = "stamped" =>
        req[x].st = "stamped" /\ req'[x].stamp = req[x].stamp /\ req'[x].op = req[x].op
  BY <1>2, <1>3
<1>5. \A j \in Instances, u \in Users : SpokenNow(u, j)' => SpokenNow(u, j)
  <2> SUFFICES ASSUME NEW j \in Instances, NEW u \in Users, SpokenNow(u, j)' PROVE SpokenNow(u, j)
    OBVIOUS
  <2>1. ASSUME NEW x \in Slots, Speaks(req'[x], j, u) PROVE SpokenNow(u, j)
    <3>1. CASE x = s
      BY <1>2, <1>3, <2>1, <3>1 DEF Speaks
    <3>2. CASE x # s
      BY <1>3, <2>1, <3>2 DEF SpokenNow
    <3> QED
      BY <3>1, <3>2
  <2> QED
    BY <2>1 DEF SpokenNow
<1> QED
  BY <1>3, <1>4, <1>5, SilentStep DEF Silent

\* A job or a sweep that is not idle, by its parts.
LEMMA JobParts ==
  ASSUME ChatIInv, NEW i \in Instances, job[i] # Idle
  PROVE  \E e \in Events, n \in 0..MaxRetries, s \in Slots \cup {0} : job[i] = <<e, n, s>>
BY DEF ChatIInv, ChatTypes, WorkTypes, Jobs

\* A sweep is a snapshot of users with the request that carries it.
LEMMA SweepParts ==
  ASSUME ChatIInv, NEW i \in Instances, sweep[i] # Idle
  PROVE  \E us \in SUBSET Users, s \in Slots \cup {0} : sweep[i] = <<us, s>>
BY DEF ChatIInv, ChatTypes, WorkTypes, Sweeps

\* WorkerPost.
LEMMA PostStep == ASSUME ChatIInv, NEW i \in Instances, NEW s \in Slots, WorkerPost(i, s) PROVE ChatIInv'
<1>1. PICK e \in Events, n \in 0..MaxRetries, x \in Slots \cup {0} : job[i] = <<e, n, x>>
  BY JobParts DEF WorkerPost
<1>2. /\ req' = [req EXCEPT ![s] = Request(e.status, i, {e.user}, "worker")]
      /\ job' = [job EXCEPT ![i] = <<e, n, s>>]
      /\ UNCHANGED <<score, keyLeft, index, indexLeft, phase, conns, orphans, queue, ended, due, sweep,
                     joins, stops, quiet>>
  <2>1. [job EXCEPT ![i][3] = s] = [job EXCEPT ![i] = [<<e, n, x>> EXCEPT ![3] = s]]
    BY <1>1
  <2>2. [<<e, n, x>> EXCEPT ![3] = s] = <<e, n, s>>
    OBVIOUS
  <2>3. job' = [job EXCEPT ![i] = <<e, n, s>>]
    <3>1. job' = [job EXCEPT ![i][3] = s]
      BY DEF WorkerPost
    <3> QED
      BY <2>1, <2>2, <3>1
  <2>4. job[i][1] = e
    BY <1>1
  <2>5. req' = [req EXCEPT ![s] = Request(e.status, i, {e.user}, "worker")]
    BY <2>4 DEF WorkerPost
  <2> QED
    BY <2>3, <2>5 DEF WorkerPost
<1>3. e.status \in {"online", "offline"} /\ e.user \in Users
      /\ e = [user |-> e.user, status |-> e.status]
  BY DEF Events
<1>4. job[i] # Idle /\ job[i][1] = e
  BY <1>1 DEF WorkerPost, Idle
<1>5. WorkTypes'
  <2>1. <<e, n, s>> \in Jobs
    BY DEF Jobs
  <2> QED
    BY <1>2, <2>1 DEF ChatIInv, ChatTypes, WorkTypes
<1>6. ChatTypes'
  BY <1>2, <1>5 DEF ChatIInv, ChatTypes, ProcTypes, QueueTypes
<1>7. \A j \in Instances, u \in Users : InJob(job'[j], u) => InJob(job[j], u)
  BY <1>2, <1>4 DEF ChatIInv, ChatTypes, WorkTypes, InJob
<1>8. \A u \in {e.user} : e.status # "offline" => SpokenNow(u, i)
  BY <1>3, <1>4 DEF SpokenNow, InJob
<1>9. \A j \in Instances, u \in Users : InSweep(sweep'[j], u) => InSweep(sweep[j], u)
  BY <1>2
<1>10. PICK op \in {"online", "offline"}, us \in SUBSET Users : op = e.status /\ us = {e.user}
  BY <1>3
<1>11. /\ req' = [req EXCEPT ![s] = Request(op, i, us, "worker")]
       /\ \A u \in us : op # "offline" => SpokenNow(u, i)
       /\ UNCHANGED <<score, keyLeft, index, indexLeft, quiet, conns, queue>>
  BY <1>2, <1>8, <1>10
<1> QED
  BY <1>6, <1>7, <1>9, <1>11, SendStep

\* HeartbeatPost.
LEMMA SweepPostStep ==
  ASSUME ChatIInv, NEW i \in Instances, NEW s \in Slots, HeartbeatPost(i, s) PROVE ChatIInv'
<1>1. PICK us \in SUBSET Users, x \in Slots \cup {0} : sweep[i] = <<us, x>>
  BY SweepParts DEF HeartbeatPost
<1>2. /\ req' = [req EXCEPT ![s] = Request("refresh", i, us, "heartbeat")]
      /\ sweep' = [sweep EXCEPT ![i] = <<us, s>>]
      /\ UNCHANGED <<score, keyLeft, index, indexLeft, phase, conns, orphans, queue, job, ended, due,
                     joins, stops, quiet>>
  <2>1. [sweep EXCEPT ![i][2] = s] = [sweep EXCEPT ![i] = [<<us, x>> EXCEPT ![2] = s]]
    BY <1>1
  <2>2. [<<us, x>> EXCEPT ![2] = s] = <<us, s>>
    OBVIOUS
  <2>3. sweep' = [sweep EXCEPT ![i] = <<us, s>>]
    <3>1. sweep' = [sweep EXCEPT ![i][2] = s]
      BY DEF HeartbeatPost
    <3> QED
      BY <2>1, <2>2, <3>1
  <2>4. sweep[i][1] = us
    BY <1>1
  <2>5. req' = [req EXCEPT ![s] = Request("refresh", i, us, "heartbeat")]
    BY <2>4 DEF HeartbeatPost
  <2> QED
    BY <2>3, <2>5 DEF HeartbeatPost
<1>3. sweep[i] # Idle /\ sweep[i][1] = us
  BY <1>1 DEF HeartbeatPost, Idle
<1>4. WorkTypes'
  <2>1. <<us, s>> \in Sweeps
    BY DEF Sweeps
  <2> QED
    BY <1>2, <2>1 DEF ChatIInv, ChatTypes, WorkTypes
<1>5. ChatTypes'
  BY <1>2, <1>4 DEF ChatIInv, ChatTypes, ProcTypes, QueueTypes
<1>6. \A j \in Instances, u \in Users : InSweep(sweep'[j], u) => InSweep(sweep[j], u)
  BY <1>2, <1>3 DEF ChatIInv, ChatTypes, WorkTypes, InSweep
<1>7. \A u \in us : SpokenNow(u, i)
  BY <1>3 DEF SpokenNow, InSweep
<1> QED
  BY <1>2, <1>5, <1>6, <1>7, SendStep

\* A request that ends or loses its caller.
LEMMA ReqEnds ==
  ASSUME StoreTypeOK, NEW s \in Slots,
         \/ req' = [req EXCEPT ![s] = Free]
         \/ req' = [req EXCEPT ![s] = Abandon(s)]
  PROVE  ReqKept
<1>1. CASE req' = [req EXCEPT ![s] = Free]
  <2>1. /\ req' \in [Slots -> Requests \cup {Free}] /\ req'[s] = Free
        /\ \A x \in Slots : x # s => req'[x] = req[x]
    BY <1>1 DEF StoreTypeOK
  <2>2. Free.st = "free"
    BY DEF Free
  <2> QED
    BY <2>1, <2>2 DEF ReqKept, Speaks
<1>2. CASE req' = [req EXCEPT ![s] = Abandon(s)]
  <2>1. /\ req' \in [Slots -> Requests \cup {Free}] /\ req'[s] = Abandon(s)
        /\ \A x \in Slots : x # s => req'[x] = req[x]
    BY <1>2, Abandoned DEF StoreTypeOK
  <2> QED
    BY <2>1, Abandoned DEF ReqKept
<1> QED
  BY <1>1, <1>2

\* WorkerDone.
LEMMA DoneStep == ASSUME ChatIInv, NEW i \in Instances, WorkerDone(i) PROVE ChatIInv'
<1>1. PICK e \in Events, n \in 0..MaxRetries, s \in Slots \cup {0} : job[i] = <<e, n, s>>
  BY JobParts DEF WorkerDone
<1>2. /\ s \in Slots
      /\ req' = [req EXCEPT ![s] = Free]
      /\ job' = [job EXCEPT ![i] = Idle]
      /\ UNCHANGED <<score, keyLeft, index, indexLeft, phase, conns, orphans, queue, ended, due, sweep,
                     joins, stops, quiet>>
  BY <1>1 DEF WorkerDone
<1>3. WorkTypes' /\ \A j \in Instances, u \in Users : InJob(job'[j], u) => InJob(job[j], u)
  BY <1>2 DEF ChatIInv, ChatTypes, WorkTypes, Jobs, InJob
<1>4. ChatTypes'
  BY <1>2, <1>3 DEF ChatIInv, ChatTypes, ProcTypes, QueueTypes
<1>5. ReqKept
  BY <1>2, ReqEnds DEF ChatIInv, StoreIInv
<1>6. Silent
  BY <1>2, <1>3, <1>5, SilentPlaces DEF SpokenNow
<1> QED
  BY <1>4, <1>6, SilentStep

\* WorkerFail: the event stays the same over all retries.
LEMMA FailStep == ASSUME ChatIInv, NEW i \in Instances, WorkerFail(i) PROVE ChatIInv'
<1>1. PICK e \in Events, n \in 0..MaxRetries, s \in Slots \cup {0} : job[i] = <<e, n, s>>
  BY JobParts DEF WorkerFail
<1>2. /\ s \in Slots
      /\ req' = [req EXCEPT ![s] = Abandon(s)]
      /\ \/ n > 0 /\ job' = [job EXCEPT ![i] = <<e, n - 1, 0>>]
         \/ job' = [job EXCEPT ![i] = Idle]
      /\ UNCHANGED <<score, keyLeft, index, indexLeft, phase, conns, orphans, queue, ended, due, sweep,
                     joins, stops, quiet>>
  BY <1>1 DEF WorkerFail
<1>3. job[i] # Idle /\ job[i][1] = e
  BY <1>1 DEF WorkerFail, Idle
<1>4. n > 0 => <<e, n - 1, 0>> \in Jobs
  <2>1. n > 0 => n - 1 \in 0..MaxRetries
    OBVIOUS
  <2> QED
    BY <2>1 DEF Jobs
<1>5. WorkTypes' /\ \A j \in Instances, u \in Users : InJob(job'[j], u) => InJob(job[j], u)
  <2>1. job' \in [Instances -> Jobs]
    BY <1>2, <1>4 DEF ChatIInv, ChatTypes, WorkTypes, Jobs
  <2>2. \A j \in Instances, u \in Users : InJob(job'[j], u) => InJob(job[j], u)
    BY <1>2, <1>3 DEF ChatIInv, ChatTypes, WorkTypes, InJob
  <2> QED
    BY <1>2, <2>1, <2>2 DEF ChatIInv, ChatTypes, WorkTypes
<1>6. ChatTypes'
  BY <1>2, <1>5 DEF ChatIInv, ChatTypes, ProcTypes, QueueTypes
<1>7. ReqKept
  BY <1>2, ReqEnds DEF ChatIInv, StoreIInv
<1>8. Silent
  BY <1>2, <1>5, <1>7, SilentPlaces DEF SpokenNow
<1> QED
  BY <1>6, <1>8, SilentStep

\* HeartbeatTick: who is swept is connected.
LEMMA SweepStep == ASSUME ChatIInv, NEW i \in Instances, HeartbeatTick(i) PROVE ChatIInv'
<1>1. /\ due' = [due EXCEPT ![i] = Interval]
      /\ sweep' = [sweep EXCEPT ![i] = IF Snapshot(i) = {} THEN Idle ELSE <<Snapshot(i), 0>>]
      /\ UNCHANGED <<score, keyLeft, index, indexLeft, req, phase, conns, orphans, queue, job, ended,
                     joins, stops, quiet>>
  BY DEF HeartbeatTick, HeartbeatUsers, storeVars
<1>2. Snapshot(i) \in SUBSET Users /\ \A u \in Snapshot(i) : conns[i][u] > 0
  BY DEF Snapshot
<1>3. PICK us \in SUBSET Users : us = Snapshot(i)
  BY <1>2
<1>4. WorkTypes' /\ \A j \in Instances, u \in Users :
                      InSweep(sweep'[j], u) => InSweep(sweep[j], u) \/ conns[j][u] > 0
  BY <1>1, <1>2, <1>3 DEF ChatIInv, ChatTypes, WorkTypes, Sweeps, InSweep
<1>5. ProcTypes'
  <2>1. Interval \in 0..Interval
    OBVIOUS
  <2> QED
    BY <1>1, <2>1 DEF ChatIInv, ChatTypes, ProcTypes
<1>6. ChatTypes'
  BY <1>1, <1>4, <1>5 DEF ChatIInv, ChatTypes, QueueTypes
<1>7. ReqKept
  BY <1>1, ReqSame DEF ChatIInv, StoreIInv
<1>8. Silent
  BY <1>1, <1>4, <1>7, SilentPlaces DEF SpokenNow
<1> QED
  BY <1>6, <1>8, SilentStep

\* HeartbeatEnd.
LEMMA SweepEndStep == ASSUME ChatIInv, NEW i \in Instances, HeartbeatEnd(i) PROVE ChatIInv'
<1>1. PICK us \in SUBSET Users, s \in Slots \cup {0} : sweep[i] = <<us, s>>
  BY SweepParts DEF HeartbeatEnd
<1>2. /\ s \in Slots
      /\ req' = [req EXCEPT ![s] = Abandon(s)]
      /\ sweep' = [sweep EXCEPT ![i] = Idle]
      /\ UNCHANGED <<score, keyLeft, index, indexLeft, phase, conns, orphans, queue, job, ended, due,
                     joins, stops, quiet>>
  BY <1>1 DEF HeartbeatEnd
<1>3. WorkTypes' /\ \A j \in Instances, u \in Users : InSweep(sweep'[j], u) => InSweep(sweep[j], u)
  BY <1>2 DEF ChatIInv, ChatTypes, WorkTypes, Sweeps, InSweep
<1>4. ChatTypes'
  BY <1>2, <1>3 DEF ChatIInv, ChatTypes, ProcTypes, QueueTypes
<1>5. ReqKept
  BY <1>2, ReqEnds DEF ChatIInv, StoreIInv
<1>6. Silent
  BY <1>2, <1>3, <1>5, SilentPlaces DEF SpokenNow
<1> QED
  BY <1>4, <1>6, SilentStep

\* Signal: a whole room is told offline, which speaks for no one.
LEMMA SignalStep == ASSUME ChatIInv, NEW i \in Instances, Signal(i) PROVE ChatIInv'
<1>1. /\ stops < MaxStops /\ stops' = stops + 1
      /\ phase' = [phase EXCEPT ![i] = "draining"]
      /\ UNCHANGED <<score, keyLeft, index, indexLeft, req, conns, orphans, job, ended, due, sweep,
                     joins, quiet>>
  BY DEF Signal, storeVars
<1>2. PICK us \in Orders(Snapshot(i)) : queue' = [queue EXCEPT ![i] = NotifyAll(queue[i], us)]
  BY DEF Signal
<1>3. Snapshot(i) \in SUBSET Users
  BY DEF Snapshot
<1>4. /\ NotifyAll(queue[i], us) \in Seq(Events) /\ Len(NotifyAll(queue[i], us)) <= QueueCap
      /\ \A v : OnlineIn(NotifyAll(queue[i], us), v) => OnlineIn(queue[i], v)
  BY <1>3, AllNotified DEF ChatIInv, ChatTypes, QueueTypes
<1>5. QueueTypes' /\ \A j \in Instances, v \in Users : OnlineIn(queue'[j], v) => OnlineIn(queue[j], v)
  BY <1>2, <1>4 DEF ChatIInv, ChatTypes, QueueTypes
<1>6. ProcTypes'
  <2>1. stops' \in 0..MaxStops
    BY <1>1 DEF ChatIInv, ChatTypes, ProcTypes
  <2> QED
    BY <1>1, <2>1 DEF ChatIInv, ChatTypes, ProcTypes
<1>7. ChatTypes'
  BY <1>1, <1>5, <1>6 DEF ChatIInv, ChatTypes, WorkTypes
<1>8. ReqKept
  BY <1>1, ReqSame DEF ChatIInv, StoreIInv
<1>9. Silent
  BY <1>1, <1>5, <1>8, SilentPlaces DEF SpokenNow
<1> QED
  BY <1>7, <1>9, SilentStep

\* WorkerExit, Shutdown and Restart change nothing that speaks.
LEMMA PhaseStep ==
  ASSUME ChatIInv, NEW i \in Instances, WorkerExit(i) \/ Shutdown(i) \/ Restart(i)
  PROVE  ChatIInv'
<1>1. UNCHANGED <<score, keyLeft, index, indexLeft, req, conns, orphans, queue, job, sweep, joins, stops,
                  quiet>>
  BY DEF WorkerExit, Shutdown, Restart, storeVars
<1>2. phase' \in [Instances -> {"up", "draining", "closing", "down"}]
  BY DEF WorkerExit, Shutdown, Restart, ChatIInv, ChatTypes, ProcTypes
<1>3. ended' \in [Instances -> BOOLEAN]
  BY DEF WorkerExit, Shutdown, Restart, ChatIInv, ChatTypes, ProcTypes
<1>4. due' \in [Instances -> 0..Interval]
  <2>1. Interval \in 0..Interval
    OBVIOUS
  <2> QED
    BY <2>1 DEF WorkerExit, Shutdown, Restart, ChatIInv, ChatTypes, ProcTypes
<1>5. ChatTypes'
  BY <1>1, <1>2, <1>3, <1>4 DEF ChatIInv, ChatTypes, ProcTypes, QueueTypes, WorkTypes
<1>6. ReqKept
  BY <1>1, ReqSame DEF ChatIInv, StoreIInv
<1>7. Silent
  BY <1>1, <1>6, SilentPlaces DEF SpokenNow
<1> QED
  BY <1>5, <1>7, SilentStep

\* Gone: the process speaks for no one any more, its requests still may.
LEMMA GoneStep ==
  ASSUME ChatIInv, NEW i \in Instances, Gone(i), stops' \in 0..MaxStops
  PROVE  ChatIInv'
<1>1. /\ phase' = [phase EXCEPT ![i] = "down"]
      /\ conns' = [conns EXCEPT ![i] = [u \in Users |-> 0]]
      /\ orphans' = [orphans EXCEPT ![i] = [u \in Users |-> 0]]
      /\ queue' = [queue EXCEPT ![i] = <<>>]
      /\ job' = [job EXCEPT ![i] = Idle]
      /\ sweep' = [sweep EXCEPT ![i] = Idle]
      /\ ended' = [ended EXCEPT ![i] = FALSE]
      /\ UNCHANGED <<score, keyLeft, index, indexLeft, due, joins, quiet>>
  BY DEF Gone
<1>2. \A s \in Slots : req'[s] = Abandon(s) \/ req'[s] = req[s]
  BY DEF Gone
<1>3. ProcTypes' /\ \A j \in Instances, u \in Users : conns'[j][u] > 0 => conns[j][u] > 0
  <2>1. [u \in Users |-> 0] \in [Users -> 0..MaxConns]
    OBVIOUS
  <2>2. /\ conns' \in [Instances -> [Users -> 0..MaxConns]]
        /\ orphans' \in [Instances -> [Users -> 0..MaxConns]]
    BY <1>1, <2>1 DEF ChatIInv, ChatTypes, ProcTypes
  <2>3. \A j \in Instances, u \in Users : conns'[j][u] > 0 => conns[j][u] > 0
    BY <1>1 DEF ChatIInv, ChatTypes, ProcTypes
  <2> QED
    BY <1>1, <2>2, <2>3 DEF ChatIInv, ChatTypes, ProcTypes
<1>4. QueueTypes' /\ \A j \in Instances, u \in Users : OnlineIn(queue'[j], u) => OnlineIn(queue[j], u)
  <2>1. <<>> \in Seq(Events) /\ Len(<<>>) = 0
    OBVIOUS
  <2>2. QueueTypes'
    BY <1>1, <2>1 DEF ChatIInv, ChatTypes, QueueTypes
  <2>3. \A u : ~OnlineIn(<<>>, u)
    BY DEF OnlineIn
  <2> QED
    BY <1>1, <2>2, <2>3 DEF ChatIInv, ChatTypes, QueueTypes
<1>5. /\ WorkTypes'
      /\ \A j \in Instances, u \in Users : /\ InJob(job'[j], u) => InJob(job[j], u)
                                           /\ InSweep(sweep'[j], u) => InSweep(sweep[j], u)
  BY <1>1 DEF ChatIInv, ChatTypes, WorkTypes, Jobs, Sweeps, InJob, InSweep
<1>6. ChatTypes'
  BY <1>1, <1>3, <1>4, <1>5 DEF ChatIInv, ChatTypes
<1>7. ReqKept
  <2>1. StoreTypeOK
    BY DEF ChatIInv, StoreIInv
  <2>2. req' = [s \in Slots |-> req'[s]]
    BY DEF Gone
  <2>3. \A s \in Slots : req'[s] \in Requests \cup {Free}
    BY <1>2, <2>1, Abandoned DEF StoreTypeOK
  <2>4. req' \in [Slots -> Requests \cup {Free}]
    BY <2>2, <2>3
  <2> QED
    BY <1>2, <2>1, <2>4, Abandoned DEF ReqKept
<1>8. Silent
  BY <1>1, <1>3, <1>4, <1>5, <1>7, SilentPlaces DEF SpokenNow
<1> QED
  BY <1>6, <1>8, SilentStep

\* Every step of an instance.
LEMMA InstanceStep == ASSUME ChatIInv, NEW i \in Instances, Chat(i) PROVE ChatIInv'
<1>1. CASE Exit(i) \/ ExitEarly(i)
  BY <1>1, GoneStep DEF Exit, ExitEarly, ChatIInv, ChatTypes, ProcTypes
<1>2. CASE Crash(i)
  <2>1. stops' \in 0..MaxStops
    BY <1>2 DEF Crash, ChatIInv, ChatTypes, ProcTypes
  <2> QED
    BY <1>2, <2>1, GoneStep DEF Crash
<1>3. CASE \E u \in Users : Join(i, u) \/ JoinOrphaned(i, u) \/ Leave(i, u) \/ LeaveOrphaned(i, u)
  BY <1>3, JoinStep, JoinOrphanedStep, LeaveStep, LeaveOrphanedStep
<1>4. CASE \E s \in Slots : WorkerPost(i, s) \/ HeartbeatPost(i, s)
  BY <1>4, PostStep, SweepPostStep
<1> QED
  BY <1>1, <1>2, <1>3, <1>4, TakeStep, DoneStep, FailStep, SweepStep, SweepEndStep, SignalStep,
     PhaseStep DEF Chat

-----------------------------------------------------------------------------
(* The steps of the store, and time.                                       *)

\* A step of the store that starts no request keeps the chat side as it is;
\* what is left to show is that it gives life only to those who are spoken for.
LEMMA ServedStep ==
  ASSUME ChatIInv, StoreIInv', UNCHANGED chatVars, StampedInv',
         \A s \in Slots, i \in Instances, u \in Users :
           Speaks(req'[s], i, u) => Speaks(req[s], i, u),
         \A m \in Members : score'[m] >= 0 => score'[m] = score[m] \/ SpokenNow(m[1], m[2])
  PROVE  ChatIInv'
<1>1. UNCHANGED <<phase, conns, orphans, queue, job, ended, due, sweep, joins, stops, quiet>>
  BY DEF chatVars
<1>2. ChatTypes'
  BY <1>1 DEF ChatIInv, ChatTypes, ProcTypes, QueueTypes, WorkTypes
<1>3. \A i \in Instances, u \in Users : SpokenNow(u, i)' => SpokenNow(u, i)
  BY <1>1 DEF SpokenNow
<1>4. SpokenInv'
  BY <1>1, <1>3, SpokenParts DEF ChatIInv, SpokenInv
<1>5. GhostExpires'
  <2> SUFFICES ASSUME NEW m \in Members, score'[m] >= 0 PROVE score'[m] + quiet[m] <= TTL
    BY <1>1 DEF GhostExpires, Live
  <2>1. CASE score'[m] = score[m]
    BY <2>1 DEF ChatIInv, GhostExpires, Live
  <2>2. CASE SpokenNow(m[1], m[2])
    <3>1. m[1] \in Users /\ m[2] \in Instances /\ m = <<m[1], m[2]>>
      BY DEF Members
    <3>2. quiet[m] = 0
      BY <2>2, <3>1, SpokenParts DEF ChatIInv, SpokenInv
    <3>3. score'[m] \in Int /\ score'[m] <= TTL
      BY DEF StoreIInv, StoreTypeOK, Scores, Absent, ScoreInv
    <3> QED
      BY <3>2, <3>3
  <2> QED
    BY <2>1, <2>2
<1> QED
  BY <1>2, <1>4, <1>5 DEF ChatIInv

\* Stamp.
LEMMA ChatStampStep ==
  ASSUME ChatIInv, UNCHANGED chatVars, NEW s \in Slots, Stamp(s) PROVE ChatIInv'
<1>1. PICK r \in Requests : req[s] = r
  BY SlotParts DEF Stamp, ChatIInv, StoreIInv
<1>2. /\ req' = [req EXCEPT ![s] = [r EXCEPT !.st = "stamped", !.stamp = TTL]]
      /\ r.st = "sent" /\ r.op # "offline" /\ UNCHANGED score
  BY <1>1 DEF Stamp, ExpiryMillis
<1>3. PICK q : q = [r EXCEPT !.st = "stamped", !.stamp = TTL]
  OBVIOUS
<1>4. q.op = r.op /\ q.inst = r.inst /\ q.users = r.users
  BY <1>3 DEF Requests
<1>5. req'[s] = q /\ \A x \in Slots : x # s => req'[x] = req[x]
  BY <1>2, <1>3 DEF ChatIInv, StoreIInv, StoreTypeOK
<1>6. StoreIInv'
  BY StampStep DEF ChatIInv
<1>7. StampedInv'
  BY <1>2, <1>4, <1>5 DEF ChatIInv, StampedInv
<1>8. \A x \in Slots, i \in Instances, u \in Users : Speaks(req'[x], i, u) => Speaks(req[x], i, u)
  BY <1>1, <1>2, <1>4, <1>5 DEF Speaks
<1> QED
  BY <1>2, <1>6, <1>7, <1>8, ServedStep

\* The slot that was served, once its request has taken effect.
LEMMA ServedSlot ==
  ASSUME ChatIInv, NEW s \in Slots, req[s].st # "free", req' = [req EXCEPT ![s] = Finish(s)]
  PROVE  /\ StampedInv'
         /\ \A x \in Slots, i \in Instances, u \in Users :
              Speaks(req'[x], i, u) => Speaks(req[x], i, u)
<1>1. Finish(s).st \in {"free", "done"}
  BY Finished DEF ChatIInv, StoreIInv
<1>2. req'[s].st \in {"free", "done"} /\ \A x \in Slots : x # s => req'[x] = req[x]
  BY <1>1 DEF ChatIInv, StoreIInv, StoreTypeOK
<1> QED
  BY <1>2 DEF ChatIInv, StampedInv, Speaks

\* SetOnline: the request itself spoke for those it gives a life.
LEMMA ChatOnlineStep ==
  ASSUME ChatIInv, UNCHANGED chatVars, NEW s \in Slots, SetOnline(s) PROVE ChatIInv'
<1>1. StoreIInv'
  BY OnlineStep DEF ChatIInv
<1>2. req[s].st = "stamped" /\ req' = [req EXCEPT ![s] = Finish(s)]
  BY DEF SetOnline
<1>3. req[s].op # "offline"
  BY <1>2 DEF ChatIInv, StampedInv
<1>4. \A m \in Members : score'[m] = score[m] \/ (m[1] \in req[s].users /\ m[2] = req[s].inst)
  BY DEF SetOnline
<1>5. \A m \in Members : score'[m] = score[m] \/ SpokenNow(m[1], m[2])
  BY <1>2, <1>3, <1>4 DEF SpokenNow, Speaks
<1>6. /\ StampedInv'
      /\ \A x \in Slots, i \in Instances, u \in Users :
           Speaks(req'[x], i, u) => Speaks(req[x], i, u)
  BY <1>2, ServedSlot
<1> QED
  BY <1>1, <1>5, <1>6, ServedStep

\* SetOffline.
LEMMA ChatOfflineStep ==
  ASSUME ChatIInv, UNCHANGED chatVars, NEW s \in Slots, SetOffline(s) PROVE ChatIInv'
<1>1. StoreIInv'
  BY OfflineStep DEF ChatIInv
<1>2. req[s].st # "free" /\ req' = [req EXCEPT ![s] = Finish(s)]
  BY DEF SetOffline
<1>3. \A m \in Members : score'[m] >= 0 => score'[m] = score[m]
  BY DEF SetOffline, Removed, Absent
<1>4. /\ StampedInv'
      /\ \A x \in Slots, i \in Instances, u \in Users :
           Speaks(req'[x], i, u) => Speaks(req[x], i, u)
  BY <1>2, ServedSlot
<1> QED
  BY <1>1, <1>3, <1>4, ServedStep

\* LoseRequest, and the reads.
LEMMA ChatLoseStep ==
  ASSUME ChatIInv, UNCHANGED chatVars, NEW s \in Slots, LoseRequest(s) PROVE ChatIInv'
<1>1. StoreIInv'
  BY LoseStep DEF ChatIInv
<1>2. req' = [req EXCEPT ![s] = Free] /\ UNCHANGED score
  BY DEF LoseRequest
<1>3. ReqKept
  BY <1>2, ReqEnds DEF ChatIInv, StoreIInv
<1>4. StampedInv'
  BY <1>3 DEF ReqKept, ChatIInv, StampedInv
<1> QED
  BY <1>1, <1>2, <1>3, <1>4, ServedStep DEF ReqKept

\* The reads of the store, ListOnline and PruneIndex.
LEMMA ChatReadStep ==
  ASSUME ChatIInv, UNCHANGED chatVars, ListOnline \/ PruneIndex PROVE ChatIInv'
<1>1. StoreIInv'
  BY ListStep, PruneStep DEF ChatIInv
<1>2. UNCHANGED req /\ \A m \in Members : score'[m] >= 0 => score'[m] = score[m]
  BY DEF ListOnline, PruneIndex, Absent
<1>3. StampedInv'
  BY <1>2 DEF ChatIInv, StampedInv
<1> QED
  BY <1>1, <1>2, <1>3, ServedStep

\* Tick: a member that is quiet for one more tick has one tick less to live.
LEMMA ChatTickStep == ASSUME ChatIInv, Tick PROVE ChatIInv'
<1>1. /\ StoreTick
      /\ due' = [i \in Instances |-> IF Alive(i) /\ due[i] > 0 THEN due[i] - 1 ELSE due[i]]
      /\ quiet' = [m \in Members |-> IF Spoken(m[1], m[2]) THEN 0
                                     ELSE IF quiet[m] <= TTL THEN quiet[m] + 1 ELSE quiet[m]]
      /\ joins' = 0
      /\ UNCHANGED <<phase, conns, orphans, queue, job, ended, sweep, stops>>
  BY DEF Tick
<1>2. StoreIInv'
  BY <1>1, TickStep DEF ChatIInv
<1>3. ASSUME NEW s \in Slots
      PROVE  /\ req'[s].st = "stamped" => req'[s].op # "offline"
             /\ \A i \in Instances, u \in Users : Speaks(req'[s], i, u) => Speaks(req[s], i, u)
  <2>1. CASE req[s].st = "stamped"
    <3>1. PICK r \in Requests : req[s] = r
      BY <2>1, SlotParts DEF ChatIInv, StoreIInv
    <3>2. r.op # "offline"
      BY <2>1, <3>1 DEF ChatIInv, StampedInv
    <3>3. req'[s] = [r EXCEPT !.stamp = r.stamp - 1]
      BY <1>1, <2>1, <3>1 DEF StoreTick
    <3>4. req'[s].op = r.op /\ req'[s].inst = r.inst /\ req'[s].users = r.users
      BY <3>3 DEF Requests
    <3> QED
      BY <2>1, <3>1, <3>2, <3>4 DEF Speaks
  <2>2. CASE req[s].st # "stamped"
    <3>1. req'[s] = req[s]
      BY <1>1, <2>2 DEF StoreTick
    <3> QED
      BY <2>2, <3>1
  <2> QED
    BY <2>1, <2>2
<1>4. \A m \in Members : quiet[m] \in Int /\ 0 <= quiet[m] /\ quiet[m] <= TTL + 1
  BY DEF ChatIInv, ChatTypes
<1>5. quiet' \in [Members -> 0..(TTL + 1)]
  BY <1>1, <1>4
<1>6. due' \in [Instances -> 0..Interval]
  BY <1>1 DEF ChatIInv, ChatTypes, ProcTypes
<1>7. ChatTypes'
  <2>1. joins' \in 0..MaxJoins
    BY <1>1
  <2> QED
    BY <1>1, <1>5, <1>6, <2>1 DEF ChatIInv, ChatTypes, ProcTypes, QueueTypes, WorkTypes
<1>8. StampedInv'
  BY <1>3 DEF StampedInv
<1>9. \A i \in Instances, u \in Users : SpokenNow(u, i)' => SpokenNow(u, i)
  BY <1>1, <1>3 DEF SpokenNow
<1>10. SpokenInv'
  <2> SUFFICES ASSUME NEW i \in Instances, NEW u \in Users, SpokenNow(u, i) PROVE quiet'[<<u, i>>] = 0
    BY <1>9, SpokenParts DEF SpokenInv
  <2>1. Spoken(u, i) /\ <<u, i>> \in Members
    BY SpokenParts DEF Members
  <2>2. quiet'[<<u, i>>] = IF Spoken(<<u, i>>[1], <<u, i>>[2]) THEN 0
                           ELSE IF quiet[<<u, i>>] <= TTL THEN quiet[<<u, i>>] + 1 ELSE quiet[<<u, i>>]
    BY <1>1, <2>1
  <2> QED
    BY <2>1, <2>2
<1>11. GhostExpires'
  <2> SUFFICES ASSUME NEW m \in Members, score'[m] >= 0 PROVE score'[m] + quiet'[m] <= TTL
    BY DEF GhostExpires, Live
  <2>1. score[m] \in Int /\ score[m] <= TTL
    BY DEF ChatIInv, StoreIInv, StoreTypeOK, Scores, Absent, ScoreInv
  <2>2. score[m] >= 0 /\ score'[m] = score[m] - 1
    BY <1>1, <2>1 DEF StoreTick, Older, Absent
  <2>3. score[m] + quiet[m] <= TTL
    BY <2>2 DEF ChatIInv, GhostExpires, Live
  <2>4. quiet'[m] = 0 \/ quiet'[m] = quiet[m] + 1 \/ quiet'[m] = quiet[m]
    BY <1>1
  <2> QED
    BY <1>4, <2>1, <2>2, <2>3, <2>4
<1> QED
  BY <1>2, <1>7, <1>8, <1>10, <1>11 DEF ChatIInv

-----------------------------------------------------------------------------
(* Everything together.                                                    *)

\* Nobody is connected, nothing is queued and Redis is empty.
LEMMA ChatIInvInit == Init => ChatIInv
<1> SUFFICES ASSUME Init PROVE ChatIInv
  OBVIOUS
<1>1. StoreIInv
  BY StoreIInvInit DEF Init
<1>2. ChatTypes
  <2>1. ProcTypes
    BY DEF Init, ProcTypes
  <2>2. QueueTypes
    BY DEF Init, QueueTypes
  <2>3. WorkTypes
    BY DEF Init, WorkTypes, Jobs, Sweeps
  <2> QED
    BY <2>1, <2>2, <2>3 DEF Init, ChatTypes
<1>3. \A s \in Slots : req[s].st = "free"
  BY DEF Init, StoreInit, Free
<1>4. StampedInv
  BY <1>3 DEF StampedInv
<1>5. SpokenInv
  <2> SUFFICES ASSUME NEW i \in Instances, NEW u \in Users PROVE ~SpokenNow(u, i)
    BY SpokenParts DEF SpokenInv
  <2>1. ~(conns[i][u] > 0) /\ queue[i] = <<>> /\ job[i] = Idle /\ sweep[i] = Idle
    BY DEF Init
  <2> QED
    BY <1>3, <2>1 DEF SpokenNow, OnlineIn, InJob, InSweep, Speaks
<1>6. GhostExpires
  BY DEF Init, StoreInit, GhostExpires, Live, Absent
<1> QED
  BY <1>1, <1>2, <1>4, <1>5, <1>6 DEF ChatIInv

\* Every step of the two services keeps the invariant.
LEMMA ChatIInvStep == ChatIInv /\ [Next]_vars => ChatIInv'
<1> SUFFICES ASSUME ChatIInv, [Next]_vars PROVE ChatIInv'
  OBVIOUS
<1>1. CASE Tick
  BY <1>1, ChatTickStep
<1>2. CASE Store /\ UNCHANGED chatVars
  BY <1>2, ChatStampStep, ChatOnlineStep, ChatOfflineStep, ChatLoseStep DEF Store
<1>3. CASE (ListOnline \/ PruneIndex) /\ UNCHANGED chatVars
  BY <1>3, ChatReadStep
<1>4. CASE \E i \in Instances : Chat(i)
  BY <1>4, InstanceStep
<1>5. CASE UNCHANGED vars
  <2>1. UNCHANGED <<score, keyLeft, index, indexLeft, req>> /\ UNCHANGED chatVars
    BY <1>5 DEF vars, storeVars
  <2>2. StoreIInv' /\ StampedInv'
    BY <2>1, RequestStep DEF ChatIInv, StoreIInv, StoreTypeOK, StampedInv
  <2> QED
    BY <2>1, <2>2, ServedStep
<1> QED
  BY <1>1, <1>2, <1>3, <1>4, <1>5 DEF Next

\* The inductive invariant of the two services together.
THEOREM ChatIsInductive == Spec => []ChatIInv
<1> QED
  BY ChatIInvInit, ChatIInvStep, PTL DEF Spec

\* No ghost outlives its TTL: a member is listed for at most TTL ticks after
\* the last thing that spoke for it went away, whatever was lost, repeated,
\* applied late or overtaken, and however its instance ended.
THEOREM GhostsExpire == Spec => []PresenceInv
<1>1. ChatIInv => PresenceInv
  <2> SUFFICES ASSUME ChatIInv PROVE TypeOK
    BY DEF ChatIInv, PresenceInv
  <2> QED
    BY DEF ChatIInv, StoreIInv, ChatTypes, ProcTypes, QueueTypes, WorkTypes, Jobs, Sweeps, TypeOK
<1> QED
  BY <1>1, ChatIsInductive, PTL

\* What the store promises on its own it keeps as part of the platform.
THEOREM StoreHoldsInChat == Spec => [](StoreInv /\ IndexCoversRoom)
<1>1. ChatIInv => StoreInv /\ IndexCoversRoom
  BY DEF ChatIInv, StoreIInv, StoreInv
<1> QED
  BY <1>1, ChatIsInductive, PTL

=============================================================================
