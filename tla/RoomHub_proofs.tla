--------------------------- MODULE RoomHub_proofs ---------------------------
(***************************************************************************)
(* Proofs about RoomHub for any number of connections, rooms, frames and   *)
(* any buffer capacity.                                                    *)
(***************************************************************************)
EXTENDS RoomHub, SequenceTheorems, TLAPS

\* A name in the map stands for an incarnation that has been made, and no
\* other name stands for it.
MapInv ==
  /\ \A n \in Names : rooms[n] <= made
  /\ \A n, m \in Names : rooms[n] # 0 /\ rooms[n] = rooms[m] => n = m

\* Incarnations still to be made are untouched, and run() returns only after
\* its room was shut down.
RunInv ==
  /\ \A r \in RoomIds : r > made => ~done[r] /\ ~exited[r] /\ members[r] = {} /\ pending[r] = <<>>
  /\ \A r \in RoomIds : exited[r] => done[r]

\* What the scan has found empty or has yet to look at is in the map, and the
\* reaper holds h.mu meanwhile.
ScanInv ==
  /\ \A n \in scan \cup doomed : rooms[n] # 0
  /\ \A n \in doomed : n \notin scan
  /\ \A n, m \in doomed : n = m
  /\ reaper # "scanning" => scan = {} /\ doomed = {}

HubInv == HubRoomsLive /\ MapInv /\ RunInv /\ ScanInv

\* A client is only ever in the room it holds a pointer to, and while it is
\* there its channel is open.
MemberInv ==
  \A r \in RoomIds : \A c \in members[r] :
    room[c] = r /\ ~closed[c] /\ pc[c] \notin {"new", "registering"}

\* Before a client is registered its channel is open and empty.
FreshInv ==
  \A c \in Clients : pc[c] \in {"new", "registering"} =>
    ~closed[c] /\ send[c] = <<>>

ClientInv == MemberInv /\ FreshInv

IInv == TypeOK /\ HubInv /\ ClientInv /\ NoPanic

USE RoomHubAssumption

-----------------------------------------------------------------------------
(* Types.                                                                  *)

\* Initially every variable has its type, and nothing is queued.
LEMMA TypeInit == Init => TypeOK
<1> SUFFICES ASSUME Init PROVE TypeOK
  OBVIOUS
<1> USE DEF Init
<1>1. pending \in [RoomIds -> Seq(Frames)] /\ \A r \in RoomIds : Len(pending[r]) <= 1
  OBVIOUS
<1>2. send \in [Clients -> Seq(Nat)] /\ \A c \in Clients : Len(send[c]) <= SendCap
  OBVIOUS
<1>3. members \in [RoomIds -> SUBSET Clients] /\ archived \in [RoomIds -> SUBSET Nat]
  OBVIOUS
<1>4. /\ done \in [RoomIds -> BOOLEAN] /\ exited \in [RoomIds -> BOOLEAN]
      /\ open \in [Clients -> BOOLEAN] /\ closed \in [Clients -> BOOLEAN]
  OBVIOUS
<1>5. /\ rooms \in [Names -> 0..MaxRooms] /\ made \in 0..MaxRooms
      /\ room \in [Clients -> 0..MaxRooms] /\ msgs \in 0..MaxMsgs
  OBVIOUS
<1> QED
  BY <1>1, <1>2, <1>3, <1>4, <1>5 DEF TypeOK, MessageKinds

\* Every step preserves the types, the capacity of the buffers and the single
\* frame in hand.
LEMMA TypeStep == TypeOK /\ [Next]_vars => TypeOK'
<1> SUFFICES ASSUME TypeOK, [Next]_vars PROVE TypeOK'
  OBVIOUS
<1> USE DEF TypeOK, RoomIds
<1>1. CASE HubClose
  BY <1>1 DEF HubClose, roomVars, clientVars
<1>2. CASE ReapStop
  BY <1>2 DEF ReapStop, roomVars, clientVars
<1>3. CASE ReapTick
  BY <1>3 DEF ReapTick, roomVars, clientVars
<1>4. ASSUME NEW n \in Names, ReapCheck(n) PROVE TypeOK'
  <2>1. scan' \in SUBSET Names /\ doomed' \in SUBSET Names
    BY <1>4 DEF ReapCheck
  <2> QED
    BY <1>4, <2>1 DEF ReapCheck, roomVars, clientVars
<1>5. ASSUME NEW n \in Names, ReapRemove(n) PROVE TypeOK'
  <2>1. panicked' \in BOOLEAN
    BY <1>5 DEF ReapRemove
  <2>2. /\ rooms' = [rooms EXCEPT ![n] = 0] /\ doomed' = {}
        /\ done' = [done EXCEPT ![rooms[n]] = TRUE]
    BY <1>5 DEF ReapRemove
  <2>3. UNCHANGED <<made, stop, reaper, scan, members, exited, pending, seq, archived,
                    clientVars, msgs>>
    BY <1>5 DEF ReapRemove
  <2>4. rooms' \in [Names -> 0..MaxRooms]
    BY <2>2
  <2>5. done' \in [RoomIds -> BOOLEAN]
    BY <2>2
  <2> QED
    BY <2>1, <2>2, <2>3, <2>4, <2>5 DEF clientVars
<1>6. CASE ReapEnd
  BY <1>6 DEF ReapEnd, roomVars, clientVars
<1>7. ASSUME NEW c \in Clients, NEW n \in Names, GetOrCreateRoom(c, n) PROVE TypeOK'
  <2>1. made' \in 0..MaxRooms /\ rooms' \in [Names -> 0..MaxRooms]
    BY <1>7, RoomHubAssumption DEF GetOrCreateRoom
  <2>2. room' \in [Clients -> 0..MaxRooms]
    BY <1>7, <2>1 DEF GetOrCreateRoom
  <2>3. pc' \in [Clients -> {"new", "registering", "reading", "sending", "leaving", "gone",
                        "abandoned"}]
    BY <1>7 DEF GetOrCreateRoom
  <2>4. UNCHANGED <<stop, reaper, scan, doomed, roomVars, msg, open, writer, send, closed,
                    last, notified, panicked, msgs>>
    BY <1>7 DEF GetOrCreateRoom
  <2> QED
    BY <2>1, <2>2, <2>3, <2>4 DEF roomVars
<1>8. ASSUME NEW c \in Clients, RegisterTimeout(c) PROVE TypeOK'
  BY <1>8 DEF RegisterTimeout, hubVars, roomVars
<1>9. ASSUME NEW r \in RoomIds, RunDone(r) PROVE TypeOK'
  BY <1>9 DEF RunDone, hubVars, clientVars
<1>10. ASSUME NEW r \in RoomIds, NEW c \in Clients, RunRegister(r, c) PROVE TypeOK'
  <2>1. [kind |-> "join", from |-> c] \in Frames
    BY DEF Frames, FrameKinds
  <2>2. pending' \in [RoomIds -> Seq(Frames)] /\ \A q \in RoomIds : Len(pending'[q]) <= 1
    BY <1>10, <2>1 DEF RunRegister
  <2>3. members' \in [RoomIds -> SUBSET Clients] /\ last' \in [Clients -> Nat]
    BY <1>10 DEF RunRegister
  <2>4. /\ pc' = [pc EXCEPT ![c] = "reading"] /\ writer' = [writer EXCEPT ![c] = "on"]
        /\ notified' = [notified EXCEPT ![c] = "online"]
        /\ UNCHANGED <<hubVars, done, exited, seq, archived, room, msg, open, send, closed,
                       panicked, msgs>>
    BY <1>10 DEF RunRegister
  <2> QED
    BY <2>2, <2>3, <2>4 DEF hubVars
<1>11. ASSUME NEW r \in RoomIds, NEW c \in Clients, RunUnregister(r, c) PROVE TypeOK'
  <2>1. CASE c \in members[r]
    <3>0. [kind |-> "leave", from |-> c] \in Frames
      BY DEF Frames, FrameKinds
    <3>1. /\ pending' = [pending EXCEPT ![r] = <<[kind |-> "leave", from |-> c]>>]
          /\ members' = [members EXCEPT ![r] = @ \ {c}]
          /\ closed' = [closed EXCEPT ![c] = TRUE]
          /\ open' = [open EXCEPT ![c] = FALSE]
          /\ pc' = [pc EXCEPT ![c] = "gone"]
      BY <1>11, <2>1 DEF RunUnregister
    <3>2. pending' \in [RoomIds -> Seq(Frames)] /\ \A q \in RoomIds : Len(pending'[q]) <= 1
      BY <3>0, <3>1
    <3>3. panicked' \in BOOLEAN
      BY <1>11, <2>1 DEF RunUnregister
    <3>4. /\ members' \in [RoomIds -> SUBSET Clients] /\ closed' \in [Clients -> BOOLEAN]
          /\ open' \in [Clients -> BOOLEAN]
      BY <3>1
    <3>5. UNCHANGED <<hubVars, done, exited, seq, archived, room, msg, writer, send, last,
                      notified, msgs>>
      BY <1>11 DEF RunUnregister
    <3> QED
      BY <3>1, <3>2, <3>3, <3>4, <3>5 DEF hubVars
  <2>2. CASE c \notin members[r]
    BY <1>11, <2>2 DEF RunUnregister, hubVars
  <2> QED
    BY <2>1, <2>2
<1>12. ASSUME NEW r \in RoomIds, NEW c \in Clients, RunBroadcast(r, c) PROVE TypeOK'
  <2>1. pending' \in [RoomIds -> Seq(Frames)] /\ \A q \in RoomIds : Len(pending'[q]) <= 1
    <3>1. CASE msg[c] = "dropped"
      BY <1>12, <3>1 DEF RunBroadcast
    <3>2. CASE msg[c] # "dropped"
      BY <1>12, <3>2 DEF RunBroadcast, Frames, FrameKinds, MessageKinds
    <3> QED
      BY <3>1, <3>2
  <2>2. msg' \in [Clients -> MessageKinds]
    BY <1>12 DEF RunBroadcast, MessageKinds
  <2> QED
    BY <1>12, <2>1, <2>2 DEF RunBroadcast, hubVars
<1>13. ASSUME NEW r \in RoomIds, RunFanOut(r) PROVE TypeOK'
  <2>0. UNCHANGED <<hubVars, done, exited, pc, room, msg, open, writer, last, msgs>>
    BY <1>13 DEF RunFanOut
  <2>1. notified' \in [Clients -> {"none", "online", "offline"}]
    BY <1>13 DEF RunFanOut
  <2>2. archived' \in [RoomIds -> SUBSET Nat]
    BY <1>13 DEF RunFanOut
  <2>3. send' \in [Clients -> Seq(Nat)] /\ \A c \in Clients : Len(send'[c]) <= SendCap
    <3>1. send' = [c \in Clients |-> IF c \in members[r] \ Full(r)
                                     THEN Append(send[c], seq[r] + 1) ELSE send[c]]
      BY <1>13 DEF RunFanOut
    <3>2. ASSUME NEW c \in Clients PROVE send'[c] \in Seq(Nat) /\ Len(send'[c]) <= SendCap
      <4>0. /\ send[c] \in Seq(Nat) /\ Len(send[c]) <= SendCap /\ Len(send[c]) \in Nat
            /\ seq[r] + 1 \in Nat
        OBVIOUS
      <4>1. CASE c \in members[r] \ Full(r)
        <5>1. send'[c] = Append(send[c], seq[r] + 1) /\ ~(Len(send[c]) >= SendCap)
          BY <3>1, <4>1 DEF Full
        <5> QED
          BY <4>0, <5>1, RoomHubAssumption
      <4>2. CASE c \notin members[r] \ Full(r)
        BY <3>1, <4>0, <4>2
      <4> QED
        BY <4>1, <4>2
    <3> QED
      BY <3>1, <3>2
  <2>4. members' \in [RoomIds -> SUBSET Clients]
    BY <1>13 DEF RunFanOut
  <2>5. closed' \in [Clients -> BOOLEAN] /\ panicked' \in BOOLEAN
    BY <1>13 DEF RunFanOut
  <2>6. seq' \in [RoomIds -> Nat]
    BY <1>13 DEF RunFanOut
  <2>7. pending' \in [RoomIds -> Seq(Frames)] /\ \A q \in RoomIds : Len(pending'[q]) <= 1
    BY <1>13 DEF RunFanOut
  <2> QED
    BY <2>0, <2>1, <2>2, <2>3, <2>4, <2>5, <2>6, <2>7 DEF hubVars
<1>14. ASSUME NEW c \in Clients, NEW kind \in MessageKinds, ReadMessage(c, kind) PROVE TypeOK'
  BY <1>14 DEF ReadMessage, hubVars, roomVars
<1>15. ASSUME NEW c \in Clients, BroadcastTimeout(c) PROVE TypeOK'
  BY <1>15 DEF BroadcastTimeout, hubVars, roomVars, MessageKinds
<1>16. ASSUME NEW c \in Clients, ReadError(c) PROVE TypeOK'
  BY <1>16 DEF ReadError, hubVars, roomVars
<1>17. ASSUME NEW c \in Clients, UnregisterTimeout(c) PROVE TypeOK'
  BY <1>17 DEF UnregisterTimeout, hubVars, roomVars
<1>18. ASSUME NEW c \in Clients, WriteFrame(c) PROVE TypeOK'
  <2>1. send' \in [Clients -> Seq(Nat)] /\ \A d \in Clients : Len(send'[d]) <= SendCap
    BY <1>18, RoomHubAssumption DEF WriteFrame
  <2>2. last' \in [Clients -> Nat]
    BY <1>18 DEF WriteFrame
  <2> QED
    BY <1>18, <2>1, <2>2 DEF WriteFrame, hubVars, roomVars
<1>19. ASSUME NEW c \in Clients, WriterExit(c) PROVE TypeOK'
  BY <1>19 DEF WriterExit, hubVars, roomVars
<1>20. CASE UNCHANGED vars
  BY <1>20 DEF vars, hubVars, roomVars, clientVars
<1> QED
  BY <1>1, <1>2, <1>3, <1>4, <1>5, <1>6, <1>7, <1>8, <1>9, <1>10, <1>11, <1>12, <1>13,
     <1>14, <1>15, <1>16, <1>17, <1>18, <1>19, <1>20
     DEF Next, Reap, Run, Session

\* The type invariant: in every reachable state every variable has its type,
\* no send buffer holds more than its capacity and every run() has at most one
\* frame in hand.
THEOREM TypeCorrect == Spec => []TypeOK
<1>1. TypeOK /\ [Next]_vars => TypeOK'
  BY TypeStep
<1> QED
  BY TypeInit, <1>1, PTL DEF Spec

-----------------------------------------------------------------------------
(* The inductive invariant.                                                *)

\* Nothing is in the map, in a room or in a channel at the start.
LEMMA IInvInit == Init => IInv
<1> SUFFICES ASSUME Init PROVE IInv
  OBVIOUS
<1>1. HubInv
  BY DEF Init, HubInv, HubRoomsLive, MapInv, RunInv, ScanInv, RoomIds
<1>2. ClientInv /\ NoPanic
  BY DEF Init, ClientInv, MemberInv, FreshInv, NoPanic
<1> QED
  BY <1>1, <1>2, TypeInit DEF IInv

\* Steps that leave the hub's and the rooms' variables alone keep HubInv.
LEMMA HubUnchanged == HubInv /\ UNCHANGED <<hubVars, roomVars>> => HubInv'
BY DEF HubInv, HubRoomsLive, MapInv, RunInv, ScanInv, hubVars, roomVars

\* Steps of the hub leave membership and the clients alone.
LEMMA ClientUnchanged == ClientInv /\ UNCHANGED <<members, clientVars>> => ClientInv'
BY DEF ClientInv, MemberInv, FreshInv, clientVars

\* The steps of the reaper.  It shuts a room down only while the room is in
\* the map, so never twice, and takes it out of the map in the same step.
LEMMA IInvReap == IInv /\ (HubClose \/ ReapStop \/ Reap) => HubInv' /\ ClientInv' /\ NoPanic'
<1> SUFFICES ASSUME IInv, HubClose \/ ReapStop \/ Reap
             PROVE  HubInv' /\ ClientInv' /\ NoPanic'
  OBVIOUS
<1> USE DEF HubInv, NoPanic
<1>0. /\ rooms \in [Names -> 0..MaxRooms] /\ made \in 0..MaxRooms
      /\ done \in [RoomIds -> BOOLEAN] /\ exited \in [RoomIds -> BOOLEAN]
      /\ scan \in SUBSET Names /\ doomed \in SUBSET Names
      /\ HubRoomsLive /\ MapInv /\ RunInv /\ ScanInv /\ ClientInv /\ ~panicked
  BY DEF IInv, TypeOK
<1>1. CASE HubClose \/ ReapStop \/ ReapTick \/ ReapEnd
  <2>1. UNCHANGED <<rooms, made, roomVars, clientVars, panicked>>
    BY <1>1 DEF HubClose, ReapStop, ReapTick, ReapEnd
  <2>2. ScanInv'
    BY <1>0, <1>1 DEF HubClose, ReapStop, ReapTick, ReapEnd, ScanInv
  <2> QED
    BY <1>0, <2>1, <2>2, ClientUnchanged DEF HubRoomsLive, MapInv, RunInv, roomVars
<1>2. ASSUME NEW n \in Names, ReapCheck(n) PROVE HubInv' /\ ClientInv' /\ NoPanic'
  <2>1. /\ n \in scan /\ scan' = scan \ {n} /\ doomed' \subseteq {n}
        /\ UNCHANGED <<rooms, made, reaper, roomVars, clientVars, panicked>>
    BY <1>2 DEF ReapCheck
  <2>2. ScanInv'
    BY <1>0, <2>1 DEF ScanInv
  <2> QED
    BY <1>0, <2>1, <2>2, ClientUnchanged DEF HubRoomsLive, MapInv, RunInv, roomVars
<1>3. ASSUME NEW n \in Names, ReapRemove(n) PROVE HubInv' /\ ClientInv' /\ NoPanic'
  <2>1. /\ n \in doomed /\ doomed' = {} /\ rooms' = [rooms EXCEPT ![n] = 0]
        /\ done' = [done EXCEPT ![rooms[n]] = TRUE]
        /\ panicked' = (panicked \/ done[rooms[n]])
        /\ UNCHANGED <<made, reaper, scan, members, exited, pending, clientVars>>
    BY <1>3 DEF ReapRemove
  <2>2. /\ rooms[n] # 0 /\ rooms[n] \in RoomIds /\ rooms[n] <= made
        /\ ~done[rooms[n]] /\ ~exited[rooms[n]] /\ n \notin scan
    BY <1>0, <2>1 DEF ScanInv, HubRoomsLive, MapInv, RoomIds
  <2>3. HubRoomsLive'
    BY <1>0, <2>1, <2>2 DEF HubRoomsLive, MapInv, RoomIds
  <2>4. MapInv'
    BY <1>0, <2>1 DEF MapInv
  <2>5. RunInv'
    <3>1. ASSUME NEW q \in RoomIds, q > made'
          PROVE  ~done'[q] /\ ~exited'[q] /\ members'[q] = {} /\ pending'[q] = <<>>
      <4>1. q > made /\ q # rooms[n]
        BY <2>1, <2>2, <3>1, <1>0 DEF RoomIds
      <4>2. ~done[q] /\ ~exited[q] /\ members[q] = {} /\ pending[q] = <<>>
        BY <1>0, <4>1 DEF RunInv
      <4> QED
        BY <1>0, <2>1, <4>1, <4>2
    <3>2. ASSUME NEW q \in RoomIds, exited'[q] PROVE done'[q]
      <4>1. exited[q] /\ done[q] /\ q # rooms[n]
        BY <1>0, <2>1, <2>2, <3>2 DEF RunInv
      <4> QED
        BY <1>0, <2>1, <4>1
    <3> QED
      BY <3>1, <3>2 DEF RunInv
  <2>6. ScanInv'
    BY <1>0, <2>1, <2>2 DEF ScanInv
  <2>7. ~panicked'
    BY <1>0, <2>1, <2>2
  <2> QED
    BY <1>0, <2>1, <2>3, <2>4, <2>5, <2>6, <2>7, ClientUnchanged
<1> QED
  BY <1>1, <1>2, <1>3 DEF Reap

\* The steps of run().  Only members are sent to and closed, and a member's
\* channel is open; whoever is closed stops being a member in the same step.
LEMMA IInvRun ==
  ASSUME NEW r \in RoomIds, IInv, Run(r) PROVE HubInv' /\ ClientInv' /\ NoPanic'
<1> USE DEF HubInv, ClientInv, NoPanic
<1>0. /\ rooms \in [Names -> 0..MaxRooms] /\ made \in 0..MaxRooms
      /\ done \in [RoomIds -> BOOLEAN] /\ exited \in [RoomIds -> BOOLEAN]
      /\ members \in [RoomIds -> SUBSET Clients] /\ pending \in [RoomIds -> Seq(Frames)]
      /\ HubRoomsLive /\ MapInv /\ RunInv /\ ScanInv /\ ClientInv /\ ~panicked
  BY DEF IInv, TypeOK
<1>t. /\ pc \in [Clients -> {"new", "registering", "reading", "sending", "leaving", "gone",
                        "abandoned"}]
      /\ closed \in [Clients -> BOOLEAN]
      /\ notified \in [Clients -> {"none", "online", "offline"}]
  BY DEF IInv, TypeOK
<1>1. CASE RunDone(r)
  <2>1. /\ done[r] /\ exited' = [exited EXCEPT ![r] = TRUE]
        /\ UNCHANGED <<hubVars, members, done, pending, clientVars, panicked>>
    BY <1>1 DEF RunDone
  <2>2. r <= made
    BY <1>1 DEF RunDone, Selecting
  <2>3. HubRoomsLive'
    BY <1>0, <2>1 DEF HubRoomsLive, hubVars
  <2>4. RunInv'
    BY <1>0, <2>1, <2>2 DEF RunInv, RoomIds, hubVars
  <2>5. MapInv' /\ ScanInv'
    BY <1>0, <2>1 DEF MapInv, ScanInv, hubVars
  <2> QED
    BY <1>0, <2>1, <2>3, <2>4, <2>5, ClientUnchanged
<1>2. ASSUME NEW c \in Clients, RunRegister(r, c) PROVE HubInv' /\ ClientInv' /\ NoPanic'
  <2>1. /\ pc[c] = "registering" /\ room[c] = r
        /\ members' = [members EXCEPT ![r] = @ \cup {c}]
        /\ notified' = [notified EXCEPT ![c] = "online"]
        /\ pending' = [pending EXCEPT ![r] = <<[kind |-> "join", from |-> c]>>]
        /\ pc' = [pc EXCEPT ![c] = "reading"]
        /\ UNCHANGED <<hubVars, done, exited, room, send, closed, panicked>>
    BY <1>2 DEF RunRegister
  <2>2. r <= made
    BY <1>2 DEF RunRegister, Selecting
  <2>3. HubRoomsLive' /\ MapInv' /\ ScanInv'
    BY <1>0, <2>1 DEF HubRoomsLive, MapInv, ScanInv, hubVars
  <2>4. RunInv'
    BY <1>0, <2>1, <2>2 DEF RunInv, RoomIds, hubVars
  <2>5. MemberInv'
    BY <1>0, <1>t, <2>1 DEF MemberInv, FreshInv
  <2>6. FreshInv'
    BY <1>0, <1>t, <2>1 DEF FreshInv
  <2> QED
    BY <1>0, <2>1, <2>3, <2>4, <2>5, <2>6
<1>3. ASSUME NEW c \in Clients, RunUnregister(r, c) PROVE HubInv' /\ ClientInv' /\ NoPanic'
  <2>1. /\ pc[c] = "leaving" /\ pc' = [pc EXCEPT ![c] = "gone"]
        /\ UNCHANGED <<hubVars, done, exited, room, send, notified>>
    BY <1>3 DEF RunUnregister
  <2>2. r <= made
    BY <1>3 DEF RunUnregister, Selecting
  <2>3. HubRoomsLive' /\ MapInv' /\ ScanInv'
    BY <1>0, <2>1 DEF HubRoomsLive, MapInv, ScanInv, hubVars
  <2>4. CASE c \in members[r]
    <3>1. /\ members' = [members EXCEPT ![r] = @ \ {c}]
          /\ closed' = [closed EXCEPT ![c] = TRUE]
          /\ panicked' = (panicked \/ closed[c])
          /\ pending' = [pending EXCEPT ![r] = <<[kind |-> "leave", from |-> c]>>]
      BY <1>3, <2>4 DEF RunUnregister
    <3>2. room[c] = r /\ ~closed[c]
      BY <1>0, <2>4 DEF MemberInv
    <3>3. RunInv'
      BY <1>0, <2>1, <2>2, <3>1 DEF RunInv, RoomIds, hubVars
    <3>4. MemberInv'
      BY <1>0, <1>t, <2>1, <3>1, <3>2 DEF MemberInv
    <3>5. FreshInv'
      BY <1>0, <1>t, <2>1, <3>1 DEF FreshInv
    <3> QED
      BY <1>0, <2>3, <3>1, <3>2, <3>3, <3>4, <3>5
  <2>5. CASE c \notin members[r]
    <3>1. UNCHANGED <<members, closed, panicked, pending>>
      BY <1>3, <2>5 DEF RunUnregister
    <3>2. RunInv'
      BY <1>0, <2>1, <3>1 DEF RunInv, hubVars
    <3>3. MemberInv' /\ FreshInv'
      BY <1>0, <1>t, <2>1, <3>1 DEF MemberInv, FreshInv
    <3> QED
      BY <1>0, <2>3, <3>1, <3>2, <3>3
  <2> QED
    BY <2>4, <2>5
<1>4. ASSUME NEW c \in Clients, RunBroadcast(r, c) PROVE HubInv' /\ ClientInv' /\ NoPanic'
  <2>1. /\ pc[c] = "sending" /\ pc' = [pc EXCEPT ![c] = "reading"]
        /\ \A q \in RoomIds : q # r => pending'[q] = pending[q]
        /\ UNCHANGED <<hubVars, members, done, exited, room, send, closed, notified, panicked>>
    BY <1>0, <1>4 DEF RunBroadcast
  <2>2. r <= made
    BY <1>4 DEF RunBroadcast, Selecting
  <2>3. HubRoomsLive' /\ MapInv' /\ ScanInv'
    BY <1>0, <2>1 DEF HubRoomsLive, MapInv, ScanInv, hubVars
  <2>4. RunInv'
    <3>1. made' = made
      BY <2>1 DEF hubVars
    <3>2. ASSUME NEW q \in RoomIds, q > made'
          PROVE  ~done'[q] /\ ~exited'[q] /\ members'[q] = {} /\ pending'[q] = <<>>
      <4>1. q > made /\ q # r
        BY <1>0, <2>2, <3>1, <3>2 DEF RoomIds
      <4> QED
        BY <1>0, <2>1, <4>1 DEF RunInv
    <3>3. \A q \in RoomIds : exited'[q] => done'[q]
      BY <1>0, <2>1 DEF RunInv
    <3> QED
      BY <3>2, <3>3 DEF RunInv
  <2>5. MemberInv' /\ FreshInv'
    BY <1>0, <1>t, <2>1 DEF MemberInv, FreshInv
  <2> QED
    BY <1>0, <2>1, <2>3, <2>4, <2>5
<1>5. CASE RunFanOut(r)
  <2>1. /\ pending[r] # <<>>
        /\ members' = [members EXCEPT ![r] = @ \ Evicted(r)]
        /\ pending' = [pending EXCEPT ![r] = <<>>]
        /\ closed' = [c \in Clients |-> closed[c] \/ c \in Evicted(r)]
        /\ panicked' = (panicked \/ \E c \in members[r] : closed[c])
        /\ UNCHANGED <<hubVars, done, exited, pc, room>>
    BY <1>5 DEF RunFanOut
  <2>2. Evicted(r) \subseteq members[r]
    BY DEF Evicted, Full
  <2>3. HubRoomsLive' /\ MapInv' /\ ScanInv'
    BY <1>0, <2>1 DEF HubRoomsLive, MapInv, ScanInv, hubVars
  <2>4. RunInv'
    BY <1>0, <2>1 DEF RunInv, RoomIds, hubVars
  <2>5. ~panicked'
    <3>1. \A c \in members[r] : ~closed[c]
      BY <1>0 DEF MemberInv
    <3> QED
      BY <1>0, <2>1, <3>1
  <2>6. MemberInv'
    BY <1>0, <1>t, <2>1, <2>2 DEF MemberInv
  <2>7. FreshInv'
    <3>1. SUFFICES ASSUME NEW c \in Clients, pc[c] \in {"new", "registering"}
                   PROVE  ~closed'[c] /\ send'[c] = <<>>
      BY <2>1 DEF FreshInv
    <3>2. c \notin members[r] /\ ~closed[c] /\ send[c] = <<>>
      BY <1>0, <3>1 DEF MemberInv, FreshInv
    <3>3. send'[c] = send[c]
      BY <1>5, <3>2 DEF RunFanOut
    <3> QED
      BY <1>t, <2>1, <2>2, <3>2, <3>3
  <2> QED
    BY <1>0, <2>1, <2>3, <2>4, <2>5, <2>6, <2>7
<1> QED
  BY <1>1, <1>2, <1>3, <1>4, <1>5 DEF Run

\* The steps of a handler and of the pumps.  GetOrCreateRoom can only run while
\* the reaper does not hold h.mu, and numbers a new room past all others.
LEMMA IInvSession ==
  ASSUME NEW c \in Clients, IInv, Session(c) PROVE HubInv' /\ ClientInv' /\ NoPanic'
<1> USE DEF ClientInv, NoPanic
<1>0. /\ rooms \in [Names -> 0..MaxRooms] /\ made \in 0..MaxRooms
      /\ room \in [Clients -> 0..MaxRooms] /\ members \in [RoomIds -> SUBSET Clients]
      /\ HubInv /\ ClientInv /\ ~panicked
  BY DEF IInv, TypeOK
<1>t. /\ pc \in [Clients -> {"new", "registering", "reading", "sending", "leaving", "gone",
                        "abandoned"}]
      /\ send \in [Clients -> Seq(Nat)]
  BY DEF IInv, TypeOK
<1>1. ASSUME NEW n \in Names, GetOrCreateRoom(c, n) PROVE HubInv' /\ ClientInv' /\ NoPanic'
  <2>1. /\ pc[c] = "new" /\ reaper # "scanning"
        /\ pc' = [pc EXCEPT ![c] = "registering"]
        /\ \A d \in Clients : d # c => room'[d] = room[d]
        /\ UNCHANGED <<reaper, scan, doomed, roomVars, send, closed, notified, panicked>>
    BY <1>0, <1>1 DEF GetOrCreateRoom
  <2>2. MemberInv'
    BY <1>0, <1>t, <2>1 DEF MemberInv, roomVars
  <2>3. FreshInv'
    BY <1>0, <1>t, <2>1 DEF FreshInv
  <2>4. HubInv'
    <3> USE DEF HubInv
    <3>1. CASE rooms[n] # 0
      <4>1. made' = made /\ rooms' = rooms
        BY <1>0, <1>1, <3>1 DEF GetOrCreateRoom
      <4> QED
        BY <1>0, <2>1, <4>1 DEF HubRoomsLive, MapInv, RunInv, ScanInv, roomVars
    <3>2. CASE rooms[n] = 0
      <4>1. /\ made < MaxRooms /\ made' = made + 1 /\ rooms' = [rooms EXCEPT ![n] = made + 1]
        BY <1>0, <1>1, <3>2 DEF GetOrCreateRoom
      <4>2. made + 1 \in RoomIds /\ ~done[made + 1] /\ ~exited[made + 1]
        BY <1>0, <4>1 DEF RunInv, RoomIds
      <4>3. HubRoomsLive'
        BY <1>0, <2>1, <4>1, <4>2 DEF HubRoomsLive, roomVars
      <4>4. MapInv'
        BY <1>0, <4>1 DEF MapInv
      <4>5. RunInv'
        <5>1. UNCHANGED <<done, exited, members, pending>>
          BY <2>1 DEF roomVars
        <5>2. ASSUME NEW q \in RoomIds, q > made' PROVE q > made
          BY <1>0, <4>1, <5>2 DEF RoomIds
        <5> QED
          BY <1>0, <5>1, <5>2 DEF RunInv
      <4>6. ScanInv'
        BY <1>0, <2>1, <4>1 DEF ScanInv
      <4> QED
        BY <4>3, <4>4, <4>5, <4>6
    <3> QED
      BY <3>1, <3>2
  <2> QED
    BY <1>0, <2>1, <2>2, <2>3, <2>4
<1>2. ASSUME UNCHANGED <<hubVars, roomVars, room, closed, notified, panicked>>,
             pc' = pc \/ \E p \in {"reading", "sending", "leaving", "gone", "abandoned"} :
                             pc' = [pc EXCEPT ![c] = p],
             send' = send \/ (send[c] # <<>> /\ send' = [send EXCEPT ![c] = Tail(@)])
      PROVE  HubInv' /\ ClientInv' /\ NoPanic'
  <2>1. MemberInv'
    BY <1>0, <1>t, <1>2 DEF MemberInv, roomVars
  <2>2. FreshInv'
    BY <1>0, <1>t, <1>2 DEF FreshInv
  <2> QED
    BY <1>0, <1>2, <2>1, <2>2, HubUnchanged
<1>3. ASSUME NEW kind \in MessageKinds, ReadMessage(c, kind)
      PROVE  HubInv' /\ ClientInv' /\ NoPanic'
  BY <1>2, <1>3 DEF ReadMessage
<1>4. CASE RegisterTimeout(c) \/ BroadcastTimeout(c) \/ UnregisterTimeout(c) \/ ReadError(c)
  BY <1>2, <1>4 DEF RegisterTimeout, BroadcastTimeout, UnregisterTimeout, ReadError
<1>5. CASE WriteFrame(c) \/ WriterExit(c)
  BY <1>2, <1>5 DEF WriteFrame, WriterExit
<1> QED
  BY <1>1, <1>3, <1>4, <1>5 DEF Session

\* The inductive invariant holds in every reachable state.
THEOREM Invariance == Spec => []IInv
<1>1. IInv /\ [Next]_vars => IInv'
  <2> SUFFICES ASSUME IInv, [Next]_vars PROVE IInv'
    OBVIOUS
  <2>1. TypeOK'
    BY TypeStep DEF IInv
  <2>2. CASE UNCHANGED vars
    BY <2>1, <2>2, HubUnchanged, ClientUnchanged DEF IInv, NoPanic, vars, roomVars
  <2>3. CASE Next
    BY <2>1, <2>3, IInvReap, IInvRun, IInvSession DEF IInv, Next
  <2> QED
    BY <2>2, <2>3
<1> QED
  BY IInvInit, <1>1, PTL DEF Spec

\* No step of the room layer closes a closed channel or sends on one.
THEOREM NeverPanics == Spec => []NoPanic
<1>1. IInv => NoPanic
  BY DEF IInv
<1> QED
  BY Invariance, <1>1, PTL

\* A room in the hub's map has not been shut down, so a handler that finds one
\* there finds it serving.
THEOREM MapHoldsLiveRooms == Spec => []HubRoomsLive
<1>1. IInv => HubRoomsLive
  BY DEF IInv, HubInv
<1> QED
  BY Invariance, <1>1, PTL

-----------------------------------------------------------------------------
(* Every connection sees its room's frames in order and without a gap.     *)

\* Only registration, the fan-out and the write pump touch what FramesInOrder
\* speaks of, apart from steps that take clients out of rooms.
LEMMA FramesSame ==
  ASSUME FramesInOrder, TypeOK, UNCHANGED <<send, last, seq>>,
         \A r \in RoomIds : members'[r] \subseteq members[r]
  PROVE  FramesInOrder'
BY DEF FramesInOrder

\* Joining: the client's buffer is empty and it starts after the newest frame.
LEMMA FramesRegister ==
  ASSUME NEW r \in RoomIds, NEW c \in Clients, IInv, FramesInOrder, RunRegister(r, c)
  PROVE  FramesInOrder'
<1>0. /\ last \in [Clients -> Nat] /\ seq \in [RoomIds -> Nat]
      /\ members \in [RoomIds -> SUBSET Clients] /\ send \in [Clients -> Seq(Nat)]
  BY DEF IInv, TypeOK
<1>1. /\ pc[c] = "registering" /\ members' = [members EXCEPT ![r] = @ \cup {c}]
      /\ last' = [last EXCEPT ![c] = seq[r]] /\ UNCHANGED <<send, seq>>
  BY DEF RunRegister
<1>2. send[c] = <<>> /\ \A q \in RoomIds : c \notin members[q]
  BY <1>1 DEF IInv, ClientInv, FreshInv, MemberInv
<1> SUFFICES ASSUME NEW d \in Clients
             PROVE  /\ \A i \in DOMAIN send'[d] : send'[d][i] = last'[d] + i
                    /\ \A q \in RoomIds : d \in members'[q] =>
                                           last'[d] + Len(send'[d]) = seq'[q]
  BY DEF FramesInOrder
<1>3. CASE d = c
  BY <1>0, <1>1, <1>2, <1>3
<1>4. CASE d # c
  BY <1>0, <1>1, <1>4 DEF FramesInOrder
<1> QED
  BY <1>3, <1>4

\* Fanning out: a member with room in its buffer gets the newest frame, one
\* without stops being a member, and other rooms share no member with this one.
LEMMA FramesFanOut ==
  ASSUME NEW r \in RoomIds, IInv, FramesInOrder, RunFanOut(r)
  PROVE  FramesInOrder'
<1>0. /\ last \in [Clients -> Nat] /\ seq \in [RoomIds -> Nat]
      /\ members \in [RoomIds -> SUBSET Clients] /\ send \in [Clients -> Seq(Nat)]
  BY DEF IInv, TypeOK
<1>1. /\ members' = [members EXCEPT ![r] = @ \ Full(r)]
      /\ send' = [c \in Clients |-> IF c \in members[r] \ Full(r)
                                     THEN Append(send[c], seq[r] + 1) ELSE send[c]]
      /\ seq' = [seq EXCEPT ![r] = @ + 1] /\ last' = last
  BY DEF RunFanOut, Evicted
<1> SUFFICES ASSUME NEW d \in Clients
             PROVE  /\ \A i \in DOMAIN send'[d] : send'[d][i] = last'[d] + i
                    /\ \A q \in RoomIds : d \in members'[q] =>
                                           last'[d] + Len(send'[d]) = seq'[q]
  BY DEF FramesInOrder
<1>2. \A q \in RoomIds : d \in members[q] /\ d \in members[r] => q = r
  BY DEF IInv, ClientInv, MemberInv
<1>3. /\ \A i \in 1..Len(send[d]) : send[d][i] = last[d] + i
      /\ \A q \in RoomIds : d \in members[q] => last[d] + Len(send[d]) = seq[q]
  BY <1>0 DEF FramesInOrder
<1>4. CASE d \in members[r] \ Full(r)
  <2>1. send'[d] = Append(send[d], seq[r] + 1) /\ seq[r] = last[d] + Len(send[d])
    BY <1>1, <1>3, <1>4
  <2>2. Len(send'[d]) = Len(send[d]) + 1 /\ DOMAIN send'[d] = 1..(Len(send[d]) + 1)
    BY <1>0, <2>1
  <2>3. \A i \in 1..(Len(send[d]) + 1) : send'[d][i] = last[d] + i
    BY <1>0, <1>3, <2>1
  <2> QED
    BY <1>0, <1>1, <1>2, <1>4, <2>1, <2>2, <2>3
<1>5. CASE d \notin members[r] \ Full(r)
  <2>1. send'[d] = send[d]
    BY <1>1, <1>5
  <2> QED
    BY <1>0, <1>1, <1>3, <1>5, <2>1
<1> QED
  BY <1>4, <1>5

\* Writing: the head of the buffer becomes the last frame written.
LEMMA FramesWrite ==
  ASSUME NEW c \in Clients, IInv, FramesInOrder, WriteFrame(c)
  PROVE  FramesInOrder'
<1>0. /\ last \in [Clients -> Nat] /\ seq \in [RoomIds -> Nat]
      /\ members \in [RoomIds -> SUBSET Clients] /\ send \in [Clients -> Seq(Nat)]
  BY DEF IInv, TypeOK
<1>1. /\ send[c] # <<>> /\ send' = [send EXCEPT ![c] = Tail(@)]
      /\ last' = [last EXCEPT ![c] = Head(send[c])] /\ UNCHANGED <<members, seq>>
  BY DEF WriteFrame, roomVars
<1> SUFFICES ASSUME NEW d \in Clients
             PROVE  /\ \A i \in DOMAIN send'[d] : send'[d][i] = last'[d] + i
                    /\ \A q \in RoomIds : d \in members'[q] =>
                                           last'[d] + Len(send'[d]) = seq'[q]
  BY DEF FramesInOrder
<1>2. /\ \A i \in 1..Len(send[d]) : send[d][i] = last[d] + i
      /\ \A q \in RoomIds : d \in members[q] => last[d] + Len(send[d]) = seq[q]
  BY <1>0 DEF FramesInOrder
<1>3. CASE d = c
  <2>1. /\ send'[d] = Tail(send[d]) /\ last'[d] = send[d][1] /\ Len(send[d]) > 0
        /\ Len(Tail(send[d])) = Len(send[d]) - 1
        /\ DOMAIN Tail(send[d]) = 1..(Len(send[d]) - 1)
        /\ \A i \in 1..(Len(send[d]) - 1) : Tail(send[d])[i] = send[d][i + 1]
    BY <1>0, <1>1, <1>3
  <2>2. last'[d] = last[d] + 1
    BY <1>0, <1>2, <2>1
  <2>3. \A i \in DOMAIN send'[d] : send'[d][i] = last'[d] + i
    <3> SUFFICES ASSUME NEW i \in 1..(Len(send[d]) - 1) PROVE send'[d][i] = last'[d] + i
      BY <2>1
    <3>1. send'[d][i] = send[d][i + 1] /\ send[d][i + 1] = last[d] + (i + 1)
      BY <1>0, <1>2, <2>1
    <3> QED
      BY <1>0, <2>2, <3>1
  <2>4. last'[d] + Len(send'[d]) = last[d] + Len(send[d])
    BY <1>0, <2>1, <2>2
  <2> QED
    BY <1>1, <1>2, <2>3, <2>4
<1>4. CASE d # c
  <2>1. send'[d] = send[d] /\ last'[d] = last[d]
    BY <1>0, <1>1, <1>4
  <2> QED
    BY <1>1, <2>1 DEF FramesInOrder
<1> QED
  BY <1>3, <1>4

\* Every connection gets every frame of its room from its join on, in order
\* and without a gap, until it leaves or is evicted.
THEOREM FramesAreOrdered == Spec => []FramesInOrder
<1>1. Init => FramesInOrder
  BY DEF Init, FramesInOrder
<1>2. IInv /\ FramesInOrder /\ [Next]_vars => FramesInOrder'
  <2> SUFFICES ASSUME IInv, FramesInOrder, [Next]_vars PROVE FramesInOrder'
    OBVIOUS
  <2>0. TypeOK /\ members \in [RoomIds -> SUBSET Clients]
    BY DEF IInv, TypeOK
  <2>1. CASE HubClose \/ ReapStop \/ Reap
    <3>1. UNCHANGED <<members, send, last, seq>>
      BY <2>1 DEF HubClose, ReapStop, Reap, ReapTick, ReapCheck, ReapRemove, ReapEnd,
                  roomVars, clientVars
    <3> QED
      BY <2>0, <3>1, FramesSame
  <2>2. ASSUME NEW r \in RoomIds, Run(r) PROVE FramesInOrder'
    <3>1. CASE RunDone(r)
      BY <2>0, <3>1, FramesSame DEF RunDone, clientVars
    <3>2. ASSUME NEW c \in Clients, RunUnregister(r, c) PROVE FramesInOrder'
      <4>1. UNCHANGED <<send, last, seq>>
        BY <3>2 DEF RunUnregister
      <4>2. members' = members \/ members' = [members EXCEPT ![r] = @ \ {c}]
        BY <3>2 DEF RunUnregister
      <4>3. \A q \in RoomIds : members'[q] \subseteq members[q]
        BY <2>0, <4>2
      <4> QED
        BY <2>0, <4>1, <4>3, FramesSame
    <3>3. ASSUME NEW c \in Clients, RunBroadcast(r, c) PROVE FramesInOrder'
      BY <2>0, <3>3, FramesSame DEF RunBroadcast
    <3> QED
      BY <2>2, <3>1, <3>2, <3>3, FramesRegister, FramesFanOut DEF Run
  <2>3. ASSUME NEW c \in Clients, Session(c) PROVE FramesInOrder'
    <3>1. CASE WriteFrame(c)
      BY <3>1, FramesWrite
    <3>2. CASE ~WriteFrame(c)
      <4>1. UNCHANGED <<members, send, last, seq>>
        BY <2>3, <3>2 DEF Session, GetOrCreateRoom, ReadMessage, RegisterTimeout,
           BroadcastTimeout, UnregisterTimeout, ReadError, WriterExit, roomVars
      <4> QED
        BY <2>0, <4>1, FramesSame
    <3> QED
      BY <3>1, <3>2
  <2>4. CASE UNCHANGED vars
    BY <2>0, <2>4, FramesSame DEF vars, roomVars, clientVars
  <2> QED
    BY <2>1, <2>2, <2>3, <2>4 DEF Next
<1> QED
  BY <1>1, <1>2, Invariance, PTL DEF Spec

-----------------------------------------------------------------------------
(* What presence is told.                                                  *)

\* A connection whose leave frame is in hand has left its room for good.
LeaveInv == \A c \in Clients, r \in RoomIds :
              LeavingNow(c, r) => room[c] = r /\ c \notin members[r] /\ pc[c] = "gone"

\* A connection was last told online exactly while it is in its room's clients
\* or its leave is being fanned out.
ToldByMembership ==
  \A c \in Clients :
    notified[c] = "online" <=>
      \E r \in RoomIds : room[c] = r /\ (c \in members[r] \/ LeavingNow(c, r))

ToldInv == ToldByMembership /\ LeaveInv

\* Membership follows the connection: who is gone is in no room, and who is
\* connected and was not evicted is in its room.  Nothing was told of a
\* connection that has yet to be registered.
StayInv ==
  \A c \in Clients :
    /\ pc[c] \in {"new", "registering"} => notified[c] = "none"
    /\ pc[c] = "gone" => \A r \in RoomIds : c \notin members[r]
    /\ Connected(c) /\ ~closed[c] => \E r \in RoomIds : room[c] = r /\ c \in members[r]

\* A step that changes neither the members, nor the frames in hand, nor what
\* was told, and takes no connection back to life.
LEMMA ToldSame ==
  ASSUME ToldInv, UNCHANGED <<members, pending, notified, room>>,
         \A c \in Clients : pc[c] = "gone" => pc'[c] = "gone"
  PROVE  ToldInv'
BY DEF ToldInv, ToldByMembership, LeaveInv, LeavingNow

\* A connection that gets its room is in none yet, nor leaving one.
LEMMA ToldCreate ==
  ASSUME NEW c \in Clients, NEW n \in Names, IInv, ToldInv, GetOrCreateRoom(c, n)
  PROVE  ToldInv'
<1>1. /\ pc[c] = "new" /\ UNCHANGED <<members, pending, notified>>
      /\ \A d \in Clients : d # c => pc'[d] = pc[d] /\ room'[d] = room[d]
  BY DEF GetOrCreateRoom, roomVars, IInv, TypeOK
<1>2. \A r \in RoomIds : c \notin members[r] /\ ~LeavingNow(c, r)
  BY <1>1 DEF IInv, ClientInv, MemberInv, ToldInv, LeaveInv
<1>3. \A d \in Clients, r \in RoomIds : LeavingNow(d, r)' <=> LeavingNow(d, r)
  BY <1>1 DEF LeavingNow
<1>4. ToldByMembership'
  <2> SUFFICES ASSUME NEW d \in Clients
               PROVE  notified'[d] = "online" <=>
                        \E r \in RoomIds : room'[d] = r /\ (d \in members'[r] \/ LeavingNow(d, r)')
    BY DEF ToldByMembership
  <2>1. CASE d = c
    BY <1>1, <1>2, <1>3, <2>1 DEF ToldInv, ToldByMembership
  <2>2. CASE d # c
    BY <1>1, <1>3, <2>2 DEF ToldInv, ToldByMembership
  <2> QED
    BY <2>1, <2>2
<1>5. LeaveInv'
  <2> SUFFICES ASSUME NEW d \in Clients, NEW r \in RoomIds, LeavingNow(d, r)'
               PROVE  room'[d] = r /\ d \notin members'[r] /\ pc'[d] = "gone"
    BY DEF LeaveInv
  <2> QED
    BY <1>1, <1>2, <1>3 DEF ToldInv, LeaveInv
<1> QED
  BY <1>4, <1>5 DEF ToldInv

\* Register: the client is told online as it becomes a member.
LEMMA ToldRegister ==
  ASSUME NEW r \in RoomIds, NEW c \in Clients, IInv, ToldInv, RunRegister(r, c)
  PROVE  ToldInv'
<1>1. /\ pending[r] = <<>> /\ pc[c] = "registering" /\ room[c] = r /\ UNCHANGED room
      /\ members'[r] = members[r] \cup {c} /\ pending'[r] = <<[kind |-> "join", from |-> c]>>
      /\ \A q \in RoomIds : q # r => members'[q] = members[q] /\ pending'[q] = pending[q]
      /\ notified'[c] = "online"
      /\ \A d \in Clients : d # c => notified'[d] = notified[d] /\ pc'[d] = pc[d]
  BY DEF RunRegister, Selecting, IInv, TypeOK
<1>2. \A d \in Clients, q \in RoomIds : LeavingNow(d, q)' <=> LeavingNow(d, q)
  <2> SUFFICES ASSUME NEW d \in Clients, NEW q \in RoomIds
               PROVE  pending'[q] = <<[kind |-> "leave", from |-> d]>>
                        <=> pending[q] = <<[kind |-> "leave", from |-> d]>>
    BY DEF LeavingNow
  <2>1. CASE q = r
    <3>1. pending[r] # <<[kind |-> "leave", from |-> d]>>
      BY <1>1
    <3>2. <<[kind |-> "join", from |-> c]>> # <<[kind |-> "leave", from |-> d]>>
      <4>1. <<[kind |-> "join", from |-> c]>>[1].kind # <<[kind |-> "leave", from |-> d]>>[1].kind
        OBVIOUS
      <4> QED
        BY <4>1
    <3> QED
      BY <1>1, <2>1, <3>1, <3>2
  <2>2. CASE q # r
    BY <1>1, <2>2
  <2> QED
    BY <2>1, <2>2
<1>3. ToldByMembership'
  <2> SUFFICES ASSUME NEW d \in Clients
               PROVE  notified'[d] = "online" <=>
                        \E q \in RoomIds : room'[d] = q /\ (d \in members'[q] \/ LeavingNow(d, q)')
    BY DEF ToldByMembership
  <2>1. CASE d = c
    BY <1>1, <2>1
  <2>2. CASE d # c
    <3>1. \A q \in RoomIds : d \in members'[q] <=> d \in members[q]
      BY <1>1, <2>2
    <3> QED
      BY <1>1, <1>2, <2>2, <3>1 DEF ToldInv, ToldByMembership
  <2> QED
    BY <2>1, <2>2
<1>4. LeaveInv'
  <2> SUFFICES ASSUME NEW d \in Clients, NEW q \in RoomIds, LeavingNow(d, q)
               PROVE  room'[d] = q /\ d \notin members'[q] /\ pc'[d] = "gone"
    BY <1>2 DEF LeaveInv
  <2>1. room[d] = q /\ d \notin members[q] /\ pc[d] = "gone"
    BY DEF ToldInv, LeaveInv
  <2>2. d # c
    BY <1>1, <2>1
  <2> QED
    BY <1>1, <2>1, <2>2
<1> QED
  BY <1>3, <1>4 DEF ToldInv

\* Unregister: the leave frame takes over from the membership.
LEMMA ToldUnregister ==
  ASSUME NEW r \in RoomIds, NEW c \in Clients, IInv, ToldInv, RunUnregister(r, c)
  PROVE  ToldInv'
<1>1. /\ pending[r] = <<>> /\ room[c] = r /\ UNCHANGED <<room, notified>>
      /\ pc'[c] = "gone" /\ \A d \in Clients : d # c => pc'[d] = pc[d]
  BY DEF RunUnregister, Selecting, IInv, TypeOK
<1>2. CASE c \notin members[r]
  <2>1. UNCHANGED <<members, pending>>
    BY <1>2 DEF RunUnregister
  <2> QED
    BY <1>1, <2>1, ToldSame
<1>3. CASE c \in members[r]
  <2>1. /\ members'[r] = members[r] \ {c} /\ pending'[r] = <<[kind |-> "leave", from |-> c]>>
        /\ \A q \in RoomIds : q # r => members'[q] = members[q] /\ pending'[q] = pending[q]
    BY <1>3 DEF RunUnregister, IInv, TypeOK
  <2>2. \A d \in Clients, q \in RoomIds :
          LeavingNow(d, q)' <=> (LeavingNow(d, q) \/ (d = c /\ q = r))
    <3> SUFFICES ASSUME NEW d \in Clients, NEW q \in RoomIds
                 PROVE  pending'[q] = <<[kind |-> "leave", from |-> d]>>
                          <=> \/ pending[q] = <<[kind |-> "leave", from |-> d]>>
                              \/ d = c /\ q = r
      BY DEF LeavingNow
    <3>1. CASE q = r
      <4>1. pending[r] # <<[kind |-> "leave", from |-> d]>>
        BY <1>1
      <4>2. d # c => <<[kind |-> "leave", from |-> c]>> # <<[kind |-> "leave", from |-> d]>>
        <5>1. d # c => <<[kind |-> "leave", from |-> c]>>[1].from
                         # <<[kind |-> "leave", from |-> d]>>[1].from
          OBVIOUS
        <5> QED
          BY <5>1
      <4> QED
        BY <2>1, <3>1, <4>1, <4>2
    <3>2. CASE q # r
      BY <2>1, <3>2
    <3> QED
      BY <3>1, <3>2
  <2>3. ToldByMembership'
    <3> SUFFICES ASSUME NEW d \in Clients
                 PROVE  notified'[d] = "online" <=>
                          \E q \in RoomIds : room'[d] = q /\ (d \in members'[q] \/ LeavingNow(d, q)')
      BY DEF ToldByMembership
    <3>1. CASE d = c
      BY <1>1, <1>3, <2>2, <3>1 DEF ToldInv, ToldByMembership
    <3>2. CASE d # c
      <4>1. \A q \in RoomIds : d \in members'[q] <=> d \in members[q]
        BY <2>1, <3>2
      <4> QED
        BY <1>1, <2>2, <3>2, <4>1 DEF ToldInv, ToldByMembership
    <3> QED
      BY <3>1, <3>2
  <2>4. LeaveInv'
    <3> SUFFICES ASSUME NEW d \in Clients, NEW q \in RoomIds, LeavingNow(d, q) \/ (d = c /\ q = r)
                 PROVE  room'[d] = q /\ d \notin members'[q] /\ pc'[d] = "gone"
      BY <2>2 DEF LeaveInv
    <3>1. CASE d = c /\ q = r
      BY <1>1, <2>1, <3>1
    <3>2. CASE LeavingNow(d, q)
      <4>1. room[d] = q /\ d \notin members[q] /\ pc[d] = "gone"
        BY <3>2 DEF ToldInv, LeaveInv
      <4> QED
        BY <1>1, <2>1, <4>1
    <3> QED
      BY <3>1, <3>2
  <2> QED
    BY <2>3, <2>4 DEF ToldInv
<1> QED
  BY <1>2, <1>3

\* Broadcast: the frame is of a message, not a leave.
LEMMA ToldBroadcast ==
  ASSUME NEW r \in RoomIds, NEW c \in Clients, IInv, ToldInv, RunBroadcast(r, c)
  PROVE  ToldInv'
<1>1. /\ pending[r] = <<>> /\ pc[c] = "sending" /\ UNCHANGED <<room, notified, members>>
      /\ \A d \in Clients : d # c => pc'[d] = pc[d]
      /\ \A q \in RoomIds : q # r => pending'[q] = pending[q]
  BY DEF RunBroadcast, Selecting, IInv, TypeOK
<1>2. pending'[r] = <<>> \/ (msg[c] \in MessageKinds /\ pending'[r] = <<[kind |-> msg[c], from |-> c]>>)
  BY DEF RunBroadcast, Selecting, IInv, TypeOK
<1>3. \A d \in Clients, q \in RoomIds : LeavingNow(d, q)' <=> LeavingNow(d, q)
  <2> SUFFICES ASSUME NEW d \in Clients, NEW q \in RoomIds
               PROVE  pending'[q] = <<[kind |-> "leave", from |-> d]>>
                        <=> pending[q] = <<[kind |-> "leave", from |-> d]>>
    BY DEF LeavingNow
  <2>1. CASE q = r
    <3>1. pending[r] # <<[kind |-> "leave", from |-> d]>>
      BY <1>1
    <3>2. pending'[r] # <<[kind |-> "leave", from |-> d]>>
      <4>1. msg[c] \in MessageKinds =>
              <<[kind |-> msg[c], from |-> c]>>[1].kind # <<[kind |-> "leave", from |-> d]>>[1].kind
        BY DEF MessageKinds
      <4>2. <<>> # <<[kind |-> "leave", from |-> d]>>
        OBVIOUS
      <4> QED
        BY <1>2, <4>1, <4>2
    <3> QED
      BY <2>1, <3>1, <3>2
  <2>2. CASE q # r
    BY <1>1, <2>2
  <2> QED
    BY <2>1, <2>2
<1>4. ToldByMembership'
  BY <1>1, <1>3 DEF ToldInv, ToldByMembership
<1>5. LeaveInv'
  <2> SUFFICES ASSUME NEW d \in Clients, NEW q \in RoomIds, LeavingNow(d, q)
               PROVE  room'[d] = q /\ d \notin members'[q] /\ pc'[d] = "gone"
    BY <1>3 DEF LeaveInv
  <2>1. room[d] = q /\ d \notin members[q] /\ pc[d] = "gone"
    BY DEF ToldInv, LeaveInv
  <2> QED
    BY <1>1, <2>1
<1> QED
  BY <1>4, <1>5 DEF ToldInv

\* The one frame in hand, as a pair of its kind and its connection, and what it
\* says of a leave.
LEMMA FrameInHand ==
  ASSUME NEW r \in RoomIds, IInv, pending[r] # <<>>
  PROVE  \E f \in Frames : /\ pending[r] = <<f>> /\ Head(pending[r]) = f
                           /\ \A d \in Clients : LeavingNow(d, r) <=> d = f.from /\ f.kind = "leave"
<1>1. PICK f \in Frames : pending[r] = <<f>>
  <2>1. pending[r] \in Seq(Frames) /\ Len(pending[r]) <= 1 /\ pending[r] # <<>>
    BY DEF IInv, TypeOK
  <2>2. Len(pending[r]) = 1 /\ pending[r][1] \in Frames
    <3>1. Len(pending[r]) \in Nat \ {0}
      BY <2>1, EmptySeq
    <3>2. Len(pending[r]) = 1
      <4>1. Len(pending[r]) <= 1
        BY <2>1
      <4>2. \A l \in Nat \ {0} : l <= 1 => l = 1
        OBVIOUS
      <4> QED
        BY <3>1, <4>1, <4>2, Zenon
    <3> QED
      BY <2>1, <3>2, ElementOfSeq
  <2>3. pending[r] = <<pending[r][1]>>
    BY <2>1, <2>2
  <2> QED
    BY <2>2, <2>3
<1>2. Head(pending[r]) = f
  BY <1>1
<1>3. \A d \in Clients : LeavingNow(d, r) <=> d = f.from /\ f.kind = "leave"
  <2>1. f = [kind |-> f.kind, from |-> f.from]
    BY DEF Frames
  <2>2. \A d \in Clients : <<f>> = <<[kind |-> "leave", from |-> d]>> <=> f = [kind |-> "leave", from |-> d]
    OBVIOUS
  <2>3. \A d \in Clients : f = [kind |-> "leave", from |-> d] <=> d = f.from /\ f.kind = "leave"
    BY <2>1
  <2> QED
    BY <1>1, <2>2, <2>3 DEF LeavingNow
<1> QED
  BY <1>1, <1>2, <1>3

\* Fanning out: whoever stops being a member, or has left, is told offline.
LEMMA ToldFanOut ==
  ASSUME NEW r \in RoomIds, IInv, ToldInv, RunFanOut(r)
  PROVE  ToldInv'
<1>1. PICK f \in Frames : /\ pending[r] = <<f>> /\ Head(pending[r]) = f
                          /\ \A d \in Clients : LeavingNow(d, r) <=> d = f.from /\ f.kind = "leave"
  BY FrameInHand DEF RunFanOut
<1>2. /\ UNCHANGED <<room, pc>>
      /\ pending'[r] = <<>> /\ members'[r] = members[r] \ Full(r)
      /\ \A q \in RoomIds : q # r => members'[q] = members[q] /\ pending'[q] = pending[q]
  BY DEF RunFanOut, Evicted, IInv, TypeOK
<1>3. \A d \in Clients : notified'[d] = IF d \in Full(r) \/ (d = f.from /\ f.kind = "leave")
                                        THEN "offline" ELSE notified[d]
  BY <1>1 DEF RunFanOut, ReportedOffline, Evicted
<1>4. \A d \in Clients : LeavingNow(d, r) <=> d = f.from /\ f.kind = "leave"
  BY <1>1
<1>5. \A d \in Clients : ~LeavingNow(d, r)'
  <2>1. \A d \in Clients : <<>> # <<[kind |-> "leave", from |-> d]>>
    OBVIOUS
  <2> QED
    BY <1>2, <2>1 DEF LeavingNow
<1>6. \A d \in Clients, q \in RoomIds : q # r => (LeavingNow(d, q)' <=> LeavingNow(d, q))
  BY <1>2 DEF LeavingNow
<1>7. \A d \in Full(r) : d \in members[r] /\ room[d] = r
  BY DEF Full, IInv, ClientInv, MemberInv
<1>8. ToldByMembership'
  <2> SUFFICES ASSUME NEW d \in Clients
               PROVE  notified'[d] = "online" <=>
                        \E q \in RoomIds : room'[d] = q /\ (d \in members'[q] \/ LeavingNow(d, q)')
    BY DEF ToldByMembership
  <2>1. CASE d \in Full(r)
    BY <1>2, <1>3, <1>5, <1>7, <2>1
  <2>2. CASE LeavingNow(d, r)
    <3>1. room[d] = r /\ d \notin members[r]
      BY <2>2 DEF ToldInv, LeaveInv
    <3>2. notified'[d] = "offline"
      BY <1>3, <1>4, <2>2
    <3> QED
      BY <1>2, <1>5, <3>1, <3>2
  <2>3. CASE d \notin Full(r) /\ ~LeavingNow(d, r)
    <3>1. notified'[d] = notified[d]
      BY <1>3, <1>4, <2>3
    <3>2. \A q \in RoomIds : (d \in members'[q] \/ LeavingNow(d, q)') <=> (d \in members[q] \/ LeavingNow(d, q))
      BY <1>2, <1>5, <1>6, <2>3
    <3> QED
      BY <1>2, <3>1, <3>2 DEF ToldInv, ToldByMembership
  <2> QED
    BY <2>1, <2>2, <2>3
<1>9. LeaveInv'
  <2> SUFFICES ASSUME NEW d \in Clients, NEW q \in RoomIds, LeavingNow(d, q)'
               PROVE  room'[d] = q /\ d \notin members'[q] /\ pc'[d] = "gone"
    BY DEF LeaveInv
  <2>1. q # r /\ LeavingNow(d, q)
    BY <1>5, <1>6
  <2> QED
    BY <1>2, <2>1 DEF ToldInv, LeaveInv
<1> QED
  BY <1>8, <1>9 DEF ToldInv

\* A step of a connection's own pumps that leaves rooms, channels and what was
\* told alone: it ends only who was never taken or is a member no more.
LEMMA StaySession ==
  ASSUME NEW c \in Clients, IInv, StayInv, Session(c)
  PROVE  StayInv'
<1>1. /\ pc \in [Clients -> {"new", "registering", "reading", "sending", "leaving", "gone",
                             "abandoned"}]
      /\ room \in [Clients -> 0..MaxRooms] /\ MemberInv
  BY DEF IInv, TypeOK, ClientInv
<1>2. UNCHANGED <<members, closed, notified>>
  BY DEF Session, GetOrCreateRoom, ReadMessage, RegisterTimeout, BroadcastTimeout,
         UnregisterTimeout, ReadError, WriteFrame, WriterExit, roomVars
<1>3. /\ \A d \in Clients : d # c => pc'[d] = pc[d] /\ room'[d] = room[d]
      /\ \/ pc[c] = "new" /\ pc'[c] = "registering"
         \/ pc[c] = "registering" /\ pc'[c] = "gone" /\ room'[c] = room[c]
         \/ Connected(c) /\ pc'[c] \in {"reading", "sending", "leaving", "abandoned"}
              /\ room'[c] = room[c]
         \/ pc'[c] = pc[c] /\ room'[c] = room[c]
  BY <1>1 DEF Session, GetOrCreateRoom, ReadMessage, RegisterTimeout, BroadcastTimeout,
         UnregisterTimeout, ReadError, WriteFrame, WriterExit, Connected
<1> SUFFICES ASSUME NEW d \in Clients
             PROVE  /\ pc'[d] \in {"new", "registering"} => notified'[d] = "none"
                    /\ pc'[d] = "gone" => \A r \in RoomIds : d \notin members'[r]
                    /\ Connected(d)' /\ ~closed'[d] =>
                         \E r \in RoomIds : room'[d] = r /\ d \in members'[r]
  BY DEF StayInv
<1>4. CASE d # c
  BY <1>2, <1>3, <1>4 DEF StayInv, Connected
<1>5. CASE d = c
  BY <1>1, <1>2, <1>3, <1>5 DEF StayInv, Connected, MemberInv
<1> QED
  BY <1>4, <1>5

\* A step of run(): who becomes a member is connected from then on, and who
\* stops being one has its channel closed.
LEMMA StayRun ==
  ASSUME NEW r \in RoomIds, IInv, ToldInv, StayInv, Run(r)
  PROVE  StayInv'
<1>0. /\ pc \in [Clients -> {"new", "registering", "reading", "sending", "leaving", "gone",
                             "abandoned"}]
      /\ members \in [RoomIds -> SUBSET Clients] /\ closed \in [Clients -> BOOLEAN]
      /\ notified \in [Clients -> {"none", "online", "offline"}]
      /\ pending \in [RoomIds -> Seq(Frames)] /\ MemberInv /\ FreshInv
  BY DEF IInv, TypeOK, ClientInv
<1>1. CASE RunDone(r)
  BY <1>1 DEF RunDone, clientVars, StayInv, Connected
<1>2. ASSUME NEW c \in Clients, RunRegister(r, c) PROVE StayInv'
  <2>1. /\ pc[c] = "registering" /\ room[c] = r /\ UNCHANGED <<room, closed>>
        /\ pc'[c] = "reading" /\ members'[r] = members[r] \cup {c}
        /\ \A q \in RoomIds : q # r => members'[q] = members[q]
        /\ \A d \in Clients : d # c => pc'[d] = pc[d] /\ notified'[d] = notified[d]
    BY <1>0, <1>2 DEF RunRegister
  <2> QED
    BY <1>0, <2>1 DEF StayInv, Connected
<1>3. ASSUME NEW c \in Clients, RunUnregister(r, c) PROVE StayInv'
  <2>1. /\ pc[c] = "leaving" /\ room[c] = r /\ UNCHANGED <<room, notified>>
        /\ pc'[c] = "gone" /\ \A d \in Clients : d # c => pc'[d] = pc[d] /\ closed'[d] = closed[d]
        /\ members'[r] = members[r] \ {c}
        /\ \A q \in RoomIds : q # r => members'[q] = members[q]
    BY <1>0, <1>3 DEF RunUnregister
  <2>2. \A q \in RoomIds : c \notin members'[q]
    BY <1>0, <2>1 DEF MemberInv
  <2> SUFFICES ASSUME NEW d \in Clients
               PROVE  /\ pc'[d] \in {"new", "registering"} => notified'[d] = "none"
                      /\ pc'[d] = "gone" => \A q \in RoomIds : d \notin members'[q]
                      /\ Connected(d)' /\ ~closed'[d] =>
                           \E q \in RoomIds : room'[d] = q /\ d \in members'[q]
    BY DEF StayInv
  <2>3. CASE d = c
    BY <2>1, <2>2, <2>3 DEF Connected
  <2>4. CASE d # c
    <3>1. \A q \in RoomIds : d \in members'[q] <=> d \in members[q]
      BY <2>1, <2>4
    <3> QED
      BY <2>1, <2>4, <3>1 DEF StayInv, Connected
  <2> QED
    BY <2>3, <2>4
<1>4. ASSUME NEW c \in Clients, RunBroadcast(r, c) PROVE StayInv'
  <2>1. /\ pc[c] = "sending" /\ pc'[c] = "reading" /\ UNCHANGED <<room, notified, closed, members>>
        /\ \A d \in Clients : d # c => pc'[d] = pc[d]
    BY <1>0, <1>4 DEF RunBroadcast
  <2> QED
    BY <2>1 DEF StayInv, Connected
<1>5. CASE RunFanOut(r)
  <2>1. /\ UNCHANGED <<room, pc>> /\ members'[r] = members[r] \ Full(r)
        /\ \A q \in RoomIds : q # r => members'[q] = members[q]
        /\ \A d \in Clients : closed'[d] = (closed[d] \/ d \in Full(r))
    BY <1>0, <1>5 DEF RunFanOut, Evicted
  <2>2. \A d \in Clients : pc[d] \in {"new", "registering"} => notified'[d] = notified[d]
    <3> SUFFICES ASSUME NEW d \in Clients, pc[d] \in {"new", "registering"}
                 PROVE  d \notin ReportedOffline(r, Head(pending[r]))
      BY <1>5 DEF RunFanOut
    <3>1. d \notin Full(r)
      BY <1>0 DEF Full, MemberInv
    <3>2. ~(d = Head(pending[r]).from /\ Head(pending[r]).kind = "leave")
      <4>1. PICK f \in Frames : /\ Head(pending[r]) = f
                                /\ \A e \in Clients : LeavingNow(e, r) <=> e = f.from /\ f.kind = "leave"
        BY <1>5, FrameInHand DEF RunFanOut
      <4>2. ~LeavingNow(d, r)
        BY DEF ToldInv, LeaveInv
      <4> QED
        BY <4>1, <4>2
    <3> QED
      BY <3>1, <3>2 DEF ReportedOffline, Evicted
  <2> SUFFICES ASSUME NEW d \in Clients
               PROVE  /\ pc'[d] \in {"new", "registering"} => notified'[d] = "none"
                      /\ pc'[d] = "gone" => \A q \in RoomIds : d \notin members'[q]
                      /\ Connected(d)' /\ ~closed'[d] =>
                           \E q \in RoomIds : room'[d] = q /\ d \in members'[q]
    BY DEF StayInv
  <2>3. pc'[d] \in {"new", "registering"} => notified'[d] = "none"
    BY <2>1, <2>2 DEF StayInv
  <2>4. pc'[d] = "gone" => \A q \in RoomIds : d \notin members'[q]
    BY <2>1 DEF StayInv
  <2>5. Connected(d)' /\ ~closed'[d] => \E q \in RoomIds : room'[d] = q /\ d \in members'[q]
    <3> SUFFICES ASSUME Connected(d)', ~closed'[d]
                 PROVE  \E q \in RoomIds : room'[d] = q /\ d \in members'[q]
      OBVIOUS
    <3>1. Connected(d) /\ ~closed[d] /\ d \notin Full(r)
      BY <2>1 DEF Connected
    <3>2. PICK q \in RoomIds : room[d] = q /\ d \in members[q]
      BY <3>1 DEF StayInv
    <3>3. room'[d] = q /\ d \in members'[q]
      BY <2>1, <3>1, <3>2
    <3> QED
      BY <3>3
  <2> QED
    BY <2>3, <2>4, <2>5
<1> QED
  BY <1>1, <1>2, <1>3, <1>4, <1>5 DEF Run

\* What presence was last told of a connection agrees with the connection: none
\* before the room took it, online while its pumps run unless it was evicted,
\* and offline once they have ended (or its leave is being fanned out) unless its
\* unregister timed out; whatever the reaper, evictions and timeouts do meanwhile.
THEOREM PresenceIsTruthful == Spec => []PresenceTruthful
<1>1. Init => ToldInv
  <2> SUFFICES ASSUME Init PROVE ToldInv
    OBVIOUS
  <2>1. \A c \in Clients, r \in RoomIds : ~LeavingNow(c, r) /\ c \notin members[r]
    BY DEF Init, LeavingNow
  <2> QED
    BY <2>1 DEF Init, ToldInv, ToldByMembership, LeaveInv
<1>2. IInv /\ ToldInv /\ [Next]_vars => ToldInv'
  <2> SUFFICES ASSUME IInv, ToldInv, [Next]_vars PROVE ToldInv'
    OBVIOUS
  <2>1. CASE HubClose \/ ReapStop \/ Reap
    <3>1. UNCHANGED <<members, pending, notified, room, pc>>
      BY <2>1 DEF HubClose, ReapStop, Reap, ReapTick, ReapCheck, ReapRemove, ReapEnd,
                  roomVars, clientVars
    <3> QED
      BY <3>1, ToldSame
  <2>2. ASSUME NEW r \in RoomIds, Run(r) PROVE ToldInv'
    <3>1. CASE RunDone(r)
      BY <3>1, ToldSame DEF RunDone, clientVars
    <3> QED
      BY <2>2, <3>1, ToldRegister, ToldUnregister, ToldBroadcast, ToldFanOut DEF Run
  <2>3. ASSUME NEW c \in Clients, Session(c) PROVE ToldInv'
    <3>1. CASE \E n \in Names : GetOrCreateRoom(c, n)
      BY <3>1, ToldCreate
    <3>2. CASE ~\E n \in Names : GetOrCreateRoom(c, n)
      <4>1. UNCHANGED <<members, pending, notified, room>>
        BY <2>3, <3>2 DEF Session, ReadMessage, RegisterTimeout, BroadcastTimeout,
           UnregisterTimeout, ReadError, WriteFrame, WriterExit, roomVars
      <4>2. \A d \in Clients : pc[d] = "gone" => pc'[d] = "gone"
        BY <2>3, <3>2 DEF Session, ReadMessage, RegisterTimeout, BroadcastTimeout,
           UnregisterTimeout, ReadError, WriteFrame, WriterExit, IInv, TypeOK
      <4> QED
        BY <4>1, <4>2, ToldSame
    <3> QED
      BY <3>1, <3>2
  <2>4. CASE UNCHANGED vars
    BY <2>4, ToldSame DEF vars, roomVars, clientVars
  <2> QED
    BY <2>1, <2>2, <2>3, <2>4 DEF Next
<1>3. Init => StayInv
  BY DEF Init, StayInv, Connected
<1>4. IInv /\ ToldInv /\ StayInv /\ [Next]_vars => StayInv'
  <2> SUFFICES ASSUME IInv, ToldInv, StayInv, [Next]_vars PROVE StayInv'
    OBVIOUS
  <2>1. CASE HubClose \/ ReapStop \/ Reap
    BY <2>1 DEF HubClose, ReapStop, Reap, ReapTick, ReapCheck, ReapRemove, ReapEnd,
                roomVars, clientVars, StayInv, Connected
  <2>2. CASE UNCHANGED vars
    BY <2>2 DEF vars, roomVars, clientVars, StayInv, Connected
  <2> QED
    BY <2>1, <2>2, StayRun, StaySession DEF Next
<1>5. IInv /\ ToldInv /\ StayInv => PresenceTruthful
  <2> SUFFICES ASSUME IInv, ToldInv, StayInv, NEW c \in Clients
               PROVE  /\ pc[c] \in {"new", "registering"} => notified[c] = "none"
                      /\ Connected(c) => (notified[c] = "online" <=> ~closed[c])
                      /\ pc[c] = "gone" /\ notified[c] = "online" =>
                           \E r \in RoomIds : LeavingNow(c, r)
    BY DEF PresenceTruthful
  <2>1. Connected(c) => \A r \in RoomIds : ~LeavingNow(c, r)
    BY DEF Connected, ToldInv, LeaveInv
  <2>2. \A r \in RoomIds : c \in members[r] => ~closed[c]
    BY DEF IInv, ClientInv, MemberInv
  <2> QED
    BY <2>1, <2>2 DEF StayInv, ToldInv, ToldByMembership
<1> QED
  BY <1>1, <1>2, <1>3, <1>4, <1>5, Invariance, PTL DEF Spec

=============================================================================
