------------------------------ MODULE RoomHub ------------------------------
(***************************************************************************)
(* The WebSocket layer of one chat-service instance (internal/ws): the Hub *)
(* with its map of rooms and its reaper, every incarnation of a Room with  *)
(* its run() goroutine, and for every connection the handler that joins it *)
(* and its read and write pumps.                                           *)
(*                                                                         *)
(* The channels register, unregister and broadcast are unbuffered, so a    *)
(* send and its receive are one step of run().  Each case of run() is cut  *)
(* where it first releases r.mu: first the change of r.clients, then the   *)
(* fan-out of the frame, which is left in pending[r] in between.  What     *)
(* run() does after the fan-out without a lock (the Notify of the evicted  *)
(* and of the one that left, Archive) is one step with it: only run()      *)
(* calls them, and nothing else reads what they were told.  The reaper is  *)
(* cut between its ClientCount() and the removal, because run() can add a  *)
(* client there: h.mu does not exclude it.                                 *)
(***************************************************************************)
EXTENDS Naturals, Sequences, FiniteSets

CONSTANTS Clients,    \* the connections that may be made
          Names,      \* the names of rooms
          MaxRooms,   \* bound: incarnations of rooms ever created
          SendCap,    \* capacity of Client.send (16 in the code)
          MaxMsgs     \* bound: messages read from all sockets together

ASSUME RoomHubAssumption == /\ MaxRooms \in Nat
                            /\ SendCap \in Nat
                            /\ MaxMsgs \in Nat

RoomIds == 1..MaxRooms

\* What a message read from a socket turns out to be in run(): a chat message,
\* a typing event, or one that is dropped (malformed, or empty content).
MessageKinds == {"chat", "typing", "dropped"}
FrameKinds   == {"join", "leave", "chat", "typing"}
Frames       == [kind : FrameKinds, from : Clients]

VARIABLES
  rooms,     \* Hub.rooms: the incarnation a name stands for, 0 if none
  made,      \* the number of incarnations created so far
  stop,      \* Hub.stop is closed
  reaper,    \* the reaper goroutine; it holds h.mu while "scanning"
  scan,      \* the names its scan has yet to look at
  doomed,    \* the name it found empty and is about to remove
  members,   \* Room.clients
  done,      \* Room.done is closed
  exited,    \* run() has returned
  pending,   \* the frame run() is about to fan out, <<>> at its select
  seq,       \* the number of frames the room has fanned out
  archived,  \* the frames handed to MessageArchiver.Archive
  pc,        \* where the handler, and then the read pump, of a client is
  room,      \* Client.room, 0 before GetOrCreateRoom
  msg,       \* the message the read pump is trying to hand to its room
  open,      \* the server side of the socket has not been closed
  writer,    \* the write pump
  send,      \* Client.send: the numbers of the frames queued in it
  closed,    \* Client.send is closed
  last,      \* the last frame written to the socket, or fanned out before it
  notified,  \* the last status PresenceNotifier.Notify was told of the client
  panicked,  \* a closed channel was closed again or sent on
  msgs       \* messages read so far

hubVars    == <<rooms, made, stop, reaper, scan, doomed>>
roomVars   == <<members, done, exited, pending, seq, archived>>
clientVars == <<pc, room, msg, open, writer, send, closed, last, notified>>
vars       == <<hubVars, roomVars, clientVars, panicked, msgs>>

\* Types, and the two bounds the code relies on: a buffer never holds more
\* than its capacity, and run() has at most one frame in hand.
TypeOK ==
  /\ rooms \in [Names -> 0..MaxRooms]
  /\ made \in 0..MaxRooms
  /\ stop \in BOOLEAN
  /\ reaper \in {"waiting", "scanning", "stopped"}
  /\ scan \in SUBSET Names
  /\ doomed \in SUBSET Names
  /\ members \in [RoomIds -> SUBSET Clients]
  /\ done \in [RoomIds -> BOOLEAN]
  /\ exited \in [RoomIds -> BOOLEAN]
  /\ pending \in [RoomIds -> Seq(Frames)]
  /\ seq \in [RoomIds -> Nat]
  /\ archived \in [RoomIds -> SUBSET Nat]
  /\ pc \in [Clients -> {"new", "registering", "reading", "sending", "leaving", "gone",
                     "abandoned"}]
  /\ room \in [Clients -> 0..MaxRooms]
  /\ msg \in [Clients -> MessageKinds]
  /\ open \in [Clients -> BOOLEAN]
  /\ writer \in [Clients -> {"off", "on"}]
  /\ send \in [Clients -> Seq(Nat)]
  /\ closed \in [Clients -> BOOLEAN]
  /\ last \in [Clients -> Nat]
  /\ notified \in [Clients -> {"none", "online", "offline"}]
  /\ panicked \in BOOLEAN
  /\ msgs \in 0..MaxMsgs
  /\ \A c \in Clients : Len(send[c]) <= SendCap
  /\ \A r \in RoomIds : Len(pending[r]) <= 1

Init ==
  /\ rooms = [n \in Names |-> 0]
  /\ made = 0
  /\ stop = FALSE
  /\ reaper = "waiting"
  /\ scan = {}
  /\ doomed = {}
  /\ members = [r \in RoomIds |-> {}]
  /\ done = [r \in RoomIds |-> FALSE]
  /\ exited = [r \in RoomIds |-> FALSE]
  /\ pending = [r \in RoomIds |-> <<>>]
  /\ seq = [r \in RoomIds |-> 0]
  /\ archived = [r \in RoomIds |-> {}]
  /\ pc = [c \in Clients |-> "new"]
  /\ room = [c \in Clients |-> 0]
  /\ msg = [c \in Clients |-> "dropped"]
  /\ open = [c \in Clients |-> TRUE]
  /\ writer = [c \in Clients |-> "off"]
  /\ send = [c \in Clients |-> <<>>]
  /\ closed = [c \in Clients |-> FALSE]
  /\ last = [c \in Clients |-> 0]
  /\ notified = [c \in Clients |-> "none"]
  /\ panicked = FALSE
  /\ msgs = 0

-----------------------------------------------------------------------------
(* The hub.                                                                *)

\* Hub.Close.
HubClose ==
  /\ ~stop
  /\ stop' = TRUE
  /\ UNCHANGED <<rooms, made, reaper, scan, doomed, roomVars, clientVars, panicked, msgs>>

\* The reaper's select takes the closed stop channel.
ReapStop ==
  /\ reaper = "waiting" /\ stop
  /\ reaper' = "stopped"
  /\ UNCHANGED <<rooms, made, stop, scan, doomed, roomVars, clientVars, panicked, msgs>>

\* The ticker fires: take h.mu and range over the rooms.
ReapTick ==
  /\ reaper = "waiting"
  /\ reaper' = "scanning"
  /\ scan' = {n \in Names : rooms[n] # 0}
  /\ UNCHANGED <<rooms, made, stop, doomed, roomVars, clientVars, panicked, msgs>>

\* Mutant: a room with one client left is taken for an empty one.
ReapCheck_OffByOne(n) ==
  /\ n \in scan /\ doomed = {}
  /\ scan' = scan \ {n}
  /\ doomed' = {m \in {n} : Cardinality(members[rooms[m]]) = 1}
  /\ UNCHANGED <<rooms, made, stop, reaper, roomVars, clientVars, panicked, msgs>>

\* room.ClientCount() == 0, under the read lock of r.mu.
ReapCheck(n) ==
  /\ n \in scan /\ doomed = {}
  /\ scan' = scan \ {n}
  /\ doomed' = {m \in {n} : members[rooms[m]] = {}}
  /\ UNCHANGED <<rooms, made, stop, reaper, roomVars, clientVars, panicked, msgs>>

\* Mutant: the room is shut down but stays in the map.
ReapRemove_NoDelete(n) ==
  /\ n \in doomed
  /\ doomed' = {}
  /\ done' = [done EXCEPT ![rooms[n]] = TRUE]
  /\ panicked' = (panicked \/ done[rooms[n]])
  /\ UNCHANGED <<rooms, made, stop, reaper, scan, members, exited, pending, seq, archived,
                 clientVars, msgs>>

\* delete(h.rooms, name) and room.shutdown(), which closes done.
ReapRemove(n) ==
  /\ n \in doomed
  /\ doomed' = {}
  /\ rooms' = [rooms EXCEPT ![n] = 0]
  /\ done' = [done EXCEPT ![rooms[n]] = TRUE]
  /\ panicked' = (panicked \/ done[rooms[n]])
  /\ UNCHANGED <<made, stop, reaper, scan, members, exited, pending, seq, archived,
                 clientVars, msgs>>

\* The scan is over: release h.mu.
ReapEnd ==
  /\ reaper = "scanning" /\ scan = {} /\ doomed = {}
  /\ reaper' = "waiting"
  /\ UNCHANGED <<rooms, made, stop, scan, doomed, roomVars, clientVars, panicked, msgs>>

-----------------------------------------------------------------------------
(* Joining: Handler.Serve after the upgrade.                               *)

\* GetOrCreateRoom under h.mu, then NewClient.  A room created here starts
\* its run() goroutine at once.
GetOrCreateRoom(c, n) ==
  /\ pc[c] = "new"
  /\ reaper # "scanning"
  /\ rooms[n] # 0 \/ made < MaxRooms
  /\ made' = IF rooms[n] # 0 THEN made ELSE made + 1
  /\ rooms' = [rooms EXCEPT ![n] = IF @ # 0 THEN @ ELSE made + 1]
  /\ room' = [room EXCEPT ![c] = rooms'[n]]
  /\ pc' = [pc EXCEPT ![c] = "registering"]
  /\ UNCHANGED <<stop, reaper, scan, doomed, roomVars, msg, open, writer, send,
                 closed, last, notified, panicked, msgs>>

\* Mutant: the register send blocks without a timeout.
RegisterTimeout_Blocking(c) == FALSE

\* The register send was not received within 2s: the connection is dropped.
RegisterTimeout(c) ==
  /\ pc[c] = "registering"
  /\ pc' = [pc EXCEPT ![c] = "gone"]
  /\ open' = [open EXCEPT ![c] = FALSE]
  /\ UNCHANGED <<hubVars, roomVars, room, msg, writer, send, closed, last, notified,
                 panicked, msgs>>

-----------------------------------------------------------------------------
(* The cases of Room.run().                                                *)

\* run() of incarnation r waits at its select.  A closed done does not stop
\* it from taking another ready case: Go chooses among the ready ones.
Selecting(r) == r <= made /\ ~exited[r] /\ pending[r] = <<>>

\* case <-r.done
RunDone(r) ==
  /\ Selecting(r) /\ done[r]
  /\ exited' = [exited EXCEPT ![r] = TRUE]
  /\ UNCHANGED <<hubVars, members, done, pending, seq, archived, clientVars, panicked, msgs>>

\* case client := <-r.register, up to the join frame.  The handler goes on to
\* start both pumps.
RunRegister(r, c) ==
  /\ Selecting(r) /\ pc[c] = "registering" /\ room[c] = r
  /\ members' = [members EXCEPT ![r] = @ \cup {c}]
  /\ notified' = [notified EXCEPT ![c] = "online"]
  /\ pending' = [pending EXCEPT ![r] = <<[kind |-> "join", from |-> c]>>]
  /\ last' = [last EXCEPT ![c] = seq[r]]
  /\ pc' = [pc EXCEPT ![c] = "reading"]
  /\ writer' = [writer EXCEPT ![c] = "on"]
  /\ UNCHANGED <<hubVars, done, exited, seq, archived, room, msg, open, send, closed,
                 panicked, msgs>>

\* Mutant: the unregister case does not look whether the client is still there.
RunUnregister_Unchecked(r, c) ==
  /\ Selecting(r) /\ pc[c] = "leaving" /\ room[c] = r
  /\ pc' = [pc EXCEPT ![c] = "gone"]
  /\ open' = [open EXCEPT ![c] = FALSE]
  /\ members' = [members EXCEPT ![r] = @ \ {c}]
  /\ closed' = [closed EXCEPT ![c] = TRUE]
  /\ panicked' = (panicked \/ closed[c])
  /\ pending' = [pending EXCEPT ![r] = <<[kind |-> "leave", from |-> c]>>]
  /\ UNCHANGED <<hubVars, done, exited, seq, archived, room, msg, writer, send, last,
                 notified, msgs>>

\* case client := <-r.unregister, up to the leave frame.  A client that was
\* evicted before is not found, and nothing more happens.  The read pump
\* closes the socket.
RunUnregister(r, c) ==
  /\ Selecting(r) /\ pc[c] = "leaving" /\ room[c] = r
  /\ pc' = [pc EXCEPT ![c] = "gone"]
  /\ open' = [open EXCEPT ![c] = FALSE]
  /\ \/ /\ c \in members[r]
        /\ members' = [members EXCEPT ![r] = @ \ {c}]
        /\ closed' = [closed EXCEPT ![c] = TRUE]
        /\ panicked' = (panicked \/ closed[c])
        /\ pending' = [pending EXCEPT ![r] = <<[kind |-> "leave", from |-> c]>>]
     \/ /\ c \notin members[r]
        /\ UNCHANGED <<members, closed, panicked, pending>>
  /\ UNCHANGED <<hubVars, done, exited, seq, archived, room, msg, writer, send, last,
                 notified, msgs>>

\* case msg := <-r.broadcast, up to the frame.
RunBroadcast(r, c) ==
  /\ Selecting(r) /\ pc[c] = "sending" /\ room[c] = r
  /\ pc' = [pc EXCEPT ![c] = "reading"]
  /\ msg' = [msg EXCEPT ![c] = "dropped"]
  /\ pending' = IF msg[c] = "dropped" THEN pending
                ELSE [pending EXCEPT ![r] = <<[kind |-> msg[c], from |-> c]>>]
  /\ UNCHANGED <<hubVars, members, done, exited, seq, archived, room, open, writer,
                 send, closed, last, notified, panicked, msgs>>

\* Mutant: the buffer is taken to have one slot more than it has.
Full_OffByOne(r) == {c \in members[r] : Len(send[c]) > SendCap}

\* The members whose buffer has no room for another frame.
Full(r) == {c \in members[r] : Len(send[c]) >= SendCap}

\* Mutant: the default branch skips the frame instead of dropping the client.
Evicted_Skip(r) == {}

\* The members broadcastEvent closes and deletes from r.clients.
Evicted(r) == Full(r)

\* Mutant: an evicted client is left to the unregister case.
ReportedOffline_LeaveOnly(r, frame) == {c \in {frame.from} : frame.kind = "leave"}

\* The clients Notify is told are offline after a frame: the evicted ones, and
\* the one that left.
ReportedOffline(r, frame) == Evicted(r) \cup {c \in {frame.from} : frame.kind = "leave"}

\* broadcastEvent, and what its caller does after it: the frame is queued for
\* every member with room in its buffer and the others are evicted; then the
\* evicted, and the client of a leave, are reported offline; a chat message is
\* archived.
RunFanOut(r) ==
  /\ pending[r] # <<>>
  /\ notified' = [c \in Clients |-> IF c \in ReportedOffline(r, Head(pending[r]))
                                    THEN "offline" ELSE notified[c]]
  /\ archived' = [archived EXCEPT ![r] =
                    IF Head(pending[r]).kind = "chat" THEN @ \cup {seq[r] + 1} ELSE @]
  /\ members' = [members EXCEPT ![r] = @ \ Evicted(r)]
  /\ send' = [c \in Clients |-> IF c \in members[r] \ Full(r)
                                THEN Append(send[c], seq[r] + 1) ELSE send[c]]
  /\ closed' = [c \in Clients |-> closed[c] \/ c \in Evicted(r)]
  /\ panicked' = (panicked \/ \E c \in members[r] : closed[c])
  /\ seq' = [seq EXCEPT ![r] = @ + 1]
  /\ pending' = [pending EXCEPT ![r] = <<>>]
  /\ UNCHANGED <<hubVars, done, exited, pc, room, msg, open, writer, last, msgs>>

-----------------------------------------------------------------------------
(* The pumps.                                                              *)

\* readPump has read a message and offers it to the room.
ReadMessage(c, kind) ==
  /\ pc[c] = "reading" /\ open[c]
  /\ msgs < MaxMsgs
  /\ pc' = [pc EXCEPT ![c] = "sending"]
  /\ msg' = [msg EXCEPT ![c] = kind]
  /\ msgs' = msgs + 1
  /\ UNCHANGED <<hubVars, roomVars, room, open, writer, send, closed, last, notified, panicked>>

\* The broadcast send was not received within 2s: the message is dropped.
BroadcastTimeout(c) ==
  /\ pc[c] = "sending"
  /\ pc' = [pc EXCEPT ![c] = "reading"]
  /\ msg' = [msg EXCEPT ![c] = "dropped"]
  /\ UNCHANGED <<hubVars, roomVars, room, open, writer, send, closed, last, notified,
                 panicked, msgs>>

\* ReadMessage fails: the peer is gone, silent beyond pongWait, or the write
\* pump has closed the socket.
ReadError(c) ==
  /\ pc[c] = "reading"
  /\ pc' = [pc EXCEPT ![c] = "leaving"]
  /\ UNCHANGED <<hubVars, roomVars, room, msg, open, writer, send, closed, last,
                 notified, panicked, msgs>>

\* Mutant: the unregister send blocks without a timeout.
UnregisterTimeout_Blocking(c) == FALSE

\* The deferred unregister send was not received within 2s: run() has returned,
\* or was busy all that time.  The read pump closes the socket all the same and
\* leaves its entry in r.clients.
UnregisterTimeout(c) ==
  /\ pc[c] = "leaving"
  /\ pc' = [pc EXCEPT ![c] = "abandoned"]
  /\ open' = [open EXCEPT ![c] = FALSE]
  /\ UNCHANGED <<hubVars, roomVars, room, msg, writer, send, closed, last, notified,
                 panicked, msgs>>

\* writePump writes the next frame.
WriteFrame(c) ==
  /\ writer[c] = "on" /\ open[c] /\ send[c] # <<>>
  /\ send' = [send EXCEPT ![c] = Tail(@)]
  /\ last' = [last EXCEPT ![c] = Head(send[c])]
  /\ UNCHANGED <<hubVars, roomVars, pc, room, msg, open, writer, closed, notified,
                 panicked, msgs>>

\* writePump returns and closes the socket: it met the closed, emptied send
\* channel, or the write of a frame or of a ping failed.
WriterExit(c) ==
  /\ writer[c] = "on"
  /\ writer' = [writer EXCEPT ![c] = "off"]
  /\ open' = [open EXCEPT ![c] = FALSE]
  /\ UNCHANGED <<hubVars, roomVars, pc, room, msg, send, closed, last, notified,
                 panicked, msgs>>

-----------------------------------------------------------------------------
Run(r) == RunDone(r) \/ RunFanOut(r)
            \/ \E c \in Clients : RunRegister(r, c) \/ RunUnregister(r, c) \/ RunBroadcast(r, c)

Reap == ReapTick \/ ReapEnd \/ \E n \in Names : ReapCheck(n) \/ ReapRemove(n)

Session(c) ==
  \/ \E n \in Names : GetOrCreateRoom(c, n)
  \/ \E kind \in MessageKinds : ReadMessage(c, kind)
  \/ RegisterTimeout(c) \/ BroadcastTimeout(c) \/ UnregisterTimeout(c)
  \/ ReadError(c) \/ WriteFrame(c) \/ WriterExit(c)

Next ==
  \/ HubClose \/ ReapStop \/ Reap
  \/ \E r \in RoomIds : Run(r)
  \/ \E c \in Clients : Session(c)

Spec == Init /\ [][Next]_vars

\* What the runtime guarantees: a goroutine that can run does; Go's select
\* picks among its ready cases at random, so a closed done is taken in the
\* end however often another case wins (strong fairness); the bounded selects
\* end after 2s; a read on a closed socket fails; a write pump whose channel
\* or socket is closed drains and returns.  Peers owe nothing: no message, no
\* join and no disconnection has to happen.
Fairness ==
  /\ WF_vars(Reap)
  /\ \A r \in RoomIds : WF_vars(RunFanOut(r)) /\ SF_vars(RunDone(r))
  /\ \A c \in Clients :
       /\ WF_vars(RegisterTimeout(c))
       /\ WF_vars(BroadcastTimeout(c))
       /\ WF_vars(UnregisterTimeout(c))
       /\ WF_vars(~open[c] /\ ReadError(c))
       /\ WF_vars((closed[c] \/ ~open[c]) /\ (WriteFrame(c) \/ WriterExit(c)))

FairSpec == Spec /\ Fairness

-----------------------------------------------------------------------------
(* Properties.                                                             *)

\* No channel is closed twice and none is sent on after it was closed: three
\* places close (eviction in broadcastEvent, the unregister case, the reaper's
\* shutdown) and none of them may meet what another one closed.
NoPanic == ~panicked

\* Whatever GetOrCreateRoom finds in the map is a room whose run() still
\* serves: the reaper never leaves a room in the map that it has shut down.
HubRoomsLive == \A n \in Names : rooms[n] # 0 => ~done[rooms[n]] /\ ~exited[rooms[n]]

\* A connection sees every frame of its room from its own join on, in the order
\* the room fanned them out and without a gap: the frames in its buffer follow
\* the last one written, and for a member they reach up to the room's newest.
\* A buffer that is full evicts its client, it never skips a frame.
FramesInOrder ==
  \A c \in Clients :
    /\ \A i \in DOMAIN send[c] : send[c][i] = last[c] + i
    /\ \A r \in RoomIds : c \in members[r] => last[c] + Len(send[c]) = seq[r]

\* The leave frame of c is still to be fanned out.
LeavingNow(c, r) == pending[r] = <<[kind |-> "leave", from |-> c]>>

\* The handler has registered the connection and its read pump has not ended.
Connected(c) == pc[c] \in {"reading", "sending", "leaving"}

\* What presence was last told of a connection, against what became of the
\* connection itself.  Nothing is told before the room has taken it.  While its
\* read pump runs it is online until it is evicted, also in a room that was
\* reaped under it.  Once its pumps have ended it is offline, or its leave is
\* being fanned out.  The one exception is a connection whose unregister timed
\* out: nobody removes it, and it may stay reported online for ever.
PresenceTruthful ==
  \A c \in Clients :
    /\ pc[c] \in {"new", "registering"} => notified[c] = "none"
    /\ Connected(c) => (notified[c] = "online" <=> ~closed[c])
    /\ pc[c] = "gone" /\ notified[c] = "online" => \E r \in RoomIds : LeavingNow(c, r)

\* No goroutine of a connection outlives it: once its send channel is closed,
\* or its read pump is leaving, or its handler failed to register it, both
\* pumps return, even if the room they hold a pointer to has been shut down.
PumpsExit ==
  \A c \in Clients :
    (closed[c] \/ pc[c] = "leaving")
       ~> (pc[c] \in {"gone", "abandoned"} /\ writer[c] = "off")

\* A handler does not hang on a room that has been shut down.
JoinReturns == \A c \in Clients : pc[c] = "registering" ~> pc[c] # "registering"

\* Rooms do not leak: an empty room is removed unless someone joins it or the
\* hub is closed, and the goroutine of a removed room returns.
RoomsReaped ==
  /\ \A n \in Names : (rooms[n] # 0 /\ members[rooms[n]] = {})
                         ~> (rooms[n] = 0 \/ members[rooms[n]] # {} \/ stop)
  /\ \A r \in RoomIds : done[r] ~> exited[r]

=============================================================================
