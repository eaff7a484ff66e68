---------------------------- MODULE ChatPresence ----------------------------
(***************************************************************************)
(* How chat-service instances keep presence-service informed: the presence *)
(* queue and its single worker (internal/dispatch), the client that posts  *)
(* with retries, the heartbeat, graceful shutdown, crash and restart       *)
(* (cmd/chat/main.go), composed with PresenceStore.                        *)
(*                                                                         *)
(* The room layer is the one of RoomHub seen from here: a connection is    *)
(* reported online when it is registered and offline when it goes.  One    *)
(* user may hold several connections to the room on one instance.  A       *)
(* connection may have been taken by a room the reaper was removing; that  *)
(* room is not in Hub.rooms, so no snapshot shows who is in it.  A         *)
(* connection here is an entry of r.clients: one whose unregister timed    *)
(* out at a room of the map never leaves.                                  *)
(***************************************************************************)
EXTENDS PresenceStore, Sequences

CONSTANTS MaxConns,   \* bound: connections of a user to an instance
          MaxJoins,   \* bound: connections made between two ticks
          QueueCap,   \* capacity of presenceQ (256 in the code)
          MaxRetries, \* presenceMaxRetries
          Interval,   \* ticks between two heartbeats
          Lossy,      \* whether requests and shutdowns may fail or time out
          MaxStops    \* bound: stops and crashes of all instances together

ASSUME ChatPresenceAssumption ==
  /\ MaxConns \in Nat /\ MaxJoins \in Nat /\ QueueCap \in Nat /\ MaxRetries \in Nat
  /\ Interval \in Nat \ {0} /\ Lossy \in BOOLEAN /\ MaxStops \in Nat

Events == [user : Users, status : {"online", "offline"}]
Idle   == <<>>

VARIABLES
  phase,   \* of the process: up, draining (e.Shutdown), closing (deferred), down
  conns,   \* connections in the room of Hub.rooms, per instance and user
  orphans, \* connections in rooms of that name the reaper has removed
  queue,   \* presenceQ
  job,     \* the presence worker: Idle, or <<event, retries left, slot>>; slot 0
           \* while it backs off
  ended,   \* the presence worker has drained and returned
  due,     \* ticks until the heartbeat's ticker fires
  sweep,   \* the heartbeat: Idle, or <<users, slot>>; slot 0 before the post
  joins,   \* connections made since the last tick
  stops,   \* stops so far
  quiet    \* ticks since a member last had anything speaking for it

chatVars == <<phase, conns, orphans, queue, job, ended, due, sweep, joins, stops, quiet>>
vars     == <<storeVars, chatVars>>

Alive(i) == phase[i] # "down"

\* The store, the process and its queue are well formed, the queue within its
\* capacity, a post within its retries.
TypeOK ==
  /\ StoreTypeOK
  /\ phase \in [Instances -> {"up", "draining", "closing", "down"}]
  /\ conns \in [Instances -> [Users -> 0..MaxConns]]
  /\ orphans \in [Instances -> [Users -> 0..MaxConns]]
  /\ \A i \in Instances :
       /\ queue[i] \in Seq(Events) /\ Len(queue[i]) <= QueueCap
       /\ job[i] = Idle \/ job[i] \in Events \X (0..MaxRetries) \X (Slots \cup {0})
       /\ sweep[i] = Idle \/ sweep[i] \in (SUBSET Users) \X (Slots \cup {0})
  /\ ended \in [Instances -> BOOLEAN]
  /\ due \in [Instances -> 0..Interval]
  /\ joins \in 0..MaxJoins
  /\ stops \in 0..MaxStops
  /\ quiet \in [Members -> 0..(TTL + 1)]

Init ==
  /\ StoreInit
  /\ phase = [i \in Instances |-> "up"]
  /\ conns = [i \in Instances |-> [u \in Users |-> 0]]
  /\ orphans = [i \in Instances |-> [u \in Users |-> 0]]
  /\ queue = [i \in Instances |-> <<>>]
  /\ job = [i \in Instances |-> Idle]
  /\ ended = [i \in Instances |-> FALSE]
  /\ due = [i \in Instances |-> Interval]
  /\ sweep = [i \in Instances |-> Idle]
  /\ joins = 0
  /\ stops = 0
  /\ quiet = [m \in Members |-> TTL + 1]

-----------------------------------------------------------------------------
(* The rooms and the queue.                                                *)

\* Mutant: the queue is not bounded.
Notify_Unbounded(q, u, status) == Append(q, [user |-> u, status |-> status])

\* Notify: a non-blocking send, an event that finds the queue full is dropped.
Notify(q, u, status) ==
  IF Len(q) < QueueCap THEN Append(q, [user |-> u, status |-> status]) ELSE q

\* A connection is registered.  Requests under way during e.Shutdown are still
\* served.
Join(i, u) ==
  /\ phase[i] \in {"up", "draining"} /\ conns[i][u] + orphans[i][u] < MaxConns
  /\ joins < MaxJoins /\ joins' = joins + 1
  /\ conns' = [conns EXCEPT ![i][u] = @ + 1]
  /\ queue' = [queue EXCEPT ![i] = Notify(@, u, "online")]
  /\ quiet' = [quiet EXCEPT ![<<u, i>>] = 0]
  /\ UNCHANGED <<storeVars, phase, orphans, job, ended, due, sweep, stops>>

\* A connection is registered by a room that the reaper has counted empty.  The
\* reaper holds h.mu until the room is out of the map.
JoinOrphaned(i, u) ==
  /\ phase[i] \in {"up", "draining"} /\ conns[i][u] + orphans[i][u] < MaxConns
  /\ joins < MaxJoins /\ joins' = joins + 1
  /\ orphans' = [orphans EXCEPT ![i][u] = @ + 1]
  /\ queue' = [queue EXCEPT ![i] = Notify(@, u, "online")]
  /\ quiet' = [quiet EXCEPT ![<<u, i>>] = 0]
  /\ UNCHANGED <<storeVars, phase, conns, job, ended, due, sweep, stops>>

\* A connection leaves or is evicted.
Leave(i, u) ==
  /\ conns[i][u] > 0
  /\ conns' = [conns EXCEPT ![i][u] = @ - 1]
  /\ queue' = [queue EXCEPT ![i] = Notify(@, u, "offline")]
  /\ UNCHANGED <<storeVars, phase, orphans, job, ended, due, sweep, joins, stops, quiet>>

\* A connection leaves an orphaned room: run() still takes the unregister, or
\* has returned, and then nobody reports it offline.
LeaveOrphaned(i, u) ==
  /\ orphans[i][u] > 0
  /\ orphans' = [orphans EXCEPT ![i][u] = @ - 1]
  /\ \/ queue' = [queue EXCEPT ![i] = Notify(@, u, "offline")]
     \/ UNCHANGED queue
  /\ UNCHANGED <<storeVars, phase, conns, job, ended, due, sweep, joins, stops, quiet>>

\* Room.UserIDs, through Hub.Snapshot, which walks the rooms of the map only.
Snapshot(i) == {u \in Users : conns[i][u] > 0}

-----------------------------------------------------------------------------
(* The presence worker.                                                    *)

\* The worker takes the next event, also when it drains after Close.
WorkerTake(i) ==
  /\ Alive(i) /\ ~ended[i] /\ job[i] = Idle /\ queue[i] # <<>>
  /\ job' = [job EXCEPT ![i] = <<Head(queue[i]), MaxRetries, 0>>]
  /\ queue' = [queue EXCEPT ![i] = Tail(@)]
  /\ UNCHANGED <<storeVars, phase, conns, orphans, ended, due, sweep, joins, stops, quiet>>

\* PresenceClient.post: one attempt.
WorkerPost(i, s) ==
  /\ job[i] # Idle /\ job[i][3] = 0 /\ s \in FreeSlots
  /\ req' = [req EXCEPT ![s] = Request(job[i][1].status, i, {job[i][1].user}, "worker")]
  /\ job' = [job EXCEPT ![i][3] = s]
  /\ UNCHANGED <<score, keyLeft, index, indexLeft, phase, conns, orphans, queue, ended,
                 due, sweep, joins, stops, quiet>>

\* The answer of the attempt arrives.
WorkerDone(i) ==
  /\ job[i] # Idle /\ job[i][3] # 0 /\ req[job[i][3]].st = "done"
  /\ req' = [req EXCEPT ![job[i][3]] = Free]
  /\ job' = [job EXCEPT ![i] = Idle]
  /\ UNCHANGED <<score, keyLeft, index, indexLeft, phase, conns, orphans, queue, ended,
                 due, sweep, joins, stops, quiet>>

\* A caller stops waiting for its request, which goes on without it.
Abandon(s) == IF req[s].st = "done" THEN Free ELSE [req[s] EXCEPT !.caller = "nobody"]

\* The attempt fails for the worker (a timeout, a broken connection, a 5xx):
\* retry after a backoff, or give the event up, as after the last retry or when
\* the event has used up its time limit.
WorkerFail(i) ==
  /\ Lossy /\ job[i] # Idle /\ job[i][3] # 0
  /\ req' = [req EXCEPT ![job[i][3]] = Abandon(job[i][3])]
  /\ \/ job[i][2] > 0 /\ job' = [job EXCEPT ![i] = <<@[1], @[2] - 1, 0>>]
     \/ job' = [job EXCEPT ![i] = Idle]
  /\ UNCHANGED <<score, keyLeft, index, indexLeft, phase, conns, orphans, queue, ended,
                 due, sweep, joins, stops, quiet>>

\* drainPresence has found the queue empty.
WorkerExit(i) ==
  /\ phase[i] = "closing" /\ ~ended[i] /\ job[i] = Idle /\ queue[i] = <<>>
  /\ ended' = [ended EXCEPT ![i] = TRUE]
  /\ UNCHANGED <<storeVars, phase, conns, orphans, queue, job, due, sweep, joins, stops, quiet>>

-----------------------------------------------------------------------------
(* The heartbeat.                                                          *)

\* Mutant: nobody is swept.
HeartbeatUsers_None(i) == {}

\* Mutant: whoever was ever seen is swept.
HeartbeatUsers_All(i) == Users

\* The users a sweep is about to re-assert; it posts nothing for an empty room.
HeartbeatUsers(i) == Snapshot(i)

\* The ticker fires and the sweep takes its snapshot.  After Close the select
\* may still prefer the ticker once more.
HeartbeatTick(i) ==
  /\ Alive(i) /\ due[i] = 0 /\ sweep[i] = Idle
  /\ due' = [due EXCEPT ![i] = Interval]
  /\ sweep' = [sweep EXCEPT ![i] = IF HeartbeatUsers(i) = {} THEN Idle ELSE <<HeartbeatUsers(i), 0>>]
  /\ UNCHANGED <<storeVars, phase, conns, orphans, queue, job, ended, joins, stops, quiet>>

HeartbeatPost(i, s) ==
  /\ sweep[i] # Idle /\ sweep[i][2] = 0 /\ s \in FreeSlots
  /\ req' = [req EXCEPT ![s] = Request("refresh", i, sweep[i][1], "heartbeat")]
  /\ sweep' = [sweep EXCEPT ![i][2] = s]
  /\ UNCHANGED <<score, keyLeft, index, indexLeft, phase, conns, orphans, queue, job, ended,
                 due, joins, stops, quiet>>

\* The answer arrives, or the post fails and is not retried: the next sweep is
\* the retry.
HeartbeatEnd(i) ==
  /\ sweep[i] # Idle /\ sweep[i][2] # 0
  /\ req[sweep[i][2]].st = "done" \/ Lossy
  /\ req' = [req EXCEPT ![sweep[i][2]] = Abandon(sweep[i][2])]
  /\ sweep' = [sweep EXCEPT ![i] = Idle]
  /\ UNCHANGED <<score, keyLeft, index, indexLeft, phase, conns, orphans, queue, job, ended,
                 due, joins, stops, quiet>>

-----------------------------------------------------------------------------
(* The process.                                                            *)

\* Every order in which the users of a set may be told offline.
Orders(us) == {f \in [1..Cardinality(us) -> us] : \A u \in us : \E k \in DOMAIN f : f[k] = u}

\* The queue after a Notify for each of the users us[1], us[2], ... in turn.
NotifyAll(q, us) ==
  LET all == q \o [k \in DOMAIN us |-> [user |-> us[k], status |-> "offline"]]
  IN  SubSeq(all, 1, IF Len(all) < QueueCap THEN Len(all) ELSE QueueCap)

\* SIGTERM: everyone in the snapshot is reported offline, then e.Shutdown.
Signal(i) ==
  /\ phase[i] = "up" /\ stops < MaxStops
  /\ phase' = [phase EXCEPT ![i] = "draining"]
  /\ \E us \in Orders(Snapshot(i)) : queue' = [queue EXCEPT ![i] = NotifyAll(@, us)]
  /\ stops' = stops + 1
  /\ UNCHANGED <<storeVars, conns, orphans, job, ended, due, sweep, joins, quiet>>

\* e.Shutdown returns in time; the deferred Close calls run.  The sockets have
\* been hijacked from the server and stay open, and neither the rooms nor a
\* sweep in progress are stopped.
Shutdown(i) ==
  /\ phase[i] = "draining"
  /\ phase' = [phase EXCEPT ![i] = "closing"]
  /\ UNCHANGED <<storeVars, conns, orphans, queue, job, ended, due, sweep, joins, stops, quiet>>

\* The process is gone, and with it its connections and all it had in memory;
\* requests it has sent are on their own.
Gone(i) ==
  /\ phase' = [phase EXCEPT ![i] = "down"]
  /\ conns' = [conns EXCEPT ![i] = [u \in Users |-> 0]]
  /\ orphans' = [orphans EXCEPT ![i] = [u \in Users |-> 0]]
  /\ queue' = [queue EXCEPT ![i] = <<>>]
  /\ job' = [job EXCEPT ![i] = Idle]
  /\ sweep' = [sweep EXCEPT ![i] = Idle]
  /\ ended' = [ended EXCEPT ![i] = FALSE]
  /\ req' = [s \in Slots |-> IF \/ job[i] # Idle /\ job[i][3] = s
                                \/ sweep[i] # Idle /\ sweep[i][2] = s
                             THEN Abandon(s) ELSE req[s]]
  /\ UNCHANGED <<score, keyLeft, index, indexLeft, due, joins, quiet>>

\* dispatcher.Close returns because the workers have drained: main returns.
Exit(i) == phase[i] = "closing" /\ ended[i] /\ Gone(i) /\ UNCHANGED stops

\* The process ends without that: e.Shutdown fails and the logger's Fatal exits
\* before any deferred call, or dispatcher.Close times out.
ExitEarly(i) == phase[i] \in {"draining", "closing"} /\ Lossy /\ Gone(i) /\ UNCHANGED stops

\* kill -9.
Crash(i) ==
  /\ phase[i] = "up" /\ stops < MaxStops
  /\ Gone(i)
  /\ stops' = stops + 1

Restart(i) ==
  /\ phase[i] = "down"
  /\ phase' = [phase EXCEPT ![i] = "up"]
  /\ due' = [due EXCEPT ![i] = Interval]
  /\ UNCHANGED <<storeVars, conns, orphans, queue, job, ended, sweep, joins, stops, quiet>>

-----------------------------------------------------------------------------
\* Something speaks for the member: a connection in a room of the map, or an
\* online or a refresh that is queued, being posted or under way.  A connection in
\* an orphaned room does not, after its online.
Spoken(u, i) ==
  \/ conns[i][u] > 0
  \/ \E k \in DOMAIN queue[i] : queue[i][k] = [user |-> u, status |-> "online"]
  \/ job[i] # Idle /\ job[i][1] = [user |-> u, status |-> "online"]
  \/ sweep[i] # Idle /\ u \in sweep[i][1]
  \/ \E s \in Slots : Under(s) /\ req[s].op # "offline" /\ req[s].inst = i /\ u \in req[s].users

\* A tick passes.  The ticker of a heartbeat that is idle fires on time.
Tick ==
  /\ StoreTick
  /\ \A i \in Instances : Alive(i) => due[i] > 0 \/ sweep[i] # Idle
  /\ due' = [i \in Instances |-> IF Alive(i) /\ due[i] > 0 THEN due[i] - 1 ELSE due[i]]
  /\ quiet' = [m \in Members |-> IF Spoken(m[1], m[2]) THEN 0
                                 ELSE IF quiet[m] <= TTL THEN quiet[m] + 1 ELSE quiet[m]]
  /\ joins' = 0
  /\ UNCHANGED <<phase, conns, orphans, queue, job, ended, sweep, stops>>

Store == \E s \in Slots : Stamp(s) \/ SetOnline(s) \/ SetOffline(s) \/ LoseRequest(s)

Chat(i) ==
  \/ \E u \in Users : Join(i, u) \/ JoinOrphaned(i, u) \/ Leave(i, u) \/ LeaveOrphaned(i, u)
  \/ WorkerTake(i) \/ WorkerDone(i) \/ WorkerFail(i) \/ WorkerExit(i)
  \/ HeartbeatTick(i) \/ HeartbeatEnd(i)
  \/ \E s \in Slots : WorkerPost(i, s) \/ HeartbeatPost(i, s)
  \/ Signal(i) \/ Shutdown(i) \/ Exit(i) \/ ExitEarly(i) \/ Crash(i) \/ Restart(i)

Next ==
  \/ Tick
  \/ (Store \/ ListOnline \/ PruneIndex) /\ UNCHANGED chatVars
  \/ \E i \in Instances : Chat(i)

Spec == Init /\ [][Next]_vars

\* What is owed: goroutines and handlers that can run do; time passes; and the
\* network is not down for ever, so a refresh that is tried again and again for
\* a member gets through in the end (strong fairness).  Nobody has to join,
\* leave, stop or restart.
Fairness ==
  /\ SF_vars(Tick)
  /\ \A s \in Slots : WF_vars(Serve(s) /\ UNCHANGED chatVars)
  /\ \A i \in Instances :
       /\ WF_vars(WorkerTake(i)) /\ WF_vars(WorkerDone(i)) /\ WF_vars(WorkerExit(i))
       /\ SF_vars(\E s \in Slots : WorkerPost(i, s))
       /\ WF_vars(HeartbeatTick(i)) /\ WF_vars(HeartbeatEnd(i))
       /\ SF_vars(\E s \in Slots : HeartbeatPost(i, s))
       /\ WF_vars(Shutdown(i)) /\ WF_vars(Exit(i))
       /\ \A u \in Users :
            /\ SF_vars(UNCHANGED chatVars /\ \E s \in Slots :
                  Under(s) /\ req[s].op = "refresh" /\ req[s].inst = i /\ u \in req[s].users /\ Stamp(s))
            /\ SF_vars(UNCHANGED chatVars /\ \E s \in Slots :
                  Under(s) /\ req[s].op = "refresh" /\ req[s].inst = i /\ u \in req[s].users /\ SetOnline(s))

FairSpec == Spec /\ Fairness

-----------------------------------------------------------------------------
(* Properties.                                                             *)

\* No ghost outlives its TTL: a member is listed for at most TTL ticks after
\* the last thing that spoke for it went away, whatever was lost, repeated,
\* applied late or overtaken, and however its instance ended.
GhostExpires == \A m \in Members : Live(m) => score[m] + quiet[m] <= TTL

\* A user who is connected to a room of the hub's map is listed sooner or later,
\* even if the online was dropped or overtaken by an offline, or another
\* connection of the same user on the same instance went away: the heartbeat
\* repairs it.  It does nothing for a connection in an orphaned room, which no
\* snapshot shows: if its online is lost, the user is never listed.
Heals == \A i \in Instances, u \in Users :
           conns[i][u] > 0 ~> (Listed(u) \/ conns[i][u] = 0)

\* The connections of a user to an instance, wherever they are.
AllConns(i, u) == conns[i][u] + orphans[i][u]

\* A user whom no room holds as a client, in the map or out of it, disappears
\* unless a room takes a new connection.
GhostsVanish == \A u \in Users :
  (\A i \in Instances : AllConns(i, u) = 0) ~>
    (~Listed(u) \/ \E i \in Instances : AllConns(i, u) > 0)

\* The queue, the posts under way and the store are well formed, and no ghost
\* outlives its TTL.
PresenceInv == TypeOK /\ GhostExpires

=============================================================================
