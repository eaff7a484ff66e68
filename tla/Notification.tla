---------------------------- MODULE Notification ----------------------------
(***************************************************************************)
(* notification-service from an accepted message event to the webhook      *)
(* calls: the event queue, the single fan-out worker with its recipient    *)
(* resolution, the table of deliveries, the delivery queue and its pool of *)
(* workers with retries, Close with its drain and its two timeouts, crash  *)
(* and restart.                                                            *)
(*                                                                         *)
(* A delivery is a pair <<event, user>>.  Who is a recipient depends on    *)
(* subscriptions, presence (everyone, if it is unreachable) and registered *)
(* webhooks, all of which change at any time: the fan-out takes any set of *)
(* users but the sender.                                                   *)
(***************************************************************************)
EXTENDS Naturals, Sequences, FiniteSets

CONSTANTS Events,       \* event ids
          Users,        \* users with a webhook
          Workers,      \* delivery workers
          EventCap,     \* capacity of eventQ (256 in the code)
          DeliveryCap,  \* capacity of deliveryQ (1024 in the code)
          MaxRetries,   \* deliveryMaxRetries (3 in the code)
          MaxPosts,     \* bound: times an event is posted
          MaxCrashes,   \* bound: crashes
          DbFaults      \* whether the database may fail

ASSUME NotificationAssumption ==
  /\ EventCap \in Nat /\ DeliveryCap \in Nat /\ MaxRetries \in Nat
  /\ MaxPosts \in Nat /\ MaxCrashes \in Nat /\ DbFaults \in BOOLEAN

Jobs == Events \X Users
Idle == <<>>

\* Of an attempt: still to be made (asleep, if it is a retry), sent, answered.
Stages == {"ready", "sent", "accepted", "refused"}

VARIABLES
  phase,      \* up, closing (Close waits), cancelled (its second wait), down
  posts,      \* how often an event was accepted
  eventQ,
  fan,        \* the fan-out: Idle, or <<event, users to record, users to queue>>
  fanExited,
  row,        \* the deliveries table, unique in (event_id, user_id)
  deliveryQ,
  worker,     \* a delivery worker: Idle, or <<job, attempts failed, stage>>
  exited,     \* the delivery workers that have returned
  calls,      \* webhook requests sent for a job, ever
  acked,      \* jobs whose receiver answered with a 2xx, ever
  lost,       \* history: jobs given up between their row and their first call
  crashes

memory == <<eventQ, fan, fanExited, deliveryQ, worker, exited>>
vars   == <<phase, posts, memory, row, calls, acked, lost, crashes>>

\* The queues, within their capacities, the workers and the rows are well formed.
TypeOK ==
  /\ phase \in {"up", "closing", "cancelled", "down"}
  /\ posts \in [Events -> 0..MaxPosts]
  /\ eventQ \in Seq(Events) /\ Len(eventQ) <= EventCap
  /\ fan = Idle \/ fan \in Events \X (SUBSET Users) \X (SUBSET Users)
  /\ fanExited \in BOOLEAN
  /\ row \in [Jobs -> {"none", "pending", "delivered", "failed"}]
  /\ deliveryQ \in Seq(Jobs) /\ Len(deliveryQ) <= DeliveryCap
  /\ \A w \in Workers : worker[w] = Idle \/ worker[w] \in Jobs \X Nat \X Stages
  /\ exited \in SUBSET Workers
  /\ calls \in [Jobs -> Nat]
  /\ acked \in SUBSET Jobs
  /\ lost \in SUBSET Jobs
  /\ crashes \in 0..MaxCrashes

MemoryInit ==
  /\ eventQ = <<>> /\ deliveryQ = <<>>
  /\ fan = Idle /\ fanExited = FALSE
  /\ worker = [w \in Workers |-> Idle] /\ exited = {}

Init ==
  /\ MemoryInit
  /\ phase = "up"
  /\ posts = [e \in Events |-> 0]
  /\ row = [j \in Jobs |-> "none"]
  /\ calls = [j \in Jobs |-> 0]
  /\ acked = {} /\ lost = {}
  /\ crashes = 0

Running == phase # "down"
Stopped == phase \in {"closing", "cancelled"}

\* The jobs between their row and the end of their delivery, by where they are.
FannedOut == {<<fan[1], u>> : u \in IF fan = Idle THEN {} ELSE fan[3]}
Queued    == {deliveryQ[k] : k \in DOMAIN deliveryQ}
WorkedOn  == {worker[w][1] : w \in {v \in Workers : worker[v] # Idle}}
InHand    == FannedOut \cup Queued \cup WorkedOn

-----------------------------------------------------------------------------
(* Accepting events.                                                       *)

\* Mutant: a queue takes one more than its capacity.
HasRoom_OffByOne(q, cap) == Len(q) <= cap

\* A send in a select with a default finds room in the channel.
HasRoom(q, cap) == Len(q) < cap

\* POST /events/message is answered with a 202: Enqueue found room.  An event
\* comes again when its sender timed out on the answer.  With the queue full
\* the answer is a 503 and nothing changes.
Enqueue(e) ==
  /\ phase = "up" /\ posts[e] < MaxPosts /\ HasRoom(eventQ, EventCap)
  /\ eventQ' = Append(eventQ, e)
  /\ posts' = [posts EXCEPT ![e] = @ + 1]
  /\ UNCHANGED <<phase, fan, fanExited, deliveryQ, worker, exited, row, calls, acked, lost, crashes>>

-----------------------------------------------------------------------------
(* The fan-out worker.                                                     *)

\* fanout begins: subscribers minus the sender minus who is online, as far as
\* they have a webhook.
FanTake(us) ==
  /\ Running /\ ~fanExited /\ fan = Idle /\ eventQ # <<>>
  /\ eventQ' = Tail(eventQ)
  /\ fan' = <<Head(eventQ), us, {}>>
  /\ UNCHANGED <<phase, posts, fanExited, deliveryQ, worker, exited, row, calls, acked, lost, crashes>>

\* Mutant: the table has no unique key, so a replay is recorded again.
IsDuplicate_Never(j) == FALSE

\* The insert violates the unique key.
IsDuplicate(j) == row[j] # "none"

\* deliveryRepo.Create for one webhook: a new row, or a replay to skip.
FanCreate(u) ==
  /\ fan # Idle /\ u \in fan[2]
  /\ LET j == <<fan[1], u>> IN
     \/ /\ ~IsDuplicate(j)
        /\ row' = [row EXCEPT ![j] = "pending"]
        /\ fan' = <<fan[1], fan[2] \ {u}, fan[3] \cup {u}>>
     \/ /\ IsDuplicate(j)
        /\ fan' = <<fan[1], fan[2] \ {u}, fan[3]>>
        /\ UNCHANGED row
  /\ UNCHANGED <<phase, posts, eventQ, fanExited, deliveryQ, worker, exited, calls, acked, lost, crashes>>

\* Recipients fails on the database: the fan-out of the event ends, and what it
\* has recorded before is not queued.  The insert that failed for the client may
\* have been committed.
FanAbort ==
  /\ DbFaults /\ fan # Idle /\ fan[2] # {}
  /\ fan' = Idle
  /\ \/ /\ lost' = lost \cup FannedOut
        /\ UNCHANGED row
     \/ \E u \in fan[2] : /\ row[<<fan[1], u>>] = "none"
                          /\ row' = [row EXCEPT ![<<fan[1], u>>] = "pending"]
                          /\ lost' = lost \cup FannedOut \cup {<<fan[1], u>>}
  /\ UNCHANGED <<phase, posts, eventQ, fanExited, deliveryQ, worker, exited, calls, acked, crashes>>

\* All rows are there: queue one recipient, or drop it if the queue is full.
FanPush(u) ==
  /\ fan # Idle /\ fan[2] = {} /\ u \in fan[3]
  /\ IF HasRoom(deliveryQ, DeliveryCap)
     THEN deliveryQ' = Append(deliveryQ, <<fan[1], u>>) /\ UNCHANGED lost
     ELSE lost' = lost \cup {<<fan[1], u>>} /\ UNCHANGED deliveryQ
  /\ fan' = <<fan[1], {}, fan[3] \ {u}>>
  /\ UNCHANGED <<phase, posts, eventQ, fanExited, worker, exited, row, calls, acked, crashes>>

\* Mutant: the loop over the recipients ends before the last of them.
FanDone_Early ==
  /\ fan # Idle /\ fan[2] = {}
  /\ fan' = Idle
  /\ UNCHANGED <<phase, posts, eventQ, fanExited, deliveryQ, worker, exited, row, calls, acked,
                 lost, crashes>>

FanDone ==
  /\ fan # Idle /\ fan[2] = {} /\ fan[3] = {}
  /\ fan' = Idle
  /\ UNCHANGED <<phase, posts, eventQ, fanExited, deliveryQ, worker, exited, row, calls, acked,
                 lost, crashes>>

\* Mutant: the worker returns on stop without draining.
Drained_Never(q) == TRUE

\* The drain loops end when they find their queue empty.
Drained(q) == q = <<>>

\* runFanout returns after drainEvents.
FanExit ==
  /\ Stopped /\ ~fanExited /\ fan = Idle /\ Drained(eventQ)
  /\ fanExited' = TRUE
  /\ UNCHANGED <<phase, posts, eventQ, fan, deliveryQ, worker, exited, row, calls, acked, lost, crashes>>

-----------------------------------------------------------------------------
(* The delivery workers.                                                   *)

Take(w) ==
  /\ Running /\ w \notin exited /\ worker[w] = Idle /\ deliveryQ # <<>>
  /\ worker' = [worker EXCEPT ![w] = <<Head(deliveryQ), 0, "ready">>]
  /\ deliveryQ' = Tail(deliveryQ)
  /\ UNCHANGED <<phase, posts, eventQ, fan, fanExited, exited, row, calls, acked, lost, crashes>>

In(w, stages) == worker[w] # Idle /\ worker[w][3] \in stages

\* attempt: a POST leaves for the receiver, after the sleep if it is a retry.
\* With the context cancelled none does.
Attempt(w) ==
  /\ In(w, {"ready"}) /\ phase # "cancelled"
  /\ calls' = [calls EXCEPT ![worker[w][1]] = @ + 1]
  /\ worker' = [worker EXCEPT ![w][3] = "sent"]
  /\ UNCHANGED <<phase, posts, eventQ, fan, fanExited, deliveryQ, exited, row, acked, lost, crashes>>

\* The receiver answers, with a 2xx or with another status below 500.
Answer(w) ==
  /\ In(w, {"sent"})
  /\ \/ acked' = acked \cup {worker[w][1]} /\ worker' = [worker EXCEPT ![w][3] = "accepted"]
     \/ worker' = [worker EXCEPT ![w][3] = "refused"] /\ UNCHANGED acked
  /\ UNCHANGED <<phase, posts, eventQ, fan, fanExited, deliveryQ, exited, row, calls, lost, crashes>>

\* record: the row takes the new status, unless the database fails, which is
\* only logged.
Record(j, status) == row' = [row EXCEPT ![j] = status] \/ (DbFaults /\ UNCHANGED row)

\* Mutant: every answer below 500 is taken for a success.
Outcome_Any(w) == IF In(w, {"accepted", "refused"}) THEN "delivered" ELSE "failed"

\* What an answer that is final means for the row.
Outcome(w) == IF In(w, {"accepted"}) THEN "delivered" ELSE "failed"

\* Mutant: a refusal is recorded, but the loop goes on with the next retry.
Answered_NoBreak(w) ==
  /\ In(w, {"accepted", "refused"})
  /\ Record(worker[w][1], Outcome(w))
  /\ worker' = [worker EXCEPT ![w] = IF In(w, {"accepted"}) \/ @[2] >= MaxRetries THEN Idle
                                     ELSE <<@[1], @[2] + 1, "ready">>]
  /\ UNCHANGED <<phase, posts, eventQ, fan, fanExited, deliveryQ, exited, calls, acked, lost, crashes>>

\* The answer has arrived: a 2xx or a refusal ends the delivery.
Answered(w) ==
  /\ In(w, {"accepted", "refused"})
  /\ Record(worker[w][1], Outcome(w))
  /\ worker' = [worker EXCEPT ![w] = Idle]
  /\ UNCHANGED <<phase, posts, eventQ, fan, fanExited, deliveryQ, exited, calls, acked, lost, crashes>>

\* Mutant: one retry too many.
Exhausted_OffByOne(n) == n > MaxRetries

\* No attempt is left after n+1 of them.
Exhausted(n) == n >= MaxRetries

\* A 5xx, or a transport failure, which may also lose an answer on its way or
\* be the cancelled context: recorded as pending and retried, or, after the last
\* attempt, recorded as failed.
Unanswered(w) ==
  /\ \/ In(w, {"sent", "accepted", "refused"})
     \/ In(w, {"ready"}) /\ phase = "cancelled"
  /\ LET j == worker[w][1] n == worker[w][2] IN
     \/ ~Exhausted(n) /\ Record(j, "pending") /\ worker' = [worker EXCEPT ![w] = <<j, n + 1, "ready">>]
     \/ Exhausted(n) /\ Record(j, "failed") /\ worker' = [worker EXCEPT ![w] = Idle]
  /\ lost' = IF In(w, {"ready"}) THEN lost \cup {worker[w][1]} ELSE lost
  /\ UNCHANGED <<phase, posts, eventQ, fan, fanExited, deliveryQ, exited, calls, acked, crashes>>

\* The sleep before a retry is interrupted, by the cancelled context or by the
\* time limit of the delivery: recorded as failed.
Interrupted(w) ==
  /\ In(w, {"ready"}) /\ worker[w][2] > 0
  /\ Record(worker[w][1], "failed")
  /\ worker' = [worker EXCEPT ![w] = Idle]
  /\ UNCHANGED <<phase, posts, eventQ, fan, fanExited, deliveryQ, exited, calls, acked, lost, crashes>>

\* runDelivery returns after drainDeliveries.
WorkerExit(w) ==
  /\ Stopped /\ w \notin exited /\ worker[w] = Idle /\ Drained(deliveryQ)
  /\ exited' = exited \cup {w}
  /\ UNCHANGED <<phase, posts, eventQ, fan, fanExited, deliveryQ, worker, row, calls, acked,
                 lost, crashes>>

-----------------------------------------------------------------------------
(* Close, crash and restart.                                               *)

AllExited == fanExited /\ exited = Workers

\* e.Shutdown has returned, so no handler is left that could enqueue.
Close ==
  /\ phase = "up"
  /\ phase' = "closing"
  /\ UNCHANGED <<posts, memory, row, calls, acked, lost, crashes>>

\* What the process held in memory is gone with it.
Die ==
  /\ phase' = "down"
  /\ eventQ' = <<>> /\ deliveryQ' = <<>> /\ fan' = Idle /\ fanExited' = FALSE
  /\ worker' = [w \in Workers |-> Idle] /\ exited' = {}
  /\ lost' = lost \cup InHand
  /\ UNCHANGED <<posts, row, calls, acked>>

CloseDone == Stopped /\ AllExited /\ Die /\ UNCHANGED crashes

\* The first wait times out: the context is cancelled.
CloseTimeout ==
  /\ phase = "closing"
  /\ phase' = "cancelled"
  /\ UNCHANGED <<posts, memory, row, calls, acked, lost, crashes>>

\* Mutant: the second wait is not bounded.
CloseGiveUp_Never == FALSE

\* The second wait times out.
CloseGiveUp == phase = "cancelled" /\ Die /\ UNCHANGED crashes

\* The process is killed, or e.Shutdown fails and the logger's Fatal exits.
Crash == Running /\ crashes < MaxCrashes /\ Die /\ crashes' = crashes + 1

Restart ==
  /\ phase = "down"
  /\ phase' = "up"
  /\ UNCHANGED <<posts, memory, row, calls, acked, lost, crashes>>

-----------------------------------------------------------------------------
Deliver(w) ==
  \/ Take(w) \/ Attempt(w) \/ Answer(w) \/ Answered(w)
  \/ Unanswered(w) \/ Interrupted(w) \/ WorkerExit(w)

Next ==
  \/ \E e \in Events : Enqueue(e)
  \/ \E us \in SUBSET Users : FanTake(us)
  \/ \E u \in Users : FanCreate(u) \/ FanPush(u)
  \/ FanAbort \/ FanDone \/ FanExit
  \/ \E w \in Workers : Deliver(w)
  \/ Close \/ CloseDone \/ CloseTimeout \/ CloseGiveUp \/ Crash \/ Restart

Spec == Init /\ [][Next]_vars

\* Only the two timeouts of Close are owed: receivers, the database and with
\* them the workers may hang.
CloseSpec == Spec /\ WF_vars(CloseTimeout) /\ WF_vars(CloseGiveUp)

-----------------------------------------------------------------------------
(* Properties.                                                             *)

\* However often an event is posted, and across crashes and restarts, a user
\* gets at most one delivery for it: at most MaxRetries + 1 requests in all.
CallsBounded == \A j \in Jobs : calls[j] <= MaxRetries + 1

\* However often an event is posted, a job is in hand at most once: never about
\* to be queued, queued and worked on, queued twice or with two workers.
OneDelivery ==
  /\ \A k, l \in DOMAIN deliveryQ : deliveryQ[k] = deliveryQ[l] => k = l
  /\ \A v, w \in Workers : worker[v] # Idle /\ worker[w] # Idle /\ worker[v][1] = worker[w][1] => v = w
  /\ FannedOut \cap Queued = {} /\ FannedOut \cap WorkedOn = {} /\ Queued \cap WorkedOn = {}

\* The promise, of the same table, calls and acceptances.
Promise == INSTANCE WebhookDelivery WITH MaxCalls <- MaxRetries + 1

\* However often an event is posted, and across failures, crashes and restarts,
\* a delivery is the one state machine of WebhookDelivery: no replay, retry or
\* restart calls again once its row is final, takes a final row back, or claims
\* what was not accepted (Deliverer.Deliver and the unique key of deliveries).
DeliversAsPromised == Promise!Spec

\* A row says delivered only if the receiver did accept a call, whatever was
\* retried, refused or lost on the way.
RowsTellTruth == \A j \in Jobs : row[j] = "delivered" => j \in acked

\* Close leaves no accepted event behind: when the workers have returned, every
\* event answered with a 202 has had its fan-out.
EventsDrained == AllExited => eventQ = <<>> /\ fan = Idle

\* Close returns, even if every worker hangs.
CloseReturns == phase = "closing" ~> phase = "down"

\* No delivery is forgotten: a row that is pending has had a call, or is in
\* hand, or fell to one of the four losses the code has - a database that fails
\* the fan-out, a full queue, a context that was cancelled before the first
\* attempt, and the end of the process.
PendingAccounted ==
  \A j \in Jobs : row[j] = "pending" => calls[j] > 0 \/ j \in InHand \cup lost

\* The invariant of deliveries: the state is well formed, one delivery per event
\* and user is in hand at a time, and it makes at most 1 + MaxRetries calls.
DeliveryInv == TypeOK /\ OneDelivery /\ CallsBounded

\* The rows in notification_deliveries tell what happened: delivered is never
\* claimed of a call that was not accepted, and pending is never forgotten.
RowsAccounted == RowsTellTruth /\ PendingAccounted

=============================================================================
