------------------------- MODULE Notification_proofs -------------------------
(***************************************************************************)
(* Theorems about Notification: a user gets at most one delivery of an     *)
(* event, the table tells what happened to it, and Close leaves no event   *)
(* behind, for any number of events, users and workers, any capacities and *)
(* any number of retries, postings and crashes.                            *)
(***************************************************************************)
EXTENDS Notification, SequenceTheorems, TLAPS

-----------------------------------------------------------------------------
(* The inductive invariant.                                                *)

Tasks == Jobs \X Nat \X Stages

FanType    == fan = Idle \/ fan \in Events \X (SUBSET Users) \X (SUBSET Users)
WorkerType == worker \in [Workers -> Tasks \cup {Idle}]
TableType  == /\ row \in [Jobs -> {"none", "pending", "delivered", "failed"}]
              /\ calls \in [Jobs -> Nat]
              /\ acked \in SUBSET Jobs /\ lost \in SUBSET Jobs
QueueType  == deliveryQ \in Seq(Jobs) /\ Len(deliveryQ) <= DeliveryCap

\* Where a job is in hand.
AtFan(j)       == fan # Idle /\ \E u \in fan[3] : j = <<fan[1], u>>
AtQueue(j)     == \E k \in DOMAIN deliveryQ : deliveryQ[k] = j
AtWorker(j, w) == worker[w] # Idle /\ worker[w][1] = j

\* A job is in one hand at a time, its row is pending meanwhile, and no call is
\* made for it before a worker has it.
HandInv ==
  \A j \in Jobs :
    /\ AtFan(j) => row[j] = "pending" /\ calls[j] = 0 /\ ~AtQueue(j)
    /\ AtQueue(j) => row[j] = "pending" /\ calls[j] = 0
    /\ row[j] = "none" => calls[j] = 0
    /\ \A w \in Workers : AtWorker(j, w) =>
         /\ row[j] = "pending" /\ ~AtFan(j) /\ ~AtQueue(j)
         /\ \A v \in Workers : AtWorker(j, v) => v = w

QueueDistinct == \A k, l \in DOMAIN deliveryQ : deliveryQ[k] = deliveryQ[l] => k = l

\* What is known of a job j of which n attempts have failed.
TaskOK(j, n, s) ==
  /\ n <= MaxRetries
  /\ s = "ready" => calls[j] <= n
  /\ s # "ready" => calls[j] <= n + 1 /\ calls[j] > 0
  /\ s = "ready" /\ n > 0 => calls[j] > 0 \/ j \in lost
  /\ s = "accepted" => j \in acked

TaskInv ==
  \A w \in Workers, j \in Jobs, n \in Nat, s \in Stages :
    worker[w] = <<j, n, s>> => TaskOK(j, n, s)

TableInv ==
  \A j \in Jobs :
    /\ calls[j] <= MaxRetries + 1
    /\ row[j] = "delivered" => j \in acked
    /\ row[j] = "pending" =>
         calls[j] > 0 \/ j \in lost \/ AtFan(j) \/ AtQueue(j) \/ \E w \in Workers : AtWorker(j, w)

Deliveries ==
  /\ FanType /\ WorkerType /\ TableType /\ QueueType
  /\ HandInv /\ QueueDistinct /\ TaskInv /\ TableInv

ControlType ==
  /\ phase \in {"up", "closing", "cancelled", "down"}
  /\ posts \in [Events -> 0..MaxPosts]
  /\ eventQ \in Seq(Events) /\ Len(eventQ) <= EventCap
  /\ fanExited \in BOOLEAN
  /\ exited \in SUBSET Workers
  /\ crashes \in 0..MaxCrashes

\* The fan-out has returned only after the end of accepting, with nothing left.
ExitInv == fanExited => eventQ = <<>> /\ fan = Idle /\ phase \in {"closing", "cancelled"}

IInv == Deliveries /\ ControlType /\ ExitInv

USE NotificationAssumption

-----------------------------------------------------------------------------
(* Facts about tasks and the places of a job.                              *)

\* A worker is idle or has a task, which is a triple.
LEMMA TaskParts ==
  ASSUME WorkerType, NEW w \in Workers, worker[w] # Idle
  PROVE  \E j \in Jobs, n \in Nat, s \in Stages :
           worker[w] = <<j, n, s>> /\ worker[w][1] = j /\ worker[w][2] = n /\ worker[w][3] = s
<1>1. worker[w] \in Tasks
  BY DEF WorkerType
<1> DEFINE j == worker[w][1]
           n == worker[w][2]
           s == worker[w][3]
<1>2. worker[w] = <<j, n, s>> /\ j \in Jobs /\ n \in Nat /\ s \in Stages
  BY <1>1 DEF Tasks
<1> QED
  BY <1>2

\* A triple is not Idle.
LEMMA TaskNotIdle == \A a, b, c : <<a, b, c>> # Idle
BY DEF Idle

\* The sets of the properties are the places above.
LEMMA Places ==
  /\ \A j : j \in FannedOut <=> AtFan(j)
  /\ \A j : j \in Queued <=> AtQueue(j)
  /\ \A j : j \in WorkedOn <=> \E w \in Workers : AtWorker(j, w)
<1>1. \A j : j \in FannedOut <=> AtFan(j)
  BY DEF FannedOut, AtFan
<1>2. \A j : j \in Queued <=> AtQueue(j)
  BY DEF Queued, AtQueue
<1>3. \A j : j \in WorkedOn <=> \E w \in Workers : AtWorker(j, w)
  BY DEF WorkedOn, AtWorker
<1> QED
  BY <1>1, <1>2, <1>3

\* The invariant gives what the run checks.
LEMMA InvImplies == IInv => DeliveryInv /\ RowsAccounted /\ EventsDrained
<1> SUFFICES ASSUME IInv PROVE DeliveryInv /\ RowsAccounted /\ EventsDrained
  OBVIOUS
<1>1. \A w \in Workers : worker[w] = Idle \/ worker[w] \in Jobs \X Nat \X Stages
  BY DEF IInv, Deliveries, WorkerType, Tasks
<1>2. TypeOK
  BY <1>1 DEF IInv, Deliveries, FanType, TableType, QueueType, ControlType, TypeOK
<1>3. \A j \in FannedOut : j \in Jobs
  BY DEF IInv, Deliveries, FanType, FannedOut, Jobs
<1>4. \A j \in Queued : j \in Jobs
  BY DEF IInv, Deliveries, QueueType, Queued
<1>5. \A j \in WorkedOn : j \in Jobs
  BY <1>1 DEF WorkedOn
<1>6. FannedOut \cap Queued = {} /\ FannedOut \cap WorkedOn = {} /\ Queued \cap WorkedOn = {}
  BY <1>3, <1>4, Places DEF IInv, Deliveries, HandInv
<1>7. \A v, w \in Workers :
        worker[v] # Idle /\ worker[w] # Idle /\ worker[v][1] = worker[w][1] => v = w
  BY <1>5, Places DEF IInv, Deliveries, HandInv, AtWorker
<1>8. OneDelivery
  BY <1>6, <1>7 DEF IInv, Deliveries, QueueDistinct, OneDelivery
<1>9. CallsBounded /\ RowsTellTruth
  BY DEF IInv, Deliveries, TableInv, CallsBounded, RowsTellTruth
<1>10. PendingAccounted
  BY Places DEF IInv, Deliveries, TableInv, PendingAccounted, InHand
<1>11. EventsDrained
  BY DEF IInv, ExitInv, EventsDrained, AllExited
<1> QED
  BY <1>2, <1>8, <1>9, <1>10, <1>11 DEF DeliveryInv, RowsAccounted

\* Nothing was accepted yet.
LEMMA InvInit == Init => IInv
<1> SUFFICES ASSUME Init PROVE IInv
  OBVIOUS
<1> USE DEF Init, MemoryInit
<1>1. FanType /\ WorkerType /\ QueueType
  BY DEF FanType, WorkerType, QueueType
<1>2. TableType
  BY DEF TableType
<1>3. \A j : ~AtFan(j) /\ ~AtQueue(j) /\ \A w \in Workers : ~AtWorker(j, w)
  BY DEF AtFan, AtQueue, AtWorker
<1>4. HandInv
  BY <1>3 DEF HandInv
<1>5. QueueDistinct
  BY DEF QueueDistinct
<1>6. TaskInv
  BY TaskNotIdle DEF TaskInv
<1>7. TableInv
  BY DEF TableInv
<1>8. ControlType
  <2>1. posts \in [Events -> 0..MaxPosts] /\ crashes \in 0..MaxCrashes
    OBVIOUS
  <2>2. eventQ \in Seq(Events) /\ Len(eventQ) <= EventCap
    OBVIOUS
  <2>3. fanExited \in BOOLEAN
    OBVIOUS
  <2> QED
    BY <2>1, <2>2, <2>3 DEF ControlType
<1>9. ExitInv
  BY DEF ExitInv
<1> QED
  BY <1>1, <1>2, <1>4, <1>5, <1>6, <1>7, <1>8, <1>9 DEF IInv, Deliveries

-----------------------------------------------------------------------------
(* Steps.                                                                  *)

deliveryVars == <<fan, row, deliveryQ, worker, calls, acked, lost>>

\* A step that leaves all this alone.
LEMMA SameDeliveries ==
  ASSUME Deliveries, UNCHANGED deliveryVars PROVE Deliveries'
<1> USE DEF deliveryVars, Deliveries
<1>1. FanType' /\ WorkerType' /\ TableType' /\ QueueType'
  BY DEF FanType, WorkerType, TableType, QueueType
<1>2. \A j : /\ AtFan(j)' <=> AtFan(j)
             /\ AtQueue(j)' <=> AtQueue(j)
             /\ \A w \in Workers : AtWorker(j, w)' <=> AtWorker(j, w)
  BY DEF AtFan, AtQueue, AtWorker
<1>3. HandInv'
  BY <1>2 DEF HandInv
<1>4. QueueDistinct'
  BY DEF QueueDistinct
<1>5. TaskInv'
  BY DEF TaskInv, TaskOK
<1>6. TableInv'
  BY <1>2 DEF TableInv
<1> QED
  BY <1>1, <1>3, <1>4, <1>5, <1>6

\* The fan-out changes what it has in hand: it takes an event, records or skips
\* a user, or ends.  What it drops is counted as lost.
LEMMA FanStep ==
  ASSUME Deliveries, FanType', TableType',
         UNCHANGED <<deliveryQ, worker, calls, acked>>, lost \subseteq lost',
         \A j \in Jobs : row'[j] # row[j] => row[j] = "none" /\ row'[j] = "pending",
         \A j \in Jobs : row'[j] # row[j] => AtFan(j)' \/ j \in lost',
         \A j \in Jobs : AtFan(j) => AtFan(j)' \/ j \in lost',
         \A j \in Jobs : AtFan(j)' => AtFan(j) \/ row'[j] # row[j]
  PROVE  Deliveries'
<1> USE DEF Deliveries
<1>1. WorkerType' /\ QueueType'
  BY DEF WorkerType, QueueType
<1>2. \A j : /\ AtQueue(j)' <=> AtQueue(j)
             /\ \A w \in Workers : AtWorker(j, w)' <=> AtWorker(j, w)
  BY DEF AtQueue, AtWorker
<1>3. HandInv'
  BY <1>2 DEF HandInv
<1>4. QueueDistinct'
  BY DEF QueueDistinct
<1>5. TaskInv'
  BY DEF TaskInv, TaskOK
<1>6. TableInv'
  <2> SUFFICES ASSUME NEW j \in Jobs
               PROVE  /\ calls'[j] <= MaxRetries + 1
                      /\ row'[j] = "delivered" => j \in acked'
                      /\ row'[j] = "pending" =>
                           \/ calls'[j] > 0 \/ j \in lost' \/ AtFan(j)' \/ AtQueue(j)'
                           \/ \E w \in Workers : AtWorker(j, w)'
    BY DEF TableInv
  <2>1. CASE row'[j] # row[j]
    BY <2>1 DEF TableInv
  <2>2. CASE row'[j] = row[j]
    BY <2>2, <1>2 DEF TableInv
  <2> QED
    BY <2>1, <2>2
<1> QED
  BY <1>1, <1>3, <1>4, <1>5, <1>6

\* FanTake.
LEMMA InvFanTake == ASSUME IInv, NEW us \in SUBSET Users, FanTake(us) PROVE Deliveries'
<1>1. eventQ # <<>> /\ fan = Idle /\ fan' = <<Head(eventQ), us, {}>>
  BY DEF FanTake
<1>2. Head(eventQ) \in Events
  BY <1>1 DEF IInv, ControlType
<1>3. FanType'
  BY <1>1, <1>2 DEF FanType
<1>4. \A j : ~AtFan(j) /\ ~AtFan(j)'
  BY <1>1 DEF AtFan
<1>5. UNCHANGED <<deliveryQ, worker, calls, acked, lost, row>>
  BY DEF FanTake
<1>6. TableType'
  BY <1>5 DEF IInv, Deliveries, TableType
<1> QED
  BY <1>3, <1>4, <1>5, <1>6, FanStep DEF IInv

\* A fan-out in progress is a triple.
LEMMA FanParts ==
  ASSUME FanType, fan # Idle
  PROVE  /\ fan = <<fan[1], fan[2], fan[3]>>
         /\ fan[1] \in Events /\ fan[2] \in SUBSET Users /\ fan[3] \in SUBSET Users
BY DEF FanType

\* FanCreate.
LEMMA InvFanCreate == ASSUME Deliveries, NEW u \in Users, FanCreate(u) PROVE Deliveries'
<1> DEFINE j == <<fan[1], u>>
<1>1. /\ fan # Idle /\ u \in fan[2] /\ UNCHANGED <<deliveryQ, worker, calls, acked, lost>>
      /\ \/ /\ row[j] = "none" /\ row' = [row EXCEPT ![j] = "pending"]
            /\ fan' = <<fan[1], fan[2] \ {u}, fan[3] \cup {u}>>
         \/ /\ row' = row
            /\ fan' = <<fan[1], fan[2] \ {u}, fan[3]>>
  BY DEF FanCreate, IsDuplicate
<1>2. /\ fan[1] \in Events /\ fan[2] \in SUBSET Users /\ fan[3] \in SUBSET Users
  BY <1>1, FanParts DEF Deliveries
<1>3. j \in Jobs
  BY <1>2 DEF Jobs
<1>4. FanType'
  BY <1>1, <1>2 DEF FanType
<1>5. CASE /\ row[j] = "none" /\ row' = [row EXCEPT ![j] = "pending"]
           /\ fan' = <<fan[1], fan[2] \ {u}, fan[3] \cup {u}>>
  <2>1. \A i : AtFan(i)' <=> AtFan(i) \/ i = j
    BY <1>1, <1>5, TaskNotIdle DEF AtFan
  <2> HIDE DEF j
  <2>2. TableType' /\ row'[j] = "pending" /\ \A i \in Jobs : i # j => row'[i] = row[i]
    BY <1>1, <1>3, <1>5 DEF Deliveries, TableType
  <2> QED
    BY <1>1, <1>4, <1>5, <2>1, <2>2, FanStep
<1>6. CASE row' = row /\ fan' = <<fan[1], fan[2] \ {u}, fan[3]>>
  <2>1. \A i : AtFan(i)' <=> AtFan(i)
    BY <1>1, <1>6, TaskNotIdle DEF AtFan
  <2>2. TableType'
    BY <1>1, <1>6 DEF Deliveries, TableType
  <2> QED
    BY <1>1, <1>4, <1>6, <2>1, <2>2, FanStep
<1> QED
  BY <1>1, <1>5, <1>6

\* FanAbort, with or without the commit of the insert that failed.
LEMMA InvFanAbort == ASSUME Deliveries, FanAbort PROVE Deliveries'
<1>1. fan # Idle /\ fan' = Idle /\ UNCHANGED <<deliveryQ, worker, calls, acked>>
  BY DEF FanAbort
<1>2. fan[1] \in Events /\ fan[2] \in SUBSET Users /\ fan[3] \in SUBSET Users
  BY <1>1, FanParts DEF Deliveries
<1>3. FanType' /\ \A i : ~AtFan(i)'
  BY <1>1 DEF FanType, AtFan
<1>4. FannedOut \subseteq Jobs
  BY <1>1, <1>2 DEF FannedOut, Jobs
<1>5. CASE lost' = lost \cup FannedOut /\ row' = row
  <2>1. TableType'
    BY <1>1, <1>4, <1>5 DEF Deliveries, TableType
  <2>2. \A j : AtFan(j) => j \in lost'
    BY <1>5, Places
  <2> QED
    BY <1>1, <1>3, <1>5, <2>1, <2>2, FanStep
<1>6. CASE \E u \in fan[2] : /\ row[<<fan[1], u>>] = "none"
                             /\ row' = [row EXCEPT ![<<fan[1], u>>] = "pending"]
                             /\ lost' = lost \cup FannedOut \cup {<<fan[1], u>>}
  <2>1. PICK u \in fan[2] : /\ row[<<fan[1], u>>] = "none"
                            /\ row' = [row EXCEPT ![<<fan[1], u>>] = "pending"]
                            /\ lost' = lost \cup FannedOut \cup {<<fan[1], u>>}
    BY <1>6
  <2> DEFINE j == <<fan[1], u>>
  <2>2. j \in Jobs
    BY <1>2 DEF Jobs
  <2>3. row[j] = "none" /\ row' = [row EXCEPT ![j] = "pending"] /\ lost' = lost \cup FannedOut \cup {j}
    BY <2>1
  <2> HIDE DEF j
  <2>4. TableType' /\ row'[j] = "pending" /\ \A i \in Jobs : i # j => row'[i] = row[i]
    BY <1>1, <1>4, <2>2, <2>3 DEF Deliveries, TableType
  <2>5. \A i : AtFan(i) => i \in lost'
    BY <2>3, Places
  <2> QED
    BY <1>1, <1>3, <2>2, <2>3, <2>4, <2>5, FanStep
<1> QED
  BY <1>5, <1>6 DEF FanAbort

\* FanDone: all recipients were queued or dropped.
LEMMA InvFanDone == ASSUME Deliveries, FanDone PROVE Deliveries'
<1>1. /\ fan # Idle /\ fan[3] = {} /\ fan' = Idle
      /\ UNCHANGED <<deliveryQ, worker, calls, acked, row, lost>>
  BY DEF FanDone
<1>2. FanType' /\ \A j : ~AtFan(j)' /\ ~AtFan(j)
  BY <1>1 DEF FanType, AtFan
<1>3. TableType'
  BY <1>1 DEF Deliveries, TableType
<1> QED
  BY <1>1, <1>2, <1>3, FanStep

\* FanPush: a recipient goes from the fan-out to the queue, or is dropped.
LEMMA InvFanPush == ASSUME Deliveries, NEW u \in Users, FanPush(u) PROVE Deliveries'
<1> DEFINE j == <<fan[1], u>>
<1>1. /\ fan # Idle /\ u \in fan[3] /\ fan' = <<fan[1], {}, fan[3] \ {u}>>
      /\ UNCHANGED <<worker, row, calls, acked>>
  BY DEF FanPush
<1>2. fan[1] \in Events /\ fan[3] \in SUBSET Users
  BY <1>1, FanParts DEF Deliveries
<1>3. j \in Jobs /\ AtFan(j) /\ FanType'
  BY <1>1, <1>2 DEF Jobs, AtFan, FanType
<1>4. \A i : AtFan(i)' <=> AtFan(i) /\ i # j
  BY <1>1, TaskNotIdle DEF AtFan
<1>5. CASE HasRoom(deliveryQ, DeliveryCap)
  <2>1. deliveryQ' = Append(deliveryQ, j) /\ lost' = lost /\ Len(deliveryQ) < DeliveryCap
    BY <1>5 DEF FanPush, HasRoom
  <2> HIDE DEF j
  <2>2. QueueType'
    BY <1>3, <2>1 DEF Deliveries, QueueType
  <2>3. /\ DOMAIN deliveryQ = 1..Len(deliveryQ) /\ DOMAIN deliveryQ' = 1..(Len(deliveryQ) + 1)
        /\ Len(deliveryQ) \in Nat
        /\ deliveryQ'[Len(deliveryQ) + 1] = j
        /\ \A k \in 1..Len(deliveryQ) : deliveryQ'[k] = deliveryQ[k]
    BY <1>3, <2>1 DEF Deliveries, QueueType
  <2>4. \A i : AtQueue(i)' <=> AtQueue(i) \/ i = j
    BY <2>3 DEF AtQueue
  <2>5. ~AtQueue(j) /\ \A w \in Workers : ~AtWorker(j, w)
    BY <1>3 DEF Deliveries, HandInv
  <2>6. QueueDistinct'
    BY <2>3, <2>5 DEF Deliveries, QueueDistinct, AtQueue
  <2>7. WorkerType' /\ TableType'
    BY <1>1, <2>1 DEF Deliveries, WorkerType, TableType
  <2>8. \A i, w : AtWorker(i, w)' <=> AtWorker(i, w)
    BY <1>1 DEF AtWorker
  <2>9. HandInv'
    BY <1>1, <1>3, <1>4, <2>4, <2>5, <2>8 DEF Deliveries, HandInv
  <2>10. TaskInv'
    BY <1>1, <2>1 DEF Deliveries, TaskInv, TaskOK
  <2>11. TableInv'
    BY <1>1, <1>3, <1>4, <2>1, <2>4, <2>8 DEF Deliveries, TableInv
  <2> QED
    BY <1>3, <2>2, <2>6, <2>7, <2>9, <2>10, <2>11 DEF Deliveries
<1>6. CASE ~HasRoom(deliveryQ, DeliveryCap)
  <2>1. lost' = lost \cup {j} /\ deliveryQ' = deliveryQ
    BY <1>6 DEF FanPush
  <2> HIDE DEF j
  <2>2. TableType'
    BY <1>1, <1>3, <2>1 DEF Deliveries, TableType
  <2> QED
    BY <1>1, <1>3, <1>4, <2>1, <2>2, FanStep
<1> QED
  BY <1>5, <1>6

\* Take: the head of the queue goes to an idle worker.
LEMMA InvTake == ASSUME Deliveries, NEW w \in Workers, Take(w) PROVE Deliveries'
<1>0. deliveryQ # <<>> /\ Head(deliveryQ) \in Jobs
  BY DEF Take, Deliveries, QueueType
<1>j. PICK j \in Jobs : j = Head(deliveryQ)
  BY <1>0
<1>1. /\ worker[w] = Idle /\ deliveryQ # <<>> /\ deliveryQ' = Tail(deliveryQ)
      /\ worker' = [worker EXCEPT ![w] = <<j, 0, "ready">>]
      /\ UNCHANGED <<fan, row, calls, acked, lost>>
  BY <1>j DEF Take
<1>2. j \in Jobs /\ Len(deliveryQ) > 0 /\ deliveryQ[1] = j /\ Len(deliveryQ) \in Nat
  BY <1>1, <1>j DEF Deliveries, QueueType
<1>3. QueueType'
  BY <1>1, <1>2 DEF Deliveries, QueueType
<1>4. /\ DOMAIN deliveryQ = 1..Len(deliveryQ) /\ DOMAIN deliveryQ' = 1..(Len(deliveryQ) - 1)
      /\ \A k \in 1..(Len(deliveryQ) - 1) : deliveryQ'[k] = deliveryQ[k + 1]
  BY <1>1, <1>2 DEF Deliveries, QueueType
<1>5. QueueDistinct' /\ ~AtQueue(j)'
  <2>1. QueueDistinct'
    BY <1>2, <1>4 DEF Deliveries, QueueDistinct
  <2>2. \A k \in 1..(Len(deliveryQ) - 1) : deliveryQ[k + 1] # deliveryQ[1]
    BY <1>2, <1>4 DEF Deliveries, QueueDistinct
  <2> QED
    BY <1>2, <1>4, <2>1, <2>2 DEF AtQueue
<1>6. \A i : AtQueue(i) <=> AtQueue(i)' \/ i = j
  <2>1. ASSUME NEW i, AtQueue(i), i # j PROVE AtQueue(i)'
    <3>1. PICK k \in 1..Len(deliveryQ) : deliveryQ[k] = i
      BY <1>4, <2>1 DEF AtQueue
    <3>2. k # 1 /\ k - 1 \in 1..(Len(deliveryQ) - 1)
      BY <1>2, <2>1, <3>1
    <3>3. deliveryQ'[k - 1] = i
      BY <1>4, <3>1, <3>2
    <3> QED
      BY <1>4, <3>2, <3>3 DEF AtQueue
  <2>2. ASSUME NEW i, AtQueue(i)' PROVE AtQueue(i)
    BY <1>2, <1>4, <2>2 DEF AtQueue
  <2>3. AtQueue(j)
    BY <1>2, <1>4 DEF AtQueue
  <2> QED
    BY <2>1, <2>2, <2>3
<1>7. <<j, 0, "ready">> \in Tasks
  BY <1>2 DEF Tasks, Stages
<1>8. /\ WorkerType' /\ worker'[w] = <<j, 0, "ready">>
      /\ \A v \in Workers : v # w => worker'[v] = worker[v]
  BY <1>1, <1>7 DEF Deliveries, WorkerType
<1>9. \A i : /\ AtWorker(i, w)' <=> i = j
             /\ ~AtWorker(i, w)
             /\ \A v \in Workers : v # w => (AtWorker(i, v)' <=> AtWorker(i, v))
  BY <1>1, <1>8, TaskNotIdle DEF AtWorker
<1>10. \A i : AtFan(i)' <=> AtFan(i)
  BY <1>1 DEF AtFan
<1>11. FanType' /\ TableType'
  BY <1>1 DEF Deliveries, FanType, TableType
<1>12. AtQueue(j)
  BY <1>6
<1>13. HandInv'
  BY <1>1, <1>2, <1>5, <1>6, <1>9, <1>10, <1>12 DEF Deliveries, HandInv
<1>14. TaskOK(j, 0, "ready")'
  BY <1>1, <1>2, <1>12 DEF Deliveries, HandInv, TaskOK, TableType
<1>15. TaskInv'
  <2> SUFFICES ASSUME NEW v \in Workers, NEW i \in Jobs, NEW n \in Nat, NEW s \in Stages,
                      worker'[v] = <<i, n, s>>
               PROVE  TaskOK(i, n, s)'
    BY DEF TaskInv
  <2>1. CASE v = w
    <3>1. i = j /\ n = 0 /\ s = "ready"
      BY <1>8, <2>1
    <3> QED
      BY <1>14, <3>1
  <2>2. CASE v # w
    BY <1>1, <1>8, <2>2 DEF Deliveries, TaskInv, TaskOK
  <2> QED
    BY <2>1, <2>2
<1>16. TableInv'
  BY <1>1, <1>6, <1>9, <1>10 DEF Deliveries, TableInv
<1> QED
  BY <1>3, <1>5, <1>8, <1>11, <1>13, <1>15, <1>16 DEF Deliveries

\* A worker goes on with the same job.
GoesOn(w, j, m, t) ==
  /\ worker' = [worker EXCEPT ![w] = <<j, m, t>>]
  /\ UNCHANGED <<fan, row, deliveryQ>> /\ TableType'
  /\ acked \subseteq acked' /\ lost \subseteq lost'
  /\ \A i \in Jobs : i # j => calls'[i] = calls[i]
  /\ calls'[j] >= calls[j] /\ calls'[j] <= MaxRetries + 1
  /\ TaskOK(j, m, t)'

\* An attempt, an answer or a retry.
LEMMA StayStep ==
  ASSUME Deliveries, NEW w \in Workers, NEW j \in Jobs, AtWorker(j, w),
         NEW m \in Nat, NEW t \in Stages, GoesOn(w, j, m, t)
  PROVE  Deliveries'
<1> USE DEF Deliveries, GoesOn
<1>1. <<j, m, t>> \in Tasks
  BY DEF Tasks
<1>2. /\ WorkerType' /\ worker'[w] = <<j, m, t>>
      /\ \A v \in Workers : v # w => worker'[v] = worker[v]
  BY <1>1 DEF WorkerType
<1>3. \A i : \A v \in Workers : AtWorker(i, v)' <=> AtWorker(i, v)
  BY <1>2, TaskNotIdle DEF AtWorker
<1>4. \A i : (AtFan(i)' <=> AtFan(i)) /\ (AtQueue(i)' <=> AtQueue(i))
  BY DEF AtFan, AtQueue
<1>6. row[j] = "pending" /\ ~AtFan(j) /\ ~AtQueue(j) /\ \A v \in Workers : AtWorker(j, v) => v = w
  BY DEF HandInv
<1>7. HandInv'
  BY <1>3, <1>4, <1>6 DEF HandInv
<1>8. TaskInv'
  <2> SUFFICES ASSUME NEW v \in Workers, NEW i \in Jobs, NEW k \in Nat, NEW x \in Stages,
                      worker'[v] = <<i, k, x>>
               PROVE  TaskOK(i, k, x)'
    BY DEF TaskInv
  <2>1. CASE v = w
    <3>1. i = j /\ k = m /\ x = t
      BY <1>2, <2>1
    <3> QED
      BY <3>1
  <2>2. CASE v # w
    <3>1. worker[v] = <<i, k, x>> /\ AtWorker(i, v)
      BY <1>2, <2>2, TaskNotIdle DEF AtWorker
    <3>2. i # j
      BY <1>6, <2>2, <3>1
    <3>3. calls'[i] = calls[i] /\ TaskOK(i, k, x)
      BY <3>1, <3>2 DEF TaskInv
    <3> QED
      BY <3>3 DEF TaskOK
  <2> QED
    BY <2>1, <2>2
<1>9. TableInv'
  BY <1>3, <1>4, <1>6 DEF TableInv
<1>10. FanType' /\ QueueType' /\ QueueDistinct'
  BY DEF FanType, QueueType, QueueDistinct
<1> QED
  BY <1>2, <1>7, <1>8, <1>9, <1>10

\* A worker is done with its job: the row is final, or stays as it is with a
\* call to account for it or counted as lost.
LEMMA EndStep ==
  ASSUME Deliveries, NEW w \in Workers, NEW j \in Jobs, NEW n \in Nat, NEW s \in Stages,
         worker[w] = <<j, n, s>>, worker' = [worker EXCEPT ![w] = Idle],
         UNCHANGED <<fan, deliveryQ, calls, acked>>, TableType', lost \subseteq lost',
         \A i \in Jobs : i # j => row'[i] = row[i],
         \/ row'[j] = "delivered" /\ j \in acked
         \/ row'[j] = "failed"
         \/ row'[j] = row[j] /\ (calls[j] > 0 \/ j \in lost')
  PROVE  Deliveries'
<1> USE DEF Deliveries
<1>2. /\ WorkerType' /\ worker'[w] = Idle
      /\ \A v \in Workers : v # w => worker'[v] = worker[v]
  BY DEF WorkerType
<1>3. \A i : /\ ~AtWorker(i, w)'
             /\ \A v \in Workers : v # w => (AtWorker(i, v)' <=> AtWorker(i, v))
  BY <1>2 DEF AtWorker
<1>4. \A i : (AtFan(i)' <=> AtFan(i)) /\ (AtQueue(i)' <=> AtQueue(i))
  BY DEF AtFan, AtQueue
<1>5. AtWorker(j, w) /\ \A i : AtWorker(i, w) => i = j
  BY TaskNotIdle DEF AtWorker
<1>6. row[j] = "pending" /\ ~AtFan(j) /\ ~AtQueue(j) /\ \A v \in Workers : AtWorker(j, v) => v = w
  BY <1>5 DEF HandInv
<1>7. HandInv'
  BY <1>3, <1>4, <1>6 DEF HandInv
<1>8. TaskInv'
  <2> SUFFICES ASSUME NEW v \in Workers, NEW i \in Jobs, NEW k \in Nat, NEW x \in Stages,
                      worker'[v] = <<i, k, x>>
               PROVE  TaskOK(i, k, x)'
    BY DEF TaskInv
  <2>1. v # w /\ worker[v] = <<i, k, x>>
    BY <1>2, TaskNotIdle
  <2>2. TaskOK(i, k, x)
    BY <2>1 DEF TaskInv
  <2> QED
    BY <2>2 DEF TaskOK
<1>9. TableInv'
  <2> SUFFICES ASSUME NEW i \in Jobs
               PROVE  /\ calls'[i] <= MaxRetries + 1
                      /\ row'[i] = "delivered" => i \in acked'
                      /\ row'[i] = "pending" =>
                           \/ calls'[i] > 0 \/ i \in lost' \/ AtFan(i)' \/ AtQueue(i)'
                           \/ \E v \in Workers : AtWorker(i, v)'
    BY DEF TableInv
  <2>1. CASE i = j
    BY <2>1, <1>6 DEF TableInv
  <2>2. CASE i # j
    BY <2>2, <1>3, <1>4, <1>5 DEF TableInv
  <2> QED
    BY <2>1, <2>2
<1>10. FanType' /\ QueueType' /\ QueueDistinct'
  BY DEF FanType, QueueType, QueueDistinct
<1> QED
  BY <1>2, <1>7, <1>8, <1>9, <1>10

\* What record does to the table.
LEMMA RecordStep ==
  ASSUME TableType, NEW j \in Jobs, NEW status \in {"pending", "delivered", "failed"},
         Record(j, status)
  PROVE  /\ row' \in [Jobs -> {"none", "pending", "delivered", "failed"}]
         /\ row'[j] \in {status, row[j]}
         /\ \A i \in Jobs : i # j => row'[i] = row[i]
BY DEF TableType, Record

\* Setting the stage of a task.
LEMMA SetStage == \A j, n, s, t : [<<j, n, s>> EXCEPT ![3] = t] = <<j, n, t>>
OBVIOUS

\* Attempt.
LEMMA InvAttempt == ASSUME Deliveries, NEW w \in Workers, Attempt(w) PROVE Deliveries'
<1>1. worker[w] # Idle /\ worker[w][3] = "ready"
  BY DEF Attempt, In
<1>2. PICK j \in Jobs, n \in Nat, s \in Stages :
         worker[w] = <<j, n, s>> /\ worker[w][1] = j /\ worker[w][2] = n /\ worker[w][3] = s
  BY <1>1, TaskParts DEF Deliveries
<1>s. s = "ready"
  BY <1>1, <1>2
<1>t. PICK t \in Stages : t = "sent"
  BY DEF Stages
<1>3. /\ calls' = [calls EXCEPT ![j] = @ + 1]
      /\ worker' = [worker EXCEPT ![w][3] = "sent"]
      /\ UNCHANGED <<fan, row, deliveryQ, acked, lost>>
  BY <1>2 DEF Attempt
<1>4. worker' = [worker EXCEPT ![w] = <<j, n, t>>]
  <2>1. worker' = [worker EXCEPT ![w] = [worker[w] EXCEPT ![3] = t]]
    BY <1>3, <1>t
  <2>2. [worker[w] EXCEPT ![3] = t] = <<j, n, t>>
    BY <1>2, SetStage
  <2> QED
    BY <2>1, <2>2
<1>5. TaskOK(j, n, "ready")
  BY <1>2, <1>s DEF Deliveries, TaskInv
<1>6. /\ TableType' /\ calls'[j] = calls[j] + 1 /\ calls[j] \in Nat
      /\ \A i \in Jobs : i # j => calls'[i] = calls[i]
  BY <1>3 DEF Deliveries, TableType
<1>7. TaskOK(j, n, t)' /\ calls'[j] <= MaxRetries + 1
  BY <1>5, <1>6, <1>t DEF TaskOK
<1>8. GoesOn(w, j, n, t)
  <2>1. UNCHANGED <<fan, row, deliveryQ>> /\ acked \subseteq acked' /\ lost \subseteq lost'
    BY <1>3
  <2>2. calls'[j] >= calls[j] /\ \A i \in Jobs : i # j => calls'[i] = calls[i]
    BY <1>3, <1>6
  <2>3. TableType'
    BY <1>6
  <2> QED
    BY <1>4, <1>7, <2>1, <2>2, <2>3 DEF GoesOn
<1>9. AtWorker(j, w)
  BY <1>1, <1>2 DEF AtWorker
<1> QED
  BY <1>8, <1>9, StayStep

\* Answer.
LEMMA InvAnswer == ASSUME Deliveries, NEW w \in Workers, Answer(w) PROVE Deliveries'
<1>1. worker[w] # Idle /\ worker[w][3] = "sent"
  BY DEF Answer, In
<1>2. PICK j \in Jobs, n \in Nat, s \in Stages :
         worker[w] = <<j, n, s>> /\ worker[w][1] = j /\ worker[w][2] = n /\ worker[w][3] = s
  BY <1>1, TaskParts DEF Deliveries
<1>s. s = "sent"
  BY <1>1, <1>2
<1>3. PICK t \in {"accepted", "refused"} :
         /\ worker' = [worker EXCEPT ![w][3] = t]
         /\ acked' = IF t = "accepted" THEN acked \cup {j} ELSE acked
         /\ UNCHANGED <<fan, row, deliveryQ, calls, lost>>
  BY <1>2 DEF Answer
<1>4. worker' = [worker EXCEPT ![w] = <<j, n, t>>]
  <2>1. worker' = [worker EXCEPT ![w] = [worker[w] EXCEPT ![3] = t]]
    BY <1>3
  <2>2. [worker[w] EXCEPT ![3] = t] = <<j, n, t>>
    BY <1>2, SetStage
  <2> QED
    BY <2>1, <2>2
<1>5. TaskOK(j, n, "sent")
  BY <1>2, <1>s DEF Deliveries, TaskInv
<1>6. TableType' /\ calls'[j] = calls[j] /\ calls[j] \in Nat /\ calls[j] <= MaxRetries + 1
  BY <1>3 DEF Deliveries, TableType, TableInv
<1>7. TaskOK(j, n, t)'
  BY <1>3, <1>5, <1>6 DEF TaskOK
<1>8. GoesOn(w, j, n, t)
  <2>1. UNCHANGED <<fan, row, deliveryQ>> /\ acked \subseteq acked' /\ lost \subseteq lost'
    BY <1>3
  <2>2. /\ calls'[j] >= calls[j] /\ calls'[j] <= MaxRetries + 1
        /\ \A i \in Jobs : i # j => calls'[i] = calls[i]
    BY <1>3, <1>6
  <2>3. TableType'
    BY <1>6
  <2> QED
    BY <1>4, <1>7, <2>1, <2>2, <2>3 DEF GoesOn
<1>9. AtWorker(j, w)
  BY <1>1, <1>2 DEF AtWorker
<1>10. t \in Stages
  BY DEF Stages
<1> QED
  BY <1>8, <1>9, <1>10, StayStep

\* Answered.
LEMMA InvAnswered == ASSUME Deliveries, NEW w \in Workers, Answered(w) PROVE Deliveries'
<1>1. worker[w] # Idle /\ worker[w][3] \in {"accepted", "refused"}
  BY DEF Answered, In
<1>2. PICK j \in Jobs, n \in Nat, s \in Stages :
         worker[w] = <<j, n, s>> /\ worker[w][1] = j /\ worker[w][2] = n /\ worker[w][3] = s
  BY <1>1, TaskParts DEF Deliveries
<1>3. TaskOK(j, n, s) /\ s # "ready"
  BY <1>1, <1>2 DEF Deliveries, TaskInv
<1>4. /\ Record(j, Outcome(w)) /\ worker' = [worker EXCEPT ![w] = Idle]
      /\ UNCHANGED <<fan, deliveryQ, calls, acked, lost>>
  BY <1>2 DEF Answered
<1>5. Outcome(w) \in {"delivered", "failed"} /\ (Outcome(w) = "delivered" => j \in acked)
  BY <1>1, <1>2, <1>3 DEF Outcome, In, TaskOK
<1>6. /\ row' \in [Jobs -> {"none", "pending", "delivered", "failed"}]
      /\ row'[j] \in {Outcome(w), row[j]}
      /\ \A i \in Jobs : i # j => row'[i] = row[i]
  BY <1>4, <1>5, RecordStep DEF Deliveries
<1>7. TableType'
  BY <1>4, <1>6 DEF Deliveries, TableType
<1>8. calls[j] > 0
  BY <1>3 DEF TaskOK
<1>9. \/ row'[j] = "delivered" /\ j \in acked
      \/ row'[j] = "failed"
      \/ row'[j] = row[j] /\ (calls[j] > 0 \/ j \in lost')
  BY <1>5, <1>6, <1>8
<1> QED
  BY <1>2, <1>4, <1>6, <1>7, <1>9, EndStep

\* Unanswered: a retry, or the end.
LEMMA InvUnanswered == ASSUME Deliveries, NEW w \in Workers, Unanswered(w) PROVE Deliveries'
<1>1. worker[w] # Idle /\ UNCHANGED <<fan, deliveryQ, calls, acked>>
  BY DEF Unanswered, In
<1>2. PICK j \in Jobs, n \in Nat, s \in Stages :
         worker[w] = <<j, n, s>> /\ worker[w][1] = j /\ worker[w][2] = n /\ worker[w][3] = s
  BY <1>1, TaskParts DEF Deliveries
<1>3. lost' = IF s = "ready" THEN lost \cup {j} ELSE lost
  BY <1>1, <1>2 DEF Unanswered, In
<1>4. TaskOK(j, n, s) /\ calls[j] \in Nat
  BY <1>2 DEF Deliveries, TaskInv, TableType
<1>5. calls[j] > 0 \/ j \in lost'
  BY <1>3, <1>4 DEF TaskOK
<1>6. lost \subseteq lost' /\ lost' \in SUBSET Jobs
  BY <1>3 DEF Deliveries, TableType
<1>7. CASE /\ n < MaxRetries /\ Record(j, "pending")
           /\ worker' = [worker EXCEPT ![w] = <<j, n + 1, "ready">>]
  <2>1. AtWorker(j, w)
    BY <1>1, <1>2 DEF AtWorker
  <2>2. row[j] = "pending"
    BY <2>1 DEF Deliveries, HandInv
  <2>3. row' = row
    BY <1>7, <2>2 DEF Record, Deliveries, TableType
  <2>4. TableType'
    BY <1>1, <1>6, <2>3 DEF Deliveries, TableType
  <2>5. TaskOK(j, n + 1, "ready")'
    BY <1>1, <1>4, <1>5, <1>7 DEF TaskOK
  <2>6. calls'[j] <= MaxRetries + 1 /\ calls'[j] >= calls[j]
    BY <1>1, <1>4 DEF Deliveries, TableInv
  <2>7. "ready" \in Stages /\ n + 1 \in Nat
    BY DEF Stages
  <2>8. GoesOn(w, j, n + 1, "ready")
    BY <1>1, <1>6, <1>7, <2>3, <2>4, <2>5, <2>6 DEF GoesOn
  <2> QED
    BY <2>1, <2>7, <2>8, StayStep
<1>8. CASE Record(j, "failed") /\ worker' = [worker EXCEPT ![w] = Idle]
  <2>1. /\ row' \in [Jobs -> {"none", "pending", "delivered", "failed"}]
        /\ row'[j] \in {"failed", row[j]}
        /\ \A i \in Jobs : i # j => row'[i] = row[i]
    BY <1>8, RecordStep DEF Deliveries
  <2>2. TableType'
    BY <1>1, <1>6, <2>1 DEF Deliveries, TableType
  <2>3. \/ row'[j] = "delivered" /\ j \in acked
        \/ row'[j] = "failed"
        \/ row'[j] = row[j] /\ (calls[j] > 0 \/ j \in lost')
    BY <1>5, <2>1
  <2> QED
    BY <1>1, <1>2, <1>6, <1>8, <2>1, <2>2, <2>3, EndStep
<1>9. \/ /\ ~Exhausted(n) /\ Record(j, "pending")
         /\ worker' = [worker EXCEPT ![w] = <<j, n + 1, "ready">>]
      \/ Record(j, "failed") /\ worker' = [worker EXCEPT ![w] = Idle]
  BY <1>2 DEF Unanswered
<1> QED
  BY <1>7, <1>8, <1>9 DEF Exhausted

\* Interrupted.
LEMMA InvInterrupted == ASSUME Deliveries, NEW w \in Workers, Interrupted(w) PROVE Deliveries'
<1>1. /\ worker[w] # Idle /\ worker[w][3] = "ready" /\ worker[w][2] > 0
      /\ UNCHANGED <<fan, deliveryQ, calls, acked, lost>>
  BY DEF Interrupted, In
<1>2. PICK j \in Jobs, n \in Nat, s \in Stages :
         worker[w] = <<j, n, s>> /\ worker[w][1] = j /\ worker[w][2] = n /\ worker[w][3] = s
  BY <1>1, TaskParts DEF Deliveries
<1>3. TaskOK(j, n, s)
  BY <1>2 DEF Deliveries, TaskInv
<1>4. calls[j] > 0 \/ j \in lost'
  BY <1>1, <1>2, <1>3 DEF TaskOK
<1>5. Record(j, "failed") /\ worker' = [worker EXCEPT ![w] = Idle]
  BY <1>2 DEF Interrupted
<1>6. /\ row' \in [Jobs -> {"none", "pending", "delivered", "failed"}]
      /\ row'[j] \in {"failed", row[j]}
      /\ \A i \in Jobs : i # j => row'[i] = row[i]
  BY <1>5, RecordStep DEF Deliveries
<1>7. TableType'
  BY <1>1, <1>6 DEF Deliveries, TableType
<1>8. \/ row'[j] = "delivered" /\ j \in acked
      \/ row'[j] = "failed"
      \/ row'[j] = row[j] /\ (calls[j] > 0 \/ j \in lost')
  BY <1>4, <1>6
<1> QED
  BY <1>1, <1>2, <1>5, <1>6, <1>7, <1>8, EndStep

\* The end of the process: all that was in hand is counted as lost.
LEMMA InvDie == ASSUME Deliveries, Die PROVE Deliveries'
<1> USE DEF Deliveries
<1>1. /\ deliveryQ' = <<>> /\ fan' = Idle /\ worker' = [w \in Workers |-> Idle]
      /\ lost' = lost \cup InHand /\ UNCHANGED <<row, calls, acked>>
  BY DEF Die
<1>2. FanType' /\ WorkerType' /\ QueueType' /\ QueueDistinct'
  BY <1>1 DEF FanType, WorkerType, QueueType, QueueDistinct
<1>3. \A j : ~AtFan(j)' /\ ~AtQueue(j)' /\ \A w \in Workers : ~AtWorker(j, w)'
  BY <1>1 DEF AtFan, AtQueue, AtWorker
<1>4. InHand \subseteq Jobs
  <2>1. FannedOut \subseteq Jobs
    BY DEF FannedOut, FanType, Jobs
  <2>2. Queued \subseteq Jobs
    BY DEF Queued, QueueType
  <2>3. WorkedOn \subseteq Jobs
    BY DEF WorkedOn, WorkerType, Tasks
  <2> QED
    BY <2>1, <2>2, <2>3 DEF InHand
<1>5. TableType'
  BY <1>1, <1>4 DEF TableType
<1>6. HandInv'
  BY <1>1, <1>3 DEF HandInv
<1>7. TaskInv'
  BY <1>1, TaskNotIdle DEF TaskInv
<1>8. TableInv'
  <2>1. \A j : AtFan(j) \/ AtQueue(j) \/ (\E w \in Workers : AtWorker(j, w)) => j \in lost'
    BY <1>1, Places DEF InHand
  <2> QED
    BY <1>1, <2>1 DEF TableInv
<1> QED
  BY <1>2, <1>5, <1>6, <1>7, <1>8

-----------------------------------------------------------------------------
(* The whole system.                                                       *)

\* Every step keeps the deliveries in order.
LEMMA InvDeliveries == ASSUME IInv, Next PROVE Deliveries'
<1>1. Deliveries
  BY DEF IInv
<1>2. CASE \E e \in Events : Enqueue(e)
  BY <1>1, <1>2, SameDeliveries DEF Enqueue, deliveryVars
<1>3. CASE FanExit
  BY <1>1, <1>3, SameDeliveries DEF FanExit, deliveryVars
<1>4. CASE \E w \in Workers : Deliver(w)
  <2>1. PICK w \in Workers : Deliver(w)
    BY <1>4
  <2>2. CASE WorkerExit(w)
    BY <1>1, <2>2, SameDeliveries DEF WorkerExit, deliveryVars
  <2> QED
    BY <1>1, <2>1, <2>2, InvTake, InvAttempt, InvAnswer, InvAnswered, InvUnanswered,
       InvInterrupted DEF Deliver
<1>5. CASE Close \/ CloseTimeout \/ Restart
  BY <1>1, <1>5, SameDeliveries DEF Close, CloseTimeout, Restart, memory, deliveryVars
<1>6. CASE CloseDone \/ CloseGiveUp \/ Crash
  BY <1>1, <1>6, InvDie DEF CloseDone, CloseGiveUp, Crash
<1> QED
  BY <1>1, <1>2, <1>3, <1>4, <1>5, <1>6, InvFanTake, InvFanCreate, InvFanPush, InvFanAbort,
     InvFanDone DEF Next

\* What a worker does to the control of the process: at most it returns.
LEMMA DeliverControl ==
  ASSUME NEW w \in Workers, Deliver(w)
  PROVE  /\ UNCHANGED <<phase, posts, eventQ, fan, fanExited, crashes>>
         /\ exited' = exited \/ exited' = exited \cup {w}
BY DEF Deliver, Take, Attempt, Answer, Answered, Unanswered, Interrupted, WorkerExit

\* Every step keeps the event queue and the process in order.
LEMMA InvControl == ASSUME IInv, Next PROVE ControlType' /\ ExitInv'
<1>1. ControlType /\ ExitInv
  BY DEF IInv
<1>2. CASE \E e \in Events : Enqueue(e)
  <2>1. PICK e \in Events : Enqueue(e)
    BY <1>2
  <2>2. /\ phase = "up" /\ posts[e] < MaxPosts /\ Len(eventQ) < EventCap
        /\ eventQ' = Append(eventQ, e) /\ posts' = [posts EXCEPT ![e] = @ + 1]
        /\ UNCHANGED <<phase, fan, fanExited, exited, crashes>>
    BY <2>1 DEF Enqueue, HasRoom
  <2>3. eventQ' \in Seq(Events) /\ Len(eventQ') <= EventCap
    BY <1>1, <2>2 DEF ControlType
  <2>4. posts' \in [Events -> 0..MaxPosts]
    BY <1>1, <2>2 DEF ControlType
  <2> QED
    BY <1>1, <2>2, <2>3, <2>4 DEF ControlType, ExitInv
<1>3. CASE \E us \in SUBSET Users : FanTake(us)
  <2>1. /\ ~fanExited /\ eventQ # <<>> /\ eventQ' = Tail(eventQ)
        /\ UNCHANGED <<phase, posts, fanExited, exited, crashes>>
    BY <1>3 DEF FanTake
  <2>2. eventQ' \in Seq(Events) /\ Len(eventQ') <= EventCap
    BY <1>1, <2>1 DEF ControlType
  <2> QED
    BY <1>1, <2>1, <2>2 DEF ControlType, ExitInv
<1>4. CASE (\E u \in Users : FanCreate(u) \/ FanPush(u)) \/ FanAbort \/ FanDone
  <2>1. fan # Idle /\ UNCHANGED <<phase, posts, eventQ, fanExited, exited, crashes>>
    BY <1>4 DEF FanCreate, FanPush, FanAbort, FanDone
  <2> QED
    BY <1>1, <2>1 DEF ControlType, ExitInv
<1>5. CASE FanExit
  <2>1. /\ phase \in {"closing", "cancelled"} /\ fan = Idle /\ eventQ = <<>>
        /\ fanExited' = TRUE /\ UNCHANGED <<phase, posts, eventQ, fan, exited, crashes>>
    BY <1>5 DEF FanExit, Stopped, Drained
  <2>2. ExitInv'
    BY <2>1 DEF ExitInv
  <2>3. fanExited' \in BOOLEAN
    BY <2>1
  <2> QED
    BY <1>1, <2>1, <2>2, <2>3 DEF ControlType
<1>6. CASE \E w \in Workers : Deliver(w)
  BY <1>1, <1>6, DeliverControl DEF ControlType, ExitInv
<1>7. CASE Close \/ CloseTimeout \/ Restart
  <2>1. /\ UNCHANGED <<posts, eventQ, fan, fanExited, exited, crashes>>
        /\ phase' \in {"up", "closing", "cancelled"}
        /\ phase' = "up" => phase = "down"
    BY <1>7 DEF Close, CloseTimeout, Restart, memory
  <2> QED
    BY <1>1, <2>1 DEF ControlType, ExitInv
<1>8. CASE CloseDone \/ CloseGiveUp \/ Crash
  <2>1. /\ Die /\ UNCHANGED posts /\ crashes' \in 0..MaxCrashes
    BY <1>1, <1>8 DEF CloseDone, CloseGiveUp, Crash, Die, ControlType
  <2>2. phase' = "down" /\ eventQ' = <<>> /\ ~fanExited' /\ fanExited' = FALSE /\ exited' = {}
    BY <2>1 DEF Die
  <2>3. eventQ' \in Seq(Events) /\ Len(eventQ') <= EventCap
    BY <2>2
  <2>4. fanExited' \in BOOLEAN
    BY <2>2
  <2> QED
    BY <1>1, <2>1, <2>2, <2>3, <2>4 DEF ControlType, ExitInv
<1> QED
  BY <1>2, <1>3, <1>4, <1>5, <1>6, <1>7, <1>8 DEF Next

\* The invariant holds all the time.
LEMMA InvAlways == Spec => []IInv
<1>1. IInv /\ [Next]_vars => IInv'
  <2> SUFFICES ASSUME IInv, [Next]_vars PROVE IInv'
    OBVIOUS
  <2>1. CASE Next
    BY <2>1, InvDeliveries, InvControl DEF IInv
  <2>2. CASE UNCHANGED vars
    <3>1. Deliveries'
      BY <2>2, SameDeliveries DEF IInv, vars, memory, deliveryVars
    <3>2. ControlType' /\ ExitInv'
      BY <2>2 DEF IInv, ControlType, ExitInv, vars, memory
    <3> QED
      BY <3>1, <3>2 DEF IInv
  <2> QED
    BY <2>1, <2>2
<1> QED
  BY InvInit, <1>1, PTL DEF Spec

\* However often an event is posted and across crashes, one delivery per event
\* and user is in hand at a time and makes at most 1 + MaxRetries calls.
THEOREM DeliveredAtMostOnce == Spec => []DeliveryInv
BY InvAlways, InvImplies, PTL

\* A row that says delivered had a call accepted, and a row that says pending
\* had a call, is in hand, or fell to one of the losses the code has.
THEOREM RowsTellWhatHappened == Spec => []RowsAccounted
BY InvAlways, InvImplies, PTL

\* When the workers have returned, every accepted event has had its fan-out.
THEOREM CloseDrainsEvents == Spec => []EventsDrained
BY InvAlways, InvImplies, PTL

-----------------------------------------------------------------------------
(* The refinement of WebhookDelivery.                                      *)

\* No delivery has a row yet.
LEMMA RefinesInit == Init => Promise!Init
BY DEF Init, Promise!Init

\* A worker that has a task has it for a job of which the row is pending.
LEMMA WorkedOnPending ==
  ASSUME Deliveries, NEW w \in Workers, worker[w] # Idle
  PROVE  \E j \in Jobs, n \in Nat, s \in Stages :
           /\ worker[w][1] = j /\ worker[w][2] = n /\ worker[w][3] = s
           /\ row[j] = "pending" /\ calls[j] \in Nat /\ TaskOK(j, n, s)
<1>1. PICK j \in Jobs, n \in Nat, s \in Stages :
         worker[w] = <<j, n, s>> /\ worker[w][1] = j /\ worker[w][2] = n /\ worker[w][3] = s
  BY TaskParts DEF Deliveries
<1>2. AtWorker(j, w)
  BY <1>1 DEF AtWorker
<1>3. row[j] = "pending" /\ calls[j] \in Nat
  BY <1>2 DEF Deliveries, HandInv, TableType
<1>4. TaskOK(j, n, s)
  BY <1>1 DEF Deliveries, TaskInv
<1> QED
  BY <1>1, <1>3, <1>4

\* The fan-out inserts a row that is not there, or changes none.
LEMMA RefinesFan ==
  ASSUME Deliveries, (\E u \in Users : FanCreate(u)) \/ FanAbort
  PROVE  [Promise!Next]_Promise!deliveryState
<1>1. fan # Idle /\ UNCHANGED <<calls, acked>>
  BY DEF FanCreate, FanAbort
<1>2. fan[1] \in Events /\ fan[2] \in SUBSET Users
  BY <1>1, FanParts DEF Deliveries
<1>3. \/ row' = row
      \/ \E u \in fan[2] : /\ row[<<fan[1], u>>] = "none"
                           /\ row' = [row EXCEPT ![<<fan[1], u>>] = "pending"]
  <2>1. CASE \E u \in Users : FanCreate(u)
    BY <2>1 DEF FanCreate, IsDuplicate
  <2>2. CASE FanAbort
    BY <2>2 DEF FanAbort
  <2> QED
    BY <2>1, <2>2
<1>4. CASE row' = row
  BY <1>1, <1>4 DEF Promise!deliveryState
<1>5. ASSUME NEW u \in fan[2], row[<<fan[1], u>>] = "none",
             row' = [row EXCEPT ![<<fan[1], u>>] = "pending"]
      PROVE  Promise!Next
  <2> DEFINE j == <<fan[1], u>>
  <2>1. j \in Jobs
    BY <1>2 DEF Jobs
  <2>2. Promise!Create(j)
    BY <1>1, <1>5 DEF Promise!Create
  <2> HIDE DEF j
  <2> QED
    BY <2>1, <2>2 DEF Promise!Next
<1> QED
  BY <1>3, <1>4, <1>5

\* An attempt is a call of a delivery that is pending and has calls left.
LEMMA RefinesAttempt ==
  ASSUME Deliveries, NEW w \in Workers, Attempt(w) PROVE Promise!Next
<1>1. /\ worker[w] # Idle /\ worker[w][3] = "ready" /\ UNCHANGED <<row, acked>>
      /\ calls' = [calls EXCEPT ![worker[w][1]] = @ + 1]
  BY DEF Attempt, In
<1>2. PICK j \in Jobs, n \in Nat, s \in Stages :
         /\ worker[w][1] = j /\ worker[w][2] = n /\ worker[w][3] = s
         /\ row[j] = "pending" /\ calls[j] \in Nat /\ TaskOK(j, n, s)
  BY <1>1, WorkedOnPending
<1>3. calls[j] < MaxRetries + 1
  BY <1>1, <1>2 DEF TaskOK
<1>4. Promise!Call(j)
  BY <1>1, <1>2, <1>3 DEF Promise!Call
<1> QED
  BY <1>4 DEF Promise!Next

\* A 2xx is the acceptance of a call that was made.
LEMMA RefinesAnswer ==
  ASSUME Deliveries, NEW w \in Workers, Answer(w)
  PROVE  [Promise!Next]_Promise!deliveryState
<1>1. worker[w] # Idle /\ worker[w][3] = "sent" /\ UNCHANGED <<row, calls>>
  BY DEF Answer, In
<1>2. PICK j \in Jobs, n \in Nat, s \in Stages :
         /\ worker[w][1] = j /\ worker[w][2] = n /\ worker[w][3] = s
         /\ row[j] = "pending" /\ calls[j] \in Nat /\ TaskOK(j, n, s)
  BY <1>1, WorkedOnPending
<1>3. CASE acked' = acked \cup {j}
  <2>1. calls[j] > 0
    BY <1>1, <1>2 DEF TaskOK
  <2>2. Promise!Accept(j)
    BY <1>1, <1>2, <1>3, <2>1 DEF Promise!Accept
  <2> QED
    BY <2>2 DEF Promise!Next
<1>4. CASE acked' = acked
  BY <1>1, <1>4 DEF Promise!deliveryState
<1> QED
  BY <1>2, <1>3, <1>4 DEF Answer

\* What is recorded ends a delivery that is pending, as delivered only if it was
\* accepted, or leaves it pending.
LEMMA RefinesRecord ==
  ASSUME Deliveries, NEW w \in Workers, Answered(w) \/ Unanswered(w) \/ Interrupted(w)
  PROVE  [Promise!Next]_Promise!deliveryState
<1>1. worker[w] # Idle /\ UNCHANGED <<calls, acked>>
  BY DEF Answered, Unanswered, Interrupted, In
<1>2. PICK j \in Jobs, n \in Nat, s \in Stages :
         /\ worker[w][1] = j /\ worker[w][2] = n /\ worker[w][3] = s
         /\ row[j] = "pending" /\ calls[j] \in Nat /\ TaskOK(j, n, s)
  BY <1>1, WorkedOnPending
<1>3. PICK status \in {"pending", "delivered", "failed"} :
         Record(j, status) /\ (status = "delivered" => j \in acked)
  <2>1. CASE Answered(w)
    <3>1. Record(j, Outcome(w))
      BY <1>2, <2>1 DEF Answered
    <3>2. Outcome(w) \in {"delivered", "failed"} /\ (Outcome(w) = "delivered" => s = "accepted")
      BY <1>2 DEF Outcome, In
    <3> QED
      BY <1>2, <3>1, <3>2 DEF TaskOK
  <2>2. CASE Unanswered(w)
    BY <1>2, <2>2 DEF Unanswered
  <2>3. CASE Interrupted(w)
    BY <1>2, <2>3 DEF Interrupted
  <2> QED
    BY <2>1, <2>2, <2>3
<1>4. CASE row' = row
  BY <1>1, <1>4 DEF Promise!deliveryState
<1>5. CASE row' = [row EXCEPT ![j] = status] /\ status = "pending"
  <2>1. row' = row
    BY <1>2, <1>5 DEF Deliveries, TableType
  <2> QED
    BY <1>1, <2>1 DEF Promise!deliveryState
<1>6. CASE row' = [row EXCEPT ![j] = status] /\ status \in {"delivered", "failed"}
  <2>1. Promise!Finish(j, status)
    BY <1>1, <1>2, <1>3, <1>6 DEF Promise!Finish
  <2> QED
    BY <1>6, <2>1 DEF Promise!Next
<1> QED
  BY <1>3, <1>4, <1>5, <1>6 DEF Record

\* Each step of the service is one of the promise's, or is none of its business.
LEMMA RefinesNext == IInv /\ [Next]_vars => [Promise!Next]_Promise!deliveryState
<1> SUFFICES ASSUME IInv, [Next]_vars PROVE [Promise!Next]_Promise!deliveryState
  OBVIOUS
<1>1. Deliveries
  BY DEF IInv
<1>2. CASE (\E u \in Users : FanCreate(u)) \/ FanAbort
  BY <1>1, <1>2, RefinesFan
<1>3. ASSUME NEW w \in Workers, Deliver(w) PROVE [Promise!Next]_Promise!deliveryState
  <2>1. CASE Take(w) \/ WorkerExit(w)
    BY <2>1 DEF Take, WorkerExit, Promise!deliveryState
  <2>2. CASE Attempt(w)
    BY <1>1, <2>2, RefinesAttempt
  <2>3. CASE Answer(w)
    BY <1>1, <2>3, RefinesAnswer
  <2>4. CASE Answered(w) \/ Unanswered(w) \/ Interrupted(w)
    BY <1>1, <2>4, RefinesRecord
  <2> QED
    BY <1>3, <2>1, <2>2, <2>3, <2>4 DEF Deliver
<1>4. CASE \/ \E e \in Events : Enqueue(e)
           \/ \E us \in SUBSET Users : FanTake(us)
           \/ \E u \in Users : FanPush(u)
           \/ FanDone \/ FanExit
  BY <1>4 DEF Enqueue, FanTake, FanPush, FanDone, FanExit, Promise!deliveryState
<1>5. CASE Close \/ CloseDone \/ CloseTimeout \/ CloseGiveUp \/ Crash \/ Restart
  BY <1>5 DEF Close, CloseDone, CloseTimeout, CloseGiveUp, Crash, Restart, Die,
              Promise!deliveryState
<1>6. CASE UNCHANGED vars
  BY <1>6 DEF vars, Promise!deliveryState
<1> QED
  BY <1>2, <1>3, <1>4, <1>5, <1>6 DEF Next

\* Every delivery keeps its promise, however often its event is posted and
\* whatever is refused, retried, lost, shut down or crashes on the way: its row
\* becomes final once, only what was accepted is called delivered, and no call
\* is made before its row is there or once it is final.
THEOREM DeliveriesKeepPromise == Spec => DeliversAsPromised
BY InvAlways, RefinesInit, RefinesNext, PTL DEF Spec, DeliversAsPromised, Promise!Spec

=============================================================================
