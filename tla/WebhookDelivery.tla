--------------------------- MODULE WebhookDelivery ---------------------------
(***************************************************************************)
(* What notification-service promises about a webhook delivery, that is,   *)
(* about one event for one user: it has one row, which goes from pending   *)
(* to a final state once; it is called a bounded number of times in all,   *)
(* only while its row is pending; and it says delivered only after a call  *)
(* that was accepted.  Queues, workers, replays and crashes are not seen.  *)
(***************************************************************************)
EXTENDS Naturals

CONSTANTS Jobs,       \* pairs of event and user
          MaxCalls    \* calls a delivery may make

VARIABLES row,        \* row[j]: none, pending, delivered or failed
          calls,      \* calls made for j
          acked       \* deliveries whose receiver has accepted a call

deliveryState == <<row, calls, acked>>

Init ==
  /\ row = [j \in Jobs |-> "none"]
  /\ calls = [j \in Jobs |-> 0]
  /\ acked = {}

Create(j) ==
  /\ row[j] = "none"
  /\ row' = [row EXCEPT ![j] = "pending"]
  /\ UNCHANGED <<calls, acked>>

Call(j) ==
  /\ row[j] = "pending" /\ calls[j] < MaxCalls
  /\ calls' = [calls EXCEPT ![j] = @ + 1]
  /\ UNCHANGED <<row, acked>>

Accept(j) ==
  /\ row[j] = "pending" /\ calls[j] > 0
  /\ acked' = acked \cup {j}
  /\ UNCHANGED <<row, calls>>

Finish(j, status) ==
  /\ row[j] = "pending"
  /\ status = "delivered" => j \in acked
  /\ row' = [row EXCEPT ![j] = status]
  /\ UNCHANGED <<calls, acked>>

Next == \E j \in Jobs : \/ Create(j) \/ Call(j) \/ Accept(j)
                        \/ \E status \in {"delivered", "failed"} : Finish(j, status)

Spec == Init /\ [][Next]_deliveryState

=============================================================================
