-------------------------- MODULE MCMessageArchive --------------------------
(* MessageArchive for TLC: two incarnations of one room. *)
EXTENDS MessageArchive, TLC

MCName == [r \in Rooms |-> "room"]

(* Messages with their events, and messages with a reader of the history:  *)
(* the two share nothing but the messages.                                 *)
MCLoads == {[notifying |-> TRUE, browsing |-> FALSE, stopping |-> TRUE,
              messages |-> 2, ticks |-> 0],
            [notifying |-> FALSE, browsing |-> TRUE, stopping |-> FALSE,
              messages |-> 3, ticks |-> 1]}

=============================================================================
