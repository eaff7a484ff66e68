--------------------------- MODULE MCChatPresence ---------------------------
(* ChatPresence for TLC: the slots of requests are model values.           *)
EXTENDS ChatPresence, TLC

\* Which slot a request takes does not matter.
Symmetry == Permutations(Slots)

=============================================================================
