--------------------------- MODULE MCNotification ---------------------------
(* Notification for TLC: events, users and workers are model values.       *)
EXTENDS Notification, TLC

\* None of the three kinds of values is told apart from others of its kind.
Symmetry == Permutations(Events) \cup Permutations(Users) \cup Permutations(Workers)

=============================================================================
