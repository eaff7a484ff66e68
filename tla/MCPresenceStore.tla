-------------------------- MODULE MCPresenceStore --------------------------
(* PresenceStore for TLC: users, instances and slots are model values.     *)
EXTENDS PresenceStore, TLC

\* None of the three kinds of values is told apart from others of its kind.
Symmetry == Permutations(Users) \cup Permutations(Instances) \cup Permutations(Slots)

=============================================================================
