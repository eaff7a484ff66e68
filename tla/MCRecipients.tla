---------------------------- MODULE MCRecipients ----------------------------
(* Recipients for TLC.                                                     *)
EXTENDS Recipients, TLC

\* Neither users nor PUT requests are told apart.
Symmetry == Permutations(Users) \cup Permutations(Puts)

=============================================================================
