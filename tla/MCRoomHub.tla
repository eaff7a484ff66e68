----------------------------- MODULE MCRoomHub -----------------------------
(* RoomHub for TLC: connections and names are model values.                *)
EXTENDS RoomHub, TLC

\* Connections are interchangeable, and so are names.
Symmetry == Permutations(Clients) \cup Permutations(Names)

=============================================================================
