---------------------------- MODULE MCEdgeCache ----------------------------
(* EdgeCache for TLC: two small objects that fit together, and one that    *)
(* takes the whole cache.                                                  *)
EXTENDS EdgeCache

MCHashes == {1, 2, 3}
MCSize   == [h \in MCHashes |-> IF h = 3 THEN 2 ELSE 1]

=============================================================================
