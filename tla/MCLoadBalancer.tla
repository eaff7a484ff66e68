--------------------------- MODULE MCLoadBalancer ---------------------------
(* LoadBalancer for TLC: three instances.  Every ring of four positions is *)
(* built once and looked at; failures, picks and handshakes happen on one  *)
(* of them.                                                                *)
EXTENDS LoadBalancer, TLC

MCBackends == <<"b1", "b2", "b3">>

Injections == {p \in [Points -> 0..Positions - 1] :
                 \A x, y \in Points : p[x] = p[y] => x = y}

Load(point, key, n, q, c) ==
  [point |-> point, key |-> key, changes |-> n, requests |-> q, connects |-> c]

AllRings == {Load(p, [k \in Keys |-> h], 0, 0, 0) : p \in Injections, h \in 0..Positions - 1}

OneRing == CHOOSE p \in Injections : \A i \in 1..3 : p[<<Backends[i], 1>>] = i
Spread  == [k \in Keys |-> IF k = "" THEN 2 ELSE 1]

(* Three requests and a failure; three failures and a request; two clients *)
(* and an instance that fails and comes back.                              *)
MCLoads == AllRings \union {Load(OneRing, Spread, 1, 3, 0), Load(OneRing, Spread, 3, 1, 0),
                            Load(OneRing, Spread, 2, 0, 2)}

=============================================================================
