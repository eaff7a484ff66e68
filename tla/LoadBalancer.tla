---------------------------- MODULE LoadBalancer ----------------------------
(***************************************************************************)
(* The gateway's load balancer for chat-service: the health sweep, round   *)
(* robin for history, the hash ring for rooms, and the balanced proxy.     *)
(*                                                                         *)
(* Instances fail and come back on their own; the gateway only has its     *)
(* flags.  Positions on the ring are numbers below Positions; which ones   *)
(* the points and the rooms hash to is chosen at the start and never       *)
(* changes, for the ring is built once.                                    *)
(***************************************************************************)
EXTENDS Naturals, Sequences, FiniteSets, SequencesExt

CONSTANTS
  Backends,        \* sequence of instances, in configuration order
  Params,          \* values of ?room= that clients send, "" for none
  VirtualNodes,    \* points per instance
  Positions,       \* values of hashKey, 0..Positions-1
  MaxRequests,     \* bound: history requests, numbered as they arrive
  Clients,         \* WebSocket clients
  Loads            \* which hashes and bounds a behaviour has

Instances == ToSet(Backends)
Points == Instances \X (1..VirtualNodes)
Requests == 1..MaxRequests

(* RoomKey: an omitted room is general. *)
RoomKey(param) == IF param = "" THEN "general" ELSE param

(* What chat-service makes of the same parameter. *)
ChatRoom(param) == IF param = "" THEN "general" ELSE param

Keys == Params \union {ChatRoom(p) : p \in Params}

(* No two points of the ring have one hash: they are 64 bits wide, and     *)
(* sort.Slice leaves the order of equal ones open.                         *)
ASSUME BalancerAssumption ==
  /\ Backends \in Seq(Instances) /\ IsInjective(Backends) /\ Backends # <<>>
  /\ VirtualNodes \in Nat \ {0} /\ Positions \in Nat \ {0} /\ MaxRequests \in Nat
  /\ \A l \in Loads, p, r \in Points : l.point[p] = l.point[r] => p = r
  /\ Loads \subseteq [point : [Points -> 0..Positions - 1], key : [Keys -> 0..Positions - 1],
                      changes : Nat, requests : 0..MaxRequests, connects : Nat]

VARIABLES
  load,       \* the hashes, and the bounds of this behaviour
  up,         \* up[b]: instance b answers /health in time and with 200
  changes,    \* bound: failures and recoveries so far
  healthy,    \* the flags
  sweep,      \* Check: idle, or running; first until Start has returned
  probe,      \* probe[b]: where check(b) is
  probed,     \* history: instances whose flag was set by a probe
  next,       \* RoundRobin.next
  request,    \* request[q]: a history request on its way
  turns,      \* history: picks of each instance since the flags changed, and since
              \*   the last pick from a list that was read before they did
  conn        \* conn[c]: a WebSocket client

healthVars == <<healthy, sweep, probe, probed>>
vars == <<load, up, changes, healthy, sweep, probe, probed, next, request, turns, conn>>

NoRequest == [pc |-> "idle", i |-> 0, list |-> <<>>, fresh |-> TRUE, at |-> ""]
Over      == [NoRequest EXCEPT !.pc = "over"]
NoConn    == [pc |-> "idle", room |-> "", at |-> ""]
Zero      == [b \in Instances |-> 0]

(* main: NewPool, then Start with its first Check. *)
Init ==
  /\ load \in Loads
  /\ up = [b \in Instances |-> TRUE] /\ changes = 0
  /\ healthy = [b \in Instances |-> TRUE]
  /\ sweep = "first" /\ probe = [b \in Instances |-> "due"] /\ probed = {}
  /\ next = 0
  /\ request = [q \in Requests |-> NoRequest] /\ turns = Zero
  /\ conn = [c \in Clients |-> NoConn]

(* The gateway listens once Start has returned. *)
Serving == sweep # "first"

-----------------------------------------------------------------------------
(* The instances. *)

(* An instance that stops answering /health has died, and every            *)
(* connection to it breaks, or it is slow or answers with an error, and    *)
(* they stay: any of them may break.                                       *)
Change(b) ==
  /\ changes < load.changes
  /\ changes' = changes + 1
  /\ up' = [up EXCEPT ![b] = ~@]
  /\ \E broken \in SUBSET {c \in Clients : up[b] /\ conn[c].pc = "connected" /\ conn[c].at = b} :
       conn' = [c \in Clients |-> IF c \in broken THEN NoConn ELSE conn[c]]
  /\ UNCHANGED <<load, healthVars, next, request, turns>>

-----------------------------------------------------------------------------
(* The sweep.  One probe per instance, in parallel; Check waits for all. *)

CheckStart ==
  /\ sweep = "idle"
  /\ sweep' = "running"
  /\ probe' = [b \in Instances |-> "due"]
  /\ UNCHANGED <<load, up, changes, healthy, probed, next, request, turns, conn>>

(* The answer of GET /health, or none within healthCheckTimeout. *)
Probe(b) ==
  /\ probe[b] = "due"
  /\ probe' = [probe EXCEPT ![b] = IF up[b] THEN "ok" ELSE "bad"]
  /\ UNCHANGED <<load, up, changes, healthy, sweep, probed, next, request, turns, conn>>

(* A flag that an instance never gets back. *)
Verdict_Sticky(b) == healthy[b] /\ probe[b] = "ok"

Verdict(b) == probe[b] = "ok"

(* setHealthy swaps the flag. *)
SetHealthy(b) ==
  /\ probe[b] \in {"ok", "bad"}
  /\ healthy' = [healthy EXCEPT ![b] = Verdict(b)]
  /\ probe' = [probe EXCEPT ![b] = "done"] /\ probed' = probed \union {b}
  /\ IF healthy' = healthy THEN UNCHANGED <<turns, request>>
     ELSE /\ turns' = Zero
          /\ request' = [q \in Requests |-> [request[q] EXCEPT !.fresh = (request[q].pc # "reading")]]
  /\ UNCHANGED <<load, up, changes, sweep, next, conn>>

(* Start that does not wait for its first sweep. *)
Checked_NoWait == TRUE

Checked == \A b \in Instances : probe[b] = "done"

CheckEnd ==
  /\ sweep # "idle" /\ Checked
  /\ sweep' = "idle"
  /\ UNCHANGED <<load, up, changes, healthy, probe, probed, next, request, turns, conn>>

-----------------------------------------------------------------------------
(* Round robin. *)

Begin(q) ==
  /\ Serving /\ request[q].pc = "idle"
  /\ q <= load.requests /\ \A p \in 1..q - 1 : request[p].pc # "idle"
  /\ request' = [request EXCEPT ![q] = [NoRequest EXCEPT !.pc = "reading", !.i = 1]]
  /\ UNCHANGED <<load, up, changes, healthVars, next, turns, conn>>

(* Healthy reads the flags one after the other. *)
ReadFlag(q) ==
  LET r == request[q]
      b == Backends[r.i]
  IN /\ r.pc = "reading" /\ r.i <= Len(Backends)
     /\ request' = [request EXCEPT ![q].i = @ + 1,
                                   ![q].list = IF healthy[b] THEN Append(@, b) ELSE @]
     /\ UNCHANGED <<load, up, changes, healthVars, next, turns, conn>>

(* The index over all instances; a dead one gives its turn to the next     *)
(* one that is healthy.                                                    *)
Turn_FullList(n, list) ==
  LET From(k) == Backends[((n + k) % Len(Backends)) + 1]
      k == CHOOSE i \in 0..Len(Backends) - 1 :
             /\ From(i) \in ToSet(list)
             /\ \A j \in 0..i - 1 : From(j) \notin ToSet(list)
  IN From(k)

Turn(n, list) == list[(n % Len(list)) + 1]

(* The counter is read and advanced in one atomic step. *)
Pick(q) ==
  LET r == request[q]
      b == Turn(next, r.list)
  IN /\ r.pc = "reading" /\ r.i > Len(Backends) /\ r.list # <<>>
     /\ next' = next + 1
     /\ request' = [request EXCEPT ![q] = [NoRequest EXCEPT !.pc = "picked", !.at = b]]
     /\ turns' = IF r.fresh THEN [turns EXCEPT ![b] = @ + 1] ELSE Zero
     /\ UNCHANGED <<load, up, changes, healthVars, conn>>

(* A pick from an empty list that is not an error. *)
PickNone_Nil(q) ==
  /\ request[q].pc = "reading" /\ request[q].i > Len(Backends) /\ request[q].list = <<>>
  /\ request' = [request EXCEPT ![q].pc = "picked"]
  /\ UNCHANGED <<load, up, changes, healthVars, next, turns, conn>>

(* ErrNoHealthyBackend: 503 *)
PickNone(q) ==
  /\ request[q].pc = "reading" /\ request[q].i > Len(Backends) /\ request[q].list = <<>>
  /\ request' = [request EXCEPT ![q] = Over]
  /\ UNCHANGED <<load, up, changes, healthVars, next, turns, conn>>

(* The proxied request, with 502 if the instance has died since it was     *)
(* last seen.                                                              *)
Forward(q) ==
  /\ request[q].pc = "picked"
  /\ request' = [request EXCEPT ![q] = Over]
  /\ UNCHANGED <<load, up, changes, healthVars, next, turns, conn>>

-----------------------------------------------------------------------------
(* The ring. *)

(* hashKey of a room and of the key of a point. *)
HashKey(key) == load.key[key]
HashPoint(p) == load.point[p]

(* The points of the instances in S, and how many of them have a smaller   *)
(* hash than p.                                                            *)
PointsOf(S) == {p \in Points : p[1] \in S}
Rank(S, p)  == Cardinality({r \in PointsOf(S) : HashPoint(r) < HashPoint(p)})

(* NewConsistentHash: every point of the instances in S, sorted by hash.   *)
Ring(S) == [k \in 1..Cardinality(PointsOf(S)) |->
              CHOOSE p \in PointsOf(S) : Rank(S, p) = k - 1]

(* A search for a point behind the hash. *)
Search_Behind(ring, h) ==
  Cardinality({i \in DOMAIN ring : HashPoint(ring[i]) <= h}) + 1

(* sort.Search: the first point not before the hash, one past the end if   *)
(* there is none.                                                          *)
Search(ring, h) ==
  Cardinality({i \in DOMAIN ring : HashPoint(ring[i]) < h}) + 1

(* The instance whose number is the hash modulo their number. *)
LookupIn_Modulo(S, key) ==
  LET order == SelectSeq(Backends, LAMBDA b : b \in S)
  IN order[(HashKey(key) % Len(order)) + 1]

LookupIn(S, key) ==
  LET ring == Ring(S)
      index == Search(ring, HashKey(key))
  IN ring[IF index > Len(ring) THEN 1 ELSE index][1]

(* A ring over the healthy instances. *)
Members_Healthy == IF \E b \in Instances : healthy[b]
                   THEN {b \in Instances : healthy[b]} ELSE Instances

(* The ring is over all configured instances. *)
Members == Instances

(* A handshake for a room: the instance is looked up, its flag is read,    *)
(* and a sticky miss fails closed with 503 (the client is where it was).   *)
Handshake(c, param) ==
  LET b == LookupIn(Members, RoomKey(param))
  IN /\ Serving /\ conn[c].pc = "idle" /\ healthy[b]
     /\ conn' = [conn EXCEPT ![c] = [pc |-> "picked", room |-> ChatRoom(param), at |-> b]]
     /\ UNCHANGED <<load, up, changes, healthVars, next, request, turns>>

(* The proxied request: a connection, or 502 if the instance is dead.      *)
Connect(c) ==
  /\ conn[c].pc = "picked"
  /\ \/ conn' = [conn EXCEPT ![c].pc = "connected"]
     \/ ~up[conn[c].at] /\ conn' = [conn EXCEPT ![c] = NoConn]
  /\ UNCHANGED <<load, up, changes, healthVars, next, request, turns>>

Disconnect(c) ==
  /\ conn[c].pc = "connected"
  /\ conn' = [conn EXCEPT ![c] = NoConn]
  /\ UNCHANGED <<load, up, changes, healthVars, next, request, turns>>

-----------------------------------------------------------------------------
Sweep == CheckStart \/ CheckEnd \/ \E b \in Instances : Probe(b) \/ SetHealthy(b)

Next ==
  \/ \E b \in Instances : Change(b)
  \/ Sweep
  \/ \E q \in Requests : Begin(q) \/ ReadFlag(q) \/ Pick(q) \/ PickNone(q) \/ Forward(q)
  \/ \E c \in Clients : \/ /\ Cardinality({d \in Clients : conn[d].pc # "idle"}) < load.connects
                           /\ \E p \in Params : Handshake(c, p)
                        \/ Connect(c) \/ Disconnect(c)

Spec == Init /\ [][Next]_vars

(* The ticker goes on and every probe ends, by an answer or its timeout. *)
FairSpec ==
  /\ Spec
  /\ WF_vars(CheckStart) /\ WF_vars(CheckEnd)
  /\ \A b \in Instances : WF_vars(Probe(b)) /\ WF_vars(SetHealthy(b))

-----------------------------------------------------------------------------
(* The flags, the sweep and the requests are well formed; a pick names an  *)
(* instance.                                                               *)
TypeOK ==
  /\ up \in [Instances -> BOOLEAN] /\ healthy \in [Instances -> BOOLEAN]
  /\ sweep \in {"first", "idle", "running"}
  /\ probed \subseteq Instances
  /\ probe \in [Instances -> {"due", "ok", "bad", "done"}]
  /\ next \in 0..MaxRequests
  /\ \A q \in Requests :
       /\ request[q].pc \in {"idle", "reading", "picked", "over"}
       /\ request[q].pc = "picked" => request[q].at \in Instances
  /\ turns \in [Instances -> 0..MaxRequests]
  /\ \A c \in Clients : conn[c].pc # "idle" => conn[c].at \in Instances

(* All who are connected to a room, or about to be, are on one instance,   *)
(* whatever fails and comes back in between and however they spell the     *)
(* default room: no flag moves a room (consistent_hash.go's comment).      *)
RoomOnOneInstance ==
  \A c, d \in Clients :
    (conn[c].pc # "idle" /\ conn[d].pc # "idle" /\ conn[c].room = conn[d].room)
      => conn[c].at = conn[d].at

(* lookup finds the point that comes first clockwise from the hash.        *)
Distance(key, p) == (HashPoint(p) + Positions - HashKey(key)) % Positions

LookupIsClockwise ==
  \A key \in Keys : \E p \in Points :
    /\ LookupIn(Instances, key) = p[1]
    /\ \A r \in Points : Distance(key, p) <= Distance(key, r)

(* An instance that is added takes rooms, and no room moves between the    *)
(* others: the ring is worth its trouble.                                  *)
ScaleOutMovesToNew ==
  \A b \in Instances, key \in Keys :
    (Cardinality(Instances) > 1 /\ LookupIn(Instances, key) # b)
      => LookupIn(Instances \ {b}, key) = LookupIn(Instances, key)

(* No request is sent to an instance on the strength of the optimistic     *)
(* default: the flag of whatever is picked comes from a probe, because     *)
(* Start waits for the first sweep (backend.go's comment).                 *)
NoBlindPick ==
  /\ \A q \in Requests : request[q].pc = "picked" => request[q].at \in probed
  /\ \A c \in Clients : conn[c].pc = "picked" => conn[c].at \in probed

(* As long as the flags stay as they are, no instance gets two requests    *)
(* more than another healthy one, however the picks interleave: a dead     *)
(* instance does not burden its neighbour (round_robin.go's comment).      *)
(* Picks from a list that was read before the last change of a flag are    *)
(* the exception: such a pick may be unfair, and the count starts anew.    *)
EvenSpread ==
  \A b, c \in Instances : (healthy[b] /\ healthy[c]) => turns[b] <= turns[c] + 1

(* Once an instance stays up or stays down, its flag ends up saying so.    *)
FlagsConverge ==
  \A b \in Instances : /\ <>[]up[b] => <>[]healthy[b]
                       /\ <>[](~up[b]) => <>[](~healthy[b])

(* The ring search is the clockwise successor, and an instance that joins  *)
(* takes keys only for itself.                                             *)
RingIsConsistent == LookupIsClockwise /\ ScaleOutMovesToNew

(* Picks are well formed, rest on a probe and are spread evenly.           *)
PicksInv == TypeOK /\ NoBlindPick /\ EvenSpread

=============================================================================
