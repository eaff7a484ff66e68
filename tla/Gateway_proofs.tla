--------------------------- MODULE Gateway_proofs ---------------------------
(***************************************************************************)
(* Theorems about two parts of the gateway: its edge cache (EdgeCache)     *)
(* and its load balancer (LoadBalancer).                                   *)
(*                                                                         *)
(* The cache: fetchOnce lets one request fetch a hash, whose result a      *)
(* request is answered from, and that the byte count is the sum of what    *)
(* the list holds and stays within the bound, for every set of requests    *)
(* and hashes, every size of a body and every pair of caps.  The load      *)
(* balancer: the ring is the clockwise successor and stable, a room is on  *)
(* one instance, and round robin is even, for every number of instances,   *)
(* points, rooms, clients and requests.                                    *)
(***************************************************************************)
EXTENDS EdgeCache, LoadBalancer, SequenceTheorems, FiniteSetTheorems, TLAPS

-----------------------------------------------------------------------------
(* Induction over the naturals, about sets instead of predicates.          *)

(* A set of naturals has a least element. *)
LEMMA LeastNat ==
  ASSUME NEW T \in SUBSET Nat, T # {}
  PROVE  \E x \in T : \A y \in T : x <= y
<1> DEFINE R == StrictSubsetOrdering(Nat)
           F == FiniteSubsetsOf(Nat)
           U == {1..n : n \in T}
<1>1. IsWellFoundedOn(R, F)
  BY FS_StrictSubsetOrderingWellFounded
<1>2. \A n \in Nat : IsFiniteSet(1..n) /\ 1..n \in SUBSET Nat
  BY FS_Interval
<1>3. U \subseteq F /\ U # {}
  BY <1>2 DEF FiniteSubsetsOf
<1>4. PICK X \in U : \A Y \in U : ~(<<Y, X>> \in R)
  <2> HIDE DEF R, F, U
  <2> QED
    BY <1>1, <1>3, WFMin
<1>5. PICK n \in T : X = 1..n
  OBVIOUS
<1>6. ASSUME NEW m \in T, m < n PROVE FALSE
  <2>1. 1..m \subseteq 1..n /\ n \in 1..n /\ n \notin 1..m
    BY <1>6
  <2>2. <<1..m, 1..n>> \in R
    BY <2>1, <1>2 DEF StrictSubsetOrdering
  <2> QED
    BY <2>2, <1>4, <1>5
<1> QED
  BY <1>6

(* What holds of 0 and goes on from n to n + 1 holds up to N. *)
LEMMA UpTo ==
  ASSUME NEW N \in Nat, NEW P, 0 \in P, \A n \in 0..(N - 1) : n \in P => n + 1 \in P
  PROVE  \A n \in 0..N : n \in P
<1> SUFFICES ASSUME NEW n \in 0..N, n \notin P PROVE FALSE
  OBVIOUS
<1> DEFINE T == {k \in 0..N : k \notin P}
<1>1. T \in SUBSET Nat /\ T # {}
  OBVIOUS
<1>2. PICK x \in T : \A y \in T : x <= y
  BY <1>1, LeastNat
<1>3. x # 0 /\ x - 1 \in 0..(N - 1) /\ x - 1 \notin T
  BY <1>2
<1> QED
  BY <1>3

(* A bounded set of naturals has a greatest element. *)
LEMMA GreatestNat ==
  ASSUME NEW N \in Nat, NEW T \in SUBSET (0..N), T # {}
  PROVE  Max(T) \in T /\ \A y \in T : y <= Max(T)
<1> DEFINE U == {N - k : k \in T}
<1>0. \A k \in T : k \in 0..N /\ N - k \in Nat
  OBVIOUS
<1>1. U \in SUBSET Nat /\ U # {}
  BY <1>0
<1>2. PICK u \in U : \A v \in U : u <= v
  <2> HIDE DEF U
  <2> QED
    BY <1>1, LeastNat
<1>3. PICK k \in T : u = N - k
  OBVIOUS
<1>4. \A y \in T : k >= y
  BY <1>2, <1>3
<1> QED
  BY <1>4 DEF Max

-----------------------------------------------------------------------------
(* Arithmetic.                                                             *)

\* Remainders of a number within one, or one more, division.
LEMMA SmallRemainder ==
  ASSUME NEW m \in Nat \ {0}, NEW d \in 0..(m - 1)
  PROVE  d % m = d /\ (d + m) % m = d
OBVIOUS

\* The remainder of the next number.
LEMMA NextRemainder ==
  ASSUME NEW n \in Nat, NEW L \in Nat \ {0}
  PROVE  /\ n % L \in 0..(L - 1)
         /\ (n + 1) % L = IF (n % L) + 1 = L THEN 0 ELSE (n % L) + 1
<1>1. PICK d \in Int, c \in 0..(L - 1) : d = n \div L /\ c = n % L
  OBVIOUS
<1>2. PICK e \in Int, f \in 0..(L - 1) : e = (n + 1) \div L /\ f = (n + 1) % L
  OBVIOUS
<1>3. n = L * d + c /\ n + 1 = L * e + f
  BY <1>1, <1>2
<1>4. L * (e - d) = c + 1 - f
  BY <1>3
<1>5. e - d < 2
  <2>1. e - d >= 2 => L * (e - d) >= L * 2
    OBVIOUS
  <2> QED
    BY <1>4, <2>1
<1>6. e - d > -1
  <2>1. e - d <= -1 => L * (e - d) <= L * (-1)
    OBVIOUS
  <2> QED
    BY <1>4, <2>1
<1>7. e - d \in {0, 1}
  BY <1>5, <1>6
<1>8. L * 0 = 0 /\ L * 1 = L
  OBVIOUS
<1>9. c + 1 - f \in {0, L}
  BY <1>4, <1>7, <1>8
<1> QED
  BY <1>1, <1>2, <1>9

-----------------------------------------------------------------------------
(* Positions in an order.                                                  *)

StrictOrder(S, R) ==
  /\ \A x \in S : <<x, x>> \notin R
  /\ \A x, y \in S : x # y => <<x, y>> \in R \/ <<y, x>> \in R
  /\ \A x, y, z \in S : <<x, y>> \in R /\ <<y, z>> \in R => <<x, z>> \in R

NumberBefore(S, R, x) == Cardinality({y \in S : <<y, x>> \in R})

\* In a finite set with a strict order, the elements are numbered without gaps
\* by how many are before them.
LEMMA Numbered ==
  ASSUME NEW S, IsFiniteSet(S), NEW R, StrictOrder(S, R)
  PROVE  /\ Cardinality(S) \in Nat
         /\ \A x \in S : NumberBefore(S, R, x) \in 0..(Cardinality(S) - 1)
         /\ \A x, y \in S : <<x, y>> \in R => NumberBefore(S, R, x) < NumberBefore(S, R, y)
         /\ \A x, y \in S : NumberBefore(S, R, x) = NumberBefore(S, R, y) => x = y
         /\ \A k \in 0..(Cardinality(S) - 1) : \E x \in S : NumberBefore(S, R, x) = k
<1> DEFINE B(x) == {y \in S : <<y, x>> \in R}
           f == [x \in S |-> NumberBefore(S, R, x)]
           T == 0..(Cardinality(S) - 1)
<1>0. Cardinality(S) \in Nat
  BY FS_CardinalityType
<1>1. ASSUME NEW x \in S PROVE NumberBefore(S, R, x) \in T
  <2>1. IsFiniteSet(B(x)) /\ Cardinality(B(x)) <= Cardinality(S)
        /\ (Cardinality(S) = Cardinality(B(x)) => S = B(x))
    BY FS_Subset
  <2>2. Cardinality(B(x)) \in Nat
    BY <2>1, FS_CardinalityType
  <2>3. S # B(x)
    BY DEF StrictOrder
  <2> HIDE DEF B
  <2>4. Cardinality(B(x)) # Cardinality(S)
    BY <2>1, <2>3
  <2>5. Cardinality(B(x)) \in T
    BY <2>1, <2>2, <2>4, <1>0
  <2> QED
    BY <2>5 DEF NumberBefore, B
<1>2. ASSUME NEW x \in S, NEW y \in S, <<x, y>> \in R
      PROVE  NumberBefore(S, R, x) < NumberBefore(S, R, y)
  <2>1. IsFiniteSet(B(y))
    BY FS_Subset
  <2>2. B(x) \subseteq B(y) /\ x \in B(y) /\ x \notin B(x)
    BY <1>2 DEF StrictOrder
  <2>4. NumberBefore(S, R, x) = Cardinality(B(x)) /\ NumberBefore(S, R, y) = Cardinality(B(y))
    BY DEF NumberBefore
  <2> HIDE DEF B
  <2>3. IsFiniteSet(B(x)) /\ Cardinality(B(x)) <= Cardinality(B(y)) /\ Cardinality(B(x)) # Cardinality(B(y))
    BY <2>1, <2>2, FS_Subset
  <2>5. Cardinality(B(x)) \in Nat /\ Cardinality(B(y)) \in Nat
    BY <2>1, <2>3, FS_CardinalityType
  <2> QED
    BY <2>3, <2>4, <2>5
<1>3. ASSUME NEW x \in S, NEW y \in S, NumberBefore(S, R, x) = NumberBefore(S, R, y)
      PROVE  x = y
  <2>1. NumberBefore(S, R, x) \in Nat
    BY <1>1, <1>0
  <2>2. ~(NumberBefore(S, R, x) < NumberBefore(S, R, y)) /\ ~(NumberBefore(S, R, y) < NumberBefore(S, R, x))
    BY <2>1, <1>3
  <2> QED
    BY <2>2, <1>2 DEF StrictOrder
<1>4. ASSUME NEW k \in T PROVE \E x \in S : NumberBefore(S, R, x) = k
  <2>1. f \in Injection(S, T)
    BY <1>1, <1>3 DEF Injection, IsInjective
  <2>2. IsFiniteSet(T) /\ Cardinality(T) = Cardinality(S)
    <3>1. Cardinality(S) - 1 \in Int /\ 0 \in Int
      BY <1>0
    <3>2. IsFiniteSet(T) /\ Cardinality(T) = IF 0 > Cardinality(S) - 1 THEN 0 ELSE (Cardinality(S) - 1) - 0 + 1
      BY <3>1, FS_Interval
    <3> QED
      BY <3>2, <1>0
  <2>3. f \in Surjection(S, T)
    <3> HIDE DEF f, T
    <3> QED
      BY <2>1, <2>2, FS_Injection
  <2> QED
    BY <2>3 DEF Surjection
<1> QED
  BY <1>0, <1>1, <1>2, <1>3, <1>4

-----------------------------------------------------------------------------
(* The edge cache: the handler.                                            *)

USE EdgeCacheAssumption

(* The part of TypeOK that is about the handler. *)
HandlerTypeOK ==
  /\ inflight \in [Hashes -> Gets \cup {Nobody}]
  /\ pc \in [Gets -> {"new", "missed", "waiting", "fetching", "fetched", "stored",
                      "released", "served", "passing", "answered"}]
  /\ hash \in [Gets -> Hashes]
  /\ leader \in [Gets -> Gets \cup {Nobody}]
  /\ result \in [Gets -> Results \cup {"none"}]
  /\ done \in SUBSET Gets
  /\ reply \in [Gets -> {"none", "hit", "entry", "bypass", "status", "bad gateway"}]

(* The inflight map names the leader of a fetch exactly while it has not   *)
(* released it, and under the hash it fetches.                             *)
InflightInv ==
  \A q \in Gets :
    /\ pc[q] \in {"fetching", "fetched", "stored"} => inflight[hash[q]] = q
    /\ \A h \in Hashes :
         inflight[h] = q => hash[q] = h /\ pc[q] \in {"fetching", "fetched", "stored"}

(* Whose result a request holds: its own while it leads, nobody's before   *)
(* it has asked, and always one of its own hash.                           *)
LeaderInv ==
  \A q \in Gets :
    /\ pc[q] \in {"fetching", "fetched", "stored", "released"} => leader[q] = q
    /\ pc[q] \in {"waiting", "served", "passing"} => leader[q] # Nobody
    /\ \A p \in Gets : leader[q] = p => hash[p] = hash[q]

(* A result is written once, before its done is closed; whoever is past    *)
(* the wait has a written one.                                             *)
ResultInv ==
  \A q \in Gets :
    /\ pc[q] \in {"new", "missed", "fetching"} => result[q] = "none"
    /\ pc[q] \in {"fetched", "stored", "released"} => result[q] # "none"
    /\ q \in done => result[q] # "none"
    /\ pc[q] # "answered" => reply[q] = "none"
    /\ reply[q] = "entry" => leader[q] # Nobody
    /\ \A p \in Gets : leader[q] = p =>
         /\ pc[q] \in {"served", "passing"} => result[p] # "none"
         /\ reply[q] = "entry" => result[p] = "entry"

HandlerInv == HandlerTypeOK /\ InflightInv /\ LeaderInv /\ ResultInv

(* The invariant gives what the run checks. *)
LEMMA HandlerImplies == HandlerInv => OneFetch /\ ServedFromResult
<1> SUFFICES ASSUME HandlerInv PROVE OneFetch /\ ServedFromResult
  OBVIOUS
<1>1. OneFetch
  BY DEF HandlerInv, InflightInv, OneFetch
<1>2. \A q \in Gets : leader[q] # Nobody => leader[q] \in Gets
  BY DEF HandlerInv, HandlerTypeOK
<1>3. ServedFromResult
  BY <1>2 DEF HandlerInv, LeaderInv, ResultInv, ServedFromResult
<1> QED
  BY <1>1, <1>3

(* Nothing is under way. *)
LEMMA HandlerInit == CacheInit => HandlerInv
BY DEF CacheInit, HandlerInv, HandlerTypeOK, InflightInv, LeaderInv, ResultInv, Results

(* One request takes one step.  Of each action the proof first says what   *)
(* it does to the fields of every request.                                 *)
LEMMA HandlerServe == ASSUME HandlerInv, NEW q \in Gets, Serve(q) PROVE HandlerInv'
<1>h. HandlerTypeOK /\ InflightInv /\ LeaderInv /\ ResultInv
  BY DEF HandlerInv
<1>n. \A p \in Gets : p # Nobody
  OBVIOUS
<1>t. \A p \in Gets : hash[p] \in Hashes
  BY <1>h DEF HandlerTypeOK
<1>1. CASE Lookup(q)
  <2>0. /\ inflight' = inflight /\ leader' = leader /\ hash' = hash /\ result' = result /\ done' = done
        /\ pc[q] = "new" /\ \A p \in Gets : p # q => reply'[p] = reply[p]
        /\ \/ pc'[q] = "answered" /\ reply'[q] = "hit"
           \/ pc'[q] = "missed" /\ reply'[q] = reply[q]
        /\ \A p \in Gets : p # q => pc'[p] = pc[p]
    BY <1>1, <1>h DEF Lookup, HandlerTypeOK
  <2>1. HandlerTypeOK'
    BY <1>1, <1>h DEF Lookup, HandlerTypeOK
  <2>2. InflightInv'
    BY <2>0, <1>h, <1>n DEF InflightInv
  <2>3. LeaderInv'
    BY <2>0, <1>h, <1>n DEF LeaderInv
  <2>4. ResultInv'
    BY <2>0, <1>h, <1>n DEF ResultInv, LeaderInv
  <2> QED
    BY <2>1, <2>2, <2>3, <2>4 DEF HandlerInv
<1>2. CASE FetchOnce(q)
  <2>0. /\ hash' = hash /\ result' = result /\ done' = done /\ reply' = reply
        /\ pc[q] = "missed"
        /\ \A p \in Gets : p # q => pc'[p] = pc[p] /\ leader'[p] = leader[p]
    BY <1>2, <1>h DEF FetchOnce, HandlerTypeOK
  <2>1. CASE Joins(q)
    <3>1. /\ inflight' = inflight /\ leader' = [leader EXCEPT ![q] = inflight[hash[q]]]
          /\ pc' = [pc EXCEPT ![q] = "waiting"]
      BY <1>2, <2>1 DEF FetchOnce
    <3>2. PICK p \in Gets : inflight[hash[q]] = p
      BY <2>1, <1>h, <1>t DEF Joins, HandlerTypeOK
    <3>3. pc'[q] = "waiting" /\ leader'[q] = p
      BY <3>1, <3>2, <1>h DEF HandlerTypeOK
    <3>4. HandlerTypeOK'
      BY <2>0, <3>1, <3>2, <1>h DEF HandlerTypeOK
    <3>5. InflightInv'
      BY <2>0, <3>1, <3>3, <1>h DEF InflightInv
    <3>6. hash[p] = hash[q]
      BY <3>2, <1>h, <1>t DEF InflightInv
    <3>7. LeaderInv'
      BY <2>0, <3>3, <3>6, <1>h, <1>n DEF LeaderInv
    <3>8. reply[q] # "entry"
      BY <2>0, <1>h DEF ResultInv
    <3>9. ResultInv'
      BY <2>0, <3>3, <3>8, <1>h, <1>n DEF ResultInv
    <3> QED
      BY <3>4, <3>5, <3>7, <3>9 DEF HandlerInv
  <2>2. CASE ~Joins(q)
    <3>1. /\ inflight' = [inflight EXCEPT ![hash[q]] = q] /\ leader' = [leader EXCEPT ![q] = q]
          /\ pc' = [pc EXCEPT ![q] = "fetching"] /\ inflight[hash[q]] = Nobody
      BY <1>2, <2>2 DEF FetchOnce, Joins
    <3>2. /\ inflight'[hash[q]] = q /\ pc'[q] = "fetching" /\ leader'[q] = q
          /\ \A h \in Hashes : h # hash[q] => inflight'[h] = inflight[h]
      BY <3>1, <1>h, <1>t DEF HandlerTypeOK
    <3>3. HandlerTypeOK'
      BY <2>0, <3>1, <1>h, <1>t DEF HandlerTypeOK
    <3>4. InflightInv'
      BY <2>0, <3>1, <3>2, <1>h, <1>n, <1>t DEF InflightInv
    <3>5. LeaderInv'
      BY <2>0, <3>2, <1>h, <1>n DEF LeaderInv
    <3>6. reply[q] # "entry"
      BY <2>0, <1>h DEF ResultInv
    <3>7. ResultInv'
      BY <2>0, <3>2, <3>6, <1>h, <1>n DEF ResultInv
    <3> QED
      BY <3>3, <3>4, <3>5, <3>7 DEF HandlerInv
  <2> QED
    BY <2>1, <2>2
<1>3. CASE Store(q)
  <2>0. /\ inflight' = inflight /\ leader' = leader /\ hash' = hash /\ result' = result /\ done' = done /\ reply' = reply
        /\ pc[q] = "fetched" /\ pc'[q] = "stored"
        /\ \A p \in Gets : p # q => pc'[p] = pc[p]
    BY <1>3, <1>h DEF Store, HandlerTypeOK
  <2>1. HandlerTypeOK'
    BY <1>3, <1>h DEF Store, HandlerTypeOK
  <2>2. InflightInv'
    BY <2>0, <1>h, <1>n DEF InflightInv
  <2>3. LeaderInv'
    BY <2>0, <1>h, <1>n DEF LeaderInv
  <2>4. ResultInv'
    BY <2>0, <1>h, <1>n DEF ResultInv, LeaderInv
  <2> QED
    BY <2>1, <2>2, <2>3, <2>4 DEF HandlerInv
<1>4. CASE Release(q)
  <2>0. /\ leader' = leader /\ hash' = hash /\ result' = result /\ done' = done /\ reply' = reply
        /\ pc[q] = "stored" /\ pc'[q] = "released"
        /\ inflight'[hash[q]] = Nobody /\ \A h \in Hashes : h # hash[q] => inflight'[h] = inflight[h]
        /\ \A p \in Gets : p # q => pc'[p] = pc[p]
    BY <1>4, <1>h DEF Release, HandlerTypeOK
  <2>1. HandlerTypeOK'
    BY <1>4, <1>h DEF Release, HandlerTypeOK
  <2>2. InflightInv'
    BY <2>0, <1>h, <1>n, <1>t DEF InflightInv
  <2>3. LeaderInv'
    BY <2>0, <1>h, <1>n DEF LeaderInv
  <2>4. ResultInv'
    BY <2>0, <1>h, <1>n DEF ResultInv, LeaderInv
  <2> QED
    BY <2>1, <2>2, <2>3, <2>4 DEF HandlerInv
<1>5. CASE Wake(q)
  <2>0. /\ inflight' = inflight /\ leader' = leader /\ hash' = hash /\ result' = result /\ reply' = reply
        /\ pc[q] = "released" /\ pc'[q] = "served" /\ done' = done \cup {q}
        /\ \A p \in Gets : p # q => pc'[p] = pc[p]
    BY <1>5, <1>h DEF Wake, HandlerTypeOK
  <2>1. HandlerTypeOK'
    BY <1>5, <1>h DEF Wake, HandlerTypeOK
  <2>2. InflightInv'
    BY <2>0, <1>h, <1>n DEF InflightInv
  <2>3. LeaderInv'
    BY <2>0, <1>h, <1>n DEF LeaderInv
  <2>4. ResultInv'
    BY <2>0, <1>h, <1>n DEF ResultInv, LeaderInv
  <2> QED
    BY <2>1, <2>2, <2>3, <2>4 DEF HandlerInv
<1>6. CASE Wait(q)
  <2>0. /\ inflight' = inflight /\ leader' = leader /\ hash' = hash /\ result' = result /\ done' = done /\ reply' = reply
        /\ pc[q] = "waiting" /\ pc'[q] = "served" /\ leader[q] \in done
        /\ \A p \in Gets : p # q => pc'[p] = pc[p]
    BY <1>6, <1>h DEF Wait, HandlerTypeOK
  <2>1. HandlerTypeOK'
    BY <1>6, <1>h DEF Wait, HandlerTypeOK
  <2>2. InflightInv'
    BY <2>0, <1>h, <1>n DEF InflightInv
  <2>3. LeaderInv'
    BY <2>0, <1>h, <1>n DEF LeaderInv
  <2>4. ResultInv'
    BY <2>0, <1>h, <1>n DEF ResultInv, LeaderInv
  <2> QED
    BY <2>1, <2>2, <2>3, <2>4 DEF HandlerInv
<1>7. CASE Answer(q)
  <2> DEFINE r == result[leader[q]]
  <2>1. /\ inflight' = inflight /\ leader' = leader /\ hash' = hash /\ result' = result
        /\ done' = done /\ pc[q] = "served"
        /\ \/ pc' = [pc EXCEPT ![q] = "passing"] /\ reply' = reply
           \/ /\ pc' = [pc EXCEPT ![q] = "answered"] /\ r # "uncacheable"
              /\ reply' = [reply EXCEPT ![q] = Reply(r)]
    BY <1>7 DEF Answer
  <2>2. PICK p \in Gets : leader[q] = p
    BY <2>1, <1>h DEF HandlerTypeOK, LeaderInv
  <2>3. r \in Results
    BY <2>1, <2>2, <1>h DEF HandlerTypeOK, ResultInv
  <2>4. /\ r # "uncacheable" => Reply(r) \in {"entry", "status", "bad gateway"}
        /\ Reply(r) = "entry" => result[p] = "entry"
    BY <2>2, <2>3 DEF Reply, Results
  <2> HIDE DEF r
  <2>5. /\ \A x \in Gets : x # q => pc'[x] = pc[x] /\ reply'[x] = reply[x]
        /\ \/ pc'[q] = "passing" /\ reply'[q] = reply[q]
           \/ pc'[q] = "answered" /\ reply'[q] = Reply(r)
    BY <2>1, <1>h DEF HandlerTypeOK
  <2>6. HandlerTypeOK'
    <3>1. reply' \in [Gets -> {"none", "hit", "entry", "bypass", "status", "bad gateway"}]
      BY <2>1, <2>4, <1>h DEF HandlerTypeOK
    <3> QED
      BY <2>1, <3>1, <1>h DEF HandlerTypeOK
  <2>7. InflightInv'
    BY <2>1, <2>5, <1>h DEF InflightInv
  <2>8. LeaderInv'
    BY <2>1, <2>5, <1>h DEF LeaderInv
  <2>9. ResultInv'
    <3>1. reply[q] = "none" /\ result[p] # "none"
      BY <2>1, <2>2, <1>h DEF ResultInv
    <3>2. reply'[q] = "entry" => result[p] = "entry"
      BY <3>1, <2>4, <2>5
    <3>3. pc'[q] \in {"passing", "answered"} /\ (pc'[q] # "answered" => reply'[q] = "none")
      BY <3>1, <2>5
    <3>4. leader[q] = p /\ p # Nobody
      BY <2>2
    <3> QED
      BY <2>1, <2>5, <3>1, <3>2, <3>3, <3>4, <1>h DEF ResultInv
  <2> QED
    BY <2>6, <2>7, <2>8, <2>9 DEF HandlerInv
<1>8. CASE \E r \in Results : Fetch(q, r)
  <2>1. PICK r \in Results : Fetch(q, r)
    BY <1>8
  <2>2. /\ inflight' = inflight /\ leader' = leader /\ hash' = hash /\ done' = done /\ reply' = reply
        /\ pc[q] = "fetching" /\ pc' = [pc EXCEPT ![q] = "fetched"]
        /\ result' = [result EXCEPT ![q] = r]
    BY <2>1 DEF Fetch
  <2>3. /\ \A p \in Gets : p # q => pc'[p] = pc[p] /\ result'[p] = result[p]
        /\ pc'[q] = "fetched" /\ result'[q] = r
    BY <2>2, <1>h DEF HandlerTypeOK
  <2>r. r # "none" /\ result[q] = "none"
    BY <2>2, <1>h DEF Results, ResultInv
  <2>4. HandlerTypeOK'
    <3>1. result' \in [Gets -> Results \cup {"none"}]
      BY <2>2, <1>h DEF HandlerTypeOK
    <3> QED
      BY <2>2, <3>1, <1>h DEF HandlerTypeOK
  <2>5. InflightInv'
    BY <2>2, <2>3, <1>h DEF InflightInv
  <2>6. LeaderInv'
    BY <2>2, <2>3, <1>h DEF LeaderInv
  <2>7. ResultInv'
    BY <2>2, <2>3, <2>r, <1>h, <1>n DEF ResultInv, LeaderInv
  <2> QED
    BY <2>4, <2>5, <2>6, <2>7 DEF HandlerInv
<1>9. CASE \E r \in {"bypass", "status", "bad gateway"} : Passthrough(q, r)
  <2>0. /\ inflight' = inflight /\ leader' = leader /\ hash' = hash /\ result' = result /\ done' = done
        /\ pc[q] = "passing" /\ pc'[q] = "answered" /\ reply'[q] # "entry"
        /\ \A p \in Gets : p # q => reply'[p] = reply[p]
        /\ \A p \in Gets : p # q => pc'[p] = pc[p]
    BY <1>9, <1>h DEF Passthrough, HandlerTypeOK
  <2>1. HandlerTypeOK'
    <3>1. PICK r \in {"bypass", "status", "bad gateway"} : Passthrough(q, r)
      BY <1>9
    <3>2. reply' \in [Gets -> {"none", "hit", "entry", "bypass", "status", "bad gateway"}]
      BY <3>1, <1>h DEF Passthrough, HandlerTypeOK
    <3> QED
      BY <3>1, <3>2, <1>h DEF Passthrough, HandlerTypeOK
  <2>2. InflightInv'
    BY <2>0, <1>h, <1>n DEF InflightInv
  <2>3. LeaderInv'
    BY <2>0, <1>h, <1>n DEF LeaderInv
  <2>4. ResultInv'
    BY <2>0, <1>h, <1>n DEF ResultInv, LeaderInv
  <2> QED
    BY <2>1, <2>2, <2>3, <2>4 DEF HandlerInv
<1> QED
  BY <1>1, <1>2, <1>3, <1>4, <1>5, <1>6, <1>7, <1>8, <1>9 DEF Serve

(* The invariant holds all the time. *)
LEMMA HandlerAlways == CacheSpec => []HandlerInv
<1>1. HandlerInv /\ [CacheNext]_edgeVars => HandlerInv'
  <2> SUFFICES ASSUME HandlerInv, [CacheNext]_edgeVars PROVE HandlerInv'
    OBVIOUS
  <2>1. CASE CacheNext
    BY <2>1, HandlerServe DEF CacheNext
  <2>2. CASE UNCHANGED edgeVars
    <3>1. HandlerTypeOK'
      BY <2>2 DEF HandlerInv, HandlerTypeOK, edgeVars, requestVars
    <3>2. InflightInv'
      BY <2>2 DEF HandlerInv, InflightInv, edgeVars, requestVars
    <3>3. LeaderInv'
      BY <2>2 DEF HandlerInv, LeaderInv, edgeVars, requestVars
    <3>4. ResultInv'
      BY <2>2 DEF HandlerInv, ResultInv, edgeVars, requestVars
    <3> QED
      BY <3>1, <3>2, <3>3, <3>4 DEF HandlerInv
  <2> QED
    BY <2>1, <2>2
<1>2. CacheInit => HandlerInv
  BY HandlerInit
<1> QED
  BY <1>1, <1>2, PTL DEF CacheSpec

(* fetchOnce lets one request at a time fetch a hash, however many meet in *)
(* whatever stage of it.                                                   *)
THEOREM FetchIsSingle == CacheSpec => []OneFetch
<1>1. HandlerInv => OneFetch
  BY HandlerImplies
<1>2. CacheSpec => []HandlerInv
  BY HandlerAlways
<1> QED
  BY <1>1, <1>2, PTL

(* Nobody is answered from a fetch that is not over or is of another hash, *)
(* and no error is taken for an object.                                    *)
THEOREM AnswersComeFromResults == CacheSpec => []ServedFromResult
<1>1. HandlerInv => ServedFromResult
  BY HandlerImplies
<1>2. CacheSpec => []HandlerInv
  BY HandlerAlways
<1> QED
  BY <1>1, <1>2, PTL

-----------------------------------------------------------------------------
(* The bytes of a list.                                                    *)

(* Bytes is what its recursive definition says. *)
LEMMA BytesDef ==
  ASSUME NEW s \in Seq(Hashes)
  PROVE  /\ Bytes(s) \in [0..Len(s) -> Nat] /\ Bytes(s)[0] = 0
         /\ \A k \in 1..Len(s) : Bytes(s)[k] = Bytes(s)[k - 1] + Size[s[k]]
<1> DEFINE Sum(g, n) == /\ g[0] = 0
                        /\ \A k \in 1..n : g[k] = g[k - 1] + Size[s[k]]
           Rec(g) == g = [k \in 0..Len(s) |-> IF k = 0 THEN 0 ELSE g[k - 1] + Size[s[k]]]
           P == {n \in 0..Len(s) : \E g \in [0..n -> Nat] : Sum(g, n)}
<1>0. Len(s) \in Nat /\ \A k \in 1..Len(s) : Size[s[k]] \in Nat
  BY ElementOfSeq, LenProperties
<1>1. 0 \in P
  <2>1. [k \in 0..0 |-> 0] \in [0..0 -> Nat] /\ Sum([k \in 0..0 |-> 0], 0)
    OBVIOUS
  <2>2. \E g \in [0..0 -> Nat] : Sum(g, 0)
    <3> HIDE DEF Sum
    <3> QED
      BY <2>1
  <2> QED
    BY <1>0, <2>2
<1>2. ASSUME NEW n \in 0..(Len(s) - 1), n \in P PROVE n + 1 \in P
  <2>1. PICK g \in [0..n -> Nat] : Sum(g, n)
    BY <1>2
  <2> DEFINE f == [k \in 0..(n + 1) |-> IF k = n + 1 THEN g[n] + Size[s[n + 1]] ELSE g[k]]
  <2>2. f \in [0..(n + 1) -> Nat]
    BY <1>0, <2>1
  <2>3. Sum(f, n + 1)
    BY <1>0, <2>1
  <2>4. \E e \in [0..(n + 1) -> Nat] : Sum(e, n + 1)
    <3> HIDE DEF Sum, f
    <3> QED
      BY <2>2, <2>3
  <2>5. n + 1 \in 0..Len(s)
    BY <1>0
  <2> HIDE DEF Sum
  <2> QED
    BY <2>4, <2>5
<1>3. Len(s) \in P
  <2>1. \A n \in 0..(Len(s) - 1) : n \in P => n + 1 \in P
    BY <1>2
  <2> HIDE DEF P
  <2>2. \A n \in 0..Len(s) : n \in P
    BY <1>0, <1>1, <2>1, UpTo
  <2> QED
    BY <1>0, <2>2
<1>4. PICK g \in [0..Len(s) -> Nat] : Sum(g, Len(s))
  BY <1>3
<1>5. Rec(g)
  <2>1. \A k \in 0..Len(s) : g[k] = IF k = 0 THEN 0 ELSE g[k - 1] + Size[s[k]]
    BY <1>0, <1>4
  <2> QED
    BY <2>1
<1>6. Bytes(s) = CHOOSE f : Rec(f)
  BY DEF Bytes
<1>7. Rec(Bytes(s))
  <2> HIDE DEF Rec
  <2> QED
    BY <1>5, <1>6
<1>8. \A k \in 0..Len(s) : Bytes(s)[k] = IF k = 0 THEN 0 ELSE Bytes(s)[k - 1] + Size[s[k]]
  BY <1>7
<1>9. \A k \in 0..Len(s) : Bytes(s)[k] \in Nat
  <2> DEFINE Q == {k \in Nat : Bytes(s)[k] \in Nat}
  <2>1. 0 \in Q
    BY <1>0, <1>8
  <2>2. \A n \in 0..(Len(s) - 1) : n \in Q => n + 1 \in Q
    BY <1>0, <1>8
  <2>3. \A n \in 0..Len(s) : n \in Q
    <3> HIDE DEF Q
    <3> QED
      BY <1>0, <2>1, <2>2, UpTo
  <2> QED
    BY <2>3
<1>10. Bytes(s) \in [0..Len(s) -> Nat]
  BY <1>7, <1>9
<1>11. \A k \in 1..Len(s) : k \in 0..Len(s) /\ k # 0
  BY <1>0
<1> QED
  BY <1>0, <1>8, <1>10, <1>11

(* A prefix uses what its entries use. *)
LEMMA BytesPrefix ==
  ASSUME NEW s \in Seq(Hashes), NEW t \in Seq(Hashes), Len(t) <= Len(s),
         \A k \in 1..Len(t) : t[k] = s[k]
  PROVE  \A k \in 0..Len(t) : Bytes(t)[k] = Bytes(s)[k]
<1> DEFINE P == {k \in Nat : Bytes(t)[k] = Bytes(s)[k]}
<1>0. Len(s) \in Nat /\ Len(t) \in Nat
  BY LenProperties
<1>1. 0 \in P
  BY BytesDef
<1>2. ASSUME NEW n \in 0..(Len(t) - 1), n \in P PROVE n + 1 \in P
  <2>1. n + 1 \in 1..Len(t) /\ n + 1 \in 1..Len(s) /\ (n + 1) - 1 = n
    BY <1>0
  <2>2. Bytes(t)[n + 1] = Bytes(t)[n] + Size[t[n + 1]] /\ Bytes(s)[n + 1] = Bytes(s)[n] + Size[s[n + 1]]
    BY <2>1, BytesDef
  <2> QED
    BY <2>1, <2>2, <1>2
<1>3. \A k \in 0..Len(t) : k \in P
  <2> HIDE DEF P
  <2> QED
    BY <1>0, <1>1, <1>2, UpTo
<1> QED
  BY <1>3

(* A list that is pushed back by one entry uses that much more. *)
LEMMA BytesPushed ==
  ASSUME NEW s \in Seq(Hashes), NEW t \in Seq(Hashes), Len(s) = Len(t) + 1,
         \A k \in 1..Len(t) : s[k + 1] = t[k]
  PROVE  Bytes(s)[Len(s)] = Size[s[1]] + Bytes(t)[Len(t)]
<1> DEFINE P == {k \in Nat : Bytes(s)[k + 1] = Size[s[1]] + Bytes(t)[k]}
<1>0. Len(s) \in Nat /\ Len(t) \in Nat /\ 1 \in 1..Len(s) /\ Size[s[1]] \in Nat
  BY ElementOfSeq, LenProperties
<1>1. 0 \in P
  <2>1. Bytes(s)[1] = Bytes(s)[1 - 1] + Size[s[1]] /\ Bytes(s)[0] = 0 /\ Bytes(t)[0] = 0
    BY <1>0, BytesDef
  <2> QED
    BY <1>0, <2>1
<1>2. ASSUME NEW n \in 0..(Len(t) - 1), n \in P PROVE n + 1 \in P
  <2>1. n + 1 \in 1..Len(t) /\ (n + 1) + 1 \in 1..Len(s) /\ (n + 1) - 1 = n /\ ((n + 1) + 1) - 1 = n + 1
    BY <1>0
  <2>2. Bytes(t)[n + 1] = Bytes(t)[n] + Size[t[n + 1]]
    BY <2>1, BytesDef
  <2>3. Bytes(s)[(n + 1) + 1] = Bytes(s)[n + 1] + Size[s[(n + 1) + 1]]
    BY <2>1, BytesDef
  <2>4. n \in Nat /\ n \in 0..Len(t) /\ t[n + 1] \in Hashes
    BY <2>1, <1>0, ElementOfSeq
  <2>5. Size[t[n + 1]] \in Nat /\ Bytes(t)[n] \in Nat /\ s[(n + 1) + 1] = t[n + 1]
    BY <2>1, <2>4, BytesDef
  <2> QED
    BY <2>1, <2>2, <2>3, <2>4, <2>5, <1>0, <1>2
<1>3. Len(t) \in P
  <2>1. \A n \in 0..(Len(t) - 1) : n \in P => n + 1 \in P
    BY <1>2
  <2> HIDE DEF P
  <2>2. \A n \in 0..Len(t) : n \in P
    BY <1>0, <1>1, <2>1, UpTo
  <2> QED
    BY <1>0, <2>2
<1> QED
  BY <1>0, <1>3

(* A list that loses the entry at p uses that much less. *)
LEMMA BytesRemoved ==
  ASSUME NEW s \in Seq(Hashes), NEW t \in Seq(Hashes), NEW p \in 1..Len(s), Len(t) = Len(s) - 1,
         \A k \in 1..Len(t) : t[k] = IF k < p THEN s[k] ELSE s[k + 1]
  PROVE  Bytes(t)[Len(t)] = Bytes(s)[Len(s)] - Size[s[p]]
<1> DEFINE P == {k \in Nat : /\ k < p => Bytes(t)[k] = Bytes(s)[k]
                             /\ k >= p - 1 => Bytes(t)[k] = Bytes(s)[k + 1] - Size[s[p]]}
<1>0. Len(s) \in Nat /\ Len(t) \in Nat /\ Size[s[p]] \in Nat /\ p \in Nat
  BY ElementOfSeq, LenProperties
<1>i. p - 1 \in 0..Len(s)
  BY <1>0
<1>p. Bytes(s)[p] = Bytes(s)[p - 1] + Size[s[p]] /\ Bytes(s)[p - 1] \in Nat
  BY <1>i, BytesDef
<1>1. 0 \in P
  <2>1. Bytes(s)[0] = 0 /\ Bytes(t)[0] = 0
    BY BytesDef
  <2> QED
    BY <1>0, <1>p, <2>1
<1>2. ASSUME NEW n \in 0..(Len(t) - 1), n \in P PROVE n + 1 \in P
  <2>1. /\ n \in Nat /\ n + 1 \in 1..Len(t) /\ n + 1 \in 1..Len(s) /\ (n + 1) + 1 \in 1..Len(s)
        /\ (n + 1) - 1 = n /\ ((n + 1) + 1) - 1 = n + 1 /\ n \in 0..Len(t) /\ n \in 0..Len(s)
        /\ n + 1 \in 0..Len(s)
    BY <1>0
  <2>2. Bytes(t)[n + 1] = Bytes(t)[n] + Size[t[n + 1]]
    BY <2>1, BytesDef
  <2>3. Bytes(s)[n + 1] = Bytes(s)[n] + Size[s[n + 1]]
    BY <2>1, BytesDef
  <2>4. Bytes(s)[(n + 1) + 1] = Bytes(s)[n + 1] + Size[s[(n + 1) + 1]]
    BY <2>1, BytesDef
  <2>5. /\ Size[s[n + 1]] \in Nat /\ Size[s[(n + 1) + 1]] \in Nat
        /\ Bytes(s)[n] \in Nat /\ Bytes(s)[n + 1] \in Nat
    BY <2>1, <1>0, ElementOfSeq, BytesDef
  <2>6. CASE n + 1 < p
    <3>1. Bytes(t)[n + 1] = Bytes(s)[n + 1]
      BY <2>1, <2>2, <2>3, <2>6, <1>0, <1>2
    <3>2. n + 1 >= p - 1 => n + 1 = p - 1
      <4>1. \A x, y \in Nat : x + 1 < y /\ x + 1 >= y - 1 => x + 1 = y - 1
        OBVIOUS
      <4>2. n \in Nat /\ p \in Nat
        BY <2>1, <1>0
      <4> QED
        BY <2>6, <4>1, <4>2
    <3>3. n + 1 >= p - 1 => Bytes(t)[n + 1] = Bytes(s)[(n + 1) + 1] - Size[s[p]]
      BY <3>1, <3>2, <2>1, <2>4, <2>5, <1>0, <1>p
    <3> QED
      BY <2>1, <3>1, <3>3
  <2>7. CASE n + 1 >= p
    <3>1. Bytes(t)[n] = Bytes(s)[n + 1] - Size[s[p]] /\ t[n + 1] = s[(n + 1) + 1]
      BY <2>1, <2>7, <1>0, <1>2
    <3>2. PICK a, c, z \in Nat : a = Bytes(s)[n + 1] /\ c = Size[s[p]] /\ z = Size[s[(n + 1) + 1]]
      BY <2>5, <1>0
    <3>3. Bytes(t)[n + 1] = (a - c) + z
      BY <3>1, <3>2, <2>2
    <3>4. Bytes(s)[(n + 1) + 1] - Size[s[p]] = (a + z) - c
      BY <3>2, <2>4
    <3>5. Bytes(t)[n + 1] = Bytes(s)[(n + 1) + 1] - Size[s[p]]
      BY <3>3, <3>4
    <3> QED
      BY <2>1, <2>7, <3>5, <1>0
  <2>8. n + 1 < p \/ n + 1 >= p
    BY <2>1, <1>0
  <2> QED
    BY <2>6, <2>7, <2>8
<1>3. Len(t) \in P
  <2>1. \A n \in 0..(Len(t) - 1) : n \in P => n + 1 \in P
    BY <1>2
  <2> HIDE DEF P
  <2>2. \A n \in 0..Len(t) : n \in P
    BY <1>0, <1>1, <2>1, UpTo
  <2> QED
    BY <1>0, <2>2
<1> QED
  BY <1>0, <1>3

-----------------------------------------------------------------------------
(* The list of the cache.                                                  *)

Distinct(s) == \A k, l \in DOMAIN s : s[k] = s[l] => k = l
Holds(s, h) == \E k \in DOMAIN s : s[k] = h
Total(s)    == Bytes(s)[Len(s)]

(* Without takes one entry out of the list and closes the gap. *)
LEMMA WithoutGap ==
  ASSUME NEW s \in Seq(Hashes), NEW h \in Hashes, Holds(s, h)
  PROVE  \E p \in 1..Len(s) :
           /\ s[p] = h
           /\ Without(s, h) \in Seq(Hashes) /\ Len(Without(s, h)) = Len(s) - 1
           /\ \A k \in 1..Len(Without(s, h)) :
                Without(s, h)[k] = IF k < p THEN s[k] ELSE s[k + 1]
<1> DEFINE p == CHOOSE k \in DOMAIN s : s[k] = h
           a == SubSeq(s, 1, p - 1)
           b == SubSeq(s, p + 1, Len(s))
<1>0. Len(s) \in Nat /\ DOMAIN s = 1..Len(s)
  BY LenProperties
<1>1. p \in 1..Len(s) /\ s[p] = h
  BY <1>0 DEF Holds
<1>2. Without(s, h) = a \o b
  BY DEF Without, RemoveAt, Holds
<1> HIDE DEF p
<1>r. Len(s) \in Nat /\ p \in Nat /\ 1 <= p /\ p <= Len(s)
  <2>1. Len(s) \in Nat /\ p \in 1..Len(s)
    BY <1>0, <1>1
  <2> QED
    BY <2>1
<1>3. a \in Seq(Hashes) /\ Len(a) = p - 1 /\ \A k \in 1..(p - 1) : a[k] = s[k]
  <2>1. 1 \in Nat /\ p - 1 \in Int /\ p - 1 <= Len(s)
    BY <1>0, <1>1
  <2>2. \A i \in 1..(p - 1) : s[i] \in Hashes
    BY <1>0, <1>1, ElementOfSeq
  <2>3. Len(a) = IF 1 <= p - 1 THEN (p - 1) - 1 + 1 ELSE 0
    BY <2>1, <2>2, <1>0, <1>1, SubSeqProperties
  <2>4. a \in Seq(Hashes) /\ \A i \in 1..((p - 1) - 1 + 1) : a[i] = s[1 + i - 1]
    BY <2>1, <2>2, <1>0, <1>1, SubSeqProperties
  <2> QED
    BY <2>3, <2>4, <1>0, <1>1
<1>4. b \in Seq(Hashes) /\ Len(b) = Len(s) - p /\ \A k \in 1..(Len(s) - p) : b[k] = s[p + k]
  <2>2. \A i \in (p + 1)..Len(s) : s[i] \in Hashes
    BY <1>0, <1>1, ElementOfSeq
  <2>3. Len(b) = IF p + 1 <= Len(s) THEN Len(s) - (p + 1) + 1 ELSE 0
    BY <2>2, <1>0, <1>1, SubSeqProperties
  <2>4. b \in Seq(Hashes) /\ \A i \in 1..(Len(s) - (p + 1) + 1) : b[i] = s[(p + 1) + i - 1]
    BY <2>2, <1>0, <1>1, SubSeqProperties
  <2> HIDE DEF b
  <2>5. Len(b) = Len(s) - p /\ Len(s) - (p + 1) + 1 = Len(s) - p
    <3>1. \A m, l \in Nat : /\ l - (m + 1) + 1 = l - m
                           /\ m <= l /\ ~(m + 1 <= l) => l - m = 0
      OBVIOUS
    <3>2. Len(s) - (p + 1) + 1 = Len(s) - p
      BY <3>1, <1>0, <1>1
    <3>3. ~(p + 1 <= Len(s)) => Len(s) - p = 0
      BY <1>r
    <3> QED
      BY <2>3, <3>2, <3>3
  <2>6. \A k \in 1..(Len(s) - p) : (p + 1) + k - 1 = p + k
    BY <1>0, <1>1
  <2> QED
    BY <2>4, <2>5, <2>6
<1> HIDE DEF a, b
<1>5. /\ a \o b \in Seq(Hashes) /\ Len(a \o b) = Len(s) - 1
      /\ \A k \in 1..(Len(s) - 1) : (a \o b)[k] = IF k <= p - 1 THEN a[k] ELSE b[k - (p - 1)]
  <2>1. /\ a \o b \in Seq(Hashes) /\ Len(a \o b) = Len(a) + Len(b)
        /\ \A k \in 1..(Len(a) + Len(b)) : (a \o b)[k] = IF k <= Len(a) THEN a[k] ELSE b[k - Len(a)]
    BY <1>3, <1>4, ConcatProperties
  <2>2. Len(a) + Len(b) = Len(s) - 1
    BY <1>0, <1>1, <1>3, <1>4
  <2> QED
    BY <2>1, <2>2, <1>3
<1>6. ASSUME NEW k \in 1..(Len(s) - 1) PROVE (a \o b)[k] = IF k < p THEN s[k] ELSE s[k + 1]
  <2>1. CASE k < p
    BY <2>1, <1>0, <1>1, <1>3, <1>5
  <2>2. CASE ~(k < p)
    <3>1. k - (p - 1) \in 1..(Len(s) - p) /\ p + (k - (p - 1)) = k + 1 /\ ~(k <= p - 1)
      BY <2>2, <1>0, <1>1
    <3> QED
      BY <2>2, <3>1, <1>4, <1>5
  <2> QED
    BY <2>1, <2>2
<1> QED
  BY <1>1, <1>2, <1>5, <1>6

(* The list without h holds everything else once, and uses the bytes of h  *)
(* less if h was there.                                                    *)
LEMMA WithoutAccount ==
  ASSUME NEW s \in Seq(Hashes), NEW h \in Hashes, Distinct(s)
  PROVE  /\ Without(s, h) \in Seq(Hashes)
         /\ Distinct(Without(s, h)) /\ ~Holds(Without(s, h), h)
         /\ Total(Without(s, h)) = Total(s) - (IF Holds(s, h) THEN Size[h] ELSE 0)
<1> DEFINE t == Without(s, h)
<1>0. Len(s) \in Nat /\ DOMAIN s = 1..Len(s) /\ Total(s) \in Nat
  BY LenProperties, BytesDef DEF Total
<1>1. CASE ~Holds(s, h)
  <2>1. t = s
    BY <1>1 DEF Without, Holds
  <2> QED
    BY <2>1, <1>0, <1>1
<1>2. CASE Holds(s, h)
  <2>1. PICK p \in 1..Len(s) :
          /\ s[p] = h /\ t \in Seq(Hashes) /\ Len(t) = Len(s) - 1
          /\ \A k \in 1..Len(t) : t[k] = IF k < p THEN s[k] ELSE s[k + 1]
    BY <1>2, WithoutGap
  <2> HIDE DEF t
  <2>2. Len(t) \in Nat /\ DOMAIN t = 1..Len(t)
    BY <2>1, LenProperties
  <2>3. \A k \in 1..Len(t) : \E i \in 1..Len(s) : /\ t[k] = s[i] /\ i # p
                                                  /\ i = IF k < p THEN k ELSE k + 1
    <3> TAKE k \in 1..Len(t)
    <3>0. k \in 1..(Len(s) - 1) /\ p \in 1..Len(s)
      BY <2>1
    <3>1. k \in 1..Len(s) /\ k + 1 \in 1..Len(s) /\ (k < p => k # p) /\ (~(k < p) => k + 1 # p)
      BY <3>0, <1>0
    <3> QED
      BY <2>1, <3>1
  <2>4. ~Holds(t, h)
    BY <2>1, <2>2, <2>3, <1>0 DEF Holds, Distinct
  <2>5. ASSUME NEW k \in 1..Len(t), NEW l \in 1..Len(t), t[k] = t[l] PROVE k = l
    <3>1. PICK i \in 1..Len(s) : t[k] = s[i] /\ i = IF k < p THEN k ELSE k + 1
      BY <2>3
    <3>2. PICK j \in 1..Len(s) : t[l] = s[j] /\ j = IF l < p THEN l ELSE l + 1
      BY <2>3
    <3>3. i = j
      BY <2>5, <3>1, <3>2, <1>0 DEF Distinct
    <3> QED
      BY <3>1, <3>2, <3>3, <2>2, <1>0
  <2>6. Distinct(t)
    BY <2>2, <2>5 DEF Distinct
  <2>7. Total(t) = Total(s) - Size[h]
    BY <2>1, BytesRemoved DEF Total
  <2> QED
    BY <2>1, <2>4, <2>6, <2>7, <1>2 DEF t
<1> QED
  BY <1>1, <1>2

(* A new entry in front of a list that does not hold it. *)
LEMMA PushedAccount ==
  ASSUME NEW t \in Seq(Hashes), NEW h \in Hashes, Distinct(t), ~Holds(t, h)
  PROVE  /\ <<h>> \o t \in Seq(Hashes) /\ Distinct(<<h>> \o t)
         /\ Total(<<h>> \o t) = Size[h] + Total(t)
<1> DEFINE s == <<h>> \o t
<1>0. Len(t) \in Nat /\ DOMAIN t = 1..Len(t)
  BY LenProperties
<1>1. <<h>> \in Seq(Hashes) /\ Len(<<h>>) = 1 /\ <<h>>[1] = h
  OBVIOUS
<1>2. /\ s \in Seq(Hashes) /\ Len(s) = 1 + Len(t)
      /\ \A k \in 1..(1 + Len(t)) : s[k] = IF k <= 1 THEN <<h>>[k] ELSE t[k - 1]
  BY <1>0, <1>1, ConcatProperties
<1> HIDE DEF s
<1>3. DOMAIN s = 1..Len(s) /\ s[1] = h
  BY <1>0, <1>1, <1>2, LenProperties
<1>4. \A k \in 2..Len(s) : k - 1 \in 1..Len(t) /\ s[k] = t[k - 1]
  BY <1>0, <1>2
<1>5. \A k \in 1..Len(t) : s[k + 1] = t[k]
  <2> TAKE k \in 1..Len(t)
  <2>1. k + 1 \in 2..Len(s) /\ (k + 1) - 1 = k
    BY <1>0, <1>2
  <2> QED
    BY <2>1, <1>4
<1>6. Total(s) = Size[h] + Total(t)
  <2>1. Len(s) = Len(t) + 1
    BY <1>0, <1>2
  <2> QED
    BY <2>1, <1>2, <1>3, <1>5, BytesPushed DEF Total
<1>7. ASSUME NEW k \in 1..Len(s), NEW l \in 1..Len(s), s[k] = s[l] PROVE k = l
  <2>1. \A i \in 2..Len(s) : s[i] # h
    BY <1>4, <1>0 DEF Holds
  <2>2. CASE k = 1 \/ l = 1
    BY <2>1, <2>2, <1>7, <1>3, <1>0, <1>2
  <2>3. CASE k # 1 /\ l # 1
    <3>1. k \in 2..Len(s) /\ l \in 2..Len(s)
      BY <2>3, <1>0, <1>2
    <3>2. t[k - 1] = t[l - 1] /\ k - 1 \in DOMAIN t /\ l - 1 \in DOMAIN t
      BY <3>1, <1>4, <1>7, <1>0
    <3>3. k - 1 = l - 1
      BY <3>2 DEF Distinct
    <3> QED
      BY <3>3, <1>0, <1>2
  <2> QED
    BY <2>2, <2>3
<1>8. Distinct(s)
  BY <1>3, <1>7 DEF Distinct
<1> QED
  BY <1>2, <1>6, <1>8 DEF s

(* The first entries of a list. *)
LEMMA PrefixAccount ==
  ASSUME NEW t \in Seq(Hashes), NEW n \in 0..Len(t), Distinct(t)
  PROVE  /\ SubSeq(t, 1, n) \in Seq(Hashes) /\ Distinct(SubSeq(t, 1, n))
         /\ \A h : ~Holds(t, h) => ~Holds(SubSeq(t, 1, n), h)
         /\ Total(SubSeq(t, 1, n)) = Bytes(t)[n]
<1> DEFINE s == SubSeq(t, 1, n)
<1>0. Len(t) \in Nat /\ DOMAIN t = 1..Len(t) /\ n \in Nat
  BY LenProperties
<1>1. s \in Seq(Hashes) /\ Len(s) = n /\ \A k \in 1..n : s[k] = t[k]
  <2>1. \A i \in 1..n : t[i] \in Hashes
    BY <1>0, ElementOfSeq
  <2>2. Len(s) = IF 1 <= n THEN n - 1 + 1 ELSE 0
    BY <2>1, <1>0, SubSeqProperties
  <2>3. s \in Seq(Hashes) /\ \A i \in 1..(n - 1 + 1) : s[i] = t[1 + i - 1]
    BY <2>1, <1>0, SubSeqProperties
  <2> QED
    BY <2>2, <2>3, <1>0
<1> HIDE DEF s
<1>2. DOMAIN s = 1..n /\ \A k \in DOMAIN s : k \in DOMAIN t /\ s[k] = t[k]
  BY <1>0, <1>1, LenProperties
<1>3. Distinct(s) /\ \A h : ~Holds(t, h) => ~Holds(s, h)
  BY <1>2 DEF Distinct, Holds
<1>4. Total(s) = Bytes(t)[n]
  <2>1. Len(s) <= Len(t) /\ n \in 0..Len(s)
    BY <1>0, <1>1
  <2> QED
    BY <2>1, <1>1, BytesPrefix DEF Total
<1> QED
  BY <1>1, <1>3, <1>4 DEF s


-----------------------------------------------------------------------------
(* The cache's part of the invariant.                                      *)

CachePart == order \in Seq(Hashes) /\ used \in Nat /\ BytesAccounted

(* In terms of the lemmas above. *)
LEMMA CachePartDef ==
  ASSUME NEW s \in Seq(Hashes)
  PROVE  Behind(s, 0) = Total(s) /\ Total(s) \in Nat
<1>1. 0 \in 0..Len(s) /\ Len(s) \in 0..Len(s)
  BY LenProperties
<1>2. Bytes(s)[0] = 0 /\ Bytes(s)[Len(s)] \in Nat
  BY <1>1, BytesDef
<1> QED
  BY <1>2 DEF Behind, Total

(* Get moves the entry it finds to the front. *)
LEMMA CacheMoveToFront ==
  ASSUME CachePart, NEW h \in Hashes, InCache(h), MoveToFront(h)
  PROVE  CachePart'
<1> DEFINE t == Without(order, h)
<1>0. /\ order \in Seq(Hashes) /\ used \in Nat /\ used = Total(order) /\ used <= MaxBytes
      /\ Distinct(order) /\ Holds(order, h) /\ Size[h] \in Nat
  BY CachePartDef DEF CachePart, BytesAccounted, Distinct, InCache, Holds
<1>1. /\ t \in Seq(Hashes) /\ Distinct(t) /\ ~Holds(t, h) /\ Total(t) = Total(order) - Size[h]
  BY <1>0, WithoutAccount
<1> HIDE DEF t
<1>2. /\ <<h>> \o t \in Seq(Hashes) /\ Distinct(<<h>> \o t) /\ Total(<<h>> \o t) = Size[h] + Total(t)
  BY <1>1, PushedAccount
<1>3. order' = <<h>> \o t /\ used' = used
  BY DEF MoveToFront, t
<1>4. order' \in Seq(Hashes) /\ Distinct(order') /\ used' = Total(order')
  BY <1>0, <1>1, <1>2, <1>3
<1>5. Behind(order, 0)' = Total(order')
  BY <1>4, CachePartDef DEF Behind, Total
<1> QED
  BY <1>0, <1>3, <1>4, <1>5 DEF CachePart, BytesAccounted, Distinct

(* Put evicts from the back until the new entry fits. *)
LEMMA CachePut ==
  ASSUME CachePart, NEW h \in Hashes, Put(h)
  PROVE  CachePart'
<1> DEFINE t == Without(order, h)
           u == used - Freed(h)
           T == {0} \cup {k \in 0..Len(t) : u - Behind(t, k) + Size[h] <= MaxBytes}
           n == Kept(t, u, Size[h])
           s == SubSeq(t, 1, n)
<1>0. /\ order \in Seq(Hashes) /\ used \in Nat /\ used = Total(order) /\ used <= MaxBytes
      /\ Distinct(order) /\ Size[h] \in Nat
      /\ Freed(h) = IF Holds(order, h) THEN Size[h] ELSE 0
  BY CachePartDef DEF CachePart, BytesAccounted, Distinct, InCache, Holds, Freed
<1>1. CASE Size[h] > MaxEntry \/ Size[h] > MaxBytes
  BY <1>1 DEF Put, CachePart, BytesAccounted, Behind, cacheVars
<1>2. CASE ~(Size[h] > MaxEntry \/ Size[h] > MaxBytes)
  <2>1. /\ t \in Seq(Hashes) /\ Distinct(t) /\ ~Holds(t, h) /\ Total(t) = u
        /\ Len(t) \in Nat /\ u \in Nat
    BY <1>0, WithoutAccount, CachePartDef, LenProperties
  <2>2. order' = <<h>> \o s /\ used' = u - Behind(t, n) + Size[h]
    BY <1>2 DEF Put
  <2>3. n = Max(T)
    BY DEF Kept, Max
  <2>k. \A k \in 0..Len(t) : Bytes(t)[k] \in Nat /\ u - Behind(t, k) = Bytes(t)[k]
    <3> HIDE DEF t, u
    <3>1. \A k \in 0..Len(t) : Bytes(t)[k] \in Nat
      BY <2>1, BytesDef
    <3>2. \A k : Behind(t, k) = u - Bytes(t)[k]
      BY <2>1 DEF Behind, Total
    <3>3. \A x, y \in Nat : x - (x - y) = y
      OBVIOUS
    <3> QED
      BY <2>1, <3>1, <3>2, <3>3
  <2>4. T \in SUBSET (0..Len(t)) /\ T # {}
    BY <2>1
  <2>5. n \in T
    <3> HIDE DEF T, n, t
    <3> QED
      BY <2>1, <2>3, <2>4, GreatestNat
  <2>6. n \in 0..Len(t)
    BY <2>4, <2>5
  <2> HIDE DEF n, t, u
  <2>7. used' = Bytes(t)[n] + Size[h]
    BY <2>2, <2>6, <2>k
  <2>8. Bytes(t)[n] + Size[h] <= MaxBytes
    <3>1. CASE n = 0
      <4>1. Bytes(t)[0] = 0
        BY <2>1, BytesDef
      <4> QED
        BY <3>1, <4>1, <1>0, <1>2
    <3>2. CASE n # 0
      BY <3>2, <2>5, <2>6, <2>k
    <3> QED
      BY <3>1, <3>2
  <2>9. s \in Seq(Hashes) /\ Distinct(s) /\ ~Holds(s, h) /\ Total(s) = Bytes(t)[n]
    BY <2>1, <2>6, PrefixAccount
  <2> HIDE DEF s
  <2>10. /\ <<h>> \o s \in Seq(Hashes) /\ Distinct(<<h>> \o s)
         /\ Total(<<h>> \o s) = Size[h] + Total(s)
    BY <2>9, PushedAccount
  <2>11. /\ order' \in Seq(Hashes) /\ Distinct(order') /\ used' = Total(order')
         /\ used' \in Nat /\ used' <= MaxBytes
    BY <2>2, <2>6, <2>k, <2>7, <2>8, <2>9, <2>10, <1>0
  <2>12. Behind(order, 0)' = Total(order')
    BY <2>11, CachePartDef DEF Behind, Total
  <2> QED
    BY <2>11, <2>12 DEF CachePart, BytesAccounted, Distinct
<1> QED
  BY <1>1, <1>2

(* Every other step leaves the cache alone. *)
LEMMA CacheServe ==
  ASSUME HandlerTypeOK, CachePart, NEW q \in Gets, Serve(q)
  PROVE  CachePart'
<1>0. hash[q] \in Hashes
  BY DEF HandlerTypeOK
<1>u. UNCHANGED cacheVars => CachePart'
  BY DEF cacheVars, CachePart, BytesAccounted, Behind
<1>1. CASE Lookup(q)
  BY <1>0, <1>1, <1>u, CacheMoveToFront DEF Lookup, cacheVars
<1>2. CASE Store(q)
  BY <1>0, <1>2, <1>u, CachePut DEF Store
<1>3. CASE FetchOnce(q) \/ Release(q) \/ Wake(q) \/ Wait(q) \/ Answer(q)
  BY <1>3, <1>u DEF FetchOnce, Release, Wake, Wait, Answer, cacheVars
<1>4. CASE \E r \in Results : Fetch(q, r)
  BY <1>4, <1>u DEF Fetch, cacheVars
<1>5. CASE \E r \in {"bypass", "status", "bad gateway"} : Passthrough(q, r)
  BY <1>5, <1>u DEF Passthrough, cacheVars
<1> QED
  BY <1>1, <1>2, <1>3, <1>4, <1>5 DEF Serve

(* The count of the cache is the sum of the bodies it holds, it never      *)
(* exceeds maxBytes and no hash is held twice, whatever is fetched, found  *)
(* and evicted in whatever order and also when two leaders store one hash. *)
THEOREM BytesAreAccounted == CacheSpec => []CacheInv
<1>1. CacheInit => CachePart
  <2> SUFFICES ASSUME CacheInit PROVE CachePart
    OBVIOUS
  <2>1. order = <<>> /\ used = 0 /\ order \in Seq(Hashes) /\ Len(order) = 0 /\ DOMAIN order = {}
    BY DEF CacheInit
  <2>2. Total(order) = 0
    <3>1. Bytes(order)[0] = 0
      BY <2>1, BytesDef
    <3> QED
      BY <2>1, <3>1 DEF Total
  <2>3. Behind(order, 0) = 0
    BY <2>1, <2>2, CachePartDef
  <2> QED
    BY <2>1, <2>3 DEF CachePart, BytesAccounted
<1>2. HandlerInv /\ CachePart /\ [CacheNext]_edgeVars => CachePart'
  <2> SUFFICES ASSUME HandlerInv, CachePart, [CacheNext]_edgeVars PROVE CachePart'
    OBVIOUS
  <2>1. CASE CacheNext
    BY <2>1, CacheServe DEF CacheNext, HandlerInv
  <2>2. CASE UNCHANGED edgeVars
    BY <2>2 DEF edgeVars, cacheVars, CachePart, BytesAccounted, Behind
  <2> QED
    BY <2>1, <2>2
<1>3. HandlerInv /\ CachePart => CacheInv
  BY DEF HandlerInv, HandlerTypeOK, CachePart, CacheInv, CacheTypeOK
<1>4. CacheSpec => []HandlerInv
  BY HandlerAlways
<1> QED
  BY <1>1, <1>2, <1>3, <1>4, PTL DEF CacheSpec

HIDE EdgeCacheAssumption

-----------------------------------------------------------------------------
(* The load balancer: the ring.                                            *)

USE BalancerAssumption

-----------------------------------------------------------------------------
(* The ring.                                                               *)

\* Every load has a hash for every point, all different, and for every key.
LEMMA HashesDiffer ==
  ASSUME load \in Loads
  PROVE  /\ \A p \in Points : HashPoint(p) \in 0..(Positions - 1) /\ HashPoint(p) \in Nat
         /\ \A p, r \in Points : HashPoint(p) = HashPoint(r) => p = r
         /\ \A key \in Keys : HashKey(key) \in 0..(Positions - 1) /\ HashKey(key) \in Nat
         /\ IsFiniteSet(Points)
<1>1. load.point \in [Points -> 0..(Positions - 1)] /\ load.key \in [Keys -> 0..(Positions - 1)]
  OBVIOUS
<1>2. \A p, r \in Points : load.point[p] = load.point[r] => p = r
  OBVIOUS
<1>3. \A x \in 0..(Positions - 1) : x \in Nat
  OBVIOUS
<1>4. load.point \in Injection(Points, 0..(Positions - 1))
  BY <1>1, <1>2 DEF Injection, IsInjective
<1>5. IsFiniteSet(0..(Positions - 1))
  <2>1. 0 \in Int /\ Positions - 1 \in Int
    OBVIOUS
  <2> QED
    BY <2>1, FS_Interval
<1>6. IsFiniteSet(Points)
  BY <1>4, <1>5, FS_Injection
<1> QED
  BY <1>1, <1>2, <1>3, <1>6 DEF HashPoint, HashKey

\* The order of the points by hash.
ByHash(S) == {x \in PointsOf(S) \X PointsOf(S) : HashPoint(x[1]) < HashPoint(x[2])}

\* The rank of a point numbers the points of S without gaps, by hash.
LEMMA PointsRanked ==
  ASSUME load \in Loads, NEW S
  PROVE  LET n == Cardinality(PointsOf(S)) IN
         /\ n \in Nat /\ IsFiniteSet(PointsOf(S))
         /\ \A p \in PointsOf(S) : Rank(S, p) \in 0..(n - 1)
         /\ \A p, r \in PointsOf(S) : Rank(S, p) = Rank(S, r) => p = r
         /\ \A p, r \in PointsOf(S) : HashPoint(p) < HashPoint(r) => Rank(S, p) < Rank(S, r)
         /\ \A k \in 0..(n - 1) : \E p \in PointsOf(S) : Rank(S, p) = k
<1> DEFINE P == PointsOf(S)
           R == ByHash(S)
<1>1. P \subseteq Points
  BY DEF PointsOf
<1>2. IsFiniteSet(P)
  BY <1>1, HashesDiffer, FS_Subset
<1>3. \A p, r \in P : <<p, r>> \in R <=> HashPoint(p) < HashPoint(r)
  BY DEF ByHash
<1>h. \A p \in P : HashPoint(p) \in Nat
  BY <1>1, HashesDiffer
<1>i. \A p, r \in P : HashPoint(p) = HashPoint(r) => p = r
  BY <1>1, HashesDiffer
<1> HIDE DEF P, R
<1>4. StrictOrder(P, R)
  <2>1. \A p \in P : <<p, p>> \notin R
    BY <1>3, <1>h
  <2>2. \A p, r \in P : p # r => <<p, r>> \in R \/ <<r, p>> \in R
    BY <1>3, <1>h, <1>i
  <2>3. \A p, r, s \in P : <<p, r>> \in R /\ <<r, s>> \in R => <<p, s>> \in R
    <3>1. \A x, y, z \in Nat : x < y /\ y < z => x < z
      OBVIOUS
    <3> QED
      BY <1>3, <1>h, <3>1
  <2> QED
    BY <2>1, <2>2, <2>3 DEF StrictOrder
<1>5. \A p \in P : Rank(S, p) = NumberBefore(P, R, p)
  <2> TAKE p \in P
  <2>1. {r \in P : HashPoint(r) < HashPoint(p)} = {r \in P : <<r, p>> \in R}
    BY <1>3
  <2> QED
    BY <2>1 DEF Rank, NumberBefore, P
<1>6. /\ Cardinality(P) \in Nat
      /\ \A x \in P : NumberBefore(P, R, x) \in 0..(Cardinality(P) - 1)
      /\ \A x, y \in P : <<x, y>> \in R => NumberBefore(P, R, x) < NumberBefore(P, R, y)
      /\ \A x, y \in P : NumberBefore(P, R, x) = NumberBefore(P, R, y) => x = y
      /\ \A k \in 0..(Cardinality(P) - 1) : \E x \in P : NumberBefore(P, R, x) = k
  BY <1>2, <1>4, Numbered
<1>7. /\ \A p \in P : Rank(S, p) \in 0..(Cardinality(P) - 1)
      /\ \A p, r \in P : Rank(S, p) = Rank(S, r) => p = r
  BY <1>5, <1>6
<1>8. ASSUME NEW p \in P, NEW r \in P, HashPoint(p) < HashPoint(r)
      PROVE  Rank(S, p) < Rank(S, r)
  <2>1. <<p, r>> \in R
    BY <1>3, <1>8
  <2>2. NumberBefore(P, R, p) < NumberBefore(P, R, r)
    BY <2>1, <1>6
  <2> QED
    BY <2>2, <1>5
<1>9. \A k \in 0..(Cardinality(P) - 1) : \E p \in P : Rank(S, p) = k
  BY <1>5, <1>6
<1> QED
  BY <1>2, <1>6, <1>7, <1>8, <1>9 DEF P

\* The ring holds every point of S at the place of its rank.
LEMMA RingByRank ==
  ASSUME load \in Loads, NEW S
  PROVE  LET n == Cardinality(PointsOf(S)) IN
         /\ Ring(S) \in [1..n -> PointsOf(S)] /\ DOMAIN Ring(S) = 1..n /\ Len(Ring(S)) = n /\ n \in Nat
         /\ \A k \in 1..n : Rank(S, Ring(S)[k]) = k - 1
         /\ \A p \in PointsOf(S) : Rank(S, p) + 1 \in 1..n /\ Ring(S)[Rank(S, p) + 1] = p
<1> DEFINE n == Cardinality(PointsOf(S))
           s == Ring(S)
           C(k) == CHOOSE p \in PointsOf(S) : Rank(S, p) = k - 1
<1>0. n \in Nat /\ \A p \in PointsOf(S) : Rank(S, p) \in 0..(n - 1)
  BY PointsRanked
<1>1. s = [k \in 1..n |-> C(k)]
  BY DEF Ring
<1>2. \A k \in 1..n : C(k) \in PointsOf(S) /\ Rank(S, C(k)) = k - 1
  <2> TAKE k \in 1..n
  <2>1. k - 1 \in 0..(n - 1)
    BY <1>0
  <2>2. \E p \in PointsOf(S) : Rank(S, p) = k - 1
    BY <2>1, PointsRanked
  <2> QED
    BY <2>2
<1> HIDE DEF C, s, n
<1>3. s \in [1..n -> PointsOf(S)] /\ DOMAIN s = 1..n
  BY <1>1, <1>2
<1>4. Len(s) = n
  <2>1. s \in Seq(PointsOf(S))
    BY <1>0, <1>3, SeqDef
  <2> QED
    BY <2>1, <1>0, <1>3, LenProperties
<1>5. \A k \in 1..n : Rank(S, s[k]) = k - 1
  BY <1>1, <1>2
<1>6. ASSUME NEW p \in PointsOf(S) PROVE Rank(S, p) + 1 \in 1..n /\ s[Rank(S, p) + 1] = p
  <2>1. Rank(S, p) \in 0..(n - 1)
    BY <1>0
  <2>2. Rank(S, p) + 1 \in 1..n /\ (Rank(S, p) + 1) - 1 = Rank(S, p)
    BY <2>1, <1>0
  <2>3. s[Rank(S, p) + 1] \in PointsOf(S) /\ Rank(S, s[Rank(S, p) + 1]) = Rank(S, p)
    BY <2>2, <1>3, <1>5
  <2>4. s[Rank(S, p) + 1] = p
    BY <2>3, PointsRanked
  <2> QED
    BY <2>2, <2>4
<1> QED
  BY <1>0, <1>3, <1>4, <1>5, <1>6 DEF s, n

\* What sort.Search counts: the points of S with a smaller hash.
Smaller(S, h) == {p \in PointsOf(S) : HashPoint(p) < h}

LEMMA SearchCounts ==
  ASSUME load \in Loads, NEW S, NEW h \in Nat
  PROVE  /\ Search(Ring(S), h) = Cardinality(Smaller(S, h)) + 1
         /\ IsFiniteSet(Smaller(S, h)) /\ Cardinality(Smaller(S, h)) \in Nat
         /\ Cardinality(Smaller(S, h)) <= Cardinality(PointsOf(S))
<1> DEFINE n == Cardinality(PointsOf(S))
           s == Ring(S)
           A == {i \in DOMAIN s : HashPoint(s[i]) < h}
           B == Smaller(S, h)
           f == [i \in A |-> s[i]]
<1>0. IsFiniteSet(PointsOf(S))
  BY PointsRanked
<1>1. /\ s \in [1..n -> PointsOf(S)] /\ DOMAIN s = 1..n
      /\ \A k \in 1..n : Rank(S, s[k]) = k - 1 /\ n \in Nat
      /\ \A p \in PointsOf(S) : Rank(S, p) + 1 \in 1..n /\ s[Rank(S, p) + 1] = p
  BY RingByRank
<1>2. IsFiniteSet(B) /\ Cardinality(B) \in Nat /\ Cardinality(B) <= n
  BY <1>0, FS_Subset, FS_CardinalityType DEF Smaller
<1> HIDE DEF s, n
<1>3. f \in [A -> B]
  BY <1>1 DEF Smaller
<1>4. ASSUME NEW i \in A, NEW j \in A, f[i] = f[j] PROVE i = j
  <2>1. i \in 1..n /\ j \in 1..n /\ s[i] = s[j]
    BY <1>1, <1>4
  <2>2. i - 1 = j - 1
    BY <2>1, <1>1
  <2>3. i \in Int /\ j \in Int
    BY <2>1
  <2> QED
    BY <2>2, <2>3
<1>5. ASSUME NEW p \in B PROVE \E i \in A : f[i] = p
  <2>1. p \in PointsOf(S) /\ HashPoint(p) < h
    BY DEF Smaller
  <2>2. Rank(S, p) + 1 \in A /\ f[Rank(S, p) + 1] = p
    BY <2>1, <1>1
  <2> QED
    BY <2>2
<1> HIDE DEF A, B, f
<1>6. f \in Injection(A, B) /\ f \in Surjection(A, B)
  <2>1. DOMAIN f = A
    BY <1>3
  <2>2. \A i, j \in A : f[i] = f[j] => i = j
    BY <1>4
  <2>3. f \in Injection(A, B)
    BY <1>3, <2>1, <2>2 DEF Injection, IsInjective
  <2>4. f \in Surjection(A, B)
    BY <1>3, <1>5 DEF Surjection
  <2> QED
    BY <2>3, <2>4
<1>7. Cardinality(A) = Cardinality(B)
  BY <1>2, <1>6, FS_Injection
<1> QED
  BY <1>2, <1>7 DEF Search, A, B, n, s

\* lookup returns the instance of the first point at or after the hash, or of
\* the first point of all if there is none.
LEMMA LookupFindsSuccessor ==
  ASSUME load \in Loads, NEW S \in SUBSET Instances, S # {}, NEW key \in Keys
  PROVE  \E p \in PointsOf(S) :
           /\ LookupIn(S, key) = p[1]
           /\ \/ /\ HashPoint(p) >= HashKey(key)
                 /\ \A r \in PointsOf(S) : HashPoint(r) >= HashKey(key) => HashPoint(p) <= HashPoint(r)
              \/ \A r \in PointsOf(S) : HashPoint(r) < HashKey(key) /\ HashPoint(p) <= HashPoint(r)
<1> DEFINE h == HashKey(key)
           P == PointsOf(S)
           n == Cardinality(P)
           s == Ring(S)
           M == Smaller(S, h)
           m == Cardinality(M)
           Low(p) == {r \in P : HashPoint(r) < HashPoint(p)}
<1>1. h \in Nat /\ \A p \in P : HashPoint(p) \in Nat
  BY HashesDiffer DEF PointsOf
<1>2. /\ s \in [1..n -> P] /\ Len(s) = n /\ n \in Nat
      /\ \A k \in 1..n : Rank(S, s[k]) = k - 1
  BY RingByRank
<1>3. Search(s, h) = m + 1 /\ IsFiniteSet(M) /\ m \in Nat /\ m <= n
  BY <1>1, SearchCounts
<1>4. n # 0 /\ IsFiniteSet(P)
  <2>1. PICK b \in S : TRUE
    OBVIOUS
  <2>2. <<b, 1>> \in P
    <3>1. 1 \in 1..VirtualNodes /\ b \in Instances
      OBVIOUS
    <3> QED
      BY <3>1, <2>1 DEF PointsOf, Points
  <2>3. IsFiniteSet(P)
    BY PointsRanked
  <2> QED
    BY <2>2, <2>3, FS_EmptySet
<1>5. \A p \in P : Rank(S, p) = Cardinality(Low(p)) /\ IsFiniteSet(Low(p))
  BY <1>4, FS_Subset DEF Rank
<1>6. M = {r \in P : HashPoint(r) < h}
  BY DEF Smaller
<1>7. LookupIn(S, key) = s[IF m + 1 > n THEN 1 ELSE m + 1][1]
  BY <1>2, <1>3 DEF LookupIn
<1> HIDE DEF h, P, n, s, M, m
<1>8. CASE m < n
  <2> DEFINE p == s[m + 1]
  <2>1. m + 1 \in 1..n /\ ~(m + 1 > n) /\ (m + 1) - 1 = m
    BY <1>2, <1>3, <1>8
  <2>2. p \in P /\ Rank(S, p) = m /\ LookupIn(S, key) = p[1]
    BY <2>1, <1>2, <1>7
  <2> HIDE DEF p
  <2>3. HashPoint(p) >= h
    <3>1. SUFFICES ASSUME HashPoint(p) < h PROVE FALSE
      BY <1>1, <2>2
    <3>2. Low(p) \subseteq M /\ p \in M /\ p \notin Low(p)
      BY <1>1, <1>6, <2>2, <3>1
    <3>3. Cardinality(Low(p)) = m
      BY <1>5, <2>2
    <3> HIDE DEF Low
    <3>4. M = Low(p)
      BY <3>2, <3>3, <1>3, FS_Subset DEF m
    <3> QED
      BY <3>2, <3>4
  <2>4. ASSUME NEW r \in P, HashPoint(r) >= h PROVE HashPoint(p) <= HashPoint(r)
    <3>1. SUFFICES ASSUME HashPoint(r) < HashPoint(p) PROVE FALSE
      BY <1>1, <2>2
    <3>2. M \subseteq Low(p) /\ r \in Low(p) /\ r \notin M
      <4>1. \A x, y, z \in Nat : x < y /\ y <= z => x < z
        OBVIOUS
      <4>2. HashPoint(r) \in Nat /\ HashPoint(p) \in Nat /\ h <= HashPoint(p) /\ ~(HashPoint(r) < h)
        BY <1>1, <2>2, <2>3, <2>4
      <4> QED
        BY <4>1, <4>2, <1>1, <1>6, <3>1
    <3>3. Cardinality(Low(p)) = m /\ IsFiniteSet(Low(p))
      BY <1>5, <2>2
    <3> HIDE DEF Low
    <3>4. Low(p) = M
      BY <3>2, <3>3, FS_Subset DEF m
    <3> QED
      BY <3>2, <3>4
  <2> QED
    BY <2>2, <2>3, <2>4 DEF P, h
<1>9. CASE ~(m < n)
  <2> DEFINE p == s[1]
  <2>1. m = n /\ m + 1 > n /\ 1 \in 1..n
    BY <1>2, <1>3, <1>4, <1>9
  <2>2. p \in P /\ Rank(S, p) = 0 /\ LookupIn(S, key) = p[1]
    BY <2>1, <1>2, <1>7
  <2> HIDE DEF p
  <2>3. P = M
    BY <1>4, <1>6, <2>1, FS_Subset DEF m, n
  <2>4. Low(p) = {}
    <3>1. Cardinality(Low(p)) = 0 /\ IsFiniteSet(Low(p))
      BY <1>5, <2>2
    <3> HIDE DEF Low
    <3> QED
      BY <3>1, FS_EmptySet
  <2>5. \A r \in P : HashPoint(r) < h /\ HashPoint(p) <= HashPoint(r)
    BY <1>1, <1>6, <2>2, <2>3, <2>4
  <2> QED
    BY <2>2, <2>5 DEF P, h
<1> QED
  BY <1>8, <1>9

\* Distance is the way from the hash to the point, over the end if need be.
LEMMA Distances ==
  ASSUME load \in Loads, NEW key \in Keys, NEW p \in Points
  PROVE  /\ Distance(key, p) = IF HashPoint(p) >= HashKey(key) THEN HashPoint(p) - HashKey(key)
                               ELSE HashPoint(p) + Positions - HashKey(key)
         /\ Distance(key, p) \in Nat
<1>1. PICK x, h \in 0..(Positions - 1) : x = HashPoint(p) /\ h = HashKey(key)
  BY HashesDiffer
<1>2. Distance(key, p) = (x + Positions - h) % Positions
  BY <1>1 DEF Distance
<1>3. CASE x >= h
  <2>1. PICK d \in 0..(Positions - 1) : d = x - h
    BY <1>1, <1>3
  <2>2. x + Positions - h = d + Positions
    BY <2>1
  <2>3. (d + Positions) % Positions = d
    BY SmallRemainder
  <2> QED
    BY <1>1, <1>2, <1>3, <2>1, <2>2, <2>3
<1>4. CASE ~(x >= h)
  <2>1. PICK d \in 0..(Positions - 1) : d = x + Positions - h
    BY <1>1, <1>4
  <2>2. d % Positions = d
    BY SmallRemainder
  <2> QED
    BY <1>1, <1>2, <1>4, <2>1, <2>2
<1> QED
  BY <1>3, <1>4

\* lookup returns the instance of the nearest point clockwise, and no other
\* point is as near.
LEMMA LookupIsNearest ==
  ASSUME load \in Loads, NEW S \in SUBSET Instances, S # {}, NEW key \in Keys
  PROVE  \E p \in PointsOf(S) :
           /\ LookupIn(S, key) = p[1]
           /\ \A r \in PointsOf(S) : /\ Distance(key, p) <= Distance(key, r)
                                     /\ Distance(key, r) <= Distance(key, p) => r = p
<1>1. PICK p \in PointsOf(S) :
        /\ LookupIn(S, key) = p[1]
        /\ \/ /\ HashPoint(p) >= HashKey(key)
              /\ \A r \in PointsOf(S) : HashPoint(r) >= HashKey(key) => HashPoint(p) <= HashPoint(r)
           \/ \A r \in PointsOf(S) : HashPoint(r) < HashKey(key) /\ HashPoint(p) <= HashPoint(r)
  BY LookupFindsSuccessor
<1>2. PointsOf(S) \subseteq Points
  BY DEF PointsOf
<1>3. ASSUME NEW r \in PointsOf(S)
      PROVE  /\ Distance(key, p) <= Distance(key, r)
             /\ Distance(key, r) <= Distance(key, p) => r = p
  <2>1. PICK x, y, h \in 0..(Positions - 1) : x = HashPoint(p) /\ y = HashPoint(r) /\ h = HashKey(key)
    BY <1>2, HashesDiffer
  <2>2. PICK d, e \in Nat : d = Distance(key, p) /\ e = Distance(key, r)
    BY <1>2, Distances
  <2>3. /\ d = IF x >= h THEN x - h ELSE x + Positions - h
        /\ e = IF y >= h THEN y - h ELSE y + Positions - h
    BY <2>1, <2>2, <1>2, Distances
  <2>4. (x >= h /\ (y >= h => x <= y)) \/ (x < h /\ y < h /\ x <= y)
    BY <2>1, <1>1
  <2>5. d <= e /\ (e <= d => x = y)
    BY <2>3, <2>4
  <2>6. x = y => p = r
    BY <2>1, <1>2, HashesDiffer
  <2> QED
    BY <2>2, <2>5, <2>6
<1> QED
  BY <1>1, <1>3

\* The ring is consistent under any load: lookup goes clockwise, and leaving an
\* instance out moves none of the rooms of the others.
LEMMA RingConsistent == load \in Loads => RingIsConsistent
<1> SUFFICES ASSUME load \in Loads PROVE RingIsConsistent
  OBVIOUS
<1>0. Instances # {} /\ PointsOf(Instances) = Points
  <2>1. 1 \in DOMAIN Backends
    <3>1. Len(Backends) \in Nat /\ Len(Backends) # 0 /\ DOMAIN Backends = 1..Len(Backends)
      BY LenProperties, EmptySeq
    <3> QED
      BY <3>1
  <2>2. Instances # {}
    BY <2>1 DEF Instances, ToSet
  <2> QED
    BY <2>2 DEF PointsOf, Points
<1>1. LookupIsClockwise
  BY <1>0, LookupIsNearest DEF LookupIsClockwise
<1>2. ASSUME NEW b \in Instances, NEW key \in Keys, Cardinality(Instances) > 1,
             LookupIn(Instances, key) # b
      PROVE  LookupIn(Instances \ {b}, key) = LookupIn(Instances, key)
  <2> DEFINE S == Instances \ {b}
  <2>1. S # {}
    <3>1. SUFFICES ASSUME Instances = {b} PROVE FALSE
      BY <1>2
    <3>2. Cardinality({b}) = 1
      BY FS_Singleton
    <3> QED
      BY <1>2, <3>1, <3>2
  <2>2. PICK p \in PointsOf(Instances) :
          /\ LookupIn(Instances, key) = p[1]
          /\ \A r \in PointsOf(Instances) : Distance(key, p) <= Distance(key, r)
    BY <1>0, LookupIsNearest
  <2>3. PICK q \in PointsOf(S) :
          /\ LookupIn(S, key) = q[1]
          /\ \A r \in PointsOf(S) : Distance(key, r) <= Distance(key, q) => r = q
    BY <2>1, LookupIsNearest
  <2>4. p \in PointsOf(S) /\ q \in PointsOf(Instances)
    BY <1>2, <2>2, <2>3 DEF PointsOf, Points
  <2>5. p = q
    BY <2>2, <2>3, <2>4
  <2> QED
    BY <2>2, <2>3, <2>5
<1>3. ScaleOutMovesToNew
  BY <1>2 DEF ScaleOutMovesToNew
<1> QED
  BY <1>1, <1>3 DEF RingIsConsistent

-----------------------------------------------------------------------------
(* The inductive invariant.                                                *)

RequestType == [pc : {"idle", "reading", "picked", "over"}, i : Nat, list : Seq(Instances),
                fresh : BOOLEAN, at : Instances \cup {""}]
ConnType    == [pc : {"idle", "picked", "connected"}, room : Keys \cup {""},
                at : Instances \cup {""}]

HealthTypes ==
  /\ load \in Loads
  /\ up \in [Instances -> BOOLEAN] /\ healthy \in [Instances -> BOOLEAN]
  /\ sweep \in {"first", "idle", "running"}
  /\ probed \subseteq Instances
  /\ probe \in [Instances -> {"due", "ok", "bad", "done"}]
PickTypes ==
  /\ next \in Nat /\ turns \in [Instances -> Nat]
  /\ request \in [Requests -> RequestType] /\ conn \in [Clients -> ConnType]

\* A pick names an instance, and whoever is on an instance is where lookup finds
\* his room.
AtInv ==
  /\ \A q \in Requests : request[q].pc = "picked" => request[q].at \in Instances
  /\ \A c \in Clients : conn[c].pc # "idle" =>
       conn[c].at \in Instances /\ conn[c].at = LookupIn(Instances, conn[c].room)

\* Every step of the counter belongs to a request that is past its pick.
Past == {q \in Requests : request[q].pc \in {"picked", "over"}}
CountInv ==
  /\ next <= Cardinality(Past)
  /\ \A b \in Instances : turns[b] <= next

\* Nothing is served before the first sweep is over, and then every flag is a
\* probe's.
SweepInv ==
  /\ sweep # "first" => probed = Instances
  /\ sweep = "first" =>
       /\ \A q \in Requests : request[q].pc = "idle"
       /\ \A c \in Clients : conn[c].pc = "idle"
       /\ \A b \in Instances : probe[b] = "done" => b \in probed

\* The indices of the healthy instances, and how many of them are below i.
HealthyIdx == {k \in DOMAIN Backends : healthy[Backends[k]]}
Below(i)   == Cardinality({k \in HealthyIdx : k < i})

\* A list that was read under the flags as they are holds the healthy instances
\* below i, in their order.
ReadInv ==
  \A q \in Requests : request[q].pc = "reading" =>
    /\ request[q].i \in 1..(Len(Backends) + 1)
    /\ request[q].fresh =>
         /\ Len(request[q].list) = Below(request[q].i)
         /\ \A k \in HealthyIdx : k < request[q].i => request[q].list[Below(k) + 1] = Backends[k]

\* Position p is one of those from a up to before c, around the end.
InTurn(a, c, p) == IF a <= c THEN a <= p /\ p < c ELSE a <= p \/ p < c

\* The healthy instances have had m turns each, and those from position a on up
\* to the counter's one more.
Rounds(a, m) ==
  /\ a < Cardinality(HealthyIdx)
  /\ \A k \in HealthyIdx :
       turns[Backends[k]] = m + (IF InTurn(a, next % Cardinality(HealthyIdx), Below(k)) THEN 1 ELSE 0)
EvenInv == HealthyIdx # {} => \E a, m \in Nat : Rounds(a, m)

BInv == HealthTypes /\ PickTypes /\ AtInv /\ CountInv /\ SweepInv /\ ReadInv /\ EvenInv

-----------------------------------------------------------------------------
(* The constants and the flags.                                            *)

\* The configured instances are those at the indices of Backends.
LEMMA BackendsFacts ==
  /\ Len(Backends) \in Nat /\ Len(Backends) # 0 /\ DOMAIN Backends = 1..Len(Backends)
  /\ \A k \in 1..Len(Backends) : Backends[k] \in Instances
  /\ \A b \in Instances : \E k \in DOMAIN Backends : Backends[k] = b
  /\ \A j, k \in DOMAIN Backends : Backends[j] = Backends[k] => j = k
  /\ Instances # {}
<1>1. Len(Backends) \in Nat /\ Len(Backends) # 0 /\ DOMAIN Backends = 1..Len(Backends)
  BY LenProperties, EmptySeq
<1>2. \A k \in 1..Len(Backends) : Backends[k] \in Instances
  BY ElementOfSeq
<1>3. \A b \in Instances : \E k \in DOMAIN Backends : Backends[k] = b
  BY DEF Instances, ToSet
<1>4. \A j, k \in DOMAIN Backends : Backends[j] = Backends[k] => j = k
  BY DEF IsInjective
<1>5. 1 \in 1..Len(Backends)
  BY <1>1
<1> QED
  BY <1>1, <1>2, <1>3, <1>4, <1>5

\* lookup finds an instance for every key.
LEMMA LookupInInstances ==
  ASSUME load \in Loads, NEW key \in Keys
  PROVE  LookupIn(Instances, key) \in Instances
<1>1. Instances \in SUBSET Instances /\ Instances # {}
  BY BackendsFacts
<1>2. PICK p \in PointsOf(Instances) : LookupIn(Instances, key) = p[1]
  BY <1>1, LookupIsNearest
<1> QED
  BY <1>2 DEF PointsOf

\* Below numbers the healthy instances without gaps.
LEMMA HealthyNumbered ==
  LET L == Cardinality(HealthyIdx) IN
  /\ IsFiniteSet(HealthyIdx) /\ L \in Nat /\ (HealthyIdx # {} => L # 0)
  /\ \A k \in HealthyIdx : k \in Nat /\ k \in 1..Len(Backends) /\ Below(k) \in 0..(L - 1)
  /\ \A j, k \in HealthyIdx : Below(j) = Below(k) => j = k
  /\ \A p \in 0..(L - 1) : \E k \in HealthyIdx : Below(k) = p
  /\ Below(Len(Backends) + 1) = L
<1> DEFINE S == HealthyIdx
           R == {x \in S \X S : x[1] < x[2]}
<1>0. Len(Backends) \in Nat /\ DOMAIN Backends = 1..Len(Backends)
  BY BackendsFacts
<1>1. S \subseteq 1..Len(Backends)
  BY <1>0 DEF HealthyIdx
<1>2. IsFiniteSet(S)
  <2>1. IsFiniteSet(1..Len(Backends))
    BY <1>0, FS_Interval
  <2> QED
    BY <1>1, <2>1, FS_Subset
<1>3. \A k \in S : k \in Nat /\ k < Len(Backends) + 1
  BY <1>0, <1>1
<1>4. \A j, k \in S : <<j, k>> \in R <=> j < k
  OBVIOUS
<1> HIDE DEF S, R
<1>5. StrictOrder(S, R)
  <2>1. \A k \in S : <<k, k>> \notin R
    BY <1>3, <1>4
  <2>2. \A j, k \in S : j # k => <<j, k>> \in R \/ <<k, j>> \in R
    BY <1>3, <1>4
  <2>3. \A i, j, k \in S : <<i, j>> \in R /\ <<j, k>> \in R => <<i, k>> \in R
    <3>1. \A x, y, z \in Nat : x < y /\ y < z => x < z
      OBVIOUS
    <3> QED
      BY <1>3, <1>4, <3>1
  <2> QED
    BY <2>1, <2>2, <2>3 DEF StrictOrder
<1>6. \A k \in S : Below(k) = NumberBefore(S, R, k)
  <2> TAKE k \in S
  <2>1. {j \in S : j < k} = {j \in S : <<j, k>> \in R}
    BY <1>4
  <2> QED
    BY <2>1 DEF Below, NumberBefore, S
<1>7. /\ Cardinality(S) \in Nat
      /\ \A x \in S : NumberBefore(S, R, x) \in 0..(Cardinality(S) - 1)
      /\ \A x, y \in S : NumberBefore(S, R, x) = NumberBefore(S, R, y) => x = y
      /\ \A p \in 0..(Cardinality(S) - 1) : \E x \in S : NumberBefore(S, R, x) = p
  BY <1>2, <1>5, Numbered
<1>8. S # {} => Cardinality(S) # 0
  BY <1>2, FS_EmptySet
<1>9. Below(Len(Backends) + 1) = Cardinality(S)
  <2>1. {k \in S : k < Len(Backends) + 1} = S
    BY <1>3
  <2> QED
    BY <2>1 DEF Below, S
<1>10. \A k \in S : k \in Nat /\ k \in 1..Len(Backends) /\ Below(k) \in 0..(Cardinality(S) - 1)
  BY <1>1, <1>3, <1>6, <1>7
<1>11. \A j, k \in S : Below(j) = Below(k) => j = k
  BY <1>6, <1>7
<1>12. \A p \in 0..(Cardinality(S) - 1) : \E k \in S : Below(k) = p
  BY <1>6, <1>7
<1> QED
  BY <1>2, <1>7, <1>8, <1>9, <1>10, <1>11, <1>12 DEF S

\* One index further, there is one more below if it is a healthy one.
LEMMA BelowNext ==
  ASSUME NEW i \in 1..Len(Backends)
  PROVE  /\ Below(i) \in Nat
         /\ Below(i + 1) = IF i \in HealthyIdx THEN Below(i) + 1 ELSE Below(i)
<1> DEFINE A == {k \in HealthyIdx : k < i}
           B == {k \in HealthyIdx : k < i + 1}
<1>0. IsFiniteSet(HealthyIdx) /\ \A k \in HealthyIdx : k \in Nat
  BY HealthyNumbered
<1>1. IsFiniteSet(A) /\ Cardinality(A) \in Nat
  BY <1>0, FS_Subset, FS_CardinalityType
<1>2. i \in Nat
  BY BackendsFacts
<1>3. \A k \in HealthyIdx : k < i + 1 <=> (k < i \/ k = i)
  BY <1>0, <1>2
<1>4. i \notin A /\ Below(i) = Cardinality(A) /\ Below(i + 1) = Cardinality(B)
  BY <1>2 DEF Below
<1>5. CASE i \in HealthyIdx
  <2>1. B = A \cup {i}
    BY <1>3, <1>5
  <2> HIDE DEF A, B
  <2>2. Cardinality(A \cup {i}) = Cardinality(A) + 1
    BY <1>1, <1>4, FS_AddElement
  <2> QED
    BY <2>1, <2>2, <1>1, <1>4, <1>5
<1>6. CASE i \notin HealthyIdx
  <2>1. B = A
    BY <1>3, <1>6
  <2> QED
    BY <2>1, <1>1, <1>4, <1>6
<1> QED
  BY <1>5, <1>6

\* There is an even start: no turns since the flags changed.
NoTurns == next \in Nat /\ \A b \in Instances : turns[b] = 0

LEMMA EvenStart == NoTurns => EvenInv
<1> SUFFICES ASSUME next \in Nat, \A b \in Instances : turns[b] = 0 PROVE EvenInv
  BY DEF NoTurns
<1> DEFINE L == Cardinality(HealthyIdx)
           a == next % L
<1> SUFFICES ASSUME HealthyIdx # {} PROVE \E x, m \in Nat : Rounds(x, m)
  BY DEF EvenInv
<1>1. L \in Nat \ {0} /\ \A k \in HealthyIdx : k \in 1..Len(Backends) /\ Below(k) \in 0..(L - 1)
  BY HealthyNumbered
<1>2. a \in 0..(L - 1)
  BY <1>1, NextRemainder
<1>3. \A k \in HealthyIdx : turns[Backends[k]] = 0
  BY <1>1, BackendsFacts
<1> HIDE DEF L
<1>4. \A k \in HealthyIdx : ~InTurn(a, a, Below(k))
  <2> HIDE DEF a
  <2> QED
    BY <1>1, <1>2 DEF InTurn
<1>5. a \in Nat /\ a < L
  BY <1>1, <1>2
<1>6. Rounds(a, 0)
  BY <1>3, <1>4, <1>5 DEF Rounds, L
<1> QED
  BY <1>5, <1>6

\* The same of the state after a step.
LEMMA EvenStartPrimed == NoTurns' => EvenInv'
BY EvenStart, PTL

\* The next turn is that of the position at which the counter stands.
TurnTaken(L, n, a, m, x, y) ==
  /\ x < L
  /\ \A p \in 0..(L - 1) :
       (m + (IF InTurn(a, n % L, p) THEN 1 ELSE 0)) + (IF p = n % L THEN 1 ELSE 0)
         = y + (IF InTurn(x, (n + 1) % L, p) THEN 1 ELSE 0)

LEMMA EvenTurn ==
  ASSUME NEW L \in Nat \ {0}, NEW n \in Nat, NEW a \in Nat, a < L, NEW m \in Nat
  PROVE  \E x, y \in Nat : TurnTaken(L, n, a, m, x, y)
<1>1. PICK c \in 0..(L - 1) : c = n % L
  BY NextRemainder
<1>2. PICK d \in 0..(L - 1) : d = (n + 1) % L
  <2>1. n + 1 \in Nat
    OBVIOUS
  <2> QED
    BY <2>1, NextRemainder
<1>3. d = IF c + 1 = L THEN 0 ELSE c + 1
  BY <1>1, <1>2, NextRemainder
<1>4. CASE d = a
  <2>1. \A p \in 0..(L - 1) : (InTurn(a, c, p) /\ p # c) \/ (~InTurn(a, c, p) /\ p = c)
    BY <1>3, <1>4 DEF InTurn
  <2>2. \A p \in 0..(L - 1) : ~InTurn(a, d, p)
    BY <1>4 DEF InTurn
  <2>3. \A p \in 0..(L - 1) :
          (m + (IF InTurn(a, c, p) THEN 1 ELSE 0)) + (IF p = c THEN 1 ELSE 0)
            = (m + 1) + (IF InTurn(a, d, p) THEN 1 ELSE 0)
    BY <2>1, <2>2
  <2>4. m + 1 \in Nat
    OBVIOUS
  <2> QED
    BY <2>3, <2>4, <1>1, <1>2 DEF TurnTaken
<1>5. CASE d # a
  <2>1. \A p \in 0..(L - 1) : /\ InTurn(a, d, p) <=> (InTurn(a, c, p) \/ p = c)
                              /\ p = c => ~InTurn(a, c, p)
    BY <1>3, <1>5 DEF InTurn
  <2>2. \A p \in 0..(L - 1) :
          (m + (IF InTurn(a, c, p) THEN 1 ELSE 0)) + (IF p = c THEN 1 ELSE 0)
            = m + (IF InTurn(a, d, p) THEN 1 ELSE 0)
    BY <2>1
  <2> QED
    BY <2>2, <1>1, <1>2 DEF TurnTaken
<1> QED
  BY <1>4, <1>5

-----------------------------------------------------------------------------
(* The steps.                                                              *)

\* The beginning.
LEMMA BInit == Init => BInv
<1> SUFFICES ASSUME Init PROVE BInv
  OBVIOUS
<1>1. HealthTypes
  BY DEF Init, HealthTypes
<1>2. NoRequest \in RequestType /\ NoConn \in ConnType /\ NoRequest.pc = "idle" /\ NoConn.pc = "idle"
  <2>1. <<>> \in Seq(Instances)
    OBVIOUS
  <2> QED
    BY <2>1 DEF NoRequest, NoConn, RequestType, ConnType
<1>3. /\ \A q \in Requests : request[q] = NoRequest
      /\ \A c \in Clients : conn[c] = NoConn
  BY DEF Init
<1>4. PickTypes
  BY <1>2 DEF Init, PickTypes, Zero
<1>5. AtInv /\ ReadInv
  BY <1>2, <1>3 DEF AtInv, ReadInv
<1>6. next = 0 /\ \A b \in Instances : turns[b] = 0
  BY DEF Init, Zero
<1>7. CountInv
  <2>1. Past = {}
    BY <1>2, <1>3 DEF Past
  <2>2. Cardinality(Past) = 0
    BY <2>1, FS_EmptySet
  <2> QED
    BY <1>6, <2>2 DEF CountInv
<1>8. SweepInv
  BY <1>2, <1>3 DEF Init, SweepInv
<1>9. EvenInv
  BY <1>6, EvenStart DEF NoTurns
<1> QED
  BY <1>1, <1>4, <1>5, <1>7, <1>8, <1>9 DEF BInv

\* lookup depends on nothing but the hashes.
LEMMA LookupStays ==
  ASSUME load' = load
  PROVE  \A S, key : LookupIn(S, key)' = LookupIn(S, key)
BY DEF LookupIn, Search, HashKey, Ring, Rank, PointsOf, HashPoint

\* The parts of the invariant that do not look at what a step changes.
LEMMA Aside ==
  ASSUME BInv
  PROVE  /\ UNCHANGED <<request, load, conn>> => AtInv'
         /\ UNCHANGED <<request, next, turns>> => CountInv'
         /\ UNCHANGED <<sweep, probed, request, conn, probe>> => SweepInv'
         /\ UNCHANGED <<request, healthy>> => ReadInv'
         /\ UNCHANGED <<next, turns, healthy>> => EvenInv'
         /\ UNCHANGED <<next, turns, request, conn>> => PickTypes'
         /\ UNCHANGED <<load, up, healthy, sweep, probed, probe>> => HealthTypes'
<1>1. UNCHANGED <<request, load, conn>> => AtInv'
  BY LookupStays DEF BInv, AtInv
<1>2. UNCHANGED <<request, next, turns>> => CountInv'
  BY DEF BInv, CountInv, Past
<1>3. UNCHANGED <<sweep, probed, request, conn, probe>> => SweepInv'
  BY DEF BInv, SweepInv
<1>4. UNCHANGED <<request, healthy>> => ReadInv'
  BY DEF BInv, ReadInv, Below, HealthyIdx
<1>5. UNCHANGED <<next, turns, healthy>> => EvenInv'
  <2> SUFFICES ASSUME UNCHANGED <<next, turns, healthy>> PROVE EvenInv'
    OBVIOUS
  <2>1. HealthyIdx' = HealthyIdx /\ \A k : Below(k)' = Below(k)
    BY DEF HealthyIdx, Below
  <2>2. \A a, m : Rounds(a, m)' = Rounds(a, m)
    BY <2>1 DEF Rounds, InTurn
  <2> QED
    BY <2>1, <2>2 DEF BInv, EvenInv
<1>6. UNCHANGED <<next, turns, request, conn>> => PickTypes'
  BY DEF BInv, PickTypes
<1>7. UNCHANGED <<load, up, healthy, sweep, probed, probe>> => HealthTypes'
  BY DEF BInv, HealthTypes
<1> QED
  BY <1>1, <1>2, <1>3, <1>4, <1>5, <1>6, <1>7

\* The instances and the sweep.
LEMMA SweepStep ==
  ASSUME BInv, CheckStart \/ CheckEnd \/ \E b \in Instances : Probe(b)
  PROVE  BInv'
<1>1. UNCHANGED <<load, up, healthy, probed, next, request, turns, conn>>
  BY DEF CheckStart, CheckEnd, Probe
<1>2. AtInv' /\ CountInv' /\ ReadInv' /\ EvenInv' /\ PickTypes'
  BY <1>1, Aside
<1>3. CASE CheckStart
  <2>1. sweep = "idle" /\ sweep' = "running" /\ probe' = [b \in Instances |-> "due"]
    BY <1>3 DEF CheckStart
  <2>2. HealthTypes' /\ SweepInv'
    BY <1>1, <2>1 DEF BInv, HealthTypes, SweepInv
  <2> QED
    BY <1>2, <2>2 DEF BInv
<1>4. CASE CheckEnd
  <2>1. sweep' = "idle" /\ probe' = probe /\ \A b \in Instances : probe[b] = "done"
    BY <1>4 DEF CheckEnd, Checked
  <2>2. HealthTypes' /\ SweepInv'
    BY <1>1, <2>1 DEF BInv, HealthTypes, SweepInv
  <2> QED
    BY <1>2, <2>2 DEF BInv
<1>5. CASE \E b \in Instances : Probe(b)
  <2>1. PICK b \in Instances : Probe(b)
    BY <1>5
  <2>2. sweep' = sweep /\ probe' = [probe EXCEPT ![b] = IF up[b] THEN "ok" ELSE "bad"]
    BY <2>1 DEF Probe
  <2>3. HealthTypes'
    BY <1>1, <2>2 DEF BInv, HealthTypes
  <2>4. \A c \in Instances : probe'[c] = "done" => probe[c] = "done"
    BY <2>2 DEF BInv, HealthTypes
  <2>5. SweepInv'
    BY <1>1, <2>2, <2>4 DEF BInv, SweepInv
  <2> QED
    BY <1>2, <2>3, <2>5 DEF BInv
<1> QED
  BY <1>3, <1>4, <1>5

\* Connections come and go, and so do instances.
LEMMA ConnStep ==
  ASSUME BInv,
         \/ \E b \in Instances : Change(b)
         \/ \E c \in Clients : Connect(c) \/ Disconnect(c) \/ \E p \in Params : Handshake(c, p)
  PROVE  BInv'
<1>1. UNCHANGED <<load, healthy, sweep, probe, probed, next, request, turns>>
  BY DEF Change, Connect, Disconnect, Handshake, healthVars
<1>2. CountInv' /\ ReadInv' /\ EvenInv'
  BY <1>1, Aside
<1>3. HealthTypes'
  <2>1. up' \in [Instances -> BOOLEAN]
    BY DEF BInv, HealthTypes, Change, Connect, Disconnect, Handshake
  <2> QED
    BY <1>1, <2>1 DEF BInv, HealthTypes
<1>4. NoConn \in ConnType /\ NoConn.pc = "idle"
  BY DEF NoConn, ConnType
<1>5. \A S, key : LookupIn(S, key)' = LookupIn(S, key)
  BY <1>1, LookupStays
<1>6. conn \in [Clients -> ConnType]
  BY DEF BInv, PickTypes
<1>7. ASSUME conn' \in [Clients -> ConnType],
             \A c \in Clients : conn'[c].pc # "idle" =>
               /\ sweep # "first" /\ conn'[c].at \in Instances
               /\ conn'[c].at = LookupIn(Instances, conn'[c].room)
      PROVE  BInv'
  <2>1. PickTypes'
    BY <1>1, <1>7 DEF BInv, PickTypes
  <2>2. AtInv'
    BY <1>1, <1>5, <1>7 DEF BInv, AtInv
  <2>3. SweepInv'
    BY <1>1, <1>7 DEF BInv, SweepInv
  <2> QED
    BY <1>2, <1>3, <2>1, <2>2, <2>3 DEF BInv
<1>8. \A c \in Clients : conn[c].pc # "idle" =>
        /\ sweep # "first" /\ conn[c].at \in Instances
        /\ conn[c].at = LookupIn(Instances, conn[c].room)
  BY DEF BInv, AtInv, SweepInv
<1>9. CASE \E b \in Instances : Change(b)
  <2>1. conn' \in [Clients -> ConnType] /\ \A c \in Clients : conn'[c] \in {NoConn, conn[c]}
    <3>1. PICK broken : conn' = [c \in Clients |-> IF c \in broken THEN NoConn ELSE conn[c]]
      BY <1>9 DEF Change
    <3> QED
      BY <1>4, <1>6, <3>1
  <2> QED
    BY <1>4, <1>7, <1>8, <2>1
<1>10. CASE \E c \in Clients : Connect(c) \/ Disconnect(c)
  <2>1. PICK c \in Clients : Connect(c) \/ Disconnect(c)
    BY <1>10
  <2>2. PICK r \in ConnType : conn[c] = r
    BY <1>6
  <2>3. PICK v \in {NoConn, [r EXCEPT !.pc = "connected"]} : conn' = [conn EXCEPT ![c] = v]
    BY <2>1, <2>2 DEF Connect, Disconnect
  <2>4. r.pc # "idle"
    BY <2>1, <2>2 DEF Connect, Disconnect
  <2>5. v \in ConnType /\ (v.pc # "idle" => v.at = r.at /\ v.room = r.room)
    BY <1>4, <2>3 DEF ConnType
  <2>6. conn' \in [Clients -> ConnType] /\ conn'[c] = v /\ \A d \in Clients : d # c => conn'[d] = conn[d]
    BY <1>6, <2>3, <2>5
  <2>7. ASSUME NEW d \in Clients, conn'[d].pc # "idle"
        PROVE  /\ sweep # "first" /\ conn'[d].at \in Instances
               /\ conn'[d].at = LookupIn(Instances, conn'[d].room)
    <3>1. CASE d = c
      BY <1>8, <2>2, <2>4, <2>5, <2>6, <2>7, <3>1
    <3>2. CASE d # c
      BY <1>8, <2>6, <2>7, <3>2
    <3> QED
      BY <3>1, <3>2
  <2> QED
    BY <1>7, <2>6, <2>7
<1>11. CASE \E c \in Clients, p \in Params : Handshake(c, p)
  <2>1. PICK c \in Clients, p \in Params : Handshake(c, p)
    BY <1>11
  <2>2. PICK key : key = ChatRoom(p)
    OBVIOUS
  <2>3. key = RoomKey(p) /\ key \in Keys
    BY <2>2 DEF RoomKey, ChatRoom, Keys
  <2>4. PICK b : b = LookupIn(Instances, key)
    OBVIOUS
  <2>5. PICK v : v = [pc |-> "picked", room |-> key, at |-> b]
    OBVIOUS
  <2>6. sweep # "first" /\ conn' = [conn EXCEPT ![c] = v]
    BY <2>1, <2>2, <2>3, <2>4, <2>5 DEF Handshake, Members, Serving
  <2>7. b \in Instances
    BY <2>3, <2>4, LookupInInstances DEF BInv, HealthTypes
  <2>8. v \in ConnType /\ v.at = b /\ v.room = key
    BY <2>3, <2>5, <2>7 DEF ConnType
  <2>9. conn' \in [Clients -> ConnType] /\ conn'[c] = v /\ \A d \in Clients : d # c => conn'[d] = conn[d]
    BY <1>6, <2>6, <2>8
  <2>10. ASSUME NEW d \in Clients, conn'[d].pc # "idle"
         PROVE  /\ sweep # "first" /\ conn'[d].at \in Instances
                /\ conn'[d].at = LookupIn(Instances, conn'[d].room)
    <3>1. CASE d = c
      BY <2>4, <2>6, <2>7, <2>8, <2>9, <3>1
    <3>2. CASE d # c
      BY <1>8, <2>9, <2>10, <3>2
    <3> QED
      BY <3>1, <3>2
  <2> QED
    BY <1>7, <2>9, <2>10
<1> QED
  BY <1>9, <1>10, <1>11

\* A flag is set.  If it changes, the turns begin anew and the lists that are
\* being read are stale.
LEMMA SetStep ==
  ASSUME BInv, NEW b \in Instances, SetHealthy(b)
  PROVE  BInv'
<1>1. /\ UNCHANGED <<load, up, sweep, next, conn>>
      /\ healthy' = [healthy EXCEPT ![b] = Verdict(b)]
      /\ probe' = [probe EXCEPT ![b] = "done"] /\ probed' = probed \cup {b}
  BY DEF SetHealthy
<1>2. HealthTypes'
  <2>1. Verdict(b) \in BOOLEAN
    BY DEF Verdict
  <2> QED
    BY <1>1, <2>1 DEF BInv, HealthTypes
<1>3. \A c \in Instances : probe'[c] = "done" => probe[c] = "done" \/ c = b
  BY <1>1 DEF BInv, HealthTypes
<1>4. next \in Nat /\ request \in [Requests -> RequestType] /\ probed \subseteq Instances
  BY DEF BInv, HealthTypes, PickTypes
<1>5. CASE healthy' = healthy
  <2>1. UNCHANGED <<turns, request>>
    BY <1>5 DEF SetHealthy
  <2>2. AtInv' /\ CountInv' /\ ReadInv' /\ EvenInv' /\ PickTypes'
    BY <1>1, <1>5, <2>1, Aside
  <2>3. SweepInv'
    BY <1>1, <1>3, <1>4, <2>1 DEF BInv, SweepInv
  <2> QED
    BY <1>2, <2>2, <2>3 DEF BInv
<1>6. CASE healthy' # healthy
  <2>1. /\ turns' = Zero
        /\ request' = [q \in Requests |-> [request[q] EXCEPT !.fresh = (request[q].pc # "reading")]]
    BY <1>6 DEF SetHealthy
  <2>2. ASSUME NEW q \in Requests
        PROVE  /\ request'[q] \in RequestType
               /\ request'[q].pc = request[q].pc /\ request'[q].at = request[q].at
               /\ request'[q].i = request[q].i
               /\ request'[q].pc = "reading" => ~request'[q].fresh
    <3>1. PICK r \in RequestType : request[q] = r
      BY <1>4
    <3>2. request'[q] = [r EXCEPT !.fresh = (r.pc # "reading")]
      BY <2>1, <3>1
    <3>3. (r.pc # "reading") \in BOOLEAN
      OBVIOUS
    <3> QED
      BY <3>1, <3>2, <3>3 DEF RequestType
  <2>3. \A c \in Instances : turns'[c] = 0
    BY <2>1 DEF Zero
  <2>4. request' \in [Requests -> RequestType] /\ turns' \in [Instances -> Nat]
    BY <2>1, <2>2 DEF Zero
  <2>5. PickTypes'
    BY <1>1, <2>4 DEF BInv, PickTypes
  <2>6. AtInv'
    <3>1. \A S, key : LookupIn(S, key)' = LookupIn(S, key)
      BY <1>1, LookupStays
    <3> QED
      BY <1>1, <2>2, <3>1 DEF BInv, AtInv
  <2>7. CountInv'
    <3>1. Past' = Past
      BY <2>2 DEF Past
    <3> QED
      BY <1>1, <1>4, <2>3, <3>1 DEF BInv, CountInv
  <2>8. SweepInv'
    BY <1>1, <1>3, <1>4, <2>2 DEF BInv, SweepInv
  <2>9. ReadInv'
    BY <2>2 DEF BInv, ReadInv
  <2>10. EvenInv'
    <3>1. next' \in Nat /\ \A c \in Instances : turns'[c] = 0
      BY <1>1, <1>4, <2>3
    <3> QED
      BY <3>1, EvenStartPrimed DEF NoTurns
  <2> QED
    BY <1>2, <2>5, <2>6, <2>7, <2>8, <2>9, <2>10 DEF BInv
<1> QED
  BY <1>5, <1>6

\* The set of requests that are past their pick is finite and no larger than
\* the number of requests.
LEMMA PastFinite ==
  /\ IsFiniteSet(Past) /\ Cardinality(Past) \in Nat /\ Cardinality(Past) <= MaxRequests
  /\ IsFiniteSet(Requests)
<1>1. IsFiniteSet(Requests) /\ Cardinality(Requests) = MaxRequests
  <2>1. IsFiniteSet(1..MaxRequests) /\ Cardinality(1..MaxRequests) = IF 1 > MaxRequests THEN 0 ELSE MaxRequests - 1 + 1
    BY FS_Interval
  <2> QED
    BY <2>1 DEF Requests
<1>2. Past \subseteq Requests
  BY DEF Past
<1> QED
  BY <1>1, <1>2, FS_Subset, FS_CardinalityType

\* A request changes by itself, without a pick.
LEMMA RequestStep ==
  ASSUME BInv, NEW q \in Requests, NEW v \in RequestType, request' = [request EXCEPT ![q] = v],
         UNCHANGED <<load, up, healthy, sweep, probe, probed, next, turns, conn>>,
         sweep # "first", v.pc # "picked",
         request[q].pc \in {"picked", "over"} => v.pc = "over",
         v.pc = "reading" =>
           /\ v.i \in 1..(Len(Backends) + 1)
           /\ v.fresh => /\ Len(v.list) = Below(v.i)
                         /\ \A k \in HealthyIdx : k < v.i => v.list[Below(k) + 1] = Backends[k]
  PROVE  BInv'
<1>1. request \in [Requests -> RequestType]
  BY DEF BInv, PickTypes
<1>2. /\ request' \in [Requests -> RequestType] /\ request'[q] = v
      /\ \A p \in Requests : p # q => request'[p] = request[p]
  BY <1>1
<1>3. HealthTypes' /\ EvenInv'
  BY Aside
<1>4. PickTypes'
  BY <1>2 DEF BInv, PickTypes
<1>5. AtInv'
  BY <1>2, LookupStays DEF BInv, AtInv
<1>6. CountInv'
  <2>1. Past \subseteq Past' /\ Past' \subseteq Requests
    BY <1>2 DEF Past
  <2>2. IsFiniteSet(Past') /\ Cardinality(Past') \in Nat
    BY <2>1, PastFinite, FS_Subset, FS_CardinalityType
  <2>3. Cardinality(Past) <= Cardinality(Past') /\ Cardinality(Past) \in Nat
    BY <2>1, <2>2, PastFinite, FS_Subset
  <2>4. next \in Nat /\ next <= Cardinality(Past)
    BY DEF BInv, PickTypes, CountInv
  <2>5. next <= Cardinality(Past')
    BY <2>2, <2>3, <2>4
  <2>6. Cardinality(Past)' = Cardinality(Past')
    OBVIOUS
  <2> QED
    BY <2>5, <2>6 DEF BInv, CountInv
<1>7. SweepInv'
  BY DEF BInv, SweepInv
<1>8. ReadInv'
  <2>1. HealthyIdx' = HealthyIdx /\ \A k : Below(k)' = Below(k)
    BY DEF HealthyIdx, Below
  <2>2. ASSUME NEW p \in Requests, request'[p].pc = "reading"
        PROVE  /\ request'[p].i \in 1..(Len(Backends) + 1)
               /\ request'[p].fresh =>
                    /\ Len(request'[p].list) = Below(request'[p].i)
                    /\ \A k \in HealthyIdx : k < request'[p].i => request'[p].list[Below(k) + 1] = Backends[k]
    <3>1. CASE p = q
      BY <1>2, <2>2, <3>1
    <3>2. CASE p # q
      BY <1>2, <2>2, <3>2 DEF BInv, ReadInv
    <3> QED
      BY <3>1, <3>2
  <2> QED
    BY <2>1, <2>2 DEF ReadInv
<1> QED
  BY <1>3, <1>4, <1>5, <1>6, <1>7, <1>8 DEF BInv

\* A healthy index counts for those behind it.
LEMMA BelowGrows ==
  ASSUME NEW k \in HealthyIdx, NEW i \in HealthyIdx, k < i
  PROVE  Below(k) \in Nat /\ Below(k) < Below(i)
<1> DEFINE A == {j \in HealthyIdx : j < k}
           B == {j \in HealthyIdx : j < i}
<1>0. IsFiniteSet(HealthyIdx) /\ \A j \in HealthyIdx : j \in Nat
  BY HealthyNumbered
<1>1. A \subseteq B /\ k \in B /\ k \notin A
  BY <1>0
<1>2. IsFiniteSet(A) /\ IsFiniteSet(B) /\ Cardinality(A) \in Nat /\ Cardinality(B) \in Nat
  BY <1>0, FS_Subset, FS_CardinalityType
<1>3. Below(k) = Cardinality(A) /\ Below(i) = Cardinality(B)
  BY DEF Below
<1> HIDE DEF A, B
<1>4. Cardinality(A) <= Cardinality(B) /\ (Cardinality(A) = Cardinality(B) => A = B)
  BY <1>1, <1>2, FS_Subset
<1> QED
  BY <1>1, <1>2, <1>3, <1>4

\* A request begins, ends without a pick, or is forwarded.
LEMMA PlainStep ==
  ASSUME BInv, NEW q \in Requests, Begin(q) \/ PickNone(q) \/ Forward(q)
  PROVE  BInv'
<1>0. request \in [Requests -> RequestType]
  BY DEF BInv, PickTypes
<1>1. UNCHANGED <<load, up, healthy, sweep, probe, probed, next, turns, conn>>
  BY DEF Begin, PickNone, Forward, healthVars
<1>2. <<>> \in Seq(Instances) /\ Len(<<>>) = 0 /\ Len(Backends) \in Nat
  BY BackendsFacts
<1>3. CASE Begin(q)
  <2> DEFINE v == [NoRequest EXCEPT !.pc = "reading", !.i = 1]
  <2>1. sweep # "first" /\ request[q].pc = "idle" /\ request' = [request EXCEPT ![q] = v]
    BY <1>3 DEF Begin, Serving
  <2>2. v \in RequestType /\ v.pc = "reading" /\ v.i = 1 /\ v.list = <<>>
    BY <1>2 DEF NoRequest, RequestType
  <2>3. \A k \in HealthyIdx : ~(k < 1)
    BY HealthyNumbered
  <2>4. Below(1) = 0
    <3>1. {k \in HealthyIdx : k < 1} = {}
      BY <2>3
    <3> QED
      BY <3>1, FS_EmptySet DEF Below
  <2>5. 1 \in 1..(Len(Backends) + 1)
    BY <1>2
  <2> HIDE DEF v
  <2>6. Len(v.list) = Below(v.i) /\ v.i \in 1..(Len(Backends) + 1)
    BY <1>2, <2>2, <2>4, <2>5
  <2>7. \A k \in HealthyIdx : ~(k < v.i)
    BY <2>2, <2>3
  <2> QED
    BY <1>1, <2>1, <2>2, <2>6, <2>7, RequestStep
<1>4. CASE PickNone(q) \/ Forward(q)
  <2>1. request[q].pc # "idle" /\ request' = [request EXCEPT ![q] = Over]
    BY <1>4 DEF PickNone, Forward
  <2>2. Over \in RequestType /\ Over.pc = "over"
    BY <1>2 DEF Over, NoRequest, RequestType
  <2>3. sweep # "first"
    BY <2>1 DEF BInv, SweepInv
  <2> QED
    BY <1>1, <2>1, <2>2, <2>3, RequestStep
<1> QED
  BY <1>3, <1>4

\* A flag is read.  The list grows by the instance if it is healthy.
LEMMA ReadStep ==
  ASSUME BInv, NEW q \in Requests, ReadFlag(q)
  PROVE  BInv'
<1>1. PICK r \in RequestType : request[q] = r
  BY DEF BInv, PickTypes
<1>2. UNCHANGED <<load, up, healthy, sweep, probe, probed, next, turns, conn>>
  BY DEF ReadFlag, healthVars
<1>3. r.pc = "reading" /\ r.i <= Len(Backends)
  BY <1>1 DEF ReadFlag
<1>4. PICK i \in 1..Len(Backends) : r.i = i
  <2>1. r.i \in 1..(Len(Backends) + 1)
    BY <1>1, <1>3 DEF BInv, ReadInv
  <2> QED
    BY <1>3, <2>1, BackendsFacts
<1>5. PICK s \in Seq(Instances) : r.list = s
  BY DEF RequestType
<1>6. PICK b \in Instances : b = Backends[i]
  BY BackendsFacts
<1>7. PICK t : t = IF healthy[b] THEN Append(s, b) ELSE s
  OBVIOUS
<1>8. PICK v : v = [r EXCEPT !.i = i + 1, !.list = t]
  OBVIOUS
<1>9. request' = [request EXCEPT ![q] = v]
  <2>1. request' = [request EXCEPT ![q].i = @ + 1, ![q].list = IF healthy[b] THEN Append(@, b) ELSE @]
    BY <1>1, <1>4, <1>6 DEF ReadFlag
  <2>2. request \in [Requests -> RequestType]
    BY DEF BInv, PickTypes
  <2> QED
    BY <1>1, <1>4, <1>5, <1>7, <1>8, <2>1, <2>2 DEF RequestType
<1>10. t \in Seq(Instances)
  BY <1>7
<1>11. i \in Nat /\ i + 1 \in Nat /\ i + 1 \in 1..(Len(Backends) + 1)
  BY BackendsFacts
<1>12. v \in RequestType /\ v.pc = "reading" /\ v.i = i + 1 /\ v.list = t /\ v.fresh = r.fresh
  BY <1>3, <1>8, <1>10, <1>11 DEF RequestType
<1>13. sweep # "first"
  BY <1>1, <1>3 DEF BInv, SweepInv
<1>14. healthy[b] <=> i \in HealthyIdx
  BY <1>6, BackendsFacts DEF HealthyIdx
<1>15. ASSUME r.fresh
       PROVE  /\ Len(t) = Below(i + 1)
              /\ \A k \in HealthyIdx : k < i + 1 => t[Below(k) + 1] = Backends[k]
  <2>1. Len(s) = Below(i) /\ \A k \in HealthyIdx : k < i => s[Below(k) + 1] = Backends[k]
    BY <1>1, <1>3, <1>4, <1>5, <1>15 DEF BInv, ReadInv
  <2>2. Below(i) \in Nat /\ Below(i + 1) = IF i \in HealthyIdx THEN Below(i) + 1 ELSE Below(i)
    BY BelowNext
  <2>3. \A k \in HealthyIdx : k < i + 1 => (k < i \/ k = i)
    BY <1>11, HealthyNumbered
  <2>4. CASE i \in HealthyIdx
    <3>1. t = Append(s, b)
      BY <1>7, <1>14, <2>4
    <3>2. Len(t) = Len(s) + 1 /\ t[Len(s) + 1] = b /\ \A j \in 1..Len(s) : t[j] = s[j]
      BY <3>1, AppendProperties
    <3>3. Len(t) = Below(i + 1)
      BY <2>1, <2>2, <2>4, <3>2
    <3>4. ASSUME NEW k \in HealthyIdx, k < i
          PROVE  t[Below(k) + 1] = Backends[k]
      <4>1. Below(k) \in Nat /\ Below(k) < Below(i)
        BY <2>4, <3>4, BelowGrows
      <4>2. Below(k) + 1 \in 1..Len(s)
        BY <4>1, <2>1, <2>2
      <4> QED
        BY <4>2, <3>2, <3>4, <2>1
    <3>5. t[Below(i) + 1] = Backends[i]
      BY <1>6, <2>1, <3>2
    <3> QED
      BY <2>3, <3>3, <3>4, <3>5
  <2>5. CASE i \notin HealthyIdx
    <3>1. t = s
      BY <1>7, <1>14, <2>5
    <3>2. \A k \in HealthyIdx : k < i + 1 => k < i
      BY <2>3, <2>5
    <3> QED
      BY <2>1, <2>2, <2>5, <3>1, <3>2
  <2> QED
    BY <2>4, <2>5
<1>16. v.i \in 1..(Len(Backends) + 1)
  BY <1>11, <1>12
<1>17. v.fresh => /\ Len(v.list) = Below(v.i)
                  /\ \A k \in HealthyIdx : k < v.i => v.list[Below(k) + 1] = Backends[k]
  BY <1>12, <1>15
<1>18. request[q].pc \notin {"picked", "over"} /\ v.pc # "picked"
  BY <1>1, <1>3, <1>12
<1> QED
  BY <1>2, <1>9, <1>12, <1>13, <1>16, <1>17, <1>18, RequestStep

\* A turn of a fresh list is the turn of the healthy instance whose number among
\* the healthy ones is the counter's remainder.
LEMMA FreshTurn ==
  ASSUME BInv, NEW q \in Requests, request[q].pc = "reading", request[q].i > Len(Backends),
         request[q].list # <<>>, request[q].fresh
  PROVE  LET L == Cardinality(HealthyIdx) IN
         /\ L \in Nat \ {0}
         /\ \E k \in HealthyIdx : /\ Below(k) = next % L
                                  /\ Turn(next, request[q].list) = Backends[k]
<1> DEFINE L == Cardinality(HealthyIdx)
<1>0. Len(Backends) \in Nat /\ next \in Nat
  BY BackendsFacts DEF BInv, PickTypes
<1>1. PICK s \in Seq(Instances) : request[q].list = s
  BY DEF BInv, PickTypes, RequestType
<1>2. request[q].i = Len(Backends) + 1
  BY <1>0 DEF BInv, ReadInv
<1>3. /\ Len(s) = Below(Len(Backends) + 1)
      /\ \A k \in HealthyIdx : k < Len(Backends) + 1 => s[Below(k) + 1] = Backends[k]
  BY <1>1, <1>2 DEF BInv, ReadInv
<1>4. /\ L \in Nat /\ Below(Len(Backends) + 1) = L
      /\ \A k \in HealthyIdx : k \in 1..Len(Backends)
      /\ \A p \in 0..(L - 1) : \E k \in HealthyIdx : Below(k) = p
  BY HealthyNumbered
<1> HIDE DEF L
<1>5. Len(s) = L /\ L # 0
  BY <1>1, <1>3, <1>4, EmptySeq
<1>6. next % L \in 0..(L - 1)
  BY <1>0, <1>4, <1>5, NextRemainder
<1>7. PICK k \in HealthyIdx : Below(k) = next % L
  BY <1>4, <1>6
<1>8. k < Len(Backends) + 1
  BY <1>0, <1>4
<1>9. s[(next % L) + 1] = Backends[k]
  BY <1>3, <1>7, <1>8
<1>10. Turn(next, request[q].list) = Backends[k]
  BY <1>1, <1>5, <1>9 DEF Turn
<1> QED
  BY <1>4, <1>5, <1>7, <1>10 DEF L

\* The turn of any list that is not empty is an instance.
LEMMA TurnInInstances ==
  ASSUME NEW n \in Nat, NEW s \in Seq(Instances), s # <<>>
  PROVE  Turn(n, s) \in Instances
<1>1. Len(s) \in Nat /\ Len(s) # 0
  BY LenProperties, EmptySeq
<1>2. n % Len(s) \in 0..(Len(s) - 1)
  BY <1>1, NextRemainder
<1>3. (n % Len(s)) + 1 \in 1..Len(s)
  BY <1>1, <1>2
<1> QED
  BY <1>3, ElementOfSeq DEF Turn

\* A pick is a turn, and the rounds go on; after a pick from a stale list they
\* begin anew.
LEMMA PickStep ==
  ASSUME BInv, NEW q \in Requests, Pick(q)
  PROVE  BInv'
<1>1. PICK r \in RequestType : request[q] = r
  BY DEF BInv, PickTypes
<1>2. PICK b : b = Turn(next, r.list)
  OBVIOUS
<1>3. PICK v : v = [NoRequest EXCEPT !.pc = "picked", !.at = b]
  OBVIOUS
<1>4. /\ r.pc = "reading" /\ r.i > Len(Backends) /\ r.list # <<>>
      /\ next' = next + 1
      /\ request' = [request EXCEPT ![q] = v]
      /\ turns' = IF r.fresh THEN [turns EXCEPT ![b] = @ + 1] ELSE Zero
      /\ UNCHANGED <<load, up, changes, healthy, sweep, probe, probed, conn>>
  BY <1>1, <1>2, <1>3 DEF Pick, healthVars
<1>5. next \in Nat /\ turns \in [Instances -> Nat] /\ request \in [Requests -> RequestType]
  BY DEF BInv, PickTypes
<1>6. b \in Instances
  BY <1>2, <1>4, <1>5, TurnInInstances DEF RequestType
<1>7. v \in RequestType /\ v.pc = "picked" /\ v.at = b
  <2>1. <<>> \in Seq(Instances)
    OBVIOUS
  <2> QED
    BY <1>3, <1>6, <2>1 DEF NoRequest, RequestType
<1>8. /\ request' \in [Requests -> RequestType] /\ request'[q] = v
      /\ \A p \in Requests : p # q => request'[p] = request[p]
  BY <1>4, <1>5, <1>7
<1>9. turns' \in [Instances -> Nat] /\ \A c \in Instances : turns'[c] <= turns[c] + 1
  <2>1. CASE r.fresh
    BY <1>4, <1>5, <1>6, <2>1
  <2>2. CASE ~r.fresh
    BY <1>4, <1>5, <2>2 DEF Zero
  <2> QED
    BY <2>1, <2>2
<1>10. HealthTypes'
  BY <1>4, Aside
<1>11. PickTypes'
  BY <1>4, <1>5, <1>8, <1>9 DEF BInv, PickTypes
<1>12. AtInv'
  <2>1. \A S, key : LookupIn(S, key)' = LookupIn(S, key)
    BY <1>4, LookupStays
  <2> QED
    BY <1>4, <1>6, <1>7, <1>8, <2>1 DEF BInv, AtInv
<1>13. CountInv'
  <2>1. Past' = Past \cup {q} /\ q \notin Past
    BY <1>1, <1>4, <1>7, <1>8 DEF Past
  <2>2. Cardinality(Past \cup {q}) = Cardinality(Past) + 1 /\ Cardinality(Past) \in Nat
    BY <2>1, PastFinite, FS_AddElement
  <2>3. Cardinality(Past)' = Cardinality(Past) + 1
    BY <2>1, <2>2
  <2>4. next <= Cardinality(Past) /\ \A c \in Instances : turns[c] <= next
    BY DEF BInv, CountInv
  <2>5. next' <= Cardinality(Past)'
    BY <1>4, <1>5, <2>2, <2>3, <2>4
  <2>6. \A c \in Instances : turns'[c] <= next'
    <3> TAKE c \in Instances
    <3>1. turns[c] \in Nat /\ turns'[c] \in Nat /\ turns'[c] <= turns[c] + 1 /\ turns[c] <= next
      BY <1>5, <1>9, <2>4
    <3> QED
      BY <1>4, <1>5, <3>1
  <2> QED
    BY <2>5, <2>6 DEF CountInv
<1>14. SweepInv'
  BY <1>1, <1>4 DEF BInv, SweepInv
<1>15. HealthyIdx' = HealthyIdx /\ \A k : Below(k)' = Below(k)
  BY <1>4 DEF HealthyIdx, Below
<1>16. ReadInv'
  <2>1. \A p \in Requests : request'[p].pc = "reading" => request'[p] = request[p]
    BY <1>7, <1>8
  <2> QED
    BY <1>15, <2>1 DEF BInv, ReadInv
<1>17. EvenInv'
  <2>1. CASE ~r.fresh
    <3>1. next' \in Nat /\ \A c \in Instances : turns'[c] = 0
      BY <1>4, <1>5, <2>1 DEF Zero
    <3> QED
      BY <3>1, EvenStartPrimed DEF NoTurns
  <2>2. CASE r.fresh
    <3>1. PICK L \in Nat \ {0} : L = Cardinality(HealthyIdx)
      BY <1>1, <1>4, <2>2, FreshTurn
    <3>2. PICK k \in HealthyIdx : Below(k) = next % L /\ b = Backends[k]
      BY <1>1, <1>2, <1>4, <2>2, <3>1, FreshTurn
    <3>3. PICK a \in Nat, m \in Nat : Rounds(a, m)
      BY <3>2 DEF BInv, EvenInv
    <3>4. a < L /\ \A j \in HealthyIdx :
            turns[Backends[j]] = m + (IF InTurn(a, next % L, Below(j)) THEN 1 ELSE 0)
      BY <3>1, <3>3 DEF Rounds
    <3>5. PICK x, y \in Nat : TurnTaken(L, next, a, m, x, y)
      BY <1>5, <3>4, EvenTurn
    <3>6. /\ \A j \in HealthyIdx : j \in 1..Len(Backends) /\ Below(j) \in 0..(L - 1)
          /\ \A i, j \in HealthyIdx : Below(i) = Below(j) => i = j
      BY <3>1, HealthyNumbered
    <3>7. ASSUME NEW j \in HealthyIdx
          PROVE  turns'[Backends[j]] = y + (IF InTurn(x, (next + 1) % L, Below(j)) THEN 1 ELSE 0)
      <4>1. Backends[j] \in Instances /\ Backends[k] \in Instances /\ (Backends[j] = Backends[k] <=> j = k)
        BY <3>6, BackendsFacts
      <4>2. Below(j) = next % L <=> j = k
        BY <3>2, <3>6
      <4>3. turns'[Backends[j]] = turns[Backends[j]] + (IF j = k THEN 1 ELSE 0)
        <5>1. turns' = [turns EXCEPT ![b] = turns[b] + 1]
          BY <1>4, <2>2
        <5>2. turns[Backends[j]] \in Nat
          BY <1>5, <4>1
        <5>3. CASE j = k
          BY <1>5, <3>2, <4>1, <5>1, <5>3
        <5>4. CASE j # k
          BY <1>5, <3>2, <4>1, <5>1, <5>2, <5>4
        <5> QED
          BY <5>3, <5>4
      <4>4. turns'[Backends[j]] = (m + (IF InTurn(a, next % L, Below(j)) THEN 1 ELSE 0))
                                    + (IF Below(j) = next % L THEN 1 ELSE 0)
        BY <3>4, <4>2, <4>3
      <4>5. Below(j) \in 0..(L - 1)
        BY <3>6
      <4> QED
        BY <3>5, <4>4, <4>5 DEF TurnTaken
    <3>8. Rounds(x, y)'
      <4>1. Cardinality(HealthyIdx)' = L /\ next' = next + 1
        BY <1>4, <1>15, <3>1
      <4> QED
        BY <1>15, <3>5, <3>7, <4>1 DEF Rounds, InTurn, TurnTaken
    <3> QED
      BY <3>8 DEF EvenInv
  <2> QED
    BY <2>1, <2>2
<1> QED
  BY <1>10, <1>11, <1>12, <1>13, <1>14, <1>16, <1>17 DEF BInv

\* Every step keeps the invariant.
LEMMA BStep == BInv /\ [Next]_vars => BInv'
<1> SUFFICES ASSUME BInv, [Next]_vars PROVE BInv'
  OBVIOUS
<1>1. CASE \E b \in Instances : Change(b)
  BY <1>1, ConnStep
<1>2. CASE Sweep
  <2>1. (CheckStart \/ CheckEnd \/ \E b \in Instances : Probe(b)) \/ \E b \in Instances : SetHealthy(b)
    BY <1>2 DEF Sweep
  <2> QED
    BY <2>1, SweepStep, SetStep
<1>3. CASE \E q \in Requests : Begin(q) \/ ReadFlag(q) \/ Pick(q) \/ PickNone(q) \/ Forward(q)
  BY <1>3, PlainStep, ReadStep, PickStep
<1>4. CASE \E c \in Clients : Connect(c) \/ Disconnect(c) \/ \E p \in Params : Handshake(c, p)
  BY <1>4, ConnStep
<1>5. CASE UNCHANGED vars
  <2>1. UNCHANGED <<load, up, healthy, sweep, probe, probed, next, request, turns, conn>>
    BY <1>5 DEF vars
  <2> QED
    BY <2>1, Aside DEF BInv
<1> QED
  BY <1>1, <1>2, <1>3, <1>4, <1>5 DEF Next

\* The invariant holds of every state.
LEMMA BalancerInvariant == Spec => []BInv
BY BInit, BStep, PTL DEF Spec

-----------------------------------------------------------------------------
(* The theorems.                                                           *)

\* In every state lookup finds the first point clockwise from the hash, and
\* leaving an instance out moves no room of the others (ConsistentHash.Pick).
THEOREM RingStaysConsistent == Spec => []RingIsConsistent
<1>1. BInv => RingIsConsistent
  BY RingConsistent DEF BInv, HealthTypes
<1> QED
  BY <1>1, BalancerInvariant, PTL

\* All who are connected to a room, or about to be, are on one instance, whatever
\* the flags say and whatever fails and comes back.
THEOREM RoomsStayTogether == Spec => []RoomOnOneInstance
<1>1. BInv => RoomOnOneInstance
  BY DEF BInv, AtInv, RoomOnOneInstance
<1> QED
  BY <1>1, BalancerInvariant, PTL

\* Every pick rests on a probe, and under flags that stay as they are no healthy
\* instance gets two requests more than another, however the picks interleave.
THEOREM PicksAreSpread == Spec => []PicksInv
<1>1. BInv => PicksInv
  <2> SUFFICES ASSUME BInv PROVE PicksInv
    OBVIOUS
  <2>1. /\ next \in Nat /\ next <= MaxRequests
        /\ turns \in [Instances -> Nat] /\ \A b \in Instances : turns[b] <= next
    BY PastFinite DEF BInv, PickTypes, CountInv
  <2>2. TypeOK
    <3>1. next \in 0..MaxRequests /\ turns \in [Instances -> 0..MaxRequests]
      <4>1. \A b \in Instances : turns[b] \in 0..MaxRequests
        BY <2>1
      <4>2. turns \in [Instances -> 0..MaxRequests]
        BY <2>1, <4>1
      <4> QED
        BY <2>1, <4>2
    <3>2. \A q \in Requests : request[q].pc \in {"idle", "reading", "picked", "over"}
      BY DEF BInv, PickTypes, RequestType
    <3> QED
      BY <3>1, <3>2 DEF BInv, HealthTypes, AtInv, TypeOK
  <2>3. NoBlindPick
    BY DEF BInv, AtInv, SweepInv, NoBlindPick
  <2>4. EvenSpread
    <3> SUFFICES ASSUME NEW b \in Instances, NEW c \in Instances, healthy[b], healthy[c]
                 PROVE  turns[b] <= turns[c] + 1
      BY DEF EvenSpread
    <3>1. PICK j \in HealthyIdx, k \in HealthyIdx : Backends[j] = b /\ Backends[k] = c
      BY BackendsFacts DEF HealthyIdx
    <3>2. PICK a \in Nat, m \in Nat : Rounds(a, m)
      BY <3>1 DEF BInv, EvenInv
    <3>3. turns[b] \in {m, m + 1} /\ turns[c] \in {m, m + 1}
      BY <3>1, <3>2 DEF Rounds
    <3> QED
      BY <3>3
  <2> QED
    BY <2>2, <2>3, <2>4 DEF PicksInv
<1> QED
  BY <1>1, BalancerInvariant, PTL

=============================================================================
