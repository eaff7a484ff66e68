----------------------------- MODULE EdgeCache -----------------------------
(***************************************************************************)
(* gateway's edge cache in front of media-service: the byte-bounded LRU    *)
(* (internal/edgecache/cache.go) and the handler that fills it with one    *)
(* origin fetch per hash at a time (handler.go).                           *)
(*                                                                         *)
(* Every request is served once, by a goroutine of its own.  What is       *)
(* stored under a hash never changes, so a cached entry is its hash, with  *)
(* the size of its body.  The result of a fetch belongs to the request     *)
(* that leads it; those that wait hold a pointer to it.                    *)
(***************************************************************************)
EXTENDS Integers, Sequences, FiniteSets, SequencesExt

CONSTANTS Gets,       \* GET /media/:hash requests
          Hashes,
          Size,       \* size of the body stored under a hash
          MaxBytes,   \* Cache.maxBytes
          MaxEntry,   \* Cache.maxEntry
          Nobody      \* no request

ASSUME EdgeCacheAssumption ==
  /\ Size \in [Hashes -> Nat]
  /\ MaxBytes \in Nat /\ MaxEntry \in Nat
  /\ Nobody \notin Gets

\* What fetch returns: an entry to keep, a 200 that is not to be kept, another
\* status, or an error.
Results == {"entry", "uncacheable", "status", "error"}

VARIABLES
  order,     \* Cache.order, most recently used first; with it Cache.items
  used,      \* Cache.used
  inflight,  \* Handler.inflight: the request that leads the fetch of a hash
  pc,        \* where the goroutine of a request is
  hash,      \* the hash a request asks for
  leader,    \* whose fetchResult it holds
  result,    \* the fetchResult of a leader
  done,      \* the leaders that have closed their result's done
  reply      \* what a request was answered with

cacheVars   == <<order, used>>
requestVars == <<pc, hash, leader, result, done, reply>>
edgeVars    == <<cacheVars, inflight, requestVars>>

\* The cache, the inflight map and the requests are well formed; a request that
\* is answered has one of serve's replies.
CacheTypeOK ==
  /\ order \in Seq(Hashes)
  /\ used \in Nat
  /\ inflight \in [Hashes -> Gets \cup {Nobody}]
  /\ pc \in [Gets -> {"new", "missed", "waiting", "fetching", "fetched", "stored",
                      "released", "served", "passing", "answered"}]
  /\ hash \in [Gets -> Hashes]
  /\ leader \in [Gets -> Gets \cup {Nobody}]
  /\ result \in [Gets -> Results \cup {"none"}]
  /\ done \in SUBSET Gets
  /\ reply \in [Gets -> {"none", "hit", "entry", "bypass", "status", "bad gateway"}]

CacheInit ==
  /\ order = <<>> /\ used = 0
  /\ inflight = [h \in Hashes |-> Nobody]
  /\ pc = [q \in Gets |-> "new"]
  /\ hash \in [Gets -> Hashes]
  /\ leader = [q \in Gets |-> Nobody]
  /\ result = [q \in Gets |-> "none"]
  /\ done = {}
  /\ reply = [q \in Gets |-> "none"]

-----------------------------------------------------------------------------
(* The cache.                                                              *)

InCache(h)    == \E k \in DOMAIN order : order[k] = h

\* The list without the element that items has for h.
Without(s, h) == IF \E k \in DOMAIN s : s[k] = h
                 THEN RemoveAt(s, CHOOSE k \in DOMAIN s : s[k] = h) ELSE s

\* The bytes of the first entries of s, and of those behind the first k.
Bytes(s) == LET sum[k \in 0..Len(s)] == IF k = 0 THEN 0 ELSE sum[k - 1] + Size[s[k]]
            IN  sum
Behind(s, k) == Bytes(s)[Len(s)] - Bytes(s)[k]

\* Get, when it finds the entry: it becomes the most recently used one.
MoveToFront(h) == order' = <<h>> \o Without(order, h) /\ UNCHANGED used

\* Mutant: what a replaced entry used is not given back.
Freed_Forgotten(h) == 0

\* What Put gives back for an entry it is about to replace.
Freed(h) == IF InCache(h) THEN Size[h] ELSE 0

\* How many of the entries s Put keeps: it evicts from the back until size more
\* bytes fit, or nothing is left.
Kept(s, u, size) == Max({0} \cup {k \in 0..Len(s) : u - Behind(s, k) + size <= MaxBytes})

\* Put.  An entry over one of the two caps is not stored.
Put(h) ==
  LET rest == Without(order, h)
      kept == Kept(rest, used - Freed(h), Size[h])
  IN  IF Size[h] > MaxEntry \/ Size[h] > MaxBytes THEN UNCHANGED cacheVars
      ELSE /\ order' = <<h>> \o SubSeq(rest, 1, kept)
           /\ used' = used - Freed(h) - Behind(rest, kept) + Size[h]

-----------------------------------------------------------------------------
(* The handler.                                                            *)

\* Serve asks the cache.
Lookup(q) ==
  /\ pc[q] = "new"
  /\ \/ /\ InCache(hash[q])
        /\ MoveToFront(hash[q])
        /\ pc' = [pc EXCEPT ![q] = "answered"]
        /\ reply' = [reply EXCEPT ![q] = "hit"]
     \/ /\ ~InCache(hash[q])
        /\ pc' = [pc EXCEPT ![q] = "missed"]
        /\ UNCHANGED <<cacheVars, reply>>
  /\ UNCHANGED <<inflight, hash, leader, result, done>>

\* Mutant: inflight is written but not looked at.
Joins_Never(q) == FALSE

\* fetchOnce finds a fetch of the same hash under way.
Joins(q) == inflight[hash[q]] # Nobody

\* fetchOnce under h.mu: wait for the fetch under way, or lead one.
FetchOnce(q) ==
  /\ pc[q] = "missed"
  /\ \/ /\ Joins(q)
        /\ leader' = [leader EXCEPT ![q] = inflight[hash[q]]]
        /\ pc' = [pc EXCEPT ![q] = "waiting"]
        /\ UNCHANGED inflight
     \/ /\ ~Joins(q)
        /\ leader' = [leader EXCEPT ![q] = q]
        /\ inflight' = [inflight EXCEPT ![hash[q]] = q]
        /\ pc' = [pc EXCEPT ![q] = "fetching"]
  /\ UNCHANGED <<cacheVars, hash, result, done, reply>>

\* fetch: the origin answers, or it cannot be reached, times out or loses its
\* client.  Only a body within the per-object cap is kept.
Fetch(q, r) ==
  /\ pc[q] = "fetching"
  /\ r = "entry" => Size[hash[q]] <= MaxEntry
  /\ result' = [result EXCEPT ![q] = r]
  /\ pc' = [pc EXCEPT ![q] = "fetched"]
  /\ UNCHANGED <<cacheVars, inflight, hash, leader, done, reply>>

\* An entry goes to the cache before anyone is woken.
Store(q) ==
  /\ pc[q] = "fetched"
  /\ IF result[q] = "entry" THEN Put(hash[q]) ELSE UNCHANGED cacheVars
  /\ pc' = [pc EXCEPT ![q] = "stored"]
  /\ UNCHANGED <<inflight, hash, leader, result, done, reply>>

\* delete(h.inflight, hash) under h.mu.
Release(q) ==
  /\ pc[q] = "stored"
  /\ inflight' = [inflight EXCEPT ![hash[q]] = Nobody]
  /\ pc' = [pc EXCEPT ![q] = "released"]
  /\ UNCHANGED <<cacheVars, hash, leader, result, done, reply>>

\* Mutant: after an error done stays open.
Wake_NotOnError(q) ==
  /\ pc[q] = "released"
  /\ done' = IF result[q] = "error" THEN done ELSE done \cup {q}
  /\ pc' = [pc EXCEPT ![q] = "served"]
  /\ UNCHANGED <<cacheVars, inflight, hash, leader, result, reply>>

\* close(result.done).
Wake(q) ==
  /\ pc[q] = "released"
  /\ done' = done \cup {q}
  /\ pc' = [pc EXCEPT ![q] = "served"]
  /\ UNCHANGED <<cacheVars, inflight, hash, leader, result, reply>>

\* Mutant: a waiter looks at the result without waiting for done.
Wait_NoBlock(q) ==
  /\ pc[q] = "waiting"
  /\ pc' = [pc EXCEPT ![q] = "served"]
  /\ UNCHANGED <<cacheVars, inflight, hash, leader, result, done, reply>>

\* <-result.done.
Wait(q) ==
  /\ pc[q] = "waiting" /\ leader[q] \in done
  /\ pc' = [pc EXCEPT ![q] = "served"]
  /\ UNCHANGED <<cacheVars, inflight, hash, leader, result, done, reply>>

\* Mutant: the error of a fetch is not looked at.
Reply_Unchecked(r) == r

\* The answer a result that is not passed through stands for.
Reply(r) == IF r = "error" THEN "bad gateway" ELSE r

\* Serve answers from the result, or goes on to passthrough.
Answer(q) ==
  /\ pc[q] = "served"
  /\ LET r == result[leader[q]] IN
     \/ /\ r = "uncacheable"
        /\ pc' = [pc EXCEPT ![q] = "passing"]
        /\ UNCHANGED reply
     \/ /\ r # "uncacheable"
        /\ pc' = [pc EXCEPT ![q] = "answered"]
        /\ reply' = [reply EXCEPT ![q] = Reply(r)]
  /\ UNCHANGED <<cacheVars, inflight, hash, leader, result, done>>

\* passthrough: a fetch of its own, streamed to the client.
Passthrough(q, r) ==
  /\ pc[q] = "passing"
  /\ reply' = [reply EXCEPT ![q] = r]
  /\ pc' = [pc EXCEPT ![q] = "answered"]
  /\ UNCHANGED <<cacheVars, inflight, hash, leader, result, done>>

-----------------------------------------------------------------------------
Serve(q) ==
  \/ Lookup(q) \/ FetchOnce(q) \/ Store(q) \/ Release(q) \/ Wake(q) \/ Wait(q) \/ Answer(q)
  \/ \E r \in Results : Fetch(q, r)
  \/ \E r \in {"bypass", "status", "bad gateway"} : Passthrough(q, r)

CacheNext == \E q \in Gets : Serve(q)

CacheSpec == CacheInit /\ [][CacheNext]_edgeVars

\* A goroutine that can run does, and the origin client has a timeout.  A
\* request need not come.
CacheFairSpec == CacheSpec /\ \A q \in Gets : WF_edgeVars(pc[q] # "new" /\ Serve(q))

-----------------------------------------------------------------------------
(* Properties.                                                             *)

\* The byte count of cache.go is the sum of what is held, never over the bound,
\* and no hash is held twice, even when two fetches of one hash both store it.
BytesAccounted ==
  /\ used = Behind(order, 0) /\ used <= MaxBytes
  /\ \A k, l \in DOMAIN order : order[k] = order[l] => k = l

\* At any time at most one request fetches a given hash into the cache, and the
\* handler's inflight map says which.
OneFetch ==
  \A q \in Gets : pc[q] \in {"fetching", "fetched", "stored"} => inflight[hash[q]] = q

\* Nobody is answered from an unfinished fetch or from one of another hash, and
\* an error is never taken for an object.
ServedFromResult ==
  \A q \in Gets :
    /\ leader[q] # Nobody => hash[leader[q]] = hash[q]
    /\ pc[q] \in {"served", "passing"} => result[leader[q]] # "none"
    /\ reply[q] = "entry" => result[leader[q]] = "entry"

\* Every request that misses is answered: whatever the origin does to the leader
\* of a fetch, none of those waiting for it in fetchOnce is left behind.
EveryoneAnswered == \A q \in Gets : pc[q] = "missed" ~> pc[q] = "answered"

\* The handler's map, the calls and the cache are well formed, and the LRU list
\* and its byte count agree.
CacheInv == CacheTypeOK /\ BytesAccounted

=============================================================================
