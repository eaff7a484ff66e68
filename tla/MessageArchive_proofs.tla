------------------------ MODULE MessageArchive_proofs ------------------------
(***************************************************************************)
(* Theorems about MessageArchive: the history keeps the order in which a   *)
(* room broadcast, Close leaves nothing behind that was queued before it,  *)
(* and whoever pages through a growing history misses nothing, for any     *)
(* number of rooms, workers and messages, any capacities, any page size    *)
(* and any failures.                                                       *)
(***************************************************************************)
EXTENDS MessageArchive, FiniteSetTheorems, SequenceTheorems, TLAPS

USE ArchiveAssumption

-----------------------------------------------------------------------------
(* The inductive invariant.                                                *)

RowType      == [m : Messages, name : Names, at : 0..MaxClock]
ArchiverType == [pc : {"select", "drain", "done"}, m : 0..MaxMessages]
NotifierType == [pc : {"select", "drain", "done"}, m : 0..MaxMessages, tries : 0..MaxRetries]

SendTypes ==
  /\ clock \in 0..MaxClock
  /\ sent \in Seq([room : Rooms, at : 0..MaxClock]) /\ Len(sent) <= MaxMessages
  /\ holding \in [Rooms -> 0..MaxMessages]
QueueTypes ==
  /\ archiveQ \in Seq(Messages) /\ Len(archiveQ) <= ArchiveCap
  /\ notifyQ \in Seq(Messages) /\ Len(notifyQ) <= NotifyCap
WorkTypes == archiver \in ArchiverType /\ notifier \in [Workers -> NotifierType]
ProcTypes ==
  /\ rows \in Seq(RowType)
  /\ phase \in {"up", "closing", "gone"} /\ early \subseteq Messages /\ load \in Loads
ReadTypes ==
  "pc" \in DOMAIN reader /\ reader.pc \in {"idle", "get", "listed", "answered", "end"}

\* The stamps grow with the messages, and none is ahead of the clock.
StampInv ==
  /\ \A a, b \in DOMAIN sent : a <= b => sent[a].at <= sent[b].at
  /\ \A a \in DOMAIN sent : sent[a].at <= clock

\* Whatever is on its way was sent, and a goroutine holds a message of its own.
SentInv ==
  /\ \A i \in DOMAIN rows : rows[i].m \in DOMAIN sent /\ rows[i].at = sent[rows[i].m].at
  /\ archiver.m # 0 => archiver.m \in DOMAIN sent
  /\ \A k \in DOMAIN archiveQ : archiveQ[k] \in DOMAIN sent
  /\ \A r \in Rooms : holding[r] # 0 => holding[r] \in DOMAIN sent /\ sent[holding[r]].room = r
  /\ early \subseteq DOMAIN sent

\* The messages of one goroutine keep their order on the way from the room over
\* the queue and the worker to the table.
Behind(s, a, b) == s[a].room = s[b].room => a < b
RowsInv ==
  /\ \A i, j \in DOMAIN rows : i < j => Behind(sent, rows[i].m, rows[j].m)
  /\ archiver.m # 0 => \A i \in DOMAIN rows : Behind(sent, rows[i].m, archiver.m)
  /\ \A i \in DOMAIN rows, k \in DOMAIN archiveQ : Behind(sent, rows[i].m, archiveQ[k])
  /\ \A i \in DOMAIN rows, r \in Rooms : holding[r] # 0 => Behind(sent, rows[i].m, holding[r])
QueueInv ==
  /\ archiver.m # 0 => \A k \in DOMAIN archiveQ : Behind(sent, archiver.m, archiveQ[k])
  /\ archiver.m # 0 => \A r \in Rooms : holding[r] # 0 => Behind(sent, archiver.m, holding[r])
  /\ \A k, l \in DOMAIN archiveQ : k < l => Behind(sent, archiveQ[k], archiveQ[l])
  /\ \A k \in DOMAIN archiveQ, r \in Rooms : holding[r] # 0 => Behind(sent, archiveQ[k], holding[r])

\* A worker that is done has drained its queue of what was queued before Close,
\* and nothing of that comes later.
EarlyInv ==
  /\ archiver.pc # "select" => phase # "up"
  /\ \A w \in Workers : notifier[w].pc # "select" => phase # "up"
  /\ \A r \in Rooms : holding[r] # 0 => holding[r] \notin early
  /\ archiver.pc = "done" => \A k \in DOMAIN archiveQ : archiveQ[k] \notin early
  /\ \A w \in Workers : notifier[w].pc = "done" => \A k \in DOMAIN notifyQ : notifyQ[k] \notin early

Types == SendTypes /\ QueueTypes /\ WorkTypes /\ ProcTypes /\ ReadTypes
IInv  == Types /\ StampInv /\ SentInv /\ RowsInv /\ QueueInv /\ EarlyInv

-----------------------------------------------------------------------------
(* Sequences.                                                              *)

\* What is in a sequence, before and after something is appended or taken.
LEMMA Appended ==
  ASSUME NEW S, NEW q \in Seq(S), NEW e \in S
  PROVE  /\ Append(q, e) \in Seq(S) /\ Len(Append(q, e)) = Len(q) + 1
         /\ DOMAIN q = 1..Len(q) /\ DOMAIN Append(q, e) = 1..(Len(q) + 1) /\ Len(q) \in Nat
         /\ \A k \in DOMAIN q : Append(q, e)[k] = q[k]
         /\ Append(q, e)[Len(q) + 1] = e
<1>1. PICK a : a = Append(q, e)
  OBVIOUS
<1>2. /\ a \in Seq(S) /\ Len(a) = Len(q) + 1
      /\ \A k \in 1..Len(q) : a[k] = q[k]
      /\ a[Len(q) + 1] = e
  BY <1>1, AppendProperties
<1>3. DOMAIN q = 1..Len(q) /\ DOMAIN a = 1..Len(a) /\ Len(q) \in Nat
  BY <1>2, LenProperties
<1> QED
  BY <1>1, <1>2, <1>3

\* What a worker takes is the oldest entry; the others move up.
LEMMA Taken ==
  ASSUME NEW S, NEW q \in Seq(S), q # <<>>
  PROVE  /\ Head(q) \in S /\ Tail(q) \in Seq(S) /\ Len(Tail(q)) = Len(q) - 1 /\ Len(q) \in Nat
         /\ 1 \in DOMAIN q /\ Head(q) = q[1]
         /\ \A k \in DOMAIN Tail(q) : k \in Nat /\ k >= 1 /\ k + 1 \in DOMAIN q /\ Tail(q)[k] = q[k + 1]
<1>1. PICK t : t = Tail(q)
  OBVIOUS
<1>2. /\ Head(q) \in S /\ t \in Seq(S) /\ Len(t) = Len(q) - 1
      /\ \A k \in 1..Len(t) : t[k] = q[k + 1]
  BY <1>1, HeadTailProperties
<1>3. /\ Len(q) \in Nat /\ Len(q) # 0 /\ DOMAIN q = 1..Len(q)
      /\ DOMAIN t = 1..Len(t) /\ Head(q) = q[1]
  BY <1>2, LenProperties, EmptySeq
<1> QED
  BY <1>1, <1>2, <1>3

\* Offer appends within the capacity, or drops the message.
LEMMA Offered ==
  ASSUME NEW q \in Seq(Messages), NEW m \in Messages, NEW cap \in Nat, Len(q) <= cap,
         NEW o, o = Offer(q, m, cap)
  PROVE  /\ o \in Seq(Messages) /\ Len(o) <= cap
         /\ \A k \in DOMAIN q : k \in DOMAIN o /\ o[k] = q[k]
         /\ \A k \in DOMAIN o : k \in DOMAIN q \/ (o[k] = m /\ \A l \in DOMAIN q : l < k)
         /\ \A k \in DOMAIN o : k \in Nat
<1>1. DOMAIN q = 1..Len(q) /\ Len(q) \in Nat
  BY LenProperties
<1>2. CASE Len(q) < cap
  <2>1. o = Append(q, m)
    BY <1>2 DEF Offer
  <2>2. /\ o \in Seq(Messages) /\ Len(o) = Len(q) + 1 /\ DOMAIN o = 1..(Len(q) + 1)
        /\ (\A k \in DOMAIN q : o[k] = q[k]) /\ o[Len(q) + 1] = m
    BY <2>1, Appended
  <2> QED
    BY <1>1, <1>2, <2>2
<1>3. CASE ~(Len(q) < cap)
  <2>1. o = q
    BY <1>3 DEF Offer
  <2> QED
    BY <1>1, <2>1
<1> QED
  BY <1>2, <1>3

\* A table has no more rows than there are messages, if none is in it twice.
LEMMA NoMoreRows ==
  ASSUME NEW q \in Seq(RowType), \A i, j \in DOMAIN q : i < j => q[i].m # q[j].m
  PROVE  Len(q) <= MaxMessages
<1> SUFFICES ASSUME Len(q) > MaxMessages PROVE FALSE
  BY LenProperties
<1>1. DOMAIN q = 1..Len(q) /\ Len(q) \in Nat
  BY LenProperties
<1>2. PICK S : S = 1..Len(q)
  OBVIOUS
<1>3. PICK T : T = 1..MaxMessages
  OBVIOUS
<1>4. IsFiniteSet(S) /\ Cardinality(S) = Len(q)
  <2>1. 1 \in Int /\ Len(q) \in Int /\ Len(q) >= 1
    BY <1>1
  <2>2. IsFiniteSet(1..Len(q)) /\ Cardinality(1..Len(q)) = IF 1 > Len(q) THEN 0 ELSE Len(q) - 1 + 1
    BY <2>1, FS_Interval
  <2> QED
    BY <1>1, <1>2, <2>1, <2>2
<1>5. IsFiniteSet(T) /\ Cardinality(T) = MaxMessages
  <2>1. 1 \in Int /\ MaxMessages \in Int
    OBVIOUS
  <2>2. IsFiniteSet(1..MaxMessages)
        /\ Cardinality(1..MaxMessages) = IF 1 > MaxMessages THEN 0 ELSE MaxMessages - 1 + 1
    BY <2>1, FS_Interval
  <2> QED
    BY <1>3, <2>1, <2>2
<1>6. PICK f : f = [i \in S |-> q[i].m]
  OBVIOUS
<1>7. f \in [S -> T]
  <2>1. \A i \in S : q[i] \in RowType
    BY <1>1, <1>2, ElementOfSeq
  <2> QED
    BY <1>3, <1>6, <2>1 DEF RowType, Messages
<1>8. \E x, y \in S : x # y /\ f[x] = f[y]
  BY <1>1, <1>4, <1>5, <1>7, FS_PigeonHole
<1>9. PICK x, y \in 1..Len(q) : x < y /\ f[x] = f[y]
  BY <1>1, <1>2, <1>8
<1> QED
  BY <1>1, <1>2, <1>6, <1>9

-----------------------------------------------------------------------------
(* The rooms.                                                              *)

\* Nothing was sent, queued or inserted.
LEMMA InitIInv == Init => IInv
<1> SUFFICES ASSUME Init PROVE IInv
  OBVIOUS
<1> USE DEF Init
<1>1. \A S : <<>> \in Seq(S) /\ Len(<<>>) = 0 /\ DOMAIN <<>> = {}
  OBVIOUS
<1>2. SendTypes /\ QueueTypes
  BY <1>1 DEF SendTypes, QueueTypes
<1>3. WorkTypes
  BY DEF WorkTypes, ArchiverType, NotifierType, IdleArchiver, IdleNotifier
<1>4. ProcTypes /\ ReadTypes
  BY <1>1 DEF ProcTypes, ReadTypes, NoReader
<1>5. StampInv
  BY <1>1 DEF StampInv
<1>6. archiver.m = 0 /\ archiver.pc = "select" /\ \A w \in Workers : notifier[w].pc = "select"
  BY DEF IdleArchiver, IdleNotifier
<1>7. SentInv /\ RowsInv /\ QueueInv /\ EarlyInv
  BY <1>1, <1>6 DEF SentInv, RowsInv, QueueInv, EarlyInv
<1> QED
  BY <1>2, <1>3, <1>4, <1>5, <1>7 DEF IInv, Types

\* A configuration is within the bounds.
LEMMA LoadParts ==
  ASSUME Types
  PROVE  load.messages \in Nat /\ load.messages <= MaxMessages /\ load.ticks \in Nat /\ load.ticks <= MaxClock
<1>1. load \in [notifying : BOOLEAN, browsing : BOOLEAN, stopping : BOOLEAN,
                messages : 0..MaxMessages, ticks : 0..MaxClock]
  BY DEF Types, ProcTypes
<1> QED
  BY <1>1

\* Tick.
LEMMA TickStep == ASSUME IInv, Tick PROVE IInv'
<1>1. /\ clock < load.ticks /\ clock' = clock + 1
      /\ UNCHANGED <<sent, holding, archiveQ, notifyQ, archiver, notifier, rows, phase, early, load,
                     reader>>
  BY DEF Tick, queueVars, procVars
<1>2. SendTypes'
  BY <1>1, LoadParts DEF IInv, Types, SendTypes
<1>3. StampInv'
  <2>1. \A a \in DOMAIN sent : sent[a] \in [room : Rooms, at : 0..MaxClock]
    BY ElementOfSeq, LenProperties DEF IInv, Types, SendTypes
  <2>2. clock \in Int /\ \A a \in DOMAIN sent : sent[a].at \in Int
    BY <2>1 DEF IInv, Types, SendTypes
  <2> QED
    BY <1>1, <2>2 DEF IInv, StampInv
<1>4. Types'
  BY <1>1, <1>2 DEF IInv, Types, QueueTypes, WorkTypes, ProcTypes, ReadTypes
<1>5. SentInv' /\ EarlyInv'
  BY <1>1 DEF IInv, SentInv, EarlyInv
<1>6. RowsInv' /\ QueueInv'
  BY <1>1 DEF IInv, RowsInv, QueueInv, Behind
<1> QED
  BY <1>3, <1>4, <1>5, <1>6 DEF IInv

\* Broadcast: the new message is behind every other one.
LEMMA BroadcastStep == ASSUME IInv, NEW r \in Rooms, Broadcast(r) PROVE IInv'
<1> DEFINE R == [room : Rooms, at : 0..MaxClock]
<1>1. PICK e \in R : e = [room |-> r, at |-> clock]
  BY DEF IInv, Types, SendTypes
<1>2. sent \in Seq(R)
  BY DEF IInv, Types, SendTypes
<1>3. PICK n \in Nat : n = Len(sent) + 1
  BY <1>2, LenProperties
<1> HIDE DEF R
<1>4. /\ sent' = Append(sent, e) /\ Len(sent) < load.messages
      /\ UNCHANGED <<clock, archiveQ, notifyQ, archiver, notifier, rows, phase, early, load, reader>>
  BY <1>1 DEF Broadcast, queueVars, procVars
<1>5. /\ sent' \in Seq(R) /\ Len(sent') = n
      /\ DOMAIN sent = 1..Len(sent) /\ DOMAIN sent' = 1..n
      /\ (\A a \in DOMAIN sent : sent'[a] = sent[a]) /\ sent'[n] = e
  BY <1>2, <1>3, <1>4, Appended
<1>6. \A a \in DOMAIN sent : a \in Nat /\ a < n /\ a \in DOMAIN sent'
  BY <1>2, <1>3, <1>5, LenProperties
<1>7. n \in 1..MaxMessages /\ n \in DOMAIN sent' /\ n # 0 /\ n \notin DOMAIN sent
      /\ \A a \in DOMAIN sent' : a \in DOMAIN sent \/ a = n
  <2>1. Len(sent) \in Nat
    BY <1>2, LenProperties
  <2>2. n <= MaxMessages
    BY <1>3, <1>4, <2>1, LoadParts DEF IInv
  <2> QED
    BY <1>3, <1>5, <2>1, <2>2
<1>8. holding' \in [Rooms -> 0..MaxMessages] /\ holding'[r] = n
      /\ \A x \in Rooms : x # r => holding'[x] = holding[x]
  <2>1. holding' = [holding EXCEPT ![r] = n]
    BY <1>5 DEF Broadcast
  <2> QED
    BY <1>7, <2>1 DEF IInv, Types, SendTypes
<1>9. Types'
  <2>1. SendTypes'
    BY <1>4, <1>5, <1>7, <1>8 DEF IInv, Types, SendTypes, R
  <2> QED
    BY <1>4, <2>1 DEF IInv, Types, QueueTypes, WorkTypes, ProcTypes, ReadTypes
<1>10. StampInv'
  <2>1. e.at = clock /\ clock \in Int
    BY <1>1 DEF IInv, Types, SendTypes
  <2>2. \A a, b \in DOMAIN sent : a <= b => sent[a].at <= sent[b].at
    BY DEF IInv, StampInv
  <2>3. \A a \in DOMAIN sent : sent[a].at <= clock
    BY DEF IInv, StampInv
  <2>4. clock <= clock
    BY <2>1
  <2> SUFFICES ASSUME NEW a \in DOMAIN sent', NEW b \in DOMAIN sent', a <= b
               PROVE  sent'[a].at <= sent'[b].at /\ sent'[a].at <= clock
    BY <1>4 DEF StampInv
  <2>5. CASE b \in DOMAIN sent
    <3>1. a \in DOMAIN sent
      BY <1>3, <1>5, <1>6, <1>7, <2>5
    <3> QED
      BY <1>5, <2>2, <2>3, <2>5, <3>1
  <2>6. CASE b = n
    <3>1. CASE a \in DOMAIN sent
      BY <1>5, <2>1, <2>3, <2>6, <3>1
    <3>2. CASE a = n
      BY <1>5, <2>1, <2>4, <2>6, <3>2
    <3> QED
      BY <1>7, <3>1, <3>2
  <2> QED
    BY <1>7, <2>5, <2>6
<1>11. SentInv'
  <2>1. e.room = r
    BY <1>1
  <2>2. \A a \in DOMAIN sent : a \in DOMAIN sent' /\ sent'[a] = sent[a]
    BY <1>5, <1>6
  <2>3. \A i \in DOMAIN rows : rows[i].m \in DOMAIN sent' /\ rows[i].at = sent'[rows[i].m].at
    BY <2>2 DEF IInv, SentInv
  <2>4. /\ archiver.m # 0 => archiver.m \in DOMAIN sent'
        /\ \A k \in DOMAIN archiveQ : archiveQ[k] \in DOMAIN sent'
        /\ early \subseteq DOMAIN sent'
    BY <2>2 DEF IInv, SentInv
  <2>5. \A x \in Rooms : holding'[x] # 0 =>
                          holding'[x] \in DOMAIN sent' /\ sent'[holding'[x]].room = x
    <3> SUFFICES ASSUME NEW x \in Rooms, holding'[x] # 0
                 PROVE  holding'[x] \in DOMAIN sent' /\ sent'[holding'[x]].room = x
      OBVIOUS
    <3>1. CASE x = r
      BY <1>5, <1>7, <1>8, <2>1, <3>1
    <3>2. CASE x # r
      BY <1>8, <2>2, <3>2 DEF IInv, SentInv
    <3> QED
      BY <3>1, <3>2
  <2> QED
    BY <1>4, <2>3, <2>4, <2>5 DEF SentInv
<1>12. /\ \A a, b \in DOMAIN sent : Behind(sent, a, b) => Behind(sent', a, b)
       /\ \A a \in DOMAIN sent : Behind(sent', a, n)
  BY <1>5, <1>6 DEF Behind
<1>13. /\ \A i \in DOMAIN rows : rows[i].m \in DOMAIN sent
       /\ archiver.m # 0 => archiver.m \in DOMAIN sent
       /\ \A k \in DOMAIN archiveQ : archiveQ[k] \in DOMAIN sent
       /\ \A x \in Rooms : holding[x] # 0 => holding[x] \in DOMAIN sent
  BY DEF IInv, SentInv
<1>14. RowsInv'
  <2>1. \A i \in DOMAIN rows, x \in Rooms : holding'[x] # 0 => Behind(sent', rows[i].m, holding'[x])
    BY <1>8, <1>12, <1>13 DEF IInv, RowsInv
  <2> QED
    BY <1>4, <1>12, <1>13, <2>1 DEF IInv, RowsInv
<1>15. QueueInv'
  <2>1. archiver.m # 0 => \A x \in Rooms : holding'[x] # 0 => Behind(sent', archiver.m, holding'[x])
    BY <1>8, <1>12, <1>13 DEF IInv, QueueInv
  <2>2. \A k \in DOMAIN archiveQ, x \in Rooms :
          holding'[x] # 0 => Behind(sent', archiveQ[k], holding'[x])
    BY <1>8, <1>12, <1>13 DEF IInv, QueueInv
  <2> QED
    BY <1>4, <1>12, <1>13, <2>1, <2>2 DEF IInv, QueueInv
<1>16. EarlyInv'
  <2>1. n \notin early
    BY <1>7 DEF IInv, SentInv
  <2> QED
    BY <1>4, <1>8, <2>1 DEF IInv, EarlyInv
<1> QED
  BY <1>9, <1>10, <1>11, <1>14, <1>15, <1>16 DEF IInv

\* Archive: the message goes to the end of both queues, or is dropped.
LEMMA ArchiveStep == ASSUME IInv, NEW r \in Rooms, Archive(r) PROVE IInv'
<1>1. PICK m \in Messages : m = holding[r]
  BY DEF Archive, Messages, IInv, Types, SendTypes
<1>2. PICK q : q = Offer(archiveQ, m, ArchiveCap)
  OBVIOUS
<1>3. PICK p : p = IF load.notifying THEN Offer(notifyQ, m, NotifyCap) ELSE notifyQ
  OBVIOUS
<1>4. /\ m # 0 /\ archiveQ' = q /\ notifyQ' = p
      /\ holding' = [holding EXCEPT ![r] = 0]
      /\ early' = IF phase = "up" THEN early \union {m} ELSE early
      /\ UNCHANGED <<clock, sent, archiver, notifier, rows, phase, load, reader>>
  BY <1>1, <1>2, <1>3 DEF Archive
<1>5. /\ q \in Seq(Messages) /\ Len(q) <= ArchiveCap
      /\ \A k \in DOMAIN archiveQ : k \in DOMAIN q /\ q[k] = archiveQ[k]
      /\ \A k \in DOMAIN q : k \in DOMAIN archiveQ \/ (q[k] = m /\ \A l \in DOMAIN archiveQ : l < k)
      /\ \A k \in DOMAIN q : k \in Nat
  <2>1. archiveQ \in Seq(Messages) /\ Len(archiveQ) <= ArchiveCap /\ ArchiveCap \in Nat
    BY DEF IInv, Types, QueueTypes
  <2> QED
    BY <1>2, <2>1, Offered
<1>6. /\ p \in Seq(Messages) /\ Len(p) <= NotifyCap
      /\ \A k \in DOMAIN p : p[k] = m \/ (k \in DOMAIN notifyQ /\ p[k] = notifyQ[k])
  <2>1. CASE load.notifying
    <3>1. p = Offer(notifyQ, m, NotifyCap)
      BY <1>3, <2>1
    <3>2. notifyQ \in Seq(Messages) /\ Len(notifyQ) <= NotifyCap /\ NotifyCap \in Nat
      BY DEF IInv, Types, QueueTypes
    <3> QED
      BY <3>1, <3>2, Offered
  <2>2. CASE ~load.notifying
    BY <1>3, <2>2 DEF IInv, Types, QueueTypes
  <2> QED
    BY <2>1, <2>2
<1>7. /\ holding' \in [Rooms -> 0..MaxMessages] /\ holding'[r] = 0
      /\ \A x \in Rooms : x # r => holding'[x] = holding[x]
  BY <1>4 DEF IInv, Types, SendTypes
<1>8. m \in DOMAIN sent /\ m \notin early
      /\ \A x \in Rooms : x # r /\ holding[x] # 0 => holding[x] # m
  BY <1>1, <1>4 DEF IInv, SentInv, EarlyInv
<1>9. Types'
  <2>1. SendTypes'
    BY <1>4, <1>7 DEF IInv, Types, SendTypes
  <2>2. QueueTypes'
    BY <1>4, <1>5, <1>6 DEF QueueTypes
  <2>3. ProcTypes'
    BY <1>4 DEF IInv, Types, ProcTypes
  <2> QED
    BY <1>4, <2>1, <2>2, <2>3 DEF IInv, Types, WorkTypes, ReadTypes
<1>10. StampInv'
  BY <1>4 DEF IInv, StampInv
<1>11. SentInv'
  BY <1>4, <1>5, <1>7, <1>8 DEF IInv, SentInv
<1>12. RowsInv'
  <2>1. \A i \in DOMAIN rows : Behind(sent, rows[i].m, m)
    BY <1>1, <1>4 DEF IInv, RowsInv
  <2> QED
    BY <1>4, <1>5, <1>7, <2>1 DEF IInv, RowsInv
<1>13. QueueInv'
  <2>1. /\ archiver.m # 0 => Behind(sent, archiver.m, m)
        /\ \A k \in DOMAIN archiveQ : Behind(sent, archiveQ[k], m)
    BY <1>1, <1>4 DEF IInv, QueueInv
  <2>2. \A x \in Rooms : x # r /\ holding[x] # 0 => Behind(sent, m, holding[x])
    BY <1>1, <1>4 DEF IInv, SentInv, Behind
  <2>3. archiver.m # 0 => \A k \in DOMAIN q : Behind(sent, archiver.m, q[k])
    BY <1>5, <2>1 DEF IInv, QueueInv
  <2>4. \A k, l \in DOMAIN q : k < l => Behind(sent, q[k], q[l])
    <3> SUFFICES ASSUME NEW k \in DOMAIN q, NEW l \in DOMAIN q, k < l PROVE Behind(sent, q[k], q[l])
      OBVIOUS
    <3>1. CASE k \in DOMAIN archiveQ /\ l \in DOMAIN archiveQ
      BY <1>5, <3>1 DEF IInv, QueueInv
    <3>2. CASE k \in DOMAIN archiveQ /\ l \notin DOMAIN archiveQ
      BY <1>5, <2>1, <3>2
    <3>3. CASE k \notin DOMAIN archiveQ
      <4>1. \A x \in DOMAIN archiveQ : x < k
        BY <1>5, <3>3
      <4>2. l \notin DOMAIN archiveQ
        BY <1>5, <4>1
      <4>3. k \in Nat /\ l \in Nat
        BY <1>5
      <4>4. q \in Seq(Messages) /\ DOMAIN q = 1..Len(q) /\ Len(q) \in Nat
        BY <1>5, LenProperties
      <4>5. CASE q = archiveQ
        BY <3>3, <4>5
      <4>6. CASE q = Append(archiveQ, m)
        <5>1. DOMAIN archiveQ = 1..Len(archiveQ) /\ Len(q) = Len(archiveQ) + 1 /\ Len(archiveQ) \in Nat
          BY <4>6, Appended DEF IInv, Types, QueueTypes
        <5> QED
          BY <3>3, <4>2, <4>3, <4>4, <5>1
      <4> QED
        BY <1>2, <4>5, <4>6 DEF Offer
    <3> QED
      BY <3>1, <3>2, <3>3
  <2>5. \A k \in DOMAIN q, x \in Rooms : holding'[x] # 0 => Behind(sent, q[k], holding'[x])
    BY <1>5, <1>7, <2>2 DEF IInv, QueueInv
  <2>6. archiver.m # 0 => \A x \in Rooms : holding'[x] # 0 => Behind(sent, archiver.m, holding'[x])
    BY <1>7 DEF IInv, QueueInv
  <2> QED
    BY <1>4, <2>3, <2>4, <2>5, <2>6 DEF QueueInv
<1>14. EarlyInv'
  BY <1>4, <1>5, <1>6, <1>7, <1>8 DEF IInv, EarlyInv
<1> QED
  BY <1>9, <1>10, <1>11, <1>12, <1>13, <1>14 DEF IInv

-----------------------------------------------------------------------------
(* The archive worker.                                                     *)

\* A message moves from the head of the queue to the worker.
LEMMA TakeStep == ASSUME IInv, ArchiveTake PROVE IInv'
<1>1. PICK a \in ArchiverType : archiver = a
  BY DEF IInv, Types, WorkTypes
<1>2. PICK h : h = Head(archiveQ)
  OBVIOUS
<1>3. PICK t : t = Tail(archiveQ)
  OBVIOUS
<1>4. /\ a.m = 0 /\ archiveQ # <<>> /\ a.pc # "done" /\ archiveQ' = t
      /\ archiver' = [a EXCEPT !.m = h]
      /\ UNCHANGED <<clock, sent, holding, notifyQ, notifier, rows, phase, early, load, reader>>
  BY <1>1, <1>2, <1>3 DEF ArchiveTake, ArchiverFree, sendVars, procVars
<1>5. /\ h \in Messages /\ t \in Seq(Messages) /\ Len(t) <= ArchiveCap
      /\ 1 \in DOMAIN archiveQ /\ h = archiveQ[1]
      /\ \A k \in DOMAIN t : k \in Nat /\ k >= 1 /\ k + 1 \in DOMAIN archiveQ /\ t[k] = archiveQ[k + 1]
  <2>1. archiveQ \in Seq(Messages) /\ Len(archiveQ) <= ArchiveCap
    BY DEF IInv, Types, QueueTypes
  <2> QED
    BY <1>2, <1>3, <1>4, <2>1, Taken
<1>6. archiver' \in ArchiverType /\ archiver'.m = h /\ archiver'.pc = a.pc /\ h # 0
  <2>1. h \in 0..MaxMessages /\ h # 0
    BY <1>5 DEF Messages
  <2>2. archiver' = [a EXCEPT !.m = h]
    BY <1>4
  <2> QED
    BY <2>1, <2>2 DEF ArchiverType
<1>7. Types'
  BY <1>4, <1>5, <1>6 DEF IInv, Types, SendTypes, QueueTypes, WorkTypes, ProcTypes, ReadTypes
<1>8. StampInv' /\ SentInv'
  BY <1>4, <1>5, <1>6 DEF IInv, StampInv, SentInv
<1>9. RowsInv'
  BY <1>4, <1>5, <1>6 DEF IInv, RowsInv
<1>10. QueueInv'
  <2>1. \A k \in DOMAIN t : Behind(sent, h, t[k])
    <3> SUFFICES ASSUME NEW k \in DOMAIN t PROVE Behind(sent, h, t[k])
      OBVIOUS
    <3>1. 1 < k + 1
      BY <1>5
    <3> QED
      BY <1>5, <3>1 DEF IInv, QueueInv
  <2>2. \A k, l \in DOMAIN t : k < l => Behind(sent, t[k], t[l])
    <3> SUFFICES ASSUME NEW k \in DOMAIN t, NEW l \in DOMAIN t, k < l PROVE Behind(sent, t[k], t[l])
      OBVIOUS
    <3>1. k + 1 < l + 1
      BY <1>5
    <3> QED
      BY <1>5, <3>1 DEF IInv, QueueInv
  <2>3. \A r \in Rooms : holding[r] # 0 => Behind(sent, h, holding[r])
    BY <1>5 DEF IInv, QueueInv
  <2>4. \A k \in DOMAIN t, r \in Rooms : holding[r] # 0 => Behind(sent, t[k], holding[r])
    BY <1>5 DEF IInv, QueueInv
  <2> QED
    BY <1>4, <1>6, <2>1, <2>2, <2>3, <2>4 DEF QueueInv
<1>11. EarlyInv'
  BY <1>1, <1>4, <1>5, <1>6 DEF IInv, EarlyInv
<1> QED
  BY <1>7, <1>8, <1>9, <1>10, <1>11 DEF IInv

\* The INSERT: the row goes behind those of its room, or is lost.
LEMMA CreateStep == ASSUME IInv, ArchiveCreate PROVE IInv'
<1>1. PICK a \in ArchiverType : archiver = a
  BY DEF IInv, Types, WorkTypes
<1>2. PICK m : m = a.m
  OBVIOUS
<1>3. PICK e : e = Row(m)
  OBVIOUS
<1>4. /\ m # 0 /\ rows' \in {rows, Append(rows, e)} /\ archiver' = [a EXCEPT !.m = 0]
      /\ UNCHANGED <<clock, sent, holding, archiveQ, notifyQ, notifier, phase, early, load, reader>>
  BY <1>1, <1>2, <1>3 DEF ArchiveCreate, Inserted, sendVars, queueVars, procVars
<1>5. archiver' \in ArchiverType /\ archiver'.m = 0 /\ archiver'.pc = a.pc
  BY <1>4 DEF ArchiverType
<1>6. m \in DOMAIN sent
  BY <1>1, <1>2, <1>4 DEF IInv, SentInv
<1>7. e \in RowType /\ e.m = m /\ e.at = sent[m].at
  <2>1. m \in Messages
    BY <1>1, <1>2, <1>4 DEF ArchiverType, Messages
  <2>2. PICK x \in [room : Rooms, at : 0..MaxClock] : sent[m] = x
    BY <1>6, ElementOfSeq, LenProperties DEF IInv, Types, SendTypes
  <2>3. e = [m |-> m, name |-> Name[x.room], at |-> x.at]
    BY <1>3, <2>2 DEF Row
  <2>4. Name[x.room] \in Names /\ x.at \in 0..MaxClock
    BY DEF Names
  <2> QED
    BY <2>1, <2>2, <2>3, <2>4 DEF RowType
<1>8. /\ rows' \in Seq(RowType)
      /\ \A i \in DOMAIN rows' : i \in Nat /\ \/ i \in DOMAIN rows /\ rows'[i] = rows[i]
                                              \/ rows'[i] = e /\ \A j \in DOMAIN rows' : j <= i
  <2>1. rows \in Seq(RowType) /\ DOMAIN rows = 1..Len(rows) /\ Len(rows) \in Nat
    BY LenProperties DEF IInv, Types, ProcTypes
  <2>2. CASE rows' = rows
    BY <2>1, <2>2
  <2>3. CASE rows' = Append(rows, e)
    <3>1. /\ rows' \in Seq(RowType) /\ DOMAIN rows' = 1..(Len(rows) + 1)
          /\ (\A k \in DOMAIN rows : rows'[k] = rows[k]) /\ rows'[Len(rows) + 1] = e
      BY <1>7, <2>1, <2>3, Appended
    <3> QED
      BY <2>1, <3>1
  <2> QED
    BY <1>4, <2>2, <2>3
<1>9. Types'
  BY <1>4, <1>5, <1>8 DEF IInv, Types, SendTypes, QueueTypes, WorkTypes, ProcTypes, ReadTypes
<1>10. StampInv'
  BY <1>4 DEF IInv, StampInv
<1>11. SentInv'
  <2>1. \A i \in DOMAIN rows' : rows'[i].m \in DOMAIN sent /\ rows'[i].at = sent[rows'[i].m].at
    BY <1>6, <1>7, <1>8 DEF IInv, SentInv
  <2> QED
    BY <1>4, <1>5, <2>1 DEF IInv, SentInv
<1>12. RowsInv'
  <2>1. /\ \A i \in DOMAIN rows : Behind(sent, rows[i].m, m)
        /\ \A k \in DOMAIN archiveQ : Behind(sent, m, archiveQ[k])
        /\ \A r \in Rooms : holding[r] # 0 => Behind(sent, m, holding[r])
    BY <1>1, <1>2, <1>4 DEF IInv, RowsInv, QueueInv
  <2>2. \A i, j \in DOMAIN rows' : i < j => Behind(sent, rows'[i].m, rows'[j].m)
    <3> SUFFICES ASSUME NEW i \in DOMAIN rows', NEW j \in DOMAIN rows', i < j
                 PROVE  Behind(sent, rows'[i].m, rows'[j].m)
      OBVIOUS
    <3>1. i \in DOMAIN rows /\ rows'[i] = rows[i]
      <4>1. i \in Nat /\ j \in Nat /\ ~(j <= i)
        BY <1>8
      <4> QED
        BY <1>8, <4>1
    <3> QED
      BY <1>7, <1>8, <2>1, <3>1 DEF IInv, RowsInv
  <2>3. \A i \in DOMAIN rows', k \in DOMAIN archiveQ : Behind(sent, rows'[i].m, archiveQ[k])
    BY <1>7, <1>8, <2>1 DEF IInv, RowsInv
  <2>4. \A i \in DOMAIN rows', r \in Rooms : holding[r] # 0 => Behind(sent, rows'[i].m, holding[r])
    BY <1>7, <1>8, <2>1 DEF IInv, RowsInv
  <2> QED
    BY <1>4, <1>5, <2>2, <2>3, <2>4 DEF RowsInv
<1>13. QueueInv'
  BY <1>4, <1>5 DEF IInv, QueueInv
<1>14. EarlyInv'
  BY <1>1, <1>4, <1>5 DEF IInv, EarlyInv
<1> QED
  BY <1>9, <1>10, <1>11, <1>12, <1>13, <1>14 DEF IInv

-----------------------------------------------------------------------------
(* Steps that move no message towards the table.                           *)

\* What has to be shown of such a step.
LEMMA AsideStep ==
  ASSUME IInv, UNCHANGED <<clock, sent, holding, archiveQ, rows, early, load>>,
         archiver'.m = archiver.m, Types', EarlyInv'
  PROVE  IInv'
<1>1. StampInv' /\ SentInv'
  BY DEF IInv, StampInv, SentInv
<1>2. RowsInv'
  BY DEF IInv, RowsInv
<1>3. QueueInv'
  BY DEF IInv, QueueInv
<1> QED
  BY <1>1, <1>2, <1>3 DEF IInv

\* ArchiveStop and ArchiveExit: a worker is done with an empty queue.
LEMMA ArchiverStep == ASSUME IInv, ArchiveStop \/ ArchiveExit PROVE IInv'
<1>1. PICK a \in ArchiverType : archiver = a
  BY DEF IInv, Types, WorkTypes
<1>2. /\ UNCHANGED <<clock, sent, holding, archiveQ, notifyQ, notifier, rows, phase, early, load, reader>>
      /\ \/ phase = "closing" /\ archiver' = [a EXCEPT !.pc = "drain"]
         \/ a.pc = "drain" /\ archiveQ = <<>> /\ archiver' = [a EXCEPT !.pc = "done"]
  BY <1>1 DEF ArchiveStop, ArchiveExit, Drained, sendVars, queueVars, procVars
<1>3. /\ archiver' \in ArchiverType /\ archiver'.m = a.m
      /\ \/ archiver'.pc = "drain" /\ phase = "closing"
         \/ archiver'.pc = "done" /\ a.pc = "drain" /\ archiveQ = <<>>
  BY <1>2 DEF ArchiverType
<1>4. Types'
  BY <1>2, <1>3 DEF IInv, Types, SendTypes, QueueTypes, WorkTypes, ProcTypes, ReadTypes
<1>5. EarlyInv'
  <2>1. archiver'.pc = "done" => \A k \in DOMAIN archiveQ : archiveQ[k] \notin early
    <3>1. DOMAIN <<>> = {}
      OBVIOUS
    <3> QED
      BY <1>3, <3>1
  <2>2. phase # "up"
    BY <1>1, <1>3 DEF IInv, EarlyInv
  <2> QED
    BY <1>2, <2>1, <2>2 DEF IInv, EarlyInv
<1> QED
  BY <1>1, <1>2, <1>3, <1>4, <1>5, AsideStep

\* The notify workers: queue, attempts and end of w.
LEMMA NotifierStep == ASSUME IInv, NEW w \in Workers, NotifyWorker(w) PROVE IInv'
<1>1. PICK n \in NotifierType : notifier[w] = n
  BY DEF IInv, Types, WorkTypes
<1>2. UNCHANGED <<clock, sent, holding, archiveQ, archiver, rows, phase, early, load, reader>>
  BY DEF NotifyWorker, NotifyTake, NotifyOver, NotifyRetry, NotifyDeadline, NotifyStop, NotifyExit,
         sendVars, queueVars, procVars
<1>3. ASSUME NEW x \in NotifierType, notifier' = [notifier EXCEPT ![w] = x],
             notifyQ' \in Seq(Messages), Len(notifyQ') <= NotifyCap,
             \A k \in DOMAIN notifyQ' : \E l \in DOMAIN notifyQ : notifyQ'[k] = notifyQ[l],
             \/ x.pc = n.pc
             \/ x.pc = "drain" /\ phase = "closing"
             \/ x.pc = "done" /\ n.pc = "drain" /\ notifyQ' = <<>>
      PROVE  IInv'
  <2>1. notifier'[w] = x /\ \A v \in Workers : v # w => notifier'[v] = notifier[v]
    BY <1>3 DEF IInv, Types, WorkTypes
  <2>2. Types'
    BY <1>2, <1>3 DEF IInv, Types, SendTypes, QueueTypes, WorkTypes, ProcTypes, ReadTypes
  <2>3. x.pc # "select" => phase # "up"
    BY <1>1, <1>3 DEF IInv, EarlyInv
  <2>4. \A v \in Workers : notifier[v].pc = "done" => \A k \in DOMAIN notifyQ' : notifyQ'[k] \notin early
    BY <1>3 DEF IInv, EarlyInv
  <2>5. x.pc = "done" => \A k \in DOMAIN notifyQ' : notifyQ'[k] \notin early
    <3>1. DOMAIN <<>> = {}
      OBVIOUS
    <3> QED
      BY <1>1, <1>3, <2>4, <3>1
  <2>6. EarlyInv'
    BY <1>2, <2>1, <2>3, <2>4, <2>5 DEF IInv, EarlyInv
  <2> QED
    BY <1>2, <2>2, <2>6, AsideStep
<1>4. notifyQ \in Seq(Messages) /\ Len(notifyQ) <= NotifyCap
  BY DEF IInv, Types, QueueTypes
<1>5. CASE NotifyTake(w)
  <2>1. PICK h : h = Head(notifyQ)
    OBVIOUS
  <2>2. PICK t : t = Tail(notifyQ)
    OBVIOUS
  <2>3. notifyQ # <<>> /\ notifyQ' = t /\ notifier' = [notifier EXCEPT ![w] = [n EXCEPT !.m = h, !.tries = 0]]
    BY <1>1, <1>5, <2>1, <2>2 DEF NotifyTake
  <2>4. h \in Messages /\ t \in Seq(Messages) /\ Len(t) <= NotifyCap
        /\ \A k \in DOMAIN t : k + 1 \in DOMAIN notifyQ /\ t[k] = notifyQ[k + 1]
    BY <1>4, <2>1, <2>2, <2>3, Taken
  <2>5. [n EXCEPT !.m = h, !.tries = 0] \in NotifierType /\ [n EXCEPT !.m = h, !.tries = 0].pc = n.pc
    <3>1. h \in 0..MaxMessages /\ 0 \in 0..MaxRetries
      BY <2>4 DEF Messages
    <3> QED
      BY <3>1 DEF NotifierType
  <2> QED
    BY <1>3, <2>3, <2>4, <2>5
<1>6. CASE NotifyOver(w) \/ NotifyDeadline(w)
  <2>1. notifyQ' = notifyQ /\ notifier' = [notifier EXCEPT ![w] = [n EXCEPT !.m = 0, !.tries = 0]]
    BY <1>1, <1>6 DEF NotifyOver, NotifyDeadline, queueVars
  <2>2. [n EXCEPT !.m = 0, !.tries = 0] \in NotifierType /\ [n EXCEPT !.m = 0, !.tries = 0].pc = n.pc
    <3>1. 0 \in 0..MaxMessages /\ 0 \in 0..MaxRetries
      OBVIOUS
    <3> QED
      BY <3>1 DEF NotifierType
  <2> QED
    BY <1>3, <1>4, <2>1, <2>2
<1>7. CASE NotifyRetry(w)
  <2>1. /\ notifyQ' = notifyQ /\ n.tries < MaxRetries
        /\ notifier' = [notifier EXCEPT ![w] = [n EXCEPT !.tries = n.tries + 1]]
    BY <1>1, <1>7 DEF NotifyRetry, queueVars
  <2>2. [n EXCEPT !.tries = n.tries + 1] \in NotifierType /\ [n EXCEPT !.tries = n.tries + 1].pc = n.pc
    <3>1. n.tries + 1 \in 0..MaxRetries
      BY <2>1 DEF NotifierType
    <3> QED
      BY <3>1 DEF NotifierType
  <2> QED
    BY <1>3, <1>4, <2>1, <2>2
<1>8. CASE NotifyStop(w)
  <2>1. /\ notifyQ' = notifyQ /\ phase = "closing"
        /\ notifier' = [notifier EXCEPT ![w] = [n EXCEPT !.pc = "drain"]]
    BY <1>1, <1>8 DEF NotifyStop, queueVars
  <2>2. [n EXCEPT !.pc = "drain"] \in NotifierType /\ [n EXCEPT !.pc = "drain"].pc = "drain"
    BY DEF NotifierType
  <2> QED
    BY <1>3, <1>4, <2>1, <2>2
<1>9. CASE NotifyExit(w)
  <2>1. /\ notifyQ' = notifyQ /\ notifyQ = <<>> /\ n.pc = "drain"
        /\ notifier' = [notifier EXCEPT ![w] = [n EXCEPT !.pc = "done"]]
    BY <1>1, <1>9 DEF NotifyExit, Drained, queueVars
  <2>2. [n EXCEPT !.pc = "done"] \in NotifierType /\ [n EXCEPT !.pc = "done"].pc = "done"
    BY DEF NotifierType
  <2> QED
    BY <1>3, <1>4, <2>1, <2>2
<1> QED
  BY <1>5, <1>6, <1>7, <1>8, <1>9 DEF NotifyWorker

\* Close, and the end of the process.
LEMMA CloseStep ==
  ASSUME IInv, CloseStart \/ \E timedOut \in BOOLEAN : CloseReturn(timedOut) PROVE IInv'
<1>1. /\ UNCHANGED <<clock, sent, holding, archiveQ, notifyQ, archiver, notifier, rows, early, load, reader>>
      /\ phase' \in {"closing", "gone"}
  BY DEF CloseStart, CloseReturn, sendVars, queueVars
<1>2. Types'
  BY <1>1 DEF IInv, Types, SendTypes, QueueTypes, WorkTypes, ProcTypes, ReadTypes
<1>3. EarlyInv'
  BY <1>1 DEF IInv, EarlyInv
<1> QED
  BY <1>1, <1>2, <1>3, AsideStep

\* The reader changes nothing but what it has seen.
LEMMA ReaderStep == ASSUME IInv, Reader PROVE IInv'
<1>1. UNCHANGED <<clock, sent, holding, archiveQ, notifyQ, archiver, notifier, rows, phase, early, load>>
  BY DEF Reader, Browse, ListByRoom, CountByRoom, NextPage, sendVars, queueVars, procVars
<1>2. ReadTypes'
  BY DEF Reader, Browse, ListByRoom, CountByRoom, NextPage, NoReader, ReadTypes, IInv, Types
<1>3. Types'
  BY <1>1, <1>2 DEF IInv, Types, SendTypes, QueueTypes, WorkTypes, ProcTypes
<1>4. EarlyInv'
  BY <1>1 DEF IInv, EarlyInv
<1> QED
  BY <1>1, <1>3, <1>4, AsideStep

-----------------------------------------------------------------------------
(* Everything together.                                                    *)

\* Every step of rooms, workers, Close and the reader keeps the invariant.
LEMMA NextStep == IInv /\ [Next]_vars => IInv'
<1> SUFFICES ASSUME IInv, [Next]_vars PROVE IInv'
  OBVIOUS
<1>1. CASE Tick
  BY <1>1, TickStep
<1>2. CASE \E r \in Rooms : Broadcast(r) \/ Archive(r)
  BY <1>2, BroadcastStep, ArchiveStep
<1>3. CASE ArchiveWorker
  BY <1>3, TakeStep, CreateStep, ArchiverStep DEF ArchiveWorker
<1>4. CASE \E w \in Workers : NotifyWorker(w)
  BY <1>4, NotifierStep
<1>5. CASE CloseStart \/ \E timedOut \in BOOLEAN : CloseReturn(timedOut)
  BY <1>5, CloseStep
<1>6. CASE Reader
  BY <1>6, ReaderStep
<1>7. CASE UNCHANGED vars
  <2>1. UNCHANGED <<clock, sent, holding, archiveQ, notifyQ, archiver, notifier, rows, phase, early,
                    reader, load>>
    BY <1>7 DEF vars
  <2>2. Types'
    BY <2>1 DEF IInv, Types, SendTypes, QueueTypes, WorkTypes, ProcTypes, ReadTypes
  <2>3. EarlyInv'
    BY <2>1 DEF IInv, EarlyInv
  <2> QED
    BY <2>1, <2>2, <2>3, AsideStep
<1> QED
  BY <1>1, <1>2, <1>3, <1>4, <1>5, <1>6, <1>7 DEF Next

\* The inductive invariant holds in every reachable state.
THEOREM IInvIsInductive == Spec => []IInv
<1> QED
  BY InitIInv, NextStep, PTL DEF Spec

\* The history of a room lists what one incarnation of it broadcast in the
\* order in which it was broadcast, whatever was dropped or failed to be
\* inserted, and however many messages share an instant.
THEOREM HistoryKeepsOrder == Spec => []HistoryInOrder
<1>1. IInv => HistoryInOrder
  <2> SUFFICES ASSUME IInv, NEW i \in DOMAIN rows, NEW j \in DOMAIN rows,
                      sent[rows[i].m].room = sent[rows[j].m].room, Before(i, j)
               PROVE  rows[i].m > rows[j].m
    BY DEF HistoryInOrder
  <2>1. /\ rows[i].m \in DOMAIN sent /\ rows[i].at = sent[rows[i].m].at
        /\ rows[j].m \in DOMAIN sent /\ rows[j].at = sent[rows[j].m].at
    BY DEF IInv, SentInv
  <2>2. /\ rows[i].m \in Nat /\ rows[j].m \in Nat /\ i \in Nat /\ j \in Nat
        /\ rows[i].at \in Nat /\ rows[j].at \in Nat
    <3>1. rows \in Seq(RowType) /\ DOMAIN rows = 1..Len(rows) /\ Len(rows) \in Nat
      BY LenProperties DEF IInv, Types, ProcTypes
    <3>2. rows[i] \in RowType /\ rows[j] \in RowType
      BY <3>1, ElementOfSeq
    <3> QED
      BY <3>1, <3>2 DEF RowType, Messages
  <2>3. CASE rows[i].at > rows[j].at
    <3>1. ~(rows[i].m <= rows[j].m)
      BY <2>1, <2>2, <2>3 DEF IInv, StampInv
    <3> QED
      BY <2>2, <3>1
  <2>4. CASE i > j
    <3>1. rows[j].m < rows[i].m
      BY <2>2, <2>4 DEF IInv, RowsInv, Behind
    <3> QED
      BY <2>2, <3>1
  <2> QED
    BY <2>3, <2>4 DEF Before
<1> QED
  BY <1>1, IInvIsInductive, PTL

\* When Close has waited for the workers, nothing that was queued before it is
\* left in a queue; the queues stay within their capacity, and no message is in
\* the table twice.
THEOREM NothingQueuedIsLeft == Spec => []QueuesInv
<1>1. IInv => TypeOK
  <2> SUFFICES ASSUME IInv PROVE TypeOK
    OBVIOUS
  <2>1. rows \in Seq(RowType)
    BY DEF IInv, Types, ProcTypes
  <2>2. \A i, j \in DOMAIN rows : i < j => rows[i].m # rows[j].m
    <3>1. \A i \in DOMAIN rows : rows[i] \in RowType
      BY <2>1, LenProperties, ElementOfSeq
    <3> QED
      BY <3>1 DEF IInv, RowsInv, Behind, RowType, Messages
  <2>3. Len(rows) <= MaxMessages
    BY <2>1, <2>2, NoMoreRows
  <2>4. \A i \in DOMAIN rows : rows[i] \in RowType
    BY <2>1, LenProperties, ElementOfSeq
  <2> QED
    BY <2>3, <2>4 DEF IInv, Types, SendTypes, QueueTypes, WorkTypes, ProcTypes, ReadTypes, RowType,
                      ArchiverType, NotifierType, TypeOK
<1>2. IInv => DrainedBeforeExit
  <2> SUFFICES ASSUME IInv, WorkersDone, NEW m \in early
               PROVE  m \notin ToSet(archiveQ) /\ m \notin ToSet(notifyQ)
    BY DEF DrainedBeforeExit
  <2>1. \A k \in DOMAIN archiveQ : archiveQ[k] \notin early
    BY DEF WorkersDone, IInv, EarlyInv
  <2>2. \A k \in DOMAIN notifyQ : notifyQ[k] \notin early
    BY DEF WorkersDone, IInv, EarlyInv
  <2> QED
    BY <2>1, <2>2 DEF ToSet
<1> QED
  BY <1>1, <1>2, IInvIsInductive, PTL DEF QueuesInv

-----------------------------------------------------------------------------
(* Positions in an order.                                                  *)

StrictOrder(S, R) ==
  /\ \A x \in S : <<x, x>> \notin R
  /\ \A x, y \in S : x # y => <<x, y>> \in R \/ <<y, x>> \in R
  /\ \A x, y, z \in S : <<x, y>> \in R /\ <<y, z>> \in R => <<x, z>> \in R

NumberBefore(S, R, x) == Cardinality({y \in S : <<y, x>> \in R})

\* In a finite set with a strict order, the elements are numbered without gaps
\* by how many are before them.
LEMMA Numbered ==
  ASSUME NEW S, IsFiniteSet(S), NEW R, StrictOrder(S, R)
  PROVE  /\ Cardinality(S) \in Nat
         /\ \A x \in S : NumberBefore(S, R, x) \in 0..(Cardinality(S) - 1)
         /\ \A x, y \in S : <<x, y>> \in R => NumberBefore(S, R, x) < NumberBefore(S, R, y)
         /\ \A x, y \in S : NumberBefore(S, R, x) = NumberBefore(S, R, y) => x = y
         /\ \A k \in 0..(Cardinality(S) - 1) : \E x \in S : NumberBefore(S, R, x) = k
<1> DEFINE B(x) == {y \in S : <<y, x>> \in R}
           f == [x \in S |-> NumberBefore(S, R, x)]
           T == 0..(Cardinality(S) - 1)
<1>0. Cardinality(S) \in Nat
  BY FS_CardinalityType
<1>1. ASSUME NEW x \in S PROVE NumberBefore(S, R, x) \in T
  <2>1. IsFiniteSet(B(x)) /\ Cardinality(B(x)) <= Cardinality(S)
        /\ (Cardinality(S) = Cardinality(B(x)) => S = B(x))
    BY FS_Subset
  <2>2. Cardinality(B(x)) \in Nat
    BY <2>1, FS_CardinalityType
  <2>3. S # B(x)
    BY DEF StrictOrder
  <2> HIDE DEF B
  <2>4. Cardinality(B(x)) # Cardinality(S)
    BY <2>1, <2>3
  <2>5. Cardinality(B(x)) \in T
    BY <2>1, <2>2, <2>4, <1>0
  <2> QED
    BY <2>5 DEF NumberBefore, B
<1>2. ASSUME NEW x \in S, NEW y \in S, <<x, y>> \in R
      PROVE  NumberBefore(S, R, x) < NumberBefore(S, R, y)
  <2>1. IsFiniteSet(B(y))
    BY FS_Subset
  <2>2. B(x) \subseteq B(y) /\ x \in B(y) /\ x \notin B(x)
    BY <1>2 DEF StrictOrder
  <2>4. NumberBefore(S, R, x) = Cardinality(B(x)) /\ NumberBefore(S, R, y) = Cardinality(B(y))
    BY DEF NumberBefore
  <2> HIDE DEF B
  <2>3. IsFiniteSet(B(x)) /\ Cardinality(B(x)) <= Cardinality(B(y)) /\ Cardinality(B(x)) # Cardinality(B(y))
    BY <2>1, <2>2, FS_Subset
  <2>5. Cardinality(B(x)) \in Nat /\ Cardinality(B(y)) \in Nat
    BY <2>1, <2>3, FS_CardinalityType
  <2> QED
    BY <2>3, <2>4, <2>5
<1>3. ASSUME NEW x \in S, NEW y \in S, NumberBefore(S, R, x) = NumberBefore(S, R, y)
      PROVE  x = y
  <2>1. NumberBefore(S, R, x) \in Nat
    BY <1>1, <1>0
  <2>2. ~(NumberBefore(S, R, x) < NumberBefore(S, R, y)) /\ ~(NumberBefore(S, R, y) < NumberBefore(S, R, x))
    BY <2>1, <1>3
  <2> QED
    BY <2>2, <1>2 DEF StrictOrder
<1>4. ASSUME NEW k \in T PROVE \E x \in S : NumberBefore(S, R, x) = k
  <2>1. f \in Injection(S, T)
    BY <1>1, <1>3 DEF Injection, IsInjective
  <2>2. IsFiniteSet(T) /\ Cardinality(T) = Cardinality(S)
    <3>1. Cardinality(S) - 1 \in Int /\ 0 \in Int
      BY <1>0
    <3>2. IsFiniteSet(T) /\ Cardinality(T) = IF 0 > Cardinality(S) - 1 THEN 0 ELSE (Cardinality(S) - 1) - 0 + 1
      BY <3>1, FS_Interval
    <3> QED
      BY <3>2, <1>0
  <2>3. f \in Surjection(S, T)
    <3> HIDE DEF f, T
    <3> QED
      BY <2>1, <2>2, FS_Injection
  <2> QED
    BY <2>3 DEF Surjection
<1> QED
  BY <1>0, <1>1, <1>2, <1>3, <1>4


-----------------------------------------------------------------------------
(* Paging through the history.                                             *)

ReaderType ==
  [pc : {"idle", "get", "listed", "answered", "end"}, room : Names \cup {""}, ask : Asks \cup {0},
   page : Nat, data : Seq(Nat), total : Nat, begin : SUBSET Nat, seen : SUBSET Nat]

OnPage == {reader.data[k] : k \in DOMAIN reader.data}

\* Before a page is listed, what the client has not seen is at or behind its
\* first row; afterwards it is on the page or behind its last row.  Rows that
\* come meanwhile only move the others back.
PageInv ==
  /\ reader \in ReaderType
  /\ reader.pc \in {"get", "listed", "answered"} =>
       reader.page >= 1 /\ reader.begin \subseteq Ids(reader.room)
  /\ reader.pc = "get" =>
       \A i \in reader.begin \ reader.seen :
         Rank(reader.room, i) >= Offset(reader.page, reader.ask)
  /\ reader.pc \in {"listed", "answered"} =>
       /\ \A i \in reader.begin \ (reader.seen \cup OnPage) :
            Rank(reader.room, i) >= Offset(reader.page, reader.ask) + PerPage(reader.ask)
       /\ reader.data = <<>> => reader.begin \subseteq reader.seen
       /\ reader.data # <<>> =>
            Offset(reader.page, reader.ask) + Len(reader.data) <= Cardinality(Ids(reader.room))
  /\ reader.pc = "answered" =>
       /\ OnPage \subseteq reader.seen
       /\ reader.data # <<>> =>
            reader.total >= Offset(reader.page, reader.ask) + Len(reader.data)
  /\ reader.pc = "end" => reader.begin \subseteq reader.seen


\* The ids of a room are finitely many numbers.
LEMMA IdsFinite ==
  ASSUME rows \in Seq(RowType), NEW name
  PROVE  /\ IsFiniteSet(Ids(name)) /\ Cardinality(Ids(name)) \in Nat
         /\ \A i \in Ids(name) : i \in Nat /\ i \in DOMAIN rows /\ rows[i].at \in Nat
<1>1. DOMAIN rows = 1..Len(rows) /\ Len(rows) \in Nat
  BY LenProperties
<1>2. IsFiniteSet(1..Len(rows))
  BY <1>1, FS_Interval
<1>3. Ids(name) \subseteq 1..Len(rows)
  BY <1>1 DEF Ids
<1>4. IsFiniteSet(Ids(name)) /\ Cardinality(Ids(name)) \in Nat
  BY <1>2, <1>3, FS_Subset, FS_CardinalityType
<1>5. ASSUME NEW i \in Ids(name) PROVE i \in Nat /\ i \in DOMAIN rows /\ rows[i].at \in Nat
  <2>1. i \in 1..Len(rows) /\ rows[i] \in RowType
    BY <1>3, ElementOfSeq
  <2>2. rows[i].at \in 0..MaxClock
    BY <2>1 DEF RowType
  <2> QED
    BY <2>1, <2>2, <1>1
<1> QED
  BY <1>4, <1>5

\* Rank numbers the rows of a room without gaps.
LEMMA Ranked ==
  ASSUME rows \in Seq(RowType), NEW name
  PROVE  LET n == Cardinality(Ids(name)) IN
         /\ \A i \in Ids(name) : Rank(name, i) \in 0..(n - 1)
         /\ \A i, j \in Ids(name) : Rank(name, i) = Rank(name, j) => i = j
         /\ \A k \in 0..(n - 1) : \E i \in Ids(name) : Rank(name, i) = k
<1> DEFINE S == Ids(name)
           R == {p \in S \X S : Before(p[1], p[2])}
<1>1. IsFiniteSet(S) /\ \A i \in S : i \in Nat /\ rows[i].at \in Nat
  BY IdsFinite
<1>2. \A i, j \in S : <<i, j>> \in R <=> Before(i, j)
  OBVIOUS
<1>3. StrictOrder(S, R)
  <2> HIDE DEF S, R
  <2>1. \A i \in S : <<i, i>> \notin R
    BY <1>1, <1>2 DEF Before
  <2>2. \A i, j \in S : i # j => <<i, j>> \in R \/ <<j, i>> \in R
    BY <1>1, <1>2 DEF Before
  <2>3. ASSUME NEW i \in S, NEW j \in S, NEW k \in S, Before(i, j), Before(j, k)
        PROVE  Before(i, k)
    <3>1. /\ i \in Nat /\ rows[i].at \in Nat /\ j \in Nat /\ rows[j].at \in Nat
          /\ k \in Nat /\ rows[k].at \in Nat
      BY <1>1
    <3> QED
      BY <3>1, <2>3 DEF Before
  <2> QED
    BY <1>2, <2>1, <2>2, <2>3 DEF StrictOrder
<1>4. \A i \in S : Rank(name, i) = NumberBefore(S, R, i)
  <2> TAKE i \in S
  <2>1. {j \in Ids(name) : Before(j, i)} = {j \in S : <<j, i>> \in R}
    BY <1>2
  <2> QED
    BY <2>1 DEF Rank, NumberBefore
<1> HIDE DEF R
<1> QED
  BY <1>1, <1>3, <1>4, Numbered

\* The query returns every row of the room, each at the place of its rank.
LEMMA OrderedByRank ==
  ASSUME rows \in Seq(RowType), NEW name
  PROVE  /\ Ordered(name) \in Seq(Nat) /\ Len(Ordered(name)) = Cardinality(Ids(name))
         /\ \A i \in Ids(name) : Ordered(name)[Rank(name, i) + 1] = i
<1> DEFINE n == Cardinality(Ids(name))
           s == Ordered(name)
           C(k) == CHOOSE i \in Ids(name) : Rank(name, i) = k - 1
<1>0. n \in Nat /\ \A i \in Ids(name) : i \in Nat
  BY IdsFinite
<1>1. s = [k \in 1..n |-> C(k)]
  BY DEF Ordered
<1>2. \A k \in 1..n : C(k) \in Ids(name) /\ Rank(name, C(k)) = k - 1
  <2> TAKE k \in 1..n
  <2>1. k - 1 \in 0..(n - 1)
    BY <1>0
  <2>2. \E i \in Ids(name) : Rank(name, i) = k - 1
    BY <2>1, Ranked
  <2> QED
    BY <2>2
<1> HIDE DEF C, s
<1>3. s \in [1..n -> Nat]
  BY <1>0, <1>1, <1>2
<1>4. s \in Seq(Nat) /\ Len(s) = n
  BY <1>0, <1>3, SeqDef, LenProperties
<1>5. ASSUME NEW i \in Ids(name) PROVE s[Rank(name, i) + 1] = i
  <2>1. Rank(name, i) \in 0..(n - 1)
    BY Ranked
  <2>2. Rank(name, i) + 1 \in 1..n /\ (Rank(name, i) + 1) - 1 = Rank(name, i)
    BY <2>1, <1>0
  <2>3. C(Rank(name, i) + 1) \in Ids(name) /\ Rank(name, C(Rank(name, i) + 1)) = Rank(name, i)
    BY <2>2, <1>2
  <2>4. C(Rank(name, i) + 1) = i
    BY <2>3, Ranked
  <2> QED
    BY <2>2, <2>4, <1>1
<1> QED
  BY <1>4, <1>5 DEF s

\* A page is the part of the result between its offset and its limit.
LEMMA PageOfResult ==
  ASSUME NEW s \in Seq(Nat), NEW limit \in Nat \ {0}, NEW offset \in Nat
  PROVE  LET d == LimitOffset(s, limit, offset) IN
         /\ d \in Seq(Nat) /\ DOMAIN d = 1..Len(d) /\ Len(d) \in Nat /\ Len(s) \in Nat
         /\ offset < Len(s) => d # <<>> /\ offset + Len(d) <= Len(s)
         /\ ~(offset < Len(s)) => d = <<>>
         /\ \A k \in 0..(Len(s) - 1) : offset <= k /\ k < offset + limit =>
              \E l \in DOMAIN d : d[l] = s[k + 1]
<1> DEFINE d == LimitOffset(s, limit, offset)
           end == IF offset + limit < Len(s) THEN offset + limit ELSE Len(s)
<1>0. Len(s) \in Nat
  BY LenProperties
<1>1. d = SubSeq(s, offset + 1, end)
  BY DEF LimitOffset
<1>2. end \in Nat /\ end <= Len(s) /\ end <= offset + limit /\ (offset < Len(s) => offset + 1 <= end)
      /\ (~(offset < Len(s)) => end < offset + 1)
  BY <1>0
<1>e. \A k \in Nat : k < Len(s) /\ k < offset + limit => k + 1 <= end
  BY <1>0
<1> HIDE DEF end, d
<1>3. \A i \in (offset + 1)..end : s[i] \in Nat
  <2> TAKE i \in (offset + 1)..end
  <2>1. i \in 1..Len(s)
    BY <1>0, <1>2
  <2> QED
    BY <2>1, ElementOfSeq
<1>4. /\ d \in Seq(Nat) /\ Len(d) = IF offset + 1 <= end THEN end - (offset + 1) + 1 ELSE 0
      /\ \A i \in 1..(end - (offset + 1) + 1) : d[i] = s[(offset + 1) + i - 1]
  <2>1. offset + 1 \in Int /\ end \in Int
    BY <1>2
  <2> QED
    BY <1>1, <1>3, <2>1, SubSeqProperties
<1>5. DOMAIN d = 1..Len(d) /\ Len(d) \in Nat
  BY <1>4, LenProperties
<1>6. ASSUME offset < Len(s) PROVE d # <<>> /\ offset + Len(d) <= Len(s)
  <2>1. Len(d) = end - (offset + 1) + 1
    BY <1>2, <1>4, <1>6
  <2>2. Len(d) # 0 /\ offset + Len(d) <= Len(s)
    BY <2>1, <1>0, <1>2, <1>6
  <2> QED
    BY <2>2, <1>4, EmptySeq
<1>7. ASSUME ~(offset < Len(s)) PROVE d = <<>>
  <2>1. Len(d) = 0
    BY <1>0, <1>2, <1>4, <1>7
  <2> QED
    BY <2>1, <1>4, EmptySeq
<1>8. ASSUME NEW k \in 0..(Len(s) - 1), offset <= k, k < offset + limit
      PROVE  \E l \in DOMAIN d : d[l] = s[k + 1]
  <2>0. k \in Nat /\ k < Len(s)
    BY <1>0
  <2>1. k + 1 <= end /\ offset + 1 <= end
    BY <1>e, <1>2, <1>8, <2>0
  <2> DEFINE l == k + 1 - offset
  <2>2. l \in 1..(end - (offset + 1) + 1) /\ (offset + 1) + l - 1 = k + 1
    BY <1>2, <1>8, <2>0, <2>1
  <2>3. Len(d) = end - (offset + 1) + 1
    BY <1>4, <2>1
  <2> HIDE DEF l
  <2>4. l \in DOMAIN d /\ d[l] = s[k + 1]
    BY <1>4, <1>5, <2>2, <2>3
  <2> QED
    BY <2>4
<1> QED
  BY <1>0, <1>4, <1>5, <1>6, <1>7, <1>8 DEF d

\* The offset of the next page is where this one ends.
LEMMA Offsets ==
  ASSUME NEW ask \in Asks \cup {0}, NEW page \in Nat, page >= 1
  PROVE  /\ PerPage(ask) \in Nat \ {0} /\ Offset(page, ask) \in Nat
         /\ Offset(1, ask) = 0 /\ Offset(page + 1, ask) = Offset(page, ask) + PerPage(ask)
<1>1. ask \in Nat /\ MaxPerPage \in Nat \ {0} /\ DefaultPerPage \in Nat \ {0}
  OBVIOUS
<1>2. PerPage(ask) \in Nat \ {0}
  BY <1>1 DEF PerPage
<1>3. \A p \in Nat, z \in Nat : p >= 1 => /\ (p - 1) * z \in Nat /\ (1 - 1) * z = 0
                                          /\ (p + 1 - 1) * z = (p - 1) * z + z
  OBVIOUS
<1> QED
  BY <1>2, <1>3 DEF Offset


\* Rows that are added leave every row in its room and at its rank, or move it
\* back.
LEMMA RowsOnlyMoveBack ==
  ASSUME rows \in Seq(RowType), rows' \in Seq(RowType), NEW name,
         \A i \in DOMAIN rows : i \in DOMAIN rows' /\ rows'[i] = rows[i]
  PROVE  /\ Ids(name) \subseteq Ids(name)' /\ Cardinality(Ids(name)) <= Cardinality(Ids(name)')
         /\ Cardinality(Ids(name)) \in Nat /\ Cardinality(Ids(name)') \in Nat
         /\ \A i \in Ids(name) : /\ Rank(name, i) <= Rank(name, i)'
                                 /\ Rank(name, i) \in Nat /\ Rank(name, i)' \in Nat
<1>1. Ids(name) \subseteq Ids(name)'
  BY DEF Ids
<1>2. IsFiniteSet(Ids(name)) /\ Cardinality(Ids(name)) \in Nat
  BY IdsFinite
<1>3. DOMAIN rows' = 1..Len(rows') /\ Len(rows') \in Nat
  BY LenProperties
<1>4. IsFiniteSet(Ids(name)') /\ Cardinality(Ids(name)') \in Nat
  <2>1. IsFiniteSet(1..Len(rows'))
    BY <1>3, FS_Interval
  <2>2. Ids(name)' \subseteq 1..Len(rows')
    BY <1>3 DEF Ids
  <2> QED
    BY <2>1, <2>2, FS_Subset, FS_CardinalityType
<1>5. Cardinality(Ids(name)) <= Cardinality(Ids(name)')
  BY <1>1, <1>4, FS_Subset
<1>6. ASSUME NEW i \in Ids(name)
      PROVE  /\ Rank(name, i) <= Rank(name, i)'
             /\ Rank(name, i) \in Nat /\ Rank(name, i)' \in Nat
  <2> DEFINE A == {j \in Ids(name) : Before(j, i)}
             B == {j \in Ids(name)' : Before(j, i)'}
  <2>1. A \subseteq B
    BY <1>1, <1>6 DEF Before, Ids
  <2>2. Rank(name, i) = Cardinality(A) /\ Rank(name, i)' = Cardinality(B)
    BY DEF Rank
  <2>3. IsFiniteSet(B) /\ IsFiniteSet(A)
    BY <1>2, <1>4, FS_Subset
  <2> HIDE DEF A, B
  <2> QED
    BY <2>1, <2>2, <2>3, FS_Subset, FS_CardinalityType
<1> QED
  BY <1>1, <1>2, <1>4, <1>5, <1>6

\* An INSERT while the client pages.
LEMMA PageCreate ==
  ASSUME IInv, IInv', PageInv, rows' \in Seq(RowType), reader' = reader,
         \A i \in DOMAIN rows : i \in DOMAIN rows' /\ rows'[i] = rows[i]
  PROVE  PageInv'
<1>0. rows \in Seq(RowType)
  BY DEF IInv, Types, ProcTypes
<1>1. PICK r \in ReaderType : reader = r
  BY DEF PageInv
<1> DEFINE off == Offset(r.page, r.ask)
           lim == PerPage(r.ask)
<1>2. /\ Ids(r.room) \subseteq Ids(r.room)' /\ Cardinality(Ids(r.room)) <= Cardinality(Ids(r.room)')
      /\ Cardinality(Ids(r.room)) \in Nat /\ Cardinality(Ids(r.room)') \in Nat
      /\ \A i \in Ids(r.room) : /\ Rank(r.room, i) <= Rank(r.room, i)'
                                /\ Rank(r.room, i) \in Nat /\ Rank(r.room, i)' \in Nat
  BY <1>0, RowsOnlyMoveBack
<1>3. r.page \in Nat /\ r.ask \in Asks \cup {0} /\ r.data \in Seq(Nat) /\ Len(r.data) \in Nat
  BY LenProperties DEF ReaderType
<1>4. r.page >= 1 => off \in Nat /\ lim \in Nat
  BY <1>3, Offsets
<1> HIDE DEF off, lim
<1>5. /\ r.pc \in {"get", "listed", "answered"} => r.page >= 1 /\ r.begin \subseteq Ids(r.room)
      /\ r.pc = "get" => \A i \in r.begin \ r.seen : Rank(r.room, i) >= off
      /\ r.pc \in {"listed", "answered"} =>
           /\ \A i \in r.begin \ (r.seen \cup {r.data[k] : k \in DOMAIN r.data}) :
                Rank(r.room, i) >= off + lim
           /\ r.data = <<>> => r.begin \subseteq r.seen
           /\ r.data # <<>> => off + Len(r.data) <= Cardinality(Ids(r.room))
      /\ r.pc = "answered" =>
           /\ {r.data[k] : k \in DOMAIN r.data} \subseteq r.seen
           /\ r.data # <<>> => r.total >= off + Len(r.data)
      /\ r.pc = "end" => r.begin \subseteq r.seen
  BY <1>1 DEF PageInv, OnPage, off, lim
<1>6. /\ r.pc \in {"get", "listed", "answered"} => r.page >= 1 /\ r.begin \subseteq Ids(r.room)'
      /\ r.pc = "get" => \A i \in r.begin \ r.seen : Rank(r.room, i)' >= off
      /\ r.pc \in {"listed", "answered"} =>
           /\ \A i \in r.begin \ (r.seen \cup {r.data[k] : k \in DOMAIN r.data}) :
                Rank(r.room, i)' >= off + lim
           /\ r.data # <<>> => off + Len(r.data) <= Cardinality(Ids(r.room)')
  <2>1. CASE ~(r.pc \in {"get", "listed", "answered"})
    BY <2>1
  <2>2. CASE r.pc \in {"get", "listed", "answered"}
    <3>1. off \in Nat /\ lim \in Nat /\ off + lim \in Nat /\ off + Len(r.data) \in Nat
          /\ r.page >= 1 /\ r.begin \subseteq Ids(r.room)
      BY <2>2, <1>3, <1>4, <1>5
    <3>2. \A x, y, z \in Nat : x <= y /\ x >= z => y >= z
      OBVIOUS
    <3>3. \A i \in Ids(r.room) : /\ Rank(r.room, i) >= off => Rank(r.room, i)' >= off
                                 /\ Rank(r.room, i) >= off + lim => Rank(r.room, i)' >= off + lim
      BY <3>1, <3>2, <1>2
    <3>4. r.begin \subseteq Ids(r.room)'
      BY <3>1, <1>2
    <3>5. r.pc = "get" => \A i \in r.begin \ r.seen : Rank(r.room, i)' >= off
      BY <3>1, <3>3, <1>5
    <3>6. r.pc \in {"listed", "answered"} =>
            \A i \in r.begin \ (r.seen \cup {r.data[k] : k \in DOMAIN r.data}) :
                Rank(r.room, i)' >= off + lim
      BY <3>1, <3>3, <1>5
    <3>7. off + Len(r.data) <= Cardinality(Ids(r.room)) => off + Len(r.data) <= Cardinality(Ids(r.room)')
      BY <3>1, <1>2
    <3> QED
      BY <3>1, <3>4, <3>5, <3>6, <3>7, <1>5
  <2> QED
    BY <2>1, <2>2
<1>7. reader' = r
  BY <1>1
<1>8. Ids(reader.room)' = Ids(r.room)' /\ \A i : Rank(reader.room, i)' = Rank(r.room, i)'
  BY <1>1, <1>7 DEF Ids, Rank
<1> QED
  BY <1>1, <1>5, <1>6, <1>7, <1>8 DEF PageInv, OnPage, off, lim


\* The client begins.
LEMMA PageBrowse ==
  ASSUME IInv, PageInv, NEW name \in Names, NEW ask \in Asks, Browse(name, ask)
  PROVE  PageInv'
<1>0. rows \in Seq(RowType) /\ rows' = rows
  BY DEF IInv, Types, ProcTypes, Browse
<1>1. PICK r : r = [NoReader EXCEPT !.pc = "get", !.room = name, !.ask = ask, !.page = 1,
                                    !.begin = Ids(name)]
  OBVIOUS
<1>2. /\ r \in ReaderType /\ r.pc = "get" /\ r.page = 1 /\ r.ask = ask /\ r.room = name
      /\ r.begin = Ids(name) /\ r.seen = {}
  <2>1. Ids(name) \in SUBSET Nat
    BY <1>0, IdsFinite
  <2>2. <<>> \in Seq(Nat)
    OBVIOUS
  <2> QED
    BY <1>1, <2>1, <2>2 DEF NoReader, ReaderType
<1>3. reader' = r
  BY <1>1 DEF Browse
<1>4. \A i \in Ids(name) : Rank(name, i) >= Offset(1, ask)
  <2>1. Offset(1, ask) = 0
    BY Offsets
  <2>2. \A i \in Ids(name) : Rank(name, i) \in 0..(Cardinality(Ids(name)) - 1)
    BY <1>0, Ranked
  <2>3. Cardinality(Ids(name)) \in Nat
    BY <1>0, IdsFinite
  <2> QED
    BY <2>1, <2>2, <2>3
<1>5. Ids(reader.room)' = Ids(name) /\ \A i : Rank(reader.room, i)' = Rank(name, i)
  BY <1>0, <1>2, <1>3 DEF Ids, Rank, Before
<1> QED
  BY <1>2, <1>3, <1>4, <1>5 DEF PageInv

\* A page is listed: what is unseen and not behind the page is on it.
LEMMA PageList ==
  ASSUME IInv, PageInv, ListByRoom
  PROVE  PageInv'
<1>0. rows \in Seq(RowType) /\ rows' = rows
  BY DEF IInv, Types, ProcTypes, ListByRoom
<1>1. PICK r \in ReaderType : reader = r
  BY DEF PageInv
<1> DEFINE off == Offset(r.page, r.ask)
           lim == PerPage(r.ask)
           s == Ordered(r.room)
           d == LimitOffset(s, lim, off)
           n == Cardinality(Ids(r.room))
<1>2. r.pc = "get" /\ reader' = [r EXCEPT !.pc = "listed", !.data = d]
  BY <1>1 DEF ListByRoom
<1>3. /\ r.page >= 1 /\ r.begin \subseteq Ids(r.room)
      /\ \A i \in r.begin \ r.seen : Rank(r.room, i) >= off
  BY <1>1, <1>2 DEF PageInv
<1>4. r.page \in Nat /\ r.ask \in Asks \cup {0}
  BY DEF ReaderType
<1>5. off \in Nat /\ lim \in Nat \ {0}
  BY <1>3, <1>4, Offsets
<1>6. s \in Seq(Nat) /\ Len(s) = n /\ \A i \in Ids(r.room) : s[Rank(r.room, i) + 1] = i
  BY <1>0, OrderedByRank
<1>7. n \in Nat /\ \A i \in Ids(r.room) : Rank(r.room, i) \in 0..(n - 1)
  BY <1>0, IdsFinite, Ranked
<1> HIDE DEF off, lim, s, n
<1>8. /\ d \in Seq(Nat) /\ Len(d) \in Nat
      /\ off < n => d # <<>> /\ off + Len(d) <= n
      /\ ~(off < n) => d = <<>>
      /\ \A k \in 0..(n - 1) : off <= k /\ k < off + lim => \E l \in DOMAIN d : d[l] = s[k + 1]
  <2>1. d = LimitOffset(s, lim, off)
    OBVIOUS
  <2> HIDE DEF d
  <2>2. /\ d \in Seq(Nat) /\ DOMAIN d = 1..Len(d) /\ Len(d) \in Nat /\ Len(s) \in Nat
        /\ off < Len(s) => d # <<>> /\ off + Len(d) <= Len(s)
        /\ ~(off < Len(s)) => d = <<>>
        /\ \A k \in 0..(Len(s) - 1) : off <= k /\ k < off + lim => \E l \in DOMAIN d : d[l] = s[k + 1]
    <3>1. PICK a \in Seq(Nat), o \in Nat, l \in Nat \ {0} : a = s /\ o = off /\ l = lim
      BY <1>5, <1>6
    <3> DEFINE e == LimitOffset(a, l, o)
    <3>3. e = d
      BY <2>1, <3>1
    <3>4. /\ e \in Seq(Nat) /\ DOMAIN e = 1..Len(e) /\ Len(e) \in Nat /\ Len(a) \in Nat
          /\ o < Len(a) => e # <<>> /\ o + Len(e) <= Len(a)
          /\ ~(o < Len(a)) => e = <<>>
          /\ \A k \in 0..(Len(a) - 1) : o <= k /\ k < o + l => \E z \in DOMAIN e : e[z] = a[k + 1]
      BY PageOfResult
    <3> HIDE DEF e
    <3> QED
      BY <3>1, <3>3, <3>4
  <2> QED
    BY <2>2, <1>6
<1> HIDE DEF d
<1>9. /\ reader' \in ReaderType /\ reader'.pc = "listed" /\ reader'.data = d /\ reader'.page = r.page
      /\ reader'.ask = r.ask /\ reader'.room = r.room /\ reader'.begin = r.begin /\ reader'.seen = r.seen
  BY <1>2, <1>8 DEF ReaderType
<1>10. ASSUME NEW i \in r.begin \ (r.seen \cup {d[k] : k \in DOMAIN d})
       PROVE  Rank(r.room, i) >= off + lim
  <2>1. i \in Ids(r.room) /\ Rank(r.room, i) >= off /\ Rank(r.room, i) \in 0..(n - 1)
    BY <1>3, <1>7, <1>10
  <2>2. Rank(r.room, i) \in Nat
    BY <2>1, <1>7
  <2>3. SUFFICES ASSUME Rank(r.room, i) < off + lim PROVE FALSE
    BY <2>2, <1>5
  <2>4. off <= Rank(r.room, i)
    BY <2>1, <2>2, <1>5
  <2>5. PICK l \in DOMAIN d : d[l] = s[Rank(r.room, i) + 1]
    BY <2>1, <2>3, <2>4, <1>8
  <2> QED
    BY <2>1, <2>5, <1>6, <1>10
<1>11. ASSUME d = <<>> PROVE r.begin \subseteq r.seen
  <2>1. ~(off < n)
    BY <1>8, <1>11
  <2>2. \A i \in r.begin : i \in Ids(r.room) /\ ~(Rank(r.room, i) >= off)
    BY <2>1, <1>3, <1>5, <1>7
  <2> QED
    BY <2>2, <1>3
<1>12. d # <<>> => off + Len(d) <= n
  BY <1>8
<1>13. Ids(reader.room)' = Ids(r.room) /\ \A i : Rank(reader.room, i)' = Rank(r.room, i)
  BY <1>0, <1>9 DEF Ids, Rank, Before
<1>14. OnPage' = {d[k] : k \in DOMAIN d}
  BY <1>9 DEF OnPage
<1>15. Offset(reader.page, reader.ask)' = off /\ PerPage(reader.ask)' = lim
  BY <1>9 DEF off, lim, Offset, PerPage
<1>16. Cardinality(Ids(reader.room))' = n
  BY <1>13 DEF n
<1> QED
  BY <1>3, <1>9, <1>10, <1>11, <1>12, <1>13, <1>14, <1>15, <1>16 DEF PageInv

\* The rows are counted; the table has grown at most.
LEMMA PageCount ==
  ASSUME IInv, PageInv, CountByRoom
  PROVE  PageInv'
<1>0. rows \in Seq(RowType) /\ rows' = rows
  BY DEF IInv, Types, ProcTypes, CountByRoom
<1>1. PICK r \in ReaderType : reader = r
  BY DEF PageInv
<1> DEFINE off == Offset(r.page, r.ask)
           lim == PerPage(r.ask)
           n == Cardinality(Ids(r.room))
           D == {r.data[k] : k \in DOMAIN r.data}
<1>2. r.pc = "listed" /\ reader' = [r EXCEPT !.pc = "answered", !.total = n, !.seen = r.seen \cup D]
  BY <1>1 DEF CountByRoom
<1>3. /\ r.page >= 1 /\ r.begin \subseteq Ids(r.room)
      /\ \A i \in r.begin \ (r.seen \cup D) : Rank(r.room, i) >= off + lim
      /\ r.data = <<>> => r.begin \subseteq r.seen
      /\ r.data # <<>> => off + Len(r.data) <= n
  BY <1>1, <1>2 DEF PageInv, OnPage
<1>4. n \in Nat
  BY <1>0, IdsFinite
<1>5. off \in Nat /\ Len(r.data) \in Nat /\ D \in SUBSET Nat
  <2>1. r.page \in Nat /\ r.ask \in Asks \cup {0} /\ r.data \in Seq(Nat)
    BY DEF ReaderType
  <2>2. Len(r.data) \in Nat /\ DOMAIN r.data = 1..Len(r.data)
    BY <2>1, LenProperties
  <2>3. \A k \in DOMAIN r.data : r.data[k] \in Nat
    BY <2>1, <2>2, ElementOfSeq
  <2>4. off \in Nat
    BY <2>1, <1>3, Offsets
  <2>5. D \in SUBSET Nat
    BY <2>3
  <2> QED
    BY <2>2, <2>4, <2>5
<1> HIDE DEF off, lim, n, D
<1>6. /\ reader' \in ReaderType /\ reader'.pc = "answered" /\ reader'.data = r.data /\ reader'.total = n
      /\ reader'.page = r.page /\ reader'.ask = r.ask /\ reader'.room = r.room
      /\ reader'.begin = r.begin /\ reader'.seen = r.seen \cup D
  BY <1>2, <1>4, <1>5 DEF ReaderType
<1>7. Ids(reader.room)' = Ids(r.room) /\ \A i : Rank(reader.room, i)' = Rank(r.room, i)
  BY <1>0, <1>6 DEF Ids, Rank, Before
<1>8. OnPage' = D
  BY <1>6 DEF OnPage, D
<1>9. Offset(reader.page, reader.ask)' = off /\ PerPage(reader.ask)' = lim
  BY <1>6 DEF off, lim, Offset, PerPage
<1>10. Cardinality(Ids(reader.room))' = n
  BY <1>7 DEF n
<1>11. r.data # <<>> => n >= off + Len(r.data)
  BY <1>3, <1>4, <1>5
<1> QED
  BY <1>3, <1>6, <1>7, <1>8, <1>9, <1>10, <1>11 DEF PageInv

\* The client goes on to the next page, or ends at an empty one.
LEMMA PageNext ==
  ASSUME IInv, PageInv, NextPage
  PROVE  PageInv'
<1>0. rows' = rows
  BY DEF NextPage
<1>1. PICK r \in ReaderType : reader = r
  BY DEF PageInv
<1>2. /\ r.pc = "answered" /\ r.page >= 1 /\ r.begin \subseteq Ids(r.room)
      /\ \A i \in r.begin \ (r.seen \cup {r.data[k] : k \in DOMAIN r.data}) :
           Rank(r.room, i) >= Offset(r.page, r.ask) + PerPage(r.ask)
      /\ r.data = <<>> => r.begin \subseteq r.seen
      /\ {r.data[k] : k \in DOMAIN r.data} \subseteq r.seen
  BY <1>1 DEF PageInv, OnPage, NextPage
<1>3. CASE r.data = <<>>
  <2>1. reader' = [r EXCEPT !.pc = "end"]
    BY <1>1, <1>3 DEF NextPage
  <2>2. /\ reader' \in ReaderType /\ reader'.pc = "end" /\ reader'.begin = r.begin
        /\ reader'.seen = r.seen
    BY <2>1 DEF ReaderType
  <2> QED
    BY <2>2, <1>2, <1>3 DEF PageInv
<1>4. CASE r.data # <<>>
  <2>1. reader' = [r EXCEPT !.pc = "get", !.page = r.page + 1, !.data = <<>>, !.total = 0]
    BY <1>1, <1>4 DEF NextPage
  <2>2. r.page \in Nat /\ r.ask \in Asks \cup {0}
    BY DEF ReaderType
  <2>3. <<>> \in Seq(Nat) /\ r.page + 1 \in Nat /\ r.page + 1 >= 1
    BY <2>2
  <2>4. /\ reader' \in ReaderType /\ reader'.pc = "get" /\ reader'.page = r.page + 1
        /\ reader'.ask = r.ask /\ reader'.room = r.room /\ reader'.begin = r.begin
        /\ reader'.seen = r.seen
    BY <2>1, <2>3 DEF ReaderType
  <2>5. Offset(reader.page, reader.ask)' = Offset(r.page, r.ask) + PerPage(r.ask)
    <3>1. Offset(reader.page, reader.ask)' = Offset(r.page + 1, r.ask)
      BY <2>4 DEF Offset, PerPage
    <3> QED
      BY <3>1, <2>2, <1>2, Offsets
  <2>6. Ids(reader.room)' = Ids(r.room) /\ \A i : Rank(reader.room, i)' = Rank(r.room, i)
    BY <1>0, <2>4 DEF Ids, Rank, Before
  <2>7. \A i \in r.begin \ r.seen : Rank(r.room, i) >= Offset(r.page, r.ask) + PerPage(r.ask)
    BY <1>2
  <2> QED
    BY <2>3, <2>4, <2>5, <2>6, <2>7, <1>2 DEF PageInv
<1> QED
  BY <1>3, <1>4


\* Every step keeps the invariant of the client that pages.
LEMMA PageStep == IInv /\ IInv' /\ PageInv /\ [Next]_vars => PageInv'
<1> SUFFICES ASSUME IInv, IInv', PageInv, [Next]_vars PROVE PageInv'
  OBVIOUS
<1>1. CASE Reader
  BY <1>1, PageBrowse, PageList, PageCount, PageNext DEF Reader
<1>2. CASE ArchiveCreate
  <2>1. reader' = reader /\ rows' \in {rows, Append(rows, Row(archiver.m))}
    BY <1>2 DEF ArchiveCreate, Inserted
  <2>2. rows \in Seq(RowType) /\ rows' \in Seq(RowType)
    BY DEF IInv, Types, ProcTypes
  <2>3. \A i \in DOMAIN rows : i \in DOMAIN rows' /\ rows'[i] = rows[i]
    <3>1. CASE rows' = rows
      BY <3>1
    <3>2. CASE rows' = Append(rows, Row(archiver.m))
      BY <3>2, <2>2
    <3> QED
      BY <2>1, <3>1, <3>2
  <2> QED
    BY <2>1, <2>2, <2>3, PageCreate
<1>3. CASE UNCHANGED <<rows, reader>>
  BY <1>3 DEF PageInv, OnPage, Ids, Rank, Before, Offset, PerPage
<1>4. CASE Tick \/ \E r \in Rooms : Broadcast(r) \/ Archive(r)
  BY <1>3, <1>4 DEF Tick, Broadcast, Archive
<1>5. CASE ArchiveTake \/ ArchiveStop \/ ArchiveExit
  BY <1>3, <1>5 DEF ArchiveTake, ArchiveStop, ArchiveExit
<1>6. CASE \E w \in Workers : NotifyWorker(w)
  BY <1>3, <1>6 DEF NotifyWorker, NotifyTake, NotifyOver, NotifyRetry, NotifyDeadline, NotifyStop, NotifyExit
<1>7. CASE CloseStart \/ \E timedOut \in BOOLEAN : CloseReturn(timedOut)
  BY <1>3, <1>7 DEF CloseStart, CloseReturn
<1>8. CASE UNCHANGED vars
  BY <1>3, <1>8 DEF vars
<1> QED
  BY <1>1, <1>2, <1>4, <1>5, <1>6, <1>7, <1>8 DEF Next, ArchiveWorker

\* Whoever pages through a room until a page is empty has seen every row that
\* was there when he began, and no answer's total is below what was shown:
\* for every page size, table and interleaving of INSERTs with the two queries.
THEOREM PagesAreSound == Spec => []PagingSound
<1>1. Init => PageInv
  <2>1. ASSUME Init PROVE reader \in ReaderType /\ reader.pc = "idle"
    <3>1. <<>> \in Seq(Nat)
      OBVIOUS
    <3> QED
      BY <2>1, <3>1 DEF Init, NoReader, ReaderType
  <2> QED
    BY <2>1 DEF PageInv
<1>2. PageInv => PagingSound
  BY DEF PageInv, PagingSound, PagesMissNothing, TotalCoversPage
<1> QED
  BY <1>1, <1>2, PageStep, IInvIsInductive, PTL DEF Spec

=============================================================================
