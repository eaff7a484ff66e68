--------------------------- MODULE MessageArchive ---------------------------
(***************************************************************************)
(* How a chat message becomes history and an event: the archive and notify *)
(* halves of chat-service's dispatcher, the table of messages, and a       *)
(* client that pages through GET /rooms/:room/messages meanwhile.          *)
(*                                                                         *)
(* A message is its position in sent, the order in which the rooms stamped *)
(* them.  A member of Rooms is the goroutine of a room: two of them may    *)
(* have the same name, since a room can be reaped while a connection still *)
(* holds it.  A row's id is its position in rows (AUTO_INCREMENT).         *)
(***************************************************************************)
EXTENDS Naturals, Sequences, FiniteSets, SequencesExt

CONSTANTS
  Rooms,           \* goroutines of rooms
  Name,            \* Name[r] is the room's name
  Workers,         \* notify workers (notifyWorkers)
  ArchiveCap,      \* archiveQueueSize
  NotifyCap,       \* notifyQueueSize
  MaxRetries,      \* notificationMaxRetries
  DefaultPerPage,
  MaxPerPage,
  Asks,            \* values of per_page a client sends, 0 for none
  Loads,           \* configurations: is there a notificationClient, is there a
                   \* reader, does the process stop, and the bounds on messages
                   \* and on ticks of the clock
  MaxMessages,     \* bound: messages sent
  MaxClock         \* bound: instants that created_at tells apart

ASSUME ArchiveAssumption ==
  /\ Name \in [Rooms -> STRING] /\ Workers # {}
  /\ ArchiveCap \in Nat \ {0} /\ NotifyCap \in Nat \ {0}
  /\ MaxRetries \in Nat /\ MaxMessages \in Nat /\ MaxClock \in Nat
  /\ MaxPerPage \in Nat /\ DefaultPerPage \in 1..MaxPerPage
  /\ Asks \subseteq Nat
  /\ Loads \subseteq [notifying : BOOLEAN, browsing : BOOLEAN, stopping : BOOLEAN,
                     messages : 0..MaxMessages, ticks : 0..MaxClock]

VARIABLES
  clock,      \* wall clock, in the resolution of created_at
  sent,       \* every chat message broadcast: its goroutine and its stamp
  holding,    \* holding[r]: stamped and broadcast, Archive not yet called
  archiveQ, notifyQ,
  archiver,   \* the archive worker and the message it handles
  notifier,   \* notify workers: message and attempts made for it
  rows,       \* the table of messages, in the order of their ids
  phase,      \* of the process: up, closing (Close waits), gone
  early,      \* messages queued before Close
  reader,     \* the client that pages through a room's history
  load        \* the configuration, which never changes

sendVars   == <<clock, sent, holding>>
queueVars  == <<archiveQ, notifyQ>>
procVars   == <<phase, early, load>>
vars == <<clock, sent, holding, archiveQ, notifyQ, archiver, notifier, rows,
          phase, early, reader, load>>

Messages == 1..MaxMessages
Names == {Name[r] : r \in Rooms}

(* 0 stands for no message. *)
IdleArchiver == [pc |-> "select", m |-> 0]
IdleNotifier == [pc |-> "select", m |-> 0, tries |-> 0]
NoReader     == [pc |-> "idle", room |-> "", ask |-> 0, page |-> 0, data |-> <<>>,
                 total |-> 0, begin |-> {}, seen |-> {}]

Init ==
  /\ clock = 0 /\ sent = <<>> /\ holding = [r \in Rooms |-> 0]
  /\ archiveQ = <<>> /\ notifyQ = <<>>
  /\ archiver = IdleArchiver
  /\ notifier = [w \in Workers |-> IdleNotifier]
  /\ rows = <<>>
  /\ phase = "up" /\ early = {}
  /\ reader = NoReader
  /\ load \in Loads

-----------------------------------------------------------------------------
(* The rooms. *)

Tick ==
  /\ clock < load.ticks
  /\ clock' = clock + 1
  /\ UNCHANGED <<sent, holding, queueVars, archiver, notifier, rows, procVars, reader>>

(* broadcastEvent of a chat message: the stamp that every client sees. *)
Broadcast(r) ==
  /\ phase # "gone"
  /\ holding[r] = 0 /\ Len(sent) < load.messages
  /\ sent' = Append(sent, [room |-> r, at |-> clock])
  /\ holding' = [holding EXCEPT ![r] = Len(sent')]
  /\ UNCHANGED <<clock, queueVars, archiver, notifier, rows, procVars, reader>>

(* A send without the default branch, that grows the queue. *)
Offer_Unbounded(q, m, cap) == Append(q, m)

(* A send on a channel with a default branch. *)
Offer(q, m, cap) == IF Len(q) < cap THEN Append(q, m) ELSE q

(* Both queues are tried; neither waits for the other or for a worker. *)
Archive(r) ==
  LET m == holding[r]
  IN /\ phase # "gone" /\ m # 0
     /\ archiveQ' = Offer(archiveQ, m, ArchiveCap)
     /\ notifyQ' = IF load.notifying THEN Offer(notifyQ, m, NotifyCap) ELSE notifyQ
     /\ holding' = [holding EXCEPT ![r] = 0]
     /\ early' = IF phase = "up" THEN early \union {m} ELSE early
     /\ UNCHANGED <<clock, sent, archiver, notifier, rows, phase, load, reader>>

-----------------------------------------------------------------------------
(* The archive worker.  Once stop is closed its select may take either     *)
(* case; drainArchive ends at the first moment the queue is empty.         *)

ArchiverFree == phase # "gone" /\ archiver.pc # "done" /\ archiver.m = 0

ArchiveTake ==
  /\ ArchiverFree /\ archiveQ # <<>>
  /\ archiver' = [archiver EXCEPT !.m = Head(archiveQ)]
  /\ archiveQ' = Tail(archiveQ)
  /\ UNCHANGED <<sendVars, notifyQ, notifier, rows, procVars, reader>>

(* The row carries the stamp of the broadcast. *)
Row(m) == [m |-> m, name |-> Name[sent[m].room], at |-> sent[m].at]

(* An INSERT that fails for the client may have been committed, but it is  *)
(* never tried again, so only whether the row exists matters.              *)
Inserted(m) == {rows, Append(rows, Row(m))}

(* A worker that ends with the INSERT that failed. *)
ArchiveCreate_GivesUp ==
  /\ phase # "gone" /\ archiver.m # 0
  /\ rows' \in Inserted(archiver.m)
  /\ archiver' = [pc |-> IF rows' = rows THEN "done" ELSE archiver.pc, m |-> 0]
  /\ UNCHANGED <<sendVars, queueVars, notifier, procVars, reader>>

(* handleArchive: a failure is logged, and the worker goes on. *)
ArchiveCreate ==
  /\ phase # "gone" /\ archiver.m # 0
  /\ rows' \in Inserted(archiver.m)
  /\ archiver' = [archiver EXCEPT !.m = 0]
  /\ UNCHANGED <<sendVars, queueVars, notifier, procVars, reader>>

ArchiveStop ==
  /\ ArchiverFree /\ archiver.pc = "select" /\ phase = "closing"
  /\ archiver' = [archiver EXCEPT !.pc = "drain"]
  /\ UNCHANGED <<sendVars, queueVars, notifier, rows, procVars, reader>>

(* No drain: what is queued is abandoned. *)
Drained_NoDrain(q) == TRUE

(* drainArchive's default branch. *)
Drained(q) == q = <<>>

ArchiveExit ==
  /\ ArchiverFree /\ archiver.pc = "drain" /\ Drained(archiveQ)
  /\ archiver' = [archiver EXCEPT !.pc = "done"]
  /\ UNCHANGED <<sendVars, queueVars, notifier, rows, procVars, reader>>

-----------------------------------------------------------------------------
(* The notify workers. *)

NotifierFree(w) == phase # "gone" /\ notifier[w].pc # "done" /\ notifier[w].m = 0

NotifyTake(w) ==
  /\ NotifierFree(w) /\ notifyQ # <<>>
  /\ notifier' = [notifier EXCEPT ![w].m = Head(notifyQ), ![w].tries = 0]
  /\ notifyQ' = Tail(notifyQ)
  /\ UNCHANGED <<sendVars, archiveQ, archiver, rows, procVars, reader>>

(* An attempt of SendMessageEvent that is answered below 500, or that is   *)
(* the last one: nil or an error, the event is over either way.            *)
NotifyOver(w) ==
  /\ phase # "gone" /\ notifier[w].m # 0
  /\ notifier' = [notifier EXCEPT ![w].m = 0, ![w].tries = 0]
  /\ UNCHANGED <<sendVars, queueVars, archiver, rows, procVars, reader>>

(* An attempt that is tried again after a backoff: the transport failed,   *)
(* or the answer was 5xx.                                                  *)
NotifyRetry(w) ==
  /\ phase # "gone" /\ notifier[w].m # 0
  /\ notifier[w].tries < MaxRetries
  /\ notifier' = [notifier EXCEPT ![w].tries = @ + 1]
  /\ UNCHANGED <<sendVars, queueVars, archiver, rows, procVars, reader>>

(* The context of the event (30 s, 3 s while draining) ends in a backoff. *)
NotifyDeadline(w) ==
  /\ phase # "gone" /\ notifier[w].tries > 0
  /\ notifier' = [notifier EXCEPT ![w].m = 0, ![w].tries = 0]
  /\ UNCHANGED <<sendVars, queueVars, archiver, rows, procVars, reader>>

NotifyStop(w) ==
  /\ NotifierFree(w) /\ notifier[w].pc = "select" /\ phase = "closing"
  /\ notifier' = [notifier EXCEPT ![w].pc = "drain"]
  /\ UNCHANGED <<sendVars, queueVars, archiver, rows, procVars, reader>>

NotifyExit(w) ==
  /\ NotifierFree(w) /\ notifier[w].pc = "drain" /\ Drained(notifyQ)
  /\ notifier' = [notifier EXCEPT ![w].pc = "done"]
  /\ UNCHANGED <<sendVars, queueVars, archiver, rows, procVars, reader>>

-----------------------------------------------------------------------------
(* Close, and the end of main.  Rooms go on while Close waits. *)

CloseStart ==
  /\ load.stopping /\ phase = "up"
  /\ phase' = "closing"
  /\ UNCHANGED <<sendVars, queueVars, archiver, notifier, rows, early, load, reader>>

WorkersDone == archiver.pc = "done" /\ \A w \in Workers : notifier[w].pc = "done"

(* Close returns because the workers are done, or after its timeout. *)
CloseReturn(timedOut) ==
  /\ phase = "closing"
  /\ timedOut \/ WorkersDone
  /\ phase' = "gone"
  /\ UNCHANGED <<sendVars, queueVars, archiver, notifier, rows, early, load, reader>>

-----------------------------------------------------------------------------
(* The history. *)

(* List's clamping of per_page, and the offset of a page. *)
PerPage(ask) == IF ask < 1 THEN DefaultPerPage
                ELSE IF ask > MaxPerPage THEN MaxPerPage ELSE ask

(* The clamped size for the rows, the size asked for in the offset. *)
Offset_Unclamped(page, ask) == (page - 1) * (IF ask < 1 THEN DefaultPerPage ELSE ask)

Offset(page, ask) == (page - 1) * PerPage(ask)

(* The tiebreak in the other direction. *)
Before_IdAsc(i, j) == \/ rows[i].at > rows[j].at
                      \/ rows[i].at = rows[j].at /\ i < j

(* ORDER BY created_at DESC, id DESC, of two ids. *)
Before(i, j) == \/ rows[i].at > rows[j].at
                \/ rows[i].at = rows[j].at /\ i > j

(* The ids of a room's rows, and these in the order the query returns      *)
(* them: the k-th is the one that k - 1 of them are before.                *)
Ids(name) == {i \in DOMAIN rows : rows[i].name = name}

Rank(name, i) == Cardinality({j \in Ids(name) : Before(j, i)})

Ordered(name) == [k \in 1..Cardinality(Ids(name)) |->
                    CHOOSE i \in Ids(name) : Rank(name, i) = k - 1]

LimitOffset(s, limit, offset) ==
  SubSeq(s, offset + 1, IF offset + limit < Len(s) THEN offset + limit ELSE Len(s))

(* A client asks for page 1, then the next one, until a page is empty.     *)
(* ListByRoom and CountByRoom are two queries, outside a transaction.      *)
Browse(name, ask) ==
  /\ load.browsing /\ reader.pc = "idle"
  /\ reader' = [NoReader EXCEPT !.pc = "get", !.room = name, !.ask = ask, !.page = 1,
                                !.begin = Ids(name)]
  /\ UNCHANGED <<sendVars, queueVars, archiver, notifier, rows, procVars>>

ListByRoom ==
  /\ reader.pc = "get"
  /\ reader' = [reader EXCEPT !.pc = "listed",
                  !.data = LimitOffset(Ordered(reader.room), PerPage(reader.ask),
                                       Offset(reader.page, reader.ask))]
  /\ UNCHANGED <<sendVars, queueVars, archiver, notifier, rows, procVars>>

(* A total that was counted before the page was listed. *)
CountByRoom_Stale ==
  /\ reader.pc = "listed"
  /\ reader' = [reader EXCEPT !.pc = "answered",
                  !.total = Cardinality(reader.begin),
                  !.seen = @ \union {reader.data[i] : i \in DOMAIN reader.data}]
  /\ UNCHANGED <<sendVars, queueVars, archiver, notifier, rows, procVars>>

CountByRoom ==
  /\ reader.pc = "listed"
  /\ reader' = [reader EXCEPT !.pc = "answered",
                  !.total = Cardinality(Ids(reader.room)),
                  !.seen = @ \union {reader.data[i] : i \in DOMAIN reader.data}]
  /\ UNCHANGED <<sendVars, queueVars, archiver, notifier, rows, procVars>>

NextPage ==
  /\ reader.pc = "answered"
  /\ reader' = IF reader.data = <<>> THEN [reader EXCEPT !.pc = "end"]
               ELSE [reader EXCEPT !.pc = "get", !.page = @ + 1, !.data = <<>>, !.total = 0]
  /\ UNCHANGED <<sendVars, queueVars, archiver, notifier, rows, procVars>>

-----------------------------------------------------------------------------
ArchiveWorker == ArchiveTake \/ ArchiveCreate \/ ArchiveStop \/ ArchiveExit
NotifyWorker(w) == \/ NotifyTake(w) \/ NotifyOver(w) \/ NotifyRetry(w)
                   \/ NotifyDeadline(w) \/ NotifyStop(w) \/ NotifyExit(w)
Reader == \/ \E name \in Names, ask \in Asks : Browse(name, ask)
          \/ ListByRoom \/ CountByRoom \/ NextPage

Next ==
  \/ Tick
  \/ \E r \in Rooms : Broadcast(r) \/ Archive(r)
  \/ ArchiveWorker
  \/ \E w \in Workers : NotifyWorker(w)
  \/ CloseStart \/ \E timedOut \in BOOLEAN : CloseReturn(timedOut)
  \/ Reader

Spec == Init /\ [][Next]_vars

(* Workers that can run do, and the client's timeout ends every POST.  An  *)
(* INSERT owes nothing: the DSN sets no timeout and db.Exec has no context *)
(* (config/database.go, message_repository.go), so it may hang for ever.   *)
FairSpec ==
  /\ Spec
  /\ WF_vars(ArchiveTake \/ ArchiveStop \/ ArchiveExit)
  /\ \A w \in Workers : WF_vars(NotifyWorker(w))

-----------------------------------------------------------------------------
(* Queues, workers, table and reader are well formed, within their         *)
(* capacities.                                                             *)
TypeOK ==
  /\ clock \in 0..MaxClock
  /\ sent \in Seq([room : Rooms, at : 0..MaxClock]) /\ Len(sent) <= MaxMessages
  /\ holding \in [Rooms -> 0..MaxMessages]
  /\ archiveQ \in Seq(Messages) /\ Len(archiveQ) <= ArchiveCap
  /\ notifyQ \in Seq(Messages) /\ Len(notifyQ) <= NotifyCap
  /\ archiver \in [pc : {"select", "drain", "done"}, m : 0..MaxMessages]
  /\ notifier \in [Workers -> [pc : {"select", "drain", "done"}, m : 0..MaxMessages,
                               tries : 0..MaxRetries]]
  /\ Len(rows) <= MaxMessages
  /\ \A i \in DOMAIN rows : rows[i] \in [m : Messages, name : Names, at : 0..MaxClock]
  /\ phase \in {"up", "closing", "gone"}
  /\ early \subseteq Messages
  /\ reader.pc \in {"idle", "get", "listed", "answered", "end"}

(* The history of a room lists what one incarnation of it broadcast in the *)
(* order in which it was broadcast (runArchiveWorker's comment, ORDER BY   *)
(* of ListByRoom), although messages stamped at the same instant, other    *)
(* incarnations and failed INSERTs come in between.                        *)
HistoryInOrder ==
  \A i, j \in DOMAIN rows :
    (sent[rows[i].m].room = sent[rows[j].m].room /\ Before(i, j)) => rows[i].m > rows[j].m

(* Whoever pages through a room sees every row that was there when he      *)
(* began, whatever is inserted meanwhile and whatever page size he asks    *)
(* for: rows never slip back over a page boundary (ListByRoom's comment).  *)
PagesMissNothing == reader.pc = "end" => reader.begin \subseteq reader.seen

(* The total of an answer covers the rows of the pages up to this one:     *)
(* List counts after it lists, and rows are only ever added.               *)
TotalCoversPage ==
  (reader.pc = "answered" /\ reader.data # <<>>) =>
     reader.total >= Offset(reader.page, reader.ask) + Len(reader.data)

(* When Close has waited for the workers, nothing that was queued before   *)
(* it is left in a queue: every row was tried, every event was posted at   *)
(* least once.  What a room archives during Close may be left behind.      *)
DrainedBeforeExit ==
  WorkersDone => \A m \in early : m \notin ToSet(archiveQ) \union ToSet(notifyQ)

(* What was queued before Close is taken up in the end, before or after    *)
(* Close began, unless Close's timeout ends the process first: an event    *)
(* even if an INSERT hangs for ever, since the two queues share no worker; *)
(* a row as long as every INSERT ends, failed or not.                      *)
QueuedIsHandled ==
  /\ \A m \in Messages :
       (m \in early /\ m \in ToSet(notifyQ)) ~> (m \notin ToSet(notifyQ) \/ phase = "gone")
  /\ []<>(archiver.m = 0) =>
       \A m \in Messages :
         (m \in early /\ m \in ToSet(archiveQ)) ~> (m \notin ToSet(archiveQ) \/ phase = "gone")

(* Paging through a growing history is sound: nothing that was there is    *)
(* missed, and the total is never less than what was shown.                *)
PagingSound == PagesMissNothing /\ TotalCoversPage

(* The queues are well formed, within their capacity, and empty of what    *)
(* they owe when Close has waited for the workers.                         *)
QueuesInv == TypeOK /\ DrainedBeforeExit

=============================================================================
