# A verification project for realtime-chat-platform

TLA+ modules that model the five services of the platform, TLC runs that check them
on small instances, and TLAPS proofs of their safety properties for every instance.

## The system

| service | state | operations | talks to |
|---|---|---|---|
| chat-service | rooms and connections in memory; three queues; a MySQL table of messages | join, leave, broadcast, evict, reap; queue and post presence; heartbeat; archive; send message events | presence-service, notification-service over HTTP; MySQL |
| presence-service | Redis: a sorted set per room, one index of rooms | online, offline, refresh, list | Redis |
| notification-service | two queues in memory; tables of webhooks, subscriptions, deliveries | accept an event, fan out, deliver with retries, close | presence-service, receivers of webhooks, MySQL |
| gateway | edge cache, WebSocket tickets, health of chat instances, users | cache and fetch, issue and redeem tickets, balance, authenticate | all others |
| media-service | files named by their hash, with metadata | put, open | file system |

What is hard in it:

* **chat-service** (`internal/ws`). One goroutine per room owns the clients, two pumps
  per connection, a reaper for the whole hub, HTTP handlers that join. They meet on
  unbuffered channels with timeouts of 2 s and on two mutexes; three places close
  channels; a slow consumer is evicted in the middle of a fan-out. Correct means: no
  panic, no leaked goroutine or room, frames in order, presence told the truth.
* **presence** (chat-service's dispatcher and heartbeat, presence-service). Every message
  about presence may be dropped, delayed, repeated or overtaken, and every process may
  crash. Correct means: whoever is connected gets listed, whoever is not disappears
  after at most a TTL, instances do not disturb each other, the index of rooms agrees
  with the rooms.
* **notification-service**. An accepted event becomes rows, then calls with retries, by
  several workers, while the process may be closed or killed and the event posted again.
  Correct means: at most one delivery per event and user, rows that tell the truth,
  nothing accepted is forgotten by an orderly Close, and Close returns.
* **message history** (chat-service's dispatcher and repository). A message is broadcast
  first and archived later, by one worker, from a queue that may be full, while clients
  page through the table. Correct means: the order of the room survives, no row slips
  over the boundary of a page, what was queued is handled also by a process that stops.
* **recipients** (notification-service). Subscribers, presence and webhooks are read one
  after the other, and all three change meanwhile; a name is checked when it is
  registered and resolved again when it is called. Correct means: nobody who was due is
  missed, nobody is told who never asked, a call goes nowhere it may not.
* **gateway**. A cache with a single flight per object; single-use tickets with a
  reaper; registrations that look first and insert later; round robin over a set that
  changes; a ring that must keep a room on one instance while instances come and go.
* **media-service**. Object and metadata are two files, written one after the other,
  by uploads that may store the same bytes at the same time.

## The modules

| module | models |
|---|---|
| `RoomHub` | hub, rooms, connections of chat-service |
| `RoomHub_proofs` | theorems about `RoomHub` |
| `PresenceStore` | presence-service and its Redis keys, for one room |
| `ChatPresence` | chat-service's presence queue, client, heartbeat, stop and crash; extends (composes with) `PresenceStore` |
| `Notification` | notification-service from an accepted event to the webhook calls |
| `WebhookDelivery` | a delivery as it is promised; `Notification` implements it |
| `MessageArchive` | chat-service's archive and notify queues, the table of messages, its paging reads |
| `Recipients` | notification-service's webhooks, subscriptions, resolution of an event and the dial of a call |
| `EdgeCache` | gateway's edge cache |
| `Tickets` | gateway's accounts, tokens and WebSocket tickets |
| `OneShotTicket` | the ticket as it is promised; `Tickets` implements it |
| `Tickets_proofs` | theorems about `Tickets`, the refinement among them |
| `LoadBalancer` | gateway's health sweep, round robin, hash ring and balanced proxy |
| `MediaStore` | media-service's uploads and reads over its directory |
| `ChatPresence_proofs` | theorems about `PresenceStore`, alone and composed in `ChatPresence` |
| `Notification_proofs`, `Recipients_proofs`, `MediaStore_proofs`, `MessageArchive_proofs` | theorems about the module they extend |
| `Gateway_proofs` | theorems about `EdgeCache` and `LoadBalancer` |
| `MC...` | constants and symmetries for TLC |

Modules meet where the code does: `RoomHub` tells when a presence event is due,
`ChatPresence` what becomes of it, composed with `PresenceStore` in one state machine.
`MessageArchive` posts the events `Notification` accepts (`MaxPosts` above 1 is an event
posted again after a lost answer); `Notification` takes the recipients of an event to be
any set of users, which is more than what `Recipients` computes.

Definitions with a suffix (`Full_OffByOne`) are mutants: what a plausible bug would make
of the definition they precede. They are used by nothing else; each shows that a
property can fail.

### RoomHub

`rooms` is `Hub.rooms`; a room is an incarnation, numbered as it is created, since a
connection may hold a room that is no longer in the map. `reaper = "scanning"` means the
reaper holds `h.mu`; looking at `ClientCount` and removing the room are two steps
(`ReapCheck`, `ReapRemove`) because the room's goroutine only needs `r.mu`. A case of
`run()` up to its `broadcastEvent` is one action, the fan-out with what follows it
another (`RunFanOut`): between the two the client is already a member, or no longer
one. The fan-out, the eviction and the `Notify` after the unlock are one step: they are
one goroutine's, and `notified`, what presence was last told of a connection, is read by
no other. `pc = "abandoned"` is a connection whose unregister timed out; its room may
still hold it. `pc` is where the handler and then the read pump of a connection is; the rendezvous
on an unbuffered channel is one step of both sides, a timeout another action. Frames are
numbers: `seq` of the room, `send` the buffer, `last` the last one written. `panicked`
becomes true where Go would panic.

### PresenceStore

One room; a member is a pair of user and instance. Time is a tick, scores are the ticks
left. A handler's life is `sent`, `stamped` (the expiry is computed from its clock), then
the transaction; `MaxDelay` bounds the ticks in between. `MULTI` and the script are
atomic. A key disappears when its EXPIRE has run out or its last member is removed.

### ChatPresence

Connections of `RoomHub` appear as counts: a user may have several to one room. `conns`
counts those that the room of the hub's map holds, `orphans` those that were registered by
a room the reaper has taken out of the map (`JoinOrphaned`): `Hub.Snapshot` walks the map,
so the heartbeat and the stop see only the former, and the leave of the latter may go
unreported (`LeaveOrphaned`). A connection whose unregister timed out in a room that goes
on is still a client of it, and counts until a fan-out evicts it. The worker takes one event at a time and posts it with retries; a post that fails for the
client leaves its request behind (`Abandon`), to be applied late or never. The heartbeat
takes a snapshot in one step and posts it in a later one. `Signal`, `Shutdown`, `Exit`,
`ExitEarly`, `Crash` and `Restart` are the life of the process, as `main.go` has it.

### Notification and WebhookDelivery

A delivery is a pair of event and user. The recipients of an event are any set of users,
since subscriptions, presence and webhooks change at any time. An attempt has stages
(ready, sent, accepted or refused), so that a crash, a lost answer or the cancelled
context can come between them. With `DbFaults` any insert or update may fail; an insert
that failed for the client may have been committed.

`WebhookDelivery` sees the row, the calls and the acceptances of a delivery and nothing of
queues, workers, replays and crashes. `DeliversAsPromised` maps each of the three to the
variable of that name, and the bound on calls to `MaxRetries + 1`. It implies what the
parts promise singly: a final row is not taken back, and nobody is called any more once
the row is final.

### EdgeCache

A request goes through lookup, `fetchOnce`, fetch, store, release, wake and answer, each
a step, since `cache.mu` and `h.mu` are released in between. `Put` is one step, under the
mutex; `Bytes` sums what the entries of a list use, and the number of entries that survive
a `Put` is the largest that leaves room, which is where the eviction loop stops. Serve looks into the cache before `fetchOnce` takes the
lock and `fetchOnce` does not look again, so a slow request may fetch an object that is
cached by then; that is why `BytesAccounted` has to hold through a second `Put`.

### MessageArchive

A message is its position in `sent`, in the order of the stamps; `Broadcast` stamps and
`Archive` queues, two steps of the room's goroutine, each queue or neither taking the
message when it is full. Two goroutines may have one name, because an orphaned room goes
on. The archive worker takes, inserts (or fails) and goes on; a notify worker posts and
retries until an answer, the last try or the deadline. `CloseStart` cancels the context,
the workers drain, an INSERT may hang for ever, `CloseReturn` comes with them or by its timeout, and rooms may still
archive: only what was queued before (`early`) is owed. The reader asks for page after
page; `ListByRoom` and `CountByRoom` are two steps, the ORDER BY is `Before`, the clamp of
the page size `PerPage`. `Ordered` puts each row where its `Rank` says, the number of rows
that come before it: a sort without an algorithm.

### Recipients

`webhook` is the table, one row per user: a URL and the secret of the PUT that wrote it.
`PutMint`, `PutUpsert` and `PutReadBack` are the three steps of a PUT, each of which the
database may fail. The resolution reads subscribers, presence and webhooks in three
steps; `seen` remembers what was the case meanwhile and is what the two properties about
recipients compare with. A call resolves its name anew, to any address, and `Dialled` is
what the dialer lets through.

### Tickets and OneShotTicket

A registration looks (`RegisterCheck`) and inserts (`RegisterCreate`); a token is the user
it was signed for; a ticket is the number of the call that issued it. The reaper takes
the time (`ReapTick`) before it takes the mutex (`ReapOnce`), so it may work with an old
one. A handshake redeems and then is proxied. `Restart` loses the map and what was under way.
`KeepsPromise` maps `tickets` to the tickets that are good, and the handshakes that hold
a ticket to those it let in.

### LoadBalancer

`up` is whether an instance answers `/health` in time and with 200, `healthy` what the
gateway believes. One that stops answering may be dead or only slow: any of its connections
may break with it (`Change`), and a handshake with it may fail or go through (`Connect`). `Check` is a probe
per instance, its verdict in a later step, and the end of the sweep. `Healthy` reads one
flag after the other, so a list may never have been true. The ring is built once, from
hashes chosen at the start, with each point where its `Rank` says, the number of points
of a smaller hash; `LookupIn` takes the members as a parameter, so that the ring
with and without an instance can be compared. `ChatRoom` is what chat-service makes of
the same query parameter.

### MediaStore

A content stands for its hash; `Prefix` is what is left of it at the cap. An upload goes
through sniff and temp file, copy, truncation of the metadata, its write, rename; every
one of them may fail, the deferred Remove of the temp file included (`left`). The rename is
atomic, `os.WriteFile` is not: `meta = "empty"`. A read takes the metadata, then the
object; either may fail for a reason of its own (`failed`), which is a 500.

## The runs

| run | checks | bounds |
|---|---|---|
| rooms_safety | `TypeOK NoPanic HubRoomsLive FramesInOrder PresenceTruthful` | 2 connections, 1 name, 2 incarnations, buffer of 1, 2 messages |
| rooms_live | `PumpsExit JoinReturns RoomsReaped` | the same without messages |
| presence_index | `StoreInv IndexCoversRoom OnlyOwnOffline` | 2 users, 2 instances, TTL 2, 2 requests at once, EXECs up to a tick late |
| chat_presence_safety | `PresenceInv` | 1 user, 1 instance, TTL 2, queue of 2, 1 retry, 2 requests at once, late EXECs, losses, 1 stop |
| chat_presence_live | `Heals GhostsVanish` | 1 user, 2 connections, TTL 1, queue of 1, losses, no stop |
| webhooks | `DeliveryInv RowsAccounted EventsDrained DeliversAsPromised CloseReturns` | 1 event posted 3 times, 2 users, 2 workers, queues of 2 and 1, 1 retry, 1 crash, failing database |
| archive | `HistoryInOrder PagingSound QueuesInv QueuedIsHandled` | 2 incarnations of one room, 2 notify workers, queues of 1, 1 retry, pages of 1 and 2; either 2 messages with their events and a stop, or 3 messages at 2 instants with a reader |
| recipients | `RecipientsRight RegistryInv CallsAreOwn` | 2 users, 1 name, a public and a private address, a malformed URL, 2 PUTs, 1 event |
| edge_cache | `CacheInv OneFetch ServedFromResult EveryoneAnswered` | 3 requests, 3 objects of sizes 1, 1, 2 in 2 bytes |
| tickets | `IdentityInv KeepsPromise ExpiredIsReaped` | 2 emails, 2 registrations, 2 tickets, 2 handshakes, TTL 1, 3 ticks, 1 restart |
| balancer | `RoomOnOneInstance RingIsConsistent PicksInv FlagsConverge` | 3 instances; every ring of 4 positions and every key on it; on one ring 1 change and 3 requests, 3 changes and 1 request, 2 changes and 2 clients |
| media | `MediaInv StoredStaysReadable ReadsSeeStored` | 3 uploads and 1 read of 4 contents at and above the cap, 1 crash, failing file operations |

All twelve pass. Some properties are conjunctions of named parts:

| property | parts |
|---|---|
| `StoreInv` | `StoreTypeOK`; `KeyOutlivesMembers`: the EXPIRE of a key never takes a live member |
| `PresenceInv` | `TypeOK`; `GhostExpires`: a member is listed for at most a TTL after the last thing that spoke for it |
| `DeliveryInv` | `TypeOK`; `OneDelivery`: one delivery per event and user in hand; `CallsBounded` |
| `RowsAccounted` | `RowsTellTruth`: delivered only if accepted; `PendingAccounted`: a pending row had a call, is in hand, or fell to one of four named losses |
| `CacheInv` | `CacheTypeOK`; `BytesAccounted`: the byte count is the sum of what is held |
| `PagingSound` | `PagesMissNothing`: all rows of the beginning are seen; `TotalCoversPage` |
| `QueuesInv` | `TypeOK` with the capacities; `DrainedBeforeExit` |
| `IdentityInv` | `TypeOK`; `OneAccountPerEmail`; `ConnectedAsOwner` |
| `RingIsConsistent` | `LookupIsClockwise`: the binary search against the definition; `ScaleOutMovesToNew` |
| `PicksInv` | `TypeOK`; `NoBlindPick`: no flag is used before a probe set it; `EvenSpread`: of the picks since the last flag changed no instance has two more than another. A pick from a list read before that change may be uneven; the count starts anew after it |
| `MediaInv` | `TypeOK`; `StoredAsSent`; `TempsRemoved`: only a crash or a failed Remove leaves a temp file |
| `RecipientsRight` | `NobodyMissed`; `NobodyUnasked` |
| `RegistryInv` | `TypeOK`; `AnswerHolds`: what a PUT answered is registered until the next write |

Every part has a mutant of its own.

The bounds are the smallest in which the interesting cases happen: a buffer of one is
full after the join frame, so that joins, leaves and messages all evict; two
incarnations let a connection hold the old room while another gets the new one; a queue
of one or two overflows; two requests at once overtake each other; a TTL of two with a
heartbeat every tick leaves time for one sweep to be lost (with a TTL of one, in the run
about liveness, every sweep that is lost shows). That run has no stop: what a stop or a
crash leaves behind is bounded by `GhostExpires` in the other. Two workers and three posts
are enough for a job to be worked on twice if the unique key did not prevent it. Three
messages at two instants have two of the same instant in either order; two registrations
meet between look and insert; a clock of three with a TTL of one lets a ticket expire,
and its reaper be late; three points on a ring of four positions meet a hash before,
on, between and behind them; three uploads are one that has stored, one that rewrites and
one that fails. The loads of `archive` and `balancer` keep apart what shares no state, so
that each can be larger.
Connections, users and slots of requests that are not told apart are symmetric, in runs
without liveness only. Deadlock is checked, except for rooms and requests that come once and
are over at the end.

### Fairness

* Rooms: goroutines that can run do, the selects with a timeout end, reads on a closed
  socket fail, and `done` is taken in the end because Go's select chooses at random
  (strong fairness). No peer has to send, join or leave.
* Presence: workers, heartbeats and handlers that can run do, time passes, and a refresh
  that is tried for ever gets through at some time (strong fairness): without that, a
  network that is down for ever refutes every repair.
* Close of notification-service: only its two timers.
* Archive: each notify worker runs (weak fairness), since the HTTP client has a timeout; the
  archive worker takes, stops and exits. An INSERT need not end: the DSN sets no timeout
  and `db.Exec` takes no context. That rows are written is promised only if the worker gets
  back from its INSERTs (`[]<>` in the property); events are posted in any case. Rooms,
  readers and the clock need not move.
* Tickets: only the reaper's ticker and its lock. Nobody has to redeem.
* Balancer: the ticker of the sweep, and a probe ends by answer or timeout. That an
  instance stays as it is, is in the property (`<>[]`), not in the fairness.
* Edge cache: goroutines run, and the origin client has a timeout.

### Where the code and its comments part

The properties state what the code does guarantee. In these places a comment says more;
each behaviour is one of the modules' behaviours.

1. `chat-service/internal/ws/hub.go:51-54`: a join succeeds against the live room or
   creates a fresh one. A handler that has the room but is not registered yet is not
   counted; the room is shut down, and `run()` may still take the register. The
   connection then sits in a room no one else can join, until it leaves (`RoomHub`).
   If `run()` then takes `done`, the unregister of that connection times out, and it stays
   reported online as far as chat-service tells: the exception of `PresenceTruthful`. The
   room being in no snapshot, it lapses with its TTL. `MessageArchive` therefore has two goroutines for one name.
2. `chat-service/cmd/chat/main.go:90-93`: a graceful stop clears presence at once. A
   heartbeat sweep under way during the stop can be applied after the offline
   (`ChatPresence`); it goes with its TTL, which is `GhostExpires`.
3. `presence-service/internal/repository/presence_repository.go:133`: ListRooms is every
   room with someone online. An EXEC that comes after a later-stamped one lowers the
   index score, and the room is missing although someone is in it: for no longer than
   the EXEC was late, which is `IndexCoversRoom`.
4. `notification-service/internal/dispatch/dispatcher.go:93-95`: queued deliveries are
   attempted. The delivery workers may be gone before the fan-out has drained; such a
   delivery is one of the losses of `PendingAccounted`.
5. `notification-service/internal/service/fanout_service.go:111-112`: a recipient with a
   row had its call. After a fan-out that failed half-way it has a row and nothing else,
   and a replay of the event skips it.
6. `media-service/internal/storage/store.go:55`: storing what is there already is a no-op.
   It truncates and rewrites the metadata (line 138); a reader in between gets a 500, and
   after a crash or a failed write there everyone does until the next upload.
   `StoredStaysReadable` names exactly these two exceptions.
7. `notification-service/internal/service/webhook_service.go:37`: the answer of a PUT is
   read back. With two PUTs of one user at a time it can show the other's URL with its
   own secret, and a read-back that fails leaves a new secret nobody was told.
   `AnswerHolds` speaks of PUTs without another write in between.
8. `chat-service/internal/dispatch/dispatcher.go:101-103`: a lost online or offline repairs
   itself with the next heartbeat. The snapshot has the rooms of the hub's map only; a
   connection in an orphaned room (item 1) whose online was lost is never listed
   (`JoinOrphaned` with a full queue, in `ChatPresence`). `Heals` is about the rooms of the
   map; with `AllConns` in place of `conns` TLC finds it violated.

## What is proved

Every theorem is about all values of the constants that the module's named assumption
admits. The bounds that make TLC's instances finite (`Max...`) are natural numbers and
otherwise arbitrary, as are capacities, TTLs and retries; sets of users, requests, rooms,
contents are any sets, finite only where the proof counts them. The assumptions say
nothing else, but for these: the users of presence are finitely many, since a request
carries a list of them (`PresenceAssumption`); a stamped expiry is less than a TTL late
(`MaxDelay < TTL`, also there); the placeholder for no webhook is not a webhook
(`RecipientsAssumption`); there is a notify worker (`ArchiveAssumption`; `notifyWorkers`
is 4 at `dispatcher.go:46`); instances are configured, none twice, each with a point, and
no two points of the ring have one hash (`BalancerAssumption`). The last is about 64-bit
hashes of a few hundred names (`consistent_hash.go:105`); where it fails, `sort.Slice`
leaves the order of the two points open, and a ring that is rebuilt with an instance more
may have them the other way round.

The layout is the same everywhere: an inductive invariant, TLC-checked on the module's
run before it was proved, as a conjunction of named parts; a lemma for the initial
states, one per action or kind of action, one that puts them together; the theorems from
it by `PTL`. Most of the properties are not inductive by themselves; what had to be added
is the real argument of the code, and is what follows.

### `RoomHub_proofs`

* `TypeCorrect`: `[]TypeOK`, with the capacity of the buffers.
* `NeverPanics`, `MapHoldsLiveRooms`: `[]NoPanic` and `[]HubRoomsLive`. `IInv` adds
  `HubInv` (two names never share a room; rooms in the map have been made and not shut
  down; what is being scanned or doomed is in the map and the reaper holds the lock) and
  `ClientInv` (a member has registered, holds that room, and its channel is open).
* `FramesAreOrdered`: `[]FramesInOrder` from `IInv`, since only a member's buffer grows,
  and a member is in one room.
* `PresenceIsTruthful`: `[]PresenceTruthful`, which is about the connection and not about
  what the room holds. It takes three steps beyond `IInv`. `LeaveInv`: a connection whose
  leave is being fanned out has left its room for good, so that no second leave and no
  later join can contradict what presence is about to be told. `ToldByMembership`: what
  was told last agrees with the room's clients. `StayInv` relates those to the connection:
  while its read pump runs it is a client of its room exactly until it is evicted, and
  once its pumps have ended and its unregister was taken it is none, while one whose
  unregister timed out may be one for ever.

### `ChatPresence_proofs`

* `KeysOutliveMembers`, `IndexIsComplete`: `StoreSpec => []StoreInv` and
  `[]IndexCoversRoom`. `StoreIInv` adds that a stamp is at most `MaxDelay` old
  (`StampInv`), that no score exceeds a TTL (`ScoreInv`), and that the index key lasts
  longer than the room's entry in it (`IndexInv`): an EXPIRE of two TTLs then covers every
  score that was written before it.
* `InstancesClearTheirOwn`: `StoreSpec => OnlyOwnOffline`, an action property.
* `GhostsExpire`: `Spec => []PresenceInv` for the store with any number of instances of
  chat-service. `quiet` counts the ticks since something last spoke for a member, and
  `GhostExpires` weighs it against the score. `SpokenInv` (whoever is spoken for is not
  quiet) is the link; what speaks is a connection, a queued event, the worker's job, the
  sweep, or a request, and `SpokenNow` names these places so that each action is seen to
  move a voice from one of them to another (`Silent`) or to make a connection.
* `StoreHoldsInChat`: the store's invariants hold in the composition too.

### `Notification_proofs`

* `DeliveredAtMostOnce`, `RowsTellWhatHappened`: `[]DeliveryInv` and `[]RowsAccounted`.
  `HandInv` says where a job can be (fan-out, queue, one worker), that it is in one of
  these only, and that its row is pending meanwhile: the unique key on the row is what
  makes a replay find it. `TaskInv` relates the attempt a worker is at to the calls made.
* `CloseDrainsEvents`: `[]EventsDrained`, from `ExitInv`.
* `DeliveriesKeepPromise`: `Spec => DeliversAsPromised`, the refinement of `WebhookDelivery`.
  `RefinesNext` goes through the actions: a new row of the fan-out is `Create`, also the one
  whose insert seemed to fail; an attempt is `Call`, a 2xx `Accept`, and what is recorded
  last is `Finish`; a replay, a retry recorded as pending and all that only moves a job
  stutter. `HandInv` is what makes it go through: only who has the job in hand calls or
  updates the row, and then it is pending; `TaskInv` gives that a call is left, that one
  was made before an answer, and that it was accepted before it is recorded so.

### `Recipients_proofs`

* `PutAnswersHold`: `[]RegistryInv`. `AnswerInv` speaks of the PUT between its upsert and
  its answer as well.
* `ResolutionIsRight`: `[]RecipientsRight`. `SeenInv` relates the history to the tables as
  they are now, `FanInv` to what the resolution has read after each of its three reads.
* `CallsGoToTheirOwn`: `[]CallsAreOwn`. `SecretInv` is about all hooks that are about,
  registered, found, queued or called, since a webhook that was deleted meanwhile is still
  in a job: a secret is that of one user and URL wherever it is.

### `Gateway_proofs`, the edge cache

* `FetchIsSingle`, `AnswersComeFromResults`: `[]OneFetch` and `[]ServedFromResult`, whatever
  the cache holds. `InflightInv` makes the map name the leader exactly while it has not
  released it; `LeaderInv` and `ResultInv` say whose result a request holds and that it is
  written before `done` is closed.
* `BytesAreAccounted`: `[]CacheInv`. `BytesAccounted` is inductive; the work is in what a
  sum over a list becomes. `BytesDef` shows that the recursive function `Bytes` exists and
  is a natural number everywhere; `BytesPrefix`, `BytesPushed` and `BytesRemoved` say what
  a prefix, an entry in front and an entry taken out of the middle do to it. All four are
  inductions over a position, which `UpTo` provides for a set in place of a predicate,
  from the well-foundedness of strict inclusion in the library (`LeastNat`). `CachePut`
  then has two cases: either some entries are kept, and the choice of their number says
  that the new one fits, or none is, and it fits because `Put` refused what is over the cap.

### `Gateway_proofs`, the load balancer

* `RingStaysConsistent`: `[]RingIsConsistent`. `Numbered` is about any finite set with a
  strict order: how many elements are before one numbers them without gaps. So the ring
  is sorted (`RingByRank`), the search counts the points in front of a hash
  (`SearchCounts`), and lookup finds the smallest hash not below the key's, or the
  smallest of all (`LookupFindsSuccessor`). In terms of clockwise distance that is the
  nearest point, and the only one as near (`Distances`, `LookupIsNearest`); the nearest
  point of all is still the nearest when those of another instance are left out.
* `RoomsStayTogether`: `[]RoomOnOneInstance`. `AtInv` says where: whoever has been let
  through is at the instance lookup finds for the room as chat-service names it. Lookup
  depends on nothing that a step changes (`LookupStays`).
* `PicksAreSpread`: `[]PicksInv`. `SweepInv` gives `NoBlindPick`: before the first sweep is
  over nobody is served, and after it every flag is a probe's. For `EvenSpread`, `ReadInv`
  says that a list read under the flags as they are is that of the healthy instances in
  their order, and `EvenInv` that there are a start `a` and a number of rounds `m` such
  that every healthy instance had `m` turns and those from `a` up to where the counter
  stands, around the end, one more (`Rounds`). A pick extends that arc by one or closes
  the round (`EvenTurn`); picks that overlap do not matter since each advances the counter
  in one step. A pick from a list read before the last change of a flag is outside this
  argument, and `turns` starts anew after it. `CountInv` bounds the counter by the requests past their pick.

### `MediaStore_proofs`

* `UploadsAreSound`, `ObjectsAreKept`, `ReadsAreRight`: `[]MediaInv`,
  `[]StoredStaysReadable`, `[]ReadsSeeStored`. `PutInv` is what an upload knows at each of
  its steps; `DiskInv` relates the two files of a content to the uploads at work on it (a
  metadata file that was written is whole, being rewritten, or was cut by a failure or
  crash); `GetInv` carries that to a read between its two opens. A file operation of the
  read's own may fail as well: then it is a 500, and still never a 404.

### `MessageArchive_proofs`

* `HistoryKeepsOrder`: `[]HistoryInOrder`. The messages of one goroutine are in order in
  every place and between places: what the room holds is behind the queue, the queue
  behind the worker, the worker behind the table (`RowsInv`, `QueueInv`). With `StampInv`
  (stamps grow) the ORDER BY of the table shows that order.
* `NothingQueuedIsLeft`: `[]QueuesInv`. `EarlyInv` has it that a worker done has drained and
  that nothing queued before Close comes later; it needs a worker to exist. That the table
  holds no message twice, and so is no longer than what was sent, is `NoMoreRows`, by
  cardinality.
* `PagesAreSound`: `[]PagingSound`. A row that is inserted can only push others back
  (`RowsOnlyMoveBack`), so a row that was there when the reader began is on a page it has
  read or has a rank at or behind the next offset, which is `PageInv`; a page that comes
  up empty then finds all of them seen. `Numbered` gives the positions.

### `Tickets_proofs`

For a finite set of registrations and any emails, passwords, handshakes and TTL:

* `IdentityHolds`: `[]IdentityInv`. `AccountInv` counts the rows against the registrations
  that were answered with success. `MapInv` says that a ticket was issued to someone who
  has logged in, and that the reaper's time is not ahead of the clock. `ShakeInv` says that
  a handshake that was let in holds a ticket which is no longer in the map: that is what
  makes it the only one.
* `TicketsKeepPromise`: `Spec => KeepsPromise`, the refinement of `OneShotTicket`.
  `RefinesNext` goes through the actions: a redeemed ticket is `Spend`, one found expired
  and what the reaper takes are `Lapse`, a restart is `Forget`; the rest stutters.

### Only model-checked

All invariants and action properties of the runs are proved. What stays with TLC is
liveness: `PumpsExit`, `JoinReturns`, `RoomsReaped`, `Heals`, `GhostsVanish`, `CloseReturns`,
`QueuedIsHandled`, `EveryoneAnswered`, `ExpiredIsReaped`, `FlagsConverge`. The prover treats
neither fairness nor ENABLED.

## Not modelled

* Configuration, logging, request ids, wiring and start-up order: no state that changes.
* `reverse_proxy` and `trusted_proxy` of the gateway, and the GETs of webhooks,
  subscriptions and deliveries: they forward or read once and keep nothing.
* HMAC, SHA-256, bcrypt, JWT encoding: a signature is its secret, a hash its content, a
  token its user. A token does not expire within a behaviour of `Tickets` (24 h, 30 s).
* The three queues of chat-service's dispatcher close together; `ChatPresence` has one of
  them, `MessageArchive` two, and the shared timeout of Close may strike in either.

## Plan

One composition of `MessageArchive` and `Notification`: a message from its broadcast to
the webhook.
