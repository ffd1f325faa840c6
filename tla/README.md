# DanmuFlow in TLA+

A verification project for the live-comment (danmaku) gateway in `src/`: TLA+
modules that model its core, TLC runs that check them on small instances, and
TLAPS proofs of the safety properties for every value of the constants.

`PROJECT.json` holds the exact correspondence between definitions and source
lines, the list of hazards, the runs, the mutants and the theorems.

## 1. The system

Several gateway processes share one Kafka topic and one consumer group. A room
belongs to the partition its ID hashes to, a partition to the gateway the group
assigns it to. A client connects by WebSocket to the gateway that owns its room
(others answer 421), sends danmaku, which the gateway publishes to Kafka, and
receives what the gateway's consumer reads back and broadcasts to the room.

```
client --frame--> read loop --Publish--> Kafka topic (partition of the room)
                                            |
client <--frame-- writer <--chan(1)-- Room.Publish <--handler-- partition worker
                                                                  (one per assigned
ownership + revision <---- KafkaBus.Consume (generation) --------  partition)
     |                          ^
     v                          | restarted by the supervisor (messagebus.go)
handshake checks, ownership monitor, /route leases in Redis
```

### Inventory

| Component | State | Operations | What is hard | What makes it correct |
|---|---|---|---|---|
| Room (`internal/room/room.go`) | map of clients, sequence, a channel of capacity 1 per client | Join, Leave, Publish; the reader's receive | readers run outside the lock; full channels; rejoin under the same ID | no send on or close of a closed channel; streams ordered and within the membership; nothing lost uncounted |
| Room registry (`internal/room/registry.go`) | map of rooms | GetOrCreate | two callers at once | one room per ID |
| Handshake and connection table (`internal/httpserver/websocket.go`) | `items`, `closing`; per handler: revision seen, membership | readiness, ownership check, upgrade, join, register, re-check; remove, leave, close; `closeWebSockets` with a worker pool | ownership changes between any two steps; the monitor and Shutdown take the table while a handler is entering it; deadlines drop work | no handler removes another's membership; no stale connection is forgotten |
| Session (same file) | channels `protocolErrors`, `done`, `writeDone`, `heartbeatDone` | read loop, writer, heartbeat, clean-up | three goroutines, each may fail while another waits for it | each response is on the wire before the next frame is read; every session and its goroutines end |
| Server lifecycle (`internal/httpserver/server.go`) | `draining`, the monitor's last revision | ownership monitor, Shutdown | Shutdown waits for the monitor, which waits for slow peers | Shutdown completes, and everyone online is told |
| Kafka consumer (`internal/bus/kafka.go`) | ready flag, assigned partitions, revision | Consume, consumeGeneration, consumePartition, Close | crash between handler and commit; lost answers; kafka-go joining again or leaving while Consume is elsewhere; an evicted gateway that goes on; Close racing Consume | at least once, in order, commits never go back; two gateways do not show a partition for good |
| Kafka producer (same file) | the Writer's batches | Publish, partition of a room | a timed-out write may still be appended, late or twice | what was accepted is in the topic and not overtaken |
| Supervisor (`internal/httpserver/messagebus.go`) | back-off | restart of Consume | an error must not end consumption | every danmaku is handled in the end |
| In-memory bus (`internal/bus/inmemory.go`) | bounded queue, one consumer | Publish, Consume | full queue, deadlines | order, no loss but for a failed handler |
| Route leases (`internal/routing`) | published partitions; leases with token and TTL in Redis | run, reconcile, releaseAll, Stop; Register, Resolve, Release | registrations race rebalances; failed releases; expiry | a lease in force names the owner, or expires |
| Rate limiter (`internal/ratelimit/limiter.go`) | token bucket per key | Allow | float refill, clock; buckets are never removed | bounded bursts |
| Validation, sensitive words, configuration, metrics, probes, `cmd/` | none that matters here | | | |

How they interact: `Consume` writes ownership and readiness, which handshakes,
the monitor, `/route` and the route publisher read; the consumer's handler calls
`Room.Publish`; handlers join and leave rooms; the monitor and Shutdown close
sockets that handlers read from; Shutdown stops monitor, publisher, Redis client
and consumer in that order.

## 2. Modules

| Module | Models | Used by |
|---|---|---|
| `Broadcast` | what a room promises its readers, abstractly | refinement target of `Room` |
| `Room` | `room.go` | `MCRoom`, `RoomProofs` |
| `RoomOwnership` | ownership, revision and readiness as a gateway's own process sees them, abstractly | extended by `Gateway`; refinement target of `KafkaOwnership` |
| `Gateway` | handshake, connection table, monitor, Shutdown, over any `RoomOwnership` | `MCGateway`, `GatewayProofs` |
| `KafkaProducer` | `KafkaBus.Publish` and the kafka-go Writer, for one session | extended by `WebSocketSession` |
| `WebSocketSession` | one session after its registration | its own run, `WebSocketSessionProofs` |
| `OrderedBus` | what the gateway relies on behind the interface of `bus.go`, abstractly | refinement target of `KafkaConsumer` |
| `KafkaConsumer` | `Consume` under its supervisor on several gateways, with the broker and kafka-go's group goroutine | extended by `KafkaOwnership`; `MCKafkaConsumer` (run `kafka`), `KafkaConsumerProofs` |
| `KafkaOwnership` | the same with the revision each gateway counts | `MCKafkaOwnership` (run `kafka_recovery`), `KafkaOwnershipProofs` |
| `RouteLease` | `internal/routing` on several processes, `/route`, the end of Shutdown | `MCRouteLease`, `RouteLeaseProofs` |
| `RateLimiter` | `internal/ratelimit` | extended by `LocalGateway` |
| `InMemoryBus` | `inmemory.go` and its supervisors | extended by `LocalGateway` |
| `LocalGateway` | read loops, rate limiter and in-memory bus in one process | its own run, `LocalGatewayProofs` |

### Room and Broadcast

One action per method: `Join`, `Leave` and `Publish` each hold `Room.mu` from
their first line to their last. `Receive` is the reader of a client's channel,
which holds no lock. A *handle* is one `*Client`; a user who rejoins gets a
new one. `received`, `log`, `joinedAt`, `leftAt` and `drops` are history;
`drops[n]` is the `DroppedClients` that `Publish` returned for message `n`.
`EveryMessageAccounted` compares it with the members at the time who neither have
the message nor will get it from their channel, so that it sees a missing count as well
as a missing send. `Blank` stands for every string that `TrimSpace` empties.

The comment on the channel in `Join` (room.go:76-78) says that there is no protection
from slow clients yet and that `Publish` may block. It is out of date: the `select` of
room.go:132-139 has a `default`, and the model follows the code, in which a send to a
full channel is a drop. No property here says that `Publish` does not block; it is
one action because it cannot.

`Broadcast` says it without maps, IDs or channels: a subscription is handed a
subsequence, in order and unaltered, of what was published during it, possibly
after it ended. The mapping is: handle = subscription, `log` = published,
`received` = delivered.

### Gateway

The handler is one action per read or write of shared state, since every one of
them takes or releases a lock or an atomic of its own: `Probe` (draining),
`Admit`/`Refuse` (readiness and the health check), `ReadRevision`, `Upgrade`
(with the first `OwnsRoom`), `JoinRoom`, `Add`, `RecheckRevision`,
`RecheckOwner`, and on the way out `LeaveRoom`, `CloseSocket`, `Remove` in the
order the code has them on each path. The consumer's side is the module
`RoomOwnership`: `owned`, `revision`, `ready` and where `Consume` is (`Assign` …
`Rejoin`, `CloseReady`, `CloseOwnership`), at any time and with any set of rooms. `closeWebSockets` is modelled for
both its callers: a batch, at most `CloseWorkers` at work, a deadline, and the
`select` that may still hand out a job after `ctx.Done`. Workers that outlive
their closer are `orphans`; jobs it drops are `abandoned` (history).

Abstractions:
- The owned partitions are the set of rooms for which `OwnsRoom` is true.
- A blank user or room ID is one of the reasons of `Refuse`.
- `WriteControl` (1012) and `Close` of one worker are one action, `Finish`: both
  concern one socket, errors of the first are ignored, and what the read loop
  notices in the end is the close.
- The monitor's first read of the revision is part of `Init`. It happens when
  the goroutine is first scheduled, before any generation can have been assigned
  over the network unless the scheduler holds it back for seconds; a read that
  late would miss a change, and is listed as a hazard.
- `GetOrCreate` is folded into `JoinRoom`: one room per ID exists.
- `Assign` and `BecomeReady` may follow `Close`: nothing in the code prevents it.
- Between the monitor and the consumer, Shutdown stops the route publisher and closes
  Redis: `RouteLease`.

### WebSocketSession

`reader` is the read loop and then the deferred clean-up, `writer` the only
goroutine that writes data frames, `beating` the heartbeat. The clean-up waits for the
writer; the heartbeat is only signalled and may still be in `WriteControl` when the
handler has returned (`HeartbeatDone` comes at any time after `LeaveRoom`). A frame is what the
read loop decides about it: a response (the three codes for content are one), a
silent drop, a publication, or the 1009 path (`lingering`). `done` is the channel of that name in the pending
protocol error. `sock = "jammed"` is a connection on which a write has failed:
gorilla/websocket makes write errors permanent. Pongs are not modelled by
themselves; with no ping leaving, no pong comes back and the read deadline
passes. `MaxFrames` bounds the frames of a client, so that a peer that never
answers pings but sends for ever does not postpone the deadline for ever: in the
code too only pongs move the deadline.

A publication is handed to `KafkaProducer`. The kafka-go Writer is external: it
sends the session's messages in order and in batches, repeats a batch whose answer
is lost whether or not it was appended, and gives up after its last attempt. The
read loop waits for the outcome for a second at most; a message it has given up
stays with the Writer. What other sessions append in between, and a leader that
loses acknowledged messages (the price of `RequireOne` that the code names), are
left out.

### KafkaConsumer

Two goroutines per gateway, and its workers:
- the supervisor with `Consume` (`pc`): `Start`, `Receive`, `Own`, `StartWorkers`,
  `Unready`, `Disown`, then `GoRound` or `GoOut`; `GiveUp`, `Abort`, `Retry` and
  `Finish` are the other ways through it;
- the ConsumerGroup of kafka-go (`grp`): `LearnEnd`, `Rejoin`, `LeaveGroup`, and the
  generation it offers to `Next`. It does not wait for `Consume`: it joins again
  or leaves as soon as the generation is over and the routines registered with
  `generation.Start` are gone, while `Consume` may be looking the topic up or about to
  withdraw its ownership;
- one worker per assigned partition: `StartWorker`, `Fetch`, `Handle`, `Commit` and the
  ways they fail. kafka-go does not register, and so does not wait for, a worker
  started when its generation is over (`late`). Such a worker normally ends at once;
  when a message is there before its first look at the context it handles it (`Stray`).

The shutdown of the bus is `Cancel`, `CloseReady` and `CloseOwnership`, which interleave
with all of these; `Closing` says that somebody has called `group.Close`. A message is
`valid` or `poison` (what `json.Unmarshal` or `Validate` rejects). `handled` is history.

The broker and kafka-go are external, modelled from the way the code uses them:
- a generation gives every partition to exactly one of its members; a worker
  starts at the offset that was committed when the generation began;
- the coordinator waits for the members it knows unless one of them is too slow
  (`Evict`, counted as a fault); a member learns late that its generation is over
  and consumes until then;
- a commit from an older generation, or of a member that has left, is refused; a commit
  may be applied although its answer is lost;
- a crashed member is treated as having left;
- partitions may hold a backlog nobody has committed yet (`Backlogs`).

What follows for the owner of a room. Without any fault two gateways may show the same
partition for a while: the generation ends while one of them is between `Next` and
`clearAssignedPartitions`, kafka-go lets the other have it, and the first publishes or
keeps showing what is over. `OwnersDisjoint` says that this is the only way, that is,
that one of the two is out of date and, unless something has failed, its generation's
context is already done; `StaleOwnersLetGo` that it does not last. In the same window a
late worker that gets a message may handle it beside the new owner, which is the
exception in `NoNeedlessRedelivery`. `MaxStrays` bounds it, because it can go on for
ever: the broker refuses the late worker's commit, so `Consume` returns and leaves the
group, which ends the generation of the others before their workers have started, and
so on. Timing makes that improbable and nothing in the code rules it out; the liveness
run therefore has no strays, as it has a bounded number of faults.

The length of the back-off and topics that gain partitions are not modelled.

`OrderedBus` is what remains of it for the rest of the program: danmaku are published
to lanes, the partitions, and handed to the handler in the order of their lane, none
passed over. Redelivery is a stutter.

`KafkaOwnership` adds the counter `ownershipRevision`: every step that goes through
`setPartitionOwnership` or `clearAssignedPartitions` (`Publishes`) adds one, a restarted
process begins at zero. `Bus(g)` maps it to `RoomOwnership`: `assigned[g]` are the owned
rooms, and `Phase(g)` says where `Consume` is. So what `Gateway` assumes of its consumer
is what a member of the group really does, whatever the others do to it.

### RouteLease

A process is its token: a restarted gateway is another process. `SetOwnership` is
all the consumer does to a process, at any time and with any partitions, so that
two processes may believe they own the same one. `run` is one action per read or
write of shared state: `Start`/`Wake` (revision and clock), `ReadAssigned`,
`Register` and `Release` one by one, `EndRound`, `Leave`, `Exit`. `published` is
the variable of that name less what has been released already. Shutdown is
`StopPublisher`, `CloseRegistry` (when `run` is done, or time is up) and
`StopConsumer`.

Redis and time are external. A call is carried out, fails, or is given up and
carried out later (`late`); calls whose context is cancelled or whose client is
closed fail without counting as a fault, and may still have been carried out in the
first case. Time passes in units, only when every publisher is waiting for its
ticker, unless something is slow (`Delay`, a fault). The poll interval is any the
constructor accepts, chosen in `Init`. A lease is its holder; `/route` answers
with it (`Route`), and a handshake succeeds where `Serves` holds.

### RateLimiter, InMemoryBus, LocalGateway

Tokens and time have a common unit, so that one unit of time refills
1/`Interval` of a token: fractions are exact, the rounding of `float64` is left
out. `grants` is history. `Allow` is one action, under `Limiter.mu`.

The in-memory bus is a bounded queue. `Consume` is a compare-and-swap, the `select`
(which may still receive when the context is done), the handler, and the
deferred store. Each supervisor is the loop of `startMessageBusConsumer`; there may
be several on one bus, which is what the flag is for. `accepted` and `handled` are
history.

`LocalGateway` composes both with the read loops: `ReadFrame` asks the limiter
for the connection's user, `Publish` enqueues when there is room, `PublishFails`
at any time (the deadline).

## 3. Runs

| Run | Instance | What it shows |
|---|---|---|
| `room` | 2 IDs and a blank one, 3 handles, 2 contents and a blank one, sequence ≤ 3 (176 k states) | types, `OpenIffMember`, `StreamInOrder`, `EveryMessageAccounted`, and that Room implements Broadcast |
| `gateway_safety` | 2 connections, 2 users, 1 room, revision ≤ 2, slow peers, Shutdown (1.7 M) | types, `MembershipOwned`, `NoStaleForgotten`, `RestartMissesNobody` |
| `gateway_stale` | slow peers, two different users, revision ≤ 3 (730 k, about three minutes) | `OwnedWhileCurrent`, and `StaleSessionEnds` under fairness |
| `gateway_drain` | liveness with Shutdown (167 k) | `ShutdownCompletes`, `DrainEndsSessions`, `ReconnectPossible` |
| `gateway_old_generation` | as `gateway_stale`, revision ≤ 2 | **violated**: see finding 1 |
| `gateway_restart` | as `gateway_drain` | **violated**: see finding 2 |
| `session` | 3 frames, 2 broadcasts, repeated appends up to length 3 (837 k) | types, `AnsweredBeforeNextRead`, `AcceptedInOrder`, `ErrorsResolved`, `SessionEnds` |
| `kafka` | 2 gateways, one of which may be stopped, 1 partition, 2 messages, 1 fault, 1 stray (1.8 M) | types, `NoSilentLoss`, `WorkersWithinOwnership`, `OwnersDisjoint`, `NoNeedlessRedelivery`, `CommitsAdvance`, and that the group implements OrderedBus |
| `kafka_recovery` | `KafkaOwnership` with fairness, 1 fault, no strays, a poison message first (133 k) | that every gateway implements RoomOwnership, `EveryDanmakuHandled`, `StopWithdraws`, `StaleOwnersLetGo` |
| `route` | an old owner (2 ownership changes, may stop or crash) and a new one (1), 1 partition, TTL 4, every poll interval below it, 1 fault (452 k) | types, `InSync`, `LeaseKept`, `FormerOwnerForgotten`, `OwnerReached` |
| `route_stop` | the same | **violated**: see finding 3 |
| `local_gateway` | 2 connections of 1 user with 2 frames each, burst 2, a token in 2 units, time ≤ 4; 2 supervisors, queue of 2, 1 failing handler (1.0 M) | types, `GrantsWithinRate`, `DropsJustified`, `HandledInOrder`, `AcceptedIsHandled` |

Why the bounds suffice to make the interesting cases happen:
- Room: three handles allow a member, a second member and a rejoin under a used
  ID; three messages with capacity 1 allow received, buffered and dropped at once.
- Gateway: two connections can compete for one user ID, and with one close worker
  one is at work while the other waits and is dropped. `MaxRevision` bounds the
  changes the consumer makes by its own choice. With 3 (`gateway_stale`) an ownership
  is assigned, lost and assigned again, to the same or to no room, between any two steps
  of a handshake or within a round of the monitor. With 2 (`gateway_safety`, where
  Shutdown, two connections of one user and their rejections are added) it is assigned
  and lost once, and `Close` may clear it a second time; 3 goes beyond fourteen million states there.
- Session: three frames allow a response to be pending when a message arrives and
  another frame to follow it, and a message that was given up to be appended after
  a later one; two broadcasts fill the channel and find it full.
- Kafka: two gateways suffice for an evicted one, or one late in withdrawing, beside its
  successor, two messages for a first that is redelivered after the second was handled,
  one fault for an eviction, a crash or a lost commit in any state, one stray for a
  late worker that broadcasts beside the new owner. With one partition the workers of
  one gateway do not meet; the proofs cover any number. In `kafka_recovery` states that
  differ only in the revisions count as one (`VIEW`): no guard, fairness condition or
  liveness property depends on them, and the property about them says how each single
  step changes them. That danmaku are handled in order follows from `ImplementsBus`.
- Route leases: the old owner gets, keeps or loses the partition while the new one
  gets it. With TTL 4 the poll intervals 1, 2 and 3 renew before, at and well after a
  third of the TTL. One fault is a lost, late or slow call, or a crash; more faults
  only delay the end of the story.
- Local gateway: four frames against a burst of two, with a refill that comes in
  halves of tokens within the time bound, make grants, refusals and partial refills
  meet; a queue of two fills, and with two messages in it first in, first out differs
  from any other order; the second supervisor finds the bus taken and
  takes over when the first fails or stops.

Each passing run permits deadlock in the sense of TLC where the bounded inputs
run out or the system has stopped (all but `room`, in which failing calls are
always possible). Symmetry is used only in runs without liveness properties.

Every property of a passing run has a mutant in `PROJECT.json`: an operator
defined next to the original (marked `Mutant:`) that contains a plausible bug
and under which TLC finds the property violated.

### Fairness

- Goroutines that can run do run (Go's scheduler), so every handler, worker,
  reader and writer has weak fairness on its own steps.
- Steps that wait for a peer or a service have a deadline in the code
  (`writeWait`, `pongWait`, the publish timeout, the lookup timeout), hence they
  happen.
- The monitor is driven by a ticker; a heartbeat that cannot write notices at its
  next tick.
- The group coordinator completes a rebalance once its members have joined.
- In `RouteLease` time passes when all publishers wait for it (`Tick`); in
  `LocalGateway` only the supervisors, whose handlers return, are fair. Publishers
  need not be: frames are bounded there, so that the queue can be emptied.
- Nothing is assumed of clients, producers, rebalances, faults or the call of
  Shutdown. A session ends by itself only when its socket is closed.

### Findings

1. *Connections of an old generation can survive* (`gateway_old_generation`).
   `closeForOwnershipChange` empties the table first and then hands the connections to
   workers under a one-second context. What is not handed out when that context
   ends is neither closed nor in the table, so no later round finds it. The
   comment on the function says it closes all connections of the old generation.
   `StaleSessionEnds` shows that this is the only way for a stale session to survive.
2. *An online connection can miss the 1012* (`gateway_restart`). A connection the monitor
   has taken out of the table but not handed out is not in Shutdown's snapshot, and
   cancelling the monitor drops it. `src/README.md` says that online connections
   receive a 1012 on restart. `RestartMissesNobody` shows that every connection is
   in somebody's batch; the loss is in the batch that is dropped.
3. *A stopped gateway can leave a lease behind* (`route_stop`). If `Stop` is called
   during a round, the cancelled context makes the release of a partition that was given
   up fail; it is not in `next`, so `releaseAll` does not repeat it. The comment on
   `Stop` says it deletes the leases this instance has published. `FormerOwnerForgotten`
   shows that expiry repairs it.

A related observation that is not a finding: `message_bus_unavailable` does not mean
that the message is not in the topic (a late append). `src/README.md` describes
the code as "cannot be queued within a second"; a client that sends again may see
its danmaku twice.

## 4. Proofs

All proofs are checked by TLAPS with Z3, Zenon and LS4, for any sets of users,
connections, gateways, partitions and so on, and any bounds. The assumptions are
the named `ASSUME`s of the modules: `NoHandle`/`NoConn` is not a handle or
connection, the set of handles is finite (needed to count the dropped clients),
`CloseWorkers`, `Burst`, `Interval` and `BufferSize` are positive, `TTL` is at least 2
(so that there is a poll interval below it), the bounds are natural numbers.

| Module | Theorems |
|---|---|
| `RoomProofs` | `RoomInvariant`, `RoomType`, `RoomMembers`, `RoomOrder`, `RoomAccounting`, `RoomRefinesBroadcast` |
| `GatewayProofs` | `GatewayInvariant`, `GatewayType`, `GatewayMembership`, `GatewayOwnership`, `GatewayNoStaleForgotten`, `GatewayRestart`, `GatewayRevisionVouches` |
| `WebSocketSessionProofs` | `SessionInvariant`, `SessionType`, `SessionAnswers`, `SessionAccepted` |
| `KafkaConsumerProofs` | `KafkaInvariant`, `KafkaType`, `KafkaNoSilentLoss`, `KafkaOrder`, `KafkaWorkersWithinOwnership`, `KafkaOwnersDisjoint`, `KafkaNoNeedlessRedelivery`, `KafkaCommits`, `KafkaImplementsBus`, `KafkaStoppedForGood` |
| `KafkaOwnershipProofs` | `KafkaImplementsOwnership` |
| `RouteLeaseProofs` | `RouteInvariant`, `RouteType`, `RouteInSync`, `RouteLeaseKept` |
| `LocalGatewayProofs` | `LocalInvariant`, `LocalType`, `LocalGrantsWithinRate`, `LocalDropsJustified`, `LocalHandledInOrder` |

The inductive invariants, each named `IInv`:
- **Room**: the checked properties need that a handle not yet allocated has an
  empty stream (`FreshEmpty`) and that each window lies within the log
  (`WindowLogged`). The accounting is kept because `Leave` and `Receive` change nobody's
  share of an old message (`MissesKept`), and of a new one exactly the members whose
  channel was full go without (`MissesNew`). Refinement then follows because the head of a channel is the
  next position of the stream after the last one delivered (`HeadIsNext`).
- **Gateway**: `OwnedWhileCurrent` is strengthened from serving connections to
  all that have passed the first ownership check (`OwnedSinceHandshake`), with
  the revisions bounded by the current one (`RevisionsSeen`): a change of
  ownership always raises the revision, so an equal revision vouches for the
  answer. `GatewayRevisionVouches` says that by itself and for ever: whoever finds a
  revision again finds the rooms owned under it. `NoStaleForgotten` and
  `RestartMissesNobody` need that a closer that is not running holds nothing
  (`Settled`) and that a registered connection is in the table or somebody's
  concern (`Registered`).
- **Session**: `Exchange` follows one response from the reader through the
  channel and the writer onto the wire. `Delivered` says that what is accepted is in
  the topic and that nothing sent later is anywhere yet, so that whatever a batch
  appends comes behind it.
- **Kafka**: `Offsets` (a worker's position is covered by what was handled),
  `OneOwner` (members of the current generation share the partitions),
  `InStep` (who may still commit stands at the committed offset), `AtWork` and
  `Published`. `CommitsAdvance` follows from `InStep`, `KafkaNoSilentLoss` from
  `Offsets`. An evicted gateway does no harm because its position is covered too and
  its commits are refused. `Shown` ties what a gateway shows to its plan and to the time
  of its generation; with `OneOwner` two gateways of the current generation cannot show
  the same partition. `Member` says how far kafka-go and `Consume` can be apart: while
  the generation is not over, or a worker kafka-go knows of is at work, the group is
  still in it. With `Current` (before the first fault nobody is left behind) it gives
  `OwnersDisjoint`. `Once` says that before the first fault or stray what is handled is
  below the committed offset or in the hands of a worker that is about to commit it;
  that worker is not a late one (`LateIdle`), so the group waits for it, and by `InStep` and
  `OneOwner` it is the only one of its partition, hence
  `NoNeedlessRedelivery`. `KafkaStoppedForGood` is the safety half of `StopWithdraws`:
  ready means consuming, only a cancelled consumer is over (`ReadyOrOver`), and nothing
  revives it (`OverStays`).
- **Route leases**: for `InSync`, what a publisher has in `published`, `next` and `todo`
  at each point of a round covers the leases in its name, and an unchanged revision
  means unchanged partitions; for `LeaseKept`, a lease outlives the time until the
  next tick at which its renewal is due.
- **Local gateway**: `Tight`, the level of a bucket is exactly what the strictest
  window of past grants leaves: no more gives `GrantsWithinRate`, no less gives
  `DropsJustified`. `OneConsumer`, the flag admits one `Consume`, and the message in
  hand belongs to it.

The refinements, each for every value of the constants:
- *Room implements Broadcast*: see above.
- *The consumer group implements OrderedBus* (`KafkaImplementsBus`). A worker's position
  is covered by what was handled (`Offsets`), so whatever it hands over next, also for
  the second time and also from an old generation, has no unhandled predecessor.
- *Every gateway of the group implements RoomOwnership* (`KafkaImplementsOwnership`).
  A step of the group is, for each gateway, a step of its own RoomOwnership, a restart
  of its process, or nothing: other gateways, the broker and kafka-go do not touch what it
  shows.
  `Gateway` extends that same module, so what it assumes of its consumer is what a
  member of the group does. Three differences remain: a restart is not a step of
  `Gateway` (all sessions end with the process), the two steps of `Close` come only where
  Shutdown calls it, and `Gateway` speaks of rooms where the group speaks of partitions (a room is
  owned when the partition it hashes to is).

Only model-checked: everything under fairness (`StaleSessionEnds`,
`ShutdownCompletes`, `DrainEndsSessions`, `ReconnectPossible`, `ErrorsResolved`,
`SessionEnds`, `EveryDanmakuHandled`, `StopWithdraws`, `StaleOwnersLetGo`, `FormerOwnerForgotten`,
`OwnerReached`, `AcceptedIsHandled`), which is out of the prover's reach. Of
`StopWithdraws` the part without fairness is proved. `ImplementsOwnership` spells out
`BusSpec` for all gateways at once, because TLC does not check a conjunction of
specifications quantified over a constant set.

## 5. Not modelled

- Metrics, logging, configuration, `/healthz` and the load test hold no state the
  properties depend on; `cmd/server` only calls Shutdown.
- Validation and sensitive words are pure predicates over text and appear as
  choices: the kind of a Kafka message, the response to a frame.
- The hash from rooms to partitions: pure, and one function of kafka-go serves
  producer and `OwnsRoom`. Partitions added to a topic in operation are not
  handled by the code beyond the next generation's metadata.
- The rounding of `float64` in the rate limiter, and the growth of its map of
  buckets, for which the code names no limit.
- The monitor's first read of the revision after a long delay (listed as a hazard).
- Whether `Room.Publish` could block: the sends are one action, see Room.
- Clients: which gateway they try, when they reconnect, and what they send again.

## 6. Plan

What could follow: the way of one danmaku to a reader in one composition, an
`OrderedBus` whose handler publishes to a `Broadcast`, with redelivery counted; from
`OwnedWhileCurrent`, `OwnersDisjoint` and `KafkaImplementsOwnership`, that a room has
sessions on two gateways only while one of them is stale, and not for good; and
`RouteLease`'s `SetOwnership` as a refinement of the same `RoomOwnership`.
