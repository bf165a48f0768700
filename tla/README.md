# R-Type: a verification project

TLA+ models of the R-Type server and client (a multiplayer shoot-'em-up in C++), checked
with TLC, and theorems about them proved with TLAPS. Every definition is
translated from the source under `src/`; `PROJECT.json` names the lines of each
under `map`.

- [1. The system](#1-the-system): components, state, operations, what is hard
- [2. The modules](#2-the-modules): what models what
- [3. The runs](#3-the-runs): what is checked, bounds, fairness
- [4. The proofs](#4-the-proofs)
- [5. Where the code disagrees with itself](#5-where-the-code-disagrees-with-itself)
- [6. Not modelled](#6-not-modelled)
- [7. Plan](#7-plan)

To run: `tlc -config MCSessions.cfg MCSessions`, and likewise for every `.cfg`
(its module is named in `PROJECT.json`, `runs`); `tlapm RegistryProofs.tla`, and
likewise for `RegistryArraysProofs`, `WalkProofs`, `SessionsProofs`, `GameWorldProofs`,
`LinkProofs`, `ClientProofs` and `FlightProofs`.

## 1. The system

The server (`src/src/main.cpp`) is one process with two threads. The main thread
runs an `asio::io_context`: all TCP and UDP handlers. A second thread, the
game thread, runs `GameServer::gameLoopThread`: a tick every 16 ms. Clients
connect over TCP (CONNECT, DISCONNECT and notices) and play over UDP (inputs one
way, entity spawns, updates and destructions the other way).

| Component | State | Operations | Talks to |
|---|---|---|---|
| **ECS registry** (`Registry.hpp`, `HybridArray.hpp`) | next id, free list, alive counter, one sparse array per component type | register, spawn, add/remove component, kill | called by the game world |
| **Connection layer** (`Server.cpp`) | list of sessions, next client id, `ClientInfo` per session, pending reads | accept, CONNECT, DISCONNECT, failing read, broadcast, UDP dispatch by token | calls the game world's hooks; sends to clients |
| **Game world** (`GameServer.cpp`) | registry, `_playerEntities`, `_enemyEntities`, `_bulletEntities`, next network id, spawn timer | hooks: connected, UDP ready, disconnected, input; tick: spawn, lifetimes, movement, collisions, broadcast | reads the sessions, sends UDP |
| **Client** (`GameClient.cpp`) | connection flags, token, table of entities by network id | connect, sendInput, update, disconnect | the server, over TCP and UDP |
| **Protocol** (`Protocol.cpp`, `Protocol.hpp`) | none | parse and serialise messages | used by server and client |
| **Component arrays** (`HybridArray.hpp`, `SparseArray.hpp`, `PackedArray.hpp`) | dense or sparse vectors, an index map, a count | insert, erase, get, get_ref | the registry uses HybridArray; the others are not used |
| **Zipper** (`Zipper.hpp`) | containers, index, end | begin, next | walks over HybridArrays; not used by the server |
| **Front ends** (`render_client.cpp`, `interactive_client.cpp`, `client_test.cpp`) | window, input | draw, read keys | the client |

What is hard, and what makes each component correct:

- *Registry.* Ids are reused as soon as they are free and nothing checks that a
  killed entity is alive. Correct: a free id is never held, no id is lost, the
  counter is exact, a reused id starts without components.
- *Connection layer.* Sessions come and go in any order; a departure can be
  handled twice (the DISCONNECT handler, then the read that fails on the socket
  it closed); UDP packets overtake and outlive the TCP session; the player id is
  a truncated connection number. Correct: the limit holds, there is one entity
  per player, an input steers only its sender's ship, clients hear of exactly
  what is there, and a client gets nothing after its farewell.
- *Game world.* Hooks run between (and, unsynchronised, inside) the steps of a
  tick, while lists of entities to destroy are being worked through and ids are
  being reused. Two bullets may hit one enemy in one tick. Correct: tracking
  containers and registry agree, a handle keeps naming the entity it was made
  for, nothing is destroyed twice, network ids are unique, damage is accounted
  for, the clients' view adds up to the world, bullets go away.
- *Geometry.* Collisions are looked for once a tick, the clamp for players is
  applied to everything. Correct: no bullet jumps over an enemy, enemies leave.
- *Client.* It parses whatever one read returns as one message, and never sends
  the first UDP packet it means to send; batches, spawns and destructions may be
  lost, repeated or reordered. The server sends the world to a new client from
  one thread while the other destroys parts of it. Correct: no wrong token, a
  way into the game, nothing shown that was never true, the whole world on an
  orderly network.
- *Component arrays.* Swap-remove, growth on reading, a count kept by hand, and
  loops whose body changes what they walk over. Correct: the arrays hold what
  the registry says, and a loop misses nothing that stays.

The full list, each hazard at its line with the properties that watch it, is in
`PROJECT.json` under `hazards`.

## 2. The modules

```
IdAllocator <=refines= Registry <=refines= RegistryArrays ---- SparseArray, HybridArray,
                          |                     |              PackedArray, Zipper
                    EntityRegistry        RegistryArraysProofs
                          |                 RegistryProofs         WalkProofs
Arena <=refines=== GameWorld ---- GameWorldProofs
  |
  '---(INSTANCE)-- Replica ---.
                               Client ----- ClientProofs      Sessions, SessionsProofs
                   Link ------'                 |             Flight, FlightProofs
                     '------- LinkProofs -------'             WorldRace
```

Operators with a suffix (`kill_entity_IdLost`) are mutated forms of the operator
they are named after: a plausible bug that the property beside it in
`PROJECT.json` (`mutants`) must be able to see.

**EntityRegistry** has the registry as a value: a record `[next_id, free_ids,
alive_count, storage]` and one operator per member function. `storage[c]` is the
function from entity ids to components that `HybridArray<C>` implements; its
vector of optionals and its growth are in RegistryArrays. **Registry** puts the value
in a variable, with one action per call; callers kill only live entities (the
guard of `Kill` is the precondition the code leaves to its callers; that
GameWorld's destructions keep it is what `DoomedAreLive` and `TrackingExact` are about). **IdAllocator** is what the registry promises:
`Acquire` hands out an id nobody holds, `Release` takes one back, and the count is
of those held. Registry implements it under `held <- live, count <-
reg.alive_count`.

**RegistryArrays** adds the arrays as they are in memory: `arrays[c]` holds, for
one component type, a HybridArray, a `sparse_array` and a PackedArray (modules
**HybridArray**, **SparseArray**, **PackedArray**: a vector of optionals is a
sequence, `nullopt` a value of its own, and ids and positions count from 0). The
registry uses the first only; the other two have the same purpose and get the
same calls. `Touch` is `get_ref`, which grows the array it reads. `WalkBegins`
and `WalkMoves` are a range-for over `indexed_zipper` (module **Zipper**): the end
is fixed at the beginning, the arrays are read when the iterator moves, and
between two moves the body of the loop may make any call of the registry.
`loop.joined` and `loop.stayed` remember which entities had all the components
at some time, and which always, since the loop began.

**Sessions** is `Server.cpp` plus the player hooks of `GameServer`, one action
per completion handler: `Accept`, `HandleConnect`, `HandleDisconnect`,
`ReadError`, `UdpPacket`. All of them run on the one thread of `io_context`, so
each is atomic. `_sessions` is pushed in ascending order of client id, so the set
`sessions` and `Min` stand for the vector and the first match in it. `reader`
is the pending `async_read_some`: after DISCONNECT closes the socket it is
"closed" and still completes, with an error. `sent[c]` is all that was handed to
`Session::send`; `announced[c]` are the network ids the client behind an
endpoint was told of and not told to forget; `steeredBy` remembers whose input
last moved each ship. A UDP packet may carry any token its sender was ever
given, at any time, also after it left: delay, duplication and reordering of
inputs are all behaviours of `UdpPacket`. Token 0, which a session has until it
authenticates, is not among them: `GameClient::sendInput` sends nothing before the client is
connected. Three things are assumed by
constants, and named: `FreshTokens` (a drawn token is not in use; the code does
not check), `Reauthenticate` (clients of the repository CONNECT once), and
`UINT8` (the width of the player id). Clients send nothing after DISCONNECT.
The module treats the entities of the world as their network ids only.

**GameWorld** is the world of `GameServer` on an `EntityRegistry` with the nine
component types. The I/O thread has the actions `onPlayerConnected`,
`onPlayerUdpReady`, `onPlayerDisconnected` and `spawnBullet`; the game thread
goes through `updateGame` and `broadcastWorldState` in phases: `SpawnPhase`,
`updateLifetimes`, `destroyEntity` (once per expired entity), `StartCollisions`,
`TestBullet` (once per bullet), `EndCollisions` (sort and unique),
`destroyEntity` (once per doomed entity), `broadcastWorldState`. Any hook may
come between any two of them. Positions are left out: a bullet may hit any one
enemy or none. Cooldown is left out too: a ready player may always shoot. A
bullet that a hook adds during the collision pass is not tested in that pass.
The code iterates the live vector, which with a concurrent push is undefined;
see WorldRace and section 6.

**Arena** is what GameWorld promises, by network id and with nothing of how it
is stored: `Enter`, `Leave`, `Hit`, `Expire`, `Destroy`. GameWorld implements it
(`ArenaSpec`) with `World` for `arena`: an entity has the kind and health its
components say, and a bullet is spent when it is on a list of the doomed.
That is proved, not only checked, and Replica and ClientProofs take the world for
an Arena: what they show of the client's table holds beside the server's world.

**Replica** is the client's side of UDP: `table` is `GameClient::_entities`, and
each packet type has its handler. It takes Arena as the world the client looks
at, and adds who sends what, and from which thread: hooks run one after the
other on the I/O thread (`Free`), `FirstPacket` begins to send the world and
`SnapshotRead`, `SnapshotSend` send it entity by entity, and the game thread
(`SpawnEnemy`, `Collide`, `DestroyEntity`, `BroadcastWorldState`) may come between
any two of those. `ordered` is fixed in the initial state: an ordered network
keeps packets in their order and loses none; on the other kind `down` is the
set of packets that may still arrive, any number of times and in any order, and a
full one forgets some packet. One client is watched; others act on the world
and are never heard of by name.

**Link** is one TCP connection: `GameClient::connect()` on one side, `Session` with
its write queue and its reading of lines on the other. Messages are sequences of
words, `KEY=VALUE` with the keys in the order of a `std::map`; a read of the client may
bring any beginning of the stream, the last word cut within its value. Nothing
is kept of usernames and reasons. A line that comes to the server in two reads
is dropped and leaves the session `deaf`. Another player's departure is one notice here;
that a clean one brings two (section 5) adds only a second of the same. `as_short` is the width of a port.

**Client** composes the two: `HandleLine` answers CONNECT and puts the ship into
the world in one step of the I/O thread, players who come and go are announced
over both, and `Frame` is an iteration of the render client's loop, whose inputs
carry the first UDP packet (the one of `connect()` is never sent).

**Flight** is the geometry: one player, its bullets, one enemy, and the code's
speeds, sizes, limits, lifetime and cooldown. Steps of 50 ms and half pixels
make every number whole, so there is no rounding in it. A tick is one action
with the same order as `updateGame`. A ship starts 100 pixels right of the one with
the player id before it, so a high id starts off the screen; `PlacesAssumption`
lets it, and the proofs cover it, while the run has one start on the screen.

**WorldRace** takes the creation of an entity apart into loads and stores of
`_next_id` and `_nextNetworkId`, in two threads, without a lock.

## 3. The runs

| Run | Kind | Instance | Shows |
|---|---|---|---|
| Registry | pass | 2 component types, 2 values, 3 ids | allocation, freeing and reuse in every order; refinement of IdAllocator; arrays in memory hold what the registry says; a loop misses nothing that stays |
| Sessions | pass | 3 connections, limit 2, one CONNECT each, 3 tokens (symmetric) | joins, refusals, inputs, clean and broken departures in every order |
| GameWorld | pass | 2 players, 5 entities, 1 s ticks, spawn interval 1..2, lifetime 2, batch 5 | hooks between any two steps of a tick; refinement of Arena |
| GameWorldTime | pass | as above with 3 entities, ticks of 1 or 2 s, the code's intervals 3..5 and lifetime 3 | every bullet goes away (liveness) |
| Client | pass | 3 network ids, 2 packets in flight, UDP ports 4243 and 41000 | connect() and its replies in any portions, the first UDP packet, the client's table on an ordered and on a lossy network; liveness |
| Flight | pass | ticks of 50 ms, ship goes left or stands, one bullet, two enemy rows | no tunnelling; an edge enemy cannot be hit |
| ClientGetsIn | violation | whole messages, port 4243 | an accepted client is turned away |
| SessionsLeaveTwice, SessionsPlayerIdWraps, GameWorldSmallBatch, FlightEnemyStays, WorldRace | violation | one property each | section 5 |

What the properties say is in the comment above each of them. The most
important ones:

- Registry: `FreeAndLivePartitionIds` (no id both free and held, none lost),
  `AliveCountIsExact`, `OnlyLiveEntitiesHaveComponents`, `AllocatorSpec`;
  `SparseHoldsStorage`, `PackedHoldsStorage`, `WalkVisitsWhatStays`.
- Sessions: `EntitiesMatchSessions` (one entity per authenticated session, by
  either way out and after being removed twice), `AnnouncedMatchesWorld` (what
  early and late clients were told adds up to the same world),
  `InputsSteerOwnShip` (late packets included), `FarewellIsLast`.
- GameWorld: `TrackingExact`, `HandlesKeepTheirKind` (a handle never names the
  reused id of something else), `DoomedAreLive` (nothing is destroyed twice),
  `ViewMatchesWorld`, `DeadEnemiesAreDoomed`, `DamageIsPaidFor`,
  `BulletsExpire`, `ArenaSpec`.
- Client: `ConnectedKnowsToken` (however the stream is cut; it rests on
  `udp_port` sorting after `token`), `ShownWasTrue` (on any network),
  `OrderedClientShowsWorld` (on an orderly one, and of entities that are gone
  only those that went while they were being sent), `ConnectReturns`,
  `FirstPacketArrives`, `NoBlackScreen` (the symptom of TROUBLESHOOTING.md),
  `HealthCatchesUp`.
- Flight: `NoTunnelling`, `EdgeEnemyIsOutOfReach`.

**Bounds.** `MaxId = 3`: a free list with an order, a reused id beside a held
one, and a swap-remove from the beginning, the middle or the end of a dense
array. Component types and values are symmetric; the one temporal property of
that run, `AllocatorSpec`, is a safety property of the ids, which symmetry does
not touch. `MaxClients = 3` with
`MAX_PLAYERS = 2`: two players and a third who sees them come or go. The limit
counts *connections*, authenticated or not, and with three connections
`Cardinality(sessions) > MAX_PLAYERS` is reached, so the refusal for a full
server happens. `MaxConnects = 1` allows one try each, also a refused one.
`MaxEntities = 5` counts entities *ever* created: two players, two bullets and
an enemy, or bullets on ids of killed enemies. That is enough for two bullets to
kill one enemy (50 health, 25 damage) in one tick, and for a player to reuse the
id of an entity destroyed in the same pass. A third bullet on the same dead enemy
also fits (one player, one enemy, three bullets). The batch of 5 holds all of
them; the small-batch run is about when it does not. `Dts` in seconds: a tick
takes milliseconds, and a coarser one only reaches more states at the boundary
of lifetimes in fewer steps. When the bound on entities is reached an enemy that
is due stays due, so the game thread goes on ticking. In Flight one bullet at a
time is enough for properties of a single bullet and a single enemy; the rows
make one enemy in the ship's line of fire and one outside it. `MaxIds = 3` in
Client is the client's own ship, another player or a bullet, and an enemy, in any
order of arrival; `MaxInFlight = 2` is what it takes for two packets to be
swapped, or for an old one to come after its successor. On the ordered network the bound
makes a sender wait; on the other it makes the network lose something. The port
41000 does not fit a short, 4243 does.

**Fairness.** `WF_vars(GameThread)` in GameWorld and Flight: `gameLoopThread` is
`while (_gameRunning)` with a `sleep_for` in a thread of its own, and every step
of a tick is always enabled, so weak fairness says no more than that the thread
is scheduled. Nothing is assumed there of clients or of the I/O thread. In Client the
fairness is that of four loops without end: the handlers of `io_context::run` and
`connect()` itself (`WF` of `Handshake`), the frames of the client's loop (`WF` of
`Frame`), the hook of the first packet (`SF` of `HandleFirstPacket`) and the end
of each tick (`SF` of `TickEnds`). The last two are strong because another sender may
take the last place in `down`, which exists in the model only. `SF` of
`ReceiveNews` is the assumption on the network: a batch that says how the world
is now, sent again and again, is at some time received. Messages to the client
are handled in the order the socket has them when the network is ordered.
Single losses stay possible for ever. `BulletsExpire`
is the liveness property of the world; it holds without any help from hits.

**Deadlock** is checked for GameWorld, Flight and Registry. Sessions stops when
all connections within the bound have come and gone, so its cfgs say
`CHECK_DEADLOCK FALSE`; so do those of Client, where a client that was turned
away and a world out of network ids can stop, and so does WorldRace when both threads have created
what the bound allows.

## 4. The proofs

The proof modules hold for every value of the constants, under the named
assumptions of the modules they extend.

**RegistryProofs** (any set of component types, any bound on ids). The inductive
invariant is `IInv == TypeOK /\ Allocation /\ AliveCountIsExact /\
OnlyLiveEntitiesHaveComponents`, where `Allocation` says that the free list has
no duplicates and that free and live ids partition `0..next_id-1`. None of its
parts is inductive alone: that `kill_entity` adds no duplicate to the free list
needs the killed id not to be in it; that the counter, which saturates at zero,
stays exact needs it to be exact and the id to be live; that a new entity starts
without components needs its id not to be live and the components to be on live
ids only. One lemma per member function shows that it preserves `IInv`; the
theorems follow:

| Theorem | Statement |
|---|---|
| `TypeCorrect` | `Spec => []TypeOK` |
| `FreeListSound` | `Spec => [](FreeListHasNoDuplicates /\ FreeAndLivePartitionIds)` |
| `CountExact` | `Spec => []AliveCountIsExact` |
| `NoInheritedComponents` | `Spec => []OnlyLiveEntitiesHaveComponents` |
| `Refinement` | `Spec => AllocatorSpec` |

**RegistryArraysProofs** (as above, and any set of values without `nullopt`). The
invariant is `IInv` with `ArraysHold`: for every registered type the three arrays
agree with the function `reg.storage[c]` (`HybridOK`, `PlainOK`, `PackedOK`). Each
operation of each array has a lemma that it keeps the agreement. The one with a
twist is `PackedErase`: the moved entity is at the end of the dense array, so the
erased place, the moved one and the rest are three cases, and they must be told
apart by the map being exact in both directions.

| Theorem | Statement |
|---|---|
| `ArraysImplementRegistry` | `ArraysSpec => Spec`, so every theorem of RegistryProofs holds of the arrays too |
| `SparseCorrect` | `ArraysSpec => []SparseHoldsStorage` |
| `PackedCorrect` | `ArraysSpec => []PackedHoldsStorage` |

**WalkProofs** proves `WalkCorrect == ArraysSpec => []WalkVisitsWhatStays`, assuming
there is at least one component type. `WalkInv` says that what has stayed lies
below the end of the walk and, up to the index, has been seen; that what has
stayed has all components now; and that no array grew beyond the ids. That the
iterator stops at the first index where all arrays hold something needs a least
element of a set of naturals, which the library's `WFMin` and
`NatLessThanWellFounded` give without induction.

**LinkProofs** and **ClientProofs** (any ids, token and ports, any number of
network ids and of packets in flight, reads that end anywhere or not).

| Theorem | Statement | Argument |
|---|---|---|
| `ConnectedKnowsTokenAlways` | `Spec => []ConnectedKnowsToken` | `StreamOK`: only an accepted session queues CONNECT_OK, once; when it is at the front of what is unread, its four words are whole there and no word behind them has the key of one of its parameters. A read is a beginning of that, cut at most in its last word; if it has `udp_port` it has more than the token (`TokenTaken`). That the token comes first is computed from the order of keys (`MessageWords`) |
| `ShownWasTrueAlways` | `Spec => []ShownWasTrue` | `AllTrue`: the packets in `down` and the one being sent are *true messages*: what they say of an entity was so once. Steps of the world satisfy `Fades` (no id again, no other kind, no more health), under which true messages stay true (`TruthStays`), so neither order, loss nor repetition matters |
| `OrderedClientShowsWorldAlways` | `Spec => []OrderedClientShowsWorld` | `NewsOK`: before the first packet nothing is under way (which needs `LinkOK`: the ship enters before the client is connected); after it, every announced entity is in the table, in `down`, in `packet` or in `unsent`; and everything shown or about to be shown that is gone has its ENTITY_DESTROY behind it, or is in `raced`. With nothing left to come that is the property |

**SessionsProofs** (any number of clients, any limit, any tokens). `Fresh` in the
table stands for `NoWrap /\ FreshTokens`.

| Theorem | Statement | Argument |
|---|---|---|
| `TypeCorrect` | `Spec => []TypeOK` | inductive together with `Listed`: the sessions in `_sessions` are those with a read on an open socket, and ids not given out yet name nobody |
| `PlayerLimit` | `Spec => []AtMostMaxPlayers` | players are among the listed sessions; CONNECT succeeds only while those number at most the limit, its own included, so one more player is within it. `Limit` and `Listed` make the inductive `IInv` |
| `EntityPerPlayer` | `Spec => []EntitiesMatchSessions`, assuming `NoWrap` | `Matching`: a session's player id is its own id; `playerEntities` is injective, its domain is the players and its range `spawned`, all below the next network id. A second removal of a session (`ReadError` after `HandleDisconnect`) finds no entry and changes nothing |
| `FarewellComesLast` | `Spec => []FarewellIsLast` | `Farewells`: a session that was answered with a farewell is no longer listed, so no broadcast and no handler reaches it |
| `OwnerSteers` | `Spec => []InputsSteerOwnShip`, assuming `Fresh` | `OwnTokens`: every CONNECT_OK sent carries the token its session still has, authenticated or not any more, and no two have the same, so a late packet finds the session it was meant for or none; `OwnShips` follows from that and from `playerEntities` being injective (`Matching`) |
| `EveryoneIsAnnounced` | `Spec => []AnnouncedMatchesWorld`, assuming `Fresh` | `Told`: a client behind an unknown endpoint was told of nothing; a known one of all known ships, and of nothing outside `spawned`. The step that counts is the first packet, which tells both sides |

The last two are parts of one invariant, `Owned == IInv /\ Matching /\ Farewells /\
Ownership`, which was checked with TLC before it was proved.

`NoWrap == MaxClients < UINT8 /\ ~Reauthenticate` says that
player ids do not repeat and nobody authenticates twice. Without it `EntitiesMatchSessions`
is false (see `PlayerIdsDistinct` below for the first half; a second
CONNECT makes `insert` keep the old entity and orphans the new one).

**GameWorldProofs** (any players, entities, batch sizes, intervals and lengths of
tick). One inductive invariant carries all of it, `Inv == WorldOK /\ DoomOK /\
TimersOK /\ ViewOK`:

- `WorldOK`: free and live ids partition those given out and the count is exact;
  each live entity has the components of one kind (`IsPlayer`, `IsEnemy`,
  `IsBullet`) and the container of that kind names it, once; network ids are below
  the next one and differ. The parts need each other. That a new entity
  disturbs no old one takes the first, that a destruction leaves nothing behind in a container takes
  the second.
- `DoomOK`: what is on the list of the doomed, phase by phase. That no hook
  takes a doomed entity away rests on the doomed being enemies and bullets while
  hooks remove players only; that nothing is destroyed twice rests on `SortUnique`
  (`Sorted`) and on the bullets still to be tested being none of the doomed.
- `TimersOK` and `ViewOK`: the timers' ranges; ready players were told of every
  enemy, bullet and known ship, others of nothing.

Hooks and steps of the tick change the world in two ways only, so the lemmas
`Created` and `Killed` say once what a creation and a destruction do to the
registry, and `Entered` and `LeavesOK` what they do to `WorldOK`; `Sorted` and
`Removed` are about `Ascending` and `Without`, the sorting and the erasing of lists.
`Ascending(S)` chooses an ascending function; that there is one needs no induction,
because the inverse of the rank (how many of the set are no larger) is one.

| Theorem | Statement |
|---|---|
| `WorldInvariant` | `Spec => []Inv` |
| `WorldTypes`, `TrackingIsExact`, `HandlesKeepKind`, `DoomedLive`, `ViewsMatch`, `DeadAreDoomed` | `Spec => []P` for `TypeOK`, `TrackingExact`, `HandlesKeepTheirKind`, `DoomedAreLive`, `ViewMatchesWorld`, `DeadEnemiesAreDoomed` |
| `NetworkIdsAreUnique` | `Spec => []NetworkIdsUnique /\ IdsNeverReturn`: live entities differ in their ids, and an entity has the id it had before a step or one from the counter on, which never falls; so an id that is gone stays gone |
| `BatchCarriesTheWorld` | `Spec => [](Cardinality(Live) <= MAX_BATCH_ENTITIES => BatchCoversWorld)`; without the condition it is false (section 5) |
| `DamageIsAlwaysPaidFor` | `Spec => DamageIsPaidFor`: of all actions only `TestBullet` changes the health of an entity that stays, and only an enemy's; a player's never changes |
| `WorldIsAnArena` | `Spec => ArenaSpec`: under `arena <- World` a creation is `Enter`, a player who goes is `Leave`, an expired or doomed entity is `Destroy`, the beginning of `expire` is `Expire`, a test that hits is `Hit`, and the rest are stutters |

**FlightProofs** (any lengths of tick, rows, starts and number of bullets). The
invariant is `TypeOK` with `ClearOfEdge` (every bullet is at least `BulletOffset`
from the left edge: it starts that far right of a ship and never goes back) and
`Spaced` (shots are a cooldown apart in age, so a bullet is never taken for the one
before it, one step older).

| Theorem | Statement |
|---|---|
| `TypeCorrect` | `Spec => []TypeOK` |
| `EdgeIsSafe` | `Spec => EdgeEnemyIsOutOfReach` |
| `BulletsDoNotPass` | `Spec => NoTunnelling`, assuming `ShortTicks`: ticks of one step of 50 ms. In one such tick a bullet and an enemy close by 27.5 pixels and their widths sum to 48; ticks of two steps are too long, and nothing in the code keeps a late tick short |

**ClientProofs** also has `TypeCorrect == Spec => []TypeOK`: no message names
entity 0, as a snapshot is sent only after the client's ship was made
(`QuietOK`, `ConnectedOK`), and no ship is unmade.

With that every safety invariant, action property and refinement that a passing
run checks is also a theorem. Only model-checked: liveness (`BulletsExpire` in GameWorld;
`ConnectReturns`, `FirstPacketArrives`, `NoBlackScreen` and `HealthCatchesUp` in
Client), which needs `ENABLED` and fairness and is beyond the prover; and the runs that find a
violation. What is
defined by a fold or a recursive function over data cannot be proved for every
input either, as the library's induction theorems take operators as parameters.
No module that holds theorems reaches a `RECURSIVE` operator of the project.

## 5. Where the code disagrees with itself

Each is a run whose property states what a comment, a document or the client
says, and which TLC finds violated.

1. **A departure is announced twice** (`LeaveAnnouncedOnce`, `Server.cpp:144`).
   The DISCONNECT handler broadcasts PLAYER_LEAVE; the read that fails on the
   closed socket does it again.
2. **An accepted client is turned away** (`AcceptedClientGetsIn`,
   `Server.cpp:86`). Broadcasts also go to sessions that have not been answered
   yet; the client takes the first message for the reply and gives up, while the
   server has its ship in the world. Also a notice read together with CONNECT_OK
   replaces the client's id by another player's.
3. **Player ids repeat** (`PlayerIdsDistinct`, `Server.cpp:55`). The id is the
   number of the connection cut to eight bits, while the documents say 1 to 4.
   The run shows it with 3 values instead of 256.
4. **Batch updates leave entities out** (`BatchCoversWorld`,
   `GameServer.cpp:142`). With more entities than a batch holds the highest ids
   are never sent. The run has a batch of 2 instead of 10.
5. **Enemies never leave** (`EnemiesLeave`, `GameServer.cpp:115`). The clamp for
   players keeps enemies at x = 0, so `x < -100` is never true; and there no
   bullet reaches them (`EdgeEnemyIsOutOfReach`).
6. **Two spawns, one network id** (`SpawnIdsUnique`, `GameServer.cpp:538`). Both
   threads increment and re-read `_nextNetworkId` without a lock.

## 6. Not modelled

- *Data races beyond the two counters.* Iterating a vector another thread grows,
  or using a reference `get_ref` of another entity has invalidated, has no
  bounded set of outcomes; the models let the threads meet between steps (in
  Replica also within the sending of a snapshot), and WorldRace shows that even
  plain integers go wrong inside them.
- *Two lines in one read.* A line after DISCONNECT in the same read would still
  be handled by the code; no client of the repository sends one.
- *Failing writes and exceptions of the network library.* A failing write is
  followed by the failing read of the same socket; an exception ends the thread
  it leaves.
- *Start and stop of the game loop*: a flag and a join.
- *Positions and colours in the client*, byte layouts, `validatePacket`: copies
  of data without a decision of their own.
- *`ENTITY_UPDATE`*: the client has a handler, nothing sends it.
- *Unused code*: the plain `zipper` and the systems of the local prototype, which need
  an `operator[]` that HybridArray does not have; `add_system`; `NetworkECS`, a stub.
- *Front ends*: drawing, keyboard, manual tests. `InteractiveClient::run` repeats
  the handshake of `GameClient::connect()` and never reads UDP.

## 7. Plan

Done: the registry with its allocator, its arrays and the walk; the client with
its two connections; Sessions; GameWorld with its refinement of Arena; Flight;
all with their safety properties proved. WorldRace.

Left, in this order:

1. Proofs about the composition: that the world under Client is an Arena
   too, and what holds of an Arena whatever implements it (`Fades` of ClientProofs),
   so that it holds of GameWorld by the refinement.
2. For the five liveness properties, the safety half of each as a theorem: what
   is true of a state in which the wait goes on.
3. A connection that breaks while the handshake or the game goes on: failing
   writes, and the ship leaving the world under the client.
