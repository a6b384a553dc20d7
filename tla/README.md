# Verification of NBodySimulation

The repository holds two programs. The *simulation* (`src/Source/NBodySimulation`) moves bodies under gravity in the
plane: every tick of an Unreal actor computes the forces either between all pairs or, with a quadtree, by the
Barnes-Hut method. The *link to the IDE* (`src/Plugins/Developer/RiderLink`) connects the editor to Rider: it
replicates reactive entities over a socket, with the C++ half of the RD protocol. This directory models both in TLA+,
checks the models with TLC on small instances and proves the most important invariants with TLAPS.

## Inventory

| Component (source) | State | Operations | Meets others through | What is hard | What must hold |
|---|---|---|---|---|---|
| Quadtree (`Objects/QuadTree`) | nodes with box, body pointer, children, flags, mass, centre | `Insert` (recursive), `SubDivide`, getters | called by the actor once per body and tick; wraps bodies at the root | bodies on split lines, on the edge, at one point; bodies lost at a later split; 0/0 | which bodies the tree holds; mass and centres agree with them; flags agree with pointers |
| Bodies (`Objects/BodyEntity`) | position, velocity, mass, copied parameters | `AdjustPosition`, `TryToApplyExternalForce` | read by all force tasks, written by their own | NaN, zero distance, stale parameters | NaN stays where it arose; positions in the scene |
| Simulator (`Actors/BodySimulator`) | bodies, tree, transforms, simulation type | `Tick`, `ConstructTree`, both force computations, `MoveAllBodies` | engine ticks; `ParallelFor` tasks; instanced mesh | interleaved tasks, type switched between ticks | each body pulled by the right others, as often as it should be; tick ends |
| Send buffer (`wire/ByteBufferAsyncProcessor`) | three queues, three counters, state, pause balance, three mutexes | `put`, `pause`, `resume`, `acknowledge`, `stop`, the async thread | any thread puts; the wire's thread pauses and resumes | interleavings, failed sends, lost notifications, stop with a timeout | the seqn of a package; nobody blocks; the thread ends |
| Socket wire (`wire/SocketWire`) | socket, received seqn, partial message, timestamps | connect, send, read, acknowledge, dispatch, heartbeat | TCP; the send buffer; the message broker | lost connections and acknowledgements, duplicates, races at a reconnect | nothing unread is forgotten, order, no gap |
| Package stream (`wire/PkgInputStream`) | buffer and its fill | `read`, `try_read` | between wire and messages | package boundaries | messages begin where messages begin |
| Message broker (`protocol/MessageBroker`) | subscriptions, messages that wait for one | `dispatch`, `advise_on` | receiver thread and scheduler thread | messages before the subscription, a closure between two locks | order per entity, nothing lost |
| Lifetimes (`rd_core_cpp/lifetime`) | actions, nested definitions, terminated flag | `add_action`, `remove_action`, `bracket`, `terminate`, `SequentialLifetimes` | everything is bound to one | adding while terminating, two terminations, order | every action runs once, in reverse; what is nested ends with its parent |
| Signals, properties, collections (`rd_core_cpp/reactive`) | listeners, value, contents | `advise`, `fire`, `set`, `view` | called re-entrantly | listeners that change the listeners | what a listener sees |
| Reactive entities (`impl/Rd*`, `base/Rd*Base`) | local value, version, pending acknowledgements | local and remote set, put, add, remove | the wire and the broker | concurrent changes on both sides | both sides converge |
| Calls and tasks (`task/`) | tasks by id | `start`, `sync`, answer, cancel | wire, scheduler, lifetimes | answer after the end of the lifetime, a timeout | one result per task, nobody waits for ever |
| Extensions, interning (`ext/`, `intern/`) | queue before the handshake; values by index | `send`, handshake; `intern` | wire | messages before the handshake, a second bind | nothing queued is lost or reordered |
| Schedulers (`scheduler/`, `wire/PumpScheduler`) | a queue of closures | `queue`, `flush` | all handlers | thread affinity | order |
| Plugin: link, log forwarding, game control (`RiderLink`, `RiderLogging`, `RiderGameControl`) | the model of the connection, whether it is alive, the control | connect, disconnect, fire, forward, shutdown | editor thread, wire's thread, log's thread | tasks queued for a connection that is over | no model is replaced in use; alive exactly while connected |
| Other plugin modules (live coding, blueprints, shaders) | none of their own | forwarding | editor thread | - | not modelled |
| Buffers, serialization, identities, utilities, generated model, third party | values only | pure functions | - | - | not modelled |

`PROJECT.json` lists each with its files and says what is modelled; it also lists the hazards, each at its line.

## Modules

`Geometry` is the plane. Coordinates are the representable values of a coordinate, so integers with a *rounding*
halving: this keeps the one thing about floating point that the tree depends on, that a box cannot be halved for ever
and that an odd box leaves an uncovered last row. A position with a NaN coordinate is the one value `NaN`. A centre of
mass is a quotient whose denominator is a variable: zero is the 0/0 of the code and spreads as NaN does.

`QuadTree` is `UQuadTree` under the loop of `ConstructTree`. The tree is a function from paths to nodes; the recursion
of `Insert` never forks, so its stack is one path, `path`, and `call` says whether the top is going down or is on its
way back. Each block of `Insert` is one action: the refusal at the root with its wrap (`Refuse`), entering, storing in
an empty node (`Fill`), `Subdivide` with the body pushed down, the choice of the child (`Descend`), no child accepts
(`Drop`), and the sums after the child calls (`Aggregate`).

`BodyIndex` is the abstract specification of a tree: a set of bodies and a total mass. `QuadTree` has the instance
and the refinement mapping: `held` are the bodies of the leaves, `total` is the mass of the root, and a call is open
while an Insert is active.

`BodySimulator` EXTENDS `QuadTree` with the actor's tick. The forces are tasks of `ParallelFor`, one per body, each
with the list of nodes it has yet to visit; `pull[b][c]` counts how often the mass of `c` has been applied to `b`. The
size of a force is abstracted: a displacement is any of `Steps`, and a velocity is a number or not. `Theta`, distances
and boxes are exact, so which nodes are accepted is the code's decision on the lattice.

`ByteBufferAsyncProcessor` has one action per critical section. `lock` is held over several steps only in `pause` and
`resume` (`LockFree`); queue_lock and processing_lock are those of `process` and `reprocess`. A package is the number
of its `put`. `SocketWire` EXTENDS it with connections and the counterpart's reader, in one direction; the buffer's
own actions are used unchanged, conjoined with what they do to the connection. `rushed` and `read` are history
variables.

`Lifetimes` gives each thread a stack of frames, since an action run by a termination may terminate another lifetime;
what happens under `actions_lock` is one step. `terminate` tests and sets its flag, moves the actions out and runs
them in separate steps, as the code does. Adding to a map that another thread iterates without the lock is undefined
and loses an arbitrary set of actions (`torn`). Lifetime 1 is the one in which a property is viewed.

Above the wire each part is a module of its own, and needs of the wire only what `SocketWire` shows, that messages keep
their order:

* `RdReactive` is what entities share: two ends, and a channel to each. `RdProperty`, `RdMap`, `RdList` and `RdSet`
  EXTEND it with a local change, the message it sends (the handler of `init`) and `on_wire_received`. Both ends change
  the entity at any time. `careless`, `conflict` and `crossed` record uses after which the code promises nothing, or
  says that it does not. `told` and `untold` of the set are history: what the ends have told each other, and what an
  end has removed without telling, as a clear does whose handler reads the set.
* `MessageBroker` is one entity's queue of early messages: `dispatch` under the lock, `advise_on`, and the closure,
  which takes one message under the lock and does the rest without it, step by step: it delivers, looks whether the
  queue is empty, moves the entry out, erases it, and forwards what waited for the other scheduler. A dispatch may come
  between any two of these; `racers` are the messages that came between the last look and the end. What is added to an
  entry that was moved out is erased with it, and a closure queued for it holds an entry that is gone (`stale`).
* `ExtWire` has both ends of an extension with the three states of the handshake (`ExtState`) and the queue before it.
* `RdCall` has the caller's thread, the wire's thread and the thread that ends the lifetime; the last two look at a
  task and set its result in two steps.
* `RiderLink` has the wire's thread, the scheduler's queue, `ModelLock`, the log's thread and the game control.

`MCProtocol` instantiates all of these and explores one at a time: `part` is chosen in the initial state. Their product
would say nothing more, as they share no state.

`QuadTree_proofs`, `BodySimulator_proofs`, `SocketWire_proofs` (with the send buffer), `Lifetimes_proofs`,
`Entities_proofs` (property, map, set), `MessageBroker_proofs`, `Connections_proofs` (calls, extensions, the plugin's
models) and `MCProtocol_proofs` hold the theorems.

## Runs

| Run | Question | Bounds |
|---|---|---|
| `quadtree` | which bodies the tree keeps, its masses and centres, refinement of `BodyIndex`, termination | 3 bodies over 10 points in an 8 x 15 scene, rebuilt from any placement: inner, on first and second split line, in the uncovered row, on the edge, outside, NaN; three bodies make every case of two colliding and a third seeing the result |
| `barnes_hut` | what the force tasks of one tick apply, interleaved on two threads; that the tick ends | 3 bodies over 5 points of a 32 x 32 scene, Theta 0.7: near and far leaves, accepted inner nodes, a starved node, a lost body |
| `ticks` | types, wrapping, NaN and the naive pairs over ticks of changing type, and that no NaN is drawn | 3 bodies, 2 places, 2 displacements, 2 threads, 3 ticks: two to leave the scene and meet, one to see it |
| `send_buffer` | seqns, notifications, blocking, ending | 3 packages; pauses, failures and resumes are unbounded |
| `wire` | what is resent, acknowledged, forgotten, dispatched over breaking connections | 3 packages, 2 connections, either side connecting; 3 connections give the same answer for the safety properties |
| `lifetimes` | which actions run, in which order, what ends with a parent, which value of a viewed property is alive | 2 threads, 3 lifetimes (the viewed one and two values or nested definitions), 1 action or bracket of a user: enough for two terminations, an addition and a firing to meet |
| `protocol` | convergence, order, handshake, answers, connections of the plugin | 2 values, 2 keys, 4 changes, lists of 3; 4 messages; 2 sends and 2 binds of an extension; 3 calls; 3 connections, 2 events: two changes of each end cross, the third connection meets what the first two left |
| `one_term_per_body`, `exclude_self`, `ack_must_be_greater`, `no_broken_message`, `sync_refused` | disagreements between the code and what it says, see below | as above |

`CHECK_DEADLOCK FALSE` is set where the bound on ticks, packages, connections or changes ends a behaviour.

### What the runs show

* The tree holds exactly the bodies strictly inside the scene that are on no split line of a *subdivided* node
  (`HeldExactly`): a body on a line is dropped, also one that was stored there earlier and meets the line only when
  its node splits. `Insert` tells the truth about the body it was called with (`InsertReturns`), not about those.
* Masses are conserved down to the leaves (`MassConserved`); a centre of mass, although unweighted, lies in its box
  (`CentreInBox`), and is NaN exactly when some split below it lost both bodies (`NaNExactlyWhenStarved`).
* A starved node contaminates nobody: `d` is NaN, the quotient test fails and the traversal goes on to the children.
  NaN spreads only in the naive method (`NaNContained`), and is never drawn (`SimTypeOK`: the mesh has points only).
* A body is pulled by what the accepted nodes hold, whatever the order of the tasks, and by nothing the tree lost
  (`PullsMatchTree`); in the naive method once by each other body (`PairsOnceEach`).
* Whatever happens to connections, an accepted package keeps its number (`SeqnIsPosition`), is forgotten only when
  read (`OnlyReadIsForgotten`) and is dispatched in order, or again from the first (`NextOrFirst`), unless a new
  package overtakes the pending ones at a reconnect (`rushed`).
* An action of a lifetime runs once or is removed, also when it is added while the lifetime ends
  (`EachRunsOrIsRemoved`), and in reverse order (`RunInReverse`) unless the map was torn. A definition made in a parent
  that ends meanwhile ends too (`NestedEndWithParent`). At most the last value of a viewed property is alive
  (`OneValueAlive`).
* Properties converge whatever changes cross. Maps converge on the keys that were used with care: that the master
  neither removes nor changes again while they are pending, and that no clear removes untold. Such a key stays pending
  exactly as long as its change or its acknowledgement is on the way (`PendingIsOnItsWay`). Of the other keys nothing
  is claimed: `RdMap` reaches ends that differ. Lists have no way to repair: they replicate if the ends take
  turns, and notice the conflict if not (`ListReplicates`).
* An end of a set holds what the last told change of each value left, less what it has cleared untold since: the ends
  differ in exactly those values, until one of them is changed again. Only of values whose last changes crossed nothing
  is said, as either end may keep its own (`SetConverges`).
* The broker delivers each message once, early ones first and in order, and loses none. Only a message dispatched
  between a closure's last look at the queue and its end may overtake what the closure forwards, or be lost
  (`BrokerKeepsOrder`). An extension delivers all and in order while both ends stay (`ExtDelivers`), and two
  bound ends find each other (`ExtConnects`).
* When a call's lifetime is over, no task that is held waits (`CallEnds`).
* The plugin's model is replaced only when no thread uses it (`ReplacedUnused`), and when the queue is empty there is a
  model, marked alive, exactly if there is a connection (`AliveFollowsConnection`).

Undefined behaviour is reached in five places, and the models stop there: a task used after its end (`RdCall`), a
signal checked on one thread and unbound by another before it fires, an action of the game control queued with a
pointer to a control that is gone (both `RiderLink`), and a null subscription and an erased entry (both `MessageBroker`). In `Lifetimes` and in
`RdMap` it is followed as a nondeterministic choice. See the hazards in `PROJECT.json`.

### Findings

* `OneTermPerBody`: a far leaf is applied twice. `ExcludeSelf`: an accepted node may contain the body itself.
* `AckMustBeGreater`: pause can return while the async thread has taken packages but not begun to process them; after
  a reconnect one of them is sent ahead of the pending ones, and the counterpart then drops those.
* `NoBrokenMessage`: a duplicate package is reported as a package of length `true`, one byte, and all that follows in
  the message stream is read one byte late.
* `RefusedOnlyInProgress`: a synchronous call that times out, fails or is cancelled throws before it resets
  `sync_task_id`; every later one is refused as if it were still in progress.

## Fairness

A tick that has begun runs to its end: the game thread does not stop, and `ParallelFor` returns only when every task
has. Nothing forces another tick. In the send buffer every thread that can go on does and every socket call returns
(`WF` on the sends: a blocking send ends when the counterpart reads or the connection breaks), and a thread that waits
for a mutex that is free again and again gets it (`SF` on what acquires one). Nothing is put, paused, resumed,
acknowledged or stopped of necessity, and connections need neither open nor break. `Lifetimes` and the parts of
`MCProtocol` state no fairness: their properties are about states in which nothing is left to do.

## Proofs

`QuadTree_proofs` proves for every number of bodies, every scene and every set of places: types, the agreement of
flags and pointers (`ShapeCorrect`), that a node's body is inside its box, that no body is in two leaves,
`HeldExactly` and `SumsFresh`. The assumptions are those of the modules. Two inductive invariants carry them. `IInv`
joins the type invariant, the shape of the tree and where the active path may be: `Shape` alone does not survive
`Subdivide` without knowing that the node it splits has a body inside its box. `GInv` adds who is where: that every
earlier body either has its one leaf or lies on a split line, for which `SiblingsDisjoint`, the geometry of the four
children, is the lemma everything rests on; the body being inserted is the exception that `path` describes. That a
centre of mass is inside its box (`CInv`) is inductive without any exception for active nodes: the weighted sum over
four children is compared with the box after both sides are multiplied by the mass, so that no division is needed
(`PlusSums`, `OverSums`). What Insert returns follows from one more fact, that while the sums are recomputed
`inserted` already says whether the body in hand is in a leaf (`Reported`).

What a node tells of everything below it, and not only of its children, is `UInv`: off the active path its mass is
that of the bodies in the leaves below, and its centre is NaN exactly when a split at or below it lost both bodies.
It gives `MassConserved` and `NaNExactlyWhenStarved`. `Aggregate` carries both from the children to their parent: the
bodies below four children are disjoint (`UnderSplit`, `KidBodies`), so their masses add up. `MassOf` is a sum over
the numbers of the bodies, and the facts about it (`MassOfFacts`) are proved by taking the least number at which they
would fail. `IndexCorrect` is the refinement of `BodyIndex`: between two calls the root balances (`Balanced`), within
a call only a Subdivide loses a body, and it does so once, since it leaves nothing but empty leaves before the Insert
(`Emptied`); the return from the root closes the call with the sums that `UInv` gives.

`BodySimulator_proofs` proves the tick, for every number of bodies and threads and whichever types of simulation follow
one another: types, `PairsOnceEach`, `InSceneAtForces` and `NaNContained`. Moving the bodies breaks every invariant of
the tree, so `SInv` claims `IInv` and `GInv` only from ConstructTree to the end of the forces (`TreeBuilt`), and says
what lets a tick start again: no Insert is active outside ConstructTree (`Calm`), every body Insert was called with is
inside the scene or on its edge (`Wrapped`), and no task is left over. `TreeInTick` then gives the theorems of the tree
to the traversals. For the naive method the invariant says how far each task has come (`InTurn`).

`PullsMatchTree` rests on an invariant of every traversal (`PullInv`): the nodes it has yet to visit are not above one
another, none is below an accepted node, and a leaf has pulled the body as often as it ever will if it is under none of
them, and not at all otherwise (`Going`). Opening a node, accepting it, and passing a leaf twice each keep this, and
when nothing is left to visit it is what the property says. `NaNContained` is proved on the condition that the bodies'
minimum distance is positive, as it is by default (100): with 0 the code divides by zero when two bodies meet.

The first part of `SocketWire_proofs` proves types and `SeqnIsPosition` of the send buffer for every number of packages,
whatever the wire does to it. `SeqnIsPosition` is
not inductive because `reprocess` pops one package per acknowledged number without looking: the strengthening says that
nothing is acknowledged that was not handed to the socket (`Acks`), that a package in hand is still at the head of the
queue (`InHand`), that the pauses are balanced and that no thread exists before `start`. Four lemmas about consecutively
numbered sequences (append, tail, concatenation, dropping a prefix) do the rest.

The rest of `SocketWire_proofs` proves the wire's safety for every number of packages and connections: types,
`OnlyReadIsForgotten`, `NextOrFirst`, `AcksIncrease`, and that the wire is one of the environments the buffer was
proved for (`ImplementsBuffer`), which gives `SeqnIsPosition` over the wire. The invariant has two parts,
`WInv == Safe /\ (~rushed => Smooth)`. `Safe` holds always: the buffer's own `IInv`, types, where the wire's thread can
be while the buffer pauses (`Places`), that connections grow (`Order`), and that what is on the way was handed to a
socket (`Handed`). `Smooth` holds until a new package overtakes: what is on its way to the reader is a run of
consecutive packages (`Runs`) that begins no later than the reader expects (`Heads`), acknowledgements increase
(`AcksOrdered`) and are of packages that were read (`Received`), and a reader that has lost its state starts from the
first (`Fresh`). `InStep` joins the two threads: while the wire's thread pauses, nothing sent is newer than what it is
about to resend. That a stream is a run is what makes "the next or a duplicate" inductive.

`Lifetimes_proofs` proves all four properties of lifetimes, for any number of threads, lifetimes and actions. A lifetime
is terminated before its map is taken and accepts nothing from then on, so the map is taken with something in it only
once, and the thread that took it stays in the termination until all has run. The invariant has three parts. `Kept`
says where each action is: in the map, among what a termination has yet to run, run, or removed, and never in two
(`Accounts`), that nothing has run of a lifetime that still accepts (`Once`), that what is left was added before all
that has run (`Reverse`), and that while something is left a thread is at it (`OnItsWay`). `Stacks` says which frames
may stand on which, which is what lets a frame at the top speak of the one below it. `Values` says which lifetime of a
value may still be alive at each step of `set_current_lifetime`. `RunInReverse` uses that a finite set of numbers has a
greatest one (`LastLeft`), which is proved by well-foundedness.

`Entities_proofs` has the property, the map, the set and the list, for any values, keys and number of changes. What one
end will know of a value or a key when the channel has emptied is what the last message about it says, or what it knows
now if there is none (`LastIn`); each invariant says that this is what the other end has. For the property the messages
to the master split into those it will reject, with a version less than its own, and those it will accept. For the map
the invariant also follows a pending key to the one change, or the one acknowledgement, that is on its way (`One`), for
every key that is not `careless`. For the set
(`SetInv`) it says for each value what an end will know once its channel has emptied: what was told of it last, unless
the end has removed it since without telling, and that an end with a change of the value still to come has removed
nothing untold. The only values left out are those whose last told changes met; the next told change of one, which
meets nothing, takes it back in. For the list
(`ListInv`) it says, while no changes have crossed, that messages are on their way to one end at most (`TakesTurns`),
numbered from the version that end expects to the other's (`Consecutive`, `CountsAll`), and that what it has, or will
begin with when it is bound, becomes what the other has when they are applied one after the other (`CatchesUp`). That
nothing crosses is also what makes a bound end's list empty when the other binds with something in it. A run of events
is applied by a recursive function; that it exists, and that each message takes one step of it, is again the argument of
the least number.

`MessageBroker_proofs` proves `BrokerKeepsOrder` for any number of messages and each scheduler. A message may stand in
five queues: those of the broker's entry, what a closure has in hand, the scheduler's own, and the default scheduler's.
The invariant says that while the entity is subscribed their concatenation behind what was delivered (`Line`) is
`Steady`: without repetition, and increasing except for pairs with a racer. A step of a scheduler or of the closure
leaves it as it is and only moves a seam (`Seams`, `OverEmpty`), but that an erase takes racers out (`FallsOut`); a
dispatch adds to its end, or, a racer, somewhere before it (`Enters`). The rest says where a closure can be (`Places`), which queues a scheduler uses (`Queues`), and that
the closures are in front of what was queued under the subscription (`InFront`).

`Connections_proofs` has the parts that come and go with a connection.

* Calls (`CallInv`): a task that is held has an action left in the lifetime, or a result, or the thread that ends the
  lifetime is about to give it one (`Attended`); so when no action is left all have results.
* The plugin's models (`LinkInv`): the connections that are still to be connected stand in the scheduler's queue in
  their order and without a gap (`Queued`), each end of a model stands before the next connect (`EndsFollow`), and a
  model that is alive is the one of the connection or has its end in the queue before any other connects (`Heard`). That
  the log's thread and the controls use the current model (`Controls`) rests on the last: a model is replaced only
  after its end, which takes the control away.
* Extensions (`ExtInv`): a bound end is connected when what is on its way has arrived, or its Ready is still to be
  answered (`Meet`); and what is sent stands, in order, in what was received, in the channel, in hand, or in the queue
  (`Pipe`). While neither end has been unbound none is missing (`Whole`), because an end that was never bound has sent
  nothing and is not known to the other (`Untouched`), so that no payload meets it.

These proofs, and those of the broker and the entities, are about each part on its own. `MCProtocol_proofs` carries
them to the specification that the run `protocol` checks: in a step of it one part moves as its module says and the
others are not explored (`OnePart`), so the invariant of each part holds whenever it is the one explored. It assumes of
the bounds only that `MaxCalls` is a natural number (`MaxCallsAssumption`), since tasks are counted up to it.

Only model-checked: everything temporal under fairness (`ConstructTerminates`, `TickEnds`, `PutIsTaken`,
`AsyncThreadEnds`, `PauseAndResumeReturn`, `PendingArrives`), which is out of the prover's reach, and the properties of
the runs that expect a violation, which do not hold. Every invariant and every action property of the other runs, and
both refinements, are proved.

## Plan

Done: the simulation, the send buffer and the wire with their proofs; lifetimes; the reactive entities but signals; the
broker, extensions, calls; the plugin's link, log and game control. What remains worth doing, in this order:

1. `Heartbeat`: two threads and the timestamps; the shutdown of `SocketWire` with `stop` and `join`.
2. Both directions of the wire at once, with connections of bounded capacity, for the deadlock of two resumes.
3. Signals with listeners that subscribe and fire, and the schedulers' own threads.
4. Interning, over the broker, with schedulers that deliver an entity before what it refers to.

## Not modelled, and why

The size of forces and velocities (no property about them is within TLC's or the prover's arithmetic of doubles);
overflow of the coordinates; the camera and the engine's own objects; byte layouts; logging.

In `SocketWire` the connection has unbounded capacity, dispatch always succeeds, the wire is not stopped and there is
no heartbeat. In `Lifetimes` no action throws. Signals keep no state, and their re-entrancy is left out; entities are
bound empty, with no entities inside. In the broker each scheduler runs what it is given in order; messages for an
extension that is not bound are dropped, where the broker would keep them for a later bind. The threads of the
schedulers and their end, and interning, are not modelled. Of the plugin, the start and shutdown of the link's module,
the cutting of log lines, the packing of the play settings, live coding, blueprints and shaders are left out: they
forward values and keep nothing.

Most of the files of the repository are third-party headers (logging, formatting, optional, variant, maps, sockets)
and generated declarations; no definition of the models translates them. See the notes of the components and of the
hazards in `PROJECT.json`.
