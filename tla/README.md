# TLA+ models of rustasim

rustasim is a conservative parallel discrete event simulator in Rust: an
engine (`rustasim-engine`) and a datacenter network model on top of it
(`rustasim-dcsim`). This directory holds TLA+ models of both, TLC
configurations that check them on small instances, and proofs, checked with
TLAPS, about the queue the whole engine rests on and about the promises that
keep its simulations in order. Every definition is translated
from the Rust source; `PROJECT.json` maps each one to its lines.

## 1. The system

| Part | State | Operations | What it talks to |
|---|---|---|---|
| spsc queue (`engine/src/spsc.rs`) | atomics `head`, `tail`, ring buffer; two `Cell`s per side, one in sync, one possibly stale | `push`, `pop`, `len`, `is_empty`, `is_full`, `wait`, `drop` | one producer thread, one consumer thread, shared memory with Acquire/Release |
| Merger (`engine/src/engine.rs`) | loser tree of events, winner queue, safe time | `new`, `ltr_walk`, `next` | pops from the input queues of one actor, returns events in time order or `Stalled` |
| Worker pool (`engine/src/lib.rs`, `worker.rs`) | shared task heaps under locks, a counter of finished actors | `start`, `run` | owns the actors, calls `advance`, joins the threads |
| Flow (`dcsim/src/tcp.rs`) | window, sequence numbers, acked bits, retransmission queue | `start`, `src_receive`, `timeout`, `next` | called by its server |
| Server (`dcsim/src/server.rs`) | Merger, queue to itself and to its router, `tor_time`, timer heap, flows | `advance`: Close, Stalled, Timeout, Flow, data, ack | top-of-rack router, itself, World |
| Router (`dcsim/src/router.rs`) | Merger, `out_times`, routes | `advance`: Close, Stalled, Packet (send, drop, full queue) | its neighbours, World |
| World (`dcsim/src/lib.rs`) | actors, a queue to each | `new_from_network`, `add_flows`, `start` | everything, once, before the threads run |
| Routing (`dcsim/src/routing.rs`) | a work list and a cost table | `connect`, `build_fc`, `build_clos`, `route_id`, `route_all` | called by World |
| Command line, flow file (`main.rs`, `run_config`) | none | accept a topology, build the network, read the flow file up to the limit | World |
| PHOLD (`engine/benches/phold.rs`) | Merger, `out_times`, a count | `Actor::new`, `advance`: event, Stalled, past the limit; `run` wires all to all | the engine, its own copies |

What is hard about it: two threads race on every queue and decide on stale
positions; a Merger must not return an event while an earlier one may still be
pushed, and must neither lose nor starve a queue while others push; workers
share actors through heaps picked at random; all of the actors' progress hangs
on null messages; timers race acks; queues have an end and pushes are unwrapped.
`PROJECT.json` lists these under "hazards", each with its line and the
properties that would catch it.

Correctness, per part: the queue's unsafe accesses touch only slots they own
and the queue is a bounded FIFO; the Merger is an ordered merge; the pool
neither shares nor loses an actor and returns when all are done; a flow's window
counters are exact and every packet wanted has one timer; nothing in the
simulation reaches an actor in its past, events are handled by time, none is
lost between two actors, and the simulation ends; every flow of the file starts
at its host and every packet gets to its own; routes are the shortest paths.

## 2. Modules

Abstract specifications: `BoundedFifo` (a FIFO whose two sides know the other's
progress late), `OrderedMerge` (an ordered merge with stalls), `Simulation` (a
parallel simulation without queues, null messages, stalls or Close: every actor
handles the bag of events on their way to it by time, none comes late, none is
lost before the horizon).

| Module | Models | State and actions |
|---|---|---|
| `Spsc` | `spsc.rs` | One action per access to shared memory. `push` is `PushBegin` (check against the cached head), `PushRefresh` (load head), `PushWrite` (write the slot), `PushPublish` (store tail); `pop` is symmetric. A load returns any value between the last one this side saw and the current one (`Between`). `live` is a history variable: the slots that own a value. |
| `SpscProofs` | | theorems, section 5 |
| `MergerTree` | `Merger::new`, `ltr_walk` | pure functions: the tree's shape and the path of each queue, next to the definitions they should meet |
| `Merger` | `Merger::next` | `Pop`, `Climb` (one level of the tree), `Settle` (new winner), `Check` (the second look before a stall); `Push` by neighbours between any two |
| `WorkerPool` | `start`, `run` | one action per critical section: `Pull`, `Rotate`, `Finish`, `Panic`, `Return`, `Retry`, `Join`. `advance` is abstracted to a level that stays one step from the slowest other actor. |
| `Tcp` | `tcp.rs` | operators that take a flow and return its next state and what to send |
| `Flow` | a flow with its server's timers | over a network that loses, duplicates, delays and reorders; time abstracted away |
| `Topology` | `connect`, `build_fc`, `build_clos` | operators, and reference distances and shortest paths |
| `Routing` | `route_id`, `route_all` | their loop, one turn per action: `Skip`, `Expand` |
| `Links` | the engine's actors and queues, for any set of actors and channels | `IsNext` and `StallsAt` (what the Merger hands out), `Deliver` (the pushes of one handler, and what happens when a queue is full) |
| `Network` | what the actors of dcsim share | `Links` with a queue per direction of each link, one from a server to itself and one from the World to everybody; the events |
| `Router`, `Server` | `advance` of each | one action per event type and outcome, the whole handler each |
| `Dcsim` | `World` | composes `Router` and `Server` over `Network`; the initial queues, with the flows of the workload |
| `Config` | `main`, `run_config`, `add_flows` | operators: the topologies accepted, the network and the flows made of them |
| `Phold` | `phold.rs` | `Skip`, `PassOn`, `Stall`, and `TakeLate` and `StallLate`, which end an actor, over `Links` |
| `MCDcsim`, `MCDcsimRacks`, ... | | instances, and the properties that are about one |
| `MergerProofs`, `WorkerPoolProofs`, `FlowProofs`, `RoutingProofs`, `CommonLemmas`, `PholdProofs`, `DcsimProofs` | | lemmas and theorems, section 5 |

How they fit: `Spsc` implements `BoundedFifo`; `Merger` works on such FIFOs and
implements `OrderedMerge`; `Links` takes queues and Mergers for what those two
abstract specifications promise, and `Router`, `Server` and `Phold` run on it;
`Dcsim` and `Phold` both implement `Simulation`; `WorkerPool` justifies that
every actor keeps being advanced; `Server` and `Flow` run the same `Tcp`
operators; `Router` takes its routes from the reference distances that `Routing`
is checked to return; `Config` builds the network with the operators of
`Topology` whose wiring the `routing` run checks.

Abstractions worth knowing:

- `Links` pushes a handler's events at once. A reader may see any prefix of
  them: an event in a queue is taken when it is next or may be treated as not
  there (a stall), which is the delay that `Spsc` allows.
- A push that overflows marks the actor panicked; the pushes of the same handler
  to other queues are kept. A router's failed push of a packet marks it broke:
  it returned Done without having sent a Close.
- `RouterFull` uses the true length of the queue; the real producer may see
  a longer one.
- `Fill` (the loop of `tcp.rs` that fills the window) is written in closed form:
  retransmissions first, then the next new sequence numbers, as many as fit.
- A history variable, `fcts`, keeps the completion lines a server prints.
- Actors are named by their ids; the maps between ids and indices that the
  builders keep are renamings.
- A packet's size is fixed by its being an ack or not; `sent_ns` is never read.

## 3. Runs

| Run | Instance | Shows |
|---|---|---|
| `spsc` | capacity 2, two values | memory safety, safe answers of `len`/`is_empty`/`wait`, check-then-act, refinement of `BoundedFifo`, termination of calls |
| `merger` | 3 queues of one place, 2 times | tree invariant, conservative time, refinement of `OrderedMerge`, no starvation |
| `merger_wide` | 5 queues; formulas for 2 to 130 | the tree where its last layer is incomplete; the winner is the least of all; index formulas and placeholders against the tree |
| `pool` | 4 actors, 3 workers, 2 heaps, one panic | ownership, no early return, all results, `start` returns |
| `pool_none` | no worker | **violation**: no result at all |
| `flow` | 3 packets (the last not full), window 2 | exact window, one timer per packet, one report, completion |
| `routing` | all 64 networks of 4 nodes, racks up to 3 by 2, three Clos networks | exact costs, shortest paths, wiring, termination |
| `dcsim` | a rack of 3 servers, 3 packets from two of them to the third, queues of 3 | nothing in the past, ordered links, timers in time, no deadlock, refinement of `Simulation` |
| `dcsim_racks` | 2 racks of 1 server, a flow file with flows at and after the limit | no deadlock between routers, the file's flows start at their hosts, packets get to theirs |
| `dcsim_fct` | the repository's test with two packets | **violation**: completion time depends on the schedule |
| `dcsim_full` | as `dcsim`, a high drop threshold | **violation**: a full queue ends the router |
| `phold` | 2 actors, queues of 2, delays 0 and 2, lookahead 1, limit 4 | nothing in the past, constant population, refinement of `Simulation`, termination |

Why the bounds are enough. Capacity 2 has four positions, so that the ring
wraps in the buffer and in the positions, and full, empty and the state in
between differ; the proofs cover every capacity. Three queues give a tree with
two levels on one side and one on the other, two of them stalled while a third
moves, and five give an incomplete last layer with two depths; the formulas are
checked up to 130, beyond two powers of two on each side of every size that
matters. Four actors on two heaps and three workers leave heaps empty while
others are full, and workers idle while others work. A window smaller than the
flow and a last packet that is not full exercise both ends of the window. In
`dcsim` the two senders collide at the router (drops), the timers run out before
acks come (retransmissions, entries pushed while a Timeout is pending), queues
of three fill up (full router, panicking server), and the limit comes while
packets are under way. Two racks are the smallest network in which two routers
wait for each other, and the least the command line accepts. Two PHOLD actors
have a queue to themselves and one to the other each, fill both, and pass the
limit by an event and by a stall. `Times`, `Limit`, `Goal`, `MaxPanics` and the workload
bound what would otherwise be unbounded; nothing else is capped.

Every property of every passing run has a mutant, a plausible bug of the code
it models, that it finds; mutants stand before the definitions they replace.

`CHECK_DEADLOCK FALSE` is set in `dcsim`, `dcsim_full`, `dcsim_racks` and
`phold` because the simulation really stops when it is done or when a queue
overflows; `NoDeadlock` and `Terminates` say that it stops for no other reason.

### Fairness

- `Spsc`: the steps inside a call are weakly fair, as a thread in the middle of
  a call runs on. Nothing obliges a side to make a call. `wait` returns only
  if something is pushed.
- `Merger`: `next` keeps being called; neighbours need not push. `KeepsUp` is
  about the time after they have stopped.
- `WorkerPool`: every worker takes steps, and a heap that is drawn at random again
  and again is drawn eventually (`rand`'s `choose`): strong fairness over the
  heaps. The counter becomes visible to a relaxed load eventually.
- `Flow`: timers fire, and of the copies of a packet or an ack that are sent for
  ever one is delivered. Routers drop only when a link is behind.
- `Routing`: the loop goes on.
- `Phold`: weak fairness of the whole next-state relation, no more: as long as
  some actor can go on, the pool advances one that can (`AllResults`,
  `StartReturns` of `WorkerPool`).
- `Dcsim` needs none: its states cannot repeat (every step takes an event or
  moves a promise forward, up to `Limit`), so `NoDeadlock` is termination.

## 4. What the runs found

1. `main.rs:90` asks for `num_cpus::get() - 1` workers, 0 on one CPU;
   `World::start` returns an empty result without simulating (`pool_none`).
2. `server.rs:369` and `server.rs:393` send from `tor_time` without
   `max(event.time, tor_time)`. `tor_time` depends on the stalls the schedule
   produced, so an ack can leave before its data arrives, and the completion time
   of a lone flow is not the constant the test's comment gives
   (`single_rack_single_flow.rs:6`). `dcsim_fct` has 5024 for a flow whose exact
   time by that formula is 6416; random simulation of the test's full ten packets
   reaches 16016 and also 14824. Promises are kept nevertheless
   (`NothingInThePast`): `tor_time` never lags behind the last promise made.
3. `router.rs:266` sends Close at `event.time + latency`, possibly behind packets
   with later times: the one place where a queue is not by time. `LinksInOrder`
   and `InOrder` leave the Close out for that reason, and the proof shows why
   it does no harm: every Close comes after the limit, nothing is heard past the
   limit by an actor that runs, and an actor stops at its first Close.
4. `router.rs:313` announces a drop when the queue is full, but the threshold
   is a time of `1000 * bandwidth^2` packets, and a push that fails ends the
   router (`dcsim_full`), after which its neighbours wait for ever.
5. `phold.rs:54` says "send ourselves an initial event", but `run` takes the rows
   and columns of queues from the end, so that the initial events of actor `id`
   go to actor `n - 1 - id`. Nothing depends on it: the population is the same
   (`Population`).

## 5. Proofs

The assumptions are those named in the modules (`CapAssumption`,
`MergerAssumption`, `PoolAssumption`, `TcpAssumption`, `FlowAssumption`, `PholdAssumption`,
`NetworksAssumption`, `NetworkAssumption` and its companions): positive sizes,
latency and bandwidth, links that go both ways, a host has one link and that to a
router (as the builders wire it), and a workload that
gives each flow to its source, by time, and fits into a queue (`add_flows`). TLC
evaluates them on the instances. `CommonLemmas` holds what the proofs of several
components need: distances in a network (`Routing`, and the last hop of `Dcsim`),
what the operators of a flow return (`Flow`, `Dcsim`) and sequences of events
(`Phold`, `Dcsim`). It declares the constants of a flow, which the theorems on
routing and PHOLD do not use. Two sets of theorems assume
more: `ResultPerActor` that there is a worker (with none, `start` returns no
result: the run `pool_none`), and those of `MergerProofs` the shape of the tree.

### The queue

- `SpscProofs`: `TypeCorrect`, `Invariant`, `MemorySafety` (`SlotsSound`),
  `LenSafe` (`LenBounds`), `AnswersStayTrue` (`CheckThenAct`), and `Refinement`,
  `Spec => Fifo!Spec`.

`SlotsSound` is not inductive: that a slot written is free depends on where both
sides think the other one is. `IInv` adds that the cells documented as in sync
are (`Sync`), that stale cells lag behind in circular order and by no more than
the ring holds (`Lag`), what each side has established at each point inside a
call (`ProducerAt`, `ConsumerAt`, `DropAt`), and that the live slots are exactly
those of the positions between the next read and the last write (`LiveAt`). Each
action preserves it in a lemma of its own; arithmetic modulo the ring is done
once, in lemmas about `Slot`, `Increment`, `Distance` and `Between`. The
refinement maps the FIFO's contents to the slots from head to tail and its two
delayed counts to the cached positions.

### The Merger

- `MergerProofs`: `Invariant`, `TypeCorrect` (`TypeOK`), `SoundTree` (`TreeSound`),
  `LeastWins` (`WinnerIsLeast`), `NeverAhead` (`Conservative`), `IsOrderedMerge`
  (`RefinesMerge`), for any number of queues, capacity, times and payloads.

All are stated under the hypothesis `Shape`: `new()` has put every queue's way up
inside the tree and one placeholder of every queue but the first on its own way.
`Shape` is about pure functions of the number of queues (`Paths`, `FirstSrc`); that
it holds for each number is induction over data, so TLC evaluates it, for 2 to
130 queues, in `PathsToParents`. There the way up is given as repeated
halving, which TLC compares with `Up` for the tree of that run.

The winner of a climb was compared with the losers on one path only. The
invariant says why that is enough: every loser was beaten by an event that came
past its node and is now above it (`Order`), so the least event of the tree can
only be the candidate (`Least`, by the least node that holds a lesser one). In the
middle of a climb the nodes the candidate has still to pass are exempt, and a swap
keeps the rest because two ways that meet stay together (`UpMeets`). `Said`
relates a queue's event in the tree to the queue and to the last time pushed:
that is what makes the winner's time a safe one (`Conservative`), and the
refinement's `Take` and `Stall` allowed. The refinement maps the ordered merge's
pending events to those in the queues after the ones the tree has popped and not
passed on: `Settle` takes one, a second look that finds nothing stalls, every
other step of `next` stutters.

### The worker pool

- `WorkerPoolProofs`: `Invariant`, `TypeCorrect`, `SingleOwner` (`OneOwner`),
  `Complete` (`NoEarlyReturn`), `ResultPerActor` (`AllResults`), for every number
  of actors, workers and heaps, and of panics.

A worker returns on one number, `counter`, and without a lock. The invariant says
what that number stands for: with the actors still in a heap or in somebody's
hands (`Live`) and the panics it adds up to the number of actors. That a step
takes exactly one actor out of `Live` needs `Unique`: no actor is in two places,
and none has its result among a worker's while it is live. `Found` is the
converse, what is not live has a result, and `Joins` carries it to the main
thread. That `start` deals every actor to exactly one heap is `DealtOnce`.

### A flow

- `FlowProofs`: `Invariant`, `TypeCorrect`, `Exact` (`WindowExact`), `OneTimer`
  (`OneTimerEach`), `Reported` (`ReportedOnce`), for every size, packet size and
  window.

The invariant is that, between handlers, nothing waits in `rtx_queue`, `outstanding`
is `next_seq - n_acked`, and the window is full or the flow at its end (`Filled`).
So a handler fills the window with new packets only (`FillNew`) or, after a timeout,
with the one packet that timed out, whose place in the window it takes
(`FillAgain`): if new packets could get in before it, the counts would drift.
That no timer is doubled follows, as a number gets a timer when it is sent and
is sent again only when its timer has been spent (`TimersMatch`). `ReportedOnce` needs that
`n_acked` counts distinct acks: it reaches the number of packets exactly when
the last one is acked.

### Routing

- `RoutingProofs`: `Invariant`, `ExactCosts` (`CostsExact`), `PathsShortest`
  (`ShortestPaths`), for every network whose links go both ways, of any size,
  connected or not, and `ConnectKeeps`: `connect()` keeps them so.

A node is entered again whenever another candidate for it has the same cost, so
what the search knows is never final until the queue is empty. The invariant
(`Search`, which TLC checks on the run's 30970 states too) has the classic part,
the queue is by cost and spans at most two of them (`Sorted`), costs are
distances (`CostsRight`), and a part for the first hops: what is known of a
node begins a shortest path (`HopsRight`), and every hop known for a node has
either reached each neighbour that is farther or waits in the queue to do so
(`AllPassed`). At the end nothing waits, so a first hop of any shortest path is
found by going back along it, one node at a time. The reference distances are
a recursive function; that it has a value, and that distances change by at most
one along a link, is shown by taking the least number at which it would fail
(`LeastOf`), as the library's induction theorems take an operator.

### The simulations

- `PholdProofs`: `Invariant`, `TypeCorrect`, `Prompt` (`NothingInThePast`),
  `Refines` (`RefinesSimulation`), `PopulationConstant` (`Population`), for any
  number of actors and events, any delays, lookahead, queue size and limit.
- `DcsimProofs`: `Invariant`, `TypeCorrect`, `Prompt` (`NothingInThePast`),
  `Ordered` (`LinksInOrder`), `Timers` (`TimersInTime`), `Refines`
  (`RefinesSimulation`), `DeadlockFree` (`NoDeadlock`), `FlowsInvariant`, `Arrives`
  (`RightHost`), `WindowsAreExact`, `ReportsAreExact`, `FlowsAllStart`, for every
  topology, workload, latency, bandwidth, queue size and limit.

`NothingInThePast` is not inductive either: what is in the queues now says nothing
of what will be pushed. The invariant gives every channel a promise, the time
before which its sender will push nothing more: `out_times` or `tor_time` plus
the latency for a link, the time of the Timeout in it for a server's queue to
itself, the limit for the World. `InTime` (`CommonLemmas`) says that, for every
channel to an actor that runs, all that is in the queue is by time and lies
between what the actor has heard from *anybody* and the promise, and that a queue
that shows nothing has told at least as much as any other. A Merger's choice of
the least first event keeps it (`TakeInTime`): what is taken is no later than
anything on its way. A handler keeps it (`PushInTime`) if it pushes between the
old promise and the new one, which each action's lemma shows for its own
arithmetic. That is where the code's two oddities come in: a server sends from
`tor_time` whatever the time of the event, which keeps its promises because
`tor_time` *is* the promise; and Close breaks the order of a queue, which needs
`Closed` (whoever sent a Close has stopped, and after the limit) and the bound
`Limit` on all that is heard, which the World's last event gives (`FromWorld`).
`Timers` needs `Clock`: the one Timeout ahead comes no later than any timer
and at most `MIN_RTO` after the last one, so a timer set now cannot undercut it.

`Refines` maps every step of PHOLD to one of `Simulation`: a null message taken
or a stall to `Waits`, an event handled to `Handles`, an end to `Finishes`. It
needs the converse of `NothingInThePast`: that an actor's clock, the latest time
it was told, is not ahead of an event already on its way, and that nobody is
told of a time before what a running actor may still push to him, also when the
reader has stopped (`Forward`). Bags are counts of the events in the queues to an
actor (`Ways`); that a pop takes one of a time and a push adds one is shown once,
by bijections between places in the queues before and after (`CommonLemmas`,
"Counting"). `PopulationConstant` adds the counts up over all actors: as long as
all run, the sum stays what `run` started with (`Constancy`), as `PassOn` takes
one event and pushes one.

`Refines` of `Dcsim` is the same argument over more actions. `Sound(a)` says what
a step of actor `a` owes: `IInv'` and, where `Forward` holds, `Forward'` and a step
of `Simulation`. Each action's lemma shows only what its handler pushes, and to
what promise (`KeepsPromise`), whether that is more than null messages and Closes
(`Quiet`), and how it ends (`Fitting`: an actor is done exactly when it took a
Close; a null message never ends it). `TakeSound` and `StallSound` derive `Sound`
from that for all of them. A handler that panics on a full queue leaves its other
pushes undone: what it did not push was never on the way, so the step is still a
`Handles`, which also lets the actor stop. `Forward` says besides that an actor
that is done has been told of the limit, so events that pass it by are not before
it.

`DeadlockFree` says that the null messages do their work: unless a queue was full,
actors that wait for each other are never all stuck. A promise is of no use if
only its maker knows it, so the invariant adds `Told`: what a running actor has
promised is no later than the last event it pushed (taken or not), and the last
event of one that is done is a Close. Each action's lemma shows what its handler
says of that (`Speaks`). Suppose then that nobody has an event to take or a null
message to send. Every running actor waits at the least time at which it could hear
something (`Waiting`), for a queue that is empty; of these take one that is
heard up to the least time. Its sender is not done, or the Close would be in it,
so it waits as well, at no lesser time, and has nothing to tell of it; so it has
promised, and told, that time and the latency, and is not heard up to less. A
latency of 0 would break the argument at this point (`main.rs` takes one).

The last five are about the flows in the whole simulator. `Flow` proves its windows
exact over a network that loses and repeats what it likes but brings acks to their
sender, and with timers that are set as the server should; here that network is
the queues and routers, the timers are the servers' heaps, and both are proved to
be of that kind. `RightHost` is not inductive: that an ack names a flow of its
reader and a packet that was sent depends on the data packet it answers, which
depends on the ack or timer that had it sent, in another server. The invariant
(`Flowing`) says it of everything on its way: every packet, in whichever queue, names
a flow of its source, the other end of that flow, and a number that was sent
(`HasSent`; an ack has the two ends exchanged); in a queue to a host, that host is the
destination, since a host is on no shortest path to another (`LastHop`); and the
heap has one timer for each packet missing (`TimersFor`), with which the lemmas on
a flow's operators apply as they stand. Since what is sent stays sent (`GoesOn`),
the packets that a step leaves alone stay right when a flow moves on (`EventsStay`).

`WindowsAreExact` follows from `Flowing`. `ReportsAreExact` needs besides that only
an ack changes what a flow has acked (`StepKinds`) and that it completes the flow
exactly if it is the last one missing (`AckCompletes`). `FlowsAllStart` adds that what
the World still has for a running host is just the rest of its workload and the Close
(`Behind`), and that the Close a host takes is the World's: any other comes after the
limit (`WorldCloses`). Nothing is said of what the routers drop, so none of this
promises that a flow completes; that stays with TLC.

### Only model-checked

All liveness (`CallsReturn`, `KeepsUp`, `StartReturns`, `FlowCompletes`, `Ends`,
`Terminates`); the hypothesis `Shape` of the Merger's
theorems (`PathsToParents`, `WalkInOrder`): it doubles and halves indices layer by
layer, nonlinear arithmetic the provers do not do; the wiring that `build_fc` and
`build_clos` make of their sizes (`FcSound`, `ClosSound`), for the same reason;
`FlowsStarted`, which compares the flows of one instance with its flow file:
`FlowsAllStart` proves what a server does with the workload it is given, not that
`Config` makes the workload of the file.

## 6. Not modelled

`err.rs` (carries rejected values), `logger.rs` (not compiled), `tree.rs` (empty),
formatting, statistics and argument parsing, the flow file's syntax, the R
script. Inputs outside the models:

- latency 0, excluded by an assumption: null messages then promise nothing;
- flow files that are not sorted by time, or list more flows for a host than a
  queue takes: `add_flows` pushes in the order of the file and unwraps;
- a flow of size 0, which sends nothing, is never acked and never reports
  (`tcp.rs:141`): it is in the range of the proofs (`ReportedOnce` says that such a
  flow reports nothing), but no run has one;
- `--fc 0` and `--fc 1` (`main.rs:59`), which panic while the network is
  built, before any actor runs (`Accepted`).

Overflow of 64-bit times is out of range of any run of the program and left out.

## 7. What is left

1. `BoundedFifo` proved to be a FIFO in the usual sense (elements taken are a
   prefix of the elements added).
2. Larger instances of `Dcsim`: equal-cost routes in a folded Clos.
