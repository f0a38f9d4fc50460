# lzhlib in TLA+

Specifications, TLC runs and TLAPS proofs for [lzhlib](../src), a header-only
C++17 library.  Paths below are relative to `src/include/lzhlib/`.  PROJECT.json
lists the same material for tools: components, runs, the source lines of every
definition, a mutation for every property, findings, hazards and theorems.

Run a configuration with `tlc -config X.cfg M`, check a proof with `tlapm M.tla`.

## 1. The system

| Component | State | Operations | Uses | What is hard |
|---|---|---|---|---|
| `thread/queue.hpp` | linked nodes from `head` to a dummy `tail`, `head_mutex`, `tail_mutex`, `closed`, `has_new_element` | `push`, `close`, `wait_and_pop`, `wait_for_and_pop`, `try_pop` | the C++ thread library | two locks, an unlocked flag, notifications without a lock, reused addresses |
| `thread/thread_pool.hpp` | `stopped`, `stop_mutex`, the queue, the worker threads | constructor, `submit`, `worker_function`, `stop`, destructor | the queue, for everything | submit against stop, concurrent and repeated stop, tasks that submit, a constructor that fails half way |
| `list/indexed_list.hpp` | a vector of nodes with `next` and `prev` indices; heads are the caller's | `form_list`, `push`, `pop`, `insert`, `remove`, `clear`, `resize`, `previous`, `next` | - | circular links updated in a fixed order, special cases for one node, the head, the end |
| `repository/value_repo.hpp` | one `indexed_list` of slots, `unused_head`, `used_head`, a flag and an optional value per slot | `assign_object`, `reuse_object`, `remove_object`, `return_object`, `first_id`, `next_id`, `prev_id`, iterators, growth | `indexed_list`, both heads of it | moving slots between rings, growth at the limit of `size_t`, exceptions of the element type, walks during changes |
| `graph/` | a repository of vertices and one of edges; per edge its two ends, per vertex a set of edges with their opposite vertices | `add_vertex`, `add_edge`, `remove_edge`, `remove_vertex`, `get_edge`, `adjacent`, `neighbors` | two `value_repo`s | the same fact stored at three places; ids that are reused; calls that throw half way; self loops |
| `graphics/matrix.hpp` | matrices; products as tuples of references | `operator*`, evaluation, assignment | - | a dynamic program in wrapping arithmetic; evaluation later than construction |
| `reader/` | per index the value read last, and a stored function bound to a reader | `read`, implicit copies and moves | the standard library | boundaries of numbers and quotes; functions that refer to another reader |
| `utility/` | none | type-level helpers | - | nothing at run time |

The queue and the pool are the only concurrent parts; nothing is persisted, so
there is no recovery, and no messages are sent.  The rest is sequential: its
difficulty is in long sequences of legal calls, in boundaries, and in
exceptions between two changes.

What makes each part correct:

* queue: no element is lost, repeated or reordered; the comparison of two
  addresses that says "empty" is exact; "closed and drained" is final; nobody
  follows a pointer to a freed node; calls end.
* pool: stop() returns only when all workers are done; accepted tasks run, and
  run once; submit() either queues the task and gives a future or throws; stop()
  returns.
* indexed_list: the rings are disjoint sequences, the same in both directions,
  and each operation changes the one it is given as a sequence operation would.
* value_repo: every slot is in the ring its flag says; an object in use is not
  touched by operations on others; iteration visits every used id once.
* graphs: the sets of the vertices hold exactly the edges that exist; a removed
  vertex takes its edges along; queries find exactly the edges there are.
* matrix chain: the chosen order costs the minimum, and every order gives the
  same product, of the values at the time of evaluation.
* readers: what is read is what was written, arrives at the right reader, and a
  failed read loses nothing.

## 2. The modules

| Module | What it is |
|---|---|
| `ThreadQueue` | the queue, one action per lock, load, store, wait and notification that another thread can observe |
| `ClosableQueue` | what the queue promises: a FIFO that can be closed |
| `ThreadPool` | the pool; EXTENDS `ThreadQueue`, so a worker inside `wait_and_pop` takes the queue's own steps |
| `MCThreadQueue`, `MCThreadPool` | symmetry sets for TLC |
| `IndexedList` | the operations on links as operators, shared by the next two |
| `IndexedLists` | a state machine: several lists in one vector, any legal calls |
| `IndexSequences` | what the lists promise: disjoint sequences of indices |
| `ValueRepo` | the repository as a state machine over `IndexedList`, with wrapping `size_t` |
| `ObjectPool`, `ValueRepoPool` | what the repository promises, and the refinement mapping |
| `ValueRepoIteration`, `MCValueRepo` | a client that walks the repository while others change it; the symmetry of values |
| `Graph` | both graph classes, over repositories as `ObjectPool` promises them |
| `Multigraph` | what a graph promises: vertices, and edges with two ends |
| `MatrixChain`, `MCMatrixChain` | lazy matrix products and the resolver; sizes for TLC |
| `DynamicReader`, `MCDynamicReader` | readers, their copies and what they parse; texts for TLC |
| `IndexedListProofs` | lemmas: what each operation on links does to a ring |
| `ThreadQueueProofs`, `ThreadPoolProofs`, `IndexedListsProofs`, `ValueRepoProofs`, `GraphProofs`, `MatrixChainProofs`, `DynamicReaderProofs` | theorems and their proofs |

### How state and steps correspond to the code

`ThreadQueue`: a thread's `pc` is the next step of the call it is in.  Between
two values of `pc` lies everything the thread does that no other thread can tell
apart: writes to its own new node belong to the step next to them, and one
locked region without an observable intermediate state is one step
(`PushLink`, `PopHead`).  `PushLink` stands for three writes, the value and the link of
the old dummy node and `tail`: a consumer comes to that node only after comparing it
with a `tail` read under `tail_mutex`, which the writer holds, so nobody sees the
writes apart.  The two loads of `closed` in `push`, the two operands
of the wait predicate, the moment between predicate and blocking (`Block`), and
the gaps before `notify_one` and `notify_all` are steps.  Nodes are addresses
that are freed and handed out again, so `head # tail` compares what the code
compares.  `heap`, `offered`, `pushed`, `popped` and `drained` are history: the
live addresses, the values given to `push`, linked and popped, and whether some
pop answered "closed and drained".  Each value is pushed at most once: the queue
never looks into a value, and unique values show loss and repetition best.  All
atomics of the code are sequentially consistent and all other accesses to shared
memory are under a mutex, so interleaving is the right memory model.
Allocation failure and throwing element types are not modelled.

`ThreadPool`: `at` is a thread's place in the pool's code; while it is
`"pushing"`, `"popping"` or `"joining"` and its `pc` is not `"idle"`, it is in
the queue's code.  The queue's values are the tasks; `task` and `arg` are the
local task objects of `worker_function` and `submit`; `futures` and `ran` are
history.  A worker inside a task may call `submit`.  `stop()` in a task is not
modelled, since a worker that joins itself is outside the contract.

`IndexedList`: a list value has `size`, `next` and `prev`; operations that take
`head` by reference return the list and the head.  `IndexedLists` allows the
calls that the class allows its users, and keeps the heads; `Resize` grows the vector
or cuts off nodes that are in no list.

`ValueRepo`: one action per mutating call; a call that throws before it changes
anything is not a step.  `assign_object_throws` is the call whose element
constructor throws.  `Calls` selects the calls a run makes.  `SIZE_MAX` is a
constant, and `GrownSize` is computed modulo `SIZE_MAX + 1` as in the code.
`ValueRepoIteration` adds one walk, forwards from `begin()` or backwards from
`end()`.  Its iterator is an id; each `++` or `--` is a step, any call of
`ValueRepo` may come between two of them, and removing the very object the
iterator is at ends the walk: `next_id()` of a removed id does not throw but
answers the next free slot, so the walk has nothing to go on from.  `seen` and
`stayed` are history.

`Graph`: `directed` is chosen at the start and stays.  `edges` maps an edge in use
to its ends, `vertices` a vertex in use to its set of `edge_ref`s, in which only
the edge counts for equality, as in the code.  A new id is any id not in use: that
is what `ObjectPool` promises and `ValueRepo` is shown to keep.  Clients may pass
the id of any vertex or edge: a fresh one, one that was removed and perhaps assigned
again, or one that `associated_edges()` shows of an edge whose `add_edge()` threw.
Calls with several steps have an action for each outcome: `add_edge_throws` leaves
the edge and what the first vertex learned of it, `remove_edge` of an edge whose
second end is missing leaves the edge but not its first entry, and
`remove_vertex_throws(v, r)` stops at the entry `r`, in the order of edge ids, with
the edges before it removed and their entries in `v` still there.  Where the code
erases `end()`, or an iterator under the loop that uses it, `undefined` is set and
the model says no more.  `failed` (the edges in use whose `add_edge` threw) and `torn`
(a `remove_vertex` threw after it had removed edges) are history.
`Finds` is `std::set::find` with a key of another type: it descends every
red-black-like tree of the set's elements, comparing vertices where the tree is
ordered by edges, and returns what the descents can answer.

`MatrixChain`: `value` holds the elements of the client's matrices and `expr` the
matrices an `expr_multiply` refers to.  `resolve` is the dynamic program, with costs
modulo `SIZE_MAX + 1` and the default split of line 105; `evaluate` follows its
splits with the values of that moment.  The code computes the splits at compile
time, which changes nothing but the time.  The static assertions are guards.

`DynamicReader`: a reader is named by its address; `variables` are its optionals
and `bound` is the reader its stored functions hold a reference to.  `construct`
binds them to the reader itself; the implicit `copy` and `move` copy the
reference.  A read through a function whose reader is gone is undefined.
`read_arithmetic` and `read_string` are the two predefined parsers.

## 3. The runs

| Run | Question | Bounds |
|---|---|---|
| `queue_safety` | is the queue safe, and does it implement `ClosableQueue`? | 2 producers, 2 consumers with all pop operations, 1 closer, 2 values, 3 nodes |
| `queue_progress` | do `push` and `close` end, and do polling consumers drain the queue? | 2 producers, 1 consumer that polls, 1 closer |
| `queue_lost_close` (violation) | does `close()` wake every blocked consumer? | 1 of each |
| `pool_safety` | what holds when stop() returns? | 1 submitter, 2 workers that may submit, 2 stopping threads, 2 tasks |
| `pool_progress` | do submit() and stop() return? | 1 submitter, 1 worker, 2 stopping threads, 2 tasks |
| `lists` | do the rings behave as sequences? | 2 heads, up to 4 nodes |
| `repo_pool` | does the repository implement an object pool up to the limit of growth, and do walks survive changes? | `SIZE_MAX` = 5, 2 values, one walk at a time |
| `repo_assign_throws` (violation) | does a used slot hold a value? | `SIZE_MAX` = 5 |
| `graph` | do vertices and edges agree, and do both graphs implement a multigraph? | 3 vertices, 3 edges |
| `graph_adjacent` (violation) | does `adjacent()` find existing edges? | 3 vertices, 3 edges |
| `matrix` | is the order optimal and the value the product? | 3 matrices (1x3, 3x1, 1x1), products of up to 5, elements modulo 2, `SIZE_MAX` = 9 |
| `reader` | is it read right, and does it arrive where it should? | 2 readers, integers -12 .. 11; read at every step: texts of up to 3 of the characters `-`, `1` and both quotes; in every state: all integers of one and two digits, quoted strings |

Why the bounds are enough to be interesting.  Two producers race for
`tail_mutex` and two consumers for `head_mutex`; one closer can fall between any
two of their steps; three nodes are what two elements and the dummy need, and
already force an address to be reused.  Two values show every reordering of
two elements.  In the pool a second stopping thread is what makes "stopped"
differ from "finished stopping", and a second worker is what lets a task be held
twice.  Four nodes in two lists contain every local shape of a ring: one, two and
three nodes, with a removal at the head, at the end and in the middle.  With
`SIZE_MAX` = 5 the repository grows 0 -> 1 -> 2 -> 4, also from the given sizes
1 and 3, and `grow()` meets its refusal; four slots let a walk have something
behind, at and before its iterator while a fourth object comes and goes.

Three edges give parallel edges, a loop beside other edges, and a vertex with more
edges than another; the tree of three elements is the first whose root has two
children.  Three vertices are needed for a vertex that comes between the ends in
the order of ids.  Ids are reused as soon as an object is removed.  A row, a column
and a scalar fit into chains of any length, and their orders cost between a few
multiplications and more than `SIZE_MAX`; with 9, the product column * row costs
exactly `SIZE_MAX`, so that no split beats the initial cost and the default of
line 105 decides.  In `reader` every integer of one and two digits is written with all
ten digits, so that the range -12 .. 11 has on both sides a last number inside (-12 and
11), a first one outside (-13 and 12), and numbers far outside; two addresses are enough
for a copy that outlives its original or is created at its address.

`CHECK_DEADLOCK` is never switched off.  In the pool everything may be finished:
the action `Quiet` is the state in which stop() has returned to all callers, so
that any other state without a successor is reported.

Fairness.  `FairSpec` and `FairPoolSpec` say that a thread that can take its next
step takes it eventually: the operating system runs every runnable thread.  No
assumption is made about the order in which a contended mutex is granted, about
spurious wakeups, or about clients making calls.  `Timeout` is such a step too: a
duration passes.  `PollingSpec` adds the clients of `wait_for_and_pop` that call
it again and again.

### What the violations show

* `queue_lost_close`: `close()` (`queue.hpp:118-122`) stores the flag and
  notifies without `head_mutex`.  If both happen after a consumer has read
  `closed` as false and found the queue empty, and before it blocks, the consumer
  sleeps for ever, against the comment above `close()`.  `push()` has the same
  gap.  `thread_pool::stop()` can hang in `join()` because of it;
  `OnlyMissedCloseHangsStop` shows that nothing else can hang it.
* `repo_assign_throws`: the slot is taken before the value is constructed, so an
  exception leaves a used slot that may be empty, and its id is lost.
* `graph_adjacent`: `vertex::adjacent()` (`vertex.hpp:132`) searches by opposite
  vertex in a set that is ordered by edge.  TLC finds a directed graph with edge
  0 from vertex 1 to vertex 2 and edge 1 from vertex 1 to vertex 0, where
  `adjacent(1, 0)` is false; no call has failed in it and no edge is a loop.
  `AdjacentExactWhenSorted` shows when the answer can be relied on: when the order of
  edges is also the order of opposite vertices, and no half edge is in the way.

Three smaller divergences have no run.  A pool whose thread number is 0, which
`hardware_concurrency()` may return, accepts tasks and drops them at stop();
`NoTaskLost` is therefore stated for pools with workers.  And `next_id()` of a
removed id answers a free slot where `README.md:138-141` of the library promises an
exception.  The third is in the graphs: `graph.hpp:15` says that `add_edge(G, x, y)` "adds
the edge from the vertices x to y, if it is not there", but neither graph looks whether
it is there (`directed_graph.hpp:35-42`, `undirected_graph.hpp:41-49`), and a second call
adds a parallel edge with an id of its own.  What the graphs implement is therefore a
multigraph, and `Multigraph` says so; `ImplementsMultigraph` does not show the words of
`graph.hpp:15`, which the code does not keep.

What the passing properties of the graphs say between the lines: a directed edge
stays when its target is removed, and leads to the next vertex that gets the id
(`Multigraph` says which end an edge belongs to).  A self loop in an undirected graph
cannot be removed without undefined behaviour.  A failed `add_edge` leaves an edge that
no call can remove (`FailedAddEdgeStays`): `remove_edge` with its id throws or is
undefined.  Nobody returns that id, but a client may hold it from an edge that had it
before, or see it in `associated_edges()` of the vertex that knows it; in an undirected
graph `remove_edge` then takes the entry from that vertex before it throws, and the
vertex can be removed.  Once the missing vertex exists, `remove_edge` of the leftover,
and `remove_vertex` of a vertex that knows it, erase `end()`.  `GraphInv` says that
these two, the loop and the leftover (`Trap`), are the only ways to undefined behaviour.
When `remove_vertex` throws half way in an undirected graph it keeps entries of edges it
has removed; from there on (`torn`) the graph is no multigraph any more, and of the
graph's properties only the types and the second part of `FailedAddEdgeStays` are
claimed.  Of the readers: a copied reader is a window on its
original, its own variables never change by a read (`UnboundIsFrozen`), and a
number out of range reads as 0 without an exception (`NumbersRoundTrip`).

## 4. The proofs

Everything below holds for all values of the constants that satisfy
`QueueAssumption`, `PoolAssumption`, `NullIndexAssumption`, `ListsAssumption`,
`RepoAssumption`, `GraphAssumption`, `MatrixAssumption` and `ReaderAssumption`: any
numbers of threads, values, addresses, tasks, list heads and nodes, vertices, edges,
matrices and texts, finite or not, any sizes of matrices, and any width of `size_t` and
of the integers.

**Queue** (`ThreadQueueProofs`).  `FifoOrder` is not inductive: it says nothing of
the nodes.  `QueueInv` adds who owns which mutex (`LockInv`), what a consumer has
learned under `head_mutex` (`PopInv`), that new nodes of running pushes are live
and distinct (`NewNodeInv`), and `ChainInv`: there is a function from the numbers
of the values linked and not yet popped, and the dummy, to live distinct nodes,
linked in order and holding the values.  `PushLink` extends that function by one,
`PopHead` drops its first point, every other step leaves it alone (`ChainStable`).
The chain starts at `head` and ends at `tail`, which gives `EmptyIsExact`
(`ChainEnds`).  `QueueSafe`, `FifoSafe`, `EmptySafe`, `DrainedSafe` and
`NodesSafe` follow.

`ClosableQueueImplemented` maps the queue to `ClosableQueue`: `Contents`, what was
pushed and not popped, is the abstract queue, and the threads between the locked
test of `closed` and the link are the accepted ones.  `PushRecheck` accepts,
`PushLink` puts, `PopHead` takes the head of `Contents` because of `FifoOrder`,
`CheckEmpty` may drain because of `DrainedIsFinal` and `EmptyIsExact`; every other
step is a stutter.  `FreshInv`, for the pool: no value is linked twice, since a
running push carries one that no other push carries or has linked.

**Pool** (`ThreadPoolProofs`).  `PoolUsesQueue`: every step of the pool is a step
of the queue or leaves it alone, hence `QueueInv` holds inside the pool.
`StepFrame` says what a step inside a queue call does to the variables the pool
looks at.  `PoolInv` adds where threads may be (`PlaceInv`), that `stopped` with
`stop_mutex` free means all workers are done (`StopInv`), that a worker leaves
only when the queue is closed and drained (`ExitInv`), and where every popped task
is (`TaskInv`).  `NoTaskLostSafe`: when stop() has returned, some worker has left,
so the queue is drained and everything pushed was popped; nobody holds a task any
more, so it has run.

Two more invariants are proved on top of `PoolInv`.  `FutureInv`: a linked task has
a future or a `submit()` about to return it (`Linking`); with the part of `TaskInv`
about futures it gives `FutureSafe`.  `OnceInv`: whatever is held or has run was
popped, and what is held has not run and has one holder.  A pop adds a holder
(`PopOnce`), and by `FifoOrder` and `FreshInv` what it pops was not popped before; a
worker that takes a task already had it (`PoolHolds`), and one that finishes gives
it up as it runs (`RunOnce`).  `TaskRunsOnceSafe` follows.

**Lists** (`IndexedListProofs`, `IndexedListsProofs`).  `Arranged(l, head, s)` says
that the nodes of the sequence `s` are distinct, that each is linked to the one after
it, the last to the first, in both directions, and that `head` is the first.
`ForwardIs` and `BackwardIs`: whoever walks a ring along its links, however long it
is, reads `s` and its reverse.  The walks are recursive functions; what they compute is
proved by induction over the set of the lengths for which it holds (`SetInduction`,
from the well-foundedness of the numbers), after showing that a function with the
recursion's equation exists.  `FormListArranges`, `PushArranges`,
`InsertArranges` and `RemoveArranges` say of which sequence the result of each
operation is an arrangement: the old one with a node joined at a position (`Joined`)
or with a position dropped (`Dropped`); `KeptElsewhere` says that rings of other nodes
stay as they are.

None of the properties of the run `lists` is inductive: each of them looks at what a
walk reads and not at the links that the next operation follows.  The inductive
invariant `ListsInv` has every head arrange what a walk from it reads, has no node in
two lists, and has both links of all other nodes null.  Each call replaces one ring by
another one and touches no node outside of it.  From `ListsInv` follow
`ListsTypeCorrect`, `NodesUnlinkedIffInNoList`, `ListsReadBothWays`,
`InsertsAreExact`, and `ListsImplementSequences`, where the abstract state is what the
walks read and every call is the sequence operation of its name.

**Repository** (`ValueRepoProofs`).  `RepoInv`, which the run checks, says that links
are inverse to each other and join no used and free slot, but not that the used slots
are one ring rather than several.  The inductive invariant `OrderInv` does: the walk
from `used_head` is an arrangement of exactly the slots with the flag, the walk from
`unused_head` one of exactly the others.  `NodeMoves` moves a node from one ring to
the front of the other; every call is that (`TakeStep`, `GiveBackStep`), after
`grow()` where there is no free slot, and `GrowFits` says that the guard of `grow()`
keeps the new size within `size_t`.  From `RingsHoldAllSlots` follow `RepoSafe` (the
links that agree, `OrderImpliesInv`), `ObjectsStayPutSafe`,
`IterationVisitsUsedOnceSafe` and `RepoImplementsObjectPool`, with the values of the
used slots and the order of their ring as the abstract state.  `UsedHasValueSafe`:
without throwing constructors and direct calls of `reuse_object()` a used slot holds a
value, so the run `repo_assign_throws` names one of the only two causes.

A walk needs to know what it has visited.  `WalkInv` adds to `OrderInv` that a walk at
the slot `i` has seen nothing of what lies ahead of `i` in the order of the ring, and
everything behind it, `i` included, that was there all the time.  A new object comes to
the front of the ring, which is behind a walk forwards and ahead of one backwards; a
removed one leaves the order of the others as it is (`Changes`).  `WalkMissesNothingSafe`
and `WalkNeverRepeatsSafe` follow, and `WalksAreCalls` carries all theorems about calls
over to walks.

**Graphs** (`GraphProofs`).  `GraphInv` is inductive as it stands: until the graph is torn,
the set of a vertex holds the entries of the added edges that have it at an end
(`RefsOf`), and besides them at most first halves of failed ones (`HalfRefs`).
`RefKinds`, `RefIsAdded` and `RefIsHalf` go from an entry of a vertex to its edge,
`AddedHasRefs` goes back, and `FailedIsHalf` says that of a failed edge only the first
vertex can know, so `remove_edge` never gets past both its ends (`FailedIsNotWhole`).  With
them each call has a lemma (`AddEdgeKeeps`, ...) that its change of the edges is matched
in exactly the vertices at their ends.  `LoopMeets` and `UndefinedAtTrap` are the part
about undefined behaviour: what `remove_vertex` passes without harm is an added edge, it
throws at halves only, and where a call is undefined there is a `Trap`.  A directed
graph's `remove_vertex` meets no half, so it never throws half way.  From `GraphInv`
follow `GraphSafe`, `FailedAddEdgeStaysSafe` and, with the ends of the added edges as
the abstract state, `MultigraphImplemented`: every call is one step of `Multigraph` or
none, unless it leaves the graph torn.  `GetEdgeExactSafe` needs that a nonempty set of
ids has a least one (`LeastId`), since the search returns the first.

`AdjacentExactWhenSortedSafe` is about a search in a tree of any shape, so `Finds` is
recursive over the subsets of a set.  No call makes the set of a vertex infinite
(`FiniteInv`), and the recursion goes down in cardinality (`SubtreesShrink`); both are
needed for a function with its equation to exist (`DescentExists`).  `Reached`
describes a descent under way: what has been left behind is before the vertex that is
sought, or not before the last element where the descent turned left.  In a set in
which both orders agree each turn keeps that (`DescentExact`), so every tree gives
the right answer (`FindsExact`), which `Whole`, that no half edge is in the way, lets
one read as a statement about the edges of the graph.

**Matrices** (`MatrixChainProofs`).  The invariant `Typed` says that every value has
the size and the elements of its matrix, and that every chain that was built is
consistent.  The rest is about functions that are defined by recursion over chains
`<<i, k>>`: such a function exists if a rank bounds its recursion (`RecursionExists`)
and is the only one (`SameFunction`); the rank is the length of the chain
(`ChainRecursion`, `ChainInduction`).  `SolutionType`: `resolve` splits every chain
inside of it, also where costs have wrapped and where line 105 supplies the default.

For `SolutionIsOptimalSafe`, `WorkIsACost` says that the multiplications of the chosen
order are among the costs of all orders.  If no order costs more than `SIZE_MAX`,
neither does one of a part (`PartsBounded`); then no sum in `resolve` wraps, its cost is
the least over the splits, and by induction over chains the least of all orders
(`SolutionIsLeast`, `WorkIsLeast`).

For `EvaluationIsProductSafe`, the arithmetic modulo `Modulus` is first shown to respect
sums and products (`ModOfSum`, `ModOfProduct`, from division with remainder).  The dot
product of the code is the remainder of a sum (`TimesCell`), and sums can be scaled and
exchanged (`SumScale`, `SumExchange`), so `Times` is associative
(`TimesAssociative`).  Hence every order gives what splitting off the last matrix gives
(`AnySplit`, `OrderIrrelevant`), and that is `LeftToRight`, whose sums are over sets in
whatever order `MapThenSumSet` takes (`FoldIsSum`).

**Readers** (`DynamicReaderProofs`).  `Changes` lists the ways in which a call can
change a reader that stays alive: not at all or by an assignment of a whole reader,
by moving from it, or by what is read through a function that refers to it.  That
every step is one of these (`NextShape`) needs only the shape of the state, and
gives `UnboundIsFrozenSafe` and `FailedReadKeepsValueSafe`.  `Typed` adds the types of
what the optionals hold; that the parsers return these (`ParseType`) gives
`ReaderTypeSafe`.

`QuotedTextReadsBack` and `NumberReadsBack` say of texts of any length what is read: all
that is between the quotes, and the digits up to the first character that is none,
whatever follows.  `StringsRoundTripSafe` and `NumbersRoundTripSafe` apply them to the
texts the run checks.  What the digits are worth is compared with the sum of their
powers of ten for one and two digits (`HornerOfTwo`, `ValueOfTwo`), which is what
`NumbersRoundTrip` states: the provers know `10 ^ 1` but no law of `10 ^ n`.

**Induction.**  The library's induction theorems take an operator as a parameter, which
the provers cannot instantiate.  In its place stands `SetInduction`, a fact about a set
of numbers that follows from the well-foundedness of `<`; it is applied to the set of the
numbers for which a statement holds.  What a recursive function computes is proved with
it, after showing that a function with the recursion's equation exists at all, which
its definition as a CHOOSE does not say.

**Model-checked only.**  Liveness and its fairness (`PushAndCloseReturn`,
`PolledQueueDrains`, `SubmitReturns`, `OnlyMissedCloseHangsStop`): the provers do
not handle ENABLED.  Every other property of a passing run is the statement of a theorem.

## 5. What is not modelled, and the plan

Every component with state of its own is modelled, and every safety property the runs
check is proved.  Left to generalise is the value of numbers of more than two digits,
which needs the powers of ten as a recursive function with an induction of its own.

Not modelled:

* References into storage: `assign_object(get_object(id))` while the storage grows,
  and matrix expressions that outlive temporary operands.  Values of the model have
  no addresses.  The documentation warns of the second (`doc/graphics/matrix.md:68-74`:
  "chain has a dangling reference to the temporary"); operands in `MatrixChain` are named
  objects, as that page asks for.
* `utility/` and the type-level half of `matrix.hpp`: no run-time state.
* `thread_joiner` and `threads_joiner`: RAII helpers that nothing uses.
* Stream operators of the repository and the graphs: they name members that do not
  exist and cannot be instantiated.  The product of two matrix expressions
  (`matrix.hpp:284`) does not compile when it is used.
* Allocation failure and throwing element types, except in `assign_object`.
* Build files, tests, benchmarks and examples.
