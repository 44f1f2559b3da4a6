# A TLA+ development of contentious

`contentious` computes on vectors in parallel without waiting: a client issues
`reduce`, `foreach` and `stencil` one after the other; workers take a snapshot
of the source, compute their partition of the dependent vector and write it
back, possibly from stale values; a *resolution* per operation later repairs the
dependent with the differences between the source and the snapshots. This
directory models the thread pool and the semaphore it sleeps on, the hand-over
from tasks to resolutions, the index arithmetic, the vector operations, the
tries that hold the vectors and the lifetimes of the vectors, checks them with
TLC on small instances, and proves the central facts with TLAPS for every size.

## 1. Inventory

| component | state | operations | interacts with |
|---|---|---|---|
| `threadpool` (`threadpool.h/.cc`) | a task queue and a semaphore per worker, one resolution queue `resns`, `rlck`, `spin`, counters, `fin_m`/`fin_cv` | `submit`, `submitr`, `finish`, `stop`, `worker`, destructor | called by the vectors; runs their closures |
| latch and hand-over (`reattach`, `cont_vector-impl.h:141-160`) | one latch per dependent | count down, test, `submitr` | workers race on it; producer of `resns` |
| partitions and index maps (`contentious.h/.cc`) | none | `partition`, `offset`, `identity`, `alltoone`, `safe_mapping`, `is_monotonic` | used by kernels and resolutions |
| `cont_vector` (`cont_vector.h`, `-impl.h`) | `_data`, `_orig`, `dlck`, `tracker` (with `_used`, `imaps`, `ops`, `icontended`, `frozen`), `latches`, `splinters`, `contended` | `reduce`, `foreach` (two), `stencil`, `freeze` (two), `detach`, `reattach`, `resolve`, `resolve_monotonic`, `refresh`, `abandon` | tasks and resolutions run in the pool, on shared vectors |
| kernels (`contentious.h:131-238`) | none | `reduce_splt`, `foreach_splt`, `foreach_splt_cvec`, `stencil_splt` | between `detach` and `reattach` |
| tries `bp_vector`, `ps_vector`, `tr_vector` (`bp_vector*`, `tr_vector-impl.h`) | nodes with ids, shared between versions | `set`, `push_back`, `mut_set`, `mut_push_back`, `new_id`, `assign`, `next_diff_ids`, transient/persistent | all data of the vectors |
| iterators (`bp_vector_iterator.h`) | a path in a trie | `++`, `+=`, `*` (copies on write) | kernels, resolutions |
| clients (`tests/`) | a ring of vectors | chains of operations, `finish`, destruction of vectors | the vectors, by reference |
| `LifoSem`, `Baton` (vendored folly) | `head_`, a stack of nodes, a `state_` per node | `wait`, `post` | `sems[p]` of the pool |
| `util.h`, `slbench.h`, other vendored folly, fmt | - | logging, timing, primitives | |

What is hard here, and what makes each part correct:

* **Pool.** Workers choose between a resolution and a task with one token, give
  the token up if `try_lock` fails, and post everybody after a resolution. Right
  if no task and no resolution is left with nobody awake, resolutions run one at
  a time, in issue order, after all tasks of their operation, and `finish()`
  returns exactly when all of it is over.
* **Hand-over.** `count_down()` and `try_wait()` are two steps. Right if a
  resolution is submitted, and not before the last worker has reattached.
* **Index arithmetic.** Right if partitions split the vector and the bounds of
  the partitions reveal every index that one worker writes and another reads.
* **Vectors.** Right if, whatever was stale, a resolved vector holds what the
  sequential program computes, and no longer changes once `finish()` returned.

* **Tries.** Versions share nodes, and a transient writes a node in place when
  the node bears its id. Right if no write through one vector shows in another,
  `assign` copies exactly its range although it links whole branches, and
  comparing ids (`next_diff_ids`) overlooks no difference.
* **Lifetimes.** Tasks and resolutions keep references, trackers keep addresses.
  Right if nothing in flight refers to a destroyed vector, and an operation finds
  the maps it was made with although entries outlive their dependents. The second is not
  always so; the module says when.
* **Semaphore.** Nodes are recycled while posters still know their index, and a
  futex wake may reach the next owner of the memory. Right if it behaves like a
  counter and no wake-up is lost.

`PROJECT.json` lists the hazards line by line.

## 2. Modules

| module | models | extends |
|---|---|---|
| `ContentiousConstants` | `HWCONC` | |
| `Executor` | abstract: what the pool and the latch promise | `ContentiousConstants` |
| `Threadpool` | `threadpool`, tail of `reattach`, slots and indices of `resns` | `ContentiousConstants` |
| `ThreadpoolProofs` | theorems about `Threadpool` | `Threadpool` |
| `Mapping` | `partition`, maps, `safe_mapping`, contended indices, stencil ranges | `ContentiousConstants` |
| `CommonProofs` | the invariant of `Executor`, for all that run on it; lemmas about the operators of `Mapping`; the least element of a set of naturals | `Executor`, `Mapping` |
| `Contended` | the loop of `resolve_monotonic` that collects `icontended` | `Mapping` |
| `ContendedProofs` | theorems about `Contended` | `Contended`, `CommonProofs` |
| `ContVector` | the vectors: operations, tasks, resolutions | `Executor`, `Mapping` |
| `ContVectorProofs` | theorems about `ContVector` | `ContVector`, `CommonProofs` |
| `MCContVector` | client programs and inputs for TLC | `ContVector` |
| `Trie` | nodes, the operations of the tries and the iterators, as operators on a heap | |
| `TrieProofs` | lemmas about the operators of `Trie` | `Trie` |
| `Vectors` | abstract: a vector variable holds a value | |
| `BpVector` | programs over variables of the three classes, beside `Vectors` | `Trie` |
| `BpVectorProofs` | theorems about `BpVector` | `BpVector`, `TrieProofs` |
| `MCBpVector` | any small program; the program of a reattach | `BpVector` |
| `ContTrie` | `ContVector` with its vectors kept in tries | `Executor`, `Mapping`, `Trie` |
| `MCContTrie` | client programs and input for TLC | `ContTrie` |
| `Lifetimes` | addresses, trackers, construction and destruction | `Executor`, `Mapping` |
| `Clients` | `cont_heat` and other programs that drop vectors | `Lifetimes` |
| `ClientsProofs` | theorems about `Clients` | `Clients`, `CommonProofs` |
| `MCClients` | symmetry of the addresses | `Clients` |
| `Semaphore` | abstract: a counter of tokens | |
| `LifoSem` | `LifoSem::wait/post`, `Baton`, futex | |
| `LifoSemProofs` | theorems about `LifoSem` | `LifoSem` |
| `MCLifoSem` | threads and their calls | `LifoSem` |

How they fit together: `LifoSem` implements `Semaphore`, whose tokens are the
`sems` of `Threadpool`; `Threadpool` implements `Executor`; `ContVector`,
`ContTrie` and `Clients` run on `Executor`; `BpVector` shows that tries are
values when transients are used with discipline, and `ContTrie` looks at the
place where `cont_vector` does not keep that discipline.

**Threadpool.** State: the members of `threadpool`, one program counter per
worker (`wpc`) and for the main thread (`mpc`), the latch of every operation, and
history variables (`rruns`: how often a resolution was started, `crashed`: a
closure was called that is not whole, `finished`). Operation *k* is the *k*-th call of `reduce`,
`foreach` or `stencil`; its closures are represented by *k*. The main thread
issues operations (`IssueOp`, then `SubmitWrite`/`SubmitPost` per worker), calls
`finish()` (`FinTasks`, `FinResns`, `FinReturn`, `FinBlock`) and at the end
`stop()` and the destructor. `WorkerStep(p)` follows `worker(p)` line by line.
`resns` has several producers, which its class does not allow, so its `write` is
five steps: load the index (`LoadWrite`), compare it with the other one
(`CheckFull`), construct the `std::function` in the slot, which begins by emptying it
(`BeginRecord`) and ends by making it callable (`EndRecord`), and store the index
(`StoreWrite`). `building` holds the slots between begin and end. A producer that was overtaken
constructs again in a slot that is already published: if the consumer calls it in
between, the program is over (`crashed`); if it pops it in between, the
constructor may or may not restore what the destructor has destroyed. Task queues have one
producer and one consumer and are sequences.

Merged steps, each sound because the merged part commutes with everything other
threads do in between: `sems[p].wait()` with the test of `spin` (`spin` only
goes from true to false, and the token stays until it is taken); a loop of posts
(posting earlier or later only moves when others wake, and a waiting worker may
always be slower); the front task up to its `count_down()` (the rest of the
task touches no state of the pool); the test of `resns` with the start of the
closure (only the holder of `rlck` removes anything, and `frontPtr()` loads the same
index); in `popFront()` the destruction of the closure with the store of `readIndex_`
(a producer that is overtaken writes to the slot before or after both). `comp_resns` is
never read and is represented by `rruns`.

**Executor.** Five actions: issue an operation, run the next task of a worker,
start and end a resolution, return from `finish()`. A resolution starts after
all tasks of its operation, when none is running and all earlier ones have run,
and may start up to `HWCONC` times: that is what the code guarantees, not once.
`ImplementsExecutor` maps `tdone[p]` to the completed tasks plus the one that has
counted down, and `resolving` to the closure a worker is calling.

**Mapping, Contended.** Pure operators with the names of the source.
`Contended` runs the loop over the workers for one vector size and one offset
map chosen at the start.

**ContVector.** Vector 0 is the client's input, vector *k* the dependent of
operation *k*. A vector is a function from indices to integers; a copy is a
value. `IssueOp` constructs the dependent and freezes, `Detach` takes a snapshot
under `dlck`, `Reattach` runs the kernel on it and copies the result under
`dep.dlck`. A resolution is a sequence of steps, one per index map, because
`dep.dlck` is released in between and other workers may detach from the
dependent meanwhile; `ResolveFrozen` is the vector argument of `foreach`,
`ResolveReduce` is `resolve()`. `undef` records a division by zero, a write at
`end()`, or a read of a snapshot that was never taken. Exact integers stand for
doubles, so rounding is not modelled and the 0.4 of `stencil_splt` is the integer
`Kernel`; `Ratio` is the quotient, which the passing
runs need only where it is exact. The argument of a `foreach` is a vector
that is not the result of a `reduce`, as in all clients.

**Trie, Vectors, BpVector.** A heap is a sequence of nodes `[type, id, slot]`, a
pointer an index into it, a vector the members of `bp_vector_base` and its class.
Every operation maps a record of heap and vector to such a record, and
`Own` is the one loop they all contain: walk down, and replace each node that the
class, or the iterator, does not accept by a copy under the vector's id. What the
class accepts is `node_keep` (never for `ps_vector`, the own id for `tr_vector`,
everything for `bp_vector`); iterators ask for the own id whatever the class
(`iter_keep`). A mutable iterator copies paths when it is constructed or moved,
which is part of `Each`. `assign` follows its five phases; a null or a leaf taken
for branches, or a range across two arrays, sets `ub`.

`BpVector` has one action per operation and runs `Vectors` in lockstep: `val` is
the promised value of each variable, and `ReadsBack` says that reading the trie
gives it. The classes leave one thing to their users: after a transient was
copied or made persistent, two objects bear the same id and both would write in
place. `hold` states how far the code and tests go: "sole" (nothing was derived
since the id was taken) may be written, "tip" may still be extended past the
shared elements, as the tests do with chains of `push_back`, "shared" may only be
read. A node that `bp_vector` constructs without an id (`bp_vector.h:83`) gets
either the 0 it is compared with or something else. `DiffComplete` is about vectors
all of whose nodes were written by transients: `ps_vector` gives every node the id
0, so `next_diff_ids` cannot tell its versions apart. `cont_vector` keeps its data
in a `tr_vector` and compares nothing else. `assign` copies some ranges that end at the
capacity wrongly: `Astray` says which, and with `Straying` programs may assign them. Then
the target is promised nothing and takes what the code leaves in it (`Contents`), while all other variables
must keep their values.

**ContTrie.** `_data`, `_orig`, `_used` and the splinters of `ContVector` are
tries over one heap; `CV == INSTANCE ContVector` with the contents of the tries in
place of its vectors supplies the values to compute and the property. The copy
constructor (`cont_vector.h:182`) gives the *copy* a new id and leaves the source
its own, without `dlck`: a task that reattaches to the source later may write a
node the copy already shares. This is harmless, for two reasons the run confirms:
a dependent is written everywhere before it counts as resolved, and the worker
that takes a snapshot has in an earlier task renewed the id of every vector whose
nodes the snapshot shares, so `SnapshotsStable` holds. Ids come from a counter and are only compared; `UniqueId`
names them after who takes them, which makes states that differ in the order of
taking equal.

**Lifetimes, Clients.** A vector is a number (which operation made it) with an
address that the allocator may use again. `Operate` is the constructor of the
dependent together with its calls of `freeze`: `tracker.emplace` keeps an entry
that is there, the second `freeze` appends to it; `Resolve` erases the `frozen` vectors
of an entry and, through them, those of others. No entry is ever erased, so an operation
whose dependent is where an earlier one was works with what that left.
`TrackerFits` says with which operations this goes well and that with a stencil it
does not. `Destroy` waits for the latch,
which the workers' tasks bring to zero, and not for the resolution. `Clients`
drives it twice: `cont_heat` with its ring of `t_store` vectors, one destroyed per
step, and `finish()` once in `t_store - 1` steps; and a program that makes, uses again
and drops vectors in any order. With `Careful` it finishes before it drops a vector, as the
other clients do. A vector may be operated on after its dependent was dropped.

**LifoSem, Semaphore.** Every access to `head_`, to `next` of a node and to the
`state_` of a Baton is a step. `idxToNode(head.idx()).next` is read from a node that
may be recycled; the futex wakes whoever sleeps on the address. Sequence numbers
are not bounded, so their wrap-around after 2^32 changes is not modelled. Tokens
are the value, the posts between their pop and their delivery, and the
deliveries not yet taken.

## 3. Runs

TLC's `CHECK_DEADLOCK` is on everywhere; the pool ends in `Terminated`, the
vectors in a repeated `Finish`, the other programs in a step that says they are
done.

| run | bounds | shows |
|---|---|---|
| `pool_safety` | 2 workers, 2 operations, queues of 3 slots, `finish()` between operations or not; 2 million states | all safety properties, the inductive invariant `IInv`, and the refinement `ImplementsExecutor` |
| `pool_liveness` | the same, one `finish()` at the end, 1.1 million states | `EveryOpResolved` under fairness |
| `contended` | 4 workers, sizes 1 to 24, offsets -3 to 3 | `TypeOK`, `PartitionExact`, `ContendedComplete`, `KernelCoversInterior` |
| `cont_vector` | 2 workers, 6 elements, 7 client programs of 3 operations, each resolution once | `ResolvedIsSequential`, `TrackedStale`, `Settled` |
| `trie_clients` | nodes of 2 slots, 3 variables, any 4 operations after a first vector of two elements of any class; ranges may be astray; 630,000 states | `ReadsBack`, `SoleOwner`, `DiffComplete`, `TypeOK` |
| `trie_reattach` | nodes of 2 slots, sizes 1 to 9, all pairs of ranges of two splinters that are not astray; 10,000 states | `ReadsBack`, `DiffComplete` on tries of up to four levels |
| `cont_trie` | 2 workers, 6 elements in tries of 3 levels whose middle leaf both workers write, 3 client programs | `SnapshotsStable`, `TrieResolved` |
| `clients` | 2 workers, a ring of 4 with 9 stencils, or any 3 operations; 5 addresses; 190,000 states | `NoneDangling`, `TrackerFits` |
| `lifosem` | 2 waiters, 2 posters, 3 waits and 3 posts, 2 nodes | `StackExact`, `BatonAsserts`, `ImplementsSemaphore`, `EveryWaitReturns` |

Why the bounds are enough to meet the hard cases: two workers race on the latch
and on `resns`, hold `rlck` against each other and leave `finish()` waiting; two
operations let a resolution of one overlap the tasks of the next; 3 slots make
the indices wrap around and the queues become full. Three operations are what a stale value
needs to be repaired in one vector and be stale again in the next, at an index
that is not at a partition's bound. Sizes that are not multiples of 4 give
short and empty partitions. Nodes of two slots make the tries deep: three
elements are two levels, five are three, and four operations are enough to push
past the end of the trie, share its nodes and write them through another
variable. The sizes
and ranges of `trie_reattach` begin and end inside, at the end of and behind leaves
and branches of every level. In `cont_trie` the bound of the partitions lies
inside a leaf. A ring of four is reused twice in nine steps, with `finish()` at
every position relative to the reuse; five addresses are one more than the ring, so
that every new vector may get the address of the one dropped before. Three operations let
a vector be a source, lose its dependent and be a source again at the same address, twice. One waiter
that waits twice and one poster that posts twice let a node be popped, recycled
and pushed again under a poster that has loaded the old head. What does not
depend on the bounds is proved (section 5).

`FinishSafe`, `ExitAssert`, `TornByTwin` and `ImplementsExecutor` are results
for two workers (proved for at most two, and any number of operations and slots,
in section 5): with three they fail, because a delayed writer can move
`writeIndex_` back (see below). With two it cannot, but it can build its closure
once more over the one that is being called (`pool_torn`). That ends the program, so these
properties and `EveryOpResolved` speak of what happens before: a program that
`crashed` takes no further step. `KernelCoversInterior` asks for more than one
element: for a vector of one element and a single worker the stencil loop of
`contentious.h:229` would run from 1 to -1. `cont_vector` says what
follows *if* the executor runs each resolution once (`MaxRuns = 1`); the pool may
run it again, and `resolved_twice` shows what happens then.

Fairness: weak fairness of the main thread and of every worker. The threads are
operating-system threads, and no guard is enabled infinitely often without
staying enabled: a worker that fails `try_lock` goes on to its task, a spin on a
full queue is a loop of its own steps. Spurious wake-ups of `fin_cv` are allowed
and never relied on. `LifoSem` has weak fairness of every thread's own steps;
`SpuriousWake` is not among them, so a sleeping waiter counts on a futex wake only. A
failed compare-and-swap means that another thread succeeded, so with finitely many
calls no stronger fairness is needed.

### Disagreements between the code and its own statements

Three runs show one each:

| run | property | what happens |
|---|---|---|
| `pool_lost_wakeup` | `FinishReturns` | `fin_cv.notify_one()` (`threadpool.cc:80`) is called without `fin_m`; the last one can fall between the predicate and the wait, and `finish()` never returns |
| `pool_torn` | `CalledWhole` | two workers find the latch at zero and both call `resns.write()` (`threadpool.h:48`); the overtaken one constructs its `std::function` in the slot whose closure a worker calls. `ProducerConsumerQueue.h:33-34`: "a one producer and one consumer queue" |
| `resolved_twice` | `ResolvedIsSequential` | two workers find the latch at zero (`cont_vector-impl.h:146`), the differences are added twice |

The models show the following ones too, when their constants are set to leave
what the passing runs assume:

| module and constants | property | what happens |
|---|---|---|
| `Threadpool`: `HWCONC = 3`, `MaxOps = 1`, `QUEUE_SZ = 4`, `EarlyFinish = TRUE` | `ExitAssert` | `submitr` is called by several workers on a one-producer queue; `assert(resns.isEmpty())` (`threadpool.cc:29`) fails |
| `Contended`: size 5 for 4 workers | the conclusion of `KernelCoversInterior` without its premise | the last partition is inverted (`contentious.h:41`), the stencil loop starts behind its end |
| `ContVector`: `HWCONC = 2`, `Size = 4`, three chained stencils | `ResolvedIsSequential` | repairs spread by one element per stencil; the offset maps carry them into the first and last element, which the kernel never computes (`cont_vector-impl.h:310`). With partitions of *c* elements it takes *c* + 1 stencils, so the heat test, whose partitions are large, does not meet it |
| `ContVector`: `<<Stencil(0), Reduce(1), Reduce(1)>>` | `ResolvedIsSequential` | the second `reduce` overwrites the one `_orig` (`cont_vector-impl.h:16`) that the first is resolved against |
| `ContVector`: `<<Stencil(0), Stencil(1), Foreach(2, 3)>>` on 2, 2, 1, 5, 1, 1 | `ResolvedIsSequential` | the inverse of `mult` divides by a stale zero (`cont_vector-impl.h:327`) |
| `BpVector_reattach.cfg`: `Straying = TRUE`, and `Assign` without `~Astray` and the disjunct below it | `ReadsBack` | a range that ends at the capacity of a trie of three or more levels and begins in its first subtree, or that is the whole of a single leaf: `contained_at_shift(a, b)` (`bp_vector_base-impl.h:219`) follows `b`, whose digits are all zero, so the paths part in the wrong place. With nodes of 1024 slots this takes 2^30 elements, or exactly 1024 in one range. The comment at `:184` promises a copy "from at to at+sz" |
| `BpVector.cfg`: `EmptyShared = TRUE` | `ReadsBack` | `mut_push_back` of a first element (`tr_vector-impl.h:26`) writes the root leaf of an empty vector whoever owns it, against what `bp_vector.h:256-257` says ids are for |
| `Clients`: `Careful = FALSE` | `NoneDangling` | a vector is dropped after its latch and before its resolution; the destructor's comment (`cont_vector.h:210`) says it waits for "this round of resolutions" |
| `Clients`, as it is run | `tracker[made[k].src][at[k]] = Wanted(made[k])` for a stencil | a dependent at the address of a dropped one finds its entry, and `stencil` appends three more maps to it (`cont_vector-impl.h:29-33`), so its differences count twice. `TrackerFits` says that this is always so |

Met on the way and not given a run: `cmap > size` (`cont_vector-impl.h:277`,
`:313`) lets `cmap = size` pass (`Undefined` in `ContVector` covers it); the
kernels ignore the operator and the coefficients they are given and always
multiply, add, or use 0.4 (`contentious.h:149`, `:170`, `:235`), so `ContVector`
computes as they do and its programs use the coefficients of the kernel.

## 4. Mutants

For every property of a passing run `PROJECT.json` names a definition and a
mutated form of it (marked `mutant` in the modules): an index that does not
wrap, a missing post, `=` for `&=`, a lock released too early, corrections that
are not recorded, an id that is not renewed, a subtree too large skipped, a sequence
number not advanced, a wake-up trusted. TLC finds the property violated under
each.

## 5. Proofs

All with TLAPS. Each invariant was first checked by TLC on the runs' instances.
What the theorems assume:

| theorems about | assumptions on the constants |
|---|---|
| `Threadpool` | `HWCONC >= 1`, `MaxOps >= 1`, `QUEUE_SZ >= 2`; the second half also `HWCONC <= 2` |
| `Executor` | `HWCONC >= 1`, `MaxOps >= 1` |
| `Mapping`, `Contended` | `HWCONC >= 1`, `MinSize >= 1`, integers otherwise |
| `ContVector` | the named assumptions of the module: no partition is empty, integers, an operation's arguments come before it and are not results of a `reduce` |
| `ContVector`, sequential results | also `Stencils`, `LongPartitions`, `MaxRuns = 1` |
| `Clients` | `t_store >= 3`; `NoneDangling` also `Careful`, which concerns the free program only |
| `BpVector` | `BP_BITS >= 1`, some variable; `EmptyShared = FALSE` |
| `LifoSem` | finitely many waiters, posters and nodes, no thread both |

### Pool, any number of workers (`ThreadpoolProofs`, first half)

`Invariance` is `Spec => []IInv`, with one lemma per action. None of the
properties is inductive alone; `IInv` adds:

* `QueueInv`: a task queue holds exactly the operations after the completed
  ones, so `Head` is the operation the worker is at;
* `LatchInv`: a latch is the number of workers that have not counted it down.
  Its step needs cardinalities (`CountDown`);
* `ClosureInv`: only operations with a latch at zero are about to be queued, are
  in a slot, or have run. It holds of *every* slot, used or not, and so does not
  care that producers overwrite one another's indices: that is why
  `ResolveAfterTasks` holds for any number of workers although the queue breaks;
* `LockInv`, `HolderInv`: the holder of `rlck` that saw `resns` empty and is
  about to unlock still has a token, or a producer is about to post everybody.
  Without it a resolution written in that gap would look stranded;
* `FinishInv`: queues the predicate of `finish()` has seen empty stay empty,
  since the main thread is the only one that submits.

From it follow `TypeCorrect`, `ResolveAfter` (`ResolveAfterTasks`),
`NoTaskStranded` (`TokenInv`), `NoResolutionStranded` (`ResnWake`) and
`FinishDrains` (`AllTasksDone`).

### Pool, two workers (`ThreadpoolProofs`, second half)

`resns` is a queue for one producer, and `submitr` is called by whoever brings
the latch to zero. With two workers the order of its closures and its indices survive this,
and the theorems say so for every number of operations and every queue size under the
hypothesis `HWCONC <= 2`; with three they do not (section 3), so the hypothesis cannot
be dropped. What does not survive even with two is the closure itself while it is
written a second time (`pool_torn`); the theorems say that this is the only way to call one that is not whole.
`ResnsInv` is inductive together with `IInv`:

* `WindowInv`: the slots between the indices hold closures, none destroyed, in issue
  order, of operations that `finish()` has not covered, and nothing issued later
  has run;
* `WriterInv`: a worker between its load and its store either writes behind the
  last slot (`WritesBehind`), or has been overtaken by the other worker and
  writes again, in the slot where that one has written, the closure of the *same*
  operation (`WritesAgain`). It is never further behind, because the next
  latch cannot reach zero without it. This is where two workers are needed: of three, two
  can be overtaking and one overtaken by both;
* `BuildInv`: a slot is under construction only by a worker that stands between the
  begin and the end of it. With `WriterInv` that worker is behind the last slot,
  where nobody calls, or writes again;
* `CoverInv`: an operation whose latch is at zero has been resolved, is in
  a slot, or a worker is about to queue it;
* `CountInv`: runs and slots of an operation are at most as many as the workers
  that will not queue it any more, which bounds the runs by `HWCONC`;
* `CallInv`, `QuietInv`: the record being called is at the front; from the
  moment `finish()` has seen everything empty until the workers exit, `resns`
  stays empty.

From it follow `TornOnlyByTwin` (`TornByTwin`), `FinishResolves` (`FinishSafe`),
`ExitClean` (`ExitAssert`), and `PoolImplements` (`ImplementsExecutor`): under the
mapping of section 2 each step of the pool is a step of `Executor` or a stutter.

`ExecutorOrdered` (`CommonProofs`) is the other side of that interface: `ExecutorInv` says what
all users of the pool rely on. Resolutions run after their tasks and in order,
and `finish()` returns behind both.

### Index arithmetic (`CommonProofs`, `ContendedProofs`)

`PartitionCorrect` (`PartitionExact`): `ChunksReach` shows that `HWCONC` chunks of
the rounded-up size reach the end, `OneOwner` that `i \div chunk` is the one
owner. `ContendedCorrect` (`ContendedComplete`): `CrossingFound` shows that an
index whose image lies in another partition is collected at one of the bounds it
crosses, for any offset. `KernelCorrect` (`KernelCoversInterior`): the ranges of the
stencil loop, with what `safe_mapping` clips, meet at the bounds of the partitions.
`ContendedTyped` is the type invariant of the loop.

### Vectors (`ContVectorProofs`)

For every client program, size, number of workers and number of runs of a
resolution, `ContVectorInvariance` proves `IInv`: the executor's invariant, types
and domains, that a source of a `reduce` has been frozen before it is resolved
(`OrigInv`), that whoever has started a task has a snapshot (`TaskInv`), and
`StaleInv`: within a worker's own partition a snapshot differs from the source
only where the source's resolution has recorded a change in `contended`. That is
because the snapshot is taken after the same worker's task of the source. From it:

* `ContVectorTyped` (`TypeOK`);
* `StaleTracked` (`TrackedStale`): for elements of other partitions,
  `CrossingFound` gives the bound that `resolve_monotonic` looks at;
* `FinishSettles` (`Settled`), an action property: what `finish()` has waited for
  does not change again.

`SequentialStencils` is the main theorem: a program that consists of stencils
ends with what a sequential program computes (`ResolvedIsSequential`), however
stale the snapshots were, for every vector length and number of workers. Its
invariant `SeqInv` follows a resolution round by round: after round *i* the
dependent holds the kernel of the snapshot plus the corrections of the first *i*
index maps (`ComputedInv`); after the last one these sum up to the kernel of the
resolved source (`DoneInv`). For that no correction may fall on the
first or last element, which the kernel does not compute: changes
spread by one element per stencil (`NearInv`), so it takes as many stencils as a partition
has elements to carry them there. Its hypotheses are needed:

* `LongPartitions`, no partition is shorter than the number of operations: four
  elements, two workers and three stencils violate the property (section 3);
* `MaxRuns = 1`: the run `resolved_twice` violates it with two;
* `Stencils`: `reduce` and `foreach` are violated as section 3 shows, when a
  vector is reduced twice or a stale value is zero. The programs of
  `cont_vector` that mix the operations are model-checked.

The chain of three stencils in `cont_vector` satisfies all three hypotheses with partitions
of exactly three elements. Its two workers give a partition one neighbour; that two
neighbours make no difference is what the theorem adds, for any number of workers.

### Lifetimes (`ClientsProofs`)

`ClientInvariance` proves `ClientInv` for every size of the ring and every client. `LifeInv` is
about any of them:

* `RecentInv`: since the last `finish()` a careful client has dropped nothing in use;
* `AddressInv`: no later vector is where one that is still there is;
* `TrackInv`: a vector has an entry for an address exactly if it once had a dependent
  there, and `EntryOK` says what those dependents (`Users`) can have left in it.
  It covers every order of kinds of operations. The
  point that carries the induction is that an entry never consists of the first map
  of a stencil alone (`MapsOK`): so a stencil that finds an entry ends with too many maps;
* `FitsInv`: an operation at an address that was not used has the entry it wants, a
  stencil at one that was used has not.

`RingInv` and `LagInv` are about `cont_heat`: slot *i* holds the last
vector congruent to *i*, and the program is at most `t_store - 1` operations
past the last `finish()`. This is exactly what `RecentInv` needs when the
ring drops its oldest vector: calling `finish()` one step less often would be wrong. From
it follow `ClientsSafe` (`NoneDangling`, for careful clients) and `TrackersFit`
(`TrackerFits`, for all).

### Tries (`TrieProofs`, `BpVectorProofs`)

`TypeCorrect` (`TypeOK`), `SoleOwners` (`SoleOwner`) and `ReadsCorrect`
(`ReadsBack`) hold for any number of variables, programs of any length, vectors of any
size, tries of any depth and nodes of any width.

*What an operation does to one trie* is in `TrieProofs`. A node is given a place `P[n]`:
its height over the leaves, and which of the blocks of that height it covers. A
heap has the right shape (`IsHeap`) when every branch points to the nodes of the
next height that cover its sub-blocks, and a vector (`IsVec`) when its root covers the
first block of the height its `shift` says. So no invariant follows a path down: that a
path of any depth ends where it should (`OnPlace`) is a statement about numbers, proved
once by the least counterexample (`LeastNumber`), as are the other facts about paths. What each
operation leaves is then said in the same three forms:

* `Edits`: an operation writes only nodes it may write (`Mine`), namely new ones and
  those whose id is accepted, new nodes bear the vector's id, and a path of the result is the old one,
  a new one, or, for `assign`, one of the vector assigned;
* `Filled`: after `set`, `mut_set` and a kernel's loop the elements named have their
  new values and the others their old ones; `Pushed` is the like for
  `push_back`, which also may add a level;
* `Spliced`: after `assign` the elements `a .. b - 1` are those of the vector assigned and the others
  are the old ones, and `ub` is not set. It is proved phase by phase (`Short`, `First`,
  `Upwards`, `Across`, `Downwards`, `Last`): each phase takes over one more range
  of blocks, and the ranges together are `a .. b - 1`.

*What the variables know of each other* is in `BpVectorProofs`. `Valid` says that there
are places for the nodes with `World`:

* `Tries`: all variables are vectors of the right shape with a leaf for every element;
* `Ids`: ids are older than the next one, transients that may be written have different ones;
* `Plain`: what a `bp_vector` reaches bears no id of a transient, and two `bp_vector`s
  that may be written share nothing;
* `Soles`: nobody else reaches a node that a "sole" owner writes in place;
* `Tips`: of a node that a vector which may still grow writes in place, others use
  only elements that it has itself, so a push past its end does not touch them.

`Tips` is what makes `SoleOwner` inductive: a transient that was made persistent
shares its last leaf and still pushes into it. `Told` adds that the elements the tries
give are `val`, and `Proper` that `ub` is false unless astray ranges may be assigned. `Turn` is the shape of all
operations that make a new vector of one variable, and `NextValid` and `NextTold` have
one case per action.

The hypothesis is needed: with `EmptyShared` the root leaf of an empty vector, which has
no element `Tips` could be about, is written by whoever pushes first (section 3).

`ReadsCorrect` promises nothing of the elements of a vector that was assigned a range that
is `Astray`, because `assign` does not copy those right (section 3). It does say
that no other vector changes, and `TypeCorrect` and `SoleOwners` hold without exception: even then `assign` only
links blocks of the right height. With `Straying` such ranges may leave the defined
behaviour (`ub`), after which `ReadsBack` says nothing. For all other ranges that end at the capacity,
`EndParts` shows that the path to `b`, whose digits are those of 0, parts from the path to
`a` where it should, at the root.

### Semaphore (`LifoSemProofs`)

`Invariance` proves `IInv`, for any number of waiters, posters, calls and nodes:

* `OwnInv`: a node has one waiter or is in the pool;
* `BatonInv`, `PostInv`: what the `state_` of a node may be where its waiter is; a popped
  node's waiter is still in its hand-off, and only one poster delivers to it. Hence
  `BatonCorrect` (`BatonAsserts`);
* `HeadInv`: the protection against recycled nodes. If `head_` still has the sequence
  number a poster loaded, then the node it loaded is on the stack with the same
  `next`, even if it was recycled in between;
* `StackInv`: the list from `head_` contains exactly the nodes of the
  waiters not yet popped, once each. It is stated by the existence of a numbering, whose
  steps (push, pop) shift it by one, so no induction is needed. Hence `StackCorrect`
  (`StackExact`).

`SemaphoreCorrect` (`ImplementsSemaphore`): the value, the pops under way and the
deliveries not yet taken are a number of tokens that `post` raises and the
return of `wait` lowers by one, and that is positive then.

### Only model-checked

* Liveness (`EveryOpResolved`, `EveryWaitReturns`) and `ENABLED`, which the prover
  does not handle.
* `ResolvedIsSequential` of programs with `reduce` and `foreach`: their
  resolutions divide, and are right only where no stale value is zero.
* `DiffComplete` of `BpVector`. It needs a statement about the past of two vectors: nodes with
  the same id at the same place have had the same contents since the `_orig` was taken. `World`
  says nothing of equal ids in different nodes.
* `SnapshotsStable` and `TrieResolved` of `ContTrie`. There `SoleOwner` fails (section 2): a node
  is written while a copy shares it, and the reason that this does no harm is
  the order of a worker's tasks. The lemmas of `TrieProofs` are about any heap and
  apply; an invariant that joins them with `StaleInv` of `ContVectorProofs` is missing.

## 6. Not modelled, and the plan

Not modelled: `stencil_old`, `stencil_oldest`, `refresh`, `abandon`, `same_imap`,
`bp_vector::make_transient` (no caller); `insert` and `remove` of the vectors (declared,
not defined); reference counts, timing and statistics, printing, rounding of
doubles. Of the vendored code, which makes up most of the lines of the
repository, only what the pool's correctness hangs on is modelled:
`ProducerConsumerQueue` and the `wait` and `post` of `LifoSem`. `shutdown`,
`post(n)` and timed waits are not called. `AtomicHashMap` is taken as an unbounded
linearizable map and `IndexedMemPool` as a set. The remaining folly headers and fmt are
language support and formatting.

Left to prove, in this order:

1. `BpVector`: `DiffComplete`, from `World` and an invariant that relates the nodes of
   a vector and of its `_orig` by their ids.
2. `ContTrie`: `SnapshotsStable`, from the lemmas of `TrieProofs` and the order of
   tasks, then `TrieResolved` by a refinement of `ContVector`.
3. `ContVector`: `ResolvedIsSequential` for chains of stencils that end in one
   `reduce`.
