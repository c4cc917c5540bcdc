# A TLA+ model of HyperMotivo

HyperMotivo estimates the number of graphlets of a graph, and of hypergraphlets
of a hypergraph, by colour coding.  It is a pipeline of programs that hand each
other files; inside each program that does heavy work there is a pool of
threads.  The models follow both: the pools, with the queue and the writer
between them, interleaved step by step; and the pipeline, from the text of a
hypergraph to the estimates, a program at a time, with what each computes set
against a definition that does not know how it is computed.

Paths below are relative to `src/src/`.

## 1. The system

The pipeline (`src/scripts/hyper_motivo_mac.sh`) runs, in this order:
`motivo-hypergraph` (text to binary), `hgsplit` (LOW and HIGH hyperedges),
`gaifman` (the graph of LOW), `motivo-build` for size 1; then for each size
`hyper-build` on HIGH, `motivo-build` on the graph, `low_high_merger`,
`motivo-merge` (count files to searchable tables) and `motivo-nws` on HIGH; and
finally `motivo-sample` or `motivo-hyper-sample`.  `motivo.sh` is the same without
HIGH: `gaifman` of everything, `motivo-build`, `motivo-merge`.

| component | state | operations | interacts with | what makes it hard | what makes it correct |
|---|---|---|---|---|---|
| **parallel builder** `builder/MultithreadedBuilder` | the vertex counter; per thread a vertex, a position, a table, a flag; per unfinished vertex three counters and an array of tables | `build`, `phase1_thread_loop`, `phase2_thread_loop`, `merge_and_write` | hands records to the writer | lock-free: three fetch_adds, a flag read between two edges, tables that change owner | each requested vertex gets one record, from a complete table; the assertions hold; `build` returns |
| sequential builder `builder/SequentialBuilder` | none | `build` | the same file | nothing | is the meaning of the parallel ones |
| combination `builder/ColorCodingBuilder.h`, `ColorCodingHashmap.h` | one hash map | `combine`, `safe_add`, `safe_mul` | used by all the builders | overflow | a count is the sum over the edges |
| **queue** `common/io/ConcurrentFIFO.h` | ring, mutex, two condition variables | `push`, `pop` | builder threads and the writing thread | notifications after the unlock, full and empty queue | nothing lost or reordered, no wakeup lost |
| **writer** `common/io/ConcurrentWriter` | the queue, the stream, a thread | `write`, `write_loop`, `close` | as above | buffers change owner; shutdown; failing stream | all that was accepted is written before `close` returns |
| **hypergraph builders** `hyper_builder/` | a vertex counter | `build`, `thread_loop` | writer, NWS counts | the file is complete only after the joins and the close | one record per requested vertex |
| **NWS pool** `nws/MultithreadNWSBuilder` | work queue, set of visited subtypes, `tasks_in_flight`, `shutdown`; counts per worker | constructor, `build`, `worker_loop` | reads the merged tables, writes `.ie.cnt` | termination detection by a counter that is not exact | each subtype counted once, with its sign; nothing lost at shutdown |
| **sampling pools** `sampler/`, `hyper_sampler/` | sequencer, one flag per thread, a count of finished threads, a vector per thread | `sample`, `sample_thread`, `next_batch`, `wait_timeout` | called by the mains and the adaptive sampler | a timeout racing the last thread; batches | the table has the samples asked for, unless time has expired |
| one sample `TreeletSampler`, `HyperTreeletSampler` | thread-local marks with an epoch, static buffers | `sample_one`, `build_weak_induced` | tables, graph | epoch wrap, stale buffers | the drawn set is a treelet of the graph |
| adaptive sampler `AdaptiveSampler` | weights, remaining samples and time | rounds of `sample` | sampling pools | unsigned remainders | stops; as many samples as asked |
| sample tables | sorted occurrences | sort, group, count spanning trees, estimate | samplers, builder's selector | one count for all equal footprints, five formulas, a pool | counts exact, estimates without bias |
| merger `merger/merger.cpp` | cumulative counts, seen vertices | merge | reads what builders wrote | duplicates over several files, sums that wrap, a table next to older files | the table answers what the files say; bad input touches nothing |
| LOW/HIGH merger `merger/low_high_merger.cpp` | two sorted rows | merge | count files of both builders | order of writes on errors; normalisation only here | sum of both rows |
| tables `common/treelets/`, `common/io/` | cumulative counts in a mapped, compressed file | binary searches, record access | samplers, builders | boundaries, rounded lengths, blocks | agree with what was counted |
| treelets `common/treelets/Treelet` | 32-bit structure and colours | `merge`, `split_child`, `complement` | everywhere | bit twiddling | operations are inverse to each other |
| random `common/random/` | generators, alias tables | draw, derive | samplers | rounding | the right distribution |
| graphs `common/graph/` | read-only after loading | degree, neighbours | everywhere | none | - |
| tools `tools/` | files | convert, dedup, split, gaifman, dump | each other's files | files left by an earlier run, 32-bit offsets, threads | no hyperedge and no pair lost; the graph read is the one made |
| options, properties, platform, mains, tests, scripts | files | parsing, wiring | shell | I/O errors | - |

`PROJECT.json` lists every component with its status, and every hazard with the
line where it bites and the properties that would show it.

How the modules hang together (-> means EXTENDS):

    MCMultithreadedBuilder -> MultithreadedBuilder        (BuildSpec by INSTANCE)
    MCHyperMultithreadedBuilder -> HyperMultithreadedBuilder -> ConcurrentWriter -> ConcurrentFIFO
                                                          (BuildSpec, WriterSpec by INSTANCE)
    MCMultithreadNWSBuilder -> MultithreadNWSBuilder -> InclusionExclusion
    OccurrenceSampler                                     (DynamicSequencer, SampleSpec)
    MCPreprocessing -> Preprocessing -> GraphFiles -> HypergraphFiles
    MCTableFiles -> TableFiles -> TreeletTables -> Treelets, RecordFiles, Samplers
    MCRootedSampling -> RootedSampling -> CountingPipeline -> CountTables, GraphFiles
                                          CountTables -> Treelets (InclusionExclusion by INSTANCE)
    MCSampleTables -> SampleTables -> SpanningTrees -> CountTables
                                                          (DynamicSequencer by INSTANCE)
    MCSeenMarks -> SeenMarks

and the proofs, each module next to what it is about:

    SeenMarksProofs -> SeenMarks
    MultithreadedBuilderProofs -> MultithreadedBuilderInv -> MultithreadedBuilder
    HyperMultithreadedBuilderProofs -> HyperMultithreadedBuilder      (the writer's proofs come first)
    MultithreadNWSBuilderProofs -> MultithreadNWSBuilder, SumTheorems
    OccurrenceSamplerProofs -> OccurrenceSampler, SumTheorems
    SumTheorems                                           (lemmas on sums over finite sets)
    TableFilesProofs -> TableFiles, SumTheorems
    PreprocessingProofs -> Preprocessing, SumTheorems

## 2. What is modelled, module by module

### `MultithreadedBuilder` (builder/MultithreadedBuilder.cpp)

One action per atomic step of `phase1_thread_loop` and `phase2_thread_loop`, and
one per iteration of main's collecting loop:

| actions | code |
|---|---|
| `Fetch` | fetch_add on `next_vertex`, the thread state reset (115-124, 146, 150) |
| `Signal` | raising the flag of every thread, one at a time (150-154) |
| `Combine1`, `Write1`, `Leave1` | one edge; the record of a finished vertex; the flag seen at the head of the loop |
| `Collect`, `Return` | main's loop over the states (57-69); joins, close, return |
| `Claim`, `NextEdge` | the two fetch_adds on a slot's `next_edge` |
| `Register`, `Allocate` | fetch_add on `num_workers`; storing the pointer of a new table |
| `Combine2`, `Account` | one edge into the table of the worker; fetch_add on `processed_edges` |
| `Merge`, `Write2`, `Leave2` | the winner's merge loop, its write; the end of the thread |

*Abstraction.*  A `ColorCodingHashmap` is modelled by how often each edge of the
vertex has been combined into it.  Counts of treelets are sums over the edges of
what an edge contributes (`ColorCodingBuilder::combine` adds, the merge adds), so
a table is right exactly when each edge went in once; this is what the
properties look at.  Consequently overflow of counts is not modelled here.  The
neighbour at the other end of an edge plays no role: `Degree[v]` is all that is
left of the graph here (`CountTables` has the treelets).  `output[v]` is the sequence of records written for `v`; here
the write is one step, its way through the queue is the subject of
`ConcurrentWriter`, and the two are put together in `HyperMultithreadedBuilder`.
Combining one edge is one action, although it is a long computation: it touches
only the table, whose owner is unique (that this is so is the property
`TableOwnership`, not an assumption: `Combine2` would act on a foreign table if
the worker numbers allowed it).  All shared counters are sequentially consistent
atomics in the code, so interleaving is the right notion of concurrency.

`accounted`, `enrolled` and `mine` are history variables: the sets behind the
counters `processed_edges`, `num_workers` and `processed`.  No guard reads them.

`BuildSpec` is the abstract specification, taken from `SequentialBuilder::build`
with the order of the vertices left open: a requested vertex without a record
gets its record.  `ImplementsBuildSpec` is the refinement.

### `ConcurrentFIFO`, `ConcurrentWriter`, `WriterSpec` (common/io)

The mutex of the queue is held from the predicate of `wait` to the unlock, hence
test and move are one action; `notify_one` comes after the unlock in the code
and is an action of its own.  A blocked thread is a member of the set of its
condition variable; spurious wakeups may happen at any time.  The writer adds
the writing thread, with a stream that may fail at any write (the code never
looks at its state), and the destructor, whose null record ends that thread.
The callers of `write()` are the builder threads, which the owner of the writer
joins before it deletes it (HyperMultithreadedBuilder.cpp 59-62,
MultithreadedBuilder.cpp 80-92).  `WriterSpec` promises: written in the order of
acceptance, none twice, all before `close` returns unless the stream failed; its
records are those the queue has accepted, but for the null record (`AcceptedRecords`).

### `HyperMultithreadedBuilder` (hyper_builder)

The composition: EXTENDS `ConcurrentWriter`, replaces the arbitrary producer by
the thread loop with its relaxed fetch_add, and shows both that this loop
implements `BuildSpec` through the queue, and that it uses the writer the way
`ConcurrentWriter` lets its callers use it (`UsesWriterAsSpecified`), so that
what the writer's own runs show applies here.  The file is the order in which the
writing thread writes; `RecordsOf(v)` is what is in it for one vertex, which is the
`output` of `BuildSpec`.  `FileComplete` is what the two together give: nothing is
missing or twice when the writer is gone.  There is at least one thread, which `build`
asserts (HyperMultithreadedBuilder.cpp:36).

### `InclusionExclusion`, `MultithreadNWSBuilder` (nws)

`InclusionExclusion` holds the arithmetic of one subtype (a set of hyperedges
and the vertices common to all): sign, update of the counts, one-edge
extensions, and the reference definition `ExactCounts`: at `x`, the sum of the
counts of the vertices that share a hyperedge with `x`.
`MultithreadNWSBuilder` is the pool: taking a task, counting it out (an unsigned
decrement, which may wrap), visiting the extensions under `visited_mutex`,
putting new ones in the queue, counting them in, notifying; main spins on
`tasks_in_flight`, sets `shutdown`, notifies all, joins, sums up.  The 128-bit width
of the sums is left out.  That nothing is missing is stated twice: of the tasks
(`AllProcessed`: the seeds, and with a task its extensions, have all been processed)
and of the numbers that come out (`CountsExact`).

### `DynamicSequencer`, `OccurrenceSampler`, `SampleSpec` (sampler, hyper_sampler)

The pool of `OccurrenceSampler::sample`, which `OccurrenceStarSampler` and
`HyperOccurrenceSampler` repeat; the last looks at the flag before a sample and
not after it (`FlagFirst`); which sampler it is is a variable that never changes, so
that one run covers both.  What a sample is plays no role: a thread's
vector is its length.  `DynamicSequencer` is `next_batch` as operators on `next`,
`TimeoutThreadSync` is the actions `Signal`, `Wait`, `Timeout`, `Request`.
`SampleSpec` is what a caller counts on, AdaptiveSampler.cpp:157 among others.
The early return of `sample` for requests that are void or without end is an
assumption on the constants.  `end_exclusive` and `nthreads` are constants of the
sequencer, tied to the others by `SamplerAssumption`.

### `SeenMarks` (hyper_sampler, sampler)

`build_weak_and_incidence` (in two versions), `common_incident_count` and
`choose_high_` mark what they have visited in a thread-local array, with a mark
that is the next value of a 32-bit counter.  A call is one action: nothing else
runs in the thread and the arrays are its own.  `Mark`, `NewEpoch` and `Cleared`
translate the lines around the reset; the constant `TakesNew` says which functions
take a new mark after it (`OccurrenceSampler`'s does, the others do not).  `result` is
what a call computes from the marks, `expected` what it should.

### `HypergraphFiles`, `GraphFiles`, `Preprocessing` (tools, common/graph)

The programs run before a build.  `HypergraphFiles` has what the text converter,
`motivo-dedup` and `motivo-hgsplit` compute (the threshold of `--threshold auto`
included, with its costs on both sides), `GraphFiles` the variants of
`motivo-gaifman` (serial, in parallel, streamed; 32- and 64-bit offsets; with
excluded pairs), the reader `UndirectedGraph` with its binary search, and
`motivo-graph` both ways.  A hyperedge is a set, a list of neighbours a sorted
sequence, a file a record of its parts: a `.gof` file keeps offsets modulo
`MaxOffset + 1`, and writing a graph replaces only the files that the program
writes.  `Preprocessing` runs the programs over files that stay on disk: the
graph is made again and again under one name with other options, the `.pairs`
file may be cut short, a dump may be read back.  `job.hidden` remembers the one
state in which the property about the graph fails (section 6).

### `Treelets`, `RecordFiles`, `Samplers`, `TreeletTables`, `TableFiles` (merger, common)

`Treelets` is the encoding: a structure is a number of `Bits` bits, and order,
merge, complement, first child (through the four lookups of
`leftmost_bit_tie_lut.h`, whose tables are replaced by what they tabulate),
normalisation and selectors are arithmetic on it.  `RecordFiles` is writer, reader
and compressor at the level of lengths, positions and blocks; LZ4 is a function
from sizes to sizes.  `Samplers` enumerates every outcome of the generator, so that
"how likely" becomes "how many of the outcomes".  `TreeletTables` is the record of
a vertex with its searches, `TableFiles` the merge program itself: it reads files
one by one, checks, writes row by row, and may be run again over its own output.
A failure is an exception or an `abort()`, at the point where the code has it.
A count file is a number of vertices, a sequence of rows and whether it ends where it
should (`CountFile`); its rows are of vertices below that number, which
merger.cpp:99 asserts.

### `CountTables`, `CountingPipeline` (builder, hyper_builder, nws, merger, scripts)

`CountTables` has what each counting program writes for a vertex, as operators:
the combination of two rows (with the early end of the inner loop), the
normalised serialisation, the two-way merge of LOW and HIGH, the sums over
neighbours by inclusion-exclusion, which reuse `InclusionExclusion`, the very
module the worker pool is built on.  `CountingPipeline` runs both scripts a program at
a time.  `PipelineIsExact` sets the tables against a definition that knows
nothing of treelets: the trees of links of the hypergraph, counted one by one,
their shape found by visiting the largest subtree first.

The pools are not repeated here: `MultithreadedBuilder`, `HyperMultithreadedBuilder`
and `MultithreadNWSBuilder` show that each writes what a sequential loop does, and the
pipeline is made of the sequential loops.

### `RootedSampling` (sampler, hyper_sampler)

On the tables that the pipeline has made, one occurrence at a time.  The
recursion of `sample_rooted_occurrence` is a stack of treelets with the vertex they
are rooted in and the place in `occ` where their vertices go.  A random number is
any number below the mass that the code takes it from; `MassIsCount` says that the
decompositions have exactly that mass, so no draw can run past their end and each
occurrence has its share.  `TreeletSampler` may take decompositions from its
buffers, filled with several at a time; `HyperTreeletSampler` chooses between both
sides and may reject an overlapping pair, after which the sample starts again.

### `SpanningTrees`, `SampleTables` (sampler, hyper_sampler)

`SpanningTrees` has the five strategies of `SpanningTreeCounter` and the constructor
that chooses; `ColorCoding` is the builder of `CountTables` run on an occurrence.  The
determinant is that of a matrix of integers.  `SampleTables` follows samples
through sorting, grouping, the counting pool (on the `DynamicSequencer` of the
sampling pools) and the estimates, which are fractions.  The estimates are
checked on a census: if every copy is drawn once, they must add up to the
number of occurrences.

## 3. The runs

| run | instance | states | what it shows |
|---|---|---|---|
| `MultithreadedBuilder` | 3 threads, 3 of 4 vertices requested, one isolated, one of degree 2, `--store-only-0` | 593 200 | safety, the inductive invariant `IInv`, refinement of `BuildSpec`, termination |
| `ConcurrentWriter` | 2 producers, 4 records, capacity 2, failing stream | 161 156 | no lost wakeup, ownership of buffers, refinement of `WriterSpec`, termination |
| `HyperMultithreadedBuilder` | 3 threads, vertices 1..4 of 0..4, capacity 2 | 136 988 | complete file at return (`FileComplete`), refinement of `BuildSpec`; the writer is used as specified |
| `MultithreadNWSBuilder` | 2 workers, 3 hyperedges all overlapping and one apart | 252 026 | exactness, every task found is processed, nothing lost at shutdown, no lost wakeup, termination |
| `OccurrenceSampler` | 6 samples, 4 threads cut to 3, with and without a budget, both samplers | 1 287 750 | each index once, complete table, prompt stop, refinement of `SampleSpec`, termination |
| `SeenMarks_hyper` | 4 vertices, 3 hyperedges, counters modulo 4 | 12 862 | every call exact but the one that wraps |
| `Preprocessing` | 5 texts of up to 4 vertices, 36 options of `gaifman`, 3 formats | 1 866 | dedup, split and graph files, over and over under one name |
| `TableFiles` | 3 vertices, good and bad sets of files, 2 merges in a row, counts modulo 27 | 21 889 | tables, root samplers and selections exact; bad input refused untouched |
| `RootedSampling` | both scripts, 4 vertices, sizes up to 4, 4 colourings | 6 867 | tables exact after every size; masses and occurrences of the samplers |
| `SampleTables` | 3 hypergraphs, occurrences of 3 and 4 vertices, every strategy, 1 and 2 threads | 4 483 | spanning trees and estimates exact |
| `SeenMarks_HyperOccurrenceSampler` | counters modulo 5 | - | violation, see section 6 |
| `RandomIsUniform` | as `TableFiles`, words of 4 values | - | violation, see section 6 |

*Bounds.*
- Builder: the interesting cases need a slot with at least two workers (one that
  inherits the table, one that allocates), a slot abandoned before, within and
  after its edges, and two slots at a time with a third thread out of vertices.
  Three threads and degrees 2, 0 and 2 give all of them; a fourth thread adds
  symmetric copies.  The theorems below have no bound.  `MaxVertex` = 15 stands for
  2^32 - 1.
- Writer: as many cells as producers and twice as many records, so that the queue is
  full with both producers asleep, and the head goes round.
- NWS: every pair of three hyperedges and the triple is a subtype, so the triple is
  found from three pairs, possibly at once by two workers; the fourth hyperedge is
  the task that is left when a worker leaves early.
  `Modulus` = 16 stands for 2^64: larger than any number of tasks in flight, so that
  the only wrap is the one below 0.
- Sampling: `BatchesPerThread` is 1 (100 in the code) and `MinPerThread` 2 (10 in the
  code), so that batches of several indices, of one index and empty ones all occur
  with few indices; `ToMax` stands for `sequencer_t::to_max`.
- Preprocessing: `MaxOffset` = 8 stands for 2^32 - 1, so that four vertices reach both
  sides of the choice of a format, also between the bound and the exact number, and
  before and after the exclusion; threads fewer than, as many as and more than vertices.
- Tables: structures of 8 bits (treelets of up to 5 vertices); counts modulo 27 stand
  for 2^128, so that the sums of a row wrap, and that the sum over the vertices does,
  which is another failure; records of one block and of several, with lengths that the
  mantissa (8 bits in the code, 5 here) does and does not hold exactly.
- Pipeline: with threshold 2 two of four hyperedges are large and share a pair,
  another pair is in a small and a large one; four vertices and size 4 are the least
  where a child of two vertices is drawn on the HIGH side and where equal children are
  normalised.  The buffers hold two decompositions and are used from degree 3 on, so both
  ways of drawing occur in one occurrence.
- Samples: the hypergraphs have the same graph from different hyperedges, and
  occurrences that are trees, cycles, cliques and cliques without an edge.

*Fairness.*  Weak fairness of each thread: the operating system schedules every
thread that is not blocked.  No thread waits for another but by a join, a
condition variable, or main's spinning loop in `motivo-nws`; mutex sections are
single actions, so weak fairness also assumes that a thread is not overtaken
for ever at a mutex, which the finite amount of work guarantees.  No fairness is
put on spurious wakeups.  The timeout of a sampling pool is fair (time passes).
The stream may fail but need not.  The four models of files and tables are safety
only: their programs are run by a person or a script that may stop.

*Deadlock* is checked in the runs of the pools; `Terminated` is the stuttering of a
returned program.  It is not checked in the runs `Preprocessing`, `TableFiles`,
`RandomIsUniform`, `RootedSampling` and `SampleTables`, where the last program ends and
nothing follows.

Every property of a passing run has a mutant in `PROJECT.json`: an operator next
to the definition it replaces, with a plausible bug, under which TLC finds the
property violated.  The operators marked "Mutant" in the modules are those and
are part of no specification.

## 4. What is proved

TLAPS checks every proof below to the last leaf.  What a theorem says holds for all
values of the constants that satisfy the assumptions named in the module of the model
and, where there is one, the hypothesis of the theorem.

| module | for all | hypothesis |
|---|---|---|
| `SeenMarksProofs` | hypergraphs, sequences of calls, widths of the counter | - |
| `MultithreadedBuilderProofs` | threads, graphs, ranges | `Headroom` |
| `HyperMultithreadedBuilderProofs`, the writer | finite sets of producers, records, capacities, streams | - |
| `HyperMultithreadedBuilderProofs`, the builder | threads, ranges, capacities, streams | its own `Headroom` |
| `MultithreadNWSBuilderProofs` | workers, hypergraphs, treelets | - |
| `OccurrenceSamplerProofs` | threads, numbers of samples, sizes of batches, both samplers | - |
| `TableFilesProofs` | lists of count files, numbers of vertices, counts, moduli, sizes of blocks, thresholds of compression, merges in a row | `RootsExact`: `NothingWrapped`, as part of the property |
| `PreprocessingProofs` | texts, thresholds, damages to the `.pairs` file, jobs of motivo-gaifman, largest numbers of a `.gof` file | `[]Fits`, for the graph only: 64-bit offsets do not wrap |

### The marks of the samplers

`SeenMarksProofs` proves that no mark is ahead of its counter (`MarksBehind`, the
invariant), hence that only the call that wraps can be wrong (`OnlyTheWrap`), and that
taking a new mark after the reset is enough for all to be exact (`NewMarkSuffices`).

### The parallel builder

`MultithreadedBuilderProofs` has one hypothesis:

    Headroom == ToVertex + 1 + NThreads <= MaxVertex

`next_vertex` is incremented once per vertex and once more by each thread; when it
wraps, vertex 0 is handed out again.  The code does not test this; with 32-bit
vertices it means fewer than 2^32 - 1 - threads vertices.

| theorem | says |
|---|---|
| `Invariance` | `Spec => []IInv` |
| `TypeCorrect` | `Spec => []TypeOK` |
| `WrittenOnce` | `Spec => []ExactlyOnce` |
| `AllWrittenAtReturn` | `Spec => []NothingForgotten` |
| `NoSharedTable` | `Spec => [](TableOwnership /\ WinnerAlone)` |
| `AssertionsHold` | `Spec => [](OutOfVertices /\ SlotsSuffice /\ AccountBounded)` |
| `TablesDeleted` | `Spec => []NoTableLeaked` |
| `Refines` | `Spec => Abstract!Safety`: every step is a step of `BuildSpec` or a stutter |

None of these properties is inductive.  `IInv`
(`MultithreadedBuilderInv`) is the conjunction of

- `ControlInv`: which labels go with which phase; a flag is raised only when some
  thread has run out of vertices, and that thread never gives a slot, which is
  why nthreads-1 slots suffice;
- `CounterInv`: how far past the end `next_vertex` can be (this is where
  `Headroom` is used);
- `Phase1Inv`: every vertex handed out is written, or held by exactly one thread
  or slot, whose table holds exactly the prefix of edges it has gone through;
- `SlotInv`: slots stand for different vertices;
- `EdgeInv`: each number below a slot's `next_edge` is accounted or owned by exactly
  one thread; the counters are the cardinalities of these sets; a thread that
  has left a slot has left it passed;
- `WinnerInv`: all accounted, virtual edge included, iff there is a winner or the
  record is written.  The virtual edge is the point: it makes the account complete
  only after every worker has added its share, so the winner finds no worker left;
- `WorkerInv`: worker numbers are distinct, the tables the winner will read exist;
- `TableInv`: a combined edge is in exactly one live table, once, and no other is.

`MultithreadedBuilderProofs` proves the type invariant first, one lemma per action,
and then has one lemma per part of `IInv` and per group of actions
that can disturb it, `InitOK`, `NextOK`, and the theorems.  TLC checks `IInv` in
the run `MultithreadedBuilder`.

### The queue and the writer

| theorem of `HyperMultithreadedBuilderProofs` | says |
|---|---|
| `WriterInvariant` | `Spec => []IInv` |
| `WakeupsKept` | `Spec => []NoWakeupLost` |
| `Ownership` | `Spec => []BuffersOwned` |
| `Closing` | `Spec => []ClosedMeansWritten` |
| `WriterRefines` | `Spec => Abstract!Safety`, of `WriterSpec` |

Everything is said in terms of one sequence, `accepted`, the log of what was ever
pushed.  `LogInv`: the ring holds the last `size` elements of it, and the writing
thread the one before those; `NullInv`: the null record comes from the destructor,
after the last producer, and is the last of the log, which is why the thread may
end there; `OwnInv`: each record issued is in the log once or about to be pushed by
one producer; `StreamInv`: what is written is a prefix of the log, all that was popped
unless the stream failed, and the buffers deleted are exactly those popped and gone
through.  From this follow ownership, closing and the refinement.  `NoWakeupLost` is
inductive next to it: each step changes the number of free cells (or of elements) and
of the threads that are about to notify or to test by amounts that keep the
inequality; what needs care is `Wake`, which moves a waiting thread into the second
number when there is one, and has nothing to keep when there is none.  The only
assumption beyond a capacity of at least 1 is that there are finitely many threads.

### The hypergraph builder

| theorem of `HyperMultithreadedBuilderProofs` | says |
|---|---|
| `HyperInvariant` | `HyperSpec => []HyperIInv` |
| `UsesWriter` | `HyperSpec => Init /\ [][Next]_vars`: a client the writer allows |
| `HyperRefines` | `HyperSpec => Sequential!Safety`, of `BuildSpec` |
| `CompleteFile` | `HyperSpec => []FileComplete` |

under `Headroom == ToVertex + 1 + Cardinality(Producers) <= MaxVertex`, the same room
in the vertex counter as above and for the same reason.  `HyperIInv` is the invariant
of the writer and `CounterInv`: the vertices issued are those below `next_vertex`,
which has gone past the end once per thread that has left.  A fetch is then a step
that issues a record not issued before, that is, a step of the writer's own
producer; so the writer's invariant comes for nothing, and with it that each record
accepted is accepted once and all are written before `closed`.

### The NWS pool

| theorem of `MultithreadNWSBuilderProofs` | says |
|---|---|
| `PoolInvariant` | `Spec => []IInv` |
| `OnceEach` | `Spec => []ProcessedOnce` |
| `NothingLost` | `Spec => []NoTaskLost` |
| `NoneAsleep` | `Spec => []TasksAreAwaited` |
| `NothingMissing` | `Spec => []AllProcessed` |
| `ExactCountsWritten` | `Spec => []CountsExact` |

`IInv` is `PlaceInv` (an open task, visited and not processed, is in one place: once in
the queue, or with one worker), `OpenInv` (it is in some place; a queue that is not
empty has a worker that has not left), `FrontierInv` (an extension of what has been
processed is visited, or still to be looked at by the worker that processed it) and
`TasksAreAwaited`.  It does not mention `tasks_in_flight`: when main stops the pool
makes no difference to what is processed, only to how many workers do it.  This is why
the counter may be 0 too early, or wrap below 0, without a subtype being lost.  What
does rest on the counter is that main stops at all, which is liveness.

`ExactCountsWritten` is about the numbers.  `CountsInv` says that what the workers have
counted, summed over them, is the sum of the contributions of the processed tasks, and
that after the join `counts` has that sum; it needs `ProcessedOnce`, without which a
subtype would contribute twice.  When `build` returns the processed tasks are, by
`AllProcessed`, at least the sets of hyperedges with two or more common vertices: such a
set has such subsets, so it is reached from its seeds one hyperedge at a time
(`ContributorsAreFound`), and the sets that are dropped contribute nothing.  So `counts`
is the sum over all sets of hyperedges of what each contributes.  Exchanging the sums
(`SigmaSwap`), what a vertex `v` adds at `x` is the signed number of sets of hyperedges
all of which contain both `x` and `v`; adding or removing one fixed hyperedge changes
the sign, so these cancel in pairs except for the empty set, which is not enumerated
(`SignsCancel`), and what is left is the count of `v` if there is any such hyperedge and 0
otherwise, that is `ExactCounts`.  The hypergraph is finite
(`HypergraphAssumption`); nothing else is assumed of it, nor of the counts of the vertices.

### The sampling pools

| theorem of `OccurrenceSamplerProofs` | says |
|---|---|
| `SamplerInvariant` | `Spec => []IInv` |
| `IndicesOnce` | `Spec => []EachIndexOnce` |
| `PromptStop` | `Spec => []StopsPromptly` |
| `CompleteTable` | `Spec => []TableComplete` |
| `SamplerRefines` | `Spec => Abstract!Safety`, of `SampleSpec` |

`IndexInv`: every index below `next` is sampled, in the rest of the batch of one thread,
or was left by a thread that saw its flag; `CountInv`: the vectors have as many
samples as indices were sampled, a sum over the threads that the proof takes apart
with the lemmas of `SumTheorems`; `StopInv`: a flag is raised only when the time has expired or all have
exited, `terminated_threads` is the number of those; `LateInv`: a sample drawn late is
the last.

### Sums

`SumTheorems` has what four of the modules need of `MapThenSumSet` (`Sigma` there), for
functions from a finite set to the integers: that the sum satisfies its recursion whatever order the
elements are taken in (the library only defines it by a choice), that it agrees for equal
functions, changes by what one element changes, is additive, is scaled with its terms, and that
sums over two sets may be exchanged.  The induction over subsets is by a smallest counterexample
(`SmallestSubset`), because the induction theorems of the library take an operator,
which the provers cannot instantiate.

### The table merger

| theorem of `TableFilesProofs` | says |
|---|---|
| `MergeInvariant` | `Spec => []MergeInv` |
| `BadInputRefused` | `Spec => []RefusesBadInput` |
| `TableInvariant` | `Spec => []TableInv` |
| `RootsExact` | `Spec => []RootsAreExact` |
| `FaithfulInvariant` | `Spec => []FaithfulInv` |
| `TableFaithful` | `Spec => []TableIsFaithful` |
| `SelectionExact` | `Spec => []SelectionIsExact` |

`ReadInv` says of the files read so far what `FitTogether` says of all, and that the
disk is as it was before; the comparison of the number of vertices seen makes the former
into the latter.  `MergesAssumption` is the shape of the input: `CountFile`, at least one
file, vertices in range, rows in the order of `operator<` as the builders write them, counts
below `Modulus`, and rows that are not too long for the header of a record.  A header
can say 2^39 bytes (8 bits of mantissa, and 31 as the exponent `decompress` can shift by);
a row has at most one entry for each treelet of one size, and there are fewer than ten
million of any size, of 22 bytes each.  Files that are cut short, disagree, repeat or omit a
vertex are all among the input.

`RootsExact` is about the alias table that roots are drawn from: of the
`n * total` outcomes of the generator, each vertex has exactly `n` times the treelets
rooted in it, for every number `n` of vertices, every count and every order in which
`build()` meets over- and underfull elements.  `TableInv` follows the program: the weight
set for a vertex is the last sum of its row modulo `Modulus`, and the sampler written is
the one built from all of them.  The rest is the algorithm (`AliasIsExact`):

- `AllListed`: after the first loop the two lists hold exactly the elements above and
  below the average;
- `RoundInv`, kept by each round of the second loop (`RoundKeeps`): the elements waiting in
  the lists are too full and too empty by the same amount in total (`Excess` sums to 0), and
  what an element has itself, with what it has given to those it is the alias of, is its
  weight times `n`;
- hence the two assertions of `build()`: as long as an element is overfull one is underfull
  (`UnderfullLeft`), and when none is overfull none is underfull (`NoUnderfullLeft`), so that
  every element which is not full has an alias;
- a round shortens the lists by one element at least, so that `n` rounds are enough
  (`RoundsDone`);
- the outcomes that draw an element are counted cell by cell (`OutcomesAre`).

The two loops are recursive functions of the number of rounds, and the two inductions over
it are spelled out on that number.  `NothingWrapped` is a condition of the property
itself: counts of a row are added without a check, and a sum that has wrapped is not the
number of treelets.  `Modulus` may be any positive number (`ModulusAssumption`).

`TableFaithful` goes through the layers from the bytes up.  `ContentInv` says that what has
been read is in the files (`InfoGiven`), that the table being written holds the records
of the vertices before `next` (`Written`), and that a closed one reads back as the records
of all (`ReadsAs`).  The steps:

- the buffer to decompress into is large enough, although the header keeps the length
  rounded down: `Room` rounds up and then down to whole entries (`RoomSuffices`); each block
  finds the rest of the buffer as long as it is itself (`BlocksFit`); so a record comes back
  whatever LZ4 makes of it and whether or not it was compressed (`RecordReadBack`);
- `Written` is kept by `write_record` and makes the offsets of `close` exact
  (`RecordAppended`, `ClosedReads`); a record that is empty takes no room, and one that is not
  takes some, which is how the reader tells them apart;
- each round of the two binary searches keeps what is below the answer below it and
  shortens the range (`HalveKeeps`), so that as many rounds as there are entries find
  the boundary wherever there is one (`SearchEnds`);
- rows are strictly sorted, so there is one: at a treelet of the row, at a structure, and,
  for sums that have not wrapped, at a number (`TreeletFound`, `CountFound`);
- the difference of two sums modulo `Modulus` is the count, even across a wrap
  (`DifferenceIs`), so `get_count` and the iterator are right for every row (`GetCountIs`,
  `FromIs`); the numbers of a treelet are an interval as long as its count (`NumbersOf`);
- files that fit together have one row of each vertex, the one read (`RowsAreInfo`), and the
  list is the table of a finite set written in order (`ListReads`).

That `Sorted` is the sorted sequence is its definition, so the theorem says of the list that
it has what `std::sort` gives, at the right places.

`SelectionExact` builds on the searches and on `AliasIsExact`, for every finite set of
structures and both modes (`SelectorsAssumption`), whichever vertices have none of them.
`SelectionInv` only says that a sampler was made of the rows that were read; the steps are:

- `add_range` may be given numbers above all those it has, and then covers the new ones as
  well, whether or not it extends the last range (`RangeAdded`); `sample()` over ranges that
  `Covers` a set of numbers gives each of them for one number drawn (`SampleCovers`);
- the entries of a structure are those between two searches, the second of which starts from the first
  and looks for the structure with all colours, the largest treelet it could have
  (`MaskLargest`), which is in the row or not (`StructureFound`);
- the structures come largest first, without repetition (`DescendingLists`), so that after
  those in a set D the ranges cover the entries with a structure in D (`IncludeInv`), or, of the
  entries up to the last one with a structure in D, those with another (`ExcludeInv`);
  neither could be kept if a smaller structure came before a larger one;
- the numbers of `get_treelet_no` between two sums are those of the entries between
  (`NumbersBetween`, `NumbersSelected`);
- the root sampler set vertex by vertex has the lengths of the ranges as its weights
  (`RootsOfExact`).

### The hypergraph tools

| theorem of `PreprocessingProofs` | says |
|---|---|
| `PrepInvariant` | `Spec => []PrepInv` |
| `DedupExact` | `Spec => []DedupIsQuotient` |
| `SplitExact` | `Spec => []SplitIsExact` |
| `GraphInvariant` | `Spec /\ []Fits => []GraphInv` |
| `GraphFaithful` | `Spec /\ []Fits => []GraphIsFaithful` |

for every text file (`TextsAssumption`: a line is a sequence of numbers), every
threshold and whatever graphs are made in between.  `PrepInv` says what each tool has
left on disk: after the conversion a hypergraph whose hyperedges are sets of its vertices
(`GoodHypergraph`), after `motivo-dedup` the image of the original, after `motivo-hgsplit`
two hypergraphs split at one threshold, with a `.pairs` file whose header is the number
of the overlapping pairs and whose body is a part of them.  That the threshold is the
same on both sides, and the pairs those of these very sides, is what makes it inductive
when pairs are lost later.

For `DedupExact` the classes must be numbered without collision: the class of a vertex is
the number of signatures among the vertices before the first of its own signature, and of two
different first vertices the later one has counted the earlier one's signature, so that its
number is larger (`ClassLess`, `ClassFacts`).  Then a hyperedge of the output contains the
classes of two vertices iff the hyperedge it comes from contains both, because alike
vertices have the same hyperedges (`QuotientExact`).  For `SplitExact` the two halves are the
elements at two complementary sets of positions (`AtPositionsFacts`, `SplitFacts`), and a
`.pairs` file with as many pairs as its header says has lost none.

For `GraphFaithful` the jobs of motivo-gaifman are any subset of all its options
(`JobsAssumption`), and `MaxOffset` is any number (`OffsetAssumption`): the choice between
the two formats is right wherever the boundary is.  `Fits` says that the entries of the
`.ged` file do not exceed what a 64-bit offset can say; the code does not check it,
and without it the offsets of a `.gof64` file could wrap as those of a `.gof` file read back from
text do.  `GraphInv` says that, unless the job is `hidden`, there are lists, each of them the
neighbours asked for and in order (`Listing`), that the `.ged` file is their
concatenation and that the offsets are exact (`GoodFile`); and that a text which
`ValidText` accepts is read back to such lists.  The text needs a part of its own because
a graph once read back from it may be `hidden`, and the same text is read again.  The steps:

- the chunks of the threads cover all vertices, for every number of threads
  (`ChunkCovers`), so that every way to build the lists gives the same ones
  (`AdjacencyIs`);
- looking up an excluded pair between the ends of a row is the same as looking it up
  in the whole file (`AllowedIs`);
- the format is chosen before the exclusion, and for a streamed graph by a bound: the
  entries are counted once by vertices and once by hyperedges (`BoundHolds`), so that a
  `.gof` file is written only if its offsets fit (`GaifmanWrites`);
- the sum of the lengths of the lists before u is where the list of u begins
  (`FlattenFacts`, `EntriesFacts`, `OffsetsExact`);
- the range of the binary search always contains the vertex if the list does, and
  becomes shorter in every round, so that as many rounds as there are entries are enough
  (`SearchKeeps`, `SearchFinds`);
- of a dump in NODE_DEGREE, line u + 1 is the line of u (`DegreeLines`); in the other formats
  the lines are collected by their first number (`SortingIs`), and sorting them gives an
  increasing list because repetitions are refused (`InOrderIs`, `InOrderFacts`).

### What is only model-checked

- Everything temporal beyond safety: `Termination`, and the fairness part of
  `ImplementsBuildSpec`, `ImplementsWriterSpec`, `ImplementsSampleSpec` and
  `UsesWriterAsSpecified`.  The prover has neither liveness nor ENABLED.
- What the sampling of one occurrence and the tables of samples compute: `MassIsCount`,
  `OccurrenceIsCopy`, `SpanningTreesAreExact` and `EstimatesAreExact`.  They compare a
  recursion over treelets with a count of subgraphs, so that their proofs would be inductions
  over data.
- `PipelineIsExact`, for the same reason; `CountingPipeline` also has RECURSIVE operators,
  which the prover does not take.

## 5. What is not modelled

- The adaptive sampler: which treelet a round samples and for how long is decided by
  floating-point estimates, and without them only the subtraction of the samples
  that came back is left.  `SampleTable::merge`, `weighted_average` and the
  frequencies are weighted the same way.
- How likely an outcome is, other than by counting outcomes: the generator, the
  rejection of half of the overlapping pairs.
- The overflow checks `safe_add` and `safe_mul` (the program aborts), except where
  motivo-merge adds the sums of the vertices.
- nauty and LZ4 (external libraries); memory mapping; option parsing and property
  files; the tools that only print (`decompose`, `homomorphism`, `treelet-counts`,
  the dump of a hypergraph); `IEReader`, which nobody uses; `TreeletList`.
- Options `--vertices` and `--graphlets` switched off, and builds of part of a graph
  whose files are merged later (`TableFiles` does merge several files).

## 6. Where code and documentation disagree

The reset of the marks in HyperOccurrenceSampler.cpp:112-116 and
HyperTreeletSampler.cpp:230-234 and 379-383 is commented "wrap-around safety", but the
mark of the current call has been copied before the reset and is 0, the very value
the array is filled with.  In that call everything counts as seen:
`SeenMarks_HyperOccurrenceSampler` finds a sample recorded without hyperedges; in
HyperTreeletSampler the number of common hyperedges would be too large, or no candidate be
found.  OccurrenceSampler.cpp:56-60 has the missing line, and `NewMarkSuffices` proves that
it is enough.  The wrap takes 2^32 calls in one thread.

Random.h:78 says of `random_uint` that the integer is "chosen uniformly at random".
The specialisation for 128 bits (97-110) draws the high word and the low word on
their own, the low one only up to the low word of the difference.  When the
difference has a high word, numbers with a larger low word cannot come out, and
with a low word of 0 only multiples of 2^64 can.  The run `RandomIsUniform`
finds it on words of four values.  It takes 2^64 treelets at a vertex, or in
the graph; `TableFiles` keeps below that (`Word` = 64).

Met while modelling, and not the subject of a run:

- `MultithreadNWSBuilder.h`:21 documents `shutdown` as the "flag to stop workers after
  the queue is drained".  The counter is 0 while the last tasks are being processed
  and may put further tasks in the queue, so `shutdown` may be set with tasks in it.
  The result is right nevertheless (`NoTaskLost`, `CountsExact`); what is lost is
  parallelism at the end.
- UndirectedGraph.cpp:51 prefers `.gof` to `.gof64`: after a `.gof64` graph has been
  written over a smaller one of the same name, the old offsets are read into the new
  neighbours.  `GraphIsFaithful` leaves this state out, under the name `hidden`.
  `motivo-graph` checks a 32-bit sum of the degrees, so a graph with more entries is
  accepted and its offsets wrap; the same name covers it.
- SpanningTreeCounter.cpp:131 runs over `size` rows of a matrix with `size - 1`; at 16
  vertices this is past the end of the array.
- sampler_main.cpp:195 merges `*samples` after the samples have gone to
  `samples_hyper`: with star samples and estimates, but not adaptive, it is null.
- With overlapping small and large hyperedges the tables count a tree once for each
  choice of sides (`PipelineIsExact` says so: links, not edges), and the sampler
  rejects only one pair at a time and only half of the time.  The spanning trees of
  an occurrence are counted in the simple graph.  Estimates of hypergraphlets
  with such pairs are therefore weighed by two different numbers; what is claimed here
  of estimates (`EstimatesAreExact`) is for copies in the simple graph.
  `gaifman --exclude-pairs` avoids it; `run_experiments.sh` uses it, `hyper_motivo_mac.sh`
  does not.

## 7. Plan

1. Overflow of counts in `combine`, at the level of single treelets, against the
   unchecked sum of `merge_and_write`.
2. The rounds of `AdaptiveSampler` over `SampleSpec`, should a way be found to say
   something about them that does not depend on the estimates.
