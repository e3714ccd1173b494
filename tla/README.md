# PoCX in TLA+

This directory is a verification development for PoCX, a proof-of-capacity
mining suite: a plotter fills disks with precomputed nonces, a miner scans them
for every block, an aggregator stands between many miners and one pool, and all
share libraries for hashing, plot files and the protocol. TLA+ modules model the
concurrent and fault-handling core of the programs, TLC configurations check
them on small instances, and TLAPS proves what matters most for every instance.
Paths below are relative to `src/`.

## 1. The system

### Components, state and operations

| Component | Source | State | Operations | Module |
|---|---|---|---|---|
| Plotter v2, CPU pipeline | `pocx_plotter_v2/src/cpu_scheduler.rs`, `cpu_compressor.rs`, `plotter.rs`, `disk_writer.rs` | seed, warp offset, helix pass and files done of each path; buffer pool; task channels; stop flag | hash, compress, flush, write, recycle, finalise, stop, return | `PlotPipeline` |
| Plotter v2, GPU ring | `pocx_plotter_v2/src/ring_scheduler.rs`, `ocl.rs` | ring of nonces, compress target, host buffer, nonce counter, offsets of each path | fill, compress, transfer, flush, undo, switch path | `RingScheduler` |
| Plot file | `pocx_plotfile/src/lib.rs`, `utils.rs` | name, size, resume marker, cells | create, allocate, write, mark, rename, read the marker, a scoop or a nonce | `PlotPipeline`, `PlotDirectory`, `PlotFormat` |
| Plotter v1 | `pocx_plotter/src` | one plot buffer, write buffers, requests and tasks of CPU threads and GPUs, progress of each path | plan, schedule, hash, hand over, compress, write, join | `XpuPlotter`, `PlotFormat` |
| Hash library | `pocx_hashlib/src` | none of its own; caches of the caller; accumulators of a batch | generate nonces, find the best quality, compute one quality, validate a batch | `Shabal`, `NonceGeneration`, `ProofOfCapacity` |
| Miner: scheduling and scanning | `pocx_miner/src/miner.rs`, `plots.rs` | chain states, priority queue, the running round, resume states, read progress, reader buffers | new block, schedule, preempt, pause, resume, read, hash, end, shut down | `Miner` |
| Miner: submission | `pocx_miner/src/request.rs`, `future/prio_retry.rs`, `com/`, `miner.rs`, `hasher.rs` | best quality of each account, lanes with the item being sent and its delay | find, filter, route, send, retry, drop | `Submission` |
| Aggregator: queues | `pocx_aggregator/src/queue` | best qualities of the last blocks, what is in the channel, the item in hand | submit, drain, send, retry, give up | `AggregatorQueue` |
| Aggregator: cache, server, statistics, database | `pocx_aggregator/src/pool.rs`, `server.rs`, `stats.rs`, `db.rs`, `time_bending.rs` | cached mining info and its lock, status, statistics of each miner, rows, writer channel | ask, fetch, store, record, upsert, clean up, restart, bend time | `AggregatorServer`, `TimeBending` |
| Miner: compression on the fly | `pocx_miner/src/compression.rs`, `plots.rs`, `hasher.rs` | a read buffer and the warps in it | decide, read, compress in steps, number the nonces | `PlotFormat` |
| Verifier | `pocx_verifier/src/plotcheck.rs` | none | check a nonce, check a plot | `PlotFormat` |
| Mockchain | `pocx_mockchain/src` | mining info, best quality, tripwire, forging tasks, table of blocks | give the mining info, submit, wait, interrupt, forge, adjust the base target, restart | `Mockchain` |
| Addresses, protocol server, configuration, user interfaces | `pocx_address`, `pocx_protocol`, ... | | | not modelled (section 9) |

### How they interact

* Inside plotter v2 one scheduler thread takes empty buffers from a pool channel
  and sends tasks to one writer thread per output path; a writer sends its
  buffers back. The stop flag is an atomic all threads read. The only memory
  that survives a process is the plot file and its *resume marker*.
* Inside the miner a scheduler task owns the priority queue of chains; a mining
  round runs in blocking threads, one reader per disk, and talks to the
  scheduler over a channel and over shared state (`interrupt`, `pause`,
  `scanning`) behind locks taken one after the other. Read buffers go round
  between readers and hashers. Qualities go over a channel to the submission
  task, from there to the demultiplexer and to one lane per account (pool mode)
  or to one lane for all (wallet mode).
* The aggregator answers miners from a cache and forwards their submissions
  through its own queue to the pool; every handler runs concurrently; the
  statistics reach the database over a channel.
* Plotters, miner, verifier and chain agree on nonces and qualities through the
  hash library, each on a machine with an instruction set of its own, and on what
  a nonce of a compression level is; a plot may be begun by one plotter and
  finished by the other, and compressed further by the miner that reads it.
* Plotter v1 passes its only plot buffer to and fro between scheduler and
  compressor; CPU tasks and GPU threads write into it through raw pointers.
* The mock chain's handlers and forging tasks share three mutexes, which they
  take one at a time; each submission may interrupt the task of the one before.

### What is hard, and what makes each part correct

* **Plotting**: kills and I/O errors between any two steps, a marker that lives
  inside the data it describes, buffers that must come back, GPU transfers that
  overlap computation. Correct means: what is finished is right, what is not is
  resumed where its marker says, and every run ends.
* **Scanning**: preemption of a round by a better block, pause and resume of its
  progress, a reader that stops half-way. Correct means: the best block is always
  the one being scanned, no progress is applied to another block, a finished scan
  has scanned everything.
* **Submitting**: best qualities are recorded before they are sent; retries and
  better ones cross. Correct means: the best is never lost nor followed by worse.
* **Aggregating**: many handlers, one fetch; rows and statistics updated in
  different orders; restarts. **Hashing**: lanes, shuffles and rests that must
  agree on every machine, and threads that combine results in any order.
* **One format**: four programs and two ways to compress. Correct means: a nonce
  holds, wherever it comes from, what the chain computes for its number and level.
* **Forging**: tasks that wake up late. Correct means: a block stands on a nonce
  found for the block before it, comes no earlier than its time, and the recorded
  best quality is that of a task that still stands.

`PROJECT.json` lists each hazard at its line with the properties that cover it.

## 2. Modules

| Module | Models | Extends | Checked through |
|---|---|---|---|
| `PlotDirectory` | the promise: files grow front to back, finish when full, lose progress only while their last chunk was being written | | `ImplementsDirectory` |
| `PlotPipeline` | scheduler, writers, pool, files, kills, stops | instances `PlotDirectory` | `MCPlotPipeline` |
| `PlotPipeline_proofs` | its proofs | `PlotPipeline` | |
| `RingScheduler` | the GPU scheduler | | `MCRingScheduler` |
| `RingScheduler_proofs` | its proofs | `RingScheduler` | |
| `Miner` | scheduler task, round, readers, hashers, shutdown | | `MCMiner` |
| `Miner_proofs` | its proofs | `Miner` | |
| `Submission` | from a found nonce to the pool's answer | | `MCSubmission` |
| `Submission_proofs` | its proofs | `Submission` | |
| `AggregatorQueue` | filters, channel and handler of the forwarder | | `MCAggregatorQueue` |
| `AggregatorQueue_proofs` | its proofs | `AggregatorQueue` | |
| `TimeBending` | integer cube root, scale and bended time | | `MCAggregatorServer` |
| `AggregatorServer` | cache, handlers, statistics, database, restart | `TimeBending` | `MCAggregatorServer` |
| `AggregatorServer_proofs` | proofs about both | `AggregatorServer` | |
| `XpuPlotter` | plotter v1: main thread, scheduler, hashers, compressor, writers | | `MCXpuPlotter` |
| `XpuPlotter_proofs` | its proofs | `XpuPlotter` | |
| `PlotFormat` | the cells of a plot through plotters, file, miner, verifier | | `MCPlotFormat` |
| `Mockchain` | the chain's handlers, forging tasks, cache, table, restart | | `MCMockchain` |
| `Mockchain_proofs` | its proofs | `Mockchain` | |
| `Shabal` | Shabal256 and its vector routines, bit by bit | | `MCShabal` |
| `NonceGeneration` | nonces, scalar and in lanes; cache layout | | `MCProofOfCapacity` |
| `ProofOfCapacity` | plot, mine, prove, validate | `NonceGeneration` | `MCProofOfCapacity` |

Definitions keep the names of the source where there is one; `PROJECT.json`
"map" gives the lines each stands for. Definitions whose comment starts with
"Mutant" are faulty variants of the next one: each property of a passing run is
violated when its mutant replaces the original.

### State and actions against the code

**PlotPipeline.** `job`, chosen at the start and constant, is what the user asks
for: paths, files, helix passes, overlapped writing, and which faults the run may
meet. It lets one run explore several shapes of a run of the program. `pc` is where the scheduler's loop is; `path`, `seeds`,
`warpOffset`, `filesDone` are its variables of (almost) the same names; `pool` and
`queue[p]` the channels; each writer takes a task, writes its scoops, marker and
renaming in separate steps, so that a kill may come between them. A file is the
batches XORed into each warp, its marker and whether it has been sized. `Kill`
ends the process and keeps the files; `Start` reads them as `plotter.rs` does.
A failing writer loses the buffer it holds, as in `disk_writer.rs:109`.

**RingScheduler.** One action per piece of the loop: `fill`, `compress`,
`transfer`, `flush`. A nonce is `<<path, file, number>>`; a compress pass over C
successive nonces of one seed is right, anything else is `Junk`. The transfer
lands in a step of its own (`Land`) when the GPU is discrete; `U64` wraps the
nonce counter as the machine does. The ring's size is that of `ocl.rs`.

**Miner.** `setup`, constant, is the hardware and what may happen to it: disks,
the reads of each plot, which chain may mine which, blocks to come. One action per message of the scheduler's `select!`, per step of the
round and of a reader between two looks at shared state. `reported` and
`scanned` are history variables: what the code logs as finished, and what was
hashed.

**XpuPlotter.** One action per message or look at shared state of each thread. A
slot of the plot buffer holds `<<seed, number>>`; a warp is right when all its
slots are of one seed and in order. A GPU keeps its double buffer: it uploads the
seed with its first task of a buffer only (`gpu_hasher.rs:59`) and hands over what
it hashed with the next task. `plotAt` says who holds the plot buffer. The plan
of the main thread (`plotter.rs:172-318`) is one step with its early returns.
`given` is what an earlier run left; with a seed there is one path and one file
on the command line (`main.rs`), but `PlotterTaskBuilder` admits more, as here.

**PlotFormat.** A cell is one scoop of one nonce; its value is the set of raw
scoops XORed into it, so that XOR is the symmetric difference and nothing is
assumed of the hashes. Both plotters fill buffers as their loops do: v1 in place,
row by row by parallel threads, v2 by batches of two raw warps. A file is the array
of its cells, with the marker in the last one. A kill may be followed by a restart
with the *other* plotter. Then a miner scans one scoop at one level and the
verifier runs its complete check. The transitions to an error of the code's
bounds checks exist and are never taken: the run checks deadlock.

**Mockchain.** A handler is cut where it releases a mutex or awaits: the checks
against a copy of the mining info, then the computation of the quality, then
the comparison, the interruption and the new task. A task wakes up when its time
has come and then waits for the lock. Generation signatures are the sequences of
generators they were made of. Difficulty adjustment is integer arithmetic with the
code's clamps. A failing table is logged only, so that the cache runs ahead of it.
Rows are stamped with the wall clock, which somebody may set (`SetClock`): `age`, the
age of the latest row by that clock, may then jump, also below zero, which `Remaining`
takes for a time that is over and `get_elapsed_time` for none. The sleep of a task
(`timer`) counts real seconds. `set_back`, remembered with each row, says that the
clock was set back since the row before.

**Shabal.** Words are pairs of halves, since TLC's integers have 32 bits. The
calls take one round at a step, the lanes of a register side by side. Each of the
twelve routines has its 48 elements and 36 sums written out by hand; their operands
stand in a table per routine (`SCALAR`, ..., `LITE_NEON`), in the order of the code.
`plain` computes the published algorithm, whose operands follow a rule (`PUBLISHED`),
next to the code's schedule; `HashesRight` and `QualitiesRight` compare the two, and
known digests with both, so that one wrong operand of one routine shows. The element
itself is one operator (`perm_elt`): its bit operations are the same in all of them.

**Submission.** `found` and `settled` are history; `best`, `queue`, `item`,
`sending`, `delayed` are the chain state, the lanes' `PrioRetry` and the request
under way. Qualities are small numbers; the delays' lengths are left out, so any
delay may end before or after any answer.

**AggregatorQueue.** The lock-protected filter and the send are one action, since
the lock is held over both (`submission_queue.rs:112`); the handler's look at
the filter before and after the request are separate ones.

**AggregatorServer.** Each handler is cut where it awaits. `cache.age` counts
ticks up to the time to live; `channel` is the database writer's queue. A server that
starts loads the rows of the last day one by one, in any order (`loading`), and takes
no request before it has.

**NonceGeneration, ProofOfCapacity.** Shabal256, which `Shabal` checks by itself,
is abstracted here to a mixing of the hashes it gets: what is checked is which hashes reach it, in which lane and
order, not the permutation; the eight words of a hash, which the code moves in
one inner loop, are one small number. `LaneNonces` is the interleaved buffer of SIMD code, `Nonce`
the scalar code; `unpack_shuffle_scatter` skips what is out of the cache, as the
code does. `arch` is the instruction set of the machine at work; it changes
when the work goes from plotter to miner to pool. `Accumulate` is one lock, and
threads interleave between any two. A batch shares one block here, whereas the
code allows one per proof.

## 3. Runs

A *passing* run explores its instance completely; a *violation* run shows one
place where the code does not do what its text says.

| Run | What it asks | Bounds | Why they are enough |
|---|---|---|---|
| `plot_pipeline` | Do markers cover right warps only, is a finished file right, does Ok mean written, does the disk keep `PlotDirectory`'s promise, does the last run end? | two jobs, 2 runs each, kills anywhere: 1 path, 2 files of 2 chunks, 2 passes, a stop, one I/O error; 2 paths, a file and a buffer each | a seed rotation, a partial last chunk, a resumed second file; both writers compete for the pool |
| `ring_small_work` | Is every warp right, does the loop advance and end? | work sizes 1-4 with C = 4, 2 paths, all resume points, a stop, one failing writer | sizes that divide C and one that does not; short last batch; path switch |
| `ring_large_work` | *violation*: is every warp right when the work size is over 2C? | 2 paths, buffer of one warp | |
| `xpu_two_paths` | Are files right, are hashers quiet once the buffer is handed over, does Ok mean plotted, does a run end? | files of 3 warps and of 1 warp (two of these), 2 CPU threads, a GPU, one write buffer, all leftovers, a stop, one I/O error | path and seed switches within a buffer's life, late CPU requests, a GPU that holds back its last nonces |
| `plot_format` | Does every nonce verify, whoever wrote, compressed or numbered it? | 2 scoops, levels 1-3, 1, 5 or 6 warps, buffers of 1 or 2, read caches of 2-4, up to 2 steps on the fly, a kill | partial buffers, odd numbers of warps at one and at two steps, a plot begun by the other plotter |
| `shabal` | Are hashes and qualities those of Shabal256 in every lane? | messages of 0 to 2 blocks before the last, known test vectors, lanes of 4, 8, 16 with different messages | every shape of a message the callers make, each lane fed differently, every routine with its own operands |
| `proof_of_capacity` | Do all machines agree on nonces, best quality and validity? | 4 scoops, a cap of 6 hashes, lanes of 2, 3 and 4, 7 nonces, calls of 1-5, chunks for 1 or 3 threads | full lanes and rests, a tie of the best quality, a compressed proof whose units are split over batches and threads |
| `miner` | Never idle with work, never on the worse block, no foreign progress, finished means scanned, does it come to rest with the newest block of the first chain scanned? | two setups of 2 chains with failing reads: 1 disk, 2 plots of 1 and 2 reads, 2 blocks each, one plot closed to one chain; 2 disks, 1 block each, a shutdown | preempt, pause, resume and an outdated pause occur; two readers share two buffers |
| `submission_arrives` | Is the best found, never lost, never followed by worse, and answered? | 2 accounts, 2 blocks, one fault, both modes | retries cross better nonces and block changes |
| `aggregator_queue` | Is the best of each block held and the queue drained? | 2 accounts, filter of one block, 2 faults, staleness | the filter forgets a block while it is in the queue |
| `aggregator_server` | One fetch at a time? Rows and statistics in step? Dashboard right? | 2 pollers, 1 submitter, 2 miners, 2 submissions, a fault or restart; pollers and miners symmetric | every pair of handlers interleaves |
| `mockchain` | Does a block stand on a nonce of the block it extends, on time as long as the clock is not set back, and is the best quality that of a standing task? | 2 connections of one account, 2 qualities, forging times of 0 and 2 s, 2 blocks, 2 tasks; two of a restart, a failing table and a clock that is set, to a second before the latest row or long after it; connections symmetric | a task comes due while a better nonce, another task, a block or a restart overtakes it, or the clock changes under it; one quality forges at once |

`CHECK_DEADLOCK FALSE` stands where the programs really stop (a run ends, a
miner is shut down, a queue is empty, a call of the hash library returns).
`submission_arrives` needs no such line: its blocks and lanes always have a step.
There, a pool that is too busy occurs in wallet mode only (`BusyModes`), because in
pool mode its answer loses the submission (section 7).

Beside the runs stand `MCAggregatorServerMore.cfg`, with a further property
(`CacheAdvances`), which passes, and the configurations of section 7, each of which
shows a known deviation. `RingTypeOK`, `TransferUndisturbed` and `HandedInOrder` of
`RingScheduler`, `TypeOK` and `InQueueBacked` of `AggregatorQueue`, and
`TypeOK`, `BuffersConserved` and `WriterFailsOnUnsizedFileOnly` of `PlotPipeline`,
`TypeOK` and `BuffersConserved` of `Miner`, and the types of `AggregatorServer` and
`XpuPlotter`, are proved instead (section 6).

## 4. Fairness

* `PlotPipeline`: weak fairness of the scheduler thread, of every writer and of
  the join in `plotter.rs`: they are OS threads and block only on channels.
  Faults, kills and the user's stop have none.
* `RingScheduler`: the scheduler thread, the DMA transfer and the writers'
  returning of buffers.
* `XpuPlotter`: the main thread's plan and join, the scheduler, the CPU pool,
  every GPU thread, the compressor, every writer: OS threads that block on channels
  only. The user's stop and I/O errors have none.
* `Miner`: the scheduler task, the round, each reader, the hashers and the pool's
  draining at shutdown. Blocks arriving have none; read errors have none.
* `Submission`: the tasks (scan, find, filter, route) and per lane the poll, the
  end of its delay and the answer: every request has a timeout.
* `AggregatorQueue`: its handler task; requests time out as well.
* `AggregatorServer`, `ProofOfCapacity`, `PlotFormat`, `Shabal` and `Mockchain` check
  safety only; the last because nobody is bound to submit another nonce.

Weak fairness suffices since each of these steps stays enabled until taken.

## 5. Refinement

`PlotDirectory` knows files, a progress and finished ones. `PlotPipeline`
implements it (`ImplementsDirectory`) with the mapping `ProgressOf`: a file's
progress is what its marker covers while it is unfinished, and all its warps once
it has its final name; between the write that covers the old marker and the one
of the new marker it still counts as far as it was. The promise includes
the one weakness of the design: a file may start over while its last chunk is
being written, since that overwrites the marker.

## 6. Proofs

All proofs are checked by TLAPS with SMT, Zenon and LS4.

**RingScheduler_proofs**, for any number of paths, files, warps, passes and
buffers, under `RingAssumption` and `SmallWork` (no work size exceeds C; what
lies beyond is refuted by `ring_large_work`):

* `RingInvariant`: `Spec => []RingInv`. The conjunction of the type invariant
  and `NoncesMatchWarps` is not inductive. It needs that the path in service has
  a warp left (`Offsets`; else the loop would hash beyond a file), that passes
  are counted up to the transfer (`PassCount`), that a pass has just left the
  ring when a warp is transferred (`PassTaken`; the undo at a path switch
  subtracts it), that the host buffer has room (`BufferRoom`), and that the
  fill of the ring is a multiple of gcd(worksize, C) (`AvailDivisible`). Each is
  proved per action.
* `RingTypes`, `NoncesMatch`: the type invariant and the count of nonces.
* `LoopAlwaysAdvances`: with R = worksize + C - gcd, if the ring has no room for a
  batch then it holds a pass. From `AvailDivisible`: a fill below C is at most
  C - gcd.
* `RingData`: `Spec => [](RingInv /\ DataInv)`. `WarpsRight` speaks of the files only,
  so `DataInv` follows a nonce on its way there: which nonces are in the ring
  (`RingHolds`, all but the padding of a short batch), what the passes made of them
  (`CompressedSoFar`), what is in the slots of the held buffer or will be when its
  transfer lands (`SlotsRight`). A hand-over is right only if the buffer belongs to
  the path in service and reaches to its next warp (`BufferFollows`), the file ends
  where the buffer begins (`FilesContinue`, which a lost buffer ends together with
  the work), and the seed on the GPU is that of the next file (`Serving`,
  `FileOrder`). `BufferHandedOver` says what a hand-over does, for both of its places.
* `WarpsAreRight`, `TransfersUndisturbed`, `BuffersInOrder` follow from it.

**AggregatorServer_proofs**, for every precision, base target and quality, any number
of requests, submissions, miners, failures and restarts. `PowersAssumption` says that
the powers of two are positive, since the provers know nothing of `^`,
`ScaleAssumption` that the scale is not divided by zero, `PollersAssumption` that no
request is named like the free lock.

* `RootUnique`, `SearchFindsRoot`: the bisection keeps the root between its
  bounds, brings them closer, and ends with the root rounded down.
* `RootIsExact`: so the code's loops find the root of every number. They are modelled
  as recursive functions, which for the prover are a CHOOSE: that some function
  satisfies the equation is shown by giving one (the least of the doubles that is
  large enough, the greatest number of the interval whose cube is not too large), and
  that any such function is right by the last start, or the shortest interval, from
  which it would not be.
* `BetterIsSooner`, `TimesFollowQualities`: dividing, rooting, scaling and rounding
  keep the order, so a better quality never gets a later time.
  `TimesShownAreRight` (`ShownTimesRight`) follows from types.
* `ServerInvariant`: `NoHerd` is inductive as it stands; for the cache to advance
  (`CacheAdvances`) one needs that an answer on its way to the cache is not older than
  what is in it (`CacheBehind`), which is so because only the holder of the lock
  stores. `ShownIsOfItsBlock` is kept for each miner by record_submission
  (`RecordedIs`). For `RowsKeepUp` it is not enough that something is on its way: it
  must be as good as what the statistics have (`RowsBacked`), for the writer keeps the
  better of two; and a server that loads its rows must have nothing under way
  (`StartsQuiet`), or a clean-up could take a row that is about to be loaded.
* `ServerTypes`, `OneTaskFetches`, `CacheNeverGoesBack`, `BestIsOfItsBlock`,
  `RowsHaveKeptUp` follow from it.

**Mockchain_proofs**, for any number of connections, accounts, tasks, restarts and
faults, any qualities and times, under `MockchainAssumption` (qualities stay below
u64::MAX, and neither a time of a nonce nor an age the clock is set to exceeds the
bound of the counted ages):

* `MockchainInvariant`: the three properties of the run are not inductive. They
  need that a submission in its handler and a task belong to the height of the
  mining info or to a lower one, and in the first case to its very block
  (`CallsOnBlock`, `TasksOnBlock`: a restart, which may lower the height, leaves
  neither); that a task which may still forge sleeps until its time is over
  (`TimersRun`, `DueTimers`) and that the latest row is not of the future
  (`AgeCounts`), both as long as the wall clock was not set back; and that the
  tripwire leads to the task of the best quality (`TripwireStands`). The base target
  stays above zero by the clamps, since no block is forged when the elapsed time is
  below zero.
* `MockchainTypes`, `BlocksForgedForTheirBlock`, `BlocksForgedOnTime`,
  `BestIsBacked` follow from it.

**AggregatorQueue_proofs**, for any submissions, filter size, retries, faults, and
for both modes, under the assumptions that qualities and the retry limit are
naturals and the filter remembers at least one block:

* `QueueInvariant`: `BestHeld` is not inductive. An obsolete item, or a submission
  worse than the entry of its key, is dropped without an answer; that loses nothing
  only because each entry of `in_queue_best` is the quality of a submission the
  handler has (`QueueBacked`), which in wallet mode holds since there is no queue
  (`WalletKeepsNone`). The filter's list and its map must name the same blocks, each
  once (`FilterOK`), or dropping the oldest would drop another's quality.
  The lemma `StillAccounted` reduces a step to showing, for each submission it
  removes, one as good of the same key.
* `QueueTypes`, `BestIsHeld`, `InQueueIsBacked` follow from it.
* `QueueOrder`, for `SendsBest`: the noted quality bounds every item of its key
  (`Covers`), but the note vanishes when the best one is answered. What stays true
  is an order: the items of a key stand in the queue with strictly falling quality
  (`QueueFalls`), so behind one that is sent there is none of its key (`HandAlone`),
  and none is left when it is answered or put first again. A key of which one was
  given up is left out. `BestIsSent` follows.

**PlotPipeline_proofs**, for any number of paths, files, warps, passes, buffers,
runs, kills, stops and I/O errors, under `PipelineAssumption`:

* `PipelineInvariant`: `Spec => []IInv`. That files are right cannot be seen from the
  files alone: a writer trusts the order of its channel, the channel that of the
  scheduler. `Chain` says it of a path whose writer has not failed: there are
  positions (a file and a warp in it), one between any two tasks, such that the disk
  is where the writer's task begins, each task holds the right warps from its
  position to the next, and the last position is the scheduler's own (`Sent`). Every
  step of scheduler or writer moves one end of the chain or lengthens or shortens it
  (`ChainAppend`, `ChainReceive`, `ChainHead`). Around it stand what the scheduler
  has in its buffer (`BufferRight`, `NoBuffer`, `Place`), that EndTask comes last and
  a channel ends with its writer (`Ending`), why a loop was left (`Stopping`), what a
  writer knows of its file at each step (`WriterRight`), that the seeds of a run are
  new (`Seeds`), and what a kill may leave unsized (`Unsized`).
* `MarkersCoverWarps`, `FinishedAreRight`, `OkIsWritten` and
  `WritersFailOnUnsizedFileOnly` follow from it.
* `PipelineImplements`: `Spec => ImplementsDirectory`. Each step of the pipeline is a
  step of `PlotDirectory` or a stutter: writing a marker extends a file, renaming
  finishes one, and an error or a kill loses what stood in a file whose marker was
  just overwritten (`WriterImplements`, `WritersGone`).
* `BuffersAreConserved`: the buffers in the pool, with the scheduler, in channels and
  with writers are those of the run until a writer fails (`Balance`; `WaitingSends`
  and `WaitingReceives` count the places of a channel), hence `PipelineTypes`: types,
  and a pool that never overflows.

**Miner_proofs**, for any number of chains, disks, plots, buffers and blocks, with
reads that fail and a shutdown, under `ConstantsAssumption`:

* `MinerInvariant`: `Spec => []IInv`. The miner keeps a block as a message to the
  scheduler, as an entry of its queue, or as the round; the properties hold because
  it is never in two of these places (`InBox`, `InQueue`, `InRound`), although a
  paused block comes back behind announcements of its own chain. Since it is
  there alone, its progress can be exactly what was read for it (`Exact`): two
  copies would read the same part twice, apply each other's progress, and give the
  hashers one buffer under two names, so `Balance`, the conservation of buffers,
  needs it too. `Control` ties the flags of the miner to the round and its readers
  (an interrupted reader means an interrupt, a pause too), `ScannedSoFar` says what a
  block never paused has scanned, and `Owed` and `Followed` say when a ProcessBlock
  must be on its way.
* `NoIdleQueue`, `ScansYield`, `ProgressIsOwn`, `FinishedWasScanned`,
  `ReadBuffersConserved` and `MinerTypes` follow from it. The last needs that a chain
  can announce at least one block (`SetupOK`): the miner starts with the first.

**Submission_proofs**, for any blocks, accounts, nonces and targets, both modes, and
any number of failed requests, under the assumptions that qualities and targets are
u64s (at most `NoBest`), that there is an account and none is named like the
wallet's lane, and that the base target is positive:

* `SubmissionTypes`: types; a lane holds its own submissions only, and what it awaits
  or repeats is the last it yielded. With `LessIsOrder` the action property
  `LanesNeverWorse` follows.
* `FindsInvariant`: each nonce of the block that is below its target is in the
  channel of blocks, in the scan, among those found, or no better than what is
  recorded (`AllReached`), and what is recorded was found by the scan
  (`BestFromScan`). A scan that starts may be one of an older block, but then the
  newest is still the last in the channel (`BlocksEnd`). `BestIsFound` follows.
* `KeepsInvariant`, for a pool that returns to no block it has left (`~MayFlip`) and,
  in pool mode, never answers that it is busy; without either the code does lose the
  best (section 7). `PrioRetry` drops a submission because of one it no longer
  sends, so the item of a lane has to be answered or to come again (`ItemHeld`); and
  it compares block counters although a scan may carry the counter of a newer block:
  what passes the filter never does (`AllSeen`, `Counted`). In wallet mode nothing
  comes back, but no lane drops anything either, since each submission is greater
  than all before (`WalletRises`), which needs that dividing by the base target
  keeps the order of raw qualities (`WalletLeast`, `KeptIsGreater`). `BestIsKept`
  follows.

**XpuPlotter_proofs**, for any number of paths, files, CPU threads, GPUs and write
buffers, any sizes of buffers and tasks, any leftover, with a stop and I/O errors,
under `XpuAssumption`:

* `XpuInvariant`: `Spec => []XpuInv`. The scheduler knows nothing of the hashers but
  a sum: it hands the buffer over when as many nonces were reported as the buffer
  has. That this is safe is `Counted`: the nonces requested are those processed and
  those underway, which are in messages, with the CPU tasks, in the GPUs' channels,
  at work and in the device buffers (`Underway`). Sums are counted, not folded: a sum
  is the number of units under the graph of its function (`Units`), so that moving a
  number from one place to another is a fact about cardinalities (`SumApart`,
  `SumInsert`, `SumOfSteps`).
* When nothing is underway the hashers are quiet (`QuietOutside`), which with the one
  owner of the buffer (`OneOwner`) is `HashersQuiet`: no raw pointer is used while the
  compressor reads.
* For the data, every piece of work belongs to the buffer the scheduler works on and
  a GPU has the seed and the nonces of its last task in its other device buffer
  (`HashersRight`: the seed is uploaded with the first task of a buffer only); each
  slot that was requested holds its nonce or belongs to a piece still pending
  (`Filled`), so a full buffer that is handed over is right (`TasksInPlot`), and so are
  the warps compressed from it, those in the channels (`WritesRight`) and the files
  (`FilesInv`). A writer checks that a task begins where its file ends, so the order
  of the tasks does not matter to the files.
* `FilesAreRight`, `HashersQuiet` and `XpuTypes` follow. `OkMeansPlotted` stays
  model-checked: with `-n 0` and a full disk it is false (section 7), and elsewhere it
  rests on `Total`, a fold whose value the prover cannot know.

Everything else is model-checked only: liveness and `ENABLED` are beyond the
prover; so is what recursive or folded definitions compute for all inputs, hence
`NonceGeneration`, `ProofOfCapacity`, `Shabal` and `PlotFormat` are checked on
bounded inputs, and `OkMeansPlotted` of `XpuPlotter` on its run.

## 7. Findings and known deviations

With a violation run, `ring_large_work`: with a work size above twice
COMPRESS_BATCH, the undo at a path switch counts the padding of a short batch as if
it had been counted, and the next warp is made of wrong nonces.

Without a run in the list; most are shown by the .cfg named, which TLC violates:

* **Rest of a call on aarch64** (`pocx_hashlib/src/lib.rs:540`). What does not
  fill the NEON lanes is written at `cache_offset + simd_nonces * NONCE_SIZE`,
  a number of bytes where one of nonces is due; the scatter skips what is out
  of the cache, and the call still returns Ok. `MCProofOfCapacityNeon.cfg`
  violates `CacheRight`. The passing run therefore plots on x86 only.
* **Size check of generate_nonces** (`lib.rs:512` and its siblings) adds an offset
  in nonces to a size in bytes, so it admits caches that are too small.
* **StopOnFirst never stops** (`pocx_hashlib/src/batch_validation.rs:52`, "Stop
  batch on first mismatch"): the flag `surrender` is read but never set, and only
  the result says which proof was first.
* **A busy pool loses the submission** (`pocx_miner/src/request.rs:199`). The
  handler waits for the text "limit exceeded" or none, but the client turns
  every error into a fixed or prefixed text (`errors.rs:72`, `client.rs:234`,
  `protocol_client.rs:58`), so the submission is reported as rejected, against
  the comment at `request.rs:197`. `MCSubmissionBusy.cfg` violates `BusyIsRetried`.
* **A stop that hangs** (`pocx_plotter_v2/src/disk_writer.rs:109`). A writer that
  fails takes its buffer with it; with one buffer per path the scheduler waits for
  ever, and a stop does not end it. `MCPlotPipelineStop.cfg` violates
  `StopTerminates`.
* **Plotter v1 with a failing writer** (`pocx_plotter/src/disk_writer.rs:88`): the
  writer panics with the write buffer it holds; if there is but one, compressor,
  scheduler and main thread wait for ever. `RunEnds` leaves out I/O errors.
* **Reads lost at a pause** (`pocx_miner/src/plots.rs:381`). A reader counts what it
  read and only then looks at the interrupt, on which it gives the buffer back
  unhashed; the resumed scan skips it. `MCMinerPause.cfg` violates `ResumedIsScanned`.
* **Filling a full disk** (`pocx_plotter/src/plotter.rs:279`). With `-n 0` a path
  without space for one file is planned for no files, since the check at line 281
  looks at the warps of a file; one buffer is plotted into it all the same, the
  compressor counts it, and the run returns Ok with the last file of another path
  unfinished. `MCXpuPlotterFill.cfg` violates `OkMeansPlotted`.
* **Complete check** (`pocx_verifier/README.md:27`, "Verify the entire plot file"):
  it fails on every finished plot, at the cell that holds the marker.
  `MCPlotFormatComplete.cfg` violates `CompletePasses`.
* **A late nonce stalls the mock chain** (`pocx_mockchain/src/json_rpc_handler.rs:64`).
  A nonce checked against the block before may replace the task of the new block and
  ends as "wrong height"; the next block then waits for another submission. And a
  task of an old height resets the best quality although it forges nothing (`:229`),
  so that a worse nonce interrupts the task of a better one: `MCMockchainWorse.cfg`
  violates `InterruptedByBetter`.
* **The wall clock set back** (`json_rpc_handler.rs:202`): a latest row of the future
  counts as if the time of every nonce were over, so that the next nonce forges at
  once, and a task that already sleeps forges when its sleep is over, which by the new
  clock may be earlier than its time. If the oldest row of the look-back is of the
  future as well, `forge_block` gives up ("Failed to get elapsed time",
  `db.rs:270-275`): accepted nonces are lost until the clock has caught up.
  `ForgedOnTime` excepts the rows before which the clock was set back.
* **Unsized leftover** (`pocx_plotfile/src/lib.rs:396`): a kill between creating
  and sizing a .tmp leaves a file that no later run can resume.
  `MCPlotPipelineResume.cfg` violates `EveryLeftoverResumes`.
* **Marker in a finished file** (`lib.rs:789`): the last eight bytes of the last
  scoop hold the marker of the last write. `MCPlotPipelineMarker.cfg` violates
  `CompletedHasNoMarker`.
* **A failing rename is only logged** (`disk_writer.rs:170`).
* **Stale reschedule** (`miner.rs:828`): a pause that crosses a new block of its
  chain puts the old block back. `MCMinerStale.cfg` violates `NeverBackToOldBlock`.
* **Shutdown can hang** (`miner.rs:1226`, `:1238`) when readers wait for buffers
  that were drained, and `update_state` (`:328`) clears an interrupt just
  requested. `MCMinerStop.cfg` violates `ShutdownEndsScan`.
* **A pool that returns to an earlier block** (`com/api.rs:250`): the order of the
  lanes prefers the higher counter, so a nonce may be dropped.
  `MCSubmissionFlip.cfg` violates `BestNotLost`.
* **Wallet mode never repeats a submission**; the aggregator's drop of a stale
  item removes the key of a newer one (`submission_queue.rs:218`).
* **Status of the aggregator** (`server.rs:258-270`): two handlers may leave the
  height of one block and the base target of another, or the older of both. A
  late submission of an earlier block resets a miner's best (`stats.rs:274`).
* **Plotter v1**: after the kill window `number_of_plots[0]` may reach 0, which
  elsewhere means "fill the disk" (`pocx_plotter/src/plotter.rs:194-223`).

## 8. Plan

Written: the modules above, in the order plotter v2, miner, submission, aggregator,
hash library, plotter v1, Shabal256, the plot format, the mock chain. Next:

1. A composition of `Submission`, `AggregatorQueue` and `Mockchain` as the pool: the
   best nonce of every miner arrives through both and forges.
2. The OpenCL side of the miner: which work items find which quality.

## 9. Not modelled, and why

* OpenCL kernels and device discovery: the schedulers' view of a device is modelled,
  its programs are not.
* Sparse files, direct I/O and file names of plots; addresses, protocol encoding,
  configuration, command lines, logs, dashboards and callbacks: parsing,
  formatting and I/O.
* The miner's drive wake-up timer, capacity estimates, progress display.
* Lengths of delays and timeouts: any order of their ends is allowed. The mock
  chain's times are counted, since its blocks are due at them. Setting the wall clock
  is modelled for the mock chain only: the one other program that reads the wall clock
  is the aggregator, for the times its statistics show and the 24 hours of rows
  it loads and counts (`stats.rs:124`, `db.rs:259`). There a restart loads any set of
  the rows (`AggregatorServer!Recent`), so no clock is assumed.
* The mock chain stores a nonce in 32 bits; no nonce of a small plot exceeds them.
* `shutdown.rs` of the miner: nothing uses it.
