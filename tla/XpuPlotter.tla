------------------------------ MODULE XpuPlotter ------------------------------
(***************************************************************************)
(* The plotter of pocx_plotter (the first one): a scheduler thread          *)
(* (xpu_scheduler.rs) that spreads the nonces of one plot buffer over CPU   *)
(* tasks and GPU threads, a compressor thread (compressor.rs) that turns    *)
(* the plot buffer into a write buffer, one writer thread per path          *)
(* (disk_writer.rs), and the main thread that plans the files and joins     *)
(* the others (plotter.rs).  There is a single plot buffer: the scheduler   *)
(* and the compressor pass it to and fro.                                   *)
(*                                                                          *)
(* Data.  A seed is <<path, number of the draw>>, number 0 being the seed   *)
(* the user gave; two draws never collide.  A slot of the plot buffer holds *)
(* <<seed, number of the nonce>>.  A warp of a write buffer or of a file is *)
(* <<seed, number of the warp>> when all its nonces are those of that warp, *)
(* in order, and Junk otherwise.  Sizes are in warps, and in nonces within  *)
(* the plot buffer.                                                         *)
(***************************************************************************)
EXTENDS Integers, Sequences, FiniteSets, Functions

CONSTANTS
    NumPaths,       \* output paths, numbered from 0
    Warps,          \* Warps[p]: warps of each file of path p; 0 = fill the disk
    Plots,          \* Plots[p]: files to plot into path p; 0 = fill the disk
    Space,          \* Space[p]: free warps on the disk of path p
    Leftovers,      \* what the file of the given seed may hold: see Init
    Nonces,         \* nonces hashed for one warp: 2^compress * DIM
    Escalate,       \* warps held by the plot buffer and by a write buffer
    CpuThreads,     \* threads of the CPU hasher
    CpuTaskSize,    \* CPU_TASK_SIZE
    Gpus,           \* number of GPUs
    WorkSize,       \* nonces a GPU hashes at once
    WriteBuffers,   \* num_write_buffers, at most one per path
    MaxFiles,       \* bound: no path is planned for more files
    MaxFaults,      \* bound: how many I/O calls of the writers fail
    MayStop         \* whether the user may request a stop

Paths  == 0 .. NumPaths - 1
GpuIds == 1 .. Gpus
NoSeed == -1
Seeds  == Paths \X (0 .. MaxFiles)

ASSUME XpuAssumption ==
    /\ NumPaths \in Nat \ {0}
    /\ Warps \in [Paths -> Nat]
    /\ Plots \in [Paths -> Nat]
    /\ Space \in [Paths -> Nat]
    /\ Leftovers \subseteq {NoSeed} \cup (0 .. Warps[0])
    /\ Nonces \in Nat \ {0}
    /\ Escalate \in Nat \ {0}
    /\ CpuThreads \in Nat
    /\ CpuTaskSize \in Nat \ {0}
    /\ Gpus \in Nat
    /\ CpuThreads + Gpus > 0
    /\ WorkSize \in Nat \ {0}
    /\ WriteBuffers \in 1 .. NumPaths
    /\ MaxFiles \in Nat
    /\ MaxFaults \in Nat
    /\ MayStop \in BOOLEAN

VARIABLES
    \* the main thread
    mpc,            \* "setup", "join" or "done"
    warps,          \* task.warps, planned
    plots,          \* task.number_of_plots, planned
    resume,         \* warps of the resumed file
    joined,         \* writers joined so far
    result,         \* what the run returned
    \* the scheduler thread
    spc,            \* where it stands
    pointer,        \* the path it hashes for
    seeds,          \* seeds[p]: the seed of the current file of path p
    hashed,         \* hash_progress[p]
    filesHashed,    \* plotfile_progress[p]
    requested,      \* nonces handed to a hasher
    processed,      \* nonces reported hashed
    \* the hashers
    rx,             \* messages to the scheduler
    cpuTasks,       \* CPU tasks spawned and not yet done
    cpuIdle,        \* CPU threads about to send CpuRequestForWork
    gpuQueue,       \* gpuQueue[g]: the channel to GPU thread g
    gpu,            \* gpu[g]: the state of GPU thread g and of its device
    plot,           \* content of the plot buffer, by slot
    \* the compressor thread
    plotAt,         \* who has the plot buffer
    handed,         \* the task in the channel to the compressor, or NoTask
    cpc,            \* where the compressor stands
    ctask,          \* the task it works on
    compressed,     \* compressor_progress, summed over the paths
    endTo,          \* the next writer to be sent EndTask
    pool,           \* empty write buffers in the channel
    \* the writer threads
    wqueue,         \* wqueue[p]: the channel to the writer of path p
    wpc,            \* wpc[p]: where the writer of path p stands
    wtask,          \* the task it works on
    \* the environment
    stop,           \* STOP_REQUESTED
    faults,         \* I/O calls that failed so far
    given,          \* what the file of the given seed held at the start
    files           \* files[s]: the file with seed s, on the path of s

mainVars  == <<mpc, warps, plots, resume, joined, result>>
schedVars == <<spc, pointer, seeds, hashed, filesHashed, requested, processed>>
hashVars  == <<rx, cpuTasks, cpuIdle, gpuQueue, gpu, plot>>
compVars  == <<handed, cpc, ctask, compressed, endTo>>
writeVars == <<wqueue, wpc, wtask>>
envVars   == <<stop, faults, given>>
vars == <<mainVars, schedVars, hashVars, plotAt, compVars, pool, writeVars,
          envVars, files>>

-----------------------------------------------------------------------------
(* Contents and tasks. *)

Slots  == 0 .. Escalate * Nonces - 1
Junk   == << <<-1, -1>>, 0 >>

\* A piece of work for a hasher: n nonces from number start, into the slots
\* from chunk.
HashTask(s, start, chunk, n) == [seed |-> s, start |-> start, chunk |-> chunk, n |-> n]
NoTask  == [seed |-> <<-1, -1>>, start |-> 0, n |-> 0]
EndTask == [seed |-> <<-1, -1>>, start |-> 0, n |-> -1]

\* What the slots of the plot buffer hold after n nonces of seed s, numbered
\* from start, were scattered to the slots from chunk.
Scatter(s, start, chunk, n) ==
    [i \in Slots |-> IF i \in chunk .. chunk + n - 1
                     THEN <<s, start + i - chunk>> ELSE plot[i]]

\* The warp that slots i * Nonces .. of the plot buffer make up.
Compress(i) ==
    LET s == plot[i * Nonces][1]
        w == plot[i * Nonces][2] \div Nonces
    IN IF \A j \in 0 .. Nonces - 1 : plot[i * Nonces + j] = <<s, w * Nonces + j>>
       THEN <<s, w>> ELSE Junk

NoFile == [size |-> 0, marker |-> 0, finished |-> FALSE, data |-> <<>>]
\* A file of n warps that holds the first m of them.
Partial(s, n, m) ==
    [size |-> n, marker |-> m, finished |-> FALSE,
     data |-> [w \in 0 .. n - 1 |-> IF w < m THEN <<s, w>> ELSE Junk]]

\* The warps of all files when path p gets n[p] files of w[p] warps.
Total(w, n) == FoldFunction(LAMBDA a, b : a + b, 0, [p \in Paths |-> w[p] * n[p]])

Min2(a, b) == IF a < b THEN a ELSE b

-----------------------------------------------------------------------------
(* The main thread. *)

\* Either no seed is given, or the file of the given seed holds that many warps
\* (0: it has none or does not exist).  The file is on the first path.  The
\* command line takes a seed only with a single path and a single plot, the
\* PlotterTaskBuilder of lib.rs with any.
Init ==
    /\ mpc = "setup"
    /\ warps = Warps
    /\ plots = Plots
    /\ resume = 0
    /\ joined = 0
    /\ result = "none"
    /\ spc = "down"
    /\ pointer = 0
    /\ seeds = [p \in Paths |-> <<p, 1>>]
    /\ hashed = [p \in Paths |-> 0]
    /\ filesHashed = [p \in Paths |-> 0]
    /\ requested = 0
    /\ processed = 0
    /\ rx = <<>>
    /\ cpuTasks = <<>>
    /\ cpuIdle = 0
    /\ gpuQueue = [g \in GpuIds |-> <<>>]
    /\ gpu = [g \in GpuIds |-> [pc |-> "recv", first |-> TRUE, buffer |-> 0,
                                task |-> NoTask, last |-> NoTask, seed |-> <<-1, -1>>,
                                dev |-> [b \in {0, 1} |-> NoTask]]]
    /\ plot = [i \in Slots |-> Junk]
    /\ plotAt = "empty"
    /\ handed = NoTask
    /\ cpc = "down"
    /\ ctask = NoTask
    /\ compressed = 0
    /\ endTo = 0
    /\ pool = WriteBuffers
    /\ wqueue = [p \in Paths |-> <<>>]
    /\ wpc = [p \in Paths |-> "recv"]
    /\ wtask = [p \in Paths |-> NoTask]
    /\ stop = FALSE
    /\ faults = 0
    /\ given \in Leftovers
    /\ files = [s \in Seeds |-> IF s = <<0, 0>> /\ given > 0
                                THEN Partial(s, Warps[0], given) ELSE NoFile]

\* Path p has something to plot and space for it, or Plotter::run returns an
\* error.
PlanOK(p, n, left) ==
    IF Warps[p] = 0 THEN n > 0 /\ Space[p] \div n > 0
    ELSE n = 0 \/ left > 0 \/ Warps[p] * n < Space[p]

\* Warps and files that are not specified follow from the free space.
PlannedWarps(p, n) == IF Warps[p] = 0 THEN Space[p] \div n ELSE Warps[p]
PlannedPlots(p, n) == IF n = 0 THEN Space[p] \div Warps[p] ELSE n

\* The file of the given seed is complete but was never renamed.
KillWindow == given > 0 /\ given = Warps[0] /\ Plots[0] >= 1

Return(r) == mpc' = "done" /\ result' = r

\* Plotter::run up to the creation of the threads.
Setup ==
    LET n    == IF KillWindow THEN [Plots EXCEPT ![0] = @ - 1] ELSE Plots
        left == IF KillWindow \/ given = NoSeed THEN 0 ELSE given
        ok   == \A p \in Paths : PlanOK(p, n[p], left)
    IN
    /\ mpc = "setup"
    /\ files' = IF KillWindow THEN [files EXCEPT ![<<0, 0>>].finished = TRUE] ELSE files
    /\ IF KillWindow /\ Total(Warps, n) = 0
       THEN /\ Return("ok")
            /\ plots' = n
            /\ UNCHANGED <<warps, resume, joined, seeds, hashed, spc, cpc>>
       ELSE IF ~ok
       THEN /\ Return("err")
            /\ UNCHANGED <<warps, plots, resume, joined, seeds, hashed, spc, cpc>>
       ELSE /\ warps' = [p \in Paths |-> PlannedWarps(p, n[p])]
            /\ plots' = [p \in Paths |-> PlannedPlots(p, n[p])]
            /\ resume' = left
            /\ seeds' = IF given # NoSeed /\ ~KillWindow
                        THEN [seeds EXCEPT ![0] = <<0, 0>>] ELSE seeds
            /\ hashed' = [hashed EXCEPT ![0] = left]
            /\ spc' = "take"
            /\ cpc' = IF Total(warps', plots') = left THEN "end" ELSE "recv"
            /\ mpc' = "join"
            /\ UNCHANGED <<joined, result>>
    /\ UNCHANGED <<pointer, filesHashed, requested, processed, hashVars, plotAt,
                   handed, ctask, compressed, endTo, pool, writeVars, envVars>>

\* The writers are joined in the order of their paths; the first that panicked
\* ends the run, which ends the process.
Join ==
    /\ mpc = "join"
    /\ IF joined < NumPaths
       THEN CASE wpc[joined] = "ended"  -> /\ joined' = joined + 1
                                           /\ UNCHANGED <<mpc, result>>
              [] wpc[joined] = "failed" -> Return("err") /\ UNCHANGED joined
              [] OTHER -> FALSE
       ELSE /\ UNCHANGED joined
            /\ \/ cpc = "panicked" /\ Return("err")
               \/ cpc = "ended" /\ spc = "ended" /\ Return("ok")
    /\ UNCHANGED <<warps, plots, resume, schedVars, hashVars, plotAt, compVars,
                   pool, writeVars, envVars, files>>

-----------------------------------------------------------------------------
(* The scheduler thread. *)

Running == mpc = "join"
BufferNonces == Nonces * Min2(Escalate, warps[pointer] - hashed[pointer])
Rest == BufferNonces - requested

\* The n nonces of the buffer from slot chunk on, as a task for a hasher.
TaskAt(chunk, n) == HashTask(seeds[pointer], Nonces * hashed[pointer] + chunk, chunk, n)

ToGpus(task) == [g \in GpuIds |-> Append(gpuQueue[g], task)]

\* The compressor has gone, and its ends of the channels with it.
CompressorGone == cpc \in {"ended", "panicked"}

EndScheduler == spc' = "ended" /\ gpuQueue' = ToGpus(EndTask)

\* Nonces of the buffer that the hashers before the i-th get, GPUs first.
Granted(i) ==
    IF i <= Gpus THEN Min2(BufferNonces, (i - 1) * WorkSize)
    ELSE Min2(BufferNonces, Gpus * WorkSize + (i - 1 - Gpus) * CpuTaskSize)
FirstTask(i) == TaskAt(Granted(i), Granted(i + 1) - Granted(i))

\* Take the empty plot buffer and give every GPU and every CPU thread a first
\* task, as long as there are nonces left.
TakeBuffer ==
    LET busy == {i \in 1 .. Gpus + CpuThreads : FirstTask(i).n > 0} IN
    /\ Running
    /\ spc = "take"
    /\ IF plotAt = "empty" /\ ~stop
       THEN /\ plotAt' = "scheduler"
            /\ gpuQueue' = [g \in GpuIds |-> IF g \in busy
                                             THEN Append(gpuQueue[g], FirstTask(g))
                                             ELSE gpuQueue[g]]
            /\ cpuTasks' = cpuTasks \o
                           [i \in 1 .. Cardinality(busy \ GpuIds) |-> FirstTask(Gpus + i)]
            /\ requested' = Granted(Gpus + CpuThreads + 1)
            /\ processed' = 0
            /\ spc' = "control"
       ELSE /\ plotAt = "empty" \/ CompressorGone
            /\ EndScheduler
            /\ UNCHANGED <<plotAt, requested, processed, cpuTasks>>
    /\ UNCHANGED <<mainVars, pointer, seeds, hashed, filesHashed, rx, cpuIdle, gpu,
                   plot, compVars, pool, writeVars, envVars, files>>

\* The share of the rest a GPU gets: "leave some work for cpu in dual mode".
GpuShare ==
    LET n == Min2(WorkSize, Rest)
    IN  IF n < WorkSize /\ CpuThreads > 0 /\ n > CpuTaskSize THEN n \div 2 ELSE n

\* Mutant: a GPU that asks when nothing is left gets no answer, as at the start
\* of a buffer.
AnswerGpuIfWork(g) ==
    gpuQueue' = IF GpuShare = 0 THEN gpuQueue
                ELSE [gpuQueue EXCEPT ![g] = Append(@, TaskAt(requested, GpuShare))]

\* A GPU that asks for work is always answered: a task of no nonces makes it
\* hand over its last ones.
AnswerGpu(g) ==
    gpuQueue' = [gpuQueue EXCEPT ![g] = Append(@, TaskAt(requested, GpuShare))]

\* One message of the control loop.  A CPU request that comes when nothing is
\* left is dropped.
Control ==
    /\ Running
    /\ spc = "control"
    /\ rx # <<>>
    /\ rx' = Tail(rx)
    /\ LET msg == Head(rx) IN
       CASE msg.type = "cpu" ->
              LET n == Min2(CpuTaskSize, Rest) IN
              /\ cpuTasks' = IF n > 0 THEN Append(cpuTasks, TaskAt(requested, n))
                                      ELSE cpuTasks
              /\ requested' = requested + n
              /\ UNCHANGED <<gpuQueue, processed>>
         [] msg.type = "gpu" ->
              /\ AnswerGpu(msg.id)
              /\ requested' = requested + GpuShare
              /\ UNCHANGED <<cpuTasks, processed>>
         [] msg.type = "hashed" ->
              /\ processed' = processed + msg.n
              /\ UNCHANGED <<cpuTasks, gpuQueue, requested>>
    /\ spc' = IF processed' = BufferNonces THEN "handover" ELSE spc
    /\ UNCHANGED <<mainVars, pointer, seeds, hashed, filesHashed, cpuIdle, gpu, plot,
                   plotAt, compVars, pool, writeVars, envVars, files>>

\* Send the plot buffer to the compressor, which may be gone: the main thread
\* still holds a receiver.
HandOver ==
    /\ Running
    /\ spc = "handover"
    /\ handed = NoTask
    /\ handed' = [seed |-> seeds[pointer], start |-> hashed[pointer],
                  n |-> BufferNonces \div Nonces]
    /\ plotAt' = "compressor"
    /\ hashed' = [hashed EXCEPT ![pointer] = @ + BufferNonces \div Nonces]
    /\ spc' = "next"
    /\ UNCHANGED <<mainVars, pointer, seeds, filesHashed, requested, processed,
                   hashVars, cpc, ctask, compressed, endTo, pool, writeVars,
                   envVars, files>>

\* next_active_path: of the paths with files left, the nearest after the
\* current one.
ActivePaths(done) == {p \in Paths : done[p] < plots[p]}
NextActive(done) ==
    LET Distance(p) == (p - pointer - 1) % NumPaths
    IN  CHOOSE p \in ActivePaths(done) :
            \A q \in ActivePaths(done) : Distance(p) <= Distance(q)

\* Start the path's next file if one is complete, then go on to the next path.
Advance ==
    LET complete == hashed[pointer] = warps[pointer]
        done     == IF complete THEN [filesHashed EXCEPT ![pointer] = @ + 1]
                                ELSE filesHashed
        newFile  == complete /\ done[pointer] < plots[pointer]
    IN
    /\ Running
    /\ spc = "next"
    /\ filesHashed' = done
    /\ hashed' = IF newFile THEN [hashed EXCEPT ![pointer] = 0] ELSE hashed
    /\ seeds' = IF newFile THEN [seeds EXCEPT ![pointer] = <<pointer, @[2] + 1>>]
                           ELSE seeds
    /\ IF ActivePaths(done) = {}
       THEN EndScheduler /\ UNCHANGED pointer
       ELSE /\ pointer' = NextActive(done)
            /\ IF stop THEN EndScheduler ELSE spc' = "take" /\ UNCHANGED gpuQueue
    /\ UNCHANGED <<mainVars, requested, processed, rx, cpuTasks, cpuIdle, gpu, plot,
                   plotAt, compVars, pool, writeVars, envVars, files>>

Scheduler == TakeBuffer \/ Control \/ HandOver \/ Advance

-----------------------------------------------------------------------------
(* The hashers. *)

Hashed(n) == [type |-> "hashed", n |-> n]
CpuRequestForWork == [type |-> "cpu"]
GpuRequestForWork(g) == [type |-> "gpu", id |-> g]

\* The receiver of the messages goes with the scheduler; what is sent later is
\* lost.
Report(msgs) == rx' = IF spc = "ended" THEN rx ELSE rx \o msgs

\* hash_cpu up to its first message.  The threads of the pool take the tasks in
\* order and finish in any.
CpuHash ==
    /\ Running
    /\ \E i \in 1 .. Min2(Len(cpuTasks), CpuThreads - cpuIdle) :
         LET t == cpuTasks[i] IN
         /\ plot' = Scatter(t.seed, t.start, t.chunk, t.n)
         /\ Report(<<Hashed(t.n)>>)
         /\ cpuTasks' = SubSeq(cpuTasks, 1, i - 1)
                        \o SubSeq(cpuTasks, i + 1, Len(cpuTasks))
    /\ cpuIdle' = cpuIdle + 1
    /\ UNCHANGED <<mainVars, schedVars, gpuQueue, gpu, plotAt, compVars, pool,
                   writeVars, envVars, files>>

\* The second message of hash_cpu.
CpuRequest ==
    /\ Running
    /\ cpuIdle > 0
    /\ cpuIdle' = cpuIdle - 1
    /\ Report(<<CpuRequestForWork>>)
    /\ UNCHANGED <<mainVars, schedVars, cpuTasks, gpuQueue, gpu, plot, plotAt,
                   compVars, pool, writeVars, envVars, files>>

\* A GPU thread takes its next task.  A task of no nonces is ignored by a GPU
\* that has none to hand over.
GpuTake(g) ==
    /\ Running
    /\ gpu[g].pc = "recv"
    /\ gpuQueue[g] # <<>>
    /\ gpuQueue' = [gpuQueue EXCEPT ![g] = Tail(@)]
    /\ LET t == Head(gpuQueue[g]) IN
       gpu' = CASE t = EndTask -> [gpu EXCEPT ![g].pc = "ended"]
                [] t # EndTask /\ t.n = 0 /\ gpu[g].first -> gpu
                [] OTHER -> [gpu EXCEPT ![g].pc = "work", ![g].task = t]
    /\ UNCHANGED <<mainVars, schedVars, rx, cpuTasks, cpuIdle, plot, plotAt, compVars,
                   pool, writeVars, envVars, files>>

\* The kernels leave the nonces of the task in the current device buffer.
Kernels(me, seed) ==
    [me.dev EXCEPT ![me.buffer] = [seed |-> seed, start |-> me.task.start, n |-> me.task.n]]

\* Mutant: the seed is uploaded once, by the first task of all.
GpuHashSeedOnce(me) ==
    LET seed == IF me.seed = NoTask.seed THEN me.task.seed ELSE me.seed
    IN  [me EXCEPT !.seed = seed, !.dev = Kernels(me, seed)]

\* gpu_hash uploads the seed and runs the kernels.
GpuHash(me) == [me EXCEPT !.seed = me.task.seed, !.dev = Kernels(me, me.task.seed)]

\* gpu_hash_and_transfer_to_host runs them with the seed that is there.
GpuHashNext(me) == [me EXCEPT !.dev = Kernels(me, me.seed)]

\* The other device buffer is moved to the slots of the task before.
TransferToHost(me) ==
    LET from == me.dev[1 - me.buffer]
    IN  Scatter(from.seed, from.start, me.last.chunk, me.last.n)

\* Mutant: a task is reported when its kernels have run.
HashedByGpuEarly(me) == IF me.task.n = 0 THEN <<>> ELSE <<Hashed(me.task.n)>>

\* The nonces reported are those moved to the plot buffer, the last task's.
HashedByGpu(me) == IF me.first THEN <<>> ELSE <<Hashed(me.last.n)>>

\* The first task of a buffer is hashed only; the next ones are hashed into one
\* device buffer while the other is moved to the host; a task of no nonces just
\* moves the last ones.
GpuWork(g) ==
    LET me   == gpu[g]
        last == me.task.n = 0
        run  == IF me.first THEN GpuHash(me) ELSE GpuHashNext(me)
    IN
    /\ Running
    /\ me.pc = "work"
    /\ plot' = IF me.first THEN plot ELSE TransferToHost(me)
    /\ gpu' = [gpu EXCEPT ![g] =
                IF last
                THEN [me EXCEPT !.pc = "recv", !.first = TRUE, !.buffer = 0]
                ELSE [run EXCEPT !.pc = "recv", !.first = FALSE, !.buffer = 1 - @,
                                 !.last = me.task]]
    /\ Report(HashedByGpu(me) \o (IF last THEN <<>> ELSE <<GpuRequestForWork(g)>>))
    /\ UNCHANGED <<mainVars, schedVars, cpuTasks, cpuIdle, gpuQueue, plotAt, compVars,
                   pool, writeVars, envVars, files>>

Hasher == CpuHash \/ CpuRequest \/ \E g \in GpuIds : GpuTake(g) \/ GpuWork(g)

-----------------------------------------------------------------------------
(* The compressor thread. *)

CompressorTake ==
    /\ Running
    /\ cpc = "recv"
    /\ IF handed # NoTask
       THEN ctask' = handed /\ handed' = NoTask /\ cpc' = "buffer"
       ELSE spc = "ended" /\ cpc' = "ended" /\ UNCHANGED <<ctask, handed>>
    /\ UNCHANGED <<mainVars, schedVars, hashVars, plotAt, compressed, endTo, pool,
                   writeVars, envVars, files>>

WriterGone(p) == wpc[p] \in {"ended", "failed"}
Panic == cpc' = "panicked" /\ plotAt' = "lost"

\* Wait for a write buffer; when every writer is gone there is none to come.
CompressorBuffer ==
    /\ Running
    /\ cpc = "buffer"
    /\ IF pool > 0
       THEN pool' = pool - 1 /\ cpc' = "send" /\ UNCHANGED plotAt
       ELSE (\A p \in Paths : WriterGone(p)) /\ Panic /\ UNCHANGED pool
    /\ UNCHANGED <<mainVars, schedVars, hashVars, handed, ctask, compressed, endTo,
                   writeVars, envVars, files>>

ProcessTask(t) ==
    [seed |-> t.seed, start |-> t.start, n |-> t.n, size |-> warps[t.seed[1]],
     data |-> [i \in 0 .. t.n - 1 |-> Compress(i)]]

\* Mutant: one file is counted for every path.
AllOfOneFile(n) == n = Total(warps, [p \in Paths |-> 1]) - resume

\* All warps of the run are compressed, those of the resumed file aside.
AllCompressed(n) == n = Total(warps, plots) - resume

\* Compress into the write buffer, send it to the writer of the path and give
\* the plot buffer back, unless this was the last one.
CompressorSend ==
    LET p == ctask.seed[1] IN
    /\ Running
    /\ cpc = "send"
    /\ IF WriterGone(p)
       THEN Panic /\ UNCHANGED <<wqueue, compressed>>
       ELSE /\ Len(wqueue[p]) < WriteBuffers
            /\ wqueue' = [wqueue EXCEPT ![p] = Append(@, ProcessTask(ctask))]
            /\ compressed' = compressed + ctask.n
            /\ IF stop \/ AllCompressed(compressed')
               THEN cpc' = "end" /\ UNCHANGED plotAt
               ELSE cpc' = "recv" /\ plotAt' = "empty"
    /\ UNCHANGED <<mainVars, schedVars, hashVars, handed, ctask, endTo, pool, wpc,
                   wtask, envVars, files>>

\* Send EndTask to one writer after the other, skipping those that are gone;
\* then give the plot buffer back, if there is one, and end.
CompressorEnd ==
    /\ Running
    /\ cpc = "end"
    /\ IF endTo < NumPaths
       THEN /\ IF WriterGone(endTo) THEN UNCHANGED wqueue
               ELSE /\ Len(wqueue[endTo]) < WriteBuffers
                    /\ wqueue' = [wqueue EXCEPT ![endTo] = Append(@, EndTask)]
            /\ endTo' = endTo + 1
            /\ UNCHANGED <<cpc, plotAt>>
       ELSE /\ cpc' = "ended"
            /\ plotAt' = IF ctask = NoTask THEN plotAt ELSE "empty"
            /\ UNCHANGED <<wqueue, endTo>>
    /\ UNCHANGED <<mainVars, schedVars, hashVars, handed, ctask, compressed, pool, wpc,
                   wtask, envVars, files>>

Compressor == CompressorTake \/ CompressorBuffer \/ CompressorSend \/ CompressorEnd

-----------------------------------------------------------------------------
(* The writer threads. *)

WriterTake(p) ==
    /\ Running
    /\ wpc[p] = "recv"
    /\ IF wqueue[p] # <<>>
       THEN /\ wqueue' = [wqueue EXCEPT ![p] = Tail(@)]
            /\ wtask' = [wtask EXCEPT ![p] = Head(wqueue[p])]
            /\ wpc' = [wpc EXCEPT ![p] = IF Head(wqueue[p]) = EndTask THEN "ended"
                                                                     ELSE "write"]
       ELSE /\ CompressorGone
            /\ wpc' = [wpc EXCEPT ![p] = "ended"]
            /\ UNCHANGED <<wqueue, wtask>>
    /\ UNCHANGED <<mainVars, schedVars, hashVars, plotAt, compVars, pool, envVars, files>>

\* The file a task finds: created by its first task, opened by the others.
Opened(t) == IF t.start = 0 THEN Partial(t.seed, t.size, 0) ELSE files[t.seed]

\* The checks of write_optimised_buffer_into_plotfile.
WriteAllowed(t) ==
    /\ Opened(t).size > 0
    /\ ~Opened(t).finished
    /\ t.start = Opened(t).marker
    /\ t.start + t.n <= Opened(t).size

\* Open the file, write the warps and the marker, and finish the file with its
\* last warp.  A thread that panics takes its buffer with it.
WriterWrite(p) ==
    LET t == wtask[p]
        f == Opened(t)
        end == t.start + t.n
    IN
    /\ Running
    /\ wpc[p] = "write"
    /\ \/ /\ WriteAllowed(t)
          /\ files' = [files EXCEPT ![t.seed] =
                [f EXCEPT !.marker = end,
                          !.finished = (end = f.size),
                          !.data = [w \in DOMAIN f.data |->
                                       IF w \in t.start .. end - 1
                                       THEN t.data[w - t.start] ELSE f.data[w]]]]
          /\ wpc' = [wpc EXCEPT ![p] = "recycle"]
          /\ UNCHANGED faults
       \/ /\ ~WriteAllowed(t) \/ faults < MaxFaults
          /\ faults' = IF WriteAllowed(t) THEN faults + 1 ELSE faults
          /\ wpc' = [wpc EXCEPT ![p] = "failed"]
          /\ UNCHANGED files
    /\ UNCHANGED <<mainVars, schedVars, hashVars, plotAt, compVars, pool, wqueue, wtask,
                   stop, given>>

WriterRecycle(p) ==
    /\ Running
    /\ wpc[p] = "recycle"
    /\ wpc' = [wpc EXCEPT ![p] = "recv"]
    /\ wtask' = [wtask EXCEPT ![p] = NoTask]
    /\ pool' = pool + 1
    /\ UNCHANGED <<mainVars, schedVars, hashVars, plotAt, compVars, wqueue, envVars, files>>

Writer(p) == WriterTake(p) \/ WriterWrite(p) \/ WriterRecycle(p)

-----------------------------------------------------------------------------
(* The specification. *)

RequestStop ==
    /\ MayStop
    /\ Running
    /\ ~stop
    /\ stop' = TRUE
    /\ UNCHANGED <<mainVars, schedVars, hashVars, plotAt, compVars, pool, writeVars,
                   faults, given, files>>

Next ==
    \/ Setup
    \/ Join
    \/ Scheduler
    \/ Hasher
    \/ Compressor
    \/ \E p \in Paths : Writer(p)
    \/ RequestStop

Spec == Init /\ [][Next]_vars

\* Every thread is scheduled again and again; a GPU finishes what it was given.
\* Nothing makes the user stop the run or an I/O call fail.
Fairness ==
    /\ WF_vars(Setup)
    /\ WF_vars(Join)
    /\ WF_vars(Scheduler)
    /\ WF_vars(CpuHash)
    /\ WF_vars(CpuRequest)
    /\ \A g \in GpuIds : WF_vars(GpuTake(g) \/ GpuWork(g))
    /\ WF_vars(Compressor)
    /\ \A p \in Paths : WF_vars(Writer(p))

FairSpec == Spec /\ Fairness

-----------------------------------------------------------------------------
(* Properties. *)

\* A file holds, up to its marker, the warps of its own seed in order: whichever
\* hasher made them, with whatever tasks, device buffers and request order
\* (GpuTask.seed is uploaded only by the first task of a buffer).
FilesRight ==
    \A s \in Seeds : \A w \in 0 .. files[s].marker - 1 : files[s].data[w] = <<s, w>>

\* While the plot buffer is not the scheduler's no hasher has a task whose
\* nonces it still has to move there: the buffer behind the raw pointers of the
\* tasks is never written while the compressor reads it.
HashersQuietAfterHandover ==
    plotAt # "scheduler" =>
        /\ cpuTasks = <<>>
        /\ \A g \in GpuIds : gpu[g].first /\ gpu[g].pc # "work"

\* A run that returns Ok, and that nobody stopped, has finished exactly the files
\* it was planned for, besides the one a kill had left complete.
OkMeansPlotted ==
    (result = "ok" /\ ~stop) =>
        \A p \in Paths : plots[p] = Cardinality({s \in Seeds :
            /\ s[1] = p
            /\ files[s].finished
            /\ ~(KillWindow /\ s = <<0, 0>>)})

\* A run ends, stopped or not, and ends well unless its plan fails or an I/O call
\* does: no GPU waits for a task, no thread for a buffer or a message for ever, and
\* what is sent to a writer always fits the file it finds.
RunEnds == <>(result = "ok" \/ faults > 0 \/ (result = "err" /\ spc = "down"))

=============================================================================
