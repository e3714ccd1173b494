---------------------------- MODULE PlotPipeline ----------------------------
(***************************************************************************)
(* The CPU plotting pipeline of pocx_plotter_v2: one scheduler thread       *)
(* (cpu_scheduler.rs) that hashes and compresses nonces into write          *)
(* buffers, one writer thread per output path (disk_writer.rs) that writes  *)
(* them into plot files (pocx_plotfile), a shared pool of empty buffers and *)
(* the main thread that joins them (plotter.rs).  Every thread runs at its  *)
(* own pace; the process may be killed between any two steps and started    *)
(* again, and an I/O call of a writer may fail.                             *)
(*                                                                          *)
(* Data.  The unit of hashing is one COMPRESS_BATCH of nonces, named by its *)
(* seed and its number.  The content of a warp is the set of batches that   *)
(* were XORed into it, so that the second XOR of a batch cancels the first. *)
(* A seed drawn at random is <<run, number of the file in the run>>: two    *)
(* draws of 32 random bytes never collide.                                  *)
(***************************************************************************)
EXTENDS Integers, Sequences, FiniteSets

CONSTANTS
    MaxPaths,       \* bound: output paths, numbered from 0
    Warps,          \* Warps[p]: warps of each file of path p
    Escalate,       \* warps held by one write buffer
    Jobs,           \* what the program may be started for: see JobOK
    MaxPlots,       \* bound: files to plot into one path
    MaxRuns         \* bound: how often the program is started

SeedIds == (1 .. MaxRuns) \X (1 .. MaxPlots)
Files   == (0 .. MaxPaths - 1) \X SeedIds

JobOK(j) ==
    /\ j.paths \in 1 .. MaxPaths        \* output paths
    /\ j.plots \in [0 .. j.paths - 1 -> 1 .. MaxPlots]  \* files to plot into each
    /\ j.passes \in Nat \ {0}  \* helix passes XORed into one warp: 2^(compress - 1)
    /\ j.async \in BOOLEAN     \* one write buffer more than there are paths
    /\ j.faults \in Nat        \* bound: how many I/O calls fail
    /\ j.stops \in BOOLEAN     \* whether the user may request a stop

ASSUME PipelineAssumption ==
    /\ MaxPaths \in Nat \ {0}
    /\ Warps \in [0 .. MaxPaths - 1 -> Nat \ {0}]
    /\ Escalate \in Nat \ {0}
    /\ MaxPlots \in Nat \ {0}
    /\ MaxRuns \in Nat
    /\ Jobs # {}
    /\ \A j \in Jobs : JobOK(j)

VARIABLES
    \* the scheduler thread
    pc,             \* "down" when no process runs
    path,           \* path_pointer
    seeds,          \* seeds[p]: the seed of the current file of path p
    warpOffset,     \* warp_offsets[p]: warps of that file compressed so far
    filesDone,      \* files_done[p]
    nonces,         \* global_nonces[p], in batches
    pass,           \* pass_in_warp
    held,           \* whether the scheduler holds a write buffer
    slots,          \* the warps of the held buffer
    inBuffer,       \* warps_in_buffer
    bufStart,       \* buffer_start_warp
    bufPath,        \* buffer_path
    endTo,          \* the next writer to be sent EndTask
    \* shared by the threads of the process
    pool,           \* empty write buffers in the channel
    queue,          \* queue[p]: the channel to the writer of path p
    stop,           \* STOP_REQUESTED
    \* the writer threads
    wpc,            \* wpc[p]: where the writer of path p stands
    wtask,          \* wtask[p]: the task it works on
    \* the process and its environment
    job,            \* the arguments of the program, the same in every run
    run,            \* how often the program was started
    firstSeed,      \* firstSeed[p]: the seed the run started path p with
    result,         \* what the last run returned
    faults,         \* I/O calls that failed so far
    \* the disk
    tmp,            \* tmp[f]: the unfinished file .tmp of f
    pocx            \* pocx[f]: the finished file .pocx of f

schedVars  == <<path, seeds, warpOffset, filesDone, nonces, pass, held, slots,
                inBuffer, bufStart, bufPath, endTo>>
sharedVars == <<pool, queue, stop>>
writerVars == <<wpc, wtask>>
procVars   == <<job, run, firstSeed, result, faults>>
diskVars   == <<tmp, pocx>>
vars == <<pc, schedVars, sharedVars, writerVars, procVars, diskVars>>

NumPaths   == job.paths
Plots      == job.plots
Passes     == job.passes
Paths      == 0 .. NumPaths - 1
NumBuffers == NumPaths + (IF job.async THEN 1 ELSE 0)

-----------------------------------------------------------------------------
(* Contents of warps, buffers and files. *)

Batch    == SeedIds \X Nat
Junk     == << <<0, 0>>, 0 >>       \* bytes that no hashing produced
Contents == SUBSET (Batch \cup {Junk})

\* What warp w of a file with seed s must hold: the XOR of its batches.
Right(s, w) == {s} \X (w * Passes .. (w + 1) * Passes - 1)

Xor(a, b) == (a \ b) \cup (b \ a)

StaleSlots == [i \in 0 .. Escalate - 1 |-> {Junk}]

NoMarker == -1
NoTmp(p) == [size |-> "none", marker |-> NoMarker,
             data |-> [w \in 0 .. Warps[p] - 1 |-> {}]]
NoPocx   == <<>>

\* A file that ends in a marker (see WriteMarker) and the marker's progress.
HasMarker(t) == t.marker # NoMarker

NoTask  == [type |-> "none"]
EndTask == [type |-> "end"]
Finalize(s) == [type |-> "finalize", seed |-> s]
ProcessTask(s, start, n, data) ==
    [type |-> "process", seed |-> s, start |-> start, n |-> n, data |-> data]

Alive(p) == wpc[p] \notin {"ended", "failed"}

-----------------------------------------------------------------------------
(* Starting and ending the process. *)

Init ==
    /\ job \in Jobs
    /\ pc = "down"
    /\ path = 0
    /\ seeds = [p \in Paths |-> <<0, 0>>]
    /\ warpOffset = [p \in Paths |-> 0]
    /\ filesDone = [p \in Paths |-> 0]
    /\ nonces = [p \in Paths |-> 0]
    /\ pass = 0
    /\ held = FALSE
    /\ slots = StaleSlots
    /\ inBuffer = 0
    /\ bufStart = 0
    /\ bufPath = 0
    /\ endTo = 0
    /\ pool = 0
    /\ queue = [p \in Paths |-> <<>>]
    /\ stop = FALSE
    /\ wpc = [p \in Paths |-> "ended"]
    /\ wtask = [p \in Paths |-> NoTask]
    /\ run = 0
    /\ firstSeed = [p \in Paths |-> <<0, 0>>]
    /\ result = "none"
    /\ faults = 0
    /\ tmp = [f \in Files |-> NoTmp(f[1])]
    /\ pocx = [f \in Files |-> NoPocx]

\* Mutant: a file without a marker is taken for a complete one, as the text of
\* the error NoResumeInfo suggests.
ResumeInfoLenient(p, t) ==
    IF t.size # "full" THEN 0 ELSE IF HasMarker(t) THEN t.marker ELSE Warps[p]

\* PoCXPlotFile::read_resume_info, as main and the writer use it: a file too
\* short for a marker is an I/O error, one without a marker counts as empty.
ResumeInfo(p, t) == IF t.size = "full" /\ HasMarker(t) THEN t.marker ELSE 0

\* The seeds the user may give for a path: that of an unfinished file, or none.
Resumable(p) == {s \in SeedIds : tmp[<<p, s>>].size # "none"}

NextActive(p, done) ==
    LET later == {i \in 1 .. NumPaths :
                    done[(p + i) % NumPaths] < Plots[(p + i) % NumPaths]}
    IN  IF later = {} THEN p
        ELSE (p + (CHOOSE i \in later : \A j \in later : i <= j)) % NumPaths

FirstActive(done) ==
    IF done[0] < Plots[0] THEN 0
    ELSE LET active == {p \in Paths : done[p] < Plots[p]}
         IN  IF active = {} THEN 0
             ELSE CHOOSE p \in active : \A q \in active : p <= q

\* Whether the marker says that every warp is written: the last run was killed
\* between the final marker and the renaming.
Full(p, progress) == progress >= Warps[p]

\* Plotter::run up to the loop of the scheduler: read how far the given seeds
\* got, fill the pool, spawn the writers, and let the scheduler send Finalize
\* for each file whose marker says that every warp is written.
Start(given) ==
    LET first   == [p \in Paths |-> IF given[p] = <<0, 0>> THEN <<run + 1, 1>>
                                                           ELSE given[p]]
        resumes == [p \in Paths |-> IF given[p] = <<0, 0>> THEN 0
                                    ELSE ResumeInfo(p, tmp[<<p, given[p]>>])]
        full    == {p \in Paths : Full(p, resumes[p])}
        done    == [p \in Paths |-> IF p \in full THEN 1 ELSE 0]
        offset  == [p \in Paths |-> IF p \in full THEN 0 ELSE resumes[p]]
    IN
    /\ pc = "down"
    /\ run < MaxRuns
    /\ run' = run + 1
    /\ pc' = "hash"
    /\ firstSeed' = first
    /\ seeds' = [p \in Paths |-> IF p \in full /\ 1 < Plots[p]
                                 THEN <<run + 1, 2>> ELSE first[p]]
    /\ warpOffset' = offset
    /\ filesDone' = done
    /\ nonces' = [p \in Paths |-> offset[p] * Passes]
    /\ pass' = 0
    /\ path' = FirstActive(done)
    /\ held' = FALSE
    /\ slots' = StaleSlots
    /\ inBuffer' = 0
    /\ bufStart' = offset[FirstActive(done)]
    /\ bufPath' = FirstActive(done)
    /\ endTo' = 0
    /\ pool' = NumBuffers
    /\ queue' = [p \in Paths |-> IF p \in full THEN <<Finalize(first[p])>>
                                               ELSE <<>>]
    /\ stop' = FALSE
    /\ wpc' = [p \in Paths |-> "recv"]
    /\ wtask' = [p \in Paths |-> NoTask]
    /\ result' = "none"
    /\ UNCHANGED <<job, faults, diskVars>>

StartRun ==
    \E given \in [Paths -> SeedIds \cup {<<0, 0>>}] :
        /\ \A p \in Paths : given[p] \in Resumable(p) \cup {<<0, 0>>}
        /\ Start(given)

\* The threads, channels and buffers of the process are gone, the files stay.
Exit ==
    /\ pc' = "down"
    /\ path' = 0
    /\ seeds' = [p \in Paths |-> <<0, 0>>]
    /\ warpOffset' = [p \in Paths |-> 0]
    /\ filesDone' = [p \in Paths |-> 0]
    /\ nonces' = [p \in Paths |-> 0]
    /\ pass' = 0
    /\ held' = FALSE
    /\ slots' = StaleSlots
    /\ inBuffer' = 0
    /\ bufStart' = 0
    /\ bufPath' = 0
    /\ endTo' = 0
    /\ pool' = 0
    /\ queue' = [p \in Paths |-> <<>>]
    /\ wpc' = [p \in Paths |-> "ended"]
    /\ wtask' = [p \in Paths |-> NoTask]

\* The process is killed.
Crash ==
    /\ pc # "down"
    /\ run < MaxRuns
    /\ Exit
    /\ result' = "killed"
    /\ UNCHANGED <<stop, job, run, firstSeed, faults, diskVars>>

\* Mutant: the results of the writers are not looked at.
ReturnOk ==
    /\ pc = "done"
    /\ \A p \in Paths : ~Alive(p)
    /\ Exit
    /\ result' = "ok"
    /\ UNCHANGED <<stop, job, run, firstSeed, faults, diskVars>>

\* Main joins the scheduler and then every writer, and returns the first error.
Return ==
    /\ pc = "done"
    /\ \A p \in Paths : ~Alive(p)
    /\ Exit
    /\ result' = IF \E p \in Paths : wpc[p] = "failed" THEN "err" ELSE "ok"
    /\ UNCHANGED <<stop, job, run, firstSeed, faults, diskVars>>

\* A library user calls request_stop.
RequestStop ==
    /\ job.stops
    /\ pc # "down"
    /\ ~stop
    /\ stop' = TRUE
    /\ UNCHANGED <<pc, schedVars, pool, queue, writerVars, procVars, diskVars>>

-----------------------------------------------------------------------------
(* The scheduler thread. *)

AllDone == \A p \in Paths : filesDone[p] >= Plots[p]

\* The top of the loop: leave it when all files are done or a stop is
\* requested, else hash one batch of the current path into the scatter buffer.
Hash ==
    /\ pc = "hash"
    /\ IF AllDone \/ stop
       THEN /\ pc' = "drain"
            /\ UNCHANGED nonces
       ELSE /\ pc' = "compress"
            /\ nonces' = [nonces EXCEPT ![path] = @ + 1]
    /\ UNCHANGED <<path, seeds, warpOffset, filesDone, pass, held, slots,
                   inBuffer, bufStart, bufPath, endTo, sharedVars, writerVars,
                   procVars, diskVars>>

\* What one pass leaves in the slot it compresses into.
Compressed(old) ==
    LET batch == {<<seeds[path], nonces[path] - 1>>}
    IN  IF pass = 0 THEN batch ELSE Xor(old, batch)

\* Compress the batch into the next warp of the write buffer, waiting for an
\* empty buffer when none is held; the last pass of a warp completes it.
Compress ==
    LET old  == IF held THEN slots ELSE StaleSlots
        last == pass + 1 = Passes
    IN
    /\ pc = "compress"
    /\ held \/ pool > 0
    /\ held' = TRUE
    /\ pool' = IF held THEN pool ELSE pool - 1
    /\ bufStart' = IF held THEN bufStart ELSE warpOffset[path]
    /\ bufPath' = IF held THEN bufPath ELSE path
    /\ slots' = [old EXCEPT ![inBuffer] = Compressed(@)]
    /\ IF last
       THEN /\ pass' = 0
            /\ inBuffer' = inBuffer + 1
            /\ warpOffset' = [warpOffset EXCEPT ![path] = @ + 1]
            /\ pc' = IF \/ inBuffer + 1 = Escalate
                        \/ warpOffset[path] + 1 = Warps[path]
                     THEN "flush" ELSE "hash"
       ELSE /\ pass' = pass + 1
            /\ pc' = "hash"
            /\ UNCHANGED <<inBuffer, warpOffset>>
    /\ UNCHANGED <<path, seeds, filesDone, nonces, endTo, queue, stop,
                   writerVars, procVars, diskVars>>

\* The closure flush_buffer: hand the held buffer to the writer of its path,
\* waiting while its channel is full.  If that writer has failed the buffer is
\* dropped, a stop is requested and the count of buffered warps stays.
FlushBuffer(s) ==
    \/ /\ held
       /\ Alive(bufPath)
       /\ Len(queue[bufPath]) < NumBuffers
       /\ queue' = [queue EXCEPT ![bufPath] =
                      Append(@, ProcessTask(s, bufStart, inBuffer,
                                   [i \in 0 .. inBuffer - 1 |-> slots[i]]))]
       /\ held' = FALSE
       /\ inBuffer' = 0
       /\ UNCHANGED stop
    \/ /\ held
       /\ ~Alive(bufPath)
       /\ held' = FALSE
       /\ stop' = TRUE
       /\ UNCHANGED <<queue, inBuffer>>
    \/ /\ ~held
       /\ UNCHANGED <<queue, held, inBuffer, stop>>

\* The seeds after a file is finished: a new one if its path has more to plot.
NextSeeds(done) ==
    IF done[path] > filesDone[path] /\ done[path] < Plots[path]
    THEN [seeds EXCEPT ![path] = <<run, done[path] + 1>>] ELSE seeds

\* Send a full buffer, or the last one of a file, then count the finished file,
\* draw the seed of the next one and go to the next path with work left.
Flush ==
    LET boundary == warpOffset[path] = Warps[path]
        done     == IF boundary THEN [filesDone EXCEPT ![path] = @ + 1]
                                ELSE filesDone
        allDone  == \A p \in Paths : done[p] >= Plots[p]
        leave    == NumPaths > 1 /\ allDone
        next     == IF NumPaths > 1 THEN NextActive(path, done) ELSE path
        reset    == boundary /\ ~leave
    IN
    /\ pc = "flush"
    /\ FlushBuffer(seeds[path])
    /\ filesDone' = done
    /\ seeds' = NextSeeds(done)
    /\ path' = next
    /\ warpOffset' = IF reset THEN [warpOffset EXCEPT ![path] = 0] ELSE warpOffset
    /\ nonces' = IF reset THEN [nonces EXCEPT ![path] = 0] ELSE nonces
    /\ bufStart' = IF ~leave /\ (next # path \/ boundary) THEN warpOffset'[next]
                   ELSE IF Alive(bufPath) THEN warpOffset[path] ELSE bufStart
    /\ pc' = IF leave THEN "drain" ELSE "hash"
    /\ UNCHANGED <<pass, slots, bufPath, endTo, pool, writerVars, procVars,
                   diskVars>>

\* After the loop: flush the warps a stop left in the buffer.
Drain ==
    /\ pc = "drain"
    /\ IF inBuffer > 0
       THEN /\ FlushBuffer(seeds[bufPath])
            /\ bufStart' = IF held /\ Alive(bufPath) THEN warpOffset[bufPath]
                                                     ELSE bufStart
       ELSE UNCHANGED <<queue, held, inBuffer, bufStart, stop>>
    /\ pc' = "end"
    /\ UNCHANGED <<path, seeds, warpOffset, filesDone, nonces, pass, slots,
                   bufPath, endTo, pool, writerVars, procVars, diskVars>>

\* Send EndTask to the writers one after the other; a dead one is skipped.
End ==
    /\ pc = "end"
    /\ Alive(endTo) => Len(queue[endTo]) < NumBuffers
    /\ queue' = IF Alive(endTo)
                THEN [queue EXCEPT ![endTo] = Append(@, EndTask)] ELSE queue
    /\ IF endTo + 1 < NumPaths
       THEN endTo' = endTo + 1 /\ UNCHANGED pc
       ELSE pc' = "done" /\ UNCHANGED endTo
    /\ UNCHANGED <<path, seeds, warpOffset, filesDone, nonces, pass, held,
                   slots, inBuffer, bufStart, bufPath, pool, stop, writerVars,
                   procVars, diskVars>>

-----------------------------------------------------------------------------
(* The writer thread of path p. *)

\* The file a task is about.
FileOf(p) == <<p, wtask[p].seed>>

\* Take the next task; EndTask ends the loop.
Receive(p) ==
    /\ wpc[p] = "recv"
    /\ queue[p] # <<>>
    /\ queue' = [queue EXCEPT ![p] = Tail(@)]
    /\ LET t == Head(queue[p])
       IN  /\ wpc' = [wpc EXCEPT ![p] = CASE t.type = "end"      -> "ended"
                                          [] t.type = "finalize" -> "finalize"
                                          [] OTHER               -> "open"]
           /\ wtask' = [wtask EXCEPT ![p] = IF t.type = "end" THEN NoTask ELSE t]
    /\ UNCHANGED <<pc, schedVars, pool, stop, procVars, diskVars>>

\* An error ends the writer: it requests a stop and drops its buffer and its
\* channel with every task still queued.
Fail(p) ==
    /\ wpc' = [wpc EXCEPT ![p] = "failed"]
    /\ wtask' = [wtask EXCEPT ![p] = NoTask]
    /\ queue' = [queue EXCEPT ![p] = <<>>]
    /\ stop' = TRUE

\* PoCXPlotFile::new with create = (warp_offset == 0): create a missing file,
\* still empty, or open the one that is there.
Open(p) ==
    LET missing == tmp[FileOf(p)].size = "none"
        create  == wtask[p].start = 0
    IN
    /\ wpc[p] = "open"
    /\ IF missing /\ ~create
       THEN /\ Fail(p)
            /\ UNCHANGED tmp
       ELSE /\ tmp' = IF missing THEN [tmp EXCEPT ![FileOf(p)].size = "empty"]
                                 ELSE tmp
            /\ wpc' = [wpc EXCEPT ![p] = IF missing THEN "alloc" ELSE "write"]
            /\ UNCHANGED <<wtask, queue, stop>>
    /\ UNCHANGED <<pc, schedVars, pool, procVars, pocx>>

\* preallocate gives the new file its size.
Allocate(p) ==
    /\ wpc[p] = "alloc"
    /\ tmp' = [tmp EXCEPT ![FileOf(p)].size = "full"]
    /\ wpc' = [wpc EXCEPT ![p] = "mark0"]
    /\ UNCHANGED <<pc, schedVars, sharedVars, wtask, procVars, pocx>>

\* write_resume_info(0) into a new file.
WriteMarker0(p) ==
    /\ wpc[p] = "mark0"
    /\ tmp' = [tmp EXCEPT ![FileOf(p)].marker = 0]
    /\ wpc' = [wpc EXCEPT ![p] = "write"]
    /\ UNCHANGED <<pc, schedVars, sharedVars, wtask, procVars, pocx>>

\* The checks of write_optimised_buffer_into_plotfile.
WriteAllowed(p) ==
    /\ tmp[FileOf(p)].size = "full"
    /\ wtask[p].start = ResumeInfo(p, tmp[FileOf(p)])
    /\ wtask[p].start + wtask[p].n <= Warps[p]

Written(p) == wtask[p].start .. wtask[p].start + wtask[p].n - 1

\* Mutant: the new marker is written before the warps it stands for.
WriteScoopsMarkerFirst(p) ==
    /\ wpc[p] = "write"
    /\ WriteAllowed(p)
    /\ tmp' = [tmp EXCEPT ![FileOf(p)] =
                 [size   |-> @.size,
                  marker |-> wtask[p].start + wtask[p].n,
                  data   |-> [w \in DOMAIN @.data |->
                                IF w \in Written(p) THEN {Junk} ELSE @.data[w]]]]
    /\ wpc' = [wpc EXCEPT ![p] = "last"]
    /\ UNCHANGED <<wtask, queue, stop>>
    /\ UNCHANGED <<pc, schedVars, pool, procVars, pocx>>

\* Check the resume info and write the first scoops: every warp of the task is
\* torn from here until its last scoop is written.
WriteScoops(p) ==
    /\ wpc[p] = "write"
    /\ IF WriteAllowed(p)
       THEN /\ tmp' = [tmp EXCEPT ![FileOf(p)].data =
                         [w \in DOMAIN @ |-> IF w \in Written(p)
                                             THEN {Junk} ELSE @[w]]]
            /\ wpc' = [wpc EXCEPT ![p] = "last"]
            /\ UNCHANGED <<wtask, queue, stop>>
       ELSE /\ Fail(p)
            /\ UNCHANGED tmp
    /\ UNCHANGED <<pc, schedVars, pool, procVars, pocx>>

\* Write the last scoop.  That of the last warp ends at the end of the file, on
\* top of the marker.
WriteLastScoop(p) ==
    LET start == wtask[p].start
        n     == wtask[p].n
        old   == tmp[FileOf(p)]
    IN
    /\ wpc[p] = "last"
    /\ tmp' = [tmp EXCEPT ![FileOf(p)] =
                 [size   |-> old.size,
                  marker |-> IF start + n = Warps[p] THEN NoMarker
                                                     ELSE old.marker,
                  data   |-> [w \in DOMAIN old.data |->
                                IF w \in Written(p) THEN wtask[p].data[w - start]
                                                    ELSE old.data[w]]]]
    /\ wpc' = [wpc EXCEPT ![p] = "marker"]
    /\ UNCHANGED <<pc, schedVars, sharedVars, wtask, procVars, pocx>>

\* Mutant: the buffer is dropped with the task.
RecycleDropped(p) ==
    /\ wpc' = [wpc EXCEPT ![p] = "recv"]
    /\ wtask' = [wtask EXCEPT ![p] = NoTask]
    /\ UNCHANGED pool

\* The task is done: its buffer goes back to the pool.
Recycle(p) ==
    /\ wpc' = [wpc EXCEPT ![p] = "recv"]
    /\ wtask' = [wtask EXCEPT ![p] = NoTask]
    /\ pool' = pool + 1

\* Mutant: the marker counts the warps of this write only.
ProgressOfTask(p) == wtask[p].n

\* The progress that the marker of this write records.
NewProgress(p) == wtask[p].start + wtask[p].n

\* write_resume_info(start_warp + warps_to_write).
WriteMarker(p) ==
    /\ wpc[p] = "marker"
    /\ tmp' = [tmp EXCEPT ![FileOf(p)].marker = NewProgress(p)]
    /\ IF wtask[p].start + wtask[p].n = Warps[p]
       THEN /\ wpc' = [wpc EXCEPT ![p] = "rename"]
            /\ UNCHANGED <<wtask, pool>>
       ELSE Recycle(p)
    /\ UNCHANGED <<pc, schedVars, queue, stop, procVars, pocx>>

\* PoCXPlotFile::finalize: rename .tmp to .pocx.
RenameFile(p) ==
    /\ pocx' = [pocx EXCEPT ![FileOf(p)] = tmp[FileOf(p)]]
    /\ tmp' = [tmp EXCEPT ![FileOf(p)] = NoTmp(p)]

Rename(p) ==
    /\ wpc[p] = "rename"
    /\ RenameFile(p)
    /\ Recycle(p)
    /\ UNCHANGED <<pc, schedVars, queue, stop, procVars>>

\* The Finalize task opens the file and renames it; an error is only logged.
FinalizeFile(p) ==
    /\ wpc[p] = "finalize"
    /\ IF tmp[FileOf(p)].size = "none" THEN UNCHANGED <<tmp, pocx>>
                                       ELSE RenameFile(p)
    /\ wpc' = [wpc EXCEPT ![p] = "recv"]
    /\ wtask' = [wtask EXCEPT ![p] = NoTask]
    /\ UNCHANGED <<pc, schedVars, sharedVars, procVars>>

\* An I/O call of the writer fails, wherever it stands.
Fault(p) ==
    /\ faults < job.faults
    /\ faults' = faults + 1
    /\ \/ /\ wpc[p] \in {"open", "alloc", "mark0", "write", "last", "marker",
                         "rename"}
          /\ Fail(p)
       \/ /\ wpc[p] = "finalize"
          /\ wpc' = [wpc EXCEPT ![p] = "recv"]
          /\ wtask' = [wtask EXCEPT ![p] = NoTask]
          /\ UNCHANGED <<queue, stop>>
    /\ UNCHANGED <<pc, schedVars, pool, job, run, firstSeed, result, diskVars>>

-----------------------------------------------------------------------------
Scheduler == Hash \/ Compress \/ Flush \/ Drain \/ End

Writer(p) ==
    \/ Receive(p) \/ Open(p) \/ Allocate(p) \/ WriteMarker0(p)
    \/ WriteScoops(p) \/ WriteLastScoop(p) \/ WriteMarker(p) \/ Rename(p)
    \/ FinalizeFile(p)

\* No further run: the only state in which nothing happens any more.
Quiet == pc = "down" /\ run = MaxRuns /\ UNCHANGED vars

Next ==
    \/ StartRun \/ Crash \/ Return \/ RequestStop
    \/ Scheduler
    \/ \E p \in Paths : Writer(p) \/ Fault(p)
    \/ Quiet

Spec == Init /\ [][Next]_vars

\* Each thread is scheduled again and again; nothing makes the user start,
\* stop or kill the program or an I/O call fail.
Fairness ==
    /\ WF_vars(Scheduler)
    /\ WF_vars(Return)
    /\ \A p \in 0 .. MaxPaths - 1 : WF_vars(p \in Paths /\ Writer(p))

FairSpec == Spec /\ Fairness

-----------------------------------------------------------------------------
(* Properties. *)

IsProcess(t) == t.type = "process"

TaskOK(p, t) ==
    \/ t \in {NoTask, EndTask}
    \/ t \in [type : {"finalize"}, seed : SeedIds]
    \/ /\ t \in [type : {"process"}, seed : SeedIds, start : Nat,
                  n : 1 .. Escalate, data : [0 .. t.n - 1 -> Contents]]

TmpOK(p, t) ==
    /\ DOMAIN t = {"size", "marker", "data"}
    /\ t.size \in {"none", "empty", "full"}
    /\ t.marker \in {NoMarker} \cup (0 .. Warps[p])
    /\ t.data \in [0 .. Warps[p] - 1 -> Contents]

\* Every variable of the scheduler, the writers, the channels and the disk has
\* the range the code gives it; the pool never exceeds the buffers there are.
TypeOK ==
    /\ pc \in {"down", "hash", "compress", "flush", "drain", "end", "done"}
    /\ path \in Paths
    /\ seeds \in [Paths -> SeedIds \cup {<<0, 0>>}]
    /\ warpOffset \in [Paths -> Nat]
    /\ \A p \in Paths : warpOffset[p] <= Warps[p]
    /\ filesDone \in [Paths -> Nat]
    /\ \A p \in Paths : filesDone[p] <= Plots[p]
    /\ nonces \in [Paths -> Nat]
    /\ pass \in 0 .. Passes - 1
    /\ held \in BOOLEAN
    /\ slots \in [0 .. Escalate - 1 -> Contents]
    /\ inBuffer \in 0 .. Escalate
    /\ bufStart \in Nat
    /\ bufPath \in Paths
    /\ endTo \in Paths
    /\ pool \in 0 .. NumBuffers
    /\ DOMAIN queue = Paths
    /\ \A p \in Paths : /\ Len(queue[p]) <= NumBuffers
                        /\ \A i \in DOMAIN queue[p] : TaskOK(p, queue[p][i])
    /\ stop \in BOOLEAN
    /\ wpc \in [Paths -> {"recv", "open", "alloc", "mark0", "write", "last",
                         "marker", "rename", "finalize", "ended", "failed"}]
    /\ DOMAIN wtask = Paths
    /\ \A p \in Paths : TaskOK(p, wtask[p])
    /\ run \in 0 .. MaxRuns
    /\ firstSeed \in [Paths -> SeedIds \cup {<<0, 0>>}]
    /\ result \in {"none", "ok", "err", "killed"}
    /\ faults \in 0 .. job.faults
    /\ DOMAIN tmp = Files
    /\ DOMAIN pocx = Files
    /\ \A f \in Files : /\ TmpOK(f[1], tmp[f])
                        /\ pocx[f] = NoPocx \/ TmpOK(f[1], pocx[f])

\* Warps of unfinished files: everything before the marker is on disk and is
\* the XOR of exactly the batches of that warp, at every instant at which the
\* process can be killed and whatever earlier runs left (resume info of
\* pocx_plotfile, lib.rs write_optimised_buffer_into_plotfile).
MarkerCoversWarps ==
    \A f \in Files :
        \A w \in 0 .. tmp[f].marker - 1 : tmp[f].data[w] = Right(f[2], w)

\* A file named .pocx holds all its warps, each the XOR of its own batches
\* under the file's own seed, no matter how many runs, kills, stops and I/O
\* errors it took (the .tmp -> .pocx renaming of finalize).
FinishedIsRight ==
    \A f \in Files : pocx[f] # NoPocx =>
        \A w \in 0 .. Warps[f[1]] - 1 : pocx[f].data[w] = Right(f[2], w)

\* Without an I/O error a writer only fails on a file that a kill left created
\* but not yet sized: the scheduler's warp offsets, the order in the channels
\* and the markers always agree, so that ResumeGap, WriteExceedsEof and a
\* missing file never happen.
WriterFailsOnUnsizedFileOnly ==
    faults = 0 =>
        \A p \in Paths : wpc[p] = "failed" =>
            tmp[<<p, firstSeed[p]>>].size = "empty"

\* The write buffers of a run: empty, held by the scheduler, queued or being
\* written.  None is lost or used twice unless a writer failed.
BuffersConserved ==
    (pc # "down" /\ \A p \in Paths : wpc[p] # "failed") =>
        NumBuffers = pool + (IF held THEN 1 ELSE 0)
            + Cardinality({p \in Paths : IsProcess(wtask[p])})
            + Cardinality({pi \in Paths \X (1 .. NumBuffers) :
                             /\ pi[2] \in DOMAIN queue[pi[1]]
                             /\ IsProcess(queue[pi[1]][pi[2]])})

\* The files that the current run was asked to plot into path p.
Planned(p) == {firstSeed[p]} \cup {<<run, k>> : k \in 2 .. Plots[p]}

AllWarpsWritten(p, s) ==
    \/ pocx[<<p, s>>] # NoPocx
    \/ tmp[<<p, s>>].marker = Warps[p]

\* A run that returns Ok without the user having stopped it has written every
\* warp of every file it was asked for; at most a failed renaming in a
\* Finalize task, which is only logged, keeps a file from being finished.
OkMeansWritten ==
    (result = "ok" /\ ~(job.stops /\ stop)) =>
        \A p \in Paths : \A s \in Planned(p) : AllWarpsWritten(p, s)

\* A run with no run after it ends with every planned file finished or with the
\* stop the user asked for: no wait of the scheduler or of a writer lasts for
\* ever.  Excepted are I/O errors and the file a kill left unsized.
LastRunFinishes ==
    (run = MaxRuns /\ pc = "hash") ~>
        \/ faults > 0 \/ \E p \in Paths : wpc[p] = "failed"
        \/ /\ pc = "down" /\ run > 0
           /\ \/ stop
              \/ \A p \in Paths : \A s \in Planned(p) : pocx[<<p, s>>] # NoPocx

\* What the directory shows of f: while a writer has overwritten the marker and
\* not yet written the new one, f still counts as far as it was.
ProgressOf(f) ==
    IF pocx[f] # NoPocx THEN Warps[f[1]]
    ELSE IF f[1] \in Paths /\ wpc[f[1]] = "marker" /\ wtask[f[1]].seed = f[2]
         THEN wtask[f[1]].start
         ELSE ResumeInfo(f[1], tmp[f])

Directory == INSTANCE PlotDirectory WITH
    Size     <- [f \in Files |-> Warps[f[1]]],
    Chunk    <- Escalate,
    progress <- [f \in Files |-> ProgressOf(f)],
    finished <- {f \in Files : pocx[f] # NoPocx}

\* The pipeline keeps the promises of PlotDirectory: progress is contiguous and
\* only lost when a file's last chunk is interrupted.
ImplementsDirectory == Directory!DirSpec

-----------------------------------------------------------------------------
(* What a doc or comment says and the code does not do. *)

\* "Resume plot generation after interruption": without an I/O error no writer
\* ever fails on a file that an earlier run left behind.
EveryLeftoverResumes ==
    faults = 0 => \A p \in Paths : wpc[p] # "failed"

\* "Global stop flag for graceful termination": a run in which a stop was
\* requested comes to an end.
StopTerminates == (pc # "down" /\ stop) ~> pc = "down"

\* "No resume info found in plotfile (already completed)": a completed file
\* carries no resume info.
CompletedHasNoMarker == \A f \in Files : pocx[f] # NoPocx => ~HasMarker(pocx[f])

=============================================================================
