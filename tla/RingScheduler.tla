---------------------------- MODULE RingScheduler ----------------------------
(***************************************************************************)
(* The GPU scheduler thread of pocx_plotter_v2 (ring_scheduler.rs): it      *)
(* hashes worksize nonces at a time into a ring on the GPU, compresses      *)
(* C = COMPRESS_BATCH of them at a time into a second GPU buffer, transfers *)
(* each complete warp into a host write buffer, by DMA that overlaps the    *)
(* hashing on a discrete GPU, and sends the full write buffers to the       *)
(* writers of the output paths, which it serves in turn.                    *)
(*                                                                          *)
(* A nonce is <<path, file, number>>.  What the compress kernel makes of C  *)
(* ring slots is one pass <<path, file, first number>> if the slots hold C  *)
(* successive nonces of one seed, and Junk otherwise.  The GPU kernels, the *)
(* DMA engine and the writers are external; PlotPipeline models the writers.*)
(***************************************************************************)
EXTENDS Integers, FiniteSets

CONSTANTS
    NumPaths,       \* output paths, numbered from 0
    Warps,          \* Warps[p]: warps of each file of path p
    Plots,          \* Plots[p]: files to plot into path p
    Escalate,       \* warps held by one write buffer
    Passes,         \* compress passes of one warp: 2^(compress - 1)
    C,              \* COMPRESS_BATCH: nonces consumed by one compress pass
    WorkSizes,      \* the work sizes a GPU may have
    U64,            \* 2^64 in the code; here any number beyond the nonces of a file
    NumBuffers,     \* write buffers
    MayStop,        \* whether the user may request a stop
    MaxFaults       \* bound: how many writers fail

Paths == 0 .. NumPaths - 1

ASSUME RingAssumption ==
    /\ NumPaths \in Nat \ {0}
    /\ Warps \in [Paths -> Nat \ {0}]
    /\ Plots \in [Paths -> Nat \ {0}]
    /\ Escalate \in Nat \ {0}
    /\ Passes \in Nat \ {0}
    /\ C \in Nat \ {0}
    /\ WorkSizes \subseteq Nat \ {0}
    /\ U64 \in Nat
    /\ \A p \in Paths : Warps[p] * Passes * C < U64
    /\ NumBuffers \in Nat \ {0}
    /\ MayStop \in BOOLEAN
    /\ MaxFaults \in Nat

VARIABLES
    \* chosen when the program starts
    worksize,       \* GpuRingContext.worksize
    async,          \* is_dgpu: transfers overlap with hashing
    resumes,        \* resumes[p]: warps of the first file that are on disk
    \* the scheduler thread
    pc,
    path,           \* path_pointer
    fileNo,         \* fileNo[p]: which file of path p the seed seeds[p] is for
    warpOffset,     \* warp_offsets
    filesDone,      \* files_done
    nonces,         \* global_nonces
    head,           \* ring_head
    avail,          \* ring_available
    pass,           \* pass_in_warp
    held,           \* whether a write buffer is held
    slots,          \* the warps of the held write buffer
    inBuffer,       \* warps_in_buffer
    bufStart,       \* buffer_start_warp
    bufPath,        \* buffer_path
    \* the GPU
    gpuSeed,        \* the path and file whose seed is uploaded
    ring,           \* the nonces in the ring
    compressed,     \* what the compressed buffer holds
    dma,            \* pending_transfer and the state of its transfer
    \* the writers
    pool,           \* empty write buffers
    out,            \* out[p]: write buffers the writer of p has to write
    dead,           \* writers that failed
    stop,           \* STOP_REQUESTED
    faults,         \* writers that were made to fail
    written         \* written[p][k]: the warps handed over for file k of path p

confVars   == <<worksize, async, resumes>>
pathVars   == <<path, fileNo, filesDone>>
bufVars    == <<held, inBuffer, bufStart, bufPath>>
writerVars == <<out, dead, faults, written>>
vars == <<confVars, pc, pathVars, warpOffset, nonces, head, avail, pass,
          bufVars, slots, gpuSeed, ring, compressed, dma, pool, stop,
          writerVars>>

-----------------------------------------------------------------------------
(* The ring: its size, its slots and what a pass over them gives. *)

Divides(d, n) == n % d = 0

\* What the loop of gcd (ocl.rs) computes.
Gcd(a, b) ==
    LET common == {d \in 1 .. a : Divides(d, a) /\ Divides(d, b)}
    IN  CHOOSE d \in common : \A e \in common : e <= d

\* Mutant: room for one batch of each kind, as in an ordinary double buffer
\* whose two sides take turns.
RingSizeMax(w) == IF w > C THEN w ELSE C

\* compute_ring_size
RingSize(w) == w + C - Gcd(w, C)

R == RingSize(worksize)

Garbage == <<0, 0, -1>>
Junk    == <<0, 0, -1>>
Nonce   == Paths \X Nat \X Int

\* The compress kernel on the C slots from start on.
PassOver(start) ==
    LET first == ring[start]
    IN  IF /\ first # Garbage
           /\ \A i \in 0 .. C - 1 : ring[(start + i) % R]
                                    = <<first[1], first[2], first[3] + i>>
        THEN first ELSE Junk

Xor(a, b) == (a \ b) \cup (b \ a)

\* What warp w of file k of path p must hold.
Right(p, k, w) == {<<p, k, (w * Passes + i) * C>> : i \in 0 .. Passes - 1}

StaleSlots == [i \in 0 .. Escalate - 1 |-> {Junk}]
Idle == [state |-> "none", slot |-> 0, source |-> {}]

\* nonces_for_file
NoncesForFile(p) == Warps[p] * Passes * C

-----------------------------------------------------------------------------
(* The start, and the paths that still have work. *)

NextActive(p, done) ==
    LET later == {i \in 1 .. NumPaths :
                    done[(p + i) % NumPaths] < Plots[(p + i) % NumPaths]}
    IN  IF later = {} THEN p
        ELSE (p + (CHOOSE i \in later : \A j \in later : i <= j)) % NumPaths

FirstActive(done) ==
    LET active == {p \in Paths : done[p] < Plots[p]}
    IN  IF done[0] < Plots[0] \/ active = {} THEN 0
        ELSE CHOOSE p \in active : \A q \in active : p <= q

\* Mutant: the seed uploaded first is left on the GPU.
StartSeedStale(full, done, files) == <<0, 1>>

\* The seed on the GPU when the loop starts: that of the first path, uploaded
\* again if issue #48 made the scheduler start with another one.
StartSeed(full, done, files) ==
    IF \/ 0 \in full /\ 1 < Plots[0]
       \/ FirstActive(done) # 0
    THEN <<FirstActive(done), files[FirstActive(done)]>> ELSE <<0, 1>>

\* The state of the scheduler when it enters its loop, for every progress that
\* the resume markers of the first files may report; a file that is already
\* full only gets its Finalize task, and counts as done (issue #48).
Init ==
    /\ worksize \in WorkSizes
    /\ async \in BOOLEAN
    /\ resumes \in {r \in [Paths -> UNION {0 .. Warps[p] : p \in Paths}] :
                       \A p \in Paths : r[p] <= Warps[p]}
    /\ LET full  == {p \in Paths : resumes[p] >= Warps[p]}
           done  == [p \in Paths |-> IF p \in full THEN 1 ELSE 0]
           files == [p \in Paths |-> IF p \in full /\ 1 < Plots[p] THEN 2 ELSE 1]
           start == [p \in Paths |-> IF p \in full THEN 0 ELSE resumes[p]]
       IN  /\ filesDone = done
           /\ fileNo = files
           /\ warpOffset = start
           /\ nonces = [p \in Paths |-> start[p] * Passes * C]
           /\ path = FirstActive(done)
           /\ bufStart = start[path]
           /\ gpuSeed = StartSeed(full, done, files)
    /\ bufPath = path
    /\ pc = "top"
    /\ head = 0
    /\ avail = 0
    /\ pass = 0
    /\ held = FALSE
    /\ slots = StaleSlots
    /\ inBuffer = 0
    /\ ring = [i \in 0 .. R - 1 |-> Garbage]
    /\ compressed = {Junk}
    /\ dma = Idle
    /\ pool = NumBuffers
    /\ out = [p \in Paths |-> 0]
    /\ dead = {}
    /\ stop = FALSE
    /\ faults = 0
    /\ written = [p \in Paths |-> [k \in 1 .. Plots[p] |->
                     [w \in 0 .. (IF k = 1 THEN resumes[p] ELSE 0) - 1 |->
                        Right(p, k, w)]]]

-----------------------------------------------------------------------------
(* The scheduler thread. *)

\* Mutant: one finished path is enough to leave the loop.
AnyDone == \E p \in Paths : filesDone[p] >= Plots[p]

AllDone == \A p \in Paths : filesDone[p] >= Plots[p]

\* The top of the outer loop.
Top ==
    /\ pc = "top"
    /\ pc' = IF AllDone \/ stop THEN "rest" ELSE "fill"
    /\ UNCHANGED <<confVars, pathVars, warpOffset, nonces, head, avail, pass,
                   bufVars, slots, gpuSeed, ring, compressed, dma, pool, stop,
                   writerVars>>

CanHash == avail + worksize <= R /\ nonces[path] < NoncesForFile(path)

\* nonces_this_batch
Batch == IF NoncesForFile(path) - nonces[path] < worksize
         THEN NoncesForFile(path) - nonces[path] ELSE worksize

\* Phase 1: hash a batch into the ring while there is room for one.  The last
\* batch of a file may be short; it takes the room of a whole one.
Fill ==
    /\ pc = "fill"
    /\ IF CanHash /\ ~stop
       THEN /\ ring' = [i \in 0 .. R - 1 |->
                 LET k == (i + R - head) % R
                 IN  IF k < Batch
                     THEN <<gpuSeed[1], gpuSeed[2], nonces[path] + k>>
                     ELSE ring[i]]
            /\ head' = (head + worksize) % R
            /\ avail' = avail + worksize
            /\ nonces' = [nonces EXCEPT ![path] = @ + Batch]
            /\ UNCHANGED pc
       ELSE /\ pc' = "compress"
            /\ UNCHANGED <<ring, head, avail, nonces>>
    /\ UNCHANGED <<confVars, pathVars, warpOffset, pass, bufVars, slots,
                   gpuSeed, compressed, dma, pool, stop, writerVars>>

\* compress_start
CompressStart == (head + R - avail) % R

\* wait_pending before the compress kernel: the transfer reads its output.
MayCompress == dma.state # "flying"

\* Phase 2: compress C nonces while the ring holds as many.
Compress ==
    /\ pc = "compress"
    /\ IF avail >= C /\ ~stop
       THEN /\ MayCompress
            /\ dma' = IF dma.state = "landed" THEN Idle ELSE dma
            /\ compressed' = IF pass > 0
                             THEN Xor(compressed, {PassOver(CompressStart)})
                             ELSE {PassOver(CompressStart)}
            /\ avail' = avail - C
            /\ pass' = pass + 1
            /\ pc' = IF pass + 1 = Passes THEN "transfer" ELSE "compress"
       ELSE /\ pc' = "top"
            /\ UNCHANGED <<dma, compressed, avail, pass>>
    /\ UNCHANGED <<confVars, pathVars, warpOffset, nonces, head, bufVars, slots,
                   gpuSeed, ring, pool, stop, writerVars>>

\* Phase 2 goes on after a warp, unless a transfer is pending that the next
\* hashes can overlap with.
Continue(pending) ==
    IF async /\ pending.state # "none" /\ nonces[path] < NoncesForFile(path)
    THEN "top" ELSE "compress"

\* A warp is complete: wait for a write buffer if none is held, and transfer
\* the warp into it.
Transfer ==
    /\ pc = "transfer"
    /\ held \/ pool > 0
    /\ held' = TRUE
    /\ pool' = IF held THEN pool ELSE pool - 1
    /\ bufStart' = IF held THEN bufStart ELSE warpOffset[path]
    /\ bufPath' = IF held THEN bufPath ELSE path
    /\ LET old == IF held THEN slots ELSE StaleSlots
       IN  IF async
           THEN /\ dma' = [state |-> "flying", slot |-> inBuffer,
                           source |-> compressed]
                /\ slots' = [old EXCEPT ![inBuffer] = {Junk}]
           ELSE /\ slots' = [old EXCEPT ![inBuffer] = compressed]
                /\ UNCHANGED dma
    /\ pass' = 0
    /\ inBuffer' = inBuffer + 1
    /\ warpOffset' = [warpOffset EXCEPT ![path] = @ + 1]
    /\ pc' = IF inBuffer + 1 = Escalate \/ warpOffset[path] + 1 = Warps[path]
             THEN "flush" ELSE Continue(dma')
    /\ UNCHANGED <<confVars, pathVars, nonces, head, avail, gpuSeed, ring,
                   compressed, stop, writerVars>>

\* The closure flush_buffer: hand the held buffer to the writer of its path.
\* If that writer is gone the buffer is dropped and a stop is requested.
FlushBuffer(k) ==
    \/ /\ held
       /\ bufPath \notin dead
       /\ held' = FALSE
       /\ inBuffer' = 0
       /\ out' = [out EXCEPT ![bufPath] = @ + 1]
       /\ written' = [written EXCEPT ![bufPath][k] =
                        [w \in (DOMAIN @) \cup (bufStart .. bufStart + inBuffer - 1) |->
                           IF w >= bufStart THEN slots[w - bufStart] ELSE @[w]]]
       /\ UNCHANGED stop
    \/ /\ held
       /\ bufPath \in dead
       /\ held' = FALSE
       /\ stop' = TRUE
       /\ UNCHANGED <<inBuffer, out, written>>
    \/ /\ ~held
       /\ UNCHANGED <<held, inBuffer, out, written, stop>>

\* Mutant: the nonces left in the ring are forgotten, not undone.
UndoNone == nonces[path]

\* "Undo nonce counter for uncompressed ring leftovers", in unsigned arithmetic
\* as the release profile compiles it.
Undo == IF nonces[path] >= avail THEN nonces[path] - avail
                                 ELSE nonces[path] - avail + U64

\* A new seed for the next file of the path, if there is one.
NextSeeds(done) ==
    IF done[path] > filesDone[path] /\ done[path] < Plots[path]
    THEN [fileNo EXCEPT ![path] = @ + 1] ELSE fileNo

\* wait_pending and flush_buffer for a full buffer or the last one of a file,
\* then the next file and the next path: what the ring holds is discarded when
\* the seed changes.
Flush ==
    LET boundary == warpOffset[path] = Warps[path]
        done     == IF boundary THEN [filesDone EXCEPT ![path] = @ + 1]
                                ELSE filesDone
        allDone  == \A p \in Paths : done[p] >= Plots[p]
        leave    == NumPaths > 1 /\ allDone
        next     == IF NumPaths > 1 THEN NextActive(path, done) ELSE path
        discard  == ~leave /\ (next # path \/ boundary)
        files    == NextSeeds(done)
    IN
    /\ pc = "flush"
    /\ dma.state # "flying"
    /\ dma' = Idle
    /\ FlushBuffer(fileNo[path])
    /\ filesDone' = done
    /\ fileNo' = files
    /\ path' = next
    /\ IF discard
       THEN /\ avail' = 0
            /\ head' = 0
            /\ nonces' = [nonces EXCEPT ![path] = IF boundary THEN 0 ELSE Undo]
            /\ warpOffset' = IF boundary THEN [warpOffset EXCEPT ![path] = 0]
                                         ELSE warpOffset
            /\ gpuSeed' = <<next, files[next]>>
            /\ bufStart' = warpOffset'[next]
       ELSE /\ bufStart' = IF bufPath \in dead THEN bufStart ELSE warpOffset[path]
            /\ UNCHANGED <<avail, head, nonces, warpOffset, gpuSeed>>
    /\ pc' = IF leave \/ discard THEN "top" ELSE "compress"
    /\ UNCHANGED <<confVars, pass, bufPath, slots, ring, compressed, pool, dead,
                   faults>>

\* After the loop: wait for the transfer and flush what is in the buffer.
Rest ==
    /\ pc = "rest"
    /\ dma.state # "flying"
    /\ dma' = Idle
    /\ IF inBuffer > 0
       THEN /\ FlushBuffer(fileNo[bufPath])
            /\ bufStart' = IF held /\ bufPath \notin dead THEN warpOffset[bufPath]
                                                        ELSE bufStart
       ELSE UNCHANGED <<held, inBuffer, bufStart, out, written, stop>>
    /\ pc' = "done"
    /\ UNCHANGED <<confVars, pathVars, warpOffset, nonces, head, avail, pass,
                   bufPath, slots, gpuSeed, ring, compressed, pool, dead,
                   faults>>

-----------------------------------------------------------------------------
(* The environment. *)

\* The DMA engine finishes the transfer, with what it finds by then.
Land ==
    /\ dma.state = "flying"
    /\ dma' = [dma EXCEPT !.state = "landed"]
    /\ slots' = [slots EXCEPT ![dma.slot] = compressed]
    /\ UNCHANGED <<confVars, pc, pathVars, warpOffset, nonces, head, avail, pass,
                   bufVars, gpuSeed, ring, compressed, pool, stop, writerVars>>

\* A writer is done with a buffer and returns it to the pool.
WriterReturns(p) ==
    /\ out[p] > 0
    /\ p \notin dead
    /\ out' = [out EXCEPT ![p] = @ - 1]
    /\ pool' = pool + 1
    /\ UNCHANGED <<confVars, pc, pathVars, warpOffset, nonces, head, avail, pass,
                   bufVars, slots, gpuSeed, ring, compressed, dma, stop, dead,
                   faults, written>>

\* A writer fails: it requests a stop, and its buffers are gone.
WriterFails(p) ==
    /\ faults < MaxFaults
    /\ out[p] > 0
    /\ p \notin dead
    /\ faults' = faults + 1
    /\ dead' = dead \cup {p}
    /\ out' = [out EXCEPT ![p] = 0]
    /\ stop' = TRUE
    /\ UNCHANGED <<confVars, pc, pathVars, warpOffset, nonces, head, avail, pass,
                   bufVars, slots, gpuSeed, ring, compressed, dma, pool, written>>

RequestStop ==
    /\ MayStop
    /\ ~stop
    /\ pc # "done"
    /\ stop' = TRUE
    /\ UNCHANGED <<confVars, pc, pathVars, warpOffset, nonces, head, avail, pass,
                   bufVars, slots, gpuSeed, ring, compressed, dma, pool,
                   writerVars>>

Finished ==
    /\ pc = "done"
    /\ \A p \in Paths : p \in dead \/ out[p] = 0
    /\ UNCHANGED vars

Scheduler == Top \/ Fill \/ Compress \/ Transfer \/ Flush \/ Rest

Next ==
    \/ Scheduler \/ Land \/ RequestStop
    \/ \E p \in Paths : WriterReturns(p) \/ WriterFails(p)
    \/ Finished

Spec == Init /\ [][Next]_vars

\* The thread and the writers run on, and a transfer once started completes.
Fairness ==
    /\ WF_vars(Scheduler)
    /\ WF_vars(Land)
    /\ \A p \in Paths : WF_vars(WriterReturns(p))

FairSpec == Spec /\ Fairness

-----------------------------------------------------------------------------
(* Properties. *)

\* The range of every variable.  No path is ever hashed beyond its file, the
\* ring never holds more than its size, and the buffer never more than Escalate.
RingTypeOK ==
    /\ worksize \in WorkSizes
    /\ async \in BOOLEAN
    /\ pc \in {"top", "fill", "compress", "transfer", "flush", "rest", "done"}
    /\ path \in Paths
    /\ fileNo \in [Paths -> Nat]
    /\ warpOffset \in [Paths -> Nat]
    /\ \A p \in Paths : warpOffset[p] <= Warps[p]
    /\ filesDone \in [Paths -> Nat]
    /\ nonces \in [Paths -> Nat]
    /\ \A p \in Paths : nonces[p] <= NoncesForFile(p)
    /\ head \in 0 .. R - 1
    /\ avail \in 0 .. R
    /\ pass \in 0 .. Passes
    /\ held \in BOOLEAN
    /\ inBuffer \in 0 .. Escalate
    /\ bufStart \in Nat
    /\ bufPath \in Paths
    /\ gpuSeed \in Paths \X Nat
    /\ ring \in [0 .. R - 1 -> Nonce]
    /\ compressed \in SUBSET Nonce
    /\ dma \in [state : {"none", "flying", "landed"}, slot : 0 .. Escalate - 1,
               source : SUBSET Nonce]
    /\ slots \in [0 .. Escalate - 1 -> SUBSET Nonce]
    /\ pool \in Nat
    /\ out \in [Paths -> Nat]
    /\ dead \subseteq Paths
    /\ stop \in BOOLEAN
    /\ faults \in 0 .. MaxFaults

\* Every warp handed to a writer is made of its own nonces under the seed of its
\* own file, for every work size, every interleaving of DMA transfers, writers
\* and path switches, and every resume point.
WarpsRight ==
    \A p \in Paths : \A k \in 1 .. Plots[p] : \A w \in DOMAIN written[p][k] :
        written[p][k][w] = Right(p, k, w)

Least(a, b) == IF a < b THEN a ELSE b

\* global_nonces against the warps compressed so far: a path that is not being
\* served stands exactly at its next warp ("Undo nonce counter for uncompressed
\* ring leftovers"); the served one is ahead by what the ring holds, up to the
\* padding of the last batch of its file.
NoncesMatchWarps ==
    \A p \in Paths :
        nonces[p] = IF p = path
                    THEN Least(NoncesForFile(p),
                               (warpOffset[p] * Passes + pass) * C + avail)
                    ELSE warpOffset[p] * Passes * C

\* The loop never spins: unless it is about to end it can hash another batch or
\* the ring holds enough for a pass.  This is what the size of the ring is for.
LoopAdvances ==
    (pc = "fill" /\ ~stop) => CanHash \/ avail >= C

\* While a transfer is in flight, the buffer it writes is held and the buffer it
\* reads is what it was when the transfer began.
TransferUndisturbed ==
    dma.state = "flying" =>
        held /\ dma.slot < inBuffer /\ compressed = dma.source

\* A write buffer continues its file exactly where the last one ended: the
\* writer's check for a resume gap never fires.
HandedInOrder ==
    (held /\ inBuffer > 0) =>
        DOMAIN written[bufPath][fileNo[bufPath]] = 0 .. bufStart - 1

\* The scheduler ends, and with every warp of every file handed over unless it was
\* stopped; only the loss of a write buffer to a failed writer may keep it
\* waiting.
SchedulerEnds ==
    <>(\/ dead # {}
       \/ /\ pc = "done"
          /\ \/ stop
             \/ \A p \in Paths : \A k \in 1 .. Plots[p] :
                    DOMAIN written[p][k] = 0 .. Warps[p] - 1)

=============================================================================
