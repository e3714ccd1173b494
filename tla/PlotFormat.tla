----------------------------- MODULE PlotFormat -----------------------------
(***************************************************************************)
(* What is in a plot file, cell by cell, from the raw nonces to the proofs  *)
(* made of them.  Two plotters fill the same format: pocx_plotter hashes    *)
(* all the raw nonces of a write buffer and compresses them in place        *)
(* (compressor.rs), pocx_plotter_v2 hashes two raw warps at a time and XORs *)
(* them into the write buffer (cpu_scheduler.rs, cpu_compressor.rs).        *)
(* pocx_plotfile lays the buffers out in the file; the miner reads one      *)
(* scoop of it, compresses it further in its read buffer where a chain asks *)
(* for it (plots.rs, compression.rs) and numbers the nonces it submits      *)
(* (hasher.rs); the verifier reads single cells (plotcheck.rs).  A chain    *)
(* and the verifier compute what a nonce should hold with generate_scoop of *)
(* pocx_hashlib: all of them must mean the same by "nonce n at level X".    *)
(*                                                                          *)
(* Data.  A cell is one scoop of one nonce.  Its value is the set of raw    *)
(* scoops <<raw nonce, scoop>> that were XORed into it, so that XOR is the  *)
(* symmetric difference; nothing is assumed of the hashes themselves.  A    *)
(* buffer or file of n warps is the array of its cells in the order of the  *)
(* bytes: scoop by scoop, within a scoop nonce by nonce.                    *)
(***************************************************************************)
EXTENDS Integers, FiniteSets, TLC

CONSTANTS
    NUM_SCOOPS,     \* scoops of a nonce, and nonces of a warp: DIM (4096 in the code)
    Levels,         \* compression levels the user may plot at
    Warps,          \* numbers of warps a plot may have
    Escalates,      \* sizes of a write buffer, in warps
    ReadCaches,     \* hdd_read_cache_in_warps
    MaxSteps,       \* bound: how far a chain's level is above a plot's
    MaxRestarts     \* bound: how often a plotter is killed

\* Levels of zero are refused by the command lines of both plotters.
ASSUME FormatAssumption ==
    /\ NUM_SCOOPS \in Nat \ {0}
    /\ Levels \subseteq Nat \ {0}
    /\ Warps \subseteq Nat \ {0}
    /\ Escalates \subseteq Nat \ {0}
    /\ ReadCaches \subseteq Nat \ {0}
    /\ MaxSteps \in Nat
    /\ MaxRestarts \in Nat

Scoops == 0 .. NUM_SCOOPS - 1

VARIABLES
    \* the plot being made
    tool,           \* "v1" or "v2"
    level,          \* task.compress
    warps,          \* number_of_warps
    escalate,       \* warps held by the write buffer
    file,           \* the cells of the file
    pc,             \* what the plotter, then the reader of the plot, does next
    restarts,       \* how often the plotter was killed
    \* the plotter
    warpOffset,     \* warps of the file handed to the writer before this buffer
    globalNonce,    \* the next raw nonce to hash
    pass,           \* pass_in_warp (v2)
    inBuffer,       \* warps in the write buffer: warps_to_write
    source,         \* the plot buffer (v1), the scatter buffer (v2)
    target,         \* the write buffer
    w,              \* the warp helix_compress_inline is at (v1)
    lane,           \* lane[y]: the next x of the thread that has row y
    \* the miner
    scan,           \* what a scan of the plot is about
    readProgress,   \* read_progress of the plot
    bs,             \* the read buffer
    bufStart,       \* buffer_start_offset: the warp of the plot it starts with
    inRead,         \* current_warps: warps left in the read buffer
    step,           \* compression steps done on it
    pair,           \* the next pair of warps to be XORed
    submitted,      \* every proof the hashers may submit
    \* the verifier
    checked         \* cells the complete check has passed

plotVars   == <<tool, level, warps, escalate>>
hashVars   == <<warpOffset, globalNonce, pass, inBuffer, source, target, w, lane>>
minerVars  == <<scan, readProgress, bs, bufStart, inRead, step, pair, submitted>>
vars == <<plotVars, file, pc, restarts, hashVars, minerVars, checked>>

(***************************************************************************)
(* Cells                                                                    *)
(***************************************************************************)
Xor2(a, b) == (a \ b) \cup (b \ a)

\* file_offset: where the cells of a warp begin within the given scoop, in
\* an array of n warps.
file_offset(scoop, warp, n) == scoop * n * NUM_SCOOPS + warp * NUM_SCOOPS

Cells(n) == 0 .. n * NUM_SCOOPS * NUM_SCOOPS - 1
Blank(n) == [c \in Cells(n) |-> {}]

\* array with Value(k) stored at Address(k) for every k of keys.
Store(array, keys, Address(_), Value(_)) ==
    [c \in {Address(k) : k \in keys} |-> Value(CHOOSE k \in keys : Address(k) = c)] @@ array

\* What a nonce of a plot of the given level must hold: 2^level raw warps
\* go into one, the odd ones mirrored.  Their raw nonces all differ, so that
\* the XOR of their scoops is the set of them.
generate_scoop(scoop, nonce, compression) ==
    LET warp == nonce \div NUM_SCOOPS
        nonce_in_warp == nonce % NUM_SCOOPS
        Raw(i, scoop_x, nonce_in_warp_x) ==
            <<(2 ^ compression * warp + i) * NUM_SCOOPS + nonce_in_warp_x, scoop_x>>
    IN  {IF i % 2 = 0 THEN Raw(i, scoop, nonce_in_warp)
                      ELSE Raw(i, nonce_in_warp, scoop) : i \in 0 .. 2 ^ compression - 1}

(***************************************************************************)
(* Compression                                                              *)
(***************************************************************************)
\* Mutant: the mirror is taken from the same raw warp.
HelixUnmirrored(s, len, y, x, k) ==
    Xor2(s[file_offset(y, 2 * k, len) + x], s[file_offset(x, 2 * k, len) + y])

\* Row y, column x of the k-th pair of raw warps: the first of the two, and
\* the second one mirrored.
Helix(s, len, y, x, k) ==
    Xor2(s[file_offset(y, 2 * k, len) + x], s[file_offset(x, 2 * k, len) + NUM_SCOOPS + y])

RowsColumns(n) == Scoops \X Scoops \X (0 .. n - 1)

helix_compress(s, sLen, t, tLen, warp_offset, n) ==
    Store(t, RowsColumns(n),
          LAMBDA k : file_offset(k[1], warp_offset + k[3], tLen) + k[2],
          LAMBDA k : Helix(s, sLen, k[1], k[2], k[3]))

helix_compress_xor(s, sLen, t, tLen, warp_offset, n) ==
    LET At(k) == file_offset(k[1], warp_offset + k[3], tLen) + k[2]
    IN  Store(t, RowsColumns(n), At,
              LAMBDA k : Xor2(t[At(k)], Helix(s, sLen, k[1], k[2], k[3])))

\* XorOf(s, at, n): the cells at, at + D, ..., n of them, XORed.
XorOf(s, at, n) ==
    LET to[i \in 0 .. n] ==
            IF i = 0 THEN {} ELSE Xor2(to[i - 1], s[at + (i - 1) * NUM_SCOOPS])
    IN  to[n]

\* Every 2^iterations helix-compressed warps become one.
xor_compress(s, sLen, t, tLen, n, iterations) ==
    LET src_len == 2 ^ iterations
    IN  Store(t, RowsColumns(n),
              LAMBDA k : file_offset(k[1], k[3], tLen) + k[2],
              LAMBDA k : XorOf(s, file_offset(k[1], src_len * k[3], sLen) + k[2], src_len))

(***************************************************************************)
(* The resume marker: the last bytes of the file, in the last scoop of the  *)
(* last nonce, which therefore no longer holds a hash.                      *)
(***************************************************************************)
LastCell(n) == n * NUM_SCOOPS * NUM_SCOOPS - 1
Marker(progress) == {<<-1, progress>>}
IsMarker(cell) == Cardinality(cell) = 1 /\ \A m \in cell : m[1] = -1

resume_info(f, n) ==
    LET cell == f[LastCell(n)]
    IN  IF IsMarker(cell) THEN (CHOOSE m \in cell : TRUE)[2] ELSE 0

write_resume_info(f, n, progress) == [f EXCEPT ![LastCell(n)] = Marker(progress)]

(***************************************************************************)
(* The plotters.  A new file has the marker of no progress.                 *)
(***************************************************************************)
\* Warps held by the buffer the raw nonces are hashed into.
SourceWarpsOf(t, e) == IF t = "v1" THEN 2 ^ level * e ELSE 2
SourceWarps == SourceWarpsOf(tool, escalate)

\* generate_nonces: count raw nonces from start on, at the beginning of s.
generate_nonces(s, len, start, count) ==
    Store(s, Scoops \X (0 .. count - 1),
          LAMBDA k : file_offset(k[1], 0, len) + k[2],
          LAMBDA k : {<<start + k[2], k[1]>>})

MinOf(a, b) == IF a < b THEN a ELSE b

Idle == [scoop |-> 0, cache |-> 1, otf |-> FALSE, min |-> 1, target |-> 1, steps |-> 0]

Init ==
    /\ tool \in {"v1", "v2"}
    /\ level \in Levels
    /\ warps \in Warps
    /\ escalate \in Escalates
    /\ file = write_resume_info(Blank(warps), warps, 0)
    /\ pc = "hash"
    /\ restarts = 0
    /\ warpOffset = 0
    /\ globalNonce = 0
    /\ pass = 0
    /\ inBuffer = 0
    /\ source = Blank(SourceWarps)
    /\ target = Blank(escalate)
    /\ w = 0
    /\ lane = [y \in Scoops |-> 0]
    /\ scan = Idle
    /\ readProgress = 0
    /\ bs = Blank(0)
    /\ bufStart = 0
    /\ inRead = 0
    /\ step = 0
    /\ pair = 0
    /\ submitted = {}
    /\ checked = 0

(***************************************************************************)
(* pocx_plotter: one buffer of raw nonces at a time.                        *)
(***************************************************************************)
HashChunk ==
    /\ pc = "hash" /\ tool = "v1"
    /\ LET warps_to_hash == MinOf(escalate, warps - warpOffset)
           nonces_hashed == 2 ^ level * warpOffset * NUM_SCOOPS
       IN  /\ inBuffer' = warps_to_hash
           /\ source' = generate_nonces(source, SourceWarps, nonces_hashed,
                                        2 ^ level * warps_to_hash * NUM_SCOOPS)
    /\ pc' = IF level = 1 THEN "compress" ELSE "inline"
    /\ w' = 0
    /\ lane' = [y \in Scoops |-> 0]
    /\ UNCHANGED <<plotVars, file, restarts, warpOffset, globalNonce, pass, target,
                   minerVars, checked>>

\* helix_compress_inline: the threads of all rows y work on warp w, each
\* along the columns, reading the buffer the others write to.
InlineCell(y) ==
    /\ pc = "inline"
    /\ lane[y] < NUM_SCOOPS
    /\ source' = [source EXCEPT ![file_offset(y, w, SourceWarps) + lane[y]] =
                     Helix(source, SourceWarps, y, lane[y], w)]
    /\ lane' = [lane EXCEPT ![y] = @ + 1]
    /\ UNCHANGED <<plotVars, file, pc, restarts, warpOffset, globalNonce, pass, inBuffer,
                   target, w, minerVars, checked>>

\* The end of the parallel loop over the rows.
InlineJoin ==
    /\ pc = "inline"
    /\ \A y \in Scoops : lane[y] = NUM_SCOOPS
    /\ w' = w + 1
    /\ pc' = IF w + 1 = 2 ^ (level - 1) * inBuffer THEN "compress" ELSE "inline"
    /\ lane' = [y \in Scoops |-> 0]
    /\ UNCHANGED <<plotVars, file, restarts, warpOffset, globalNonce, pass, inBuffer,
                   source, target, minerVars, checked>>

CompressChunk ==
    /\ pc = "compress" /\ tool = "v1"
    /\ target' = IF level = 1
                 THEN helix_compress(source, SourceWarps, target, escalate, 0, inBuffer)
                 ELSE xor_compress(source, SourceWarps, target, escalate, inBuffer, level - 1)
    /\ pc' = "write"
    /\ UNCHANGED <<plotVars, file, restarts, warpOffset, globalNonce, pass, inBuffer,
                   source, w, lane, minerVars, checked>>

(***************************************************************************)
(* pocx_plotter_v2: two raw warps at a time, 2^(level - 1) passes a warp.   *)
(***************************************************************************)
passes_per_warp == 2 ^ (level - 1)
COMPRESS_BATCH == 2 * NUM_SCOOPS

HashBatch ==
    /\ pc = "hash" /\ tool = "v2"
    /\ source' = generate_nonces(source, 2, globalNonce, COMPRESS_BATCH)
    /\ globalNonce' = globalNonce + COMPRESS_BATCH
    /\ pc' = "compress"
    /\ UNCHANGED <<plotVars, file, restarts, warpOffset, pass, inBuffer, target, w, lane,
                   minerVars, checked>>

CompressBatch ==
    /\ pc = "compress" /\ tool = "v2"
    /\ target' = IF pass = 0
                 THEN helix_compress(source, 2, target, escalate, inBuffer, 1)
                 ELSE helix_compress_xor(source, 2, target, escalate, inBuffer, 1)
    /\ LET complete == pass + 1 = passes_per_warp
           held == inBuffer + (IF complete THEN 1 ELSE 0)
       IN  /\ pass' = IF complete THEN 0 ELSE pass + 1
           /\ inBuffer' = held
           /\ pc' = IF complete /\ (held = escalate \/ warpOffset + held = warps)
                    THEN "write" ELSE "hash"
    /\ UNCHANGED <<plotVars, file, restarts, warpOffset, globalNonce, source, w, lane,
                   minerVars, checked>>

(***************************************************************************)
(* write_optimised_buffer_into_plotfile, by the writer of either plotter.   *)
(* A write that does not start at the marker, or goes past the end, is an   *)
(* error.  The last one renames the file.                                   *)
(***************************************************************************)
Written(f, data, start_warp, n) ==
    Store(f, Scoops \X (0 .. n * NUM_SCOOPS - 1),
          LAMBDA k : file_offset(k[1], start_warp, warps) + k[2],
          LAMBDA k : data[file_offset(k[1], 0, escalate) + k[2]])

Write ==
    /\ pc = "write"
    /\ LET end == warpOffset + inBuffer
       IN  IF resume_info(file, warps) # warpOffset \/ end > warps
           THEN /\ pc' = "error"
                /\ UNCHANGED <<file, warpOffset>>
           ELSE /\ file' = write_resume_info(Written(file, target, warpOffset, inBuffer),
                                             warps, end)
                /\ warpOffset' = end
                /\ pc' = IF end = warps THEN "ready" ELSE "hash"
    /\ inBuffer' = 0
    /\ UNCHANGED <<plotVars, restarts, globalNonce, pass, source, target, w, lane,
                   minerVars, checked>>

\* The plotter is killed; the file is finished by either of the two, with
\* write buffers of any size, from where the marker is.
Restart ==
    /\ pc \in {"hash", "inline", "compress", "write"}
    /\ restarts < MaxRestarts
    /\ restarts' = restarts + 1
    /\ tool' \in {"v1", "v2"}
    /\ escalate' \in Escalates
    /\ warpOffset' = resume_info(file, warps)
    /\ globalNonce' = IF tool' = "v2"
                      THEN resume_info(file, warps) * passes_per_warp * COMPRESS_BATCH
                      ELSE 0
    /\ pass' = 0
    /\ inBuffer' = 0
    /\ source' = Blank(SourceWarpsOf(tool', escalate'))
    /\ target' = Blank(escalate')
    /\ w' = 0
    /\ lane' = [y \in Scoops |-> 0]
    /\ pc' = "hash"
    /\ UNCHANGED <<level, warps, file, minerVars, checked>>

(***************************************************************************)
(* The miner: one scan of the finished plot.                                *)
(***************************************************************************)
PowerOfTwo(n) == \E k \in 0 .. n : 2 ^ k = n

\* validate_compression_setup: with compression on the fly the read cache
\* must be a power of two, and its logarithm bounds the steps.
max_compression_steps(cache) == CHOOSE k \in 0 .. cache : 2 ^ k = cache

\* Mutant: the last step the buffer allows is refused.
DetermineExclusive(min, tgt, max_steps) ==
    IF level > tgt THEN [skip |-> TRUE, steps |-> 0]
    ELSE IF level >= min THEN [skip |-> FALSE, steps |-> 0]
    ELSE [skip |-> min - level >= max_steps, steps |-> min - level]

\* determine_compression_action: skip the plot, mine it as it is, or
\* compress it by so many steps.
determine_compression_action(min, tgt, max_steps) ==
    IF level > tgt THEN [skip |-> TRUE, steps |-> 0]
    ELSE IF level >= min THEN [skip |-> FALSE, steps |-> 0]
    ELSE [skip |-> min - level > max_steps, steps |-> min - level]

\* A scan at rest may be followed by the next.
AtRest == pc \in {"ready", "scanned", "passed", "failed"}

StartScan ==
    /\ AtRest
    /\ \E scoop \in Scoops, cache \in ReadCaches, otf \in BOOLEAN,
          min, tgt \in 1 .. level + MaxSteps :
          /\ min <= tgt
          /\ otf => PowerOfTwo(cache)
          /\ LET action == IF otf THEN determine_compression_action(
                                           min, tgt, max_compression_steps(cache))
                           ELSE [skip |-> FALSE, steps |-> 0]
             IN  /\ scan' = [scoop |-> scoop, cache |-> cache, otf |-> otf,
                             min |-> min, target |-> tgt, steps |-> action.steps]
                 /\ pc' = IF action.skip THEN "scanned" ELSE "read"
          /\ bs' = [k \in 0 .. cache * NUM_SCOOPS - 1 |-> {}]
    /\ readProgress' = 0
    /\ bufStart' = 0
    /\ inRead' = 0
    /\ step' = 0
    /\ pair' = 0
    /\ submitted' = {}
    /\ checked' = 0
    /\ UNCHANGED <<plotVars, file, restarts, hashVars>>

\* read: as many warps as are left and fit the buffer.
warps_to_read(progress, cache) == MinOf(warps - progress, cache)

\* A full buffer, or what is left of the plot.  With compression an odd last
\* warp is left out, and a buffer of nothing else goes back.
Read ==
    /\ pc = "read"
    /\ readProgress < warps
    /\ LET n == warps_to_read(readProgress, scan.cache)
           start == file_offset(scan.scoop, readProgress, warps)
           compressible == n - (n % 2)
       IN  /\ bs' = Store(bs, 0 .. n * NUM_SCOOPS - 1,
                          LAMBDA k : k, LAMBDA k : file[start + k])
           /\ bufStart' = readProgress
           /\ readProgress' = readProgress + n
           /\ inRead' = IF scan.steps > 0 THEN compressible ELSE n
           /\ pc' = IF scan.steps = 0 THEN "quality"
                    ELSE IF compressible = 0 THEN "read" ELSE "pairs"
    /\ step' = 0
    /\ pair' = 0
    /\ UNCHANGED <<plotVars, file, restarts, hashVars, scan, submitted, checked>>

\* compress_pairs: the pairs of warps of the buffer, one after the other, to
\* its front.
CompressPair ==
    /\ pc = "pairs"
    /\ pair < inRead \div 2
    /\ bs' = Store(bs, 0 .. NUM_SCOOPS - 1,
                   LAMBDA k : pair * NUM_SCOOPS + k,
                   LAMBDA k : Xor2(bs[2 * pair * NUM_SCOOPS + k],
                                   bs[(2 * pair + 1) * NUM_SCOOPS + k]))
    /\ pair' = pair + 1
    /\ UNCHANGED <<plotVars, file, pc, restarts, hashVars, scan, readProgress, bufStart, inRead,
                   step, submitted, checked>>

\* The end of one step of compress_warps_inline: half the warps are left.
\* A buffer of none has nothing to be hashed.
CompressStep ==
    /\ pc = "pairs"
    /\ pair = inRead \div 2
    /\ inRead' = inRead \div 2
    /\ step' = step + 1
    /\ pair' = 0
    /\ pc' = IF step + 1 < scan.steps THEN "pairs"
             ELSE IF inRead \div 2 > 0 THEN "quality" ELSE "read"
    /\ UNCHANGED <<plotVars, file, restarts, hashVars, scan, readProgress, bs, bufStart,
                   submitted, checked>>

\* Mutant: the offset of the buffer is that of the plot.
QualitiesAtPlotOffset ==
    /\ pc = "quality"
    /\ submitted' = submitted \cup
           {[nonce |-> bufStart * NUM_SCOOPS + k,
             compression |-> level + scan.steps, value |-> bs[k]] :
                 k \in 0 .. inRead * NUM_SCOOPS - 1}
    /\ pc' = "read"
    /\ UNCHANGED <<plotVars, file, restarts, hashVars, scan, readProgress, bs, bufStart,
                   inRead, step, pair, checked>>

\* calc_qualities submits the best nonce of the buffer; which one that is
\* depends on the block, so that any of them may be submitted.
Qualities ==
    /\ pc = "quality"
    /\ submitted' = submitted \cup
           {[nonce |-> (bufStart \div 2 ^ scan.steps) * NUM_SCOOPS + k,
             compression |-> level + scan.steps, value |-> bs[k]] :
                 k \in 0 .. inRead * NUM_SCOOPS - 1}
    /\ pc' = "read"
    /\ UNCHANGED <<plotVars, file, restarts, hashVars, scan, readProgress, bs, bufStart,
                   inRead, step, pair, checked>>

ScanFinished ==
    /\ pc = "read"
    /\ readProgress = warps
    /\ pc' = "scanned"
    /\ UNCHANGED <<plotVars, file, restarts, hashVars, minerVars, checked>>

(***************************************************************************)
(* The verifier.  The modes single, partial and random check some nonce at  *)
(* some scoop, the mode complete every one in turn.  It reads nothing but   *)
(* the file: what it finds does not depend on the scans before it.          *)
(***************************************************************************)
read_nonce(scoop, nonce) == file[scoop * warps * NUM_SCOOPS + nonce]

Holds(scoop, nonce) == read_nonce(scoop, nonce) = generate_scoop(scoop, nonce, level)

CheckNonce ==
    /\ pc = "ready"
    /\ \E scoop \in Scoops, nonce \in 0 .. warps * NUM_SCOOPS - 1 :
          pc' = IF Holds(scoop, nonce) THEN "passed" ELSE "failed"
    /\ checked' = 0
    /\ UNCHANGED <<plotVars, file, restarts, hashVars, minerVars>>

CheckComplete ==
    /\ pc = "ready"
    /\ pc' = "complete"
    /\ checked' = 0
    /\ UNCHANGED <<plotVars, file, restarts, hashVars, minerVars>>

\* Scoop by scoop, within a scoop nonce by nonce.  The first mismatch ends it.
CheckNext ==
    /\ pc = "complete"
    /\ LET nonces == warps * NUM_SCOOPS
       IN  IF Holds(checked \div nonces, checked % nonces)
           THEN /\ checked' = checked + 1
                /\ pc' = IF checked = LastCell(warps) THEN "passed" ELSE "complete"
           ELSE /\ pc' = "failed"
                /\ UNCHANGED checked
    /\ UNCHANGED <<plotVars, file, restarts, hashVars, minerVars>>

Next ==
    \/ HashChunk \/ InlineJoin \/ CompressChunk
    \/ \E y \in Scoops : InlineCell(y)
    \/ HashBatch \/ CompressBatch
    \/ Write \/ Restart
    \/ StartScan \/ Read \/ CompressPair \/ CompressStep \/ Qualities \/ ScanFinished
    \/ CheckNonce \/ CheckComplete \/ CheckNext

Spec == Init /\ [][Next]_vars

(***************************************************************************)
(* Properties                                                               *)
(***************************************************************************)
\* Whichever plotter wrote a warp, in whatever portions and after whatever
\* restart, every nonce the marker vouches for holds at every scoop what
\* generate_scoop computes of it, but for the cell of the marker itself.
WarpsVerify ==
    \A scoop \in Scoops, nonce \in 0 .. resume_info(file, warps) * NUM_SCOOPS - 1 :
        \/ Holds(scoop, nonce)
        \/ scoop * warps * NUM_SCOOPS + nonce = LastCell(warps)

\* A proof the miner may submit is what the chain computes for the nonce and
\* the level it names, and that level is one the chain accepts, whether the
\* plot had it or the reader compressed it so far.
SubmissionsVerify ==
    \A s \in submitted :
        /\ \/ s.value = generate_scoop(scan.scoop, s.nonce, s.compression)
           \/ scan.scoop = NUM_SCOOPS - 1
              /\ s.nonce = (warps \div 2 ^ scan.steps) * NUM_SCOOPS - 1
        /\ scan.otf => s.compression \in scan.min .. scan.target

\* A plot that can be mined is scanned whole: each nonce it has at the level
\* it is mined at is hashed once, and a warp is left out only where the
\* number of warps is not a multiple of those that go into one.
ScanCovers ==
    pc = "scanned" =>
        LET steps == IF scan.otf /\ level < scan.min THEN scan.min - level ELSE 0
            minable == scan.otf => level <= scan.target /\ 2 ^ steps <= scan.cache
            nonces == IF minable THEN 0 .. (warps \div 2 ^ steps) * NUM_SCOOPS - 1 ELSE {}
        IN  /\ {s.nonce : s \in submitted} = nonces
            /\ Cardinality(submitted) = Cardinality(nonces)

\* The complete check of a finished plot passes: "Verify the entire plot file
\* (full validation)", pocx_verifier/README.md:27.
CompletePasses == ~ (pc = "failed" /\ checked > 0)

====
