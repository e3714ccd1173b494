--------------------------- MODULE ProofOfCapacity ---------------------------
(* A proof on its way through pocx_hashlib: a plotter fills a cache with     *)
(* nonces, a miner finds the best quality in a scoop of it, and a pool       *)
(* validates that proof in a batch with others (batch_validation.rs), whose  *)
(* work is shared out to threads that combine what they compute under locks. *)
(* Each of the three runs on a machine with an instruction set of its own.   *)
EXTENDS NonceGeneration, FiniteSets, FiniteSetsExt

CONSTANTS
    PlotArchs, MineArchs, PoolArchs,    \* instruction sets to consider
    Processors,     \* numbers of processors of the pool's machine
    CacheNonces,    \* nonces the plotter's cache holds
    Sizes,          \* numbers of nonces a call may generate
    PlotId, Start,  \* account and seed of the plot, and its first nonce
    Height, GenSig, \* the block
    Others          \* proofs of others in the batch: [id, nonce, compression, honest]

ASSUME SetsAssumption ==
    /\ PlotArchs \union MineArchs \union PoolArchs \subseteq Archs
    /\ Processors \subseteq Nat \ {0} /\ Sizes \subseteq Nat \ {0}
    /\ CacheNonces \in Nat \ {0} /\ Start \in 0 .. MaxNonce

VARIABLES
    arch,       \* instruction set of the machine at work
    pc,         \* "plot", "mine", "prove", "work", "end" or "done"
    cache,      \* the plotter's buffer
    filled,     \* nonces generated so far
    best,       \* find_best_quality's answer: quality and offset
    inputs,     \* the batch of proofs
    work,       \* work[t]: the units of thread t's chunk that it has not taken
    scoops,     \* scoops[t]: what it has computed and not yet combined
    acc,        \* accumulators: the XOR of the scoops of each proof
    results     \* quality and verdict of each proof

batchVars == <<inputs, work, scoops, acc, results>>
vars == <<arch, pc, cache, filled, best, batchVars>>

Blank == 0      \* hashes of the cache that were never written
Scoop == calculate_scoop(Height, GenSig)
u64_MAX == 8   \* above every quality

Init ==
    /\ arch \in PlotArchs
    /\ pc = "plot"
    /\ cache = [x \in 1 .. CacheNonces * Hashes |-> Blank] /\ filled = 0
    /\ best = << >>
    /\ inputs = << >> /\ work = << >> /\ scoops = << >> /\ acc = << >> /\ results = << >>

-----------------------------------------------------------------------------
(* The plotter.                                                              *)

Plot(num) ==
    /\ pc = "plot" /\ filled + num <= CacheNonces
    /\ cache' = generate_nonces(arch, cache, filled, PlotId, Start + filled, num)
    /\ filled' = filled + num
    /\ IF filled' = CacheNonces THEN pc' = "mine" /\ arch' \in MineArchs ELSE UNCHANGED <<pc, arch>>
    /\ UNCHANGED <<best, batchVars>>

-----------------------------------------------------------------------------
(* The miner.                                                                *)

ScoopOf(data, n) == <<data[2 * n + 1], data[2 * n + 2]>>

\* Mutant: of several nonces the last is the best.
LaterBetter(b, data, n) ==
    LET quality == shabal256_lite(ScoopOf(data, n), GenSig) IN
    IF quality <= b.quality THEN [quality |-> quality, offset |-> n] ELSE b

\* The better of the best so far and the scoop at offset n.
Better(b, data, n) ==
    LET quality == shabal256_lite(ScoopOf(data, n), GenSig) IN
    IF quality < b.quality THEN [quality |-> quality, offset |-> n] ELSE b

\* The better of b and num scoops from offset first on.
BestFrom(b, data, first, num) == FoldLeft(LAMBDA c, i : Better(c, data, first + i - 1), b, [i \in 1 .. num |-> i])
Nothing == [quality |-> u64_MAX, offset |-> 0]

\* Batches of V lanes, then what is left over.
BestInLanes(V, data, nonces) ==
    LET batches == nonces \div V
        best_in_batches == FoldLeft(LAMBDA b, batch : BestFrom(b, data, (batch - 1) * V, V),
                                    Nothing, [batch \in 1 .. batches |-> batch])
    IN BestFrom(best_in_batches, data, batches * V, nonces % V)

find_best_quality_32(data, nonces)   == BestFrom(Nothing, data, 0, nonces)
find_best_quality_128(data, nonces)  == BestInLanes(AVX_VECTOR_SIZE, data, nonces)
find_best_quality_256(data, nonces)  == BestInLanes(AVX2_VECTOR_SIZE, data, nonces)
find_best_quality_512(data, nonces)  == BestInLanes(AVX512_VECTOR_SIZE, data, nonces)
find_best_quality_neon(data, nonces) == BestInLanes(AVX_VECTOR_SIZE, data, nonces)

find_best_quality(data, nonces) ==
    CASE arch = "none"   -> find_best_quality_32(data, nonces)
      [] arch = "avx"    -> find_best_quality_128(data, nonces)
      [] arch = "avx2"   -> find_best_quality_256(data, nonces)
      [] arch = "avx512" -> find_best_quality_512(data, nonces)
      [] arch = "neon"   -> find_best_quality_neon(data, nonces)

\* The scoops of the block are together in the cache.
Mine ==
    /\ pc = "mine"
    /\ best' = find_best_quality(
                   SubSeq(cache, 2 * Scoop * CacheNonces + 1, 2 * (Scoop + 1) * CacheNonces), CacheNonces)
    /\ pc' = "prove"
    /\ UNCHANGED <<arch, cache, filled, batchVars>>

-----------------------------------------------------------------------------
(* The quality of one nonce, as calculate_quality_raw finds it.              *)

\* A scoop of an uncompressed nonce, which is generated for it.
UnitScoop(id, nonce, scoop) ==
    ScoopOf(generate_nonces(arch, [x \in 1 .. Hashes |-> Blank], 0, id, nonce, 1), scoop)

\* The scoop of a compressed nonce: the XOR of scoops of 2^compression nonces.
generate_scoop(id, scoop, nonce, compression) ==
    LET inWarp  == nonce % NumScoops
        base(i) == (2^compression * (nonce \div NumScoops) + i) * NumScoops
        part(i) == IF i % 2 = 0 THEN UnitScoop(id, base(i) + inWarp, scoop)
                   ELSE UnitScoop(id, base(i) + scoop, inWarp)
    IN FoldLeft(LAMBDA x, i : Xor(x, part(i - 1)), <<0, 0>>, [i \in 1 .. 2^compression |-> i])

calculate_quality_raw(id, nonce, compression) ==
    find_best_quality(generate_scoop(id, Scoop, nonce, compression), 1).quality

\* The miner's own proof, and one of each other: honest, or off by one.
Prove ==
    /\ pc = "prove"
    /\ inputs' = <<[id |-> PlotId, nonce |-> Start + best.offset, compression |-> 0, claimed |-> best.quality]>>
                 \o [i \in DOMAIN Others |->
                        [id |-> Others[i].id, nonce |-> Others[i].nonce, compression |-> Others[i].compression,
                         claimed |-> calculate_quality_raw(Others[i].id, Others[i].nonce, Others[i].compression)
                                     + (IF Others[i].honest THEN 0 ELSE 1)]]
    /\ pc' = "work" /\ arch' \in PoolArchs
    /\ UNCHANGED <<cache, filled, best, work, scoops, acc, results>>

-----------------------------------------------------------------------------
(* The pool: validate_proofs.                                                *)

\* Mutant: every unit takes the block's scoop.
UnitsSameScoop(id, nonce, compression, scoop) ==
    [i \in 1 .. 2^compression |->
        [id |-> id, scoop |-> scoop,
         nonce |-> (2^compression * (nonce \div NumScoops) + i - 1) * NumScoops + (nonce % NumScoops)]]

\* The scoops of uncompressed nonces that it takes to check a proof.
expand_work_units(id, nonce, compression, scoop) ==
    LET inWarp == nonce % NumScoops
        warp   == 2^compression * (nonce \div NumScoops)
    IN [i \in 1 .. 2^compression |->
           IF i % 2 = 1
           THEN [id |-> id, nonce |-> (warp + i - 1) * NumScoops + inWarp, scoop |-> scoop]
           ELSE [id |-> id, nonce |-> (warp + i - 1) * NumScoops + scoop, scoop |-> inWarp]]

AllUnits ==
    FlattenSeq([p \in DOMAIN inputs |->
        LET u == expand_work_units(inputs[p].id, inputs[p].nonce, inputs[p].compression, Scoop)
        IN [i \in DOMAIN u |-> [unit |-> u[i], proof |-> p]]])

CeilDiv(a, b) == (a + b - 1) \div b

\* The work is cut into chunks, one for each thread.
Chunks(units, processors) ==
    LET total == Len(units)
        most == IF processors > 2 THEN processors - 1 ELSE 1
        threads == Min({most, CeilDiv(total, Width(arch))})
        size == IF threads <= 1 THEN total ELSE CeilDiv(total, threads)
    IN [t \in 1 .. CeilDiv(total, size) |-> SubSeq(units, (t - 1) * size + 1, Min({t * size, total}))]

Spawn(processors) ==
    /\ pc = "work"
    /\ work' = Chunks(AllUnits, processors)
    /\ scoops' = [t \in DOMAIN work' |-> << >>]
    /\ acc' = [p \in DOMAIN inputs |-> <<0, 0>>]
    /\ pc' = "end"
    /\ UNCHANGED <<arch, cache, filled, best, inputs, results>>

\* Each lane of the buffer has its own nonce, and one scoop of it is taken.
ScoopsOfLanes(V, units) ==
    LET buffer == LaneNonces[V, [k \in 1 .. V |-> units[k].unit.id], [k \in 1 .. V |-> units[k].unit.nonce]]
    IN [k \in 1 .. V |-> extract_scoop_from_interleaved(V, buffer, k, units[k].unit.scoop)]

generate_and_extract_scoop_32(units) ==
    LET u == units[1].unit IN <<extract_scoop_from_interleaved(1, Nonce[u.id, u.nonce], 1, u.scoop)>>
generate_and_extract_scoops_128(units)  == ScoopsOfLanes(AVX_VECTOR_SIZE, units)
generate_and_extract_scoops_256(units)  == ScoopsOfLanes(AVX2_VECTOR_SIZE, units)
generate_and_extract_scoops_512(units)  == ScoopsOfLanes(AVX512_VECTOR_SIZE, units)
generate_and_extract_scoops_neon(units) == ScoopsOfLanes(AVX_VECTOR_SIZE, units)

\* As many lanes as the machine has and the rest of the work fills.
NextScoops(units) ==
    LET enough(archs, V) == arch \in archs /\ Len(units) >= V IN
    IF enough({"avx512"}, AVX512_VECTOR_SIZE)              THEN generate_and_extract_scoops_512(units)
    ELSE IF enough({"avx512", "avx2"}, AVX2_VECTOR_SIZE)   THEN generate_and_extract_scoops_256(units)
    ELSE IF enough({"avx512", "avx2", "avx"}, AVX_VECTOR_SIZE) THEN generate_and_extract_scoops_128(units)
    ELSE IF enough({"neon"}, AVX_VECTOR_SIZE)              THEN generate_and_extract_scoops_neon(units)
    ELSE generate_and_extract_scoop_32(units)

\* A thread computes the scoops of the next batch of its chunk.  (The flag that
\* could make it stop, surrender, is never set.)
Compute(t) ==
    /\ pc = "end" /\ scoops[t] = << >> /\ work[t] # << >>
    /\ LET data == NextScoops(work[t])
       IN /\ scoops' = [scoops EXCEPT ![t] = [i \in DOMAIN data |-> [data |-> data[i], proof |-> work[t][i].proof]]]
          /\ work' = [work EXCEPT ![t] = SubSeq(@, Len(data) + 1, Len(@))]
    /\ UNCHANGED <<arch, pc, cache, filled, best, inputs, acc, results>>

\* It combines one of them with those of the proof, under the proof's lock.
Accumulate(t) ==
    /\ pc = "end" /\ scoops[t] # << >>
    /\ LET x == Head(scoops[t]) IN acc' = [acc EXCEPT ![x.proof] = Xor(@, x.data)]
    /\ scoops' = [scoops EXCEPT ![t] = Tail(@)]
    /\ UNCHANGED <<arch, pc, cache, filled, best, inputs, work, results>>

\* All threads have ended: the qualities.
Finalize ==
    /\ pc = "end" /\ \A t \in DOMAIN work : work[t] = << >> /\ scoops[t] = << >>
    /\ results' = [p \in DOMAIN inputs |->
                      LET quality == shabal256_lite(acc[p], GenSig)
                      IN [quality |-> quality, valid |-> quality = inputs[p].claimed]]
    /\ pc' = "done"
    /\ UNCHANGED <<arch, cache, filled, best, inputs, work, scoops, acc>>

Thread(t) == Compute(t) \/ Accumulate(t)

Next ==
    \/ \E num \in Sizes : Plot(num)
    \/ Mine \/ Prove \/ Finalize
    \/ \E processors \in Processors : Spawn(processors)
    \/ \E t \in DOMAIN work : Thread(t)

Spec == Init /\ [][Next]_vars

-----------------------------------------------------------------------------
(* Properties.                                                               *)

\* Scoop s of a nonce: one hash from the front and one from the back.
PlainScoop(nonce, s) == <<nonce[2 * s + 1], nonce[Hashes - 2 * s]>>

\* Whatever the instruction set and the sizes of the calls, every nonce that was
\* generated is in its place in every scoop, and nothing else was touched: lanes
\* do not mix, and a rest that does not fill them goes where the lanes end
\* (lib.rs: "num_nonces - number of nonces to generate").
CacheRight ==
    pc \in {"plot", "mine"} =>
        \A n \in 0 .. CacheNonces - 1 :
            LET nonce == Nonce[PlotId, Saturated(Start + n)] IN
            \A s \in 0 .. NumScoops - 1 :
                ScoopOf(cache, s * CacheNonces + n) =
                    IF n < filled THEN PlainScoop(nonce, s) ELSE <<Blank, Blank>>

\* The miner's answer is the least quality of the scoop, and the first nonce
\* that has it, so that every machine names the same nonce.
BestIsFirst ==
    pc = "prove" =>
        \A n \in 0 .. CacheNonces - 1 :
            LET quality == shabal256_lite(PlainScoop(Nonce[PlotId, Saturated(Start + n)], Scoop), GenSig) IN
            IF n = best.offset THEN quality = best.quality
            ELSE IF n < best.offset THEN quality > best.quality ELSE quality >= best.quality

\* What a machine claims of its nonce any other confirms, in a batch with
\* whatever else, in whatever order its threads combine their scoops; what is
\* off by one it rejects.
ClaimsDecided ==
    \A p \in DOMAIN results :
        results[p].valid <=> (p = 1 \/ Others[p - 1].honest)
=============================================================================
