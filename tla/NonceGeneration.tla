-------------------------- MODULE NonceGeneration --------------------------
(* Nonces and qualities, as pocx_hashlib computes them: one at a time, or    *)
(* several in the lanes of a SIMD register, whose hashes are interleaved in  *)
(* one buffer, and shuffled from there into a cache ordered by scoops.       *)
(*                                                                           *)
(* Shabal256 itself is abstracted to a mixing of what it is given: what      *)
(* matters is which hashes reach it, in which order and in which lane.  A    *)
(* hash, eight words that stay together, is one small number, and sizes are  *)
(* in hashes.  What belongs to one account and seed is an id, a record       *)
(* [seed, payload].                                                          *)
EXTENDS Integers, Sequences, SequencesExt

CONSTANTS
    NumScoops,           \* NUM_SCOOPS (4096)
    CapHashes,           \* HASH_CAP, in hashes (128)
    AVX_VECTOR_SIZE,     \* lanes of SSE2, AVX and NEON (4)
    AVX2_VECTOR_SIZE,    \* (8)
    AVX512_VECTOR_SIZE,  \* (16)
    MaxNonce,            \* u64::MAX
    Ids                  \* accounts and seeds

Widths == {AVX_VECTOR_SIZE, AVX2_VECTOR_SIZE, AVX512_VECTOR_SIZE}

ASSUME SizesAssumption ==
    /\ NumScoops \in Nat \ {0} /\ MaxNonce \in Nat
    /\ CapHashes \in 1 .. 2 * NumScoops
    /\ Widths \subseteq Nat \ {0}

Hashes == 2 * NumScoops     \* of a nonce

Hash == 0 .. 15
Bit(h, b) == (h \div 2^b) % 2
XorOf == [x \in Hash \X Hash |->
            FoldLeft(LAMBDA sum, b : sum + 2^b * ((Bit(x[1], b) + Bit(x[2], b)) % 2), 0, <<0, 1, 2, 3>>)]
Xor(x, y) == [i \in DOMAIN x |-> XorOf[<<x[i], y[i]>>]]

-----------------------------------------------------------------------------
(* Shabal256 takes blocks of two hashes.                                     *)

Mix(message) == FoldLeft(LAMBDA h, w : (31 * h + w + 1) % 8191, 7, message)

\* A hash of the whole blocks of data, a block before the last, and the last.
shabal256(data, pre, term) ==
    (Mix(SubSeq(data, 1, (Len(data) \div 2) * 2) \o pre \o term) \div 16) % 16

\* The quality of a scoop, few enough for ties.
shabal256_lite(scoop, gensig) == Mix(<<gensig>> \o scoop) % 8

\* The scoop of a block.
calculate_scoop(height, gensig) == shabal256(<< >>, << >>, <<gensig, height, 128>>) % NumScoops

-----------------------------------------------------------------------------
(* One nonce.                                                                *)

t1(id, nonce)  == <<id.seed, id.payload, nonce, 128>>
t2(id, nonce)  == <<id.payload, nonce, 128>>
pt2(id, first) == <<first, id.seed>>
t3             == <<128>>

\* The hash in front of hash i of a nonce, made of the hashes from i on.
HashBefore(id, nonce, i, hashes) ==
    IF Len(hashes) >= CapHashes THEN shabal256(SubSeq(hashes, 1, CapHashes), << >>, t3)
    ELSE IF i % 2 = 0 THEN shabal256(hashes, << >>, t1(id, nonce))
    ELSE shabal256(hashes, pt2(id, Last(hashes)), t2(id, nonce))

\* The hashes of a nonce, from the last to the first, each with the final one.
Nonce[id \in Ids, nonce \in 0 .. MaxNonce] ==
    LET all   == FoldLeft(LAMBDA hashes, i : <<HashBefore(id, nonce, i, hashes)>> \o hashes,
                          <<shabal256(<< >>, << >>, t1(id, nonce))>>, [n \in 1 .. Hashes - 1 |-> Hashes - n])
        final == shabal256(all, << >>, t1(id, nonce))
    IN [i \in 1 .. Hashes |-> XorOf[<<all[i], final>>]]

-----------------------------------------------------------------------------
(* Several nonces in lanes: a buffer holds hash 0 of every lane, then hash 1 *)
(* of every lane, and so on.                                                 *)

\* Hashes first to last - 1 of lane k.
Lane(V, k, buffer, first, last) == [i \in 1 .. last - first |-> buffer[(first + i - 1) * V + k]]

\* shabal256 in every lane, of the first hashes of a buffer.
LaneHash(V, buffer, hashes, pre, term) ==
    [k \in 1 .. V |-> shabal256(Lane(V, k, buffer, 0, hashes), pre[k], term[k])]

\* The buffer of the nonces of V lanes, each with its own id and number.  It
\* fills from the end: rest is what has been written, hashes i and up.
LaneNonces[V \in Widths, ids \in Seq(Ids), nonces \in Seq(0 .. MaxNonce)] ==
    LET T1    == [k \in 1 .. V |-> t1(ids[k], nonces[k])]
        T2    == [k \in 1 .. V |-> t2(ids[k], nonces[k])]
        T3    == [k \in 1 .. V |-> t3]
        NoPre == [k \in 1 .. V |-> << >>]
        first == LaneHash(V, << >>, 0, NoPre, T1)
        PT2   == [k \in 1 .. V |-> pt2(ids[k], first[k])]
        Round(rest, i) ==
            (IF i <= Hashes - CapHashes THEN LaneHash(V, rest, CapHashes, NoPre, T3)
             ELSE IF i % 2 = 0          THEN LaneHash(V, rest, Hashes - i, NoPre, T1)
             ELSE                            LaneHash(V, rest, Hashes - i, PT2, T2)) \o rest
        all   == FoldLeft(Round, first, [n \in 1 .. Hashes - 1 |-> Hashes - n])
        final == LaneHash(V, all, Hashes, NoPre, T1)
    IN [x \in DOMAIN all |-> XorOf[<<all[x], final[((x - 1) % V) + 1]>>]]

-----------------------------------------------------------------------------
(* The cache: all nonces' first scoops, then all second scoops, ...          *)

\* A scoop of the nonce of lane k of a buffer: hash 2 * s from the front, and the
\* hash as far from the back.
extract_scoop_from_interleaved(V, buffer, k, s) ==
    LET back == 2 * (NumScoops - 1 - s) + 1
    IN Lane(V, k, buffer, 2 * s, 2 * s + 1) \o Lane(V, k, buffer, back, back + 1)

\* Where hash x of a buffer of V lanes belongs in a cache of size nonces: in the
\* hash's scoop, which is counted from the back for odd hashes, the nonce's half.
Target(x, V, offset, size) ==
    LET i == x \div V
        scoop == IF i % 2 = 1 THEN NumScoops - 1 - i \div 2 ELSE i \div 2
    IN 2 * (scoop * size + (x % V) + offset) + (i % 2)

\* What does not fit is skipped.
unpack_shuffle_scatter(source, cache, offset, V) ==
    LET size == Len(cache) \div Hashes IN
    FoldLeft(LAMBDA c, x : IF Target(x, V, offset, size) < Len(c)
                           THEN [c EXCEPT ![Target(x, V, offset, size) + 1] = source[x + 1]] ELSE c,
             cache, [n \in 1 .. Hashes * V |-> n - 1])

Saturated(n) == IF n > MaxNonce THEN MaxNonce ELSE n

\* num nonces, V at a time.
LanesInto(V, cache, offset, id, start, num) ==
    FoldLeft(LAMBDA c, n :
                unpack_shuffle_scatter(
                    LaneNonces[V, [k \in 1 .. V |-> id], [k \in 1 .. V |-> Saturated(start + n * V + k - 1)]],
                    c, offset + n * V, V),
             cache, [n \in 1 .. num \div V |-> n - 1])

generate_nonces_128(cache, offset, id, start, num) == LanesInto(AVX_VECTOR_SIZE, cache, offset, id, start, num)
generate_nonces_256(cache, offset, id, start, num) == LanesInto(AVX2_VECTOR_SIZE, cache, offset, id, start, num)
generate_nonces_512(cache, offset, id, start, num) == LanesInto(AVX512_VECTOR_SIZE, cache, offset, id, start, num)
generate_nonces_neon(cache, offset, id, start, num) == LanesInto(AVX_VECTOR_SIZE, cache, offset, id, start, num)

generate_nonces_32(cache, offset, id, start, num) ==
    FoldLeft(LAMBDA c, n : unpack_shuffle_scatter(Nonce[id, Saturated(start + n)], c, offset + n, 1),
             cache, [n \in 1 .. num |-> n - 1])

\* Instruction sets, and the lanes of each.
Archs == {"none", "avx", "avx2", "avx512", "neon"}
Width(arch) ==
    CASE arch = "none"   -> 1
      [] arch = "avx2"   -> AVX2_VECTOR_SIZE
      [] arch = "avx512" -> AVX512_VECTOR_SIZE
      [] OTHER           -> AVX_VECTOR_SIZE

\* Mutant: the nonces that do not fill the lanes go in front of the others.
RestFirst(arch, offset, done) == offset

\* Where the nonces go that do not fill the lanes; on aarch64 their place is in
\* bytes, a nonce being 32 to the hash.
RestOffset(arch, offset, done) ==
    IF arch = "neon" THEN offset + done * Hashes * 32 ELSE offset + done

\* num nonces into the cache from nonce offset on; the cache is large enough.
generate_nonces(arch, cache, offset, id, start, num) ==
    LET rest == num % Width(arch)
        done == num - rest
        filled == CASE arch = "none"   -> cache
                    [] arch = "avx"    -> generate_nonces_128(cache, offset, id, start, done)
                    [] arch = "avx2"   -> generate_nonces_256(cache, offset, id, start, done)
                    [] arch = "avx512" -> generate_nonces_512(cache, offset, id, start, done)
                    [] arch = "neon"   -> generate_nonces_neon(cache, offset, id, start, done)
    IN IF arch = "none" THEN generate_nonces_32(cache, offset, id, start, num)
       ELSE generate_nonces_32(filled, RestOffset(arch, offset, done), id, Saturated(start + done), rest)
=============================================================================
