------------------------------- MODULE Shabal -------------------------------
(* Shabal256 as pocx_hashlib computes it, bit for bit: shabal256 hashes a    *)
(* message of whole blocks, shabal256_lite is the quality of a scoop, and    *)
(* both exist once for one message and once for each instruction set, where  *)
(* a register holds the same word of several messages.  The vector routines  *)
(* are not the scalar one repeated: the one for qualities has a schedule of  *)
(* its own, it swaps after every round and undoes its count.                 *)
(*                                                                           *)
(* TLC's integers have 32 bits and a sign, so that a word is a pair of       *)
(* halves, the high one first.  A call takes one round at a step; the lanes  *)
(* of a register file are kept side by side, lane by lane.                   *)
EXTENDS Integers, Sequences, SequencesExt, Bitwise


CONSTANTS
    AVX_VECTOR_SIZE,     \* lanes of SSE2, AVX and NEON (4)
    AVX2_VECTOR_SIZE,    \* (8)
    AVX512_VECTOR_SIZE,  \* (16)
    HashInputs,          \* a sequence of sequences of [data, pre, term], alike in their lengths
    QualityInputs,       \* a sequence of sequences of [gensig, scoop], 8 and 16 words
    Published            \* known answers, a set of [blocks, words]

VARIABLES
    job,     \* the call that runs, a record, or Idle
    lanes,   \* of each lane a record [a, b, c]
    w,       \* the count of blocks: <<w_low, w_high>>
    round,   \* rounds done
    target,  \* the words returned, word by word and within it lane by lane
    plain    \* a history: the lanes as the published algorithm has them

vars == <<job, lanes, w, round, target, plain>>

-----------------------------------------------------------------------------
(* Words.                                                                    *)

Half == 0 .. 65535
Word == Half \X Half
Zero == <<0, 0>>
One  == <<0, 1>>

XorByte == [x \in 0 .. 255 |-> [y \in 0 .. 255 |-> x ^^ y]]
XorHalf(x, y) == 256 * XorByte[x \div 256][y \div 256] + XorByte[x % 256][y % 256]
AndHalf(x, y) == (x + y - XorHalf(x, y)) \div 2

\* Exclusive or.
Eor(x, y) == <<XorHalf(x[1], y[1]), XorHalf(x[2], y[2])>>
Complement(x) == <<65535 - x[1], 65535 - x[2]>>
AndNot(x, y) == <<AndHalf(x[1], 65535 - y[1]), AndHalf(x[2], 65535 - y[2])>>

\* wrapping_add, wrapping_sub
Add(x, y) == LET low == x[2] + y[2] IN <<(x[1] + y[1] + (low \div 65536)) % 65536, low % 65536>>
Minus(x, y) == LET low == x[2] - y[2] IN <<(x[1] - y[1] + (low \div 65536)) % 65536, low % 65536>>

\* Rotated left by n bits.
Rotl(x, n) ==
    LET h == IF n < 16 THEN x ELSE <<x[2], x[1]>>
        s == n % 16
    IN <<((h[1] * 2^s) % 65536) + (h[2] \div 2^(16 - s)), ((h[2] * 2^s) % 65536) + (h[1] \div 2^(16 - s))>>

Times2(x) == Add(x, x)
Times3(x) == Add(Times2(x), x)
Times5(x) == Add(Times2(Times2(x)), x)

A_INIT == << <<\h52F8, \h4552>>, <<\hE54B, \h7999>>, <<\h2D8E, \hE3EC>>, <<\hB964, \h5191>>,
             <<\hE007, \h8B86>>, <<\hBB7C, \h44C9>>, <<\hD2B5, \hC1CA>>, <<\hB0D2, \hEB8C>>,
             <<\h14CE, \h5A45>>, <<\h22AF, \h50DC>>, <<\hEFFD, \hBC6B>>, <<\hEB21, \hB74A>> >>

B_INIT == << <<\hB555, \hC6EE>>, <<\h3E71, \h0596>>, <<\hA72A, \h652F>>, <<\h9301, \h515F>>,
             <<\hDA28, \hC1FA>>, <<\h696F, \hD868>>, <<\h9CB6, \hBF72>>, <<\h0AFE, \h4002>>,
             <<\hA6E0, \h3615>>, <<\h5138, \hC1D4>>, <<\hBE21, \h6306>>, <<\hB38B, \h8890>>,
             <<\h3EA8, \hB96B>>, <<\h3299, \hACE4>>, <<\h3092, \h4DD4>>, <<\h55CB, \h34A5>> >>

C_INIT == << <<\hB405, \hF031>>, <<\hC423, \h3EBA>>, <<\hB373, \h3979>>, <<\hC0DD, \h9D55>>,
             <<\hC51C, \h28AE>>, <<\hA327, \hB8E1>>, <<\h56C5, \h6167>>, <<\hED61, \h4433>>,
             <<\h88B5, \h9D60>>, <<\h60E2, \hCEBA>>, <<\h758B, \h4B8B>>, <<\h83E8, \h2A7F>>,
             <<\hBC96, \h8828>>, <<\hE6E0, \h0BF7>>, <<\hBA83, \h9E55>>, <<\h9B49, \h1C60>> >>

\* The 16 words f(1), ..., f(16), a tuple so that TLC computes them at once.
Each(f(_)) == <<f(1), f(2), f(3), f(4), f(5), f(6), f(7), f(8),
                f(9), f(10), f(11), f(12), f(13), f(14), f(15), f(16)>>

-----------------------------------------------------------------------------
(* The permutation: 48 elements, each of which replaces one word of a and    *)
(* one of b, and 36 sums of a word of a and one of c.  Every routine has     *)
(* them written out by hand, element by element; these are the operands, a   *)
(* list for each, in the order of the code and counted from 0 as there: of   *)
(* an element xa0, ..., xb3, the word of c (xc) and of the block (xm), and   *)
(* of a sum the words of a and of c.                                         *)

SCALAR == [
  xa0 |-> <<0,1,2,3,4,5,6,7,8,9,10,11,0,1,2,3,4,5,6,7,8,9,10,11,0,1,2,3,4,5,6,7,8,9,10,11,0,1,2,3,4,5,6,7,8,9,10,11>>,
  xa1 |-> <<11,0,1,2,3,4,5,6,7,8,9,10,11,0,1,2,3,4,5,6,7,8,9,10,11,0,1,2,3,4,5,6,7,8,9,10,11,0,1,2,3,4,5,6,7,8,9,10>>,
  xb0 |-> <<0,1,2,3,4,5,6,7,8,9,10,11,12,13,14,15,0,1,2,3,4,5,6,7,8,9,10,11,12,13,14,15,0,1,2,3,4,5,6,7,8,9,10,11,12,13,14,15>>,
  xb1 |-> <<13,14,15,0,1,2,3,4,5,6,7,8,9,10,11,12,13,14,15,0,1,2,3,4,5,6,7,8,9,10,11,12,13,14,15,0,1,2,3,4,5,6,7,8,9,10,11,12>>,
  xb2 |-> <<9,10,11,12,13,14,15,0,1,2,3,4,5,6,7,8,9,10,11,12,13,14,15,0,1,2,3,4,5,6,7,8,9,10,11,12,13,14,15,0,1,2,3,4,5,6,7,8>>,
  xb3 |-> <<6,7,8,9,10,11,12,13,14,15,0,1,2,3,4,5,6,7,8,9,10,11,12,13,14,15,0,1,2,3,4,5,6,7,8,9,10,11,12,13,14,15,0,1,2,3,4,5>>,
  xc  |-> <<8,7,6,5,4,3,2,1,0,15,14,13,12,11,10,9,8,7,6,5,4,3,2,1,0,15,14,13,12,11,10,9,8,7,6,5,4,3,2,1,0,15,14,13,12,11,10,9>>,
  xm  |-> <<0,1,2,3,4,5,6,7,8,9,10,11,12,13,14,15,0,1,2,3,4,5,6,7,8,9,10,11,12,13,14,15,0,1,2,3,4,5,6,7,8,9,10,11,12,13,14,15>>,
  a   |-> <<0,0,0,1,1,1,2,2,2,3,3,3,4,4,4,5,5,5,6,6,6,7,7,7,8,8,8,9,9,9,10,10,10,11,11,11>>,
  c   |-> <<11,15,3,12,0,4,13,1,5,14,2,6,15,3,7,0,4,8,1,5,9,2,6,10,3,7,11,4,8,12,5,9,13,6,10,14>>]

SCALAR_DL == [
  xa0 |-> <<0,1,2,3,4,5,6,7,8,9,10,11,0,1,2,3,4,5,6,7,8,9,10,11,0,1,2,3,4,5,6,7,8,9,10,11,0,1,2,3,4,5,6,7,8,9,10,11>>,
  xa1 |-> <<11,0,1,2,3,4,5,6,7,8,9,10,11,0,1,2,3,4,5,6,7,8,9,10,11,0,1,2,3,4,5,6,7,8,9,10,11,0,1,2,3,4,5,6,7,8,9,10>>,
  xb0 |-> <<0,1,2,3,4,5,6,7,8,9,10,11,12,13,14,15,0,1,2,3,4,5,6,7,8,9,10,11,12,13,14,15,0,1,2,3,4,5,6,7,8,9,10,11,12,13,14,15>>,
  xb1 |-> <<13,14,15,0,1,2,3,4,5,6,7,8,9,10,11,12,13,14,15,0,1,2,3,4,5,6,7,8,9,10,11,12,13,14,15,0,1,2,3,4,5,6,7,8,9,10,11,12>>,
  xb2 |-> <<9,10,11,12,13,14,15,0,1,2,3,4,5,6,7,8,9,10,11,12,13,14,15,0,1,2,3,4,5,6,7,8,9,10,11,12,13,14,15,0,1,2,3,4,5,6,7,8>>,
  xb3 |-> <<6,7,8,9,10,11,12,13,14,15,0,1,2,3,4,5,6,7,8,9,10,11,12,13,14,15,0,1,2,3,4,5,6,7,8,9,10,11,12,13,14,15,0,1,2,3,4,5>>,
  xc  |-> <<8,7,6,5,4,3,2,1,0,15,14,13,12,11,10,9,8,7,6,5,4,3,2,1,0,15,14,13,12,11,10,9,8,7,6,5,4,3,2,1,0,15,14,13,12,11,10,9>>,
  xm  |-> <<0,1,2,3,4,5,6,7,8,9,10,11,12,13,14,15,0,1,2,3,4,5,6,7,8,9,10,11,12,13,14,15,0,1,2,3,4,5,6,7,8,9,10,11,12,13,14,15>>,
  a   |-> <<0,0,0,1,1,1,2,2,2,3,3,3,4,4,4,5,5,5,6,6,6,7,7,7,8,8,8,9,9,9,10,10,10,11,11,11>>,
  c   |-> <<11,15,3,12,0,4,13,1,5,14,2,6,15,3,7,0,4,8,1,5,9,2,6,10,3,7,11,4,8,12,5,9,13,6,10,14>>]

SSE2 == [
  xa0 |-> <<0,1,2,3,4,5,6,7,8,9,10,11,0,1,2,3,4,5,6,7,8,9,10,11,0,1,2,3,4,5,6,7,8,9,10,11,0,1,2,3,4,5,6,7,8,9,10,11>>,
  xa1 |-> <<11,0,1,2,3,4,5,6,7,8,9,10,11,0,1,2,3,4,5,6,7,8,9,10,11,0,1,2,3,4,5,6,7,8,9,10,11,0,1,2,3,4,5,6,7,8,9,10>>,
  xb0 |-> <<0,1,2,3,4,5,6,7,8,9,10,11,12,13,14,15,0,1,2,3,4,5,6,7,8,9,10,11,12,13,14,15,0,1,2,3,4,5,6,7,8,9,10,11,12,13,14,15>>,
  xb1 |-> <<13,14,15,0,1,2,3,4,5,6,7,8,9,10,11,12,13,14,15,0,1,2,3,4,5,6,7,8,9,10,11,12,13,14,15,0,1,2,3,4,5,6,7,8,9,10,11,12>>,
  xb2 |-> <<9,10,11,12,13,14,15,0,1,2,3,4,5,6,7,8,9,10,11,12,13,14,15,0,1,2,3,4,5,6,7,8,9,10,11,12,13,14,15,0,1,2,3,4,5,6,7,8>>,
  xb3 |-> <<6,7,8,9,10,11,12,13,14,15,0,1,2,3,4,5,6,7,8,9,10,11,12,13,14,15,0,1,2,3,4,5,6,7,8,9,10,11,12,13,14,15,0,1,2,3,4,5>>,
  xc  |-> <<8,7,6,5,4,3,2,1,0,15,14,13,12,11,10,9,8,7,6,5,4,3,2,1,0,15,14,13,12,11,10,9,8,7,6,5,4,3,2,1,0,15,14,13,12,11,10,9>>,
  xm  |-> <<0,1,2,3,4,5,6,7,8,9,10,11,12,13,14,15,0,1,2,3,4,5,6,7,8,9,10,11,12,13,14,15,0,1,2,3,4,5,6,7,8,9,10,11,12,13,14,15>>,
  a   |-> <<0,0,0,1,1,1,2,2,2,3,3,3,4,4,4,5,5,5,6,6,6,7,7,7,8,8,8,9,9,9,10,10,10,11,11,11>>,
  c   |-> <<11,15,3,12,0,4,13,1,5,14,2,6,15,3,7,0,4,8,1,5,9,2,6,10,3,7,11,4,8,12,5,9,13,6,10,14>>]

AVX == [
  xa0 |-> <<0,1,2,3,4,5,6,7,8,9,10,11,0,1,2,3,4,5,6,7,8,9,10,11,0,1,2,3,4,5,6,7,8,9,10,11,0,1,2,3,4,5,6,7,8,9,10,11>>,
  xa1 |-> <<11,0,1,2,3,4,5,6,7,8,9,10,11,0,1,2,3,4,5,6,7,8,9,10,11,0,1,2,3,4,5,6,7,8,9,10,11,0,1,2,3,4,5,6,7,8,9,10>>,
  xb0 |-> <<0,1,2,3,4,5,6,7,8,9,10,11,12,13,14,15,0,1,2,3,4,5,6,7,8,9,10,11,12,13,14,15,0,1,2,3,4,5,6,7,8,9,10,11,12,13,14,15>>,
  xb1 |-> <<13,14,15,0,1,2,3,4,5,6,7,8,9,10,11,12,13,14,15,0,1,2,3,4,5,6,7,8,9,10,11,12,13,14,15,0,1,2,3,4,5,6,7,8,9,10,11,12>>,
  xb2 |-> <<9,10,11,12,13,14,15,0,1,2,3,4,5,6,7,8,9,10,11,12,13,14,15,0,1,2,3,4,5,6,7,8,9,10,11,12,13,14,15,0,1,2,3,4,5,6,7,8>>,
  xb3 |-> <<6,7,8,9,10,11,12,13,14,15,0,1,2,3,4,5,6,7,8,9,10,11,12,13,14,15,0,1,2,3,4,5,6,7,8,9,10,11,12,13,14,15,0,1,2,3,4,5>>,
  xc  |-> <<8,7,6,5,4,3,2,1,0,15,14,13,12,11,10,9,8,7,6,5,4,3,2,1,0,15,14,13,12,11,10,9,8,7,6,5,4,3,2,1,0,15,14,13,12,11,10,9>>,
  xm  |-> <<0,1,2,3,4,5,6,7,8,9,10,11,12,13,14,15,0,1,2,3,4,5,6,7,8,9,10,11,12,13,14,15,0,1,2,3,4,5,6,7,8,9,10,11,12,13,14,15>>,
  a   |-> <<0,0,0,1,1,1,2,2,2,3,3,3,4,4,4,5,5,5,6,6,6,7,7,7,8,8,8,9,9,9,10,10,10,11,11,11>>,
  c   |-> <<11,15,3,12,0,4,13,1,5,14,2,6,15,3,7,0,4,8,1,5,9,2,6,10,3,7,11,4,8,12,5,9,13,6,10,14>>]

AVX2 == [
  xa0 |-> <<0,1,2,3,4,5,6,7,8,9,10,11,0,1,2,3,4,5,6,7,8,9,10,11,0,1,2,3,4,5,6,7,8,9,10,11,0,1,2,3,4,5,6,7,8,9,10,11>>,
  xa1 |-> <<11,0,1,2,3,4,5,6,7,8,9,10,11,0,1,2,3,4,5,6,7,8,9,10,11,0,1,2,3,4,5,6,7,8,9,10,11,0,1,2,3,4,5,6,7,8,9,10>>,
  xb0 |-> <<0,1,2,3,4,5,6,7,8,9,10,11,12,13,14,15,0,1,2,3,4,5,6,7,8,9,10,11,12,13,14,15,0,1,2,3,4,5,6,7,8,9,10,11,12,13,14,15>>,
  xb1 |-> <<13,14,15,0,1,2,3,4,5,6,7,8,9,10,11,12,13,14,15,0,1,2,3,4,5,6,7,8,9,10,11,12,13,14,15,0,1,2,3,4,5,6,7,8,9,10,11,12>>,
  xb2 |-> <<9,10,11,12,13,14,15,0,1,2,3,4,5,6,7,8,9,10,11,12,13,14,15,0,1,2,3,4,5,6,7,8,9,10,11,12,13,14,15,0,1,2,3,4,5,6,7,8>>,
  xb3 |-> <<6,7,8,9,10,11,12,13,14,15,0,1,2,3,4,5,6,7,8,9,10,11,12,13,14,15,0,1,2,3,4,5,6,7,8,9,10,11,12,13,14,15,0,1,2,3,4,5>>,
  xc  |-> <<8,7,6,5,4,3,2,1,0,15,14,13,12,11,10,9,8,7,6,5,4,3,2,1,0,15,14,13,12,11,10,9,8,7,6,5,4,3,2,1,0,15,14,13,12,11,10,9>>,
  xm  |-> <<0,1,2,3,4,5,6,7,8,9,10,11,12,13,14,15,0,1,2,3,4,5,6,7,8,9,10,11,12,13,14,15,0,1,2,3,4,5,6,7,8,9,10,11,12,13,14,15>>,
  a   |-> <<0,0,0,1,1,1,2,2,2,3,3,3,4,4,4,5,5,5,6,6,6,7,7,7,8,8,8,9,9,9,10,10,10,11,11,11>>,
  c   |-> <<11,15,3,12,0,4,13,1,5,14,2,6,15,3,7,0,4,8,1,5,9,2,6,10,3,7,11,4,8,12,5,9,13,6,10,14>>]

AVX512 == [
  xa0 |-> <<0,1,2,3,4,5,6,7,8,9,10,11,0,1,2,3,4,5,6,7,8,9,10,11,0,1,2,3,4,5,6,7,8,9,10,11,0,1,2,3,4,5,6,7,8,9,10,11>>,
  xa1 |-> <<11,0,1,2,3,4,5,6,7,8,9,10,11,0,1,2,3,4,5,6,7,8,9,10,11,0,1,2,3,4,5,6,7,8,9,10,11,0,1,2,3,4,5,6,7,8,9,10>>,
  xb0 |-> <<0,1,2,3,4,5,6,7,8,9,10,11,12,13,14,15,0,1,2,3,4,5,6,7,8,9,10,11,12,13,14,15,0,1,2,3,4,5,6,7,8,9,10,11,12,13,14,15>>,
  xb1 |-> <<13,14,15,0,1,2,3,4,5,6,7,8,9,10,11,12,13,14,15,0,1,2,3,4,5,6,7,8,9,10,11,12,13,14,15,0,1,2,3,4,5,6,7,8,9,10,11,12>>,
  xb2 |-> <<9,10,11,12,13,14,15,0,1,2,3,4,5,6,7,8,9,10,11,12,13,14,15,0,1,2,3,4,5,6,7,8,9,10,11,12,13,14,15,0,1,2,3,4,5,6,7,8>>,
  xb3 |-> <<6,7,8,9,10,11,12,13,14,15,0,1,2,3,4,5,6,7,8,9,10,11,12,13,14,15,0,1,2,3,4,5,6,7,8,9,10,11,12,13,14,15,0,1,2,3,4,5>>,
  xc  |-> <<8,7,6,5,4,3,2,1,0,15,14,13,12,11,10,9,8,7,6,5,4,3,2,1,0,15,14,13,12,11,10,9,8,7,6,5,4,3,2,1,0,15,14,13,12,11,10,9>>,
  xm  |-> <<0,1,2,3,4,5,6,7,8,9,10,11,12,13,14,15,0,1,2,3,4,5,6,7,8,9,10,11,12,13,14,15,0,1,2,3,4,5,6,7,8,9,10,11,12,13,14,15>>,
  a   |-> <<0,0,0,1,1,1,2,2,2,3,3,3,4,4,4,5,5,5,6,6,6,7,7,7,8,8,8,9,9,9,10,10,10,11,11,11>>,
  c   |-> <<11,15,3,12,0,4,13,1,5,14,2,6,15,3,7,0,4,8,1,5,9,2,6,10,3,7,11,4,8,12,5,9,13,6,10,14>>]

NEON == [
  xa0 |-> <<0,1,2,3,4,5,6,7,8,9,10,11,0,1,2,3,4,5,6,7,8,9,10,11,0,1,2,3,4,5,6,7,8,9,10,11,0,1,2,3,4,5,6,7,8,9,10,11>>,
  xa1 |-> <<11,0,1,2,3,4,5,6,7,8,9,10,11,0,1,2,3,4,5,6,7,8,9,10,11,0,1,2,3,4,5,6,7,8,9,10,11,0,1,2,3,4,5,6,7,8,9,10>>,
  xb0 |-> <<0,1,2,3,4,5,6,7,8,9,10,11,12,13,14,15,0,1,2,3,4,5,6,7,8,9,10,11,12,13,14,15,0,1,2,3,4,5,6,7,8,9,10,11,12,13,14,15>>,
  xb1 |-> <<13,14,15,0,1,2,3,4,5,6,7,8,9,10,11,12,13,14,15,0,1,2,3,4,5,6,7,8,9,10,11,12,13,14,15,0,1,2,3,4,5,6,7,8,9,10,11,12>>,
  xb2 |-> <<9,10,11,12,13,14,15,0,1,2,3,4,5,6,7,8,9,10,11,12,13,14,15,0,1,2,3,4,5,6,7,8,9,10,11,12,13,14,15,0,1,2,3,4,5,6,7,8>>,
  xb3 |-> <<6,7,8,9,10,11,12,13,14,15,0,1,2,3,4,5,6,7,8,9,10,11,12,13,14,15,0,1,2,3,4,5,6,7,8,9,10,11,12,13,14,15,0,1,2,3,4,5>>,
  xc  |-> <<8,7,6,5,4,3,2,1,0,15,14,13,12,11,10,9,8,7,6,5,4,3,2,1,0,15,14,13,12,11,10,9,8,7,6,5,4,3,2,1,0,15,14,13,12,11,10,9>>,
  xm  |-> <<0,1,2,3,4,5,6,7,8,9,10,11,12,13,14,15,0,1,2,3,4,5,6,7,8,9,10,11,12,13,14,15,0,1,2,3,4,5,6,7,8,9,10,11,12,13,14,15>>,
  a   |-> <<0,0,0,1,1,1,2,2,2,3,3,3,4,4,4,5,5,5,6,6,6,7,7,7,8,8,8,9,9,9,10,10,10,11,11,11>>,
  c   |-> <<11,15,3,12,0,4,13,1,5,14,2,6,15,3,7,0,4,8,1,5,9,2,6,10,3,7,11,4,8,12,5,9,13,6,10,14>>]

LITE_SSE2 == [
  xa0 |-> <<0,1,2,3,4,5,6,7,8,9,10,11,0,1,2,3,4,5,6,7,8,9,10,11,0,1,2,3,4,5,6,7,8,9,10,11,0,1,2,3,4,5,6,7,8,9,10,11>>,
  xa1 |-> <<11,0,1,2,3,4,5,6,7,8,9,10,11,0,1,2,3,4,5,6,7,8,9,10,11,0,1,2,3,4,5,6,7,8,9,10,11,0,1,2,3,4,5,6,7,8,9,10>>,
  xb0 |-> <<0,1,2,3,4,5,6,7,8,9,10,11,12,13,14,15,0,1,2,3,4,5,6,7,8,9,10,11,12,13,14,15,0,1,2,3,4,5,6,7,8,9,10,11,12,13,14,15>>,
  xb1 |-> <<13,14,15,0,1,2,3,4,5,6,7,8,9,10,11,12,13,14,15,0,1,2,3,4,5,6,7,8,9,10,11,12,13,14,15,0,1,2,3,4,5,6,7,8,9,10,11,12>>,
  xb2 |-> <<9,10,11,12,13,14,15,0,1,2,3,4,5,6,7,8,9,10,11,12,13,14,15,0,1,2,3,4,5,6,7,8,9,10,11,12,13,14,15,0,1,2,3,4,5,6,7,8>>,
  xb3 |-> <<6,7,8,9,10,11,12,13,14,15,0,1,2,3,4,5,6,7,8,9,10,11,12,13,14,15,0,1,2,3,4,5,6,7,8,9,10,11,12,13,14,15,0,1,2,3,4,5>>,
  xc  |-> <<8,7,6,5,4,3,2,1,0,15,14,13,12,11,10,9,8,7,6,5,4,3,2,1,0,15,14,13,12,11,10,9,8,7,6,5,4,3,2,1,0,15,14,13,12,11,10,9>>,
  xm  |-> <<0,1,2,3,4,5,6,7,8,9,10,11,12,13,14,15,0,1,2,3,4,5,6,7,8,9,10,11,12,13,14,15,0,1,2,3,4,5,6,7,8,9,10,11,12,13,14,15>>,
  a   |-> <<11,10,9,8,7,6,5,4,3,2,1,0,11,10,9,8,7,6,5,4,3,2,1,0,11,10,9,8,7,6,5,4,3,2,1,0>>,
  c   |-> <<6,5,4,3,2,1,0,15,14,13,12,11,10,9,8,7,6,5,4,3,2,1,0,15,14,13,12,11,10,9,8,7,6,5,4,3>>]

LITE_AVX == [
  xa0 |-> <<0,1,2,3,4,5,6,7,8,9,10,11,0,1,2,3,4,5,6,7,8,9,10,11,0,1,2,3,4,5,6,7,8,9,10,11,0,1,2,3,4,5,6,7,8,9,10,11>>,
  xa1 |-> <<11,0,1,2,3,4,5,6,7,8,9,10,11,0,1,2,3,4,5,6,7,8,9,10,11,0,1,2,3,4,5,6,7,8,9,10,11,0,1,2,3,4,5,6,7,8,9,10>>,
  xb0 |-> <<0,1,2,3,4,5,6,7,8,9,10,11,12,13,14,15,0,1,2,3,4,5,6,7,8,9,10,11,12,13,14,15,0,1,2,3,4,5,6,7,8,9,10,11,12,13,14,15>>,
  xb1 |-> <<13,14,15,0,1,2,3,4,5,6,7,8,9,10,11,12,13,14,15,0,1,2,3,4,5,6,7,8,9,10,11,12,13,14,15,0,1,2,3,4,5,6,7,8,9,10,11,12>>,
  xb2 |-> <<9,10,11,12,13,14,15,0,1,2,3,4,5,6,7,8,9,10,11,12,13,14,15,0,1,2,3,4,5,6,7,8,9,10,11,12,13,14,15,0,1,2,3,4,5,6,7,8>>,
  xb3 |-> <<6,7,8,9,10,11,12,13,14,15,0,1,2,3,4,5,6,7,8,9,10,11,12,13,14,15,0,1,2,3,4,5,6,7,8,9,10,11,12,13,14,15,0,1,2,3,4,5>>,
  xc  |-> <<8,7,6,5,4,3,2,1,0,15,14,13,12,11,10,9,8,7,6,5,4,3,2,1,0,15,14,13,12,11,10,9,8,7,6,5,4,3,2,1,0,15,14,13,12,11,10,9>>,
  xm  |-> <<0,1,2,3,4,5,6,7,8,9,10,11,12,13,14,15,0,1,2,3,4,5,6,7,8,9,10,11,12,13,14,15,0,1,2,3,4,5,6,7,8,9,10,11,12,13,14,15>>,
  a   |-> <<11,10,9,8,7,6,5,4,3,2,1,0,11,10,9,8,7,6,5,4,3,2,1,0,11,10,9,8,7,6,5,4,3,2,1,0>>,
  c   |-> <<6,5,4,3,2,1,0,15,14,13,12,11,10,9,8,7,6,5,4,3,2,1,0,15,14,13,12,11,10,9,8,7,6,5,4,3>>]

\* Mutant: one index of one element is one too high.
LITE_AVX2_SLIPPED == [LITE_AVX EXCEPT !.xb2[29] = @ + 1]
LITE_AVX2 == [
  xa0 |-> <<0,1,2,3,4,5,6,7,8,9,10,11,0,1,2,3,4,5,6,7,8,9,10,11,0,1,2,3,4,5,6,7,8,9,10,11,0,1,2,3,4,5,6,7,8,9,10,11>>,
  xa1 |-> <<11,0,1,2,3,4,5,6,7,8,9,10,11,0,1,2,3,4,5,6,7,8,9,10,11,0,1,2,3,4,5,6,7,8,9,10,11,0,1,2,3,4,5,6,7,8,9,10>>,
  xb0 |-> <<0,1,2,3,4,5,6,7,8,9,10,11,12,13,14,15,0,1,2,3,4,5,6,7,8,9,10,11,12,13,14,15,0,1,2,3,4,5,6,7,8,9,10,11,12,13,14,15>>,
  xb1 |-> <<13,14,15,0,1,2,3,4,5,6,7,8,9,10,11,12,13,14,15,0,1,2,3,4,5,6,7,8,9,10,11,12,13,14,15,0,1,2,3,4,5,6,7,8,9,10,11,12>>,
  xb2 |-> <<9,10,11,12,13,14,15,0,1,2,3,4,5,6,7,8,9,10,11,12,13,14,15,0,1,2,3,4,5,6,7,8,9,10,11,12,13,14,15,0,1,2,3,4,5,6,7,8>>,
  xb3 |-> <<6,7,8,9,10,11,12,13,14,15,0,1,2,3,4,5,6,7,8,9,10,11,12,13,14,15,0,1,2,3,4,5,6,7,8,9,10,11,12,13,14,15,0,1,2,3,4,5>>,
  xc  |-> <<8,7,6,5,4,3,2,1,0,15,14,13,12,11,10,9,8,7,6,5,4,3,2,1,0,15,14,13,12,11,10,9,8,7,6,5,4,3,2,1,0,15,14,13,12,11,10,9>>,
  xm  |-> <<0,1,2,3,4,5,6,7,8,9,10,11,12,13,14,15,0,1,2,3,4,5,6,7,8,9,10,11,12,13,14,15,0,1,2,3,4,5,6,7,8,9,10,11,12,13,14,15>>,
  a   |-> <<11,10,9,8,7,6,5,4,3,2,1,0,11,10,9,8,7,6,5,4,3,2,1,0,11,10,9,8,7,6,5,4,3,2,1,0>>,
  c   |-> <<6,5,4,3,2,1,0,15,14,13,12,11,10,9,8,7,6,5,4,3,2,1,0,15,14,13,12,11,10,9,8,7,6,5,4,3>>]

LITE_AVX512 == [
  xa0 |-> <<0,1,2,3,4,5,6,7,8,9,10,11,0,1,2,3,4,5,6,7,8,9,10,11,0,1,2,3,4,5,6,7,8,9,10,11,0,1,2,3,4,5,6,7,8,9,10,11>>,
  xa1 |-> <<11,0,1,2,3,4,5,6,7,8,9,10,11,0,1,2,3,4,5,6,7,8,9,10,11,0,1,2,3,4,5,6,7,8,9,10,11,0,1,2,3,4,5,6,7,8,9,10>>,
  xb0 |-> <<0,1,2,3,4,5,6,7,8,9,10,11,12,13,14,15,0,1,2,3,4,5,6,7,8,9,10,11,12,13,14,15,0,1,2,3,4,5,6,7,8,9,10,11,12,13,14,15>>,
  xb1 |-> <<13,14,15,0,1,2,3,4,5,6,7,8,9,10,11,12,13,14,15,0,1,2,3,4,5,6,7,8,9,10,11,12,13,14,15,0,1,2,3,4,5,6,7,8,9,10,11,12>>,
  xb2 |-> <<9,10,11,12,13,14,15,0,1,2,3,4,5,6,7,8,9,10,11,12,13,14,15,0,1,2,3,4,5,6,7,8,9,10,11,12,13,14,15,0,1,2,3,4,5,6,7,8>>,
  xb3 |-> <<6,7,8,9,10,11,12,13,14,15,0,1,2,3,4,5,6,7,8,9,10,11,12,13,14,15,0,1,2,3,4,5,6,7,8,9,10,11,12,13,14,15,0,1,2,3,4,5>>,
  xc  |-> <<8,7,6,5,4,3,2,1,0,15,14,13,12,11,10,9,8,7,6,5,4,3,2,1,0,15,14,13,12,11,10,9,8,7,6,5,4,3,2,1,0,15,14,13,12,11,10,9>>,
  xm  |-> <<0,1,2,3,4,5,6,7,8,9,10,11,12,13,14,15,0,1,2,3,4,5,6,7,8,9,10,11,12,13,14,15,0,1,2,3,4,5,6,7,8,9,10,11,12,13,14,15>>,
  a   |-> <<11,10,9,8,7,6,5,4,3,2,1,0,11,10,9,8,7,6,5,4,3,2,1,0,11,10,9,8,7,6,5,4,3,2,1,0>>,
  c   |-> <<6,5,4,3,2,1,0,15,14,13,12,11,10,9,8,7,6,5,4,3,2,1,0,15,14,13,12,11,10,9,8,7,6,5,4,3>>]

LITE_NEON == [
  xa0 |-> <<0,1,2,3,4,5,6,7,8,9,10,11,0,1,2,3,4,5,6,7,8,9,10,11,0,1,2,3,4,5,6,7,8,9,10,11,0,1,2,3,4,5,6,7,8,9,10,11>>,
  xa1 |-> <<11,0,1,2,3,4,5,6,7,8,9,10,11,0,1,2,3,4,5,6,7,8,9,10,11,0,1,2,3,4,5,6,7,8,9,10,11,0,1,2,3,4,5,6,7,8,9,10>>,
  xb0 |-> <<0,1,2,3,4,5,6,7,8,9,10,11,12,13,14,15,0,1,2,3,4,5,6,7,8,9,10,11,12,13,14,15,0,1,2,3,4,5,6,7,8,9,10,11,12,13,14,15>>,
  xb1 |-> <<13,14,15,0,1,2,3,4,5,6,7,8,9,10,11,12,13,14,15,0,1,2,3,4,5,6,7,8,9,10,11,12,13,14,15,0,1,2,3,4,5,6,7,8,9,10,11,12>>,
  xb2 |-> <<9,10,11,12,13,14,15,0,1,2,3,4,5,6,7,8,9,10,11,12,13,14,15,0,1,2,3,4,5,6,7,8,9,10,11,12,13,14,15,0,1,2,3,4,5,6,7,8>>,
  xb3 |-> <<6,7,8,9,10,11,12,13,14,15,0,1,2,3,4,5,6,7,8,9,10,11,12,13,14,15,0,1,2,3,4,5,6,7,8,9,10,11,12,13,14,15,0,1,2,3,4,5>>,
  xc  |-> <<8,7,6,5,4,3,2,1,0,15,14,13,12,11,10,9,8,7,6,5,4,3,2,1,0,15,14,13,12,11,10,9,8,7,6,5,4,3,2,1,0,15,14,13,12,11,10,9>>,
  xm  |-> <<0,1,2,3,4,5,6,7,8,9,10,11,12,13,14,15,0,1,2,3,4,5,6,7,8,9,10,11,12,13,14,15,0,1,2,3,4,5,6,7,8,9,10,11,12,13,14,15>>,
  a   |-> <<11,10,9,8,7,6,5,4,3,2,1,0,11,10,9,8,7,6,5,4,3,2,1,0,11,10,9,8,7,6,5,4,3,2,1,0>>,
  c   |-> <<6,5,4,3,2,1,0,15,14,13,12,11,10,9,8,7,6,5,4,3,2,1,0,15,14,13,12,11,10,9,8,7,6,5,4,3>>]

\* The lists of each routine.
Written == [hash        |-> SCALAR,    lite        |-> SCALAR_DL,
            hash_sse2   |-> SSE2,      lite_sse2   |-> LITE_SSE2,
            hash_avx    |-> AVX,       lite_avx    |-> LITE_AVX,
            hash_avx2   |-> AVX2,      lite_avx2   |-> LITE_AVX2,
            hash_avx512 |-> AVX512,    lite_avx512 |-> LITE_AVX512,
            hash_neon   |-> NEON,      lite_neon   |-> LITE_NEON]

\* The published algorithm gives them by a rule.
PUBLISHED ==
    LET Of(count, f(_)) == [n \in 1 .. count |-> f(n - 1)] IN
    [xa0 |-> Of(48, LAMBDA i : i % 12), xa1 |-> Of(48, LAMBDA i : (i + 11) % 12),
     xb0 |-> Of(48, LAMBDA i : i % 16), xb1 |-> Of(48, LAMBDA i : (i + 13) % 16),
     xb2 |-> Of(48, LAMBDA i : (i + 9) % 16), xb3 |-> Of(48, LAMBDA i : (i + 6) % 16),
     xc |-> Of(48, LAMBDA i : (8 - i) % 16), xm |-> Of(48, LAMBDA i : i % 16),
     a |-> Of(36, LAMBDA i : i % 12), c |-> Of(36, LAMBDA i : (3 + i) % 16)]

\* Element n of a list.
perm_elt(a, b, c, m, lists, n) ==
    LET xa0 == lists.xa0[n] + 1
        xa1 == lists.xa1[n] + 1
        xb0 == lists.xb0[n] + 1
        xb1 == lists.xb1[n] + 1
        xb2 == lists.xb2[n] + 1
        xb3 == lists.xb3[n] + 1
        inner == Eor(Eor(a[xa0], Times5(Rotl(a[xa1], 15))), c[lists.xc[n] + 1])
        outer == Eor(Eor(Times3(inner), b[xb1]), Eor(AndNot(b[xb2], b[xb3]), m[lists.xm[n] + 1]))
    IN <<[a EXCEPT ![xa0] = outer], [b EXCEPT ![xb0] = Complement(Eor(Rotl(b[xb0], 1), outer))]>>

\* <<a, b>> after all elements.
perm(a, b, c, m, lists) ==
    LET After[n \in 0 .. 48] ==
            IF n = 0 THEN <<a, b>> ELSE LET ab == After[n - 1] IN perm_elt(ab[1], ab[2], c, m, lists, n)
    IN After[48]

\* a, with three words of c added to each of its own.
PlusC(a, c, lists) ==
    LET After[n \in 0 .. 36] ==
            IF n = 0 THEN a ELSE [After[n - 1] EXCEPT ![lists.a[n] + 1] = Add(@, c[lists.c[n] + 1])]
    IN After[36]

apply_p(lists, lane, m) ==
    LET ab == perm(lane.a, Each(LAMBDA j : Rotl(lane.b[j], 17)), lane.c, m, lists)
    IN [a |-> PlusC(ab[1], lane.c, lists), b |-> ab[2], c |-> lane.c]

-----------------------------------------------------------------------------
(* What the rounds are made of, for one lane and its block m.                *)

input_block_add(lane, m) == [lane EXCEPT !.b = Each(LAMBDA j : Add(lane.b[j], m[j]))]
input_block_sub(lane, m) == [lane EXCEPT !.c = Each(LAMBDA j : Minus(lane.c[j], m[j]))]
xor_w(lane, n) == [lane EXCEPT !.a[1] = Eor(lane.a[1], n[1]), !.a[2] = Eor(lane.a[2], n[2])]
swap_bc(lane) == [lane EXCEPT !.b = lane.c, !.c = lane.b]
incr_w(n) ==
    LET low == Add(n[1], One) IN <<low, IF low = Zero THEN Add(n[2], One) ELSE n[2]>>
DecrW(n) ==
    LET low == Minus(n[1], One) IN <<low, IF n[1] = Zero THEN Minus(n[2], One) ELSE n[2]>>

\* A block that is not the last.
Absorb(lists, lane, m, n) == swap_bc(input_block_sub(apply_p(lists, xor_w(input_block_add(lane, m), n), m), m))

\* The last block: once, and three times more.
LastBlock(lists, lane, m, n) == apply_p(lists, xor_w(input_block_add(lane, m), n), m)

\* Mutant: the last block is added each time.
AgainAdded(lists, lane, m, n) == apply_p(lists, xor_w(input_block_add(swap_bc(lane), m), n), m)
Again(lists, lane, m, n) == apply_p(lists, xor_w(swap_bc(lane), n), m)

\* Any block in the vector routine of qualities, which subtracts while it swaps.
mshabal_quality_round(lists, lane, m, n) ==
    LET p == apply_p(lists, xor_w(input_block_add(lane, m), n), m)
    IN [p EXCEPT !.b = Each(LAMBDA j : Minus(p.c[j], m[j])), !.c = p.b]

-----------------------------------------------------------------------------
(* The messages of V lanes, in buffers of whole registers: word j of all     *)
(* lanes, then the next word of all lanes.                                   *)

WordAt(V, x) == (x - 1) \div V
LaneAt(V, x) == (x - 1) % V

\* The block of lane k of a buffer.
Load(V, buffer, k) == [j \in 1 .. 16 |-> buffer[(j - 1) * V + k]]

\* How the callers lay out the blocks of their lanes.
Interleaved(V, blocks) == [x \in 1 .. 16 * V |-> blocks[LaneAt(V, x) + 1][WordAt(V, x) + 1]]

Blocks(input) == input.data \o input.pre \o <<input.term>>

\* gensig goes to every lane, the first half of each scoop to its own.
prepare_message_round1(V, gensig, scoops) ==
    [x \in 1 .. 16 * V |-> IF WordAt(V, x) < 8 THEN gensig[WordAt(V, x) + 1]
                           ELSE scoops[16 * LaneAt(V, x) + WordAt(V, x) - 8 + 1]]

\* The second half of each scoop, and the padding.
prepare_message_termination(V, scoops) ==
    [x \in 1 .. 16 * V |-> CASE WordAt(V, x) < 8 -> scoops[16 * LaneAt(V, x) + 8 + WordAt(V, x) + 1]
                             [] WordAt(V, x) = 8 -> <<0, 128>>
                             [] OTHER            -> Zero]

-----------------------------------------------------------------------------
(* The calls.                                                                *)

Idle == [call |-> "none"]

Init ==
    /\ job = Idle
    /\ lanes = << >> /\ w = <<One, Zero>> /\ round = 0 /\ target = << >> /\ plain = << >>

\* A call of V lanes, the blocks of which are in buffers.
Call(call, V, buffers, inputs) ==
    /\ job = Idle
    /\ job' = [call |-> call, V |-> V, buffers |-> buffers, inputs |-> inputs]
    /\ lanes' = [k \in 1 .. V |-> [a |-> A_INIT, b |-> B_INIT, c |-> C_INIT]]
    /\ plain' = lanes'
    /\ w' = <<One, Zero>>
    /\ round' = 0
    /\ UNCHANGED target

\* The inputs of V lanes, one after the other from one of the alike on.
LanesFrom(V, alike, x) == [k \in 1 .. V |-> alike[((x + k - 2) % Len(alike)) + 1]]

Hash(call, V) ==
    \E g \in DOMAIN HashInputs : \E x \in DOMAIN HashInputs[g] :
        LET ins == LanesFrom(V, HashInputs[g], x) IN
        Call(call, V, [m \in DOMAIN Blocks(ins[1]) |-> Interleaved(V, [k \in 1 .. V |-> Blocks(ins[k])[m]])], ins)

shabal256        == Hash("hash", 1)
shabal256_sse2   == Hash("hash_sse2", AVX_VECTOR_SIZE)
shabal256_avx    == Hash("hash_avx", AVX_VECTOR_SIZE)
shabal256_avx2   == Hash("hash_avx2", AVX2_VECTOR_SIZE)
shabal256_avx512 == Hash("hash_avx512", AVX512_VECTOR_SIZE)
shabal256_neon   == Hash("hash_neon", AVX_VECTOR_SIZE)

\* One scoop: the halves of its blocks are read where they lie.
shabal256_lite ==
    \E g \in DOMAIN QualityInputs : \E x \in DOMAIN QualityInputs[g] :
        LET in == QualityInputs[g][x] IN
        Call("lite", 1, <<in.gensig \o SubSeq(in.scoop, 1, 8),
                          SubSeq(in.scoop, 9, 16) \o <<<<0, 128>>>> \o [j \in 1 .. 7 |-> Zero]>>, <<in>>)

\* The scoops of V nonces with one generation signature.
Quality(call, V) ==
    \E g \in DOMAIN QualityInputs : \E x \in DOMAIN QualityInputs[g] :
        LET ins == LanesFrom(V, QualityInputs[g], x)
            scoops == FlattenSeq([k \in 1 .. V |-> ins[k].scoop])
        IN Call(call, V, <<prepare_message_round1(V, ins[1].gensig, scoops),
                           prepare_message_termination(V, scoops)>>, ins)

shabal256_lite_sse2   == Quality("lite_sse2", AVX_VECTOR_SIZE)
shabal256_lite_avx    == Quality("lite_avx", AVX_VECTOR_SIZE)
shabal256_lite_avx2   == Quality("lite_avx2", AVX2_VECTOR_SIZE)
shabal256_lite_avx512 == Quality("lite_avx512", AVX512_VECTOR_SIZE)
shabal256_lite_neon   == Quality("lite_neon", AVX_VECTOR_SIZE)

VectorLite == {"lite_sse2", "lite_avx", "lite_avx2", "lite_avx512", "lite_neon"}

Running == job # Idle /\ target = << >>
Final   == Len(job.buffers)     \* the round of the last block, the first of four
Done    == round = Final + 3

\* The message of a lane: for a quality it is the signature, the scoop, and the
\* padding of 96 bytes.
Message(in) ==
    IF "term" \in DOMAIN in THEN Blocks(in)
    ELSE <<in.gensig \o SubSeq(in.scoop, 1, 8),
           SubSeq(in.scoop, 9, 16) \o <<<<0, 128>>>> \o [j \in 1 .. 7 |-> Zero]>>

\* The published algorithm, with its own lists: all rounds are alike, the last block comes four times,
\* always with the count it has.
PlainRound ==
    plain' = [k \in DOMAIN plain |->
                LET m == IF round < Final THEN round + 1 ELSE Final
                IN Absorb(PUBLISHED, plain[k], Message(job.inputs[k])[m], <<<<0, m>>, Zero>>)]

\* A round of every lane, with its block m.
Lanes(step(_, _, _, _), m) ==
    /\ lanes' = [k \in DOMAIN lanes |-> step(Written[job.call], lanes[k], Load(job.V, job.buffers[m], k), w)]
    /\ PlainRound
    /\ round' = round + 1

\* A block in front of the last.
DataRound ==
    /\ Running /\ job.call \notin VectorLite /\ round < Final - 1
    /\ Lanes(Absorb, round + 1)
    /\ w' = incr_w(w)
    /\ UNCHANGED <<job, target>>

LastRound ==
    /\ Running /\ job.call \notin VectorLite /\ round = Final - 1
    /\ Lanes(LastBlock, Final)
    /\ UNCHANGED <<job, w, target>>

AgainRound ==
    /\ Running /\ job.call \notin VectorLite /\ round \in Final .. Final + 2
    /\ Lanes(Again, Final)
    /\ UNCHANGED <<job, w, target>>

\* A round of a vector routine of qualities; the count is undone in the last four.
QualityRound ==
    /\ Running /\ job.call \in VectorLite /\ ~Done
    /\ Lanes(mshabal_quality_round, IF round = 0 THEN 1 ELSE 2)
    /\ w' = IF round = 0 THEN incr_w(w) ELSE DecrW(incr_w(w))
    /\ UNCHANGED <<job, target>>

\* Words 8 and up of b, 8 for a hash and 2 for a quality; the vector routines of
\* qualities have swapped once more and take them from c.
Return ==
    /\ Running /\ Done
    /\ target' = LET words == IF job.call \in {"lite"} \cup VectorLite THEN 2 ELSE 8 IN
                 [x \in 1 .. words * job.V |->
                    LET lane == lanes[LaneAt(job.V, x) + 1]
                    IN (IF job.call \in VectorLite THEN lane.c ELSE lane.b)[9 + WordAt(job.V, x)]]
    /\ UNCHANGED <<job, lanes, w, round, plain>>

Calls ==
    \/ shabal256 \/ shabal256_sse2 \/ shabal256_avx \/ shabal256_avx2 \/ shabal256_avx512 \/ shabal256_neon
    \/ shabal256_lite \/ shabal256_lite_sse2 \/ shabal256_lite_avx \/ shabal256_lite_avx2
    \/ shabal256_lite_avx512 \/ shabal256_lite_neon

Next == Calls \/ DataRound \/ LastRound \/ AgainRound \/ QualityRound \/ Return

Spec == Init /\ [][Next]_vars

-----------------------------------------------------------------------------
(* What the calls are for.                                                   *)

Returned == target # << >>
Qualities == {"lite"} \cup VectorLite

\* What lane k returned.
Words(k) == [i \in 1 .. Len(target) \div job.V |-> target[(i - 1) * job.V + k]]

Known(blocks, words) == \A p \in Published : p.blocks = blocks => p.words = words

\* Every routine for hashes, scalar or vector, given its blocks in any of the
\* forms it takes them in, returns in each lane the digest of that lane's message,
\* and the published one where there is one.
HashesRight ==
    Returned /\ job.call \notin Qualities =>
        \A k \in 1 .. job.V :
            /\ Words(k) = SubSeq(plain[k].c, 9, 16)
            /\ Known(Message(job.inputs[k]), Words(k))

\* Every routine for qualities, scalar or vector, returns in each lane the first
\* eight bytes of the hash of the signature and of that lane's scoop.
QualitiesRight ==
    Returned /\ job.call \in Qualities =>
        \A k \in 1 .. job.V :
            /\ Words(k) = SubSeq(plain[k].c, 9, 10)
            /\ Known(Message(job.inputs[k]), Words(k))

=============================================================================
