------------------------------ MODULE MCShabal ------------------------------
(* The messages of the tests of pocx_hashlib, and some more, in all lanes.   *)
EXTENDS Shabal

Zeros(n) == [j \in 1 .. n |-> Zero]

TermA == <<<<0, 128>>>> \o Zeros(15)

B1 == << <<\h6463, \h6261>>, <<\h6867, \h6665>>, <<\h6C6B, \h6A69>>, <<\h706F, \h6E6D>>,
         <<\h7473, \h7271>>, <<\h7877, \h7675>>, <<\h302D, \h7A79>>, <<\h3433, \h3231>>,
         <<\h3837, \h3635>>, <<\h4241, \h2D39>>, <<\h4645, \h4443>>, <<\h4A49, \h4847>>,
         <<\h4E4D, \h4C4B>>, <<\h5251, \h504F>>, <<\h5655, \h5453>>, <<\h5A59, \h5857>> >>
B2 == << <<\h3231, \h302D>>, <<\h3635, \h3433>>, <<\h2D39, \h3837>>, <<\h6463, \h6261>>,
         <<\h6867, \h6665>>, <<\h6C6B, \h6A69>>, <<\h706F, \h6E6D>>, <<\h7473, \h7271>>,
         <<\h7877, \h7675>>, <<\h0080, \h7A79>> >> \o Zeros(6)

DigestA == << <<\hC008, \h8FDA>>, <<\h9ABA, \h672A>>, <<\h79D0, \hBD56>>, <<\h07AE, \h488E>>,
              <<\h095E, \h2114>>, <<\h0685, \h5B3B>>, <<\h1877, \hA349>>, <<\hA254, \h3F99>> >>
DigestB == << <<\hBF34, \h9FB4>>, <<\h304C, \h8651>>, <<\h6CC4, \h3C53>>, <<\hDE2B, \h54C2>>,
              <<\hD06F, \hF9C2>>, <<\h9A53, \h5C6F>>, <<\h58AD, \h6EFF>>, <<\h7A32, \hF783>> >>

\* A nonce's first hash has no block but the last, its other hashes have a block
\* before the last or none, and some hashes are of several blocks.
MCHashInputs ==
    << << [data |-> <<Zeros(16)>>, pre |-> << >>, term |-> TermA],
          [data |-> <<B1>>, pre |-> << >>, term |-> B2],
          [data |-> <<B2>>, pre |-> << >>, term |-> TermA] >>,
       << [data |-> << >>, pre |-> << >>, term |-> B2], [data |-> << >>, pre |-> << >>, term |-> TermA] >>,
       << [data |-> << >>, pre |-> <<B1>>, term |-> B2], [data |-> << >>, pre |-> <<Zeros(16)>>, term |-> TermA] >>,
       << [data |-> <<B1, B2>>, pre |-> <<B2>>, term |-> TermA],
          [data |-> <<B2, B1>>, pre |-> <<B1>>, term |-> B1] >> >>

SigD == << <<\h6E68, \h6F4A>>, <<\h4646, \h796E>>, <<\h6168, \h204D>>, <<\h6564, \h2074>>,
           <<\h7267, \h206E>>, <<\h6574, \hDFF6>>, <<\h6550, \h206E>>, <<\h2173, \h696E>> >>

MCQualityInputs ==
    << << [gensig |-> Zeros(8), scoop |-> Zeros(16)], [gensig |-> Zeros(8), scoop |-> B1],
          [gensig |-> Zeros(8), scoop |-> B2] >>,
       << [gensig |-> SigD, scoop |-> Zeros(16)], [gensig |-> SigD, scoop |-> B2] >> >>

MCPublished ==
    { [blocks |-> <<Zeros(16), TermA>>, words |-> DigestA],
      [blocks |-> <<B1, B2>>, words |-> DigestB],
      [blocks |-> <<Zeros(16), Zeros(8) \o <<<<0, 128>>>> \o Zeros(7)>>,
       words |-> <<<<\h62CD, \h4F2F>>, <<\h9824, \hD76D>>>>],
      [blocks |-> <<SigD \o Zeros(8), Zeros(8) \o <<<<0, 128>>>> \o Zeros(7)>>,
       words |-> <<<<\h774F, \h5A6A>>, <<\h2ACE, \hA174>>>>] }
=============================================================================
