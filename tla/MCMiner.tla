------------------------------ MODULE MCMiner ------------------------------
(* Small instances of Miner for TLC.                                         *)
EXTENDS Miner

\* The chains that mine less than all plots leave out these.
Setup(reads, left_out, news, fails, ends) ==
    [disks |-> Len(reads), reads |-> reads, blocks |-> news, errors |-> fails, stops |-> ends,
     mineable |-> [c \in Chains |-> {<<d, i>> \in (1 .. Len(reads)) \X (1 .. 2) :
                                       i <= Len(reads[d]) /\ <<c, i>> \notin left_out}]]

\* Two blocks of each chain on a disk with two plots, the first of which is not
\* for the first chain; and one block of each on two disks, with a shutdown.
OneDiskOrTwo == {Setup(<< <<1, 2>> >>, {<<0, 1>>}, 2, TRUE, FALSE),
                 Setup(<< <<2>>, <<2>> >>, {}, 1, TRUE, TRUE)}

\* One disk with one plot: for both chains, for the second one only, and with
\* a shutdown.
OnePlot      == {Setup(<< <<2>> >>, {}, 1, FALSE, FALSE)}
NoneForFirst == {Setup(<< <<2>> >>, {<<0, 1>>}, 2, FALSE, FALSE)}
OnePlotStops == {Setup(<< <<2>> >>, {}, 1, FALSE, TRUE)}
=============================================================================
