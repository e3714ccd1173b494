---------------------------- MODULE PlotDirectory ----------------------------
(***************************************************************************)
(* What plotting promises about a set of plot files, whatever pipeline      *)
(* produces them and however often it is interrupted: the warps of a file   *)
(* are written front to back, a file is finished only when all of them are, *)
(* a finished file stays as it is, and an interruption loses the progress   *)
(* of a file only while its last chunk of warps was being written.          *)
(***************************************************************************)
EXTENDS Integers

CONSTANTS
    Files,          \* all files that may come to exist
    Size,           \* Size[f]: warps of file f, at least one
    Chunk           \* warps written at once, at most: at least one

VARIABLES
    progress,       \* progress[f]: f holds its first progress[f] warps
    finished        \* the files that are finished

dirVars == <<progress, finished>>

DirTypeOK ==
    /\ progress \in [Files -> Nat]
    /\ \A f \in Files : progress[f] <= Size[f]
    /\ finished \subseteq Files

DirInit ==
    /\ progress = [f \in Files |-> 0]
    /\ finished = {}

\* The next warps of f, at most a chunk of them, are written.
Extend(f) ==
    /\ f \notin finished
    /\ \E m \in progress[f] + 1 .. progress[f] + Chunk :
         /\ m <= Size[f]
         /\ progress' = [progress EXCEPT ![f] = m]
    /\ UNCHANGED finished

Finish(f) ==
    /\ f \notin finished
    /\ progress[f] = Size[f]
    /\ finished' = finished \cup {f}
    /\ UNCHANGED progress

Begun == {f \in Files \ finished : progress[f] > 0}

\* Files whose last chunk was being written start over.
Lose(F) ==
    /\ \A f \in F : /\ progress[f] < Size[f]
                    /\ Size[f] - progress[f] <= Chunk
    /\ progress' = [f \in Files |-> IF f \in F THEN 0 ELSE progress[f]]
    /\ UNCHANGED finished

DirNext ==
    \/ \E f \in Files : Extend(f) \/ Finish(f)
    \/ \E F \in SUBSET Begun : Lose(F)

DirSpec == DirInit /\ [][DirNext]_dirVars

=============================================================================
