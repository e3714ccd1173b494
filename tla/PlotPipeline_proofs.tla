-------------------------- MODULE PlotPipeline_proofs --------------------------
(***************************************************************************)
(* Proofs about PlotPipeline, for every number of paths, files, warps,      *)
(* passes, buffers, runs, kills, stops and I/O errors: what plot files      *)
(* hold, what a run that returns Ok has done, and that the pipeline         *)
(* implements PlotDirectory.                                                *)
(***************************************************************************)
EXTENDS PlotPipeline, WellFoundedInduction, FiniteSetTheorems, TLAPS

-----------------------------------------------------------------------------
(* Numbers. *)

\* A set of naturals has a least element.
LEMMA LeastNat ==
  ASSUME NEW T \in SUBSET Nat, T # {}
  PROVE  \E x \in T : \A y \in T : x <= y
<1>1. \A x, y \in Nat : <<x, y>> \in OpToRel(<, Nat) <=> x < y
  BY DEF OpToRel
<1>2. \E x \in T : \A y \in T : ~ (<<y, x>> \in OpToRel(<, Nat))
  BY WFMin, NatLessThanWellFounded, Zenon
<1>3. \E x \in T : \A y \in T : ~ (y < x)
  BY <1>1, <1>2, Zenon
<1> QED
  BY <1>3

-----------------------------------------------------------------------------
(* Types. *)

Datas(n) == [0 .. n - 1 -> Contents]

Tasks ==
    {NoTask, EndTask} \cup [type : {"finalize"}, seed : SeedIds]
    \cup UNION {[type : {"process"}, seed : SeedIds, start : Nat, n : {n}, data : Datas(n)] :
                    n \in 1 .. Escalate}

Tmps(p) == [size : {"none", "empty", "full"}, marker : {NoMarker} \cup (0 .. Warps[p]),
            data : Datas(Warps[p])]

GivenSeeds == SeedIds \cup {<<0, 0>>}

SchedTypes ==
    /\ pc \in {"down", "hash", "compress", "flush", "drain", "end", "done"}
    /\ path \in Paths
    /\ seeds \in [Paths -> GivenSeeds]
    /\ warpOffset \in [Paths -> Nat]
    /\ \A p \in Paths : warpOffset[p] <= Warps[p]
    /\ filesDone \in [Paths -> Nat]
    /\ \A p \in Paths : filesDone[p] <= Plots[p]
    /\ nonces \in [Paths -> Nat]
    /\ pass \in 0 .. Passes - 1
    /\ held \in BOOLEAN
    /\ slots \in Datas(Escalate)
    /\ inBuffer \in 0 .. Escalate
    /\ bufStart \in Nat
    /\ bufPath \in Paths
    /\ endTo \in Paths
    /\ stop \in BOOLEAN

QueueTypes ==
    /\ pool \in Nat
    /\ DOMAIN queue = Paths
    /\ \A p \in Paths : queue[p] \in Seq(Tasks) /\ Len(queue[p]) <= NumBuffers

WriterTypes ==
    /\ wpc \in [Paths -> {"recv", "open", "alloc", "mark0", "write", "last",
                          "marker", "rename", "finalize", "ended", "failed"}]
    /\ wtask \in [Paths -> Tasks]

ProcTypes ==
    /\ job \in Jobs
    /\ run \in 0 .. MaxRuns
    /\ firstSeed \in [Paths -> GivenSeeds]
    /\ pc # "down" => run > 0 /\ firstSeed \in [Paths -> SeedIds]
    /\ result \in {"none", "ok", "err", "killed"}
    /\ faults \in 0 .. job.faults

DiskTypes ==
    /\ DOMAIN tmp = Files /\ DOMAIN pocx = Files /\ tmp = [f \in Files |-> tmp[f]]
    /\ \A f \in Files : /\ tmp[f] \in Tmps(f[1])
                        /\ pocx[f] = NoPocx \/ pocx[f] \in Tmps(f[1])

Types == SchedTypes /\ QueueTypes /\ WriterTypes /\ ProcTypes /\ DiskTypes

-----------------------------------------------------------------------------
(* The invariant. *)

\* The k-th file that the run plots into path p.
SeedOf(p, k) == IF k = 1 THEN firstSeed[p] ELSE <<run, k>>

\* A position of path p is the number of a file and of a warp in it.  Behind
\* the last warp of a file the next one begins.
Positions == (Nat \ {0}) \X Nat
After(p, k, w) == IF w = Warps[p] THEN <<k + 1, 0>> ELSE <<k, w>>

\* Task t, met at position a, takes path p to position b: it holds the right
\* warps, from there on.
Takes(p, a, t, b) ==
    \/ /\ t.type = "process"
       /\ a[1] <= Plots[p]
       /\ t.seed = SeedOf(p, a[1])
       /\ t.start = a[2]
       /\ t.start + t.n <= Warps[p]
       /\ \A i \in 0 .. t.n - 1 : t.data[i] = Right(t.seed, t.start + i)
       /\ b = After(p, a[1], t.start + t.n)
    \/ /\ t.type = "finalize"
       /\ t.seed = firstSeed[p]
       /\ a[1] >= 2
       /\ b = a
    \/ /\ t.type \in {"none", "end"}
       /\ b = a

\* Nobody has created f yet.
Untouched(f) == tmp[f].size = "none" /\ pocx[f] = NoPocx

\* The files of path p are on disk up to position a.
DiskAt(p, a) ==
    /\ \A j \in 1 .. Plots[p] : j < a[1] => AllWarpsWritten(p, SeedOf(p, j))
    /\ a[1] <= Plots[p] =>
        LET f == <<p, SeedOf(p, a[1])>> IN
        /\ a[2] < Warps[p]
        /\ pocx[f] = NoPocx
        /\ wpc[p] = "marker" \/ ResumeInfo(p, tmp[f]) = a[2]
    /\ \A j \in 2 .. Plots[p] : j > a[1] => Untouched(<<p, <<run, j>> >>)

\* What the writer of p has still to do for its position.
Work(p) == IF wpc[p] = "rename" THEN NoTask ELSE wtask[p]

\* Up to where the scheduler has sent the warps of path p.
Sent(p) ==
    <<filesDone[p] + 1,
      IF filesDone[p] >= Plots[p] THEN 0
      ELSE IF held /\ p = bufPath THEN bufStart ELSE warpOffset[p]>>

\* Disk, writer, channel and scheduler meet without a gap or an overlap.
Chain(p) ==
    \E pos \in [0 .. Len(queue[p]) + 1 -> Positions] :
        /\ DiskAt(p, pos[0])
        /\ Takes(p, pos[0], Work(p), pos[1])
        /\ \A i \in 1 .. Len(queue[p]) : Takes(p, pos[i], queue[p][i], pos[i + 1])
        /\ pos[Len(queue[p]) + 1] = Sent(p)

Chains == pc # "down" => \A p \in Paths : wpc[p] # "failed" => Chain(p)

\* The batches that the passes so far have XORed into the warp under way.
Batches(s, a, b) == {s} \X (a .. b)
Partial == Batches(seeds[path], warpOffset[path] * Passes, warpOffset[path] * Passes + pass - 1)

\* The write buffer holds the warps before the scheduler's position.
BufferRight ==
    held =>
        /\ bufPath = path
        /\ filesDone[path] < Plots[path]
        /\ bufStart + inBuffer = warpOffset[path]
        /\ pc \in {"hash", "compress"} => inBuffer < Escalate
        /\ \A i \in 0 .. inBuffer - 1 : slots[i] = Right(seeds[path], bufStart + i)
        /\ pass > 0 => slots[inBuffer] = Partial

\* Without a buffer nothing is under way, except that the count stays when the
\* buffer of a failed writer is dropped.
NoBuffer ==
    ~held => /\ pc \in {"hash", "compress", "flush"} => pass = 0
             /\ inBuffer > 0 => stop /\ pc \notin {"compress", "flush"}

Active(p) == filesDone[p] < Plots[p]

\* The scheduler's place in the files.
Place ==
    pc # "down" =>
        /\ pc = "hash" => Active(path) \/ AllDone
        /\ pc \in {"compress", "flush"} => Active(path)
        /\ pc = "flush" => held /\ inBuffer > 0 /\ pass = 0
        /\ pc \in {"drain", "end", "done"} => AllDone \/ stop
        /\ \A p \in Paths : Active(p) =>
            /\ seeds[p] = SeedOf(p, filesDone[p] + 1)
            /\ warpOffset[p] < Warps[p] \/ (pc = "flush" /\ p = path)
            /\ nonces[p] = warpOffset[p] * Passes
                   + (IF p = path THEN pass + (IF pc = "compress" THEN 1 ELSE 0) ELSE 0)

\* EndTask is the last task of a channel, and ends the writer.
Ended(p) == pc = "done" \/ (pc = "end" /\ p < endTo)

OwnEnding(p) ==
    /\ \A i \in DOMAIN queue[p] : /\ queue[p][i].type # "none"
                                  /\ queue[p][i].type = "end" => i = Len(queue[p]) /\ Ended(p)
    /\ wpc[p] = "ended" => queue[p] = <<>> /\ Ended(p)
    /\ wpc[p] = "failed" => queue[p] = <<>>

Ending == pc # "down" => \A p \in Paths : OwnEnding(p)

\* Why the loop was left.
Stopping ==
    /\ pc # "down" => result = "none"
    /\ pc # "down" /\ stop /\ ~job.stops => \E p \in Paths : wpc[p] = "failed"

\* What a writer knows of its file.
WriterRight(p) ==
    LET t == wtask[p]
        f == tmp[FileOf(p)]
    IN
    /\ wpc[p] \in {"recv", "ended", "failed"} => t = NoTask
    /\ wpc[p] = "finalize" => t.type = "finalize"
    /\ wpc[p] \in {"open", "alloc", "mark0", "write", "last", "marker", "rename"} => t.type = "process"
    /\ wpc[p] = "alloc" => f.size = "empty"
    /\ wpc[p] = "mark0" => f.size = "full" /\ f.marker = NoMarker
    /\ wpc[p] = "write" => f.size # "none"
    /\ wpc[p] \in {"last", "marker", "rename"} => f.size = "full"
    /\ wpc[p] = "last" => ResumeInfo(p, f) = t.start
    /\ wpc[p] = "marker" =>
        /\ \A w \in 0 .. t.start + t.n - 1 : f.data[w] = Right(t.seed, w)
        /\ IF t.start + t.n = Warps[p] THEN f.marker = NoMarker ELSE ResumeInfo(p, f) = t.start
    /\ wpc[p] = "rename" => f.marker = Warps[p]

Writers == \A p \in Paths : WriterRight(p)

\* The seeds of the run are its own, but for those of the files it resumes.
Seeds ==
    /\ pc # "down" => \A p \in Paths : firstSeed[p] = <<run, 1>> \/ firstSeed[p][1] < run
    /\ \A f \in Files : f[2][1] > run => Untouched(f)

\* A file has one name, and a marker only when it has its size.
FileOK(f) ==
    /\ pocx[f] # NoPocx => tmp[f].size = "none"
    /\ HasMarker(tmp[f]) => tmp[f].size = "full"

\* A file this run has begun, other than the first, has its size.
Unsized ==
    pc # "down" =>
        \A p \in Paths : \A j \in 2 .. Plots[p] :
            tmp[<<p, <<run, j>> >>].size = "empty" =>
                \/ wpc[p] = "alloc" /\ wtask[p].seed = <<run, j>>
                \/ faults > 0

NoProcess ==
    pc = "down" =>
        \A p \in Paths : queue[p] = <<>> /\ wtask[p] = NoTask /\ wpc[p] = "ended"

SchedulerRight == BufferRight /\ NoBuffer /\ Place

FilesOK == \A f \in Files : FileOK(f)

DiskRight ==
    /\ FilesOK /\ Writers /\ Seeds /\ Unsized /\ NoProcess
    /\ MarkerCoversWarps /\ FinishedIsRight /\ OkMeansWritten
    /\ WriterFailsOnUnsizedFileOnly

IInv == Types /\ SchedulerRight /\ Ending /\ Stopping /\ Chains /\ DiskRight

-----------------------------------------------------------------------------
(* The operators. *)

LEMMA JobFacts ==
  ASSUME job \in Jobs
  PROVE  /\ NumPaths \in 1 .. MaxPaths /\ 0 \in Paths /\ Paths \subseteq Nat
         /\ Plots \in [Paths -> 1 .. MaxPlots]
         /\ Passes \in Nat \ {0} /\ Escalate \in Nat \ {0} /\ NumBuffers \in Nat \ {0}
         /\ \A p \in Paths : Warps[p] \in Nat \ {0} /\ p \in 0 .. MaxPaths - 1
         /\ MaxPlots \in Nat \ {0} /\ MaxRuns \in Nat /\ job.faults \in Nat
<1>1. JobOK(job) /\ MaxPaths \in Nat \ {0}
  BY PipelineAssumption
<1>2. NumPaths \in 1 .. MaxPaths /\ Plots \in [0 .. NumPaths - 1 -> 1 .. MaxPlots]
      /\ Passes \in Nat \ {0} /\ job.faults \in Nat
  BY <1>1 DEF JobOK, NumPaths, Plots, Passes
<1>3. Paths \subseteq 0 .. MaxPaths - 1 /\ 0 \in Paths
  BY <1>1, <1>2 DEF Paths
<1>4. NumBuffers \in Nat \ {0}
  BY <1>2 DEF NumBuffers
<1> QED
  BY <1>1, <1>2, <1>3, <1>4, PipelineAssumption DEF Paths

\* Files of the paths.
LEMMA FileFacts ==
  ASSUME job \in Jobs, NEW p \in Paths, NEW s \in SeedIds
  PROVE  <<p, s>> \in Files /\ <<p, s>>[1] = p /\ <<p, s>>[2] = s
BY JobFacts DEF Files

\* If a path has files left, so has the next one.
LEMMA NextActiveRight ==
  ASSUME job \in Jobs, NEW p \in Paths, NEW done
  PROVE  /\ NextActive(p, done) \in Paths
         /\ (\E q \in Paths : done[q] < Plots[q]) =>
               done[NextActive(p, done)] < Plots[NextActive(p, done)]
<1> DEFINE later == {i \in 1 .. NumPaths :
                       done[(p + i) % NumPaths] < Plots[(p + i) % NumPaths]}
<1>1. NumPaths \in Nat \ {0} /\ p \in 0 .. NumPaths - 1
  BY JobFacts DEF Paths
<1>2. \A i \in 1 .. NumPaths : (p + i) % NumPaths \in Paths
  BY <1>1 DEF Paths
<1>3. ASSUME NEW q \in Paths, done[q] < Plots[q] PROVE later # {}
  <2>1. q \in 0 .. NumPaths - 1
    BY DEF Paths
  <2>2. CASE q > p
    <3>1. q - p \in 1 .. NumPaths /\ (p + (q - p)) % NumPaths = q
      BY <1>1, <2>1, <2>2
    <3> QED
      BY <1>3, <3>1
  <2>3. CASE q <= p
    <3>1. q - p + NumPaths \in 1 .. NumPaths /\ p + (q - p + NumPaths) = q + NumPaths
      BY <1>1, <2>1, <2>3
    <3>2. (q + NumPaths) % NumPaths = q
      BY <1>1, <2>1
    <3> QED
      BY <1>3, <3>1, <3>2
  <2> QED
    BY <1>1, <2>1, <2>2, <2>3
<1>4. CASE later = {}
  BY <1>3, <1>4 DEF NextActive
<1>5. CASE later # {}
  <2>1. later \in SUBSET Nat
    OBVIOUS
  <2>2. PICK i \in later : \A j \in later : i <= j
    BY <1>5, <2>1, LeastNat
  <2>3. (CHOOSE k \in later : \A j \in later : k <= j) \in later
    BY <2>2
  <2>4. PICK k \in later : NextActive(p, done) = (p + k) % NumPaths
    BY <1>5, <2>3 DEF NextActive
  <2> QED
    BY <1>2, <2>4
<1> QED
  BY <1>4, <1>5

LEMMA FirstActiveRight ==
  ASSUME job \in Jobs, NEW done
  PROVE  /\ FirstActive(done) \in Paths
         /\ (\E q \in Paths : done[q] < Plots[q]) => done[FirstActive(done)] < Plots[FirstActive(done)]
<1> DEFINE active == {p \in Paths : done[p] < Plots[p]}
<1>1. 0 \in Paths /\ Paths \in SUBSET Nat
  BY JobFacts
<1>2. CASE done[0] < Plots[0] \/ active = {}
  BY <1>1, <1>2 DEF FirstActive
<1>3. CASE ~(done[0] < Plots[0] \/ active = {})
  <2>1. active \in SUBSET Nat /\ active # {}
    BY <1>1, <1>3
  <2>2. \E p \in active : \A q \in active : p <= q
    BY <2>1, LeastNat
  <2>3. (CHOOSE p \in active : \A q \in active : p <= q) \in active
    BY <2>2
  <2> QED
    BY <1>3, <2>3 DEF FirstActive
<1> QED
  BY <1>2, <1>3

\* What a task is, by its type.
LEMMA TaskFacts ==
  ASSUME NEW t \in Tasks
  PROVE  /\ t.type \in {"none", "end", "finalize", "process"}
         /\ t.type = "none" <=> t = NoTask
         /\ t.type = "end" <=> t = EndTask
         /\ t.type = "finalize" => t.seed \in SeedIds
         /\ t.type = "process" => /\ t.seed \in SeedIds /\ t.start \in Nat /\ t.n \in 1 .. Escalate
                                  /\ t.data \in Datas(t.n)
BY DEF Tasks, NoTask, EndTask

LEMMA TaskMakers ==
  /\ NoTask \in Tasks /\ EndTask \in Tasks
  /\ \A s \in SeedIds : Finalize(s) \in Tasks
  /\ \A s \in SeedIds, w \in Nat, n \in 1 .. Escalate : \A d \in Datas(n) :
        ProcessTask(s, w, n, d) \in Tasks
  /\ NoTask.type = "none" /\ EndTask.type = "end"
  /\ \A s : Finalize(s).type = "finalize" /\ Finalize(s).seed = s
  /\ \A s, w, n, d : /\ ProcessTask(s, w, n, d).type = "process" /\ ProcessTask(s, w, n, d).seed = s
                     /\ ProcessTask(s, w, n, d).start = w /\ ProcessTask(s, w, n, d).n = n
                     /\ ProcessTask(s, w, n, d).data = d
BY DEF Tasks, NoTask, EndTask, Finalize, ProcessTask

\* No file is the absence of a file.
LEMMA FileIsNotNone ==
  ASSUME NEW p, NEW t \in Tmps(p)
  PROVE  t # NoPocx
<1>1. "size" \in DOMAIN t
  BY DEF Tmps
<1>2. DOMAIN NoPocx = {}
  BY DEF NoPocx
<1> QED
  BY <1>1, <1>2

LEMMA NoTmpFacts ==
  ASSUME job \in Jobs, NEW p \in 0 .. MaxPaths - 1
  PROVE  NoTmp(p) \in Tmps(p) /\ NoTmp(p).size = "none" /\ NoTmp(p).marker = NoMarker
<1>1. {} \in Contents
  BY DEF Contents
<1> QED
  BY <1>1 DEF NoTmp, Tmps, Datas

LEMMA JobSame ==
  ASSUME UNCHANGED job
  PROVE  UNCHANGED <<NumPaths, Paths, Plots, Passes, NumBuffers>>
BY DEF NumPaths, Paths, Plots, Passes, NumBuffers

\* The files of a run have seeds.
LEMMA SeedOfType ==
  ASSUME SchedTypes, ProcTypes, pc # "down", NEW p \in Paths, NEW k \in 1 .. Plots[p]
  PROVE  SeedOf(p, k) \in SeedIds /\ <<p, SeedOf(p, k)>> \in Files
<1>1. /\ job \in Jobs /\ firstSeed[p] \in SeedIds /\ run \in 1 .. MaxRuns /\ k \in 1 .. MaxPlots
  BY JobFacts DEF ProcTypes
<1>2. SeedOf(p, k) \in SeedIds
  BY <1>1 DEF SeedOf, SeedIds
<1> QED
  BY <1>1, <1>2, FileFacts

-----------------------------------------------------------------------------
(* Chains. *)

\* A task takes the same way in a step that leaves the run alone.
LEMMA TakesSame ==
  ASSUME UNCHANGED <<job, run, firstSeed>>
  PROVE  \A p, a, t, b : Takes(p, a, t, b)' <=> Takes(p, a, t, b)
BY DEF Takes, SeedOf, After, Right, Plots, Passes

\* The links of a chain behind the first.
Links(p, pos) ==
    /\ \A i \in 1 .. Len(queue[p]) : Takes(p, pos[i], queue[p][i], pos[i + 1])
    /\ pos[Len(queue[p]) + 1] = Sent(p)

LEMMA LinksSame ==
  ASSUME UNCHANGED <<job, run, firstSeed>>, NEW p, NEW pos,
         queue'[p] = queue[p], Sent(p)' = Sent(p), Links(p, pos)
  PROVE  Links(p, pos)'
<1>1. \A i \in 1 .. Len(queue[p]) : Takes(p, pos[i], queue[p][i], pos[i + 1])'
  <2>1. TAKE i \in 1 .. Len(queue[p])
  <2>2. queue'[p][i] = queue[p][i]
    OBVIOUS
  <2>3. Takes(p, pos[i], queue[p][i], pos[i + 1])
    BY DEF Links
  <2> QED
    BY <2>2, <2>3, TakesSame
<1>2. pos[Len(queue[p]) + 1] = Sent(p)
  BY DEF Links
<1> QED
  BY <1>1, <1>2 DEF Links

\* The first link of a chain may change, from the disk to the end of the work.
LEMMA ChainHead ==
  ASSUME UNCHANGED <<job, run, firstSeed>>, NEW p \in Paths, queue[p] \in Seq(Tasks), Chain(p),
         queue'[p] = queue[p], Sent(p)' = Sent(p),
         \A a, b \in Positions : DiskAt(p, a) /\ Takes(p, a, Work(p), b)
             => \E c \in Positions : DiskAt(p, c)' /\ Takes(p, c, Work(p), b)'
  PROVE  Chain(p)'
<1>0. PICK n \in Nat : n = Len(queue[p])
  OBVIOUS
<1>1. PICK pos \in [0 .. n + 1 -> Positions] :
         DiskAt(p, pos[0]) /\ Takes(p, pos[0], Work(p), pos[1]) /\ Links(p, pos)
  BY <1>0 DEF Chain, Links
<1>2. PICK c \in Positions : DiskAt(p, c)' /\ Takes(p, c, Work(p), pos[1])'
  BY <1>0, <1>1
<1>3. PICK new \in [0 .. n + 1 -> Positions] :
         new[0] = c /\ \A i \in 1 .. n + 1 : new[i] = pos[i]
  <2> DEFINE f == [i \in 0 .. n + 1 |-> IF i = 0 THEN c ELSE pos[i]]
  <2>1. f \in [0 .. n + 1 -> Positions] /\ f[0] = c /\ \A i \in 1 .. n + 1 : f[i] = pos[i]
    BY <1>0, <1>1
  <2> QED
    BY <2>1
<1>5. Links(p, pos)'
  BY <1>1, LinksSame
<1>6. Len(queue[p])' = n
  BY <1>0
<1>7. 1 \in 1 .. n + 1 /\ n + 1 \in 1 .. n + 1 /\ \A i \in 1 .. n : i \in 1 .. n + 1 /\ i + 1 \in 1 .. n + 1
  BY <1>0
<1>8. Links(p, new)'
  BY <1>3, <1>5, <1>6, <1>7 DEF Links
<1>9. DiskAt(p, new[0])' /\ Takes(p, new[0], Work(p), new[1])'
  BY <1>2, <1>3, <1>7
<1> QED
  BY <1>3, <1>6, <1>8, <1>9 DEF Chain, Links

\* What the path's files tell stays, as long as they do and no marker is pending.
LEMMA DiskSame ==
  ASSUME SchedTypes, ProcTypes, pc # "down", UNCHANGED <<job, run, firstSeed>>, NEW p \in Paths,
         wpc'[p] = wpc[p] \/ wpc[p] # "marker",
         \A s \in SeedIds : tmp'[<<p, s>>] = tmp[<<p, s>>] /\ pocx'[<<p, s>>] = pocx[<<p, s>>]
  PROVE  \A a \in Positions : DiskAt(p, a) => DiskAt(p, a)'
<1> SUFFICES ASSUME NEW a \in Positions, DiskAt(p, a) PROVE DiskAt(p, a)'
  OBVIOUS
<1>1. /\ a[1] \in Nat \ {0} /\ Plots[p] \in Nat /\ Plots' = Plots
      /\ \A k : SeedOf(p, k)' = SeedOf(p, k)
  BY JobFacts, JobSame DEF Positions, ProcTypes, SeedOf
<1>2. \A k \in 1 .. Plots[p] : SeedOf(p, k) \in SeedIds
  BY SeedOfType
<1>3. \A j \in 2 .. Plots[p] : j \in 1 .. Plots[p] /\ SeedOf(p, j) = <<run, j>> /\ <<run, j>> \in SeedIds
  <2>1. \A j \in 2 .. Plots[p] : j \in 1 .. Plots[p] /\ SeedOf(p, j) = <<run, j>>
    BY <1>1 DEF SeedOf
  <2> QED
    BY <1>2, <2>1
<1>4. \A j \in 1 .. Plots[p] : AllWarpsWritten(p, SeedOf(p, j)) => AllWarpsWritten(p, SeedOf(p, j))'
  BY <1>1, <1>2 DEF AllWarpsWritten
<1>5. \A j \in 2 .. Plots[p] : Untouched(<<p, <<run, j>> >>) => Untouched(<<p, <<run, j>> >>)'
  BY <1>3 DEF Untouched
<1>6. a[1] <= Plots[p] => tmp'[<<p, SeedOf(p, a[1])>>] = tmp[<<p, SeedOf(p, a[1])>>]
                          /\ pocx'[<<p, SeedOf(p, a[1])>>] = pocx[<<p, SeedOf(p, a[1])>>]
  BY <1>1, <1>2
<1> QED
  BY <1>1, <1>4, <1>5, <1>6 DEF DiskAt, ResumeInfo, HasMarker

\* A step that neither the path's writer nor its files take part in.
LEMMA ChainSame ==
  ASSUME SchedTypes, ProcTypes, pc # "down", UNCHANGED <<job, run, firstSeed>>, NEW p \in Paths, queue[p] \in Seq(Tasks), Chain(p),
         queue'[p] = queue[p], Sent(p)' = Sent(p), wtask'[p] = wtask[p], wpc'[p] = wpc[p],
         \A s \in SeedIds : tmp'[<<p, s>>] = tmp[<<p, s>>] /\ pocx'[<<p, s>>] = pocx[<<p, s>>]
  PROVE  Chain(p)'
<1>1. ASSUME NEW a \in Positions, DiskAt(p, a) PROVE DiskAt(p, a)'
  BY <1>1, DiskSame
<1>2. Work(p)' = Work(p)
  BY DEF Work
<1>3. ASSUME NEW a \in Positions, NEW b \in Positions, DiskAt(p, a), Takes(p, a, Work(p), b)
      PROVE  \E c \in Positions : DiskAt(p, c)' /\ Takes(p, c, Work(p), b)'
  BY <1>1, <1>2, <1>3, TakesSame
<1> QED
  BY <1>3, ChainHead

\* The scheduler sends task t, which takes the path to where the scheduler is now.
LEMMA ChainAppend ==
  ASSUME SchedTypes, ProcTypes, pc # "down", UNCHANGED <<job, run, firstSeed>>, NEW p \in Paths, queue[p] \in Seq(Tasks), Chain(p),
         NEW t, queue'[p] = Append(queue[p], t), wtask'[p] = wtask[p], wpc'[p] = wpc[p],
         \A s \in SeedIds : tmp'[<<p, s>>] = tmp[<<p, s>>] /\ pocx'[<<p, s>>] = pocx[<<p, s>>],
         NEW b \in Positions, Sent(p)' = b, Takes(p, Sent(p), t, b)
  PROVE  Chain(p)'
<1>0. PICK n \in Nat : n = Len(queue[p])
  OBVIOUS
<1>1. PICK pos \in [0 .. n + 1 -> Positions] :
         DiskAt(p, pos[0]) /\ Takes(p, pos[0], Work(p), pos[1]) /\ Links(p, pos)
  BY <1>0 DEF Chain, Links
<1>2. PICK new \in [0 .. n + 2 -> Positions] :
         new[n + 2] = b /\ \A i \in 0 .. n + 1 : new[i] = pos[i]
  <2> DEFINE f == [i \in 0 .. n + 2 |-> IF i = n + 2 THEN b ELSE pos[i]]
  <2>1. f \in [0 .. n + 2 -> Positions] /\ f[n + 2] = b /\ \A i \in 0 .. n + 1 : f[i] = pos[i]
    BY <1>0, <1>1
  <2> QED
    BY <2>1
<1>3. \A i \in 1 .. n : i \in 0 .. n + 1 /\ i + 1 \in 0 .. n + 1
  BY <1>0
<1>4. 0 \in 0 .. n + 1 /\ 1 \in 0 .. n + 1 /\ n + 1 \in 0 .. n + 1 /\ n + 1 + 1 = n + 2
  BY <1>0
<1>5. Len(queue'[p]) = n + 1 /\ queue'[p][n + 1] = t
      /\ \A i \in 1 .. n : queue'[p][i] = queue[p][i]
  BY <1>0
<1>6. \A i \in 1 .. n + 1 : Takes(p, new[i], queue[p][i], new[i + 1])'
  <2>1. TAKE i \in 1 .. n + 1
  <2>2. CASE i = n + 1
    <3>1. Takes(p, pos[n + 1], t, b)
      BY <1>0, <1>1 DEF Links
    <3>2. Takes(p, new[n + 1], t, new[n + 2])
      BY <3>1, <1>2, <1>4
    <3> QED
      BY <2>2, <3>2, <1>4, <1>5, TakesSame
  <2>3. CASE i \in 1 .. n
    <3>1. Takes(p, pos[i], queue[p][i], pos[i + 1])
      BY <1>0, <1>1, <2>3 DEF Links
    <3>2. Takes(p, new[i], queue'[p][i], new[i + 1])
      BY <3>1, <1>2, <1>3, <1>5, <2>3
    <3> QED
      BY <3>2, TakesSame
  <2> QED
    BY <1>0, <2>2, <2>3
<1>7. Links(p, new)'
  BY <1>2, <1>4, <1>5, <1>6 DEF Links
<1>8. DiskAt(p, new[0])'
  BY <1>1, <1>2, <1>4, DiskSame
<1>9. Takes(p, new[0], Work(p), new[1])'
  <2>1. Work(p)' = Work(p)
    BY DEF Work
  <2>2. Takes(p, new[0], Work(p), new[1])
    BY <1>1, <1>2, <1>4
  <2> QED
    BY <2>1, <2>2, TakesSame
<1>10. Len(queue'[p]) + 1 = n + 2
  BY <1>4, <1>5
<1> QED
  BY <1>2, <1>7, <1>8, <1>9, <1>10 DEF Chain, Links

\* The idle writer receives a task; EndTask is no work.
LEMMA ChainReceive ==
  ASSUME SchedTypes, ProcTypes, pc # "down", UNCHANGED <<job, run, firstSeed>>, NEW p \in Paths, queue[p] \in Seq(Tasks), Chain(p),
         queue[p] # <<>>, queue'[p] = Tail(queue[p]), Work(p).type = "none", wpc[p] # "marker",
         \/ Work(p)' = Head(queue[p])
         \/ Work(p)' = NoTask /\ Head(queue[p]) = EndTask,
         \A s \in SeedIds : tmp'[<<p, s>>] = tmp[<<p, s>>] /\ pocx'[<<p, s>>] = pocx[<<p, s>>],
         Sent(p)' = Sent(p)
  PROVE  Chain(p)'
<1>0. PICK n \in Nat : Len(queue[p]) = n + 1
  <2>1. Len(queue[p]) \in Nat /\ Len(queue[p]) # 0
    OBVIOUS
  <2>2. Len(queue[p]) - 1 \in Nat /\ Len(queue[p]) = (Len(queue[p]) - 1) + 1
    BY <2>1
  <2> QED
    BY <2>2
<1>1. PICK pos \in [0 .. n + 2 -> Positions] :
         DiskAt(p, pos[0]) /\ Takes(p, pos[0], Work(p), pos[1]) /\ Links(p, pos)
  <2>1. Len(queue[p]) + 1 = n + 2
    BY <1>0
  <2> QED
    BY <2>1 DEF Chain, Links
<1>2. PICK new \in [0 .. n + 1 -> Positions] : \A i \in 0 .. n + 1 : new[i] = pos[i + 1]
  <2> DEFINE f == [i \in 0 .. n + 1 |-> pos[i + 1]]
  <2>1. f \in [0 .. n + 1 -> Positions] /\ \A i \in 0 .. n + 1 : f[i] = pos[i + 1]
    BY <1>0, <1>1
  <2> QED
    BY <2>1
<1>3. Len(queue'[p]) = n /\ \A i \in 1 .. n : queue'[p][i] = queue[p][i + 1]
  BY <1>0
<1>4. pos[1] = pos[0]
  BY <1>1 DEF Takes
<1>5. /\ 0 \in 0 .. n + 1 /\ 1 \in 0 .. n + 1 /\ n + 1 \in 0 .. n + 1 /\ 0 + 1 = 1
      /\ \A i \in 1 .. n : i \in 0 .. n + 1 /\ i + 1 \in 0 .. n + 1 /\ i + 1 \in 1 .. n + 1
  BY <1>0
<1>6. \A i \in 1 .. n : Takes(p, new[i], queue[p][i], new[i + 1])'
  <2>1. TAKE i \in 1 .. n
  <2>2. Takes(p, pos[i + 1], queue[p][i + 1], pos[i + 1 + 1])
    BY <1>0, <1>1, <1>5 DEF Links
  <2>3. Takes(p, new[i], queue'[p][i], new[i + 1])
    BY <1>2, <1>3, <1>5, <2>2
  <2> QED
    BY <2>3, TakesSame
<1>7. Links(p, new)'
  <2>1. pos[n + 1 + 1] = Sent(p)
    BY <1>0, <1>1 DEF Links
  <2>2. new[n + 1] = Sent(p)
    BY <1>2, <1>5, <2>1
  <2> QED
    BY <1>3, <1>6, <2>2 DEF Links
<1>8. DiskAt(p, new[0])'
  <2>1. new[0] = pos[0]
    BY <1>2, <1>4, <1>5
  <2> QED
    BY <1>1, <2>1, DiskSame
<1>9. Takes(p, new[0], Work(p), new[1])'
  <2>1. Takes(p, new[0], Head(queue[p]), new[1])
    <3>1. 1 \in 1 .. n + 1 /\ Head(queue[p]) = queue[p][1]
      BY <1>0
    <3> QED
      BY <3>1, <1>0, <1>1, <1>2, <1>5 DEF Links
  <2>2. CASE Work(p)' = Head(queue[p])
    BY <2>1, <2>2, TakesSame
  <2>3. CASE Work(p)' = NoTask /\ Head(queue[p]) = EndTask
    <3>1. Takes(p, new[0], NoTask, new[1])
      BY <2>1, <2>3, TaskMakers DEF Takes
    <3> QED
      BY <2>3, <3>1, TakesSame
  <2> QED
    BY <2>2, <2>3
<1> QED
  BY <1>2, <1>3, <1>7, <1>8, <1>9 DEF Chain, Links

-----------------------------------------------------------------------------
(* The scheduler's own part. *)

\* One more pass is in the slot it compresses into.
LEMMA PassRight ==
  ASSUME NEW s, NEW m \in Nat, NEW k \in Nat
  PROVE  Xor(Batches(s, m, m + k - 1), {<<s, m + k>>}) = Batches(s, m, m + k)
<1>1. m .. m + k = (m .. m + k - 1) \cup {m + k} /\ m + k \notin m .. m + k - 1
  OBVIOUS
<1> QED
  BY <1>1 DEF Xor, Batches

LEMMA HashRight ==
  ASSUME Types, SchedulerRight, Hash
  PROVE  SchedulerRight'
<1> USE DEF SchedulerRight
<1>0. job \in Jobs /\ path \in Paths /\ UNCHANGED job
  BY DEF Hash, procVars, Types, ProcTypes, SchedTypes
<1>1. UNCHANGED <<Paths, Plots, Passes>>
  BY <1>0 DEF Paths, NumPaths, Plots, Passes
<1>2. /\ pc = "hash" /\ UNCHANGED <<path, seeds, warpOffset, filesDone, pass, held, slots, inBuffer, bufStart, bufPath, stop>>
      /\ \/ (AllDone \/ stop) /\ pc' = "drain" /\ UNCHANGED nonces
         \/ ~(AllDone \/ stop) /\ pc' = "compress" /\ nonces' = [nonces EXCEPT ![path] = @ + 1]
  BY DEF Hash, sharedVars
<1>3. BufferRight'
  BY <1>1, <1>2 DEF BufferRight, Partial, Right
<1>4. NoBuffer'
  BY <1>2 DEF NoBuffer
<1>5. Place'
  <2>1. AllDone' = AllDone /\ \A p : Active(p)' = Active(p)
    BY <1>1, <1>2 DEF AllDone, Active
  <2>2. ASSUME NEW p \in Paths, Active(p)
        PROVE  /\ seeds'[p] = SeedOf(p, filesDone[p] + 1)'
               /\ warpOffset'[p] < Warps[p]
               /\ nonces'[p] = warpOffset'[p] * Passes'
                    + (IF p = path' THEN pass' + (IF pc' = "compress" THEN 1 ELSE 0) ELSE 0)
    <3>1. warpOffset[p] < Warps[p] /\ seeds[p] = SeedOf(p, filesDone[p] + 1)
          /\ nonces[p] = warpOffset[p] * Passes
                + (IF p = path THEN pass + (IF pc = "compress" THEN 1 ELSE 0) ELSE 0)
      BY <2>2, <1>2 DEF Place
    <3>2. seeds'[p] = SeedOf(p, filesDone[p] + 1)'
      BY <3>1, <1>2 DEF SeedOf, Hash, procVars
    <3>3. nonces \in [Paths -> Nat] /\ warpOffset[p] \in Nat /\ Passes \in Nat /\ pass \in Nat
      BY <1>0, JobFacts DEF Types, SchedTypes
    <3>4. PICK m : m = warpOffset[p] * Passes
      OBVIOUS
    <3> QED
      BY <1>0, <1>1, <1>2, <3>1, <3>2, <3>3, <3>4
  <2>3. pc' \in {"compress", "drain"} /\ pc' = "compress" => Active(path)
    BY <1>0, <1>2 DEF Place, AllDone, Active
  <2> QED
    BY <1>1, <1>2, <2>1, <2>2, <2>3 DEF Place
<1> QED
  BY <1>3, <1>4, <1>5

LEMMA CompressRight ==
  ASSUME Types, SchedulerRight, Compress
  PROVE  SchedulerRight'
<1> USE DEF SchedulerRight
<1> DEFINE old  == IF held THEN slots ELSE StaleSlots
           last == pass + 1 = Passes
           w    == warpOffset[path]
<1>0. job \in Jobs /\ path \in Paths /\ UNCHANGED job /\ pc = "compress"
      /\ UNCHANGED <<path, seeds, filesDone, nonces, stop, run, firstSeed>>
  BY DEF Compress, procVars, Types, ProcTypes, SchedTypes
<1>1. UNCHANGED <<Paths, Plots, Passes>> /\ Passes \in Nat \ {0}
      /\ Escalate \in Nat \ {0} /\ Warps[path] \in Nat
  BY <1>0, JobFacts DEF Paths, NumPaths, Plots, Passes
<1>2. /\ pass \in 0 .. Passes - 1 /\ warpOffset \in [Paths -> Nat] /\ nonces \in [Paths -> Nat]
      /\ inBuffer \in 0 .. Escalate /\ slots \in Datas(Escalate) /\ bufStart \in Nat
  BY DEF Types, SchedTypes
<1>3. Active(path) /\ w < Warps[path] /\ w \in Nat /\ nonces[path] = w * Passes + (pass + 1)
  BY <1>0, <1>2 DEF Place
<1>4. /\ held' = TRUE
      /\ bufStart' = (IF held THEN bufStart ELSE w)
      /\ bufPath' = (IF held THEN bufPath ELSE path)
      /\ slots' = [old EXCEPT ![inBuffer] = Compressed(@)]
      /\ \/ /\ last /\ pass' = 0 /\ inBuffer' = inBuffer + 1
            /\ warpOffset' = [warpOffset EXCEPT ![path] = @ + 1]
            /\ pc' = IF inBuffer + 1 = Escalate \/ w + 1 = Warps[path]
                     THEN "flush" ELSE "hash"
         \/ /\ ~last /\ pass' = pass + 1 /\ pc' = "hash" /\ UNCHANGED <<inBuffer, warpOffset>>
  BY DEF Compress
<1>5. /\ inBuffer \in 0 .. Escalate - 1 /\ bufPath' = path /\ bufStart' + inBuffer = w
      /\ \A i \in 0 .. inBuffer - 1 : old[i] = Right(seeds[path], bufStart' + i)
      /\ pass > 0 => old[inBuffer] = Partial
  <2>1. CASE held
    BY <1>0, <1>1, <1>2, <1>4, <2>1 DEF BufferRight
  <2>2. CASE ~held
    BY <1>0, <1>1, <1>2, <1>3, <1>4, <2>2 DEF NoBuffer
  <2> QED
    BY <2>1, <2>2
<1>6. DOMAIN old = 0 .. Escalate - 1
  BY <1>2 DEF Datas, StaleSlots
<1> HIDE DEF old
<1>7. /\ slots'[inBuffer] = Compressed(old[inBuffer])
      /\ \A i \in 0 .. inBuffer - 1 : slots'[i] = old[i]
  BY <1>4, <1>5, <1>6, <1>1
<1>8. /\ Compressed(old[inBuffer]) = Batches(seeds[path], w * Passes, w * Passes + pass)
      /\ last => Compressed(old[inBuffer]) = Right(seeds[path], w)
      /\ w * Passes \in Nat
  <2>1. PICK m \in Nat : m = w * Passes
    BY <1>1, <1>3
  <2>2. (w + 1) * Passes = m + Passes
    BY <1>1, <1>3, <2>1
  <2>3. nonces[path] - 1 = m + pass
    BY <1>1, <1>2, <1>3, <2>1
  <2>4. Compressed(old[inBuffer]) =
          (IF pass = 0 THEN {<<seeds[path], m + pass>>}
           ELSE Xor(old[inBuffer], {<<seeds[path], m + pass>>}))
    BY <2>3 DEF Compressed
  <2>5. pass > 0 => old[inBuffer] = Batches(seeds[path], m, m + pass - 1)
    BY <1>5, <2>1 DEF Partial
  <2>6. pass \in Nat
    BY <1>1, <1>2
  <2>7. Compressed(old[inBuffer]) = Batches(seeds[path], m, m + pass)
    <3>1. CASE pass = 0
      <4>1. m .. m + pass = {m + pass}
        BY <2>1, <3>1
      <4> QED
        BY <2>4, <3>1, <4>1 DEF Batches
    <3>2. CASE pass # 0
      <4>1. Compressed(old[inBuffer]) = Xor(Batches(seeds[path], m, m + pass - 1), {<<seeds[path], m + pass>>})
        BY <2>4, <2>5, <2>6, <3>2
      <4> QED
        BY <2>1, <2>6, <4>1, PassRight
    <3> QED
      BY <3>1, <3>2
  <2>8. last => m + pass = m + Passes - 1
    BY <1>1, <1>2
  <2>9. Right(seeds[path], w) = Batches(seeds[path], m, m + Passes - 1)
    <3>1. (w + 1) * Passes - 1 = m + Passes - 1
      BY <2>1, <2>2, <1>1
    <3> QED
      BY <2>1, <3>1 DEF Right, Batches
  <2> QED
    BY <2>1, <2>7, <2>8, <2>9
<1>9. CASE last
  <2>1. warpOffset'[path] = w + 1 /\ \A p \in Paths : p # path => warpOffset'[p] = warpOffset[p]
    BY <1>0, <1>2, <1>4, <1>9
  <2>2. BufferRight'
    <3>1. \A i \in 0 .. inBuffer : slots'[i] = Right(seeds[path], bufStart + i)'
      BY <1>0, <1>1, <1>5, <1>7, <1>8, <1>9 DEF Right
    <3>2. inBuffer' = inBuffer + 1 /\ 0 .. inBuffer' - 1 = 0 .. inBuffer /\ pass' = 0
      BY <1>2, <1>4, <1>9
    <3>3. bufStart' + inBuffer' = warpOffset'[path'] /\ bufPath' = path'
          /\ filesDone'[path'] < Plots'[path']
      BY <1>0, <1>1, <1>2, <1>3, <1>4, <1>5, <2>1, <3>2 DEF Active
    <3>4. pc' \in {"hash", "compress"} => inBuffer' < Escalate
      BY <1>1, <1>4, <1>5, <1>9
    <3>5. seeds' = seeds /\ path' = path /\ ~(pass' > 0)
      BY <1>0, <3>2
    <3>6. \A i \in 0 .. inBuffer' - 1 : slots'[i] = Right(seeds[path], bufStart + i)'
      BY <3>1, <3>2
    <3> QED
      BY <3>3, <3>4, <3>5, <3>6, <1>1 DEF BufferRight
  <2>3. Place'
    <3>1. pc' \in {"hash", "flush"} /\ pass' = 0 /\ inBuffer' > 0 /\ Active(path)'
          /\ (pc' = "hash" => w + 1 # Warps[path])
      BY <1>0, <1>1, <1>2, <1>3, <1>4, <1>9 DEF Active
    <3>2. ASSUME NEW p \in Paths, Active(p)'
          PROVE  /\ seeds'[p] = SeedOf(p, filesDone[p] + 1)'
                 /\ warpOffset'[p] < Warps[p] \/ (pc' = "flush" /\ p = path')
                 /\ nonces'[p] = warpOffset'[p] * Passes' + 0
      <4>1. Active(p)
        BY <3>2, <1>0, <1>1 DEF Active
      <4>2. /\ seeds[p] = SeedOf(p, filesDone[p] + 1)
            /\ (p # path => warpOffset[p] < Warps[p] /\ nonces[p] = warpOffset[p] * Passes + 0)
        BY <1>0, <4>1 DEF Place
      <4>3. seeds'[p] = SeedOf(p, filesDone[p] + 1)'
        BY <1>0, <4>2 DEF SeedOf
      <4>4. CASE p = path
        <5>1. w * Passes + (pass + 1) = (w + 1) * Passes + 0
          BY <1>1, <1>2, <1>3, <1>9
        <5>2. warpOffset'[p] < Warps[p] \/ (pc' = "flush" /\ p = path')
          <6>1. path' = path /\ Warps[path] \in Nat /\ w \in Nat /\ w < Warps[path]
            BY <1>0, <1>1, <1>3
          <6>2. w + 1 < Warps[path] \/ pc' = "flush"
            BY <3>1, <6>1
          <6> QED
            BY <2>1, <4>4, <6>1, <6>2
        <5> QED
          BY <1>0, <1>1, <1>3, <2>1, <4>3, <4>4, <5>1, <5>2
      <4>5. CASE p # path
        BY <1>0, <1>1, <2>1, <4>2, <4>3, <4>5
      <4> QED
        BY <4>4, <4>5
    <3>3. ASSUME NEW p \in Paths, Active(p)'
          PROVE  nonces'[p] = warpOffset'[p] * Passes'
                   + (IF p = path' THEN pass' + (IF pc' = "compress" THEN 1 ELSE 0) ELSE 0)
      BY <3>1, <3>2, <3>3
    <3> QED
      BY <1>1, <1>4, <3>1, <3>2, <3>3 DEF Place
  <2> QED
    BY <1>4, <2>2, <2>3 DEF NoBuffer
<1>10. CASE ~last
  <2>1. BufferRight'
    <3>1. slots'[inBuffer] = Partial'
      <4>1. w * Passes + (pass + 1) - 1 = w * Passes + pass
        BY <1>2, <1>8
      <4> QED
        BY <1>0, <1>1, <1>4, <1>7, <1>8, <1>10, <4>1 DEF Partial
    <3>2. \A i \in 0 .. inBuffer - 1 : slots'[i] = Right(seeds[path], bufStart + i)'
      BY <1>0, <1>1, <1>5, <1>7 DEF Right
    <3> QED
      BY <1>0, <1>1, <1>3, <1>4, <1>5, <1>10, <3>1, <3>2 DEF BufferRight, Right, Active
  <2>2. Place'
    <3>1. pc' = "hash" /\ pass' = pass + 1 /\ warpOffset' = warpOffset /\ \A p : Active(p)' = Active(p)
      BY <1>0, <1>1, <1>4, <1>10 DEF Active
    <3>2. ASSUME NEW p \in Paths, Active(p)
          PROVE  /\ seeds'[p] = SeedOf(p, filesDone[p] + 1)'
                 /\ warpOffset'[p] < Warps[p]
                 /\ nonces'[p] = warpOffset'[p] * Passes'
                   + (IF p = path' THEN pass' + (IF pc' = "compress" THEN 1 ELSE 0) ELSE 0)
      <4>1. seeds[p] = SeedOf(p, filesDone[p] + 1) /\ warpOffset[p] < Warps[p]
            /\ (p # path => nonces[p] = warpOffset[p] * Passes + 0)
        BY <1>0, <3>2 DEF Place
      <4>2. seeds'[p] = SeedOf(p, filesDone[p] + 1)'
        BY <1>0, <4>1 DEF SeedOf
      <4>3. pass' + (IF pc' = "compress" THEN 1 ELSE 0) = pass + 1
        BY <1>2, <3>1
      <4> QED
        BY <1>0, <1>1, <1>3, <3>1, <4>1, <4>2, <4>3
    <3> QED
      BY <1>0, <1>1, <1>3, <3>1, <3>2 DEF Place
  <2> QED
    BY <1>4, <2>1, <2>2 DEF NoBuffer
<1> QED
  BY <1>9, <1>10

LEMMA FlushRight ==
  ASSUME Types, SchedulerRight, Flush
  PROVE  SchedulerRight'
<1> USE DEF SchedulerRight
<1> DEFINE boundary == warpOffset[path] = Warps[path]
           done     == IF boundary THEN [filesDone EXCEPT ![path] = @ + 1] ELSE filesDone
           allDone  == \A p \in Paths : done[p] >= Plots[p]
           leave    == NumPaths > 1 /\ allDone
           next     == IF NumPaths > 1 THEN NextActive(path, done) ELSE path
           reset    == boundary /\ ~leave
<1>0. job \in Jobs /\ path \in Paths /\ UNCHANGED job /\ pc = "flush" /\ UNCHANGED <<pass, run, firstSeed>>
  BY DEF Flush, procVars, Types, ProcTypes, SchedTypes
<1>1. /\ UNCHANGED <<Paths, Plots, Passes>> /\ Passes \in Nat \ {0}
      /\ NumPaths \in Nat \ {0} /\ Paths = 0 .. NumPaths - 1
      /\ \A p \in Paths : Warps[p] \in Nat \ {0} /\ Plots[p] \in Nat
  BY <1>0, JobFacts DEF Paths, NumPaths, Plots, Passes
<1>2. /\ filesDone \in [Paths -> Nat] /\ warpOffset \in [Paths -> Nat] /\ nonces \in [Paths -> Nat]
      /\ seeds \in [Paths -> GivenSeeds] /\ \A p \in Paths : warpOffset[p] <= Warps[p]
  BY DEF Types, SchedTypes
<1>3. Active(path) /\ held /\ pass = 0
  BY <1>0 DEF Place
<1>4. /\ FlushBuffer(seeds[path]) /\ filesDone' = done /\ seeds' = NextSeeds(done) /\ path' = next
      /\ warpOffset' = (IF reset THEN [warpOffset EXCEPT ![path] = 0] ELSE warpOffset)
      /\ nonces' = (IF reset THEN [nonces EXCEPT ![path] = 0] ELSE nonces)
      /\ pc' = IF leave THEN "drain" ELSE "hash"
  BY DEF Flush
<1>5. held' = FALSE /\ (inBuffer' > 0 => stop')
  BY <1>3, <1>4 DEF FlushBuffer
<1>6. BufferRight' /\ NoBuffer'
  BY <1>0, <1>3, <1>4, <1>5 DEF BufferRight, NoBuffer
<1>7. \A p \in Paths : Active(p)' <=> done[p] < Plots[p]
  BY <1>1, <1>4 DEF Active
<1>8. AllDone' <=> allDone
  BY <1>1, <1>4 DEF AllDone
<1>9. done \in [Paths -> Nat]
  BY <1>0, <1>2
<1>10. done[next] < Plots[next] \/ allDone
  <2>1. CASE NumPaths > 1
    <3>1. \A p \in Paths : done[p] >= Plots[p] <=> ~(done[p] < Plots[p])
      BY <1>1, <1>9
    <3> QED
      BY <1>0, <2>1, <3>1, NextActiveRight
  <2>2. CASE ~(NumPaths > 1)
    <3>1. Paths = {path} /\ next = path
      BY <1>0, <1>1, <2>2
    <3>2. done[path] \in Nat /\ Plots[path] \in Nat
      BY <1>0, <1>1, <1>9
    <3> HIDE DEF done, next
    <3>3. done[path] < Plots[path] \/ \A p \in Paths : done[p] >= Plots[p]
      BY <3>1, <3>2
    <3> QED
      BY <3>1, <3>3
  <2> QED
    BY <2>1, <2>2
<1>11. next \in Paths
  BY <1>0, NextActiveRight
<1>12. ASSUME NEW p \in Paths, done[p] < Plots[p]
       PROVE  /\ seeds'[p] = SeedOf(p, filesDone[p] + 1)'
              /\ warpOffset'[p] < Warps[p]
              /\ nonces'[p] = warpOffset'[p] * Passes' + 0
  <2>1. ~leave
    BY <1>12, <1>1, <1>9
  <2>2. Active(p)
    BY <1>12, <1>0, <1>1, <1>2 DEF Active
  <2>3. /\ seeds[p] = SeedOf(p, filesDone[p] + 1)
        /\ nonces[p] = warpOffset[p] * Passes + 0
    BY <1>0, <1>3, <2>2 DEF Place
  <2>4. CASE p = path /\ boundary
    <3>1. done[p] = filesDone[p] + 1 /\ done[p] > filesDone[p]
      BY <1>0, <1>2, <2>4
    <3>2. seeds'[p] = <<run, done[p] + 1>>
      BY <1>0, <1>2, <1>4, <1>12, <2>4, <3>1 DEF NextSeeds
    <3>3. seeds'[p] = SeedOf(p, filesDone[p] + 1)'
      <4>1. filesDone'[p] = done[p] /\ done[p] + 1 # 1
        BY <1>0, <1>2, <1>4, <3>1
      <4> QED
        BY <1>0, <3>2, <4>1 DEF SeedOf
    <3>4. warpOffset'[p] = 0 /\ nonces'[p] = 0
      BY <1>0, <1>2, <1>4, <2>1, <2>4
    <3> QED
      BY <1>1, <3>3, <3>4
  <2>5. CASE ~(p = path /\ boundary)
    <3>1. filesDone'[p] = filesDone[p] /\ seeds'[p] = seeds[p]
          /\ warpOffset'[p] = warpOffset[p] /\ nonces'[p] = nonces[p]
      BY <1>0, <1>2, <1>4, <2>5 DEF NextSeeds
    <3>2. seeds'[p] = SeedOf(p, filesDone[p] + 1)'
      BY <1>0, <2>3, <3>1 DEF SeedOf
    <3>3. warpOffset[p] < Warps[p]
      BY <1>0, <1>1, <1>2, <2>2, <2>5 DEF Place
    <3> QED
      BY <1>1, <2>3, <3>1, <3>2, <3>3
  <2> QED
    BY <2>4, <2>5
<1>13. Place'
  <2>1. pc' \in {"drain", "hash"} /\ (pc' = "drain" => AllDone')
    BY <1>4, <1>8
  <2>2. pc' = "hash" => Active(path)' \/ AllDone'
    BY <1>1, <1>4, <1>8, <1>10, <1>11 DEF Active
  <2>3. ASSUME NEW p \in Paths, Active(p)'
        PROVE  nonces'[p] = warpOffset'[p] * Passes'
                   + (IF p = path' THEN pass' + (IF pc' = "compress" THEN 1 ELSE 0) ELSE 0)
    <3>1. pass' + (IF pc' = "compress" THEN 1 ELSE 0) = 0
      BY <1>0, <1>3, <2>1
    <3> QED
      BY <1>7, <1>12, <2>3, <3>1
  <2> QED
    BY <1>1, <1>7, <1>12, <2>1, <2>2, <2>3 DEF Place
<1> QED
  BY <1>6, <1>13

\* Steps of the scheduler behind the loop, of the user and of the writers
\* leave its place alone, and a stop is never taken back.
LEMMA PlaceSame ==
  ASSUME SchedulerRight, UNCHANGED <<path, seeds, warpOffset, filesDone, nonces, pass, job, run, firstSeed>>,
         stop => stop',
         pc' = pc \/ (pc = "drain" /\ pc' = "end") \/ (pc = "end" /\ pc' = "done"),
         pc # "drain" => UNCHANGED <<held, inBuffer>>
  PROVE  Place'
<1>1. UNCHANGED <<Paths, Plots, Passes>> /\ (\A p : Active(p)' = Active(p)) /\ AllDone' = AllDone
  BY DEF Paths, NumPaths, Plots, Passes, Active, AllDone
<1>2. \A p, k : SeedOf(p, k)' = SeedOf(p, k)
  BY DEF SeedOf
<1>4. CASE pc' = pc
  BY <1>1, <1>2, <1>4 DEF SchedulerRight, Place
<1>5. CASE pc \in {"drain", "end"} /\ pc' \in {"end", "done"}
  BY <1>1, <1>2, <1>5 DEF SchedulerRight, Place
<1> QED
  BY <1>4, <1>5

LEMMA DrainRight ==
  ASSUME Types, SchedulerRight, Drain
  PROVE  SchedulerRight'
<1>0. /\ pc = "drain" /\ pc' = "end" /\ stop \in BOOLEAN /\ held \in BOOLEAN /\ inBuffer \in Nat
      /\ UNCHANGED <<path, seeds, warpOffset, filesDone, nonces, pass, slots, bufPath, job, run, firstSeed>>
  BY DEF Drain, procVars, Types, SchedTypes
<1>1. \/ inBuffer > 0 /\ held' = FALSE /\ (inBuffer' > 0 => stop')
      \/ inBuffer = 0 /\ UNCHANGED <<held, inBuffer, bufStart, stop>>
  BY <1>0 DEF Drain, FlushBuffer, SchedulerRight, NoBuffer
<1>2. stop => stop'
  BY <1>0 DEF Drain, FlushBuffer
<1>3. Place'
  BY <1>0, <1>1, <1>2, PlaceSame
<1>4. NoBuffer'
  BY <1>0, <1>1 DEF SchedulerRight, NoBuffer
<1>5. BufferRight'
  BY <1>0, <1>1 DEF SchedulerRight, BufferRight, Right, Partial, Passes, Plots
<1> QED
  BY <1>3, <1>4, <1>5 DEF SchedulerRight

\* The steps that leave the buffer alone.
LEMMA SchedulerSame ==
  ASSUME SchedulerRight, UNCHANGED <<schedVars, job, run, firstSeed>>, stop => stop', pc' = pc
  PROVE  SchedulerRight'
<1>1. Place'
  BY PlaceSame DEF schedVars
<1>2. NoBuffer' /\ BufferRight'
  BY DEF schedVars, SchedulerRight, BufferRight, NoBuffer, Right, Partial, Passes, Plots
<1> QED
  BY <1>1, <1>2 DEF SchedulerRight

LEMMA EndRight ==
  ASSUME SchedulerRight, End
  PROVE  SchedulerRight'
<1>0. /\ pc = "end" /\ pc' \in {"end", "done"}
      /\ UNCHANGED <<path, seeds, warpOffset, filesDone, nonces, pass, held, slots, inBuffer, bufStart, bufPath,
                     stop, job, run, firstSeed>>
  BY DEF End, procVars
<1>1. Place'
  BY <1>0, PlaceSame
<1>2. NoBuffer' /\ BufferRight'
  BY <1>0 DEF SchedulerRight, BufferRight, NoBuffer, Right, Partial, Passes, Plots
<1> QED
  BY <1>1, <1>2 DEF SchedulerRight

-----------------------------------------------------------------------------
(* Types of the scheduler's steps. *)

LEMMA TypesFrame ==
  ASSUME Types, UNCHANGED <<writerVars, procVars, diskVars>>, pc # "down"
  PROVE  WriterTypes' /\ ProcTypes' /\ DiskTypes'
<1>1. UNCHANGED <<Paths, NumPaths>>
  BY JobSame DEF procVars
<1> QED
  BY <1>1 DEF Types, WriterTypes, ProcTypes, DiskTypes, writerVars, procVars, diskVars

LEMMA HashTypes ==
  ASSUME Types, Hash
  PROVE  Types'
<1>0. job \in Jobs /\ path \in Paths
  BY DEF Types, ProcTypes, SchedTypes
<1>1. UNCHANGED <<Paths, Plots, Passes, NumBuffers>>
  BY JobSame DEF Hash, procVars
<1>2. WriterTypes' /\ ProcTypes' /\ DiskTypes'
  BY TypesFrame DEF Hash
<1>3. QueueTypes'
  BY <1>1 DEF Hash, sharedVars, Types, QueueTypes
<1>4. pc' \in {"drain", "compress"} /\ nonces' \in [Paths -> Nat]
  BY <1>0 DEF Hash, Types, SchedTypes
<1>5. SchedTypes'
  BY <1>1, <1>4 DEF Hash, sharedVars, Types, SchedTypes
<1> QED
  BY <1>2, <1>3, <1>5 DEF Types

LEMMA CompressTypes ==
  ASSUME Types, SchedulerRight, SchedulerRight', Compress
  PROVE  Types'
<1>0. /\ job \in Jobs /\ path \in Paths /\ pc = "compress" /\ inBuffer \in 0 .. Escalate /\ Escalate \in Nat \ {0}
      /\ UNCHANGED <<path, seeds, filesDone, nonces, endTo, queue, stop>>
  BY JobFacts DEF Compress, Types, ProcTypes, SchedTypes
<1>1. UNCHANGED <<Paths, Plots, Passes, NumBuffers>>
  BY JobSame DEF Compress, procVars
<1>2. WriterTypes' /\ ProcTypes' /\ DiskTypes'
  BY TypesFrame DEF Compress
<1>3. Active(path) /\ warpOffset[path] < Warps[path]
  BY <1>0 DEF SchedulerRight, Place
<1>4. pool' \in Nat
  BY DEF Compress, Types, QueueTypes
<1>5. QueueTypes'
  BY <1>0, <1>1, <1>4 DEF Types, QueueTypes
<1>6. inBuffer < Escalate
  <2>1. CASE held
    BY <1>0, <2>1 DEF SchedulerRight, BufferRight
  <2>2. CASE ~held
    BY <1>0, <2>2 DEF SchedulerRight, NoBuffer
  <2> QED
    BY <2>1, <2>2
<1>7. slots' \in Datas(Escalate)
  <2> DEFINE old == IF held THEN slots ELSE StaleSlots
  <2>1. old \in Datas(Escalate)
    BY DEF Types, SchedTypes, Datas, StaleSlots, Contents
  <2>2. nonces[path] - 1 \in Nat
    <3>1. nonces[path] = warpOffset[path] * Passes + (pass + 1)
      BY <1>0, <1>3 DEF SchedulerRight, Place
    <3>2. pass \in Nat /\ warpOffset[path] \in Nat /\ Passes \in Nat
      BY <1>0, JobFacts DEF Types, SchedTypes
    <3>3. PICK m \in Nat : m = warpOffset[path] * Passes
      BY <3>2
    <3> QED
      BY <3>1, <3>2, <3>3
  <2>3. seeds[path] \in SeedIds
    <3>1. seeds[path] = SeedOf(path, filesDone[path] + 1)
      BY <1>0, <1>3 DEF SchedulerRight, Place
    <3>2. filesDone[path] + 1 \in 1 .. Plots[path]
      BY <1>0, <1>3, JobFacts DEF Types, SchedTypes, Active
    <3> QED
      BY <1>0, <3>1, <3>2, SeedOfType DEF Types
  <2>4. Compressed(old[inBuffer]) \in Contents
    <3>1. <<seeds[path], nonces[path] - 1>> \in Batch \cup {Junk} /\ old[inBuffer] \in Contents
      BY <1>0, <1>6, <2>1, <2>2, <2>3 DEF Batch, Datas
    <3> QED
      BY <3>1 DEF Compressed, Xor, Contents
  <2>5. slots' = [old EXCEPT ![inBuffer] = Compressed(old[inBuffer])]
    BY DEF Compress
  <2> QED
    BY <2>1, <2>4, <2>5 DEF Datas
<1>8. /\ held' = TRUE /\ bufStart' \in Nat /\ bufPath' \in Paths /\ pc' \in {"hash", "flush"}
      /\ inBuffer' \in 0 .. Escalate
  BY <1>0, <1>6 DEF Compress, Types, SchedTypes
<1>9. warpOffset' \in [Paths -> Nat] /\ \A p \in Paths : warpOffset'[p] <= Warps[p]
  BY <1>0, <1>3, JobFacts DEF Compress, Types, SchedTypes
<1>10. pass' \in 0 .. Passes - 1
  BY <1>0, JobFacts DEF Compress, Types, SchedTypes
<1>11. SchedTypes'
  BY <1>0, <1>1, <1>7, <1>8, <1>9, <1>10 DEF Types, SchedTypes
<1> QED
  BY <1>2, <1>5, <1>11 DEF Types

\* What the scheduler sends is a task, and leaves the channels typed.
LEMMA FlushTypes ==
  ASSUME Types, UNCHANGED job, NEW s \in SeedIds, inBuffer > 0 \/ ~held, FlushBuffer(s), UNCHANGED pool
  PROVE  /\ QueueTypes' /\ held' \in BOOLEAN /\ inBuffer' \in 0 .. Escalate /\ stop' \in BOOLEAN
         /\ held => ProcessTask(s, bufStart, inBuffer, [i \in 0 .. inBuffer - 1 |-> slots[i]]) \in Tasks
<1> DEFINE t == ProcessTask(s, bufStart, inBuffer, [i \in 0 .. inBuffer - 1 |-> slots[i]])
<1>0. /\ job \in Jobs /\ bufPath \in Paths /\ bufStart \in Nat /\ Escalate \in Nat \ {0}
      /\ inBuffer \in 0 .. Escalate /\ slots \in Datas(Escalate) /\ held \in BOOLEAN /\ stop \in BOOLEAN
  BY JobFacts DEF Types, ProcTypes, SchedTypes
<1>1. UNCHANGED <<Paths, NumBuffers>> /\ NumBuffers \in Nat
  BY <1>0, JobSame, JobFacts
<1>2. /\ DOMAIN queue = Paths
      /\ \A p \in Paths : queue[p] \in Seq(Tasks) /\ Len(queue[p]) <= NumBuffers
  BY DEF Types, QueueTypes
<1>3. held => t \in Tasks
  <2>1. SUFFICES ASSUME held PROVE t \in Tasks
    OBVIOUS
  <2>2. inBuffer \in 1 .. Escalate
    BY <1>0, <2>1
  <2>3. [i \in 0 .. inBuffer - 1 |-> slots[i]] \in Datas(inBuffer)
    BY <1>0 DEF Datas
  <2> QED
    BY <1>0, <2>2, <2>3, TaskMakers
<1>4. held' \in BOOLEAN /\ inBuffer' \in 0 .. Escalate /\ stop' \in BOOLEAN
  <2>1. 0 \in 0 .. Escalate
    BY <1>0
  <2> QED
    BY <1>0, <2>1 DEF FlushBuffer
<1> HIDE DEF t
<1>5. ASSUME queue' = queue PROVE QueueTypes'
  BY <1>1, <1>2, <1>5 DEF QueueTypes, Types
<1>6. ASSUME held, Len(queue[bufPath]) < NumBuffers, queue' = [queue EXCEPT ![bufPath] = Append(@, t)]
      PROVE  QueueTypes'
  <2>1. /\ DOMAIN queue' = Paths /\ queue'[bufPath] = Append(queue[bufPath], t)
        /\ \A p \in Paths : p # bufPath => queue'[p] = queue[p]
    BY <1>0, <1>2, <1>6
  <2>2. queue'[bufPath] \in Seq(Tasks) /\ Len(queue'[bufPath]) <= NumBuffers
    BY <1>0, <1>1, <1>2, <1>3, <1>6, <2>1
  <2> QED
    BY <1>1, <1>2, <2>1, <2>2 DEF QueueTypes, Types
<1>7. QueueTypes'
  BY <1>5, <1>6 DEF FlushBuffer, t
<1> QED
  BY <1>3, <1>4, <1>7 DEF t

LEMMA FlushActionTypes ==
  ASSUME Types, SchedulerRight, SchedulerRight', Flush
  PROVE  Types'
<1> DEFINE boundary == warpOffset[path] = Warps[path]
           done     == IF boundary THEN [filesDone EXCEPT ![path] = @ + 1] ELSE filesDone
           leave    == NumPaths > 1 /\ \A p \in Paths : done[p] >= Plots[p]
           next     == IF NumPaths > 1 THEN NextActive(path, done) ELSE path
           reset    == boundary /\ ~leave
<1>0. /\ job \in Jobs /\ path \in Paths /\ pc = "flush" /\ pc' \in {"hash", "drain"} /\ UNCHANGED job
      /\ UNCHANGED <<pass, slots, bufPath, endTo, pool>>
  BY JobFacts DEF Flush, procVars, Types, ProcTypes, SchedTypes
<1>1. UNCHANGED <<Paths, Plots, Passes, NumBuffers>>
  BY <1>0, JobSame
<1>2. WriterTypes' /\ ProcTypes' /\ DiskTypes'
  BY TypesFrame DEF Flush
<1>3. Active(path) /\ held /\ inBuffer > 0 /\ warpOffset \in [Paths -> Nat] /\ filesDone \in [Paths -> Nat]
      /\ nonces \in [Paths -> Nat] /\ bufStart \in Nat /\ seeds \in [Paths -> GivenSeeds]
      /\ \A p \in Paths : warpOffset[p] <= Warps[p] /\ filesDone[p] <= Plots[p]
  BY <1>0 DEF SchedulerRight, Place, Types, SchedTypes
<1>4. filesDone[path] + 1 \in 1 .. Plots[path] /\ Plots[path] \in Nat
  BY <1>0, <1>3, JobFacts DEF Active
<1>5. seeds[path] \in SeedIds
  <2>1. seeds[path] = SeedOf(path, filesDone[path] + 1)
    BY <1>0, <1>3 DEF SchedulerRight, Place
  <2> QED
    BY <1>0, <1>4, <2>1, SeedOfType DEF Types
<1>6. QueueTypes' /\ held' \in BOOLEAN /\ inBuffer' \in 0 .. Escalate /\ stop' \in BOOLEAN
  <2>1. FlushBuffer(seeds[path])
    BY DEF Flush
  <2> QED
    BY <1>0, <1>3, <1>5, <2>1, FlushTypes
<1>7. done \in [Paths -> Nat] /\ \A p \in Paths : done[p] <= Plots[p]
  BY <1>0, <1>3, <1>4
<1>8. path' \in Paths
  <2>1. path' = next
    BY DEF Flush
  <2> QED
    BY <1>0, <2>1, NextActiveRight
<1>9. seeds' \in [Paths -> GivenSeeds]
  <2>1. seeds' = NextSeeds(done)
    BY DEF Flush
  <2>2. CASE done[path] > filesDone[path] /\ done[path] < Plots[path]
    <3>1. done[path] + 1 \in 2 .. Plots[path]
      BY <1>0, <1>3, <1>4, <1>7, <2>2
    <3>2. SeedOf(path, done[path] + 1) = <<run, done[path] + 1>>
      BY <3>1, <1>4 DEF SeedOf
    <3>3. <<run, done[path] + 1>> \in SeedIds
      <4>1. done[path] + 1 \in 1 .. Plots[path]
        BY <3>1, <1>4
      <4> HIDE DEF done
      <4> QED
        BY <3>2, <4>1, <1>0, SeedOfType DEF Types
    <3> QED
      BY <1>0, <1>3, <2>1, <2>2, <3>3 DEF NextSeeds, GivenSeeds
  <2>3. CASE ~(done[path] > filesDone[path] /\ done[path] < Plots[path])
    BY <1>3, <2>1, <2>3 DEF NextSeeds
  <2> QED
    BY <2>2, <2>3
<1>10. /\ warpOffset' = (IF reset THEN [warpOffset EXCEPT ![path] = 0] ELSE warpOffset)
       /\ nonces' = (IF reset THEN [nonces EXCEPT ![path] = 0] ELSE nonces)
       /\ filesDone' = done
  BY DEF Flush
<1>11. /\ warpOffset' \in [Paths -> Nat] /\ nonces' \in [Paths -> Nat]
       /\ \A p \in Paths : warpOffset'[p] <= Warps[p]
  BY <1>0, <1>3, <1>10, JobFacts
<1>12. bufStart' \in Nat
  <2>1. path' = next /\ bufStart' \in {warpOffset'[next], warpOffset[path], bufStart}
    BY DEF Flush
  <2> QED
    BY <1>0, <1>3, <1>8, <1>11, <2>1
<1>13. filesDone' \in [Paths -> Nat] /\ \A p \in Paths : filesDone'[p] <= Plots[p]
  BY <1>7, <1>10
<1>14. SchedTypes'
  BY <1>0, <1>1, <1>6, <1>8, <1>9, <1>11, <1>12, <1>13 DEF Types, SchedTypes
<1> QED
  BY <1>2, <1>6, <1>14 DEF Types

LEMMA DrainTypes ==
  ASSUME Types, SchedulerRight, Drain
  PROVE  Types'
<1>0. /\ job \in Jobs /\ bufPath \in Paths /\ pc = "drain" /\ pc' = "end" /\ UNCHANGED job
      /\ UNCHANGED <<path, seeds, warpOffset, filesDone, nonces, pass, slots, bufPath, endTo, pool>>
  BY DEF Drain, procVars, Types, ProcTypes, SchedTypes
<1>1. UNCHANGED <<Paths, Plots, Passes, NumBuffers>>
  BY <1>0, JobSame
<1>2. WriterTypes' /\ ProcTypes' /\ DiskTypes'
  BY TypesFrame DEF Drain
<1>3. bufStart' \in Nat
  BY <1>0 DEF Drain, Types, SchedTypes
<1>4. QueueTypes' /\ held' \in BOOLEAN /\ inBuffer' \in 0 .. Escalate /\ stop' \in BOOLEAN
  <2>1. CASE inBuffer > 0 /\ held
    <3>1. bufPath = path /\ filesDone[path] + 1 \in 1 .. Plots[path]
      BY <1>0, <2>1, JobFacts DEF SchedulerRight, BufferRight, Types, SchedTypes
    <3>2. Active(path)
      BY <2>1 DEF SchedulerRight, BufferRight, Active
    <3>3. seeds[path] = SeedOf(path, filesDone[path] + 1)
      BY <1>0, <3>1, <3>2 DEF SchedulerRight, Place
    <3>4. seeds[bufPath] \in SeedIds
      BY <1>0, <3>1, <3>3, SeedOfType DEF Types
    <3>5. FlushBuffer(seeds[bufPath])
      BY <2>1 DEF Drain
    <3> QED
      BY <1>0, <2>1, <3>4, <3>5, FlushTypes
  <2>2. CASE ~(inBuffer > 0 /\ held)
    <3>1. UNCHANGED <<queue, held, inBuffer, stop>>
      BY <2>2 DEF Drain, FlushBuffer
    <3> QED
      BY <1>0, <1>1, <3>1 DEF Types, QueueTypes, SchedTypes
  <2> QED
    BY <2>1, <2>2
<1>5. SchedTypes'
  BY <1>0, <1>1, <1>3, <1>4 DEF Types, SchedTypes
<1> QED
  BY <1>2, <1>4, <1>5 DEF Types

LEMMA EndTypes ==
  ASSUME Types, End
  PROVE  Types'
<1>0. /\ job \in Jobs /\ endTo \in Paths /\ pc = "end" /\ pc' \in {"end", "done"} /\ UNCHANGED job
      /\ UNCHANGED <<path, seeds, warpOffset, filesDone, nonces, pass, held, slots, inBuffer, bufStart, bufPath,
                     pool, stop>>
  BY DEF End, procVars, Types, ProcTypes, SchedTypes
<1>1. UNCHANGED <<Paths, Plots, Passes, NumBuffers>> /\ NumBuffers \in Nat /\ NumPaths \in Nat
      /\ Paths = 0 .. NumPaths - 1
  BY <1>0, JobSame, JobFacts DEF Paths
<1>2. WriterTypes' /\ ProcTypes' /\ DiskTypes'
  BY TypesFrame DEF End
<1>3. endTo' \in Paths
  BY <1>0, <1>1 DEF End
<1>4. QueueTypes'
  <2>1. CASE Alive(endTo)
    <3>1. queue' = [queue EXCEPT ![endTo] = Append(@, EndTask)] /\ Len(queue[endTo]) < NumBuffers
      BY <2>1 DEF End
    <3>2. queue[endTo] \in Seq(Tasks) /\ DOMAIN queue = Paths
      BY <1>0 DEF Types, QueueTypes
    <3>3. queue'[endTo] \in Seq(Tasks) /\ Len(queue'[endTo]) <= NumBuffers
      BY <1>0, <1>1, <3>1, <3>2, TaskMakers
    <3>4. \A p \in Paths : p # endTo => queue'[p] = queue[p]
      BY <3>1, <3>2
    <3> QED
      BY <1>0, <1>1, <3>1, <3>3, <3>4 DEF Types, QueueTypes
  <2>2. CASE ~Alive(endTo)
    BY <1>0, <1>1, <2>2 DEF End, Types, QueueTypes
  <2> QED
    BY <2>1, <2>2
<1>5. SchedTypes'
  BY <1>0, <1>1, <1>3 DEF Types, SchedTypes
<1> QED
  BY <1>2, <1>4, <1>5 DEF Types

-----------------------------------------------------------------------------
(* What the scheduler sends. *)

\* While the loop runs, a writer that is not alive has failed.
LEMMA DeadIsFailed ==
  ASSUME Ending, pc \in {"hash", "compress", "flush", "drain"}, NEW p \in Paths, ~Alive(p)
  PROVE  wpc[p] = "failed"
BY DEF Ending, OwnEnding, Ended, Alive

\* The held buffer carries on where the path's position was.
LEMMA BufferTakes ==
  ASSUME Types, SchedulerRight, pc # "down", held, inBuffer > 0,
         NEW t, t = ProcessTask(seeds[path], bufStart, inBuffer, [i \in 0 .. inBuffer - 1 |-> slots[i]]),
         NEW b, b = After(path, filesDone[path] + 1, warpOffset[path])
  PROVE  Takes(path, Sent(path), t, b) /\ b \in Positions
<1>0. /\ job \in Jobs /\ path \in Paths /\ filesDone[path] \in Nat /\ warpOffset[path] \in Nat
      /\ Plots[path] \in Nat /\ Warps[path] \in Nat /\ bufStart \in Nat /\ inBuffer \in Nat
      /\ warpOffset[path] <= Warps[path]
  <2>1. job \in Jobs /\ path \in Paths
    BY DEF Types, ProcTypes, SchedTypes
  <2>2. Plots[path] \in Nat /\ Warps[path] \in Nat /\ Escalate \in Nat
    BY <2>1, JobFacts
  <2> QED
    BY <2>1, <2>2 DEF Types, SchedTypes
<1>1. bufPath = path /\ Active(path) /\ bufStart + inBuffer = warpOffset[path]
      /\ \A i \in 0 .. inBuffer - 1 : slots[i] = Right(seeds[path], bufStart + i)
  BY DEF SchedulerRight, BufferRight, Active
<1>2. seeds[path] = SeedOf(path, filesDone[path] + 1)
  BY <1>0, <1>1 DEF SchedulerRight, Place
<1>3. Sent(path) = <<filesDone[path] + 1, bufStart>> /\ filesDone[path] + 1 <= Plots[path]
  BY <1>0, <1>1 DEF Sent, Active
<1>4. /\ t.type = "process" /\ t.seed = seeds[path] /\ t.start = bufStart /\ t.n = inBuffer
      /\ t.data = [i \in 0 .. inBuffer - 1 |-> slots[i]]
  BY DEF ProcessTask
<1>5. \A i \in 0 .. t.n - 1 : t.data[i] = Right(t.seed, t.start + i)
  BY <1>0, <1>1, <1>4
<1>6. b \in Positions
  BY <1>0 DEF After, Positions
<1> QED
  BY <1>0, <1>1, <1>2, <1>3, <1>4, <1>5, <1>6 DEF Takes

LEMMA SendChains ==
  ASSUME Types, SchedulerRight, Ending, Chains, pc \in {"flush", "drain"},
         UNCHANGED <<job, run, firstSeed, writerVars, diskVars>>,
         inBuffer > 0 \/ ~held, FlushBuffer(seeds[path]),
         \A p \in Paths : Sent(p)' = IF held /\ p = path THEN After(p, filesDone[p] + 1, warpOffset[p])
                                     ELSE Sent(p)
  PROVE  Chains'
<1>0. path \in Paths /\ (held => bufPath = path) /\ UNCHANGED Paths
      /\ \A p \in Paths : queue[p] \in Seq(Tasks)
  BY JobSame DEF Types, SchedTypes, QueueTypes, SchedulerRight, BufferRight
<1>00. SchedTypes /\ ProcTypes /\ pc # "down"
  BY DEF Types
<1>1. SUFFICES ASSUME NEW p \in Paths, wpc[p] # "failed" PROVE Chain(p)'
  BY <1>0 DEF Chains, writerVars
<1>2. Chain(p)
  BY <1>1 DEF Chains
<1>3. wtask'[p] = wtask[p] /\ wpc'[p] = wpc[p]
      /\ \A s \in SeedIds : tmp'[<<p, s>>] = tmp[<<p, s>>] /\ pocx'[<<p, s>>] = pocx[<<p, s>>]
  BY DEF writerVars, diskVars
<1>4. CASE held /\ p = path
  <2>1. PICK t : t = ProcessTask(seeds[path], bufStart, inBuffer, [i \in 0 .. inBuffer - 1 |-> slots[i]])
    OBVIOUS
  <2>2. PICK b : b = After(path, filesDone[path] + 1, warpOffset[path])
    OBVIOUS
  <2>3. Takes(p, Sent(p), t, b) /\ b \in Positions
    BY <1>4, <2>1, <2>2, BufferTakes
  <2>4. Alive(path)
    BY <1>0, <1>1, <1>4, DeadIsFailed
  <2>5. queue' = [queue EXCEPT ![path] = Append(@, t)]
    BY <1>0, <1>4, <2>1, <2>4 DEF FlushBuffer
  <2>6. queue'[p] = Append(queue[p], t)
    BY <1>0, <1>4, <2>5 DEF Types, QueueTypes
  <2>7. Sent(p)' = b
    BY <1>4, <2>2
  <2> QED
    BY <1>0, <1>00, <1>2, <1>3, <2>3, <2>6, <2>7, ChainAppend
<1>5. CASE ~(held /\ p = path)
  <2>1. queue'[p] = queue[p]
    BY <1>0, <1>5 DEF FlushBuffer, Types, QueueTypes
  <2>2. Sent(p)' = Sent(p)
    BY <1>5
  <2> QED
    BY <1>0, <1>00, <1>2, <1>3, <2>1, <2>2, ChainSame
<1> QED
  BY <1>4, <1>5

\* Sending a buffer sends no EndTask, and only a failed writer makes it stop.
LEMMA SendEnding ==
  ASSUME Types, SchedulerRight, Ending, Stopping, pc \in {"flush", "drain"}, pc' \in {"hash", "drain", "end"},
         UNCHANGED <<procVars, writerVars>>, FlushBuffer(seeds[path])
  PROVE  Ending' /\ Stopping'
<1>0. path \in Paths /\ (held => bufPath = path) /\ UNCHANGED Paths
      /\ \A p \in Paths : queue[p] \in Seq(Tasks) /\ Paths = DOMAIN queue
  BY JobSame DEF Types, SchedTypes, QueueTypes, SchedulerRight, BufferRight, procVars
<1>1. Ending'
  <2>1. SUFFICES ASSUME NEW p \in Paths
                 PROVE  /\ \A i \in DOMAIN queue'[p] : queue'[p][i].type \notin {"none", "end"}
                        /\ wpc[p] # "ended"
                        /\ wpc[p] = "failed" => queue'[p] = <<>>
    BY <1>0 DEF Ending, OwnEnding, writerVars
  <2>2. /\ \A i \in DOMAIN queue[p] : queue[p][i].type \notin {"none", "end"}
        /\ wpc[p] # "ended"
        /\ wpc[p] = "failed" => queue[p] = <<>>
    <3>1. OwnEnding(p)
      BY DEF Ending
    <3>2. ~Ended(p)
      BY DEF Ended
    <3> QED
      BY <3>1, <3>2 DEF OwnEnding
  <2>3. CASE queue'[p] = queue[p]
    BY <2>2, <2>3
  <2>4. CASE queue'[p] # queue[p]
    <3> DEFINE t == ProcessTask(seeds[path], bufStart, inBuffer, [i \in 0 .. inBuffer - 1 |-> slots[i]])
    <3>1. Alive(p) /\ queue'[p] = Append(queue[p], t)
      BY <1>0, <2>4 DEF FlushBuffer
    <3>2. t.type = "process"
      BY DEF ProcessTask
    <3> HIDE DEF t
    <3>3. \A i \in DOMAIN queue'[p] : \/ i \in DOMAIN queue[p] /\ queue'[p][i] = queue[p][i]
                                      \/ queue'[p][i] = t
      BY <1>0, <3>1
    <3> QED
      BY <2>2, <3>1, <3>2, <3>3 DEF Alive
  <2> QED
    BY <2>3, <2>4
<1>2. Stopping'
  <2>1. stop' = stop \/ \E p \in Paths : wpc[p] = "failed"
    <3>1. CASE held /\ ~Alive(bufPath)
      BY <1>0, <3>1, DeadIsFailed
    <3> QED
      BY <3>1 DEF FlushBuffer
  <2> QED
    BY <1>0, <2>1 DEF Stopping, procVars, writerVars
<1> QED
  BY <1>1, <1>2

LEMMA HashSends ==
  ASSUME Types, SchedulerRight, Ending, Stopping, Chains, Hash
  PROVE  Chains' /\ Ending' /\ Stopping'
<1>0. /\ pc = "hash" /\ pc' \in {"drain", "compress"}
      /\ UNCHANGED <<job, run, firstSeed, result, wpc, wtask, tmp, pocx, queue, stop, filesDone, held, bufPath,
                     bufStart, warpOffset>>
  BY DEF Hash, procVars, writerVars, sharedVars, diskVars
<1>1. UNCHANGED <<Paths, Plots>> /\ \A p \in Paths : queue[p] \in Seq(Tasks)
  BY <1>0, JobSame DEF Types, QueueTypes
<1>2. Chains'
  <2>1. ASSUME NEW p \in Paths, wpc[p] # "failed" PROVE Chain(p)'
    <3>1. Sent(p)' = Sent(p) /\ Chain(p)
      BY <1>0, <1>1, <2>1 DEF Sent, Chains
    <3> QED
      BY <1>0, <1>1, <3>1, ChainSame DEF Types
  <2> QED
    BY <1>0, <1>1, <2>1 DEF Chains
<1>3. Ending' /\ Stopping'
  BY <1>0, <1>1 DEF Ending, OwnEnding, Ended, Stopping
<1> QED
  BY <1>2, <1>3

LEMMA CompressSends ==
  ASSUME Types, SchedulerRight, Ending, Stopping, Chains, Compress
  PROVE  Chains' /\ Ending' /\ Stopping'
<1>0. /\ pc = "compress" /\ pc' \in {"hash", "flush"} /\ path \in Paths
      /\ UNCHANGED <<job, run, firstSeed, result, wpc, wtask, tmp, pocx, queue, stop, filesDone>>
  BY DEF Compress, procVars, writerVars, diskVars, Types, SchedTypes
<1>1. UNCHANGED <<Paths, Plots>> /\ \A p \in Paths : queue[p] \in Seq(Tasks)
  BY <1>0, JobSame DEF Types, QueueTypes
<1>2. /\ held' /\ bufPath' = path /\ (held => bufPath = path)
      /\ bufStart' = IF held THEN bufStart ELSE warpOffset[path]
      /\ \A p \in Paths : p # path => warpOffset'[p] = warpOffset[p]
  BY <1>0 DEF Compress, SchedulerRight, BufferRight, Types, SchedTypes
<1>3. Chains'
  <2>1. ASSUME NEW p \in Paths, wpc[p] # "failed" PROVE Chain(p)'
    <3>1. Sent(p)' = Sent(p) /\ Chain(p)
      BY <1>0, <1>1, <1>2, <2>1 DEF Sent, Chains
    <3> QED
      BY <1>0, <1>1, <3>1, ChainSame DEF Types
  <2> QED
    BY <1>0, <1>1, <2>1 DEF Chains
<1>4. Ending' /\ Stopping'
  BY <1>0, <1>1 DEF Ending, OwnEnding, Ended, Stopping
<1> QED
  BY <1>3, <1>4

LEMMA FlushSends ==
  ASSUME Types, SchedulerRight, Ending, Stopping, Chains, Flush
  PROVE  Chains' /\ Ending' /\ Stopping'
<1> DEFINE boundary == warpOffset[path] = Warps[path]
           done     == IF boundary THEN [filesDone EXCEPT ![path] = @ + 1] ELSE filesDone
           allDone  == \A p \in Paths : done[p] >= Plots[p]
           leave    == NumPaths > 1 /\ allDone
           reset    == boundary /\ ~leave
<1>0. /\ pc = "flush" /\ pc' \in {"hash", "drain"} /\ path \in Paths /\ FlushBuffer(seeds[path]) /\ job \in Jobs
      /\ UNCHANGED <<procVars, writerVars, diskVars>>
  BY DEF Flush, Types, SchedTypes, ProcTypes
<1>1. held /\ inBuffer > 0 /\ bufPath = path /\ Active(path) /\ held' = FALSE
  BY <1>0 DEF SchedulerRight, BufferRight, Place, FlushBuffer
<1>2. /\ filesDone \in [Paths -> Nat] /\ warpOffset \in [Paths -> Nat] /\ UNCHANGED <<Paths, Plots>>
      /\ Plots[path] \in Nat /\ filesDone[path] < Plots[path]
  BY <1>0, <1>1, JobFacts, JobSame DEF Types, SchedTypes, Active, procVars
<1>3. /\ filesDone' = done
      /\ warpOffset' = (IF reset THEN [warpOffset EXCEPT ![path] = 0] ELSE warpOffset)
  BY DEF Flush
<1>4. ASSUME NEW p \in Paths
      PROVE  Sent(p)' = IF p = path THEN After(p, filesDone[p] + 1, warpOffset[p]) ELSE Sent(p)
  <2>1. Sent(p)' = <<done[p] + 1, IF done[p] >= Plots[p] THEN 0 ELSE warpOffset'[p]>>
    BY <1>1, <1>2, <1>3 DEF Sent
  <2>2. CASE p # path
    BY <1>0, <1>1, <1>2, <1>3, <2>1, <2>2 DEF Sent
  <2>3. CASE p = path /\ boundary
    <3>1. done[p] = filesDone[p] + 1
      BY <1>0, <1>2, <2>3
    <3>2. (IF done[p] >= Plots[p] THEN 0 ELSE warpOffset'[p]) = 0
      <4>1. CASE leave
        BY <4>1
      <4>2. CASE ~leave
        BY <1>0, <1>2, <1>3, <2>3, <4>2
      <4> QED
        BY <4>1, <4>2
    <3> QED
      BY <2>1, <2>3, <3>1, <3>2 DEF After
  <2>4. CASE p = path /\ ~boundary
    <3>1. done[p] = filesDone[p] /\ ~(done[p] >= Plots[p]) /\ warpOffset'[p] = warpOffset[p]
      BY <1>0, <1>2, <1>3, <2>4
    <3> QED
      BY <2>1, <2>4, <3>1 DEF After
  <2> QED
    BY <2>2, <2>3, <2>4
<1>5. Chains'
  <2>1. \A p \in Paths : Sent(p)' = IF held /\ p = path THEN After(p, filesDone[p] + 1, warpOffset[p])
                                    ELSE Sent(p)
    BY <1>1, <1>4
  <2>2. UNCHANGED <<job, run, firstSeed, writerVars, diskVars>>
    BY <1>0 DEF procVars
  <2> QED
    BY <1>0, <1>1, <2>1, <2>2, SendChains
<1>6. Ending' /\ Stopping'
  BY <1>0, SendEnding
<1> QED
  BY <1>5, <1>6

LEMMA DrainSends ==
  ASSUME Types, SchedulerRight, Ending, Stopping, Chains, Drain
  PROVE  Chains' /\ Ending' /\ Stopping'
<1>0. /\ pc = "drain" /\ pc' = "end" /\ path \in Paths /\ job \in Jobs
      /\ UNCHANGED <<procVars, writerVars, diskVars, bufPath, filesDone, warpOffset>>
  BY DEF Drain, Types, SchedTypes, ProcTypes
<1>1. UNCHANGED <<Paths, Plots, job, run, firstSeed, wpc, wtask, tmp, pocx, result>>
      /\ \A p \in Paths : queue[p] \in Seq(Tasks)
  BY <1>0, JobSame DEF procVars, writerVars, diskVars, Types, QueueTypes
<1>2. CASE inBuffer > 0 /\ held
  <2>1. bufPath = path /\ Active(path) /\ filesDone[path] \in Nat /\ Plots[path] \in Nat
    BY <1>0, <1>2, JobFacts DEF SchedulerRight, BufferRight, Active, Types, SchedTypes
  <2>2. FlushBuffer(seeds[path]) /\ held' = FALSE
    BY <1>2, <2>1 DEF Drain, FlushBuffer
  <2>3. warpOffset[path] < Warps[path] /\ warpOffset[path] \in Nat /\ Warps[path] \in Nat
    BY <1>0, <2>1, JobFacts DEF SchedulerRight, Place, Types, SchedTypes
  <2>4. ASSUME NEW p \in Paths
        PROVE  Sent(p)' = IF held /\ p = path THEN After(p, filesDone[p] + 1, warpOffset[p]) ELSE Sent(p)
    BY <1>0, <1>1, <1>2, <2>1, <2>2, <2>3 DEF Sent, After, Active
  <2>5. Chains'
    BY <1>0, <1>1, <1>2, <2>2, <2>4, SendChains
  <2>6. Ending' /\ Stopping'
    BY <1>0, <2>2, SendEnding
  <2> QED
    BY <2>5, <2>6
<1>3. CASE ~(inBuffer > 0 /\ held)
  <2>1. UNCHANGED <<queue, stop, held>> /\ (held => UNCHANGED bufStart)
    BY <1>0, <1>3 DEF Drain, FlushBuffer, Types, SchedTypes
  <2>2. ASSUME NEW p \in Paths, wpc[p] # "failed" PROVE Chain(p)'
    <3>1. Sent(p)' = Sent(p) /\ Chain(p)
      BY <1>0, <1>1, <2>1, <2>2 DEF Sent, Chains
    <3> QED
      BY <1>0, <1>1, <2>1, <3>1, ChainSame DEF Types
  <2>3. Chains'
    BY <1>0, <1>1, <2>2 DEF Chains
  <2>4. Ending' /\ Stopping'
    BY <1>0, <1>1, <2>1 DEF Ending, OwnEnding, Ended, Stopping
  <2> QED
    BY <2>3, <2>4
<1> QED
  BY <1>2, <1>3

LEMMA EndSends ==
  ASSUME Types, SchedulerRight, Ending, Stopping, Chains, End
  PROVE  Chains' /\ Ending' /\ Stopping'
<1>0. /\ pc = "end" /\ pc' \in {"end", "done"} /\ endTo \in Paths
      /\ UNCHANGED <<job, run, firstSeed, result, wpc, wtask, tmp, pocx, stop, filesDone, held, bufPath,
                     bufStart, warpOffset>>
      /\ queue' = IF Alive(endTo) THEN [queue EXCEPT ![endTo] = Append(@, EndTask)] ELSE queue
  BY DEF End, procVars, writerVars, diskVars, Types, SchedTypes
<1>1. /\ UNCHANGED <<Paths, Plots>> /\ Paths \subseteq Nat
      /\ \A p \in Paths : queue[p] \in Seq(Tasks) /\ DOMAIN queue = Paths
  BY <1>0, JobSame, JobFacts DEF Types, QueueTypes, ProcTypes
<1>2. \A p \in Paths : Sent(p)' = Sent(p)
  BY <1>0, <1>1 DEF Sent
<1>3. ASSUME NEW p \in Paths
      PROVE  \/ queue'[p] = queue[p]
             \/ p = endTo /\ queue'[p] = Append(queue[p], EndTask) /\ Alive(p)
  BY <1>0, <1>1
<1>4. Chains'
  <2>1. ASSUME NEW p \in Paths, wpc[p] # "failed" PROVE Chain(p)'
    <3>1. Chain(p)
      BY <1>0, <2>1 DEF Chains
    <3>2. CASE queue'[p] = queue[p]
      BY <1>0, <1>1, <1>2, <3>1, <3>2, ChainSame DEF Types
    <3>3. CASE queue'[p] = Append(queue[p], EndTask)
      <4>1. PICK t : t = EndTask
        OBVIOUS
      <4>2. \E q \in Positions : q = Sent(p)
        <5>1. filesDone[p] \in Nat /\ warpOffset[p] \in Nat /\ bufStart \in Nat
          BY DEF Types, SchedTypes
        <5>2. \A k \in Nat : k + 1 \in Nat \ {0}
          OBVIOUS
        <5>3. Sent(p) \in Positions
          BY <5>1, <5>2 DEF Sent, Positions
        <5> QED
          BY <5>3
      <4>3. PICK b : b = Sent(p) /\ b \in Positions
        BY <4>2
      <4>4. Takes(p, Sent(p), t, b)
        BY <4>1, <4>3, TaskMakers DEF Takes
      <4> QED
        BY <1>0, <1>1, <1>2, <3>1, <3>3, <4>1, <4>3, <4>4, ChainAppend DEF Types
    <3> QED
      BY <1>3, <3>2, <3>3
  <2> QED
    BY <1>0, <1>1, <2>1 DEF Chains
<1>5. Ending'
  <2>1. ASSUME NEW p \in Paths
        PROVE  /\ \A i \in DOMAIN queue'[p] :
                    /\ queue'[p][i].type # "none"
                    /\ queue'[p][i].type = "end" => i = Len(queue'[p]) /\ Ended(p)'
               /\ wpc[p] = "ended" => queue'[p] = <<>> /\ Ended(p)'
               /\ wpc[p] = "failed" => queue'[p] = <<>>
    <3>1. /\ \A i \in DOMAIN queue[p] :
                /\ queue[p][i].type # "none"
                /\ queue[p][i].type = "end" => i = Len(queue[p]) /\ Ended(p)
          /\ wpc[p] = "ended" => queue[p] = <<>> /\ Ended(p)
          /\ wpc[p] = "failed" => queue[p] = <<>>
      <4>1. OwnEnding(p)
        BY <1>0 DEF Ending
      <4> QED
        BY <4>1 DEF OwnEnding
    <3>2. /\ Ended(p) => Ended(p)'
          /\ Ended(endTo) = FALSE
          /\ p = endTo => Ended(p)'
      <4>1. endTo' = endTo + 1 \/ pc' = "done"
        BY DEF End
      <4>2. p \in Nat /\ endTo \in Nat
        BY <1>0, <1>1
      <4>3. pc' = "end" => endTo' = endTo + 1
        BY <4>1
      <4> QED
        BY <1>0, <4>2, <4>3 DEF Ended
    <3>3. CASE queue'[p] = queue[p]
      BY <3>1, <3>2, <3>3
    <3>4. CASE p = endTo /\ queue'[p] = Append(queue[p], EndTask) /\ Alive(p)
      <4>1. \A i \in DOMAIN queue[p] : queue[p][i].type # "end"
        BY <3>1, <3>2, <3>4
      <4>2. \A i \in DOMAIN queue'[p] : \/ i \in DOMAIN queue[p] /\ queue'[p][i] = queue[p][i]
                                        \/ i = Len(queue'[p]) /\ queue'[p][i] = EndTask
        BY <1>1, <3>4
      <4> QED
        BY <1>1, <3>1, <3>2, <3>4, <4>1, <4>2, TaskMakers DEF Alive
    <3> QED
      BY <1>3, <3>3, <3>4
  <2>2. \A p \in Paths : OwnEnding(p)'
    BY <1>0, <2>1 DEF OwnEnding
  <2> QED
    BY <1>1, <2>2 DEF Ending
<1>6. Stopping'
  BY <1>0, <1>1 DEF Stopping
<1> QED
  BY <1>4, <1>5, <1>6

\* The scheduler and the user leave the files and the writers alone.
LEMMA DiskFrame ==
  ASSUME DiskRight, Stopping', pc # "down", pc' # "down", UNCHANGED <<writerVars, procVars, diskVars>>
  PROVE  DiskRight'
<1>0. UNCHANGED <<Paths, Plots, Passes, run, firstSeed, wpc, wtask, tmp, pocx, faults>>
  BY JobSame DEF procVars, writerVars, diskVars
<1>1. result' # "ok"
  BY DEF Stopping
<1>2. OkMeansWritten' /\ NoProcess'
  BY <1>1 DEF OkMeansWritten, NoProcess
<1>3. FilesOK' /\ MarkerCoversWarps' /\ FinishedIsRight'
  BY <1>0 DEF DiskRight, FilesOK, FileOK, HasMarker, MarkerCoversWarps, FinishedIsRight, Right
<1>4. Writers'
  BY <1>0 DEF DiskRight, Writers, WriterRight, FileOf, ResumeInfo, HasMarker, Right
<1>5. Seeds' /\ Unsized' /\ WriterFailsOnUnsizedFileOnly'
  BY <1>0 DEF DiskRight, Seeds, Untouched, Unsized, WriterFailsOnUnsizedFileOnly
<1> QED
  BY <1>2, <1>3, <1>4, <1>5 DEF DiskRight

LEMMA SchedulerKeeps ==
  ASSUME IInv, Scheduler
  PROVE  IInv'
<1>0. pc # "down" /\ pc' # "down" /\ UNCHANGED <<writerVars, procVars, diskVars>>
  BY DEF Scheduler, Hash, Compress, Flush, Drain, End
<1>1. Types' /\ SchedulerRight' /\ Chains' /\ Ending' /\ Stopping'
  <2> USE DEF IInv
  <2>1. CASE Hash
    BY <2>1, HashRight, HashTypes, HashSends
  <2>2. CASE Compress
    BY <2>2, CompressRight, CompressTypes, CompressSends
  <2>3. CASE Flush
    BY <2>3, FlushRight, FlushActionTypes, FlushSends
  <2>4. CASE Drain
    BY <2>4, DrainRight, DrainTypes, DrainSends
  <2>5. CASE End
    BY <2>5, EndRight, EndTypes, EndSends
  <2> QED
    BY <2>1, <2>2, <2>3, <2>4, <2>5 DEF Scheduler
<1>2. DiskRight'
  BY <1>0, <1>1, DiskFrame DEF IInv
<1> QED
  BY <1>1, <1>2 DEF IInv

\* The user requests a stop.
LEMMA RequestStopKeeps ==
  ASSUME IInv, RequestStop
  PROVE  IInv'
<1>0. /\ pc # "down" /\ job.stops /\ stop' = TRUE
      /\ UNCHANGED <<pc, schedVars, pool, queue, writerVars, procVars, diskVars>>
      /\ UNCHANGED <<Paths, Plots, Passes, NumBuffers, job, run, firstSeed, wpc, wtask, tmp, pocx, result>>
  BY JobSame DEF RequestStop, procVars, writerVars, diskVars
<1>1. Types'
  <2>1. WriterTypes' /\ ProcTypes' /\ DiskTypes'
    BY <1>0, TypesFrame DEF IInv
  <2>2. SchedTypes' /\ QueueTypes'
    BY <1>0 DEF IInv, Types, SchedTypes, QueueTypes, schedVars
  <2> QED
    BY <2>1, <2>2 DEF Types
<1>2. SchedulerRight'
  BY <1>0, SchedulerSame DEF IInv
<1>3. Ending' /\ Stopping'
  BY <1>0 DEF IInv, Ending, OwnEnding, Ended, Stopping, schedVars
<1>4. Chains'
  <2>1. ASSUME NEW p \in Paths, wpc[p] # "failed" PROVE Chain(p)'
    <3>1. Sent(p)' = Sent(p) /\ Chain(p) /\ queue[p] \in Seq(Tasks) /\ SchedTypes /\ ProcTypes
      BY <1>0, <2>1 DEF IInv, Sent, Chains, schedVars, Types, QueueTypes
    <3> QED
      BY <1>0, <3>1, ChainSame
  <2> QED
    BY <1>0, <2>1 DEF Chains
<1>5. DiskRight'
  BY <1>0, <1>3, DiskFrame DEF IInv
<1> QED
  BY <1>1, <1>2, <1>3, <1>4, <1>5 DEF IInv

-----------------------------------------------------------------------------
(* The steps of the writers. *)

\* A step of the writer of p that touches at most file f.
OthersSame(p, f) ==
    /\ UNCHANGED <<pc, schedVars, job, run, firstSeed, result>>
    /\ stop => stop'
    /\ faults > 0 => faults' > 0
    /\ \A q \in Paths \ {p} : queue'[q] = queue[q] /\ wpc'[q] = wpc[q] /\ wtask'[q] = wtask[q]
    /\ \A g \in Files : g # f => tmp'[g] = tmp[g] /\ pocx'[g] = pocx[g]

\* What such a step owes for its own writer.
OwnUnsized(p) ==
    \A j \in 2 .. Plots[p] : tmp[<<p, <<run, j>> >>].size = "empty" =>
        \/ wpc[p] = "alloc" /\ wtask[p].seed = <<run, j>>
        \/ faults > 0

OwnFailure(p) ==
    faults = 0 /\ wpc[p] = "failed" => tmp[<<p, firstSeed[p]>>].size = "empty"

\* What it owes for its file.
OwnFile(f) ==
    /\ FileOK(f)
    /\ \A w \in 0 .. tmp[f].marker - 1 : tmp[f].data[w] = Right(f[2], w)
    /\ pocx[f] # NoPocx => \A w \in 0 .. Warps[f[1]] - 1 : pocx[f].data[w] = Right(f[2], w)
    /\ f[2][1] > run => Untouched(f)

\* A writer that works on a task works on a file.
LEMMA TaskFile ==
  ASSUME Types, Writers, NEW p \in Paths,
         wpc[p] \in {"open", "alloc", "mark0", "write", "last", "marker", "rename", "finalize"}
  PROVE  /\ wtask[p] \in Tasks /\ wtask[p].type \in {"process", "finalize"} /\ wtask[p].seed \in SeedIds
         /\ FileOf(p) \in Files /\ FileOf(p)[1] = p /\ FileOf(p)[2] = wtask[p].seed
<1>1. wtask[p] \in Tasks /\ wtask[p].type \in {"process", "finalize"} /\ job \in Jobs
  BY DEF Writers, WriterRight, Types, WriterTypes, ProcTypes
<1>2. wtask[p].seed \in SeedIds
  BY <1>1, TaskFacts
<1> QED
  BY <1>1, <1>2, FileFacts DEF FileOf

LEMMA WriterFrame ==
  ASSUME IInv, Types', NEW p \in Paths, wpc[p] # "ended", NEW f \in Files, f[1] = p, OthersSame(p, f),
         wpc'[p] # "failed" => Chain(p)',
         stop' => stop \/ wpc'[p] = "failed", wpc[p] # "failed",
         OwnEnding(p)', OwnUnsized(p)', OwnFailure(p)', WriterRight(p)', OwnFile(f)'
  PROVE  IInv'
<1>0. /\ pc # "down" /\ pc' = pc /\ job \in Jobs /\ UNCHANGED <<Paths, Plots, Passes, run, firstSeed, endTo>>
      /\ SchedTypes /\ ProcTypes /\ result = "none" /\ UNCHANGED result
      /\ UNCHANGED <<path, held, bufPath, bufStart, warpOffset, filesDone>>
  BY JobSame DEF IInv, DiskRight, NoProcess, OthersSame, Types, ProcTypes, schedVars, Stopping
<1>1. ASSUME NEW q \in Paths, q # p
      PROVE  /\ queue'[q] = queue[q] /\ wpc'[q] = wpc[q] /\ wtask'[q] = wtask[q]
             /\ \A s \in SeedIds : <<q, s>> \in Files /\ tmp'[<<q, s>>] = tmp[<<q, s>>] /\ pocx'[<<q, s>>] = pocx[<<q, s>>]
  BY <1>0, <1>1, FileFacts DEF OthersSame
<1>2. SchedulerRight'
  BY SchedulerSame DEF IInv, OthersSame
<1>3. Ending'
  BY <1>0, <1>1 DEF IInv, Ending, OwnEnding, Ended
<1>4. Stopping'
  BY <1>0, <1>1 DEF IInv, Stopping, OthersSame
<1>5. Chains'
  <2>1. ASSUME NEW q \in Paths, q # p, wpc[q] # "failed" PROVE Chain(q)'
    <3>1. Sent(q)' = Sent(q) /\ Chain(q) /\ queue[q] \in Seq(Tasks)
      BY <1>0, <2>1 DEF IInv, Sent, Chains, Types, QueueTypes
    <3> QED
      BY <1>0, <1>1, <2>1, <3>1, ChainSame DEF OthersSame
  <2> QED
    BY <1>0, <1>1, <2>1 DEF Chains
<1>6. FilesOK' /\ MarkerCoversWarps' /\ FinishedIsRight'
  <2>1. ASSUME NEW g \in Files, g # f
        PROVE  OwnFile(g)'
    BY <1>0, <2>1 DEF IInv, DiskRight, FilesOK, FileOK, MarkerCoversWarps, FinishedIsRight, OthersSame, OwnFile,
          HasMarker, Right, Seeds, Untouched
  <2>2. \A g \in Files : OwnFile(g)'
    BY <2>1
  <2> QED
    BY <2>2 DEF FilesOK, MarkerCoversWarps, FinishedIsRight, OwnFile
<1>7. Seeds'
  BY <1>0 DEF IInv, DiskRight, Seeds, OthersSame, OwnFile, Untouched
<1>8. Writers'
  <2>1. ASSUME NEW q \in Paths, q # p PROVE WriterRight(q)'
    <3>1. WriterRight(q)
      BY DEF IInv, DiskRight, Writers
    <3>2. CASE wpc[q] \in {"recv", "ended", "failed", "finalize"}
      BY <1>1, <2>1, <3>1, <3>2 DEF WriterRight
    <3>3. CASE wpc[q] \in {"open", "alloc", "mark0", "write", "last", "marker", "rename"}
      <4>1. FileOf(q) \in Files /\ tmp'[FileOf(q)] = tmp[FileOf(q)] /\ FileOf(q)' = FileOf(q)
        BY <1>1, <2>1, <3>3, TaskFile DEF IInv, DiskRight, FileOf
      <4> QED
        BY <1>0, <1>1, <2>1, <3>1, <4>1 DEF WriterRight, ResumeInfo, HasMarker, Right
    <3> QED
      BY <3>2, <3>3 DEF IInv, Types, WriterTypes
  <2> QED
    BY <1>0, <2>1 DEF Writers
<1>9. Unsized'
  <2>1. ASSUME NEW q \in Paths, q # p, NEW j \in 2 .. Plots[q], tmp'[<<q, <<run, j>> >>].size = "empty"
        PROVE  (wpc'[q] = "alloc" /\ wtask'[q].seed = <<run, j>>) \/ faults' > 0
    <3>1. <<run, j>> \in SeedIds
      <4>1. j \in 1 .. Plots[q] /\ SeedOf(q, j) = <<run, j>>
        BY <1>0, JobFacts DEF SeedOf
      <4> QED
        BY <1>0, <4>1, SeedOfType
    <3>2. tmp[<<q, <<run, j>> >>].size = "empty"
      BY <1>1, <2>1, <3>1
    <3> QED
      BY <1>0, <1>1, <2>1, <3>2 DEF IInv, DiskRight, Unsized, OthersSame
  <2> QED
    BY <1>0, <2>1 DEF Unsized, OwnUnsized
<1>10. WriterFailsOnUnsizedFileOnly'
  <2>1. ASSUME NEW q \in Paths, q # p, faults' = 0, wpc'[q] = "failed"
        PROVE  tmp'[<<q, firstSeed[q]>>].size = "empty"
    <3>1. firstSeed[q] \in SeedIds /\ faults = 0
      BY <1>0, <2>1, JobFacts DEF ProcTypes, OthersSame
    <3> QED
      BY <1>1, <2>1, <3>1 DEF IInv, DiskRight, WriterFailsOnUnsizedFileOnly
  <2> QED
    BY <1>0, <2>1 DEF WriterFailsOnUnsizedFileOnly, OwnFailure
<1>11. OkMeansWritten' /\ NoProcess'
  BY <1>0 DEF OkMeansWritten, NoProcess
<1> QED
  BY <1>2, <1>3, <1>4, <1>5, <1>6, <1>7, <1>8, <1>9, <1>10, <1>11 DEF IInv, DiskRight

LEMMA OwnFileSame ==
  ASSUME IInv, UNCHANGED <<job, run>>, NEW f \in Files, tmp'[f] = tmp[f], pocx'[f] = pocx[f]
  PROVE  OwnFile(f)'
BY JobSame DEF IInv, DiskRight, FilesOK, FileOK, MarkerCoversWarps, FinishedIsRight, OwnFile, HasMarker, Right,
   Seeds, Untouched

LEMMA WriterTypesFrame ==
  ASSUME Types, UNCHANGED <<pc, schedVars, job, run, firstSeed, result>>, stop' \in BOOLEAN,
         faults' \in 0 .. job.faults, QueueTypes', WriterTypes', DiskTypes'
  PROVE  Types'
<1>1. UNCHANGED <<Paths, Plots, Passes, NumBuffers>>
  BY JobSame
<1>2. SchedTypes' /\ ProcTypes'
  BY <1>1 DEF Types, SchedTypes, ProcTypes, schedVars
<1> QED
  BY <1>2 DEF Types

\* A writer gives up.
LEMMA FailKeeps ==
  ASSUME IInv, NEW p \in Paths,
         wpc[p] \in {"open", "alloc", "mark0", "write", "last", "marker", "rename"}, Fail(p),
         UNCHANGED <<pc, schedVars, pool, job, run, firstSeed, result, diskVars>>,
         \/ faults' = faults + 1 /\ faults < job.faults
         \/ /\ UNCHANGED faults /\ wpc[p] # "alloc"
            /\ faults = 0 => tmp[<<p, firstSeed[p]>>].size = "empty"
  PROVE  IInv'
<1>1. /\ wpc' = [wpc EXCEPT ![p] = "failed"] /\ wtask' = [wtask EXCEPT ![p] = NoTask]
      /\ queue' = [queue EXCEPT ![p] = <<>>] /\ stop' = TRUE
      /\ UNCHANGED <<Paths, Plots, NumBuffers, tmp, pocx>>
  BY JobSame DEF Fail, diskVars
<1>2. /\ wpc \in [Paths -> {"recv", "open", "alloc", "mark0", "write", "last", "marker", "rename", "finalize",
                            "ended", "failed"}]
      /\ wtask \in [Paths -> Tasks] /\ DOMAIN queue = Paths
      /\ \A q \in Paths : queue[q] \in Seq(Tasks) /\ Len(queue[q]) <= NumBuffers
      /\ faults \in 0 .. job.faults /\ NumBuffers \in Nat /\ job.faults \in Nat /\ job \in Jobs
  BY JobFacts DEF IInv, Types, WriterTypes, QueueTypes, ProcTypes
<1>3. wpc'[p] = "failed" /\ wtask'[p] = NoTask /\ queue'[p] = <<>>
      /\ \A q \in Paths \ {p} : queue'[q] = queue[q] /\ wpc'[q] = wpc[q] /\ wtask'[q] = wtask[q]
  BY <1>1, <1>2
<1>4. Types'
  <2>1. QueueTypes'
    <3>1. ASSUME NEW q \in Paths PROVE queue'[q] \in Seq(Tasks) /\ Len(queue'[q]) <= NumBuffers
      <4>1. CASE q = p
        <5>1. queue'[q] = <<>>
          BY <1>3, <4>1
        <5>2. <<>> \in Seq(Tasks) /\ Len(<<>>) <= NumBuffers
          BY <1>2
        <5> QED
          BY <5>1, <5>2
      <4>2. CASE q # p
        BY <1>2, <1>3, <4>2
      <4> QED
        BY <4>1, <4>2
    <3> QED
      BY <1>1, <1>2, <3>1 DEF QueueTypes, IInv, Types
  <2>2. WriterTypes'
    BY <1>1, <1>2, TaskMakers DEF WriterTypes
  <2>3. DiskTypes'
    BY <1>1 DEF IInv, Types, DiskTypes
  <2>4. faults' \in 0 .. job.faults /\ stop' \in BOOLEAN
    BY <1>1, <1>2
  <2> QED
    BY <2>1, <2>2, <2>3, <2>4, WriterTypesFrame DEF IInv
<1>5. PICK f \in Files : f = FileOf(p) /\ f[1] = p
  BY TaskFile DEF IInv, DiskRight
<1>6. OthersSame(p, f)
  BY <1>1, <1>2, <1>3 DEF OthersSame
<1>7. OwnFile(f)'
  BY <1>1, OwnFileSame
<1>8. OwnEnding(p)' /\ WriterRight(p)'
  BY <1>3 DEF OwnEnding, WriterRight
<1>9. OwnUnsized(p)' /\ OwnFailure(p)'
  <2>1. CASE faults' = faults + 1
    BY <1>2, <2>1 DEF OwnUnsized, OwnFailure
  <2>2. CASE UNCHANGED faults /\ wpc[p] # "alloc" /\ (faults = 0 => tmp[<<p, firstSeed[p]>>].size = "empty")
    <3>1. pc # "down"
      BY DEF IInv, DiskRight, NoProcess
    <3> QED
      BY <1>1, <2>2, <3>1 DEF OwnUnsized, OwnFailure, IInv, DiskRight, Unsized
  <2> QED
    BY <2>1, <2>2
<1> QED
  BY <1>1, <1>3, <1>4, <1>5, <1>6, <1>7, <1>8, <1>9, WriterFrame

LEMMA ReceiveKeeps ==
  ASSUME IInv, NEW p \in Paths, Receive(p)
  PROVE  IInv'
<1> DEFINE t == Head(queue[p])
<1>0. /\ wpc[p] = "recv" /\ queue[p] # <<>> /\ pc # "down" /\ wtask[p] = NoTask
      /\ UNCHANGED <<pc, schedVars, pool, stop, job, run, firstSeed, result, faults, tmp, pocx>>
      /\ UNCHANGED <<Paths, Plots, NumBuffers, Passes>>
  BY JobSame DEF Receive, procVars, diskVars, IInv, DiskRight, NoProcess, Writers, WriterRight
<1>1. /\ queue' = [queue EXCEPT ![p] = Tail(@)]
      /\ wpc' = [wpc EXCEPT ![p] = CASE t.type = "end"      -> "ended"
                                     [] t.type = "finalize" -> "finalize"
                                     [] OTHER               -> "open"]
      /\ wtask' = [wtask EXCEPT ![p] = IF t.type = "end" THEN NoTask ELSE t]
  BY DEF Receive
<1>2. /\ wpc \in [Paths -> {"recv", "open", "alloc", "mark0", "write", "last", "marker", "rename", "finalize",
                            "ended", "failed"}]
      /\ wtask \in [Paths -> Tasks] /\ DOMAIN queue = Paths
      /\ \A q \in Paths : queue[q] \in Seq(Tasks) /\ Len(queue[q]) <= NumBuffers
      /\ faults \in 0 .. job.faults /\ NumBuffers \in Nat /\ stop \in BOOLEAN /\ job \in Jobs
  BY JobFacts DEF IInv, Types, WriterTypes, QueueTypes, ProcTypes, SchedTypes
<1>3. t \in Tasks /\ t = queue[p][1] /\ 1 \in DOMAIN queue[p]
  BY <1>0, <1>2
<1> HIDE DEF t
<1>4. \A q \in Paths \ {p} : queue'[q] = queue[q] /\ wpc'[q] = wpc[q] /\ wtask'[q] = wtask[q]
  BY <1>1, <1>2
<1>5. queue'[p] = Tail(queue[p]) /\ wtask'[p] = (IF t.type = "end" THEN NoTask ELSE t)
      /\ wpc'[p] = (CASE t.type = "end" -> "ended" [] t.type = "finalize" -> "finalize" [] OTHER -> "open")
  BY <1>1, <1>2
<1>6. Types'
  <2>1. QueueTypes'
    <3>1. Tail(queue[p]) \in Seq(Tasks) /\ Len(Tail(queue[p])) <= NumBuffers
      BY <1>0, <1>2
    <3>2. \A q \in Paths : queue'[q] \in Seq(Tasks) /\ Len(queue'[q]) <= NumBuffers
      BY <1>2, <1>4, <1>5, <3>1
    <3> QED
      BY <1>0, <1>1, <1>2, <3>2 DEF QueueTypes, IInv, Types
  <2>2. WriterTypes'
    BY <1>0, <1>1, <1>2, <1>3, TaskMakers DEF WriterTypes
  <2>3. DiskTypes'
    BY <1>0 DEF IInv, Types, DiskTypes
  <2> QED
    BY <1>0, <1>2, <2>1, <2>2, <2>3, WriterTypesFrame DEF IInv
<1>7. PICK f \in Files : f = <<p, firstSeed[p]>> /\ f[1] = p
  BY <1>0, <1>2, FileFacts DEF IInv, Types, ProcTypes
<1>8. OthersSame(p, f)
  BY <1>0, <1>4 DEF OthersSame
<1>9. OwnFile(f)'
  BY <1>0, OwnFileSame
<1>10. t.type # "none" /\ OwnEnding(p)
  <2>1. OwnEnding(p)
    BY <1>0 DEF IInv, Ending
  <2> QED
    BY <1>3, <2>1 DEF OwnEnding
<1>11. t.type \in {"end", "finalize", "process"}
  BY <1>3, <1>10, TaskFacts
<1>12. WriterRight(p)'
  BY <1>5, <1>11 DEF WriterRight
<1>13. Chain(p)'
  <2>1. Chain(p) /\ Sent(p)' = Sent(p)
    BY <1>0 DEF IInv, Chains, Sent, schedVars
  <2>2. Work(p) = NoTask /\ Work(p)' = wtask'[p]
    BY <1>0, <1>5, <1>11 DEF Work
  <2>3. t.type = "end" => t = EndTask
    BY <1>3, TaskFacts
  <2>4. Head(queue[p]) = t
    BY DEF t
  <2> QED
    BY <1>0, <1>2, <1>5, <2>1, <2>2, <2>3, <2>4, TaskMakers, ChainReceive DEF IInv, Types
<1>14. OwnEnding(p)'
  <2>1. Len(queue'[p]) = Len(queue[p]) - 1 /\ Len(queue[p]) \in Nat
        /\ \A i \in DOMAIN queue'[p] : i + 1 \in DOMAIN queue[p] /\ queue'[p][i] = queue[p][i + 1]
    BY <1>0, <1>2, <1>5
  <2>2. Ended(p)' = Ended(p)
    BY <1>0 DEF Ended, schedVars
  <2>3. wpc'[p] = "ended" => t.type = "end"
    BY <1>5, <1>11
  <2>4. t.type = "end" => Len(queue[p]) = 1 /\ Ended(p)
    BY <1>3, <1>10 DEF OwnEnding
  <2>5. wpc'[p] # "failed"
    BY <1>5, <1>11
  <2>6. ASSUME NEW i \in DOMAIN queue'[p]
        PROVE  /\ queue'[p][i].type # "none"
               /\ queue'[p][i].type = "end" => i = Len(queue'[p]) /\ Ended(p)
    <3>1. /\ queue[p][i + 1].type # "none"
          /\ queue[p][i + 1].type = "end" => i + 1 = Len(queue[p]) /\ Ended(p)
      <4>1. i + 1 \in DOMAIN queue[p]
        BY <2>1
      <4> QED
        BY <1>10, <4>1 DEF OwnEnding
    <3>2. i \in Nat
      BY <1>0, <1>2, <1>5
    <3> QED
      BY <2>1, <3>1, <3>2
  <2>7. Len(queue[p]) = 1 => queue'[p] = <<>>
    BY <1>0, <1>2, <1>5
  <2> QED
    BY <2>2, <2>3, <2>4, <2>5, <2>6, <2>7 DEF OwnEnding
<1>15. OwnUnsized(p)' /\ OwnFailure(p)'
  <2>1. wpc'[p] # "failed"
    BY <1>5, <1>11
  <2>2. OwnUnsized(p)'
    BY <1>0 DEF OwnUnsized, IInv, DiskRight, Unsized
  <2> QED
    BY <2>1, <2>2 DEF OwnFailure
<1> QED
  BY <1>0, <1>6, <1>7, <1>8, <1>9, <1>12, <1>13, <1>14, <1>15, WriterFrame

\* What the chain says of the task a writer works on.
LEMMA WorkFacts ==
  ASSUME IInv, NEW p \in Paths, wpc[p] \in {"open", "alloc", "mark0", "write", "last", "marker"}
  PROVE  /\ \E k \in 1 .. Plots[p] : wtask[p].seed = SeedOf(p, k)
         /\ wtask[p].start \in Nat /\ wtask[p].n \in 1 .. Escalate /\ wtask[p].data \in Datas(wtask[p].n)
         /\ wtask[p].start + wtask[p].n <= Warps[p]
         /\ \A i \in 0 .. wtask[p].n - 1 : wtask[p].data[i] = Right(wtask[p].seed, wtask[p].start + i)
         /\ pocx[FileOf(p)] = NoPocx
         /\ wpc[p] = "marker" \/ ResumeInfo(p, tmp[FileOf(p)]) = wtask[p].start
<1>1. wtask[p].type = "process" /\ wtask[p] \in Tasks /\ Chain(p) /\ Work(p) = wtask[p] /\ job \in Jobs
  BY DEF IInv, DiskRight, Writers, WriterRight, Types, WriterTypes, ProcTypes, Chains, NoProcess, Work
<1>2. \E a, b \in Positions : DiskAt(p, a) /\ Takes(p, a, wtask[p], b)
  <2>1. PICK pos \in [0 .. Len(queue[p]) + 1 -> Positions] : DiskAt(p, pos[0]) /\ Takes(p, pos[0], Work(p), pos[1])
    BY <1>1 DEF Chain
  <2>2. Len(queue[p]) \in Nat
    BY DEF IInv, Types, QueueTypes
  <2>3. pos[0] \in Positions /\ pos[1] \in Positions
    BY <2>1, <2>2
  <2> QED
    BY <1>1, <2>1, <2>3
<1>3. PICK a, b \in Positions : DiskAt(p, a) /\ Takes(p, a, wtask[p], b)
  BY <1>2
<1>4. a[1] \in 1 .. Plots[p]
  BY <1>1, <1>3, JobFacts DEF Positions, Takes
<1>5. FileOf(p) = <<p, SeedOf(p, a[1])>>
  BY <1>1, <1>3 DEF Takes, FileOf
<1>6. pocx[FileOf(p)] = NoPocx /\ (wpc[p] = "marker" \/ ResumeInfo(p, tmp[FileOf(p)]) = a[2])
  BY <1>4, <1>5, <1>3 DEF DiskAt
<1> QED
  BY <1>1, <1>3, <1>4, <1>6, TaskFacts DEF Takes

\* The files of a run have different names.
LEMMA SeedsDiffer ==
  ASSUME IInv, pc # "down", NEW p \in Paths, NEW j \in Nat \ {0}, NEW k \in Nat \ {0},
         SeedOf(p, j) = SeedOf(p, k)
  PROVE  j = k
<1>1. firstSeed[p] = <<run, 1>> \/ firstSeed[p][1] < run
  BY DEF IInv, DiskRight, Seeds
<1>2. run \in Nat
  BY DEF IInv, Types, ProcTypes
<1> QED
  BY <1>1, <1>2 DEF SeedOf

\* A step at the file of the task under way leaves the position of the path.
LEMMA ChainWork ==
  ASSUME IInv, NEW p \in Paths, wpc[p] \in {"open", "alloc", "mark0", "write", "last"}, wpc'[p] # "rename",
         UNCHANGED <<pc, schedVars, queue, wtask, job, run, firstSeed, pocx>>,
         NEW t, tmp' = [tmp EXCEPT ![FileOf(p)] = t],
         wpc'[p] = "marker" \/ ResumeInfo(p, t) = wtask[p].start
  PROVE  Chain(p)'
<1>0. /\ pc # "down" /\ job \in Jobs /\ Chain(p) /\ Work(p) = wtask[p] /\ Work(p)' = wtask[p]
      /\ queue[p] \in Seq(Tasks) /\ DOMAIN tmp = Files /\ SchedTypes /\ ProcTypes /\ wtask[p].type = "process"
      /\ Plots' = Plots /\ Plots[p] \in Nat
  <2>1. /\ pc # "down" /\ wtask[p].type = "process" /\ Work(p) = wtask[p] /\ Work(p)' = wtask[p]
    BY DEF IInv, DiskRight, NoProcess, Work, Writers, WriterRight
  <2>2. /\ job \in Jobs /\ Chain(p) /\ queue[p] \in Seq(Tasks) /\ SchedTypes /\ ProcTypes
    BY <2>1 DEF IInv, Types, ProcTypes, Chains, QueueTypes
  <2>3. DOMAIN tmp = Files
    BY DEF IInv, Types, DiskTypes
  <2> QED
    BY <2>1, <2>2, <2>3, JobSame, JobFacts
<1>1. Sent(p)' = Sent(p)
  BY <1>0 DEF Sent, schedVars
<1>2. ASSUME NEW a \in Positions, NEW b \in Positions, DiskAt(p, a), Takes(p, a, Work(p), b)
      PROVE  DiskAt(p, a)' /\ Takes(p, a, Work(p), b)'
  <2>1. a[1] \in 1 .. Plots[p] /\ wtask[p].seed = SeedOf(p, a[1]) /\ wtask[p].start = a[2] /\ a[1] \in Nat \ {0}
    BY <1>0, <1>2 DEF Takes, Positions
  <2>2. FileOf(p) = <<p, SeedOf(p, a[1])>> /\ FileOf(p) \in Files
    BY <1>0, <2>1, SeedOfType DEF FileOf
  <2>3. \A j : SeedOf(p, j)' = SeedOf(p, j)
    BY DEF SeedOf
  <2>4. ASSUME NEW j \in 1 .. Plots[p], j # a[1]
        PROVE  tmp'[<<p, SeedOf(p, j)>>] = tmp[<<p, SeedOf(p, j)>>]
    <3>1. SeedOf(p, j) # SeedOf(p, a[1])
      BY <1>0, <2>1, <2>4, SeedsDiffer
    <3>2. <<p, SeedOf(p, j)>> \in Files
      BY <1>0, SeedOfType
    <3> QED
      BY <1>0, <2>2, <3>1, <3>2
  <2>5. \A j \in 2 .. Plots[p] : SeedOf(p, j) = <<run, j>> /\ j \in 1 .. Plots[p]
    BY <1>0 DEF SeedOf
  <2>6. ASSUME NEW j \in 1 .. Plots[p], j < a[1] PROVE AllWarpsWritten(p, SeedOf(p, j))'
    <3>1. AllWarpsWritten(p, SeedOf(p, j)) /\ j # a[1]
      BY <1>2, <2>1, <2>6 DEF DiskAt
    <3> QED
      BY <2>3, <2>4, <3>1 DEF AllWarpsWritten
  <2>7. ASSUME NEW j \in 2 .. Plots[p], j > a[1] PROVE Untouched(<<p, <<run, j>> >>)'
    <3>1. Untouched(<<p, <<run, j>> >>) /\ j # a[1] /\ j \in 1 .. Plots[p] /\ SeedOf(p, j) = <<run, j>>
      BY <1>2, <2>1, <2>5, <2>7 DEF DiskAt
    <3>2. tmp'[<<p, <<run, j>> >>] = tmp[<<p, <<run, j>> >>]
      BY <2>4, <3>1
    <3> QED
      BY <3>1, <3>2 DEF Untouched
  <2>8. tmp'[FileOf(p)] = t /\ pocx[FileOf(p)] = NoPocx /\ a[2] < Warps[p]
    BY <1>0, <1>2, <2>1, <2>2 DEF DiskAt
  <2>9. DiskAt(p, a)'
    BY <1>0, <2>1, <2>2, <2>3, <2>6, <2>7, <2>8 DEF DiskAt, ResumeInfo, HasMarker
  <2> QED
    BY <1>0, <1>2, <2>9, TakesSame
<1> QED
  BY <1>0, <1>1, <1>2, ChainHead

\* A step of the writer at the file of its task.
LEMMA WorkKeeps ==
  ASSUME IInv, NEW p \in Paths, wpc[p] \in {"open", "alloc", "mark0", "write", "last"},
         NEW x \in {"alloc", "mark0", "write", "last", "marker"}, wpc' = [wpc EXCEPT ![p] = x],
         UNCHANGED <<pc, schedVars, sharedVars, wtask, procVars, pocx>>,
         NEW t \in Tmps(p), tmp' = [tmp EXCEPT ![FileOf(p)] = t],
         x = "marker" \/ ResumeInfo(p, t) = wtask[p].start,
         WriterRight(p)', HasMarker(t) => t.size = "full",
         \A w \in 0 .. t.marker - 1 : t.data[w] = Right(wtask[p].seed, w),
         t.size = "empty" => x = "alloc" \/ (wpc[p] # "alloc" /\ tmp[FileOf(p)].size = "empty")
  PROVE  IInv'
<1>0. /\ pc # "down" /\ job \in Jobs /\ DOMAIN tmp = Files
      /\ wpc \in [Paths -> {"recv", "open", "alloc", "mark0", "write", "last", "marker", "rename", "finalize",
                            "ended", "failed"}]
      /\ UNCHANGED <<Paths, Plots, NumBuffers, Passes, pc, schedVars, pool, queue, stop, wtask, job, run,
                     firstSeed, result, faults, pocx, endTo>>
  BY JobSame DEF IInv, DiskRight, NoProcess, Types, WriterTypes, ProcTypes, DiskTypes, sharedVars, procVars,
     schedVars
<1>1. PICK f \in Files : f = FileOf(p) /\ f[1] = p /\ f[2] = wtask[p].seed
  BY TaskFile DEF IInv, DiskRight
<1>2. tmp'[f] = t /\ \A g \in Files : g # f => tmp'[g] = tmp[g]
  BY <1>0, <1>1
<1>3. wpc'[p] = x /\ \A q \in Paths \ {p} : wpc'[q] = wpc[q]
  BY <1>0
<1>4. Types'
  <2>1. QueueTypes'
    BY <1>0 DEF IInv, Types, QueueTypes
  <2>2. WriterTypes'
    BY <1>0 DEF IInv, Types, WriterTypes
  <2>3. DiskTypes'
    <3>1. DOMAIN tmp' = Files /\ tmp' = [g \in Files |-> tmp'[g]]
      BY <1>0
    <3>2. \A g \in Files : tmp'[g] \in Tmps(g[1])
      BY <1>1, <1>2 DEF IInv, Types, DiskTypes
    <3> QED
      BY <1>0, <3>1, <3>2 DEF IInv, Types, DiskTypes
  <2> QED
    BY <1>0, <2>1, <2>2, <2>3, WriterTypesFrame DEF IInv, Types, SchedTypes, ProcTypes
<1>5. OthersSame(p, f)
  BY <1>0, <1>2, <1>3 DEF OthersSame
<1>6. Chain(p)'
  BY <1>0, <1>3, ChainWork
<1>7. OwnEnding(p)'
  <2>1. OwnEnding(p)
    BY <1>0 DEF IInv, Ending
  <2> QED
    BY <1>0, <1>3, <2>1 DEF OwnEnding, Ended
<1>8. OwnFile(f)'
  <2>1. pocx'[f] = NoPocx
    BY <1>0, <1>1, WorkFacts
  <2>2. FileOK(f)'
    BY <1>2, <2>1 DEF FileOK, HasMarker
  <2>3. \A w \in 0 .. tmp'[f].marker - 1 : tmp'[f].data[w] = Right(f[2], w)'
    BY <1>0, <1>1, <1>2 DEF Right
  <2>4. ~(f[2][1] > run')
    <3>1. PICK k \in 1 .. Plots[p] : f[2] = SeedOf(p, k)
      BY <1>1, WorkFacts
    <3>2. firstSeed[p] = <<run, 1>> \/ firstSeed[p][1] < run
      BY <1>0 DEF IInv, DiskRight, Seeds
    <3>3. run \in Nat /\ firstSeed[p][1] \in Nat
      <4>1. firstSeed[p] \in SeedIds /\ run \in Nat
        BY <1>0 DEF IInv, Types, ProcTypes
      <4> QED
        BY <4>1 DEF SeedIds
    <3> QED
      BY <1>0, <3>1, <3>2, <3>3 DEF SeedOf
  <2> QED
    BY <2>1, <2>2, <2>3, <2>4 DEF OwnFile
<1>9. OwnUnsized(p)'
  <2>1. ASSUME NEW j \in 2 .. Plots[p], tmp'[<<p, <<run, j>> >>].size = "empty"
        PROVE  (x = "alloc" /\ wtask[p].seed = <<run, j>>) \/ faults > 0
    <3> DEFINE g == <<p, <<run, j>> >>
    <3>1. g \in Files
      <4>1. SeedOf(p, j) = <<run, j>> /\ j \in 1 .. Plots[p]
        BY <1>0, JobFacts DEF SeedOf
      <4> QED
        BY <1>0, <4>1, SeedOfType DEF IInv, Types
    <3>2. tmp[g].size = "empty" => (wpc[p] = "alloc" /\ wtask[p].seed = <<run, j>>) \/ faults > 0
      BY <1>0 DEF IInv, DiskRight, Unsized
    <3>3. CASE g = f
      <4>1. wtask[p].seed = <<run, j>> /\ t.size = "empty"
        BY <1>1, <1>2, <2>1, <3>3
      <4> QED
        BY <1>1, <3>2, <3>3, <4>1
    <3>4. CASE g # f
      <4>1. tmp[g].size = "empty" /\ wtask[p].seed # <<run, j>>
        BY <1>1, <1>2, <2>1, <3>1, <3>4 DEF FileOf
      <4> QED
        BY <3>2, <4>1
    <3> QED
      BY <3>3, <3>4
  <2> QED
    BY <1>0, <1>3, <2>1 DEF OwnUnsized
<1>10. wpc[p] # "ended" /\ wpc[p] # "failed" /\ wpc'[p] # "failed" /\ (stop' => stop)
  BY <1>0, <1>3
<1>11. OwnFailure(p)'
  BY <1>10 DEF OwnFailure
<1> QED
  BY <1>1, <1>4, <1>5, <1>6, <1>7, <1>8, <1>9, <1>10, <1>11, WriterFrame

\* The file a writer works on.
LEMMA FileFactsOf ==
  ASSUME IInv, NEW p \in Paths,
         wpc[p] \in {"open", "alloc", "mark0", "write", "last", "marker", "rename", "finalize"}
  PROVE  /\ FileOf(p) \in Files /\ FileOf(p)[1] = p /\ FileOf(p)[2] = wtask[p].seed
         /\ tmp[FileOf(p)] \in Tmps(p) /\ DOMAIN tmp = Files /\ DOMAIN pocx = Files /\ FileOK(FileOf(p))
         /\ \A w \in 0 .. tmp[FileOf(p)].marker - 1 : tmp[FileOf(p)].data[w] = Right(wtask[p].seed, w)
         /\ WriterRight(p) /\ pc # "down" /\ p \in 0 .. MaxPaths - 1 /\ Warps[p] \in Nat \ {0}
<1>1. FileOf(p) \in Files /\ FileOf(p)[1] = p /\ FileOf(p)[2] = wtask[p].seed /\ job \in Jobs
  BY TaskFile DEF IInv, DiskRight, Types, ProcTypes
<1> QED
  BY <1>1, JobFacts DEF IInv, Types, DiskTypes, DiskRight, FilesOK, MarkerCoversWarps, Writers, NoProcess

LEMMA OpenKeeps ==
  ASSUME IInv, NEW p \in Paths, Open(p)
  PROVE  IInv'
<1> DEFINE f == FileOf(p)
<1>0. wpc[p] = "open" /\ UNCHANGED <<pc, schedVars, pool, procVars, pocx>>
  BY DEF Open
<1>1. /\ f \in Files /\ tmp[f] \in Tmps(p) /\ DOMAIN tmp = Files /\ FileOK(f) /\ WriterRight(p)
      /\ \A w \in 0 .. tmp[f].marker - 1 : tmp[f].data[w] = Right(wtask[p].seed, w)
  BY <1>0, FileFactsOf
<1>2. ResumeInfo(p, tmp[f]) = wtask[p].start
  BY <1>0, WorkFacts
<1>3. wtask[p].type = "process"
  BY <1>0, <1>1 DEF WriterRight
<1>4. ~(tmp[f].size = "none" /\ ~(wtask[p].start = 0))
  BY <1>2 DEF ResumeInfo
<1>5. UNCHANGED <<wtask, queue, stop>>
  BY <1>4 DEF Open
<1>6. UNCHANGED sharedVars
  BY <1>0, <1>5 DEF sharedVars
<1>7. CASE tmp[f].size = "none"
  <2> DEFINE t == [tmp[f] EXCEPT !.size = "empty"]
  <2>1. tmp' = [tmp EXCEPT ![f] = t] /\ wpc' = [wpc EXCEPT ![p] = "alloc"]
    BY <1>4, <1>7 DEF Open
  <2>2. t \in Tmps(p) /\ t.size = "empty" /\ t.marker = tmp[f].marker /\ t.data = tmp[f].data
    BY <1>1 DEF Tmps
  <2>3. ~HasMarker(t) /\ ResumeInfo(p, t) = wtask[p].start
    BY <1>1, <1>2, <1>7, <2>2 DEF FileOK, HasMarker, ResumeInfo
  <2> HIDE DEF t
  <2>4. tmp'[f] = t /\ wpc'[p] = "alloc" /\ FileOf(p)' = f
    BY <1>0, <1>1, <1>5, <2>1 DEF FileOf, IInv, Types, WriterTypes
  <2>5. WriterRight(p)'
    BY <1>3, <1>5, <2>2, <2>4 DEF WriterRight
  <2>6. \A w \in 0 .. t.marker - 1 : t.data[w] = Right(wtask[p].seed, w)
    BY <1>1, <2>2
  <2> QED
    BY <1>0, <1>5, <1>6, <2>1, <2>2, <2>3, <2>5, <2>6, WorkKeeps
<1>8. CASE tmp[f].size # "none"
  <2>1. tmp' = tmp /\ wpc' = [wpc EXCEPT ![p] = "write"]
    BY <1>4, <1>8 DEF Open
  <2>2. PICK t \in Tmps(p) : t = tmp[f]
    BY <1>1
  <2>3. tmp' = [tmp EXCEPT ![f] = t]
    <3>1. tmp = [g \in Files |-> tmp[g]]
      BY DEF IInv, Types, DiskTypes
    <3>2. [tmp EXCEPT ![f] = t] = [g \in Files |-> tmp[g]]
      BY <1>1, <2>2
    <3> QED
      BY <2>1, <3>1, <3>2
  <2>4. tmp'[f] = t /\ wpc'[p] = "write" /\ FileOf(p)' = f
    BY <1>0, <1>1, <1>5, <2>1, <2>2 DEF FileOf, IInv, Types, WriterTypes
  <2>5. WriterRight(p)'
    BY <1>3, <1>5, <1>8, <2>2, <2>4 DEF WriterRight
  <2>6. HasMarker(t) => t.size = "full"
    BY <1>1, <2>2 DEF FileOK, HasMarker
  <2> QED
    BY <1>0, <1>1, <1>2, <1>6, <1>5, <2>1, <2>2, <2>3, <2>5, <2>6, WorkKeeps
<1> QED
  BY <1>7, <1>8

LEMMA AllocateKeeps ==
  ASSUME IInv, NEW p \in Paths, Allocate(p)
  PROVE  IInv'
<1> DEFINE f == FileOf(p)
           t == [tmp[f] EXCEPT !.size = "full"]
<1>0. /\ wpc[p] = "alloc" /\ wpc' = [wpc EXCEPT ![p] = "mark0"] /\ tmp' = [tmp EXCEPT ![f] = t]
      /\ UNCHANGED <<pc, schedVars, sharedVars, wtask, procVars, pocx>>
  BY DEF Allocate
<1>1. /\ f \in Files /\ tmp[f] \in Tmps(p) /\ DOMAIN tmp = Files /\ FileOK(f) /\ WriterRight(p)
      /\ \A w \in 0 .. tmp[f].marker - 1 : tmp[f].data[w] = Right(wtask[p].seed, w)
  BY <1>0, FileFactsOf
<1>2. ResumeInfo(p, tmp[f]) = wtask[p].start
  BY <1>0, WorkFacts
<1>3. wtask[p].type = "process" /\ tmp[f].size = "empty"
  BY <1>0, <1>1 DEF WriterRight
<1>4. t \in Tmps(p) /\ t.size = "full" /\ t.marker = tmp[f].marker /\ t.data = tmp[f].data
  BY <1>1 DEF Tmps
<1>5. ~HasMarker(t) /\ ResumeInfo(p, t) = wtask[p].start
  BY <1>1, <1>2, <1>3, <1>4 DEF FileOK, HasMarker, ResumeInfo
<1> HIDE DEF t
<1>6. tmp'[f] = t /\ wpc'[p] = "mark0" /\ FileOf(p)' = f
  BY <1>0, <1>1 DEF FileOf, IInv, Types, WriterTypes
<1>7. WriterRight(p)'
  BY <1>0, <1>3, <1>4, <1>5, <1>6 DEF WriterRight, HasMarker
<1>8. \A w \in 0 .. t.marker - 1 : t.data[w] = Right(wtask[p].seed, w)
  BY <1>1, <1>4
<1> QED
  BY <1>0, <1>4, <1>5, <1>7, <1>8, WorkKeeps

LEMMA WriteMarker0Keeps ==
  ASSUME IInv, NEW p \in Paths, WriteMarker0(p)
  PROVE  IInv'
<1> DEFINE f == FileOf(p)
           t == [tmp[f] EXCEPT !.marker = 0]
<1>0. /\ wpc[p] = "mark0" /\ wpc' = [wpc EXCEPT ![p] = "write"] /\ tmp' = [tmp EXCEPT ![f] = t]
      /\ UNCHANGED <<pc, schedVars, sharedVars, wtask, procVars, pocx>>
  BY DEF WriteMarker0
<1>1. /\ f \in Files /\ tmp[f] \in Tmps(p) /\ DOMAIN tmp = Files /\ WriterRight(p) /\ Warps[p] \in Nat \ {0}
  BY <1>0, FileFactsOf
<1>2. ResumeInfo(p, tmp[f]) = wtask[p].start
  BY <1>0, WorkFacts
<1>3. wtask[p].type = "process" /\ tmp[f].size = "full" /\ tmp[f].marker = NoMarker
  BY <1>0, <1>1 DEF WriterRight
<1>4. t \in Tmps(p) /\ t.size = "full" /\ t.marker = 0 /\ t.data = tmp[f].data
  BY <1>1, <1>3 DEF Tmps
<1>5. ResumeInfo(p, t) = wtask[p].start
  BY <1>2, <1>3, <1>4 DEF HasMarker, ResumeInfo, NoMarker
<1> HIDE DEF t
<1>6. tmp'[f] = t /\ wpc'[p] = "write" /\ FileOf(p)' = f
  BY <1>0, <1>1 DEF FileOf, IInv, Types, WriterTypes
<1>7. WriterRight(p)'
  BY <1>0, <1>3, <1>4, <1>6 DEF WriterRight
<1>8. \A w \in 0 .. t.marker - 1 : t.data[w] = Right(wtask[p].seed, w)
  BY <1>4
<1> QED
  BY <1>0, <1>4, <1>5, <1>7, <1>8, WorkKeeps

LEMMA WriteScoopsKeeps ==
  ASSUME IInv, NEW p \in Paths, WriteScoops(p)
  PROVE  IInv'
<1> DEFINE f == FileOf(p)
<1>0. wpc[p] = "write" /\ UNCHANGED <<pc, schedVars, pool, procVars, pocx>>
  BY DEF WriteScoops
<1>1. /\ f \in Files /\ f[1] = p /\ f[2] = wtask[p].seed /\ tmp[f] \in Tmps(p) /\ DOMAIN tmp = Files /\ FileOK(f)
      /\ WriterRight(p) /\ pc # "down"
      /\ \A w \in 0 .. tmp[f].marker - 1 : tmp[f].data[w] = Right(wtask[p].seed, w)
  BY <1>0, FileFactsOf
<1>2. /\ ResumeInfo(p, tmp[f]) = wtask[p].start /\ wtask[p].start + wtask[p].n <= Warps[p]
      /\ \E k \in 1 .. Plots[p] : wtask[p].seed = SeedOf(p, k)
  BY <1>0, WorkFacts
<1>3. wtask[p].type = "process" /\ tmp[f].size # "none"
  BY <1>0, <1>1 DEF WriterRight
<1>4. CASE WriteAllowed(p)
  <2> DEFINE t == [tmp[f] EXCEPT !.data = [w \in DOMAIN @ |-> IF w \in Written(p) THEN {Junk} ELSE @[w]]]
  <2>1. /\ tmp' = [tmp EXCEPT ![f] = t] /\ wpc' = [wpc EXCEPT ![p] = "last"] /\ UNCHANGED <<wtask, queue, stop>>
    BY <1>4 DEF WriteScoops
  <2>2. tmp[f].size = "full"
    BY <1>4 DEF WriteAllowed
  <2>3. t \in Tmps(p) /\ t.size = "full" /\ t.marker = tmp[f].marker
        /\ t.data = [w \in 0 .. Warps[p] - 1 |-> IF w \in Written(p) THEN {Junk} ELSE tmp[f].data[w]]
    <3>1. {Junk} \in Contents
      BY DEF Contents
    <3> QED
      BY <1>1, <2>2, <3>1 DEF Tmps, Datas
  <2>4. ResumeInfo(p, t) = wtask[p].start
    BY <1>2, <2>2, <2>3 DEF HasMarker, ResumeInfo
  <2> HIDE DEF t
  <2>5. tmp'[f] = t /\ wpc'[p] = "last" /\ FileOf(p)' = f
    BY <1>0, <1>1, <2>1 DEF FileOf, IInv, Types, WriterTypes
  <2>6. WriterRight(p)'
    BY <1>3, <2>1, <2>3, <2>4, <2>5 DEF WriterRight, ResumeInfo, HasMarker
  <2>7. ASSUME NEW w \in 0 .. t.marker - 1 PROVE t.data[w] = Right(wtask[p].seed, w)
    <3>1. t.marker \in {NoMarker} \cup (0 .. Warps[p]) /\ Warps[p] \in Nat
      BY <1>0, <2>3, FileFactsOf DEF Tmps
    <3>2. t.marker = wtask[p].start
      BY <2>3, <2>4, <3>1 DEF ResumeInfo, HasMarker, NoMarker
    <3>3. w \notin Written(p) /\ w \in 0 .. Warps[p] - 1
      BY <3>1, <3>2 DEF Written, NoMarker
    <3> QED
      BY <1>1, <2>3, <3>3
  <2>8. UNCHANGED sharedVars
    BY <1>0, <2>1 DEF sharedVars
  <2> QED
    BY <1>0, <2>1, <2>3, <2>4, <2>6, <2>7, <2>8, WorkKeeps
<1>5. CASE ~WriteAllowed(p)
  <2>1. Fail(p) /\ UNCHANGED tmp
    BY <1>5 DEF WriteScoops
  <2>2. tmp[f].size = "empty"
    BY <1>1, <1>2, <1>3, <1>5 DEF WriteAllowed, Tmps
  <2>3. PICK k \in 1 .. Plots[p] : wtask[p].seed = SeedOf(p, k)
    BY <1>2
  <2>4. CASE k = 1
    <3>1. f = <<p, firstSeed[p]>>
      BY <2>3, <2>4 DEF SeedOf, FileOf
    <3> QED
      BY <1>0, <2>1, <2>2, <3>1, FailKeeps DEF procVars, diskVars
  <2>5. CASE k # 1
    <3>1. k \in 2 .. Plots[p] /\ f = <<p, <<run, k>> >>
      BY <2>3, <2>5, JobFacts DEF SeedOf, FileOf, IInv, Types, ProcTypes
    <3>2. faults > 0
      BY <1>0, <1>1, <2>2, <3>1 DEF IInv, DiskRight, Unsized
    <3>3. faults # 0
      BY <3>2
    <3> QED
      BY <1>0, <2>1, <3>3, FailKeeps DEF procVars, diskVars
  <2> QED
    BY <2>4, <2>5
<1> QED
  BY <1>4, <1>5

LEMMA WriteLastScoopKeeps ==
  ASSUME IInv, NEW p \in Paths, WriteLastScoop(p)
  PROVE  IInv'
<1> DEFINE f == FileOf(p)
           start == wtask[p].start
           n == wtask[p].n
           t == [size   |-> tmp[f].size,
                 marker |-> IF start + n = Warps[p] THEN NoMarker ELSE tmp[f].marker,
                 data   |-> [w \in DOMAIN tmp[f].data |->
                               IF w \in Written(p) THEN wtask[p].data[w - start] ELSE tmp[f].data[w]]]
<1>0. /\ wpc[p] = "last" /\ wpc' = [wpc EXCEPT ![p] = "marker"] /\ tmp' = [tmp EXCEPT ![f] = t]
      /\ UNCHANGED <<pc, schedVars, sharedVars, wtask, procVars, pocx>>
  BY DEF WriteLastScoop
<1>1. /\ f \in Files /\ tmp[f] \in Tmps(p) /\ DOMAIN tmp = Files /\ WriterRight(p) /\ Warps[p] \in Nat \ {0}
      /\ \A w \in 0 .. tmp[f].marker - 1 : tmp[f].data[w] = Right(wtask[p].seed, w)
  BY <1>0, FileFactsOf
<1>2. /\ start \in Nat /\ n \in 1 .. Escalate /\ wtask[p].data \in Datas(n) /\ start + n <= Warps[p]
      /\ \A i \in 0 .. n - 1 : wtask[p].data[i] = Right(wtask[p].seed, start + i)
      /\ Escalate \in Nat
  BY <1>0, WorkFacts, PipelineAssumption
<1>3. wtask[p].type = "process" /\ tmp[f].size = "full" /\ ResumeInfo(p, tmp[f]) = start
  BY <1>0, <1>1 DEF WriterRight
<1>4. tmp[f].marker = (IF HasMarker(tmp[f]) THEN start ELSE NoMarker) /\ (start > 0 => HasMarker(tmp[f]))
  BY <1>3 DEF HasMarker, ResumeInfo
<1>5. \A w \in 0 .. start - 1 : tmp[f].data[w] = Right(wtask[p].seed, w)
  BY <1>1, <1>2, <1>4
<1>6. t.size = "full" /\ t.marker = (IF start + n = Warps[p] THEN NoMarker ELSE tmp[f].marker)
      /\ t.data = [w \in 0 .. Warps[p] - 1 |->
                               IF w \in Written(p) THEN wtask[p].data[w - start] ELSE tmp[f].data[w]]
  BY <1>1, <1>3 DEF Tmps, Datas
<1>7. \A w \in Written(p) : w - start \in 0 .. n - 1 /\ start + (w - start) = w
  BY <1>2 DEF Written
<1>8. t \in Tmps(p)
  <2>1. t.data \in Datas(Warps[p])
    BY <1>1, <1>2, <1>6, <1>7 DEF Datas, Tmps
  <2>2. t.marker \in {NoMarker} \cup (0 .. Warps[p])
    BY <1>1, <1>6 DEF Tmps
  <2> QED
    BY <1>6, <2>1, <2>2 DEF Tmps
<1>9. t = [size |-> t.size, marker |-> t.marker, data |-> t.data]
  OBVIOUS
<1> HIDE DEF t
<1>10. \A w \in 0 .. start + n - 1 : t.data[w] = Right(wtask[p].seed, w)
  <2>1. TAKE w \in 0 .. start + n - 1
  <2>2. w \in 0 .. Warps[p] - 1
    BY <1>1, <1>2
  <2>3. CASE w < start
    BY <1>2, <1>5, <1>6, <2>2, <2>3 DEF Written
  <2>4. CASE w >= start
    <3>1. w \in Written(p)
      BY <1>2, <2>4 DEF Written
    <3> QED
      BY <1>2, <1>6, <1>7, <2>2, <3>1
  <2> QED
    BY <1>2, <2>3, <2>4
<1>11. tmp'[f] = t /\ wpc'[p] = "marker" /\ FileOf(p)' = f
  BY <1>0, <1>1 DEF FileOf, IInv, Types, WriterTypes
<1>12. start + n # Warps[p] => ResumeInfo(p, t) = start
  BY <1>3, <1>6 DEF ResumeInfo, HasMarker
<1>13. WriterRight(p)'
  <2>1. \A w \in 0 .. start + n - 1 : t.data[w] = Right(wtask[p].seed, w)'
    BY <1>0, <1>10, JobSame DEF Right, procVars
  <2>2. start + n = Warps[p] => t.marker = NoMarker
    BY <1>6
  <2> QED
    BY <1>0, <1>3, <1>6, <1>11, <1>12, <2>1, <2>2 DEF WriterRight, ResumeInfo, HasMarker
<1>14. ASSUME NEW w \in 0 .. t.marker - 1 PROVE t.data[w] = Right(wtask[p].seed, w)
  <2>1. w \in 0 .. start - 1
    BY <1>2, <1>4, <1>6 DEF NoMarker
  <2> QED
    BY <1>2, <1>10, <2>1
<1> QED
  BY <1>0, <1>6, <1>8, <1>13, <1>14, WorkKeeps

\* A writer leaves its task, or its file but for the renaming.
LEMMA DoneKeeps ==
  ASSUME IInv, NEW p \in Paths, wpc[p] \in {"marker", "rename", "finalize"},
         NEW x \in {"recv", "rename"}, wpc' = [wpc EXCEPT ![p] = x],
         NEW u \in Tasks, wtask' = [wtask EXCEPT ![p] = u],
         UNCHANGED <<pc, schedVars, queue, stop, job, run, firstSeed, result>>,
         pool' \in Nat, faults' \in 0 .. job.faults, faults > 0 => faults' > 0,
         NEW f \in Files, f[1] = p,
         NEW t \in Tmps(p), tmp' = [tmp EXCEPT ![f] = t], t.size = "empty" => tmp[f].size = "empty",
         NEW y, y = NoPocx \/ y \in Tmps(p), DOMAIN pocx' = Files, pocx'[f] = y,
         \A g \in Files : g # f => pocx'[g] = pocx[g],
         Chain(p)', WriterRight(p)', OwnFile(f)'
  PROVE  IInv'
<1>0. /\ pc # "down" /\ job \in Jobs /\ DOMAIN tmp = Files /\ DOMAIN pocx = Files
      /\ wpc \in [Paths -> {"recv", "open", "alloc", "mark0", "write", "last", "marker", "rename", "finalize",
                            "ended", "failed"}]
      /\ wtask \in [Paths -> Tasks] /\ stop \in BOOLEAN
      /\ UNCHANGED <<Paths, Plots, NumBuffers, Passes, queue, stop, job, run, firstSeed, endTo, pc>>
  BY JobSame DEF IInv, DiskRight, NoProcess, Types, WriterTypes, ProcTypes, DiskTypes, schedVars, SchedTypes
<1>1. tmp'[f] = t /\ pocx'[f] = y /\ \A g \in Files : g # f => tmp'[g] = tmp[g] /\ pocx'[g] = pocx[g]
  BY <1>0
<1>2. wpc'[p] = x /\ \A q \in Paths \ {p} : wpc'[q] = wpc[q] /\ wtask'[q] = wtask[q]
  BY <1>0
<1>3. Types'
  <2>1. QueueTypes'
    BY <1>0 DEF IInv, Types, QueueTypes
  <2>2. WriterTypes'
    BY <1>0 DEF WriterTypes
  <2>3. DiskTypes'
    <3>1. DOMAIN tmp' = Files /\ tmp' = [g \in Files |-> tmp'[g]] /\ DOMAIN pocx' = Files
      BY <1>0
    <3>2. \A g \in Files : tmp'[g] \in Tmps(g[1]) /\ (pocx'[g] = NoPocx \/ pocx'[g] \in Tmps(g[1]))
      BY <1>1 DEF IInv, Types, DiskTypes
    <3> QED
      BY <3>1, <3>2 DEF DiskTypes
  <2> QED
    BY <1>0, <2>1, <2>2, <2>3, WriterTypesFrame DEF IInv
<1>4. OthersSame(p, f)
  BY <1>0, <1>1, <1>2 DEF OthersSame
<1>5. OwnEnding(p)'
  <2>1. OwnEnding(p)
    BY <1>0 DEF IInv, Ending
  <2> QED
    BY <1>0, <1>2, <2>1 DEF OwnEnding, Ended
<1>6. OwnUnsized(p)'
  <2>1. ASSUME NEW j \in 2 .. Plots[p], tmp'[<<p, <<run, j>> >>].size = "empty"
        PROVE  faults' > 0
    <3>1. <<p, <<run, j>> >> \in Files
      <4>1. SeedOf(p, j) = <<run, j>> /\ j \in 1 .. Plots[p]
        BY <1>0, JobFacts DEF SeedOf
      <4> QED
        BY <1>0, <4>1, SeedOfType DEF IInv, Types
    <3>2. tmp[<<p, <<run, j>> >>].size = "empty"
      BY <1>1, <2>1, <3>1
    <3> QED
      BY <1>0, <3>2 DEF IInv, DiskRight, Unsized
  <2> QED
    BY <1>0, <2>1 DEF OwnUnsized
<1>7. wpc[p] # "ended" /\ wpc[p] # "failed" /\ wpc'[p] # "failed" /\ (stop' => stop)
  BY <1>0, <1>2
<1>8. OwnFailure(p)'
  BY <1>7 DEF OwnFailure
<1> QED
  BY <1>3, <1>4, <1>5, <1>6, <1>7, <1>8, WriterFrame

\* The files of this run are not of a later one.
LEMMA SeedOfRun ==
  ASSUME IInv, pc # "down", NEW p \in Paths, NEW k \in 1 .. Plots[p]
  PROVE  ~(SeedOf(p, k)[1] > run)
<1>1. firstSeed[p] = <<run, 1>> \/ firstSeed[p][1] < run
  BY DEF IInv, DiskRight, Seeds
<1>2. firstSeed[p] \in SeedIds /\ run \in Nat
  BY DEF IInv, Types, ProcTypes
<1>3. firstSeed[p][1] \in Nat
  BY <1>2 DEF SeedIds
<1> QED
  BY <1>1, <1>2, <1>3 DEF SeedOf

LEMMA WriteMarkerKeeps ==
  ASSUME IInv, NEW p \in Paths, WriteMarker(p)
  PROVE  IInv'
<1>a. PICK f \in Files : f = FileOf(p)
  BY FileFactsOf DEF WriteMarker
<1>b. PICK t : t = [tmp[f] EXCEPT !.marker = NewProgress(p)]
  OBVIOUS
<1>0. /\ wpc[p] = "marker" /\ tmp' = [tmp EXCEPT ![f] = t]
      /\ UNCHANGED <<pc, schedVars, queue, stop, procVars, pocx>>
      /\ UNCHANGED <<job, run, firstSeed, result, faults>>
  <2>1. [tmp EXCEPT ![FileOf(p)].marker = NewProgress(p)] = [tmp EXCEPT ![f] = t]
    BY <1>a, <1>b
  <2> QED
    BY <2>1 DEF WriteMarker, procVars
<1>1. /\ f \in Files /\ f[1] = p /\ f[2] = wtask[p].seed /\ tmp[f] \in Tmps(p) /\ DOMAIN tmp = Files
      /\ DOMAIN pocx = Files /\ WriterRight(p) /\ pc # "down" /\ Warps[p] \in Nat \ {0}
  BY <1>0, <1>a, FileFactsOf
<1>2. /\ wtask[p].start \in Nat /\ wtask[p].n \in 1 .. Escalate /\ wtask[p].start + wtask[p].n <= Warps[p]
      /\ pocx[f] = NoPocx /\ \E k \in 1 .. Plots[p] : wtask[p].seed = SeedOf(p, k)
      /\ Escalate \in Nat
  BY <1>0, <1>a, WorkFacts, PipelineAssumption
<1>3. wtask[p].type = "process" /\ tmp[f].size = "full" /\ wtask[p] \in Tasks
      /\ \A w \in 0 .. wtask[p].start + wtask[p].n - 1 : tmp[f].data[w] = Right(wtask[p].seed, w)
  BY <1>0, <1>1, <1>a, TaskFile DEF WriterRight, IInv, DiskRight
<1>4. PICK m \in 1 .. Warps[p] : m = wtask[p].start + wtask[p].n
  BY <1>1, <1>2
<1>5. t \in Tmps(p) /\ t.size = "full" /\ t.marker = m /\ t.data = tmp[f].data
  BY <1>1, <1>3, <1>4, <1>b DEF Tmps, NewProgress
<1>6. tmp'[f] = t /\ \A g \in Files : g # f => tmp'[g] = tmp[g]
  BY <1>0, <1>1
<1>7. DOMAIN pocx' = Files /\ pocx'[f] = NoPocx /\ faults \in 0 .. job.faults /\ pool \in Nat
      /\ job \in Jobs /\ SchedTypes /\ ProcTypes /\ Chain(p) /\ queue[p] \in Seq(Tasks) /\ Plots[p] \in Nat
      /\ Plots' = Plots /\ \A k : SeedOf(p, k)' = SeedOf(p, k)
  <2>1. faults \in 0 .. job.faults /\ pool \in Nat /\ job \in Jobs
    BY <1>1, <1>2 DEF IInv, Types, ProcTypes, QueueTypes, DiskTypes
  <2>2. SchedTypes /\ ProcTypes /\ Chain(p) /\ queue[p] \in Seq(Tasks)
    BY <1>0, <1>1 DEF IInv, Types, QueueTypes, Chains
  <2> QED
    BY <1>0, <1>1, <1>2, <2>1, <2>2, JobFacts, JobSame DEF SeedOf
<1>8. OwnFile(f)'
  <2>1. ~(f[2][1] > run)
    BY <1>1, <1>2, SeedOfRun
  <2>2. \A w \in 0 .. tmp'[f].marker - 1 : tmp'[f].data[w] = Right(f[2], w)'
    <3>1. \A w : Right(f[2], w)' = Right(f[2], w)
      BY <1>0, JobSame DEF Right
    <3>2. tmp'[f].marker = wtask[p].start + wtask[p].n /\ tmp'[f].data = tmp[f].data
      BY <1>4, <1>5, <1>6
    <3>3. ASSUME NEW w \in 0 .. tmp'[f].marker - 1 PROVE tmp'[f].data[w] = Right(f[2], w)
      <4>1. w \in 0 .. wtask[p].start + wtask[p].n - 1
        BY <1>2, <1>4, <3>2, <3>3
      <4>2. tmp[f].data[w] = Right(wtask[p].seed, w)
        BY <1>3, <4>1
      <4> QED
        BY <1>1, <3>2, <4>2
    <3> QED
      BY <3>1, <3>3
  <2> QED
    BY <1>0, <1>2, <1>5, <1>6, <2>1, <2>2 DEF OwnFile, FileOK
\* The file counts for the position behind the task.
<1>9. ASSUME NEW a \in Positions, NEW b \in Positions, DiskAt(p, a), Takes(p, a, wtask[p], b),
             wpc'[p] # "marker"
      PROVE  DiskAt(p, b)'
  <2>1. /\ a[1] \in 1 .. Plots[p] /\ wtask[p].seed = SeedOf(p, a[1]) /\ a[1] \in Nat \ {0}
        /\ b = After(p, a[1], m)
    BY <1>3, <1>4, <1>7, <1>9 DEF Takes, Positions
  <2>2. f = <<p, SeedOf(p, a[1])>>
    BY <1>a, <2>1 DEF FileOf
  <2>3. ASSUME NEW j \in 1 .. Plots[p], j # a[1]
        PROVE  tmp'[<<p, SeedOf(p, j)>>] = tmp[<<p, SeedOf(p, j)>>]
    <3>1. SeedOf(p, j) # SeedOf(p, a[1])
      BY <1>1, <2>1, <2>3, SeedsDiffer
    <3> QED
      BY <1>1, <1>6, <1>7, <2>2, <3>1, SeedOfType
  <2>4. \A j \in 2 .. Plots[p] : SeedOf(p, j) = <<run, j>> /\ j \in 1 .. Plots[p]
    BY <1>7 DEF SeedOf
  <2>5. ASSUME NEW j \in 1 .. Plots[p], j < a[1] PROVE AllWarpsWritten(p, SeedOf(p, j))'
    <3>1. AllWarpsWritten(p, SeedOf(p, j)) /\ j # a[1]
      BY <1>9, <2>1, <2>5 DEF DiskAt
    <3> QED
      BY <1>0, <1>7, <2>3, <3>1 DEF AllWarpsWritten
  <2>6. ASSUME NEW j \in 2 .. Plots[p], j > a[1]
        PROVE  Untouched(<<p, <<run, j>> >>) /\ Untouched(<<p, <<run, j>> >>)'
    <3>1. Untouched(<<p, <<run, j>> >>) /\ j # a[1] /\ j \in 1 .. Plots[p] /\ SeedOf(p, j) = <<run, j>>
      BY <1>9, <2>1, <2>4, <2>6 DEF DiskAt
    <3>2. tmp'[<<p, <<run, j>> >>] = tmp[<<p, <<run, j>> >>]
      BY <2>3, <3>1
    <3> QED
      BY <1>0, <3>1, <3>2 DEF Untouched
  <2>7. CASE m = Warps[p]
    <3>1. b = <<a[1] + 1, 0>>
      BY <2>1, <2>7 DEF After
    <3>2. AllWarpsWritten(p, SeedOf(p, a[1]))'
      BY <1>5, <1>6, <1>7, <2>2, <2>7 DEF AllWarpsWritten
    <3>3. \A j \in 1 .. Plots[p] : j < b[1] => AllWarpsWritten(p, SeedOf(p, j))'
      BY <2>1, <2>5, <3>1, <3>2
    <3>4. \A j \in 2 .. Plots[p] : j > b[1] => Untouched(<<p, <<run, j>> >>)'
      <4>1. ASSUME NEW j \in 2 .. Plots[p], j > b[1] PROVE j > a[1]
        BY <1>7, <2>1, <3>1, <4>1
      <4> QED
        BY <2>6, <4>1
    <3>5. ASSUME b[1] <= Plots[p]
          PROVE  Untouched(<<p, SeedOf(p, b[1])>>)'
      <4>1. b[1] \in 2 .. Plots[p] /\ b[1] > a[1] /\ SeedOf(p, b[1]) = <<run, b[1]>>
        BY <1>7, <2>1, <2>4, <3>1, <3>5
      <4> QED
        BY <1>0, <1>7, <2>6, <4>1
    <3>6. b[1] <= Plots[p] => /\ b[2] < Warps[p]
                              /\ pocx'[<<p, SeedOf(p, b[1])>>] = NoPocx
                              /\ ResumeInfo(p, tmp'[<<p, SeedOf(p, b[1])>>]) = b[2]
      BY <1>1, <3>1, <3>5, <1>7 DEF Untouched, ResumeInfo
    <3> QED
      BY <1>0, <1>7, <3>3, <3>4, <3>6 DEF DiskAt
  <2>8. CASE m # Warps[p]
    <3>1. b = <<a[1], m>>
      BY <2>1, <2>8 DEF After
    <3>2. b[2] < Warps[p] /\ ResumeInfo(p, tmp'[f]) = b[2] /\ pocx'[f] = NoPocx
      BY <1>0, <1>1, <1>2, <1>4, <1>5, <1>6, <2>8, <3>1 DEF ResumeInfo, HasMarker, NoMarker
    <3> QED
      BY <1>0, <1>7, <2>2, <2>5, <2>6, <3>1, <3>2 DEF DiskAt, ResumeInfo, HasMarker
  <2> QED
    BY <2>7, <2>8
<1>10. ASSUME Work(p)' = NoTask, wpc'[p] # "marker" PROVE Chain(p)'
  <2>1. Sent(p)' = Sent(p) /\ Work(p) = wtask[p]
    BY <1>0, <1>7 DEF Sent, schedVars, Work
  <2>2. \A b \in Positions : Takes(p, b, NoTask, b)'
    BY DEF Takes, NoTask
  <2> QED
    BY <1>0, <1>7, <1>9, <1>10, <2>1, <2>2, ChainHead
<1>11. wpc \in [Paths -> {"recv", "open", "alloc", "mark0", "write", "last", "marker", "rename", "finalize",
                            "ended", "failed"}] /\ wtask \in [Paths -> Tasks]
  BY DEF IInv, Types, WriterTypes
<1>12. CASE m = Warps[p]
  <2>1. wpc' = [wpc EXCEPT ![p] = "rename"] /\ wtask' = wtask /\ pool' = pool
    BY <1>4, <1>12 DEF WriteMarker
  <2>2. wtask' = [wtask EXCEPT ![p] = wtask[p]] /\ wpc'[p] = "rename"
    BY <1>11, <2>1
  <2>3. Chain(p)'
    BY <1>10, <2>1, <2>2 DEF Work
  <2>4. WriterRight(p)'
    BY <1>3, <1>5, <1>6, <1>12, <1>a, <2>1, <2>2 DEF WriterRight, FileOf
  <2> QED
    BY <1>0, <1>1, <1>3, <1>5, <1>7, <1>8, <2>1, <2>2, <2>3, <2>4, DoneKeeps
<1>13. CASE m # Warps[p]
  <2>1. wpc' = [wpc EXCEPT ![p] = "recv"] /\ wtask' = [wtask EXCEPT ![p] = NoTask] /\ pool' = pool + 1
    BY <1>4, <1>13 DEF WriteMarker, Recycle
  <2>2. wtask'[p] = NoTask /\ wpc'[p] = "recv"
    BY <1>11, <2>1
  <2>3. Chain(p)'
    BY <1>10, <2>2 DEF Work
  <2>4. WriterRight(p)'
    BY <2>2 DEF WriterRight
  <2>5. NoTask \in Tasks /\ pool' \in Nat
    BY <1>7, <2>1, TaskMakers
  <2> QED
    BY <1>0, <1>1, <1>5, <1>7, <1>8, <2>1, <2>2, <2>3, <2>4, <2>5, DoneKeeps
<1> QED
  BY <1>12, <1>13

\* A file whose marker counts all its warps gets its final name.
LEMMA RenamedKeeps ==
  ASSUME IInv, NEW p \in Paths, wpc[p] \in {"rename", "finalize"}, RenameFile(p),
         wpc' = [wpc EXCEPT ![p] = "recv"], wtask' = [wtask EXCEPT ![p] = NoTask], pool' \in Nat,
         UNCHANGED <<pc, schedVars, queue, stop, procVars>>,
         tmp[FileOf(p)].size # "none", tmp[FileOf(p)].marker = Warps[p]
  PROVE  IInv'
<1>a. PICK f \in Files : f = FileOf(p)
  BY FileFactsOf
<1>b. PICK y : y = tmp[f]
  OBVIOUS
<1>1. /\ f[1] = p /\ y \in Tmps(p) /\ DOMAIN tmp = Files /\ DOMAIN pocx = Files /\ FileOK(f)
      /\ \A w \in 0 .. y.marker - 1 : y.data[w] = Right(f[2], w)
      /\ pc # "down" /\ p \in 0 .. MaxPaths - 1 /\ Warps[p] \in Nat \ {0}
  BY <1>a, <1>b, FileFactsOf
<1>2. y.size = "full" /\ y.marker = Warps[p] /\ y # NoPocx
  <2>1. y.marker = Warps[p] /\ y.size # "none" /\ HasMarker(y)
    BY <1>a, <1>b, <1>1 DEF HasMarker, NoMarker
  <2> QED
    BY <1>b, <1>1, <2>1, FileIsNotNone DEF FileOK
<1>3. PICK t \in Tmps(p) : t = NoTmp(p) /\ t.size = "none" /\ t.marker = NoMarker
  BY <1>1, NoTmpFacts DEF IInv, Types, ProcTypes
<1>4. /\ job \in Jobs /\ SchedTypes /\ ProcTypes /\ Chain(p) /\ queue[p] \in Seq(Tasks) /\ Plots[p] \in Nat
      /\ UNCHANGED <<job, run, firstSeed, result, faults, queue, schedVars, pc, stop>> /\ faults \in 0 .. job.faults
      /\ Plots' = Plots /\ \A k : SeedOf(p, k)' = SeedOf(p, k)
  <2>1. UNCHANGED <<job, run, firstSeed, result, faults, queue, schedVars, pc, stop>>
    BY DEF procVars
  <2>2. SchedTypes /\ ProcTypes /\ Chain(p) /\ queue[p] \in Seq(Tasks) /\ job \in Jobs /\ faults \in 0 .. job.faults
    BY <1>1 DEF IInv, Types, QueueTypes, Chains, ProcTypes
  <2> QED
    BY <2>1, <2>2, JobFacts, JobSame DEF SeedOf
<1>5. /\ tmp' = [tmp EXCEPT ![f] = t] /\ DOMAIN pocx' = Files /\ pocx'[f] = y /\ tmp'[f] = t
      /\ \A g \in Files : g # f => tmp'[g] = tmp[g] /\ pocx'[g] = pocx[g]
  BY <1>a, <1>b, <1>1, <1>3 DEF RenameFile
<1>6. OwnFile(f)'
  <2>1. ~(f[2][1] > run')
    BY <1>b, <1>2, <1>4 DEF IInv, DiskRight, Seeds, Untouched
  <2>2. \A w : Right(f[2], w)' = Right(f[2], w)
    BY <1>4, JobSame DEF Right
  <2>3. \A w \in 0 .. Warps[f[1]] - 1 : pocx'[f].data[w] = Right(f[2], w)'
    BY <1>1, <1>2, <1>5, <2>2
  <2>4. FileOK(f)'
    BY <1>3, <1>5 DEF FileOK, HasMarker
  <2>5. \A w \in 0 .. tmp'[f].marker - 1 : FALSE
    BY <1>3, <1>5 DEF NoMarker
  <2> QED
    BY <2>1, <2>3, <2>4, <2>5 DEF OwnFile
<1>7. wpc'[p] = "recv" /\ wtask'[p] = NoTask
  BY DEF IInv, Types, WriterTypes
<1>8. Chain(p)'
  <2>1. ASSUME NEW a \in Positions, DiskAt(p, a) PROVE DiskAt(p, a)'
    <3>1. a[1] \in Nat \ {0}
      BY DEF Positions
    <3>2. \A j \in 1 .. Plots[p] : <<p, SeedOf(p, j)>> \in Files
      BY <1>1, <1>4, SeedOfType
    <3>3. \A j \in 2 .. Plots[p] : SeedOf(p, j) = <<run, j>> /\ j \in 1 .. Plots[p]
      BY <1>4 DEF SeedOf
    <3>4. ASSUME NEW j \in 1 .. Plots[p], AllWarpsWritten(p, SeedOf(p, j))
          PROVE  AllWarpsWritten(p, SeedOf(p, j))'
      <4>1. CASE <<p, SeedOf(p, j)>> = f
        <5>1. pocx'[<<p, SeedOf(p, j)>>] # NoPocx
          BY <1>2, <1>5, <4>1
        <5> QED
          BY <1>4, <5>1 DEF AllWarpsWritten
      <4>2. CASE <<p, SeedOf(p, j)>> # f
        BY <1>4, <1>5, <3>2, <3>4, <4>2 DEF AllWarpsWritten
      <4> QED
        BY <4>1, <4>2
    <3>5. ASSUME NEW j \in 2 .. Plots[p], Untouched(<<p, <<run, j>> >>)
          PROVE  Untouched(<<p, <<run, j>> >>)'
      <4>1. <<p, <<run, j>> >> \in Files /\ <<p, <<run, j>> >> # f
        BY <1>b, <1>2, <3>2, <3>3, <3>5 DEF Untouched
      <4> QED
        BY <1>4, <1>5, <3>5, <4>1 DEF Untouched
    <3>6. ASSUME a[1] <= Plots[p]
          PROVE  /\ a[2] < Warps[p] /\ pocx'[<<p, SeedOf(p, a[1])>>] = NoPocx
                 /\ ResumeInfo(p, tmp'[<<p, SeedOf(p, a[1])>>]) = a[2]
      <4>1. a[1] \in 1 .. Plots[p]
        BY <1>4, <3>1, <3>6
      <4>2. a[2] < Warps[p] /\ pocx[<<p, SeedOf(p, a[1])>>] = NoPocx
            /\ ResumeInfo(p, tmp[<<p, SeedOf(p, a[1])>>]) = a[2]
        BY <2>1, <3>6 DEF DiskAt
      <4>3. ResumeInfo(p, y) = Warps[p]
        BY <1>1, <1>2 DEF ResumeInfo, HasMarker, NoMarker
      <4>4. <<p, SeedOf(p, a[1])>> # f
        BY <1>1, <1>b, <4>2, <4>3
      <4> QED
        BY <1>5, <3>2, <4>1, <4>2, <4>4
    <3>7. \A j \in 1 .. Plots[p] : j < a[1] => AllWarpsWritten(p, SeedOf(p, j))'
      BY <2>1, <3>4 DEF DiskAt
    <3>8. \A j \in 2 .. Plots[p] : j > a[1] => Untouched(<<p, <<run, j>> >>)'
      BY <2>1, <3>5 DEF DiskAt
    <3> QED
      BY <1>4, <3>6, <3>7, <3>8 DEF DiskAt, ResumeInfo, HasMarker
  <2>2. WriterRight(p)
    BY FileFactsOf
  <2>3. Sent(p)' = Sent(p) /\ Work(p).type # "process" /\ Work(p)' = NoTask
    BY <1>4, <1>7, <2>2 DEF Sent, schedVars, Work, WriterRight, NoTask
  <2>4. \A a, b \in Positions : Takes(p, a, Work(p), b) => b = a
    BY <2>3 DEF Takes
  <2>5. \A b \in Positions : Takes(p, b, NoTask, b)'
    BY DEF Takes, NoTask
  <2> QED
    BY <1>4, <2>1, <2>3, <2>4, <2>5, ChainHead
<1>9. WriterRight(p)'
  BY <1>7 DEF WriterRight
<1>10. NoTask \in Tasks /\ (t.size = "empty" => tmp[f].size = "empty")
  BY <1>3, TaskMakers
<1> QED
  BY <1>1, <1>4, <1>5, <1>6, <1>8, <1>9, <1>10, DoneKeeps

LEMMA RenameKeeps ==
  ASSUME IInv, NEW p \in Paths, Rename(p)
  PROVE  IInv'
<1>1. wpc[p] = "rename" /\ WriterRight(p)
  BY FileFactsOf DEF Rename
<1>2. pool \in Nat
  BY DEF IInv, Types, QueueTypes
<1>3. tmp[FileOf(p)].size = "full" /\ tmp[FileOf(p)].marker = Warps[p]
  BY <1>1 DEF WriterRight
<1>4. /\ RenameFile(p) /\ wpc' = [wpc EXCEPT ![p] = "recv"] /\ wtask' = [wtask EXCEPT ![p] = NoTask]
      /\ pool' = pool + 1 /\ UNCHANGED <<pc, schedVars, queue, stop, procVars>>
  BY DEF Rename, Recycle
<1>5. pool' \in Nat /\ wpc[p] \in {"rename", "finalize"} /\ tmp[FileOf(p)].size # "none"
  BY <1>1, <1>2, <1>3, <1>4
<1> QED
  BY <1>3, <1>4, <1>5, RenamedKeeps

\* A Finalize task comes to nothing.
LEMMA FinalizeNothing ==
  ASSUME IInv, NEW p \in Paths, wpc[p] = "finalize",
         wpc' = [wpc EXCEPT ![p] = "recv"], wtask' = [wtask EXCEPT ![p] = NoTask],
         UNCHANGED <<pc, schedVars, sharedVars, job, run, firstSeed, result, diskVars>>,
         faults' \in 0 .. job.faults, faults > 0 => faults' > 0
  PROVE  IInv'
<1>1. PICK f \in Files : f = FileOf(p) /\ f[1] = p
  BY FileFactsOf
<1>2. /\ UNCHANGED <<queue, stop, pool, tmp, pocx>> /\ pool' \in Nat /\ pc # "down" /\ queue[p] \in Seq(Tasks)
      /\ SchedTypes /\ ProcTypes /\ Chain(p) /\ WriterRight(p) /\ DOMAIN tmp = Files /\ DOMAIN pocx = Files
      /\ tmp = [g \in Files |-> tmp[g]]
  <2>1. /\ UNCHANGED <<queue, stop, pool, tmp, pocx>> /\ pool \in Nat /\ pc # "down" /\ queue[p] \in Seq(Tasks)
        /\ SchedTypes /\ ProcTypes /\ WriterRight(p) /\ tmp = [g \in Files |-> tmp[g]] /\ DOMAIN pocx = Files
    BY FileFactsOf DEF sharedVars, diskVars, IInv, Types, QueueTypes, DiskTypes
  <2> QED
    BY <2>1 DEF IInv, Chains
<1>3. wpc'[p] = "recv" /\ wtask'[p] = NoTask
  BY DEF IInv, Types, WriterTypes
<1>4. Chain(p)'
  <2>1. \A a \in Positions : DiskAt(p, a) => DiskAt(p, a)'
    BY <1>2, DiskSame
  <2>2. Sent(p)' = Sent(p) /\ Work(p).type = "finalize" /\ Work(p)' = NoTask
    BY <1>2, <1>3, JobSame DEF Sent, schedVars, Work, WriterRight
  <2>3. \A a, b \in Positions : Takes(p, a, Work(p), b) => b = a
    BY <2>2 DEF Takes
  <2>4. \A b \in Positions : Takes(p, b, NoTask, b)'
    BY DEF Takes, NoTask
  <2> QED
    BY <1>2, <2>1, <2>2, <2>3, <2>4, ChainHead
<1>5. WriterRight(p)' /\ OwnFile(f)'
  BY <1>2, <1>3, OwnFileSame DEF WriterRight
<1>6. PICK t \in Tmps(p) : t = tmp[f]
  BY <1>1 DEF IInv, Types, DiskTypes
<1>7. PICK y : y = pocx[f] /\ (y = NoPocx \/ y \in Tmps(p))
  BY <1>1 DEF IInv, Types, DiskTypes
<1>8. tmp' = [tmp EXCEPT ![f] = t]
  <2>1. [tmp EXCEPT ![f] = t] = [g \in Files |-> tmp[g]]
    BY <1>2, <1>6
  <2> QED
    BY <1>2, <2>1
<1> QED
  BY <1>1, <1>2, <1>4, <1>5, <1>6, <1>7, <1>8, DoneKeeps, TaskMakers

\* Only a file whose marker counts all its warps meets its Finalize task.
LEMMA FinalizeWhole ==
  ASSUME IInv, NEW p \in Paths, wpc[p] = "finalize", tmp[FileOf(p)].size # "none"
  PROVE  tmp[FileOf(p)].marker = Warps[p]
<1>1. pc # "down" /\ WriterRight(p) /\ FileOK(FileOf(p)) /\ job \in Jobs
  BY FileFactsOf DEF IInv, Types, ProcTypes
<1>2. Chain(p) /\ Work(p) = wtask[p] /\ wtask[p].type = "finalize"
  BY <1>1 DEF IInv, Chains, Work, WriterRight
<1>3. PICK a \in Positions : DiskAt(p, a) /\ wtask[p].seed = firstSeed[p] /\ a[1] >= 2
  <2>1. PICK pos \in [0 .. Len(queue[p]) + 1 -> Positions] :
           DiskAt(p, pos[0]) /\ Takes(p, pos[0], Work(p), pos[1])
    BY <1>2 DEF Chain
  <2>2. pos[0] \in Positions
    <3>1. Len(queue[p]) \in Nat
      BY DEF IInv, Types, QueueTypes
    <3> QED
      BY <2>1, <3>1
  <2> QED
    BY <1>2, <2>1, <2>2 DEF Takes
<1>4. 1 \in 1 .. Plots[p] /\ 1 < a[1]
  <2>1. Plots[p] \in Nat \ {0} /\ a[1] \in Nat
    BY <1>1, JobFacts DEF Positions
  <2> QED
    BY <1>3, <2>1
<1>5. AllWarpsWritten(p, firstSeed[p])
  BY <1>3, <1>4 DEF DiskAt, SeedOf
<1> QED
  BY <1>1, <1>3, <1>5 DEF AllWarpsWritten, FileOf, FileOK

LEMMA FinalizeFileKeeps ==
  ASSUME IInv, NEW p \in Paths, FinalizeFile(p)
  PROVE  IInv'
<1>1. /\ wpc[p] = "finalize" /\ UNCHANGED <<pc, schedVars, sharedVars, procVars>>
      /\ wpc' = [wpc EXCEPT ![p] = "recv"] /\ wtask' = [wtask EXCEPT ![p] = NoTask]
  BY DEF FinalizeFile
<1>2. CASE tmp[FileOf(p)].size = "none"
  <2>1. UNCHANGED diskVars /\ faults \in 0 .. job.faults /\ UNCHANGED <<job, run, firstSeed, result, faults>>
    BY <1>1, <1>2 DEF FinalizeFile, diskVars, procVars, IInv, Types, ProcTypes
  <2> QED
    BY <1>1, <2>1, FinalizeNothing
<1>3. CASE tmp[FileOf(p)].size # "none"
  <2>1. RenameFile(p) /\ pool \in Nat /\ UNCHANGED <<pool, queue, stop>>
    BY <1>1, <1>3 DEF FinalizeFile, IInv, Types, QueueTypes, sharedVars
  <2>2. tmp[FileOf(p)].marker = Warps[p]
    BY <1>1, <1>3, FinalizeWhole
  <2> QED
    BY <1>1, <1>3, <2>1, <2>2, RenamedKeeps
<1> QED
  BY <1>2, <1>3

\* An I/O call fails.
LEMMA FaultKeeps ==
  ASSUME IInv, NEW p \in Paths, Fault(p)
  PROVE  IInv'
<1>1. /\ faults < job.faults /\ faults' = faults + 1
      /\ UNCHANGED <<pc, schedVars, pool, job, run, firstSeed, result, diskVars>>
      /\ faults \in 0 .. job.faults /\ job.faults \in Nat
  BY JobFacts DEF Fault, IInv, Types, ProcTypes
<1>2. CASE wpc[p] \in {"open", "alloc", "mark0", "write", "last", "marker", "rename"} /\ Fail(p)
  BY <1>1, <1>2, FailKeeps
<1>3. CASE /\ wpc[p] = "finalize" /\ wpc' = [wpc EXCEPT ![p] = "recv"]
           /\ wtask' = [wtask EXCEPT ![p] = NoTask] /\ UNCHANGED <<queue, stop>>
  <2>1. faults' \in 0 .. job.faults /\ faults' > 0 /\ UNCHANGED sharedVars
    BY <1>1, <1>3 DEF sharedVars
  <2> QED
    BY <1>1, <1>3, <2>1, FinalizeNothing
<1> QED
  BY <1>2, <1>3 DEF Fault

LEMMA WriterKeeps ==
  ASSUME IInv, NEW p \in Paths, Writer(p) \/ Fault(p)
  PROVE  IInv'
BY ReceiveKeeps, OpenKeeps, AllocateKeeps, WriteMarker0Keeps, WriteScoopsKeeps, WriteLastScoopKeeps,
   WriteMarkerKeeps, RenameKeeps, FinalizeFileKeeps, FaultKeeps DEF Writer

-----------------------------------------------------------------------------
(* The steps of the process. *)

LEMMA StaleFacts == {Junk} \in Contents /\ StaleSlots \in Datas(Escalate)
BY DEF Contents, StaleSlots, Datas

LEMMA InitKeeps == Init => IInv
<1> SUFFICES ASSUME Init PROVE IInv
  OBVIOUS
<1>0. job \in Jobs /\ NumPaths \in Nat \ {0} /\ 0 \in Paths /\ Passes \in Nat \ {0} /\ NumBuffers \in Nat \ {0}
      /\ \A p \in Paths : Warps[p] \in Nat \ {0} /\ Plots[p] \in Nat \ {0}
      /\ Escalate \in Nat \ {0} /\ MaxRuns \in Nat /\ job.faults \in Nat
  BY JobFacts DEF Init
<1>1. SchedTypes
  <2>1. /\ seeds \in [Paths -> GivenSeeds] /\ warpOffset \in [Paths -> Nat] /\ filesDone \in [Paths -> Nat]
        /\ nonces \in [Paths -> Nat] /\ \A p \in Paths : warpOffset[p] <= Warps[p] /\ filesDone[p] <= Plots[p]
    BY <1>0 DEF Init, GivenSeeds
  <2>2. pass \in 0 .. Passes - 1 /\ inBuffer \in 0 .. Escalate /\ slots \in Datas(Escalate)
    BY <1>0, StaleFacts DEF Init
  <2> QED
    BY <1>0, <2>1, <2>2 DEF Init, SchedTypes
<1>2. QueueTypes
  <2>1. <<>> \in Seq(Tasks) /\ Len(<<>>) <= NumBuffers
    BY <1>0
  <2> QED
    BY <1>0, <2>1 DEF Init, QueueTypes
<1>3. WriterTypes
  BY TaskMakers DEF Init, WriterTypes
<1>4. ProcTypes
  BY <1>0 DEF Init, ProcTypes, GivenSeeds
<1>5. \A f \in Files : /\ tmp[f] = NoTmp(f[1]) /\ pocx[f] = NoPocx /\ tmp[f] \in Tmps(f[1])
                       /\ tmp[f].size = "none" /\ tmp[f].marker = NoMarker
  <2>1. TAKE f \in Files
  <2>2. f[1] \in 0 .. MaxPaths - 1
    BY DEF Files
  <2> QED
    BY <1>0, <2>2, NoTmpFacts DEF Init
<1>6. DiskTypes
  BY <1>5 DEF Init, DiskTypes
<1>7. SchedulerRight /\ Ending /\ Stopping /\ Chains
  BY <1>0 DEF Init, SchedulerRight, BufferRight, NoBuffer, Place, Ending, Stopping, Chains
<1>8. DiskRight
  <2>1. FilesOK /\ Seeds /\ Unsized /\ NoProcess
    BY <1>5 DEF Init, FilesOK, FileOK, HasMarker, Seeds, Untouched, Unsized, NoProcess
  <2>2. Writers
    BY DEF Init, Writers, WriterRight
  <2>3. MarkerCoversWarps
    BY <1>5 DEF MarkerCoversWarps, NoMarker
  <2>4. FinishedIsRight /\ OkMeansWritten /\ WriterFailsOnUnsizedFileOnly
    BY <1>5 DEF Init, FinishedIsRight, OkMeansWritten, WriterFailsOnUnsizedFileOnly
  <2> QED
    BY <2>1, <2>2, <2>3, <2>4 DEF DiskRight
<1> QED
  BY <1>1, <1>2, <1>3, <1>4, <1>6, <1>7, <1>8 DEF IInv, Types

\* The process is gone.
LEMMA ExitKeeps ==
  ASSUME IInv, Exit, UNCHANGED <<stop, job, run, firstSeed, faults, diskVars>>,
         result' \in {"none", "ok", "err", "killed"}, OkMeansWritten'
  PROVE  IInv'
<1>0. job \in Jobs /\ NumPaths \in Nat \ {0} /\ 0 \in Paths /\ Passes \in Nat \ {0} /\ NumBuffers \in Nat \ {0}
      /\ \A p \in Paths : Warps[p] \in Nat \ {0} /\ Plots[p] \in Nat \ {0}
      /\ Escalate \in Nat \ {0} /\ UNCHANGED <<Paths, Plots, Passes, NumBuffers, tmp, pocx>>
      /\ Types
  BY JobFacts, JobSame DEF IInv, Types, ProcTypes, diskVars
<1>1. SchedTypes'
  <2>1. /\ seeds' \in [Paths -> GivenSeeds] /\ warpOffset' \in [Paths -> Nat] /\ filesDone' \in [Paths -> Nat]
        /\ nonces' \in [Paths -> Nat] /\ \A p \in Paths : warpOffset'[p] <= Warps[p] /\ filesDone'[p] <= Plots[p]
    BY <1>0 DEF Exit, GivenSeeds
  <2>2. pass' \in 0 .. Passes - 1 /\ inBuffer' \in 0 .. Escalate /\ slots' \in Datas(Escalate)
    BY <1>0, StaleFacts DEF Exit
  <2> QED
    BY <1>0, <2>1, <2>2 DEF Exit, Types, SchedTypes
<1>2. QueueTypes'
  <2>1. <<>> \in Seq(Tasks) /\ Len(<<>>) <= NumBuffers
    BY <1>0
  <2> QED
    BY <1>0, <2>1 DEF Exit, QueueTypes
<1>3. WriterTypes'
  BY <1>0, TaskMakers DEF Exit, WriterTypes
<1>4. ProcTypes' /\ DiskTypes'
  BY <1>0 DEF Exit, Types, ProcTypes, DiskTypes
<1>5. SchedulerRight' /\ Ending' /\ Stopping' /\ Chains'
  BY <1>0 DEF Exit, SchedulerRight, BufferRight, NoBuffer, Place, Ending, Stopping, Chains
<1>6. DiskRight'
  <2>1. FilesOK' /\ Seeds' /\ Unsized' /\ NoProcess'
    BY <1>0 DEF Exit, IInv, DiskRight, FilesOK, FileOK, HasMarker, Seeds, Untouched, Unsized, NoProcess
  <2>2. Writers'
    BY <1>0 DEF Exit, Writers, WriterRight
  <2>3. MarkerCoversWarps' /\ FinishedIsRight' /\ WriterFailsOnUnsizedFileOnly'
    BY <1>0 DEF Exit, IInv, DiskRight, MarkerCoversWarps, FinishedIsRight, WriterFailsOnUnsizedFileOnly, Right
  <2> QED
    BY <2>1, <2>2, <2>3 DEF DiskRight
<1> QED
  BY <1>1, <1>2, <1>3, <1>4, <1>5, <1>6 DEF IInv, Types

LEMMA CrashKeeps ==
  ASSUME IInv, Crash
  PROVE  IInv'
<1>1. OkMeansWritten' /\ result' = "killed"
  BY DEF Crash, OkMeansWritten
<1> QED
  BY <1>1, ExitKeeps DEF Crash

\* A run that returns Ok without a stop has sent all its warps, and the writers
\* have taken them all.
LEMMA ReturnKeeps ==
  ASSUME IInv, Return
  PROVE  IInv'
<1>0. /\ pc = "done" /\ (\A p \in Paths : ~Alive(p)) /\ Exit
      /\ UNCHANGED <<stop, job, run, firstSeed, faults, diskVars>>
      /\ UNCHANGED <<Paths, Plots, tmp, pocx>> /\ Types /\ job \in Jobs
      /\ \A p \in Paths : Plots[p] \in Nat \ {0}
  BY JobFacts, JobSame DEF Return, IInv, Types, ProcTypes, diskVars
<1>1. result' = (IF \E p \in Paths : wpc[p] = "failed" THEN "err" ELSE "ok")
  BY DEF Return
<1>2. ASSUME result' = "ok", ~(job.stops /\ stop), NEW p \in Paths, NEW s \in Planned(p)
      PROVE  AllWarpsWritten(p, s)
  <2>1. \A q \in Paths : wpc[q] = "ended"
    BY <1>0, <1>1, <1>2 DEF Alive
  <2>2. ~stop
    BY <1>0, <1>2, <2>1 DEF IInv, Stopping
  <2>3. filesDone[p] = Plots[p]
    <3>1. AllDone
      BY <1>0, <2>2 DEF IInv, SchedulerRight, Place
    <3>2. filesDone[p] >= Plots[p] /\ filesDone[p] <= Plots[p] /\ filesDone[p] \in Nat
      BY <1>0, <3>1 DEF AllDone, Types, SchedTypes
    <3> QED
      BY <1>0, <3>2
  <2>4. Chain(p) /\ queue[p] = <<>> /\ Work(p) = NoTask
    <3>1. Chain(p) /\ OwnEnding(p) /\ WriterRight(p)
      BY <1>0, <2>1 DEF IInv, Chains, Ending, DiskRight, Writers
    <3> QED
      BY <2>1, <3>1 DEF OwnEnding, WriterRight, Work
  <2>5. PICK a : DiskAt(p, a) /\ a = <<Plots[p] + 1, 0>>
    <3>1. PICK pos \in [0 .. Len(queue[p]) + 1 -> Positions] :
             /\ DiskAt(p, pos[0]) /\ Takes(p, pos[0], Work(p), pos[1])
             /\ pos[Len(queue[p]) + 1] = Sent(p)
      BY <2>4 DEF Chain
    <3>2. pos[1] = Sent(p) /\ pos[1] = pos[0]
      <4>1. Len(queue[p]) + 1 = 1
        BY <2>4
      <4> QED
        BY <2>4, <3>1, <4>1 DEF Takes, NoTask
    <3>3. Sent(p) = <<Plots[p] + 1, 0>>
      BY <1>0, <2>3 DEF Sent
    <3> QED
      BY <3>1, <3>2, <3>3
  <2>6. PICK k \in 1 .. Plots[p] : s = SeedOf(p, k)
    <3>1. CASE s = firstSeed[p]
      <4>1. 1 \in 1 .. Plots[p] /\ SeedOf(p, 1) = s
        BY <1>0, <3>1 DEF SeedOf
      <4> QED
        BY <4>1
    <3>2. ASSUME NEW j \in 2 .. Plots[p], s = <<run, j>> PROVE \E k \in 1 .. Plots[p] : s = SeedOf(p, k)
      <4>1. j \in 1 .. Plots[p] /\ SeedOf(p, j) = s
        BY <1>0, <3>2 DEF SeedOf
      <4> QED
        BY <4>1
    <3> QED
      BY <1>2, <3>1, <3>2 DEF Planned
  <2>7. k < Plots[p] + 1
    BY <1>0, <2>6
  <2> QED
    BY <2>5, <2>6, <2>7 DEF DiskAt
<1>3. OkMeansWritten'
  <2>1. ASSUME NEW p \in Paths PROVE Planned(p)' = Planned(p) /\ \A s : AllWarpsWritten(p, s)' <=> AllWarpsWritten(p, s)
    BY <1>0 DEF Planned, AllWarpsWritten
  <2>2. job'.stops = job.stops /\ stop' = stop
    BY <1>0
  <2> QED
    BY <1>0, <1>2, <2>1, <2>2 DEF OkMeansWritten
<1>4. result' \in {"none", "ok", "err", "killed"}
  BY <1>1
<1> QED
  BY <1>0, <1>3, <1>4, ExitKeeps

\* A run begins where the files it is given end.
LEMMA StartKeeps ==
  ASSUME IInv, NEW given \in [Paths -> SeedIds \cup {<<0, 0>>}],
         \A p \in Paths : given[p] \in Resumable(p) \cup {<<0, 0>>}, Start(given)
  PROVE  IInv'
<1>0. /\ job \in Jobs /\ NumPaths \in Nat \ {0} /\ 0 \in Paths /\ Passes \in Nat \ {0} /\ NumBuffers \in Nat \ {0}
      /\ \A p \in Paths : Warps[p] \in Nat \ {0} /\ Plots[p] \in 1 .. MaxPlots
      /\ MaxPlots \in Nat /\ MaxRuns \in Nat /\ Escalate \in Nat \ {0} /\ job.faults \in Nat
  BY JobFacts DEF IInv, Types, ProcTypes
<1>a. /\ UNCHANGED <<job, faults, tmp, pocx, Paths, Plots, Passes, NumBuffers, NumPaths>>
      /\ pc = "down" /\ run < MaxRuns /\ run \in Nat /\ run' = run + 1 /\ result' = "none" /\ stop' = FALSE
      /\ held' = FALSE /\ pass' = 0 /\ inBuffer' = 0 /\ pc' = "hash" /\ endTo' = 0 /\ slots' = StaleSlots
      /\ pool' = NumBuffers
      /\ wpc' = [p \in Paths |-> "recv"] /\ wtask' = [p \in Paths |-> NoTask]
  <2>1. UNCHANGED <<job, faults, tmp, pocx>> /\ pc = "down" /\ run < MaxRuns /\ run' = run + 1
    BY DEF Start, diskVars
  <2>2. UNCHANGED <<Paths, Plots, Passes, NumBuffers, NumPaths>> /\ run \in Nat
    BY <2>1, JobSame DEF IInv, Types, ProcTypes
  <2> QED
    BY <2>1, <2>2 DEF Start
<1>b. PICK full : full = {p \in Paths : given[p] # <<0, 0>> /\ ResumeInfo(p, tmp[<<p, given[p]>>]) >= Warps[p]}
  OBVIOUS
<1>c. PICK first : first = [p \in Paths |-> IF given[p] = <<0, 0>> THEN <<run + 1, 1>> ELSE given[p]]
  OBVIOUS
<1>d. PICK off : off = [p \in Paths |-> IF p \in full \/ given[p] = <<0, 0>> THEN 0
                                       ELSE ResumeInfo(p, tmp[<<p, given[p]>>])]
  OBVIOUS
<1>e. PICK done : done = [p \in Paths |-> IF p \in full THEN 1 ELSE 0]
  OBVIOUS
<1>1. /\ \A p \in Paths : p \in full <=> given[p] # <<0, 0>> /\ ResumeInfo(p, tmp[<<p, given[p]>>]) >= Warps[p]
      /\ \A p \in Paths : first[p] = IF given[p] = <<0, 0>> THEN <<run + 1, 1>> ELSE given[p]
      /\ \A p \in Paths : off[p] = IF p \in full \/ given[p] = <<0, 0>> THEN 0
                                       ELSE ResumeInfo(p, tmp[<<p, given[p]>>])
      /\ \A p \in Paths : done[p] = IF p \in full THEN 1 ELSE 0
      /\ first = [p \in Paths |-> first[p]] /\ off = [p \in Paths |-> off[p]]
      /\ done = [p \in Paths |-> done[p]]
  BY <1>b, <1>c, <1>d, <1>e
<1>2. /\ firstSeed' = first /\ warpOffset' = off /\ filesDone' = done
      /\ seeds' = [p \in Paths |-> IF p \in full /\ 1 < Plots[p] THEN <<run + 1, 2>> ELSE first[p]]
      /\ nonces' = [p \in Paths |-> off[p] * Passes]
      /\ path' = FirstActive(done) /\ bufStart' = off[FirstActive(done)] /\ bufPath' = FirstActive(done)
      /\ queue' = [p \in Paths |-> IF p \in full THEN <<Finalize(first[p])>> ELSE <<>>]
  <2> DEFINE resumes == [p \in Paths |-> IF given[p] = <<0, 0>> THEN 0 ELSE ResumeInfo(p, tmp[<<p, given[p]>>])]
             fl == {p \in Paths : Full(p, resumes[p])}
             of == [p \in Paths |-> IF p \in fl THEN 0 ELSE resumes[p]]
  <2>1. fl = full
    BY <1>0, <1>b DEF Full
  <2> HIDE DEF fl
  <2>2. of = off
    BY <1>d, <2>1
  <2> HIDE DEF of
  <2> QED
    BY <1>c, <1>d, <1>e, <2>1, <2>2 DEF Start, fl, of
<1>3. FirstActive(done) \in Paths /\
      ((\E q \in Paths : done[q] < Plots[q]) => done[FirstActive(done)] < Plots[FirstActive(done)])
  BY <1>0, FirstActiveRight
\* What the runs before have left.
<1>4. ASSUME NEW f \in Files, f[2][1] > run PROVE Untouched(f)
  BY <1>4 DEF IInv, DiskRight, Seeds
<1>5. ASSUME NEW p \in Paths, NEW j \in 1 .. Plots[p]
      PROVE  /\ <<run + 1, j>> \in SeedIds /\ <<p, <<run + 1, j>> >> \in Files
             /\ Untouched(<<p, <<run + 1, j>> >>)
  <2>1. <<run + 1, j>> \in SeedIds
    BY <1>0, <1>a DEF SeedIds
  <2>2. <<p, <<run + 1, j>> >> \in Files
    BY <1>0, <2>1, FileFacts
  <2> QED
    BY <1>4, <1>a, <2>1, <2>2
<1>6. ASSUME NEW p \in Paths, given[p] # <<0, 0>>
      PROVE  /\ given[p] \in SeedIds /\ <<p, given[p]>> \in Files /\ ~(given[p][1] > run) /\ given[p][1] \in Nat
             /\ pocx[<<p, given[p]>>] = NoPocx
             /\ ResumeInfo(p, tmp[<<p, given[p]>>]) \in 0 .. Warps[p]
             /\ ResumeInfo(p, tmp[<<p, given[p]>>]) >= Warps[p] => tmp[<<p, given[p]>>].marker = Warps[p]
  <2>1. given[p] \in SeedIds /\ tmp[<<p, given[p]>>].size # "none"
    BY <1>6 DEF Resumable
  <2>2. PICK f \in Files : f = <<p, given[p]>> /\ f[1] = p /\ f[2] = given[p]
    BY <1>0, <2>1, FileFacts
  <2>3. FileOK(f) /\ tmp[f] \in Tmps(p) /\ ~Untouched(f)
    BY <2>1, <2>2 DEF IInv, DiskRight, FilesOK, Types, DiskTypes, Untouched
  <2>4. given[p][1] \in Nat
    BY <2>1 DEF SeedIds
  <2>5. tmp[f].marker \in {NoMarker} \cup (0 .. Warps[p])
    BY <2>3 DEF Tmps
  <2> QED
    BY <1>0, <1>4, <2>1, <2>2, <2>3, <2>4, <2>5 DEF FileOK, ResumeInfo, HasMarker, NoMarker
<1>7. ASSUME NEW p \in Paths
      PROVE  /\ first[p] \in SeedIds /\ (first[p] = <<run + 1, 1>> \/ first[p][1] < run + 1)
             /\ pocx[<<p, first[p]>>] = NoPocx
             /\ off[p] \in Nat /\ off[p] < Warps[p] /\ done[p] \in {0, 1} /\ done[p] <= Plots[p]
             /\ p \in full => done[p] = 1 /\ off[p] = 0 /\ tmp[<<p, first[p]>>].marker = Warps[p]
             /\ p \notin full => done[p] = 0 /\ ResumeInfo(p, tmp[<<p, first[p]>>]) = off[p]
  <2>1. CASE given[p] = <<0, 0>>
    <3>1. p \notin full /\ first[p] = <<run + 1, 1>> /\ off[p] = 0 /\ done[p] = 0 /\ 1 \in 1 .. Plots[p]
      <4>1. 1 \in 1 .. Plots[p]
        BY <1>0
      <4> QED
        BY <1>1, <2>1, <4>1
    <3>2. Untouched(<<p, first[p]>>) /\ first[p] \in SeedIds
      BY <1>5, <3>1
    <3> QED
      BY <1>0, <3>1, <3>2 DEF Untouched, ResumeInfo
  <2>2. CASE given[p] # <<0, 0>> /\ p \in full
    <3>1. first[p] = given[p] /\ off[p] = 0 /\ done[p] = 1 /\ ResumeInfo(p, tmp[<<p, given[p]>>]) >= Warps[p]
      BY <1>1, <2>2
    <3> QED
      BY <1>0, <1>6, <1>a, <2>2, <3>1
  <2>3. CASE given[p] # <<0, 0>> /\ p \notin full
    <3>1. /\ first[p] = given[p] /\ off[p] = ResumeInfo(p, tmp[<<p, given[p]>>]) /\ done[p] = 0
          /\ ~(ResumeInfo(p, tmp[<<p, given[p]>>]) >= Warps[p])
      BY <1>1, <2>3
    <3> QED
      BY <1>0, <1>6, <1>a, <2>3, <3>1
  <2> QED
    BY <2>1, <2>2, <2>3
<1>8. /\ off \in [Paths -> Nat] /\ done \in [Paths -> Nat] /\ first \in [Paths -> SeedIds]
  <2>1. ASSUME NEW p \in Paths PROVE off[p] \in Nat /\ done[p] \in Nat /\ first[p] \in SeedIds
    <3>1. off[p] \in Nat /\ done[p] \in {0, 1} /\ first[p] \in SeedIds
      BY <1>7
    <3> QED
      BY <3>1
  <2> QED
    BY <1>1, <2>1
<1>9. ASSUME NEW p \in Paths, NEW k \in Nat \ {0}
      PROVE  SeedOf(p, k)' = IF k = 1 THEN first[p] ELSE <<run + 1, k>>
  BY <1>a, <1>2 DEF SeedOf
<1>10. Types'
  <2>1. SchedTypes'
    <3>1. seeds' \in [Paths -> GivenSeeds]
      <4>1. ASSUME NEW p \in Paths, 1 < Plots[p] PROVE <<run + 1, 2>> \in SeedIds
        <5>1. 2 \in 1 .. Plots[p]
          BY <1>0, <4>1
        <5> QED
          BY <1>5, <5>1
      <4> QED
        BY <1>2, <1>8, <4>1 DEF GivenSeeds
    <3>2. nonces' \in [Paths -> Nat]
      <4>1. \A p \in Paths : off[p] * Passes \in Nat
        BY <1>0, <1>8
      <4> QED
        BY <1>2, <4>1
    <3>3. ASSUME NEW p \in Paths PROVE off[p] <= Warps[p] /\ done[p] <= Plots[p]
      <4>1. off[p] \in Nat /\ Warps[p] \in Nat /\ off[p] < Warps[p] /\ done[p] <= Plots[p]
        BY <1>0, <1>7
      <4> QED
        BY <4>1
    <3>4. bufStart' \in Nat /\ path' \in Paths /\ bufPath' \in Paths
      BY <1>2, <1>3, <1>8
    <3>5. pass' \in 0 .. Passes - 1 /\ inBuffer' \in 0 .. Escalate /\ slots' \in Datas(Escalate)
      BY <1>0, <1>a, StaleFacts
    <3> QED
      BY <1>0, <1>a, <1>2, <1>8, <3>1, <3>2, <3>3, <3>4, <3>5 DEF SchedTypes
  <2>2. QueueTypes'
    <3>1. ASSUME NEW p \in Paths PROVE queue'[p] \in Seq(Tasks) /\ Len(queue'[p]) <= NumBuffers
      <4>1. CASE p \in full
        <5>1. queue'[p] = <<Finalize(first[p])>> /\ Finalize(first[p]) \in Tasks
          BY <1>2, <1>7, <4>1, TaskMakers
        <5> QED
          BY <1>0, <5>1
      <4>2. CASE p \notin full
        <5>1. queue'[p] = <<>>
          BY <1>2, <4>2
        <5>2. <<>> \in Seq(Tasks) /\ Len(<<>>) <= NumBuffers
          BY <1>0
        <5> QED
          BY <5>1, <5>2
      <4> QED
        BY <4>1, <4>2
    <3> QED
      BY <1>0, <1>a, <1>2, <3>1 DEF QueueTypes
  <2>3. WriterTypes'
    BY <1>a, TaskMakers DEF WriterTypes
  <2>4. ProcTypes'
    <3>1. first \in [Paths -> GivenSeeds] /\ run + 1 \in 0 .. MaxRuns /\ run + 1 > 0
      BY <1>0, <1>a, <1>8 DEF GivenSeeds
    <3>2. job \in Jobs /\ faults \in 0 .. job.faults
      BY DEF IInv, Types, ProcTypes
    <3> QED
      BY <1>a, <1>2, <1>8, <3>1, <3>2 DEF ProcTypes
  <2>5. DiskTypes'
    BY <1>a DEF IInv, Types, DiskTypes
  <2> QED
    BY <2>1, <2>2, <2>3, <2>4, <2>5 DEF Types
<1>11. SchedulerRight'
  <2>1. BufferRight' /\ NoBuffer'
    BY <1>a DEF BufferRight, NoBuffer
  <2>2. \A p \in Paths : Active(p)' <=> done[p] < Plots[p]
    BY <1>a, <1>2 DEF Active
  <2>3. (\A p \in Paths : ~(done[p] < Plots[p])) => AllDone'
    <3>1. \A p \in Paths : done[p] \in Nat /\ Plots[p] \in Nat
      BY <1>0, <1>8
    <3> QED
      BY <1>a, <1>2, <3>1 DEF AllDone
  <2>4. Active(path)' \/ AllDone'
    <3>1. path' \in Paths /\ done[path'] < Plots[path'] => Active(path)'
      BY <1>a, <1>2 DEF Active
    <3> QED
      BY <1>2, <1>3, <2>3, <3>1
  <2>5. ASSUME NEW p \in Paths, done[p] < Plots[p]
        PROVE  seeds'[p] = SeedOf(p, filesDone[p] + 1)' /\ warpOffset'[p] < Warps[p]
               /\ nonces'[p] = warpOffset'[p] * Passes
    <3>1. CASE p \in full
      <4>1. filesDone'[p] = 1 /\ 1 < Plots[p] /\ seeds'[p] = <<run + 1, 2>> /\ done[p] + 1 = 2
        <5>1. p \in full /\ done[p] = 1 /\ 1 < Plots[p]
          BY <1>7, <2>5, <3>1
        <5> QED
          BY <1>2, <5>1
      <4>2. SeedOf(p, filesDone[p] + 1)' = <<run + 1, 2>>
        BY <1>a, <4>1 DEF SeedOf
      <4> QED
        BY <1>2, <1>7, <4>1, <4>2
    <3>2. CASE p \notin full
      <4>1. filesDone'[p] = 0 /\ seeds'[p] = first[p]
        BY <1>2, <1>7, <3>2
      <4>2. SeedOf(p, filesDone[p] + 1)' = first[p]
        BY <1>2, <4>1 DEF SeedOf
      <4> QED
        BY <1>2, <1>7, <4>1, <4>2
    <3> QED
      BY <3>1, <3>2
  <2>6. \A p \in Paths : warpOffset'[p] * Passes \in Nat
    BY <1>0, <1>2, <1>8
  <2>7. \A p \in Paths : Active(p)' =>
            /\ seeds'[p] = SeedOf(p, filesDone[p] + 1)' /\ warpOffset'[p] < Warps[p]
            /\ nonces'[p] = warpOffset'[p] * Passes + (IF p = path' THEN 0 + 0 ELSE 0)
    BY <2>2, <2>5, <2>6
  <2>8. Place'
    BY <1>a, <2>4, <2>7 DEF Place
  <2> QED
    BY <2>1, <2>8 DEF SchedulerRight
<1>12. Ending' /\ Stopping'
  <2>1. ASSUME NEW p \in Paths PROVE OwnEnding(p)'
    <3>1. queue'[p] = <<Finalize(first[p])>> \/ queue'[p] = <<>>
      BY <1>2
    <3>2. \A i \in DOMAIN queue'[p] : queue'[p][i].type = "finalize"
      BY <3>1, TaskMakers
    <3>3. wpc'[p] = "recv"
      BY <1>a
    <3> QED
      BY <3>2, <3>3 DEF OwnEnding
  <2> QED
    BY <1>a, <2>1 DEF Ending, Stopping
<1>13. Chains'
  <2>1. ASSUME NEW p \in Paths PROVE Chain(p)'
    <3>1. \A j \in 2 .. Plots[p] : j \in 1 .. Plots[p] /\ j \in Nat \ {0}
      BY <1>0
    <3>2. \A j \in 2 .. Plots[p] : Untouched(<<p, <<run, j>> >>)'
      BY <1>5, <1>a, <3>1 DEF Untouched
    <3>3. Work(p)' = NoTask
      BY <1>a DEF Work
    <3>4. CASE p \in full
      <4>1. PICK a \in Positions : a = <<2, 0>>
        <5>1. <<2, 0>> \in Positions
          BY DEF Positions
        <5> QED
          BY <5>1
      <4>2. AllWarpsWritten(p, SeedOf(p, 1))'
        BY <1>7, <1>a, <1>9, <3>4 DEF AllWarpsWritten
      <4>3. DiskAt(p, a)'
        <5>1. ASSUME NEW j \in 1 .. Plots[p], j < a[1] PROVE AllWarpsWritten(p, SeedOf(p, j))'
          <6>1. j = 1
            BY <4>1, <5>1
          <6> QED
            BY <4>2, <6>1
        <5>2. ASSUME a[1] <= Plots[p]
              PROVE  /\ a[2] < Warps[p] /\ pocx'[<<p, SeedOf(p, a[1])'>>] = NoPocx
                     /\ ResumeInfo(p, tmp'[<<p, SeedOf(p, a[1])'>>]) = a[2]
          <6>1. 2 \in 1 .. Plots[p]
            BY <1>0, <4>1, <5>2
          <6>2. Untouched(<<p, <<run + 1, 2>> >>) /\ SeedOf(p, a[1])' = <<run + 1, 2>>
            BY <1>5, <1>9, <4>1, <6>1
          <6> QED
            BY <1>0, <1>a, <4>1, <6>2 DEF Untouched, ResumeInfo
        <5> QED
          BY <1>a, <3>2, <5>1, <5>2 DEF DiskAt, ResumeInfo, HasMarker
      <4>4. queue'[p] = <<Finalize(first[p])>>
        BY <1>2, <3>4
      <4>5. Sent(p)' = a
        <5>1. filesDone'[p] = 1 /\ warpOffset'[p] = 0 /\ held' = FALSE
          BY <1>2, <1>7, <1>a, <3>4
        <5> QED
          BY <4>1, <5>1 DEF Sent
      <4>6. PICK pos \in [0 .. 2 -> Positions] : pos[0] = a /\ pos[1] = a /\ pos[2] = a
        <5> DEFINE g == [i \in 0 .. 2 |-> a]
        <5>1. g \in [0 .. 2 -> Positions] /\ g[0] = a /\ g[1] = a /\ g[2] = a
          OBVIOUS
        <5> QED
          BY <5>1
      <4>7. Takes(p, a, NoTask, a)' /\ Takes(p, a, Finalize(first[p]), a)'
        BY <1>2, <4>1, TaskMakers DEF Takes
      <4>8. Len(queue'[p]) = 1 /\ queue'[p][1] = Finalize(first[p])
        BY <4>4
      <4>9. Len(queue'[p]) + 1 = 2 /\ 1 + 1 = 2
        BY <4>8
      <4>10. \A i \in 1 .. Len(queue'[p]) : i = 1
        BY <4>8
      <4>11. \A i \in 1 .. Len(queue[p])' : Takes(p, pos[i], queue[p][i], pos[i + 1])'
        BY <4>6, <4>7, <4>8, <4>9, <4>10
      <4> QED
        BY <3>3, <4>3, <4>5, <4>6, <4>7, <4>9, <4>11 DEF Chain
    <3>5. CASE p \notin full
      <4>1. PICK a \in Positions : a = <<1, off[p]>>
        <5>1. off[p] \in Nat
          BY <1>7
        <5>2. <<1, off[p]>> \in Positions
          BY <5>1 DEF Positions
        <5> QED
          BY <5>2
      <4>3. DiskAt(p, a)'
        <5>1. \A j \in 1 .. Plots[p] : ~(j < a[1])
          BY <4>1
        <5>2. SeedOf(p, a[1])' = first[p]
          BY <1>9, <4>1
        <5>3. /\ a[2] < Warps[p] /\ pocx'[<<p, SeedOf(p, a[1])'>>] = NoPocx
              /\ ResumeInfo(p, tmp'[<<p, SeedOf(p, a[1])'>>]) = a[2]
          BY <1>7, <1>a, <3>5, <4>1, <5>2
        <5> QED
          BY <1>a, <3>2, <5>1, <5>3 DEF DiskAt, ResumeInfo, HasMarker
      <4>4. queue'[p] = <<>>
        BY <1>2, <3>5
      <4>5. Sent(p)' = a
        <5>1. filesDone'[p] = 0 /\ warpOffset'[p] = off[p] /\ held' = FALSE /\ ~(0 >= Plots'[p])
          <6>0. Plots[p] \in Nat \ {0}
            BY <1>0
          <6>1. done[p] = 0 /\ Plots' = Plots
            BY <1>7, <1>a, <3>5
          <6>2. ~(0 >= Plots[p])
            BY <6>0
          <6> QED
            BY <1>2, <1>a, <6>1, <6>2
        <5> QED
          BY <4>1, <5>1 DEF Sent
      <4>6. PICK pos \in [0 .. 1 -> Positions] : pos[0] = a /\ pos[1] = a
        <5> DEFINE g == [i \in 0 .. 1 |-> a]
        <5>1. g \in [0 .. 1 -> Positions] /\ g[0] = a /\ g[1] = a
          OBVIOUS
        <5> QED
          BY <5>1
      <4>7. Takes(p, a, NoTask, a)'
        BY DEF Takes, NoTask
      <4>8. Len(queue'[p]) = 0 /\ Len(queue'[p]) + 1 = 1
        BY <4>4
      <4>9. \A i \in 1 .. Len(queue'[p]) : FALSE
        BY <4>8
      <4> QED
        BY <3>3, <4>3, <4>5, <4>6, <4>7, <4>8, <4>9 DEF Chain
    <3> QED
      BY <3>4, <3>5
  <2> QED
    BY <1>a, <2>1 DEF Chains
<1>14. DiskRight'
  <2>1. FilesOK' /\ MarkerCoversWarps' /\ FinishedIsRight'
    BY <1>a DEF IInv, DiskRight, FilesOK, FileOK, HasMarker, MarkerCoversWarps, FinishedIsRight, Right
  <2>2. Writers'
    BY <1>a DEF Writers, WriterRight
  <2>3. Seeds'
    <3>1. ASSUME NEW f \in Files, f[2][1] > run + 1 PROVE Untouched(f)'
      <4>1. f[2][1] \in Nat
        BY DEF Files, SeedIds
      <4>2. Untouched(f)
        BY <1>4, <1>a, <3>1, <4>1
      <4> QED
        BY <1>a, <4>2 DEF Untouched
    <3> QED
      BY <1>a, <1>2, <1>7, <3>1 DEF Seeds
  <2>4. Unsized'
    <3>1. ASSUME NEW p \in Paths, NEW j \in 2 .. Plots[p] PROVE tmp[<<p, <<run + 1, j>> >>].size = "none"
      <4>1. j \in 1 .. Plots[p]
        BY <1>0
      <4> QED
        BY <1>5, <4>1 DEF Untouched
    <3> QED
      BY <1>a, <3>1 DEF Unsized
  <2>5. NoProcess' /\ OkMeansWritten' /\ WriterFailsOnUnsizedFileOnly'
    BY <1>a DEF NoProcess, OkMeansWritten, WriterFailsOnUnsizedFileOnly
  <2> QED
    BY <2>1, <2>2, <2>3, <2>4, <2>5 DEF DiskRight
<1> QED
  BY <1>10, <1>11, <1>12, <1>13, <1>14 DEF IInv

-----------------------------------------------------------------------------
(* The theorems. *)

LEMMA NextKeeps == IInv /\ [Next]_vars => IInv'
<1> SUFFICES ASSUME IInv, [Next]_vars PROVE IInv'
  OBVIOUS
<1>1. CASE StartRun
  BY <1>1, StartKeeps DEF StartRun
<1>2. CASE Crash \/ Return \/ RequestStop \/ Scheduler
  BY <1>2, CrashKeeps, ReturnKeeps, RequestStopKeeps, SchedulerKeeps
<1>3. CASE \E p \in Paths : Writer(p) \/ Fault(p)
  BY <1>3, WriterKeeps
<1>4. CASE UNCHANGED vars
  <2>1. /\ UNCHANGED <<pc, schedVars, sharedVars, writerVars, procVars, diskVars>>
        /\ UNCHANGED <<Paths, Plots, Passes, NumBuffers, NumPaths, path, seeds, warpOffset, filesDone, nonces, pass,
                       held, slots, inBuffer, bufStart, bufPath, endTo, pool, queue, stop, wpc, wtask, job, run,
                       firstSeed, result, faults, tmp, pocx>>
    BY <1>4, JobSame DEF vars, schedVars, sharedVars, writerVars, procVars, diskVars
  <2>2. Types'
    BY <2>1 DEF IInv, Types, SchedTypes, QueueTypes, WriterTypes, ProcTypes, DiskTypes
  <2>3. SchedulerRight'
    BY <2>1, SchedulerSame DEF IInv
  <2>4. Ending' /\ Stopping'
    BY <2>1 DEF IInv, Ending, OwnEnding, Ended, Stopping
  <2>5. Chains'
    <3>1. ASSUME NEW p \in Paths, pc # "down", wpc[p] # "failed" PROVE Chain(p)'
      <4>1. Sent(p)' = Sent(p) /\ Chain(p) /\ queue[p] \in Seq(Tasks) /\ SchedTypes /\ ProcTypes
        BY <2>1, <3>1 DEF IInv, Sent, Chains, Types, QueueTypes
      <4> QED
        BY <2>1, <3>1, <4>1, ChainSame
    <3> QED
      BY <2>1, <3>1 DEF Chains
  <2>6. DiskRight'
    <3>1. FilesOK' /\ MarkerCoversWarps' /\ FinishedIsRight'
      BY <2>1 DEF IInv, DiskRight, FilesOK, FileOK, HasMarker, MarkerCoversWarps, FinishedIsRight, Right
    <3>2. Writers'
      BY <2>1 DEF IInv, DiskRight, Writers, WriterRight, FileOf, ResumeInfo, HasMarker, Right
    <3>3. Seeds' /\ Unsized' /\ WriterFailsOnUnsizedFileOnly' /\ NoProcess'
      BY <2>1 DEF IInv, DiskRight, Seeds, Untouched, Unsized, WriterFailsOnUnsizedFileOnly, NoProcess
    <3>4. OkMeansWritten'
      <4>1. ASSUME NEW p \in Paths
            PROVE  Planned(p)' = Planned(p) /\ \A s : AllWarpsWritten(p, s)' <=> AllWarpsWritten(p, s)
        BY <2>1 DEF Planned, AllWarpsWritten
      <4>2. OkMeansWritten /\ UNCHANGED <<result, job, stop, Paths>>
        BY <2>1 DEF IInv, DiskRight
      <4> QED
        BY <4>1, <4>2 DEF OkMeansWritten
    <3> QED
      BY <3>1, <3>2, <3>3, <3>4 DEF DiskRight
  <2> QED
    BY <2>2, <2>3, <2>4, <2>5, <2>6 DEF IInv
<1> QED
  BY <1>1, <1>2, <1>3, <1>4 DEF Next, Quiet

\* Disk, writers, channels and scheduler agree in every state: nothing is lost,
\* repeated or taken out of order between hashing a warp and finishing its file
\* (scheduler, disk_writer and pocx_plotfile together).
THEOREM PipelineInvariant == Spec => []IInv
<1>1. Init => IInv
  BY InitKeeps
<1>2. IInv /\ [Next]_vars => IInv'
  BY NextKeeps
<1> QED
  BY <1>1, <1>2, PTL DEF Spec

\* Whatever stands before the resume marker of an unfinished file is right, at
\* every instant at which a kill can come (write_optimised_buffer_into_plotfile).
THEOREM MarkersCoverWarps == Spec => []MarkerCoversWarps
<1>1. IInv => MarkerCoversWarps
  BY DEF IInv, DiskRight
<1> QED
  BY <1>1, PipelineInvariant, PTL

\* A file that has its final name holds all its warps (finalize).
THEOREM FinishedAreRight == Spec => []FinishedIsRight
<1>1. IInv => FinishedIsRight
  BY DEF IInv, DiskRight
<1> QED
  BY <1>1, PipelineInvariant, PTL

\* A run that returns Ok has plotted what it was asked for (Plotter::run).
THEOREM OkIsWritten == Spec => []OkMeansWritten
<1>1. IInv => OkMeansWritten
  BY DEF IInv, DiskRight
<1> QED
  BY <1>1, PipelineInvariant, PTL

\* Without an I/O error a writer fails on nothing but a file that a kill left
\* without its size: no ResumeGap, no WriteExceedsEof, no missing file.
THEOREM WritersFailOnUnsizedFileOnly == Spec => []WriterFailsOnUnsizedFileOnly
<1>1. IInv => WriterFailsOnUnsizedFileOnly
  BY DEF IInv, DiskRight
<1> QED
  BY <1>1, PipelineInvariant, PTL

-----------------------------------------------------------------------------
(* The pipeline implements PlotDirectory. *)

\* The steps of the directory, in terms of the pipeline.
LEMMA DirStays ==
  ASSUME \A f \in Files : ProgressOf(f)' = ProgressOf(f) /\ (pocx'[f] # NoPocx <=> pocx[f] # NoPocx)
  PROVE  UNCHANGED Directory!dirVars
<1>1. [f \in Files |-> ProgressOf(f)]' = [f \in Files |-> ProgressOf(f)]
  OBVIOUS
<1>2. {f \in Files : pocx[f] # NoPocx}' = {f \in Files : pocx[f] # NoPocx}
  OBVIOUS
<1> QED
  BY <1>1, <1>2 DEF Directory!dirVars

LEMMA DirExtends ==
  ASSUME NEW f \in Files, pocx[f] = NoPocx, NEW m \in ProgressOf(f) + 1 .. ProgressOf(f) + Escalate,
         m <= Warps[f[1]], ProgressOf(f)' = m,
         \A g \in Files : g # f => ProgressOf(g)' = ProgressOf(g),
         \A g \in Files : pocx'[g] # NoPocx <=> pocx[g] # NoPocx
  PROVE  Directory!DirNext
<1> DEFINE pr == [g \in Files |-> ProgressOf(g)]
<1>1. pr' = [pr EXCEPT ![f] = m]
  <2>1. pr' = [g \in Files |-> ProgressOf(g)']
    OBVIOUS
  <2> QED
    BY <2>1
<1>2. {g \in Files : pocx[g] # NoPocx}' = {g \in Files : pocx[g] # NoPocx}
  OBVIOUS
<1>3. f \notin {g \in Files : pocx[g] # NoPocx} /\ pr[f] = ProgressOf(f)
      /\ m <= [g \in Files |-> Warps[g[1]]][f]
  OBVIOUS
<1> HIDE DEF pr
<1>4. Directory!Extend(f)
  BY <1>1, <1>2, <1>3 DEF Directory!Extend, pr
<1> QED
  BY <1>4 DEF Directory!DirNext

LEMMA DirFinishes ==
  ASSUME NEW f \in Files, pocx[f] = NoPocx, pocx'[f] # NoPocx, ProgressOf(f) = Warps[f[1]],
         ProgressOf(f)' = Warps[f[1]],
         \A g \in Files : g # f => ProgressOf(g)' = ProgressOf(g) /\ (pocx'[g] # NoPocx <=> pocx[g] # NoPocx)
  PROVE  Directory!DirNext
<1>1. [g \in Files |-> ProgressOf(g)]' = [g \in Files |-> ProgressOf(g)]
  OBVIOUS
<1>2. {g \in Files : pocx[g] # NoPocx}' = {g \in Files : pocx[g] # NoPocx} \cup {f}
  OBVIOUS
<1>3. f \notin {g \in Files : pocx[g] # NoPocx}
      /\ [g \in Files |-> ProgressOf(g)][f] = [g \in Files |-> Warps[g[1]]][f]
  OBVIOUS
<1>4. Directory!Finish(f)
  BY <1>1, <1>2, <1>3 DEF Directory!Finish
<1> QED
  BY <1>4 DEF Directory!DirNext

LEMMA DirLoses ==
  ASSUME NEW F \in SUBSET Files,
         \A f \in Files : pocx'[f] # NoPocx <=> pocx[f] # NoPocx,
         \A f \in Files : f \notin F => ProgressOf(f)' = ProgressOf(f),
         \A f \in F : /\ pocx[f] = NoPocx /\ ProgressOf(f)' = 0 /\ ProgressOf(f) > 0
                      /\ ProgressOf(f) < Warps[f[1]] /\ Warps[f[1]] - ProgressOf(f) <= Escalate
  PROVE  Directory!DirNext
<1>1. [f \in Files |-> ProgressOf(f)]' = [f \in Files |-> IF f \in F THEN 0 ELSE [g \in Files |-> ProgressOf(g)][f]]
  OBVIOUS
<1>2. {f \in Files : pocx[f] # NoPocx}' = {f \in Files : pocx[f] # NoPocx}
  OBVIOUS
<1>3. \A f \in F : /\ [g \in Files |-> ProgressOf(g)][f] < [g \in Files |-> Warps[g[1]]][f]
                   /\ [g \in Files |-> Warps[g[1]]][f] - [g \in Files |-> ProgressOf(g)][f] <= Escalate
  OBVIOUS
<1>4. F \in SUBSET Directory!Begun
  BY DEF Directory!Begun
<1>5. Directory!Lose(F)
  BY <1>1, <1>2, <1>3 DEF Directory!Lose
<1> QED
  BY <1>4, <1>5 DEF Directory!DirNext

\* A writer between the marker it has overwritten and the one it will write
\* hides the former; the step of no other writer tells.
LEMMA ProgressSame ==
  ASSUME UNCHANGED <<job, tmp, pocx>>,
         \A p \in Paths : \/ wpc'[p] = wpc[p] /\ wtask'[p] = wtask[p]
                          \/ wpc[p] # "marker" /\ wpc'[p] # "marker"
  PROVE  UNCHANGED Directory!dirVars
<1>1. ASSUME NEW f \in Files PROVE ProgressOf(f)' = ProgressOf(f)
  BY JobSame DEF ProgressOf, ResumeInfo, HasMarker
<1> QED
  BY <1>1, DirStays

LEMMA OthersProgress ==
  ASSUME UNCHANGED job, NEW p \in Paths, NEW f \in Files, f = FileOf(p),
         \A q \in Paths \ {p} : wpc'[q] = wpc[q] /\ wtask'[q] = wtask[q],
         \A g \in Files : g # f => tmp'[g] = tmp[g] /\ pocx'[g] = pocx[g],
         wpc'[p] = "marker" => wtask'[p] = wtask[p]
  PROVE  \A g \in Files : g # f => ProgressOf(g)' = ProgressOf(g) /\ (pocx'[g] # NoPocx <=> pocx[g] # NoPocx)
<1> SUFFICES ASSUME NEW g \in Files, g # f
             PROVE  ProgressOf(g)' = ProgressOf(g) /\ (pocx'[g] # NoPocx <=> pocx[g] # NoPocx)
  OBVIOUS
<1>1. tmp'[g] = tmp[g] /\ pocx'[g] = pocx[g] /\ UNCHANGED Paths
  BY JobSame
<1>2. CASE g[1] = p
  <2>1. wtask[p].seed # g[2]
    <3>1. g = <<g[1], g[2]>>
      BY DEF Files
    <3> QED
      BY <1>2, <3>1 DEF FileOf
  <2> QED
    BY <1>1, <1>2, <2>1 DEF ProgressOf, ResumeInfo, HasMarker
<1>3. CASE g[1] # p
  BY <1>1, <1>3 DEF ProgressOf, ResumeInfo, HasMarker
<1> QED
  BY <1>2, <1>3

\* What a file counts for while its task is being written.
LEMMA TaskProgress ==
  ASSUME IInv, NEW p \in Paths, wpc[p] \in {"open", "alloc", "mark0", "write", "last", "marker"}
  PROVE  ProgressOf(FileOf(p)) = wtask[p].start /\ pocx[FileOf(p)] = NoPocx
<1>1. PICK f : f = FileOf(p)
  OBVIOUS
<1>2. f[1] = p /\ f[2] = wtask[p].seed
  BY <1>1, FileFactsOf
<1>3. pocx[f] = NoPocx /\ (wpc[p] = "marker" \/ ResumeInfo(p, tmp[f]) = wtask[p].start)
  BY <1>1, WorkFacts
<1>4. ProgressOf(f) = wtask[p].start
  BY <1>2, <1>3 DEF ProgressOf
<1> QED
  BY <1>1, <1>3, <1>4

\* A kill or an error: the file loses its progress when its marker is gone.
LEMMA ProgressLost ==
  ASSUME IInv, NEW p \in Paths, wpc[p] = "marker"
  PROVE  \/ ResumeInfo(p, tmp[FileOf(p)]) = ProgressOf(FileOf(p))
         \/ /\ ResumeInfo(p, tmp[FileOf(p)]) = 0 /\ ProgressOf(FileOf(p)) > 0
            /\ ProgressOf(FileOf(p)) < Warps[p] /\ Warps[p] - ProgressOf(FileOf(p)) <= Escalate
<1>1. ProgressOf(FileOf(p)) = wtask[p].start
  BY TaskProgress
<1>2. /\ wtask[p].start \in Nat /\ wtask[p].n \in 1 .. Escalate /\ wtask[p].start + wtask[p].n <= Warps[p]
      /\ Escalate \in Nat /\ Warps[p] \in Nat /\ WriterRight(p)
  BY WorkFacts, FileFactsOf, PipelineAssumption
<1>3. CASE wtask[p].start + wtask[p].n = Warps[p]
  <2>1. ResumeInfo(p, tmp[FileOf(p)]) = 0
    BY <1>2, <1>3 DEF WriterRight, ResumeInfo, HasMarker
  <2>2. wtask[p].start = 0 \/ (wtask[p].start > 0 /\ wtask[p].start < Warps[p] /\ Warps[p] - wtask[p].start <= Escalate)
    BY <1>2, <1>3
  <2> QED
    BY <1>1, <2>1, <2>2
<1>4. CASE wtask[p].start + wtask[p].n # Warps[p]
  BY <1>1, <1>2, <1>4 DEF WriterRight
<1> QED
  BY <1>3, <1>4

\* A step of the writer of p at its file, from progress x to progress y.
LEMMA WriterDirSame ==
  ASSUME UNCHANGED job, NEW p \in Paths, NEW f \in Files, f = FileOf(p), f[1] = p,
         \A q \in Paths \ {p} : wpc'[q] = wpc[q] /\ wtask'[q] = wtask[q],
         \A g \in Files : g # f => tmp'[g] = tmp[g] /\ pocx'[g] = pocx[g],
         wpc'[p] = "marker" => wtask'[p] = wtask[p],
         ProgressOf(f)' = ProgressOf(f), pocx'[f] = pocx[f]
  PROVE  UNCHANGED Directory!dirVars
<1>1. \A g \in Files : g # f => ProgressOf(g)' = ProgressOf(g) /\ (pocx'[g] # NoPocx <=> pocx[g] # NoPocx)
  BY OthersProgress
<1>2. \A g \in Files : ProgressOf(g)' = ProgressOf(g) /\ (pocx'[g] # NoPocx <=> pocx[g] # NoPocx)
  BY <1>1
<1> QED
  BY <1>2, DirStays

\* The frame of the writers' steps.
LEMMA WriterOthers ==
  ASSUME IInv, NEW p \in Paths, Writer(p), UNCHANGED job
  PROVE  /\ \A q \in Paths \ {p} : wpc'[q] = wpc[q] /\ wtask'[q] = wtask[q]
         /\ wpc[p] # "recv" =>
               \A g \in Files : g # FileOf(p) => tmp'[g] = tmp[g] /\ pocx'[g] = pocx[g]
<1>1. wpc = [q \in Paths |-> wpc[q]] /\ wtask = [q \in Paths |-> wtask[q]]
      /\ tmp = [f \in Files |-> tmp[f]] /\ DOMAIN pocx = Files
  BY DEF IInv, Types, WriterTypes, DiskTypes
<1>2. CASE Receive(p)
  BY <1>1, <1>2 DEF Receive, diskVars
<1>3. CASE Open(p)
  BY <1>1, <1>3 DEF Open, Fail
<1>4. CASE Allocate(p) \/ WriteMarker0(p) \/ WriteMarker(p)
  BY <1>1, <1>4 DEF Allocate, WriteMarker0, WriteMarker, Recycle
<1>5. CASE WriteScoops(p) \/ WriteLastScoop(p)
  BY <1>1, <1>5 DEF WriteScoops, WriteLastScoop, Fail
<1>6. CASE Rename(p) \/ FinalizeFile(p)
  BY <1>1, <1>6 DEF Rename, FinalizeFile, RenameFile, Recycle
<1> QED
  BY <1>2, <1>3, <1>4, <1>5, <1>6 DEF Writer

LEMMA WriterImplements ==
  ASSUME IInv, NEW p \in Paths, Writer(p)
  PROVE  Directory!DirNext \/ UNCHANGED Directory!dirVars
<1>0. UNCHANGED job
  BY DEF Writer, Receive, Open, Allocate, WriteMarker0, WriteScoops, WriteLastScoop, WriteMarker, Rename,
         FinalizeFile, procVars
<1>1. \A q \in Paths \ {p} : wpc'[q] = wpc[q] /\ wtask'[q] = wtask[q]
  BY <1>0, WriterOthers
<1>2. wpc \in [Paths -> {"recv", "open", "alloc", "mark0", "write", "last", "marker", "rename", "finalize", "ended",
                         "failed"}] /\ wtask \in [Paths -> Tasks]
  BY DEF IInv, Types, WriterTypes
<1>3. CASE Receive(p)
  <2>1. wpc[p] # "marker" /\ wpc'[p] # "marker" /\ UNCHANGED <<tmp, pocx>>
    BY <1>2, <1>3 DEF Receive, diskVars
  <2> QED
    BY <1>0, <1>1, <2>1, ProgressSame
<1>4. ASSUME wpc[p] \in {"open", "alloc", "mark0", "write", "last"}, wpc'[p] # "marker", tmp' = tmp, UNCHANGED pocx
      PROVE  UNCHANGED Directory!dirVars
  BY <1>0, <1>1, <1>4, ProgressSame
\* The file as it is while its task is being written.
<1>5. ASSUME wpc[p] \in {"open", "alloc", "mark0", "write", "last", "marker", "rename", "finalize"}
      PROVE  \E f \in Files :
                /\ f = FileOf(p) /\ f[1] = p /\ f[2] = wtask[p].seed /\ tmp[f] \in Tmps(p) /\ FileOK(f)
                /\ DOMAIN tmp = Files /\ DOMAIN pocx = Files /\ Warps[p] \in Nat \ {0} /\ WriterRight(p)
                /\ \A g \in Files : g # f => tmp'[g] = tmp[g] /\ pocx'[g] = pocx[g]
  <2>1. \A g \in Files : g # FileOf(p) => tmp'[g] = tmp[g] /\ pocx'[g] = pocx[g]
    BY <1>0, <1>5, WriterOthers
  <2> QED
    BY <1>5, <2>1, FileFactsOf
<1>6. ASSUME wpc[p] \in {"open", "alloc", "mark0", "write"}, wpc'[p] # "marker", UNCHANGED <<wtask, pocx>>,
             ResumeInfo(p, tmp'[FileOf(p)]) = ResumeInfo(p, tmp[FileOf(p)])
      PROVE  UNCHANGED Directory!dirVars
  <2>1. PICK f \in Files : /\ f = FileOf(p) /\ f[1] = p /\ f[2] = wtask[p].seed
                           /\ \A g \in Files : g # f => tmp'[g] = tmp[g] /\ pocx'[g] = pocx[g]
    BY <1>5, <1>6
  <2>2. ResumeInfo(p, tmp'[f]) = ResumeInfo(p, tmp[f])
    BY <1>6, <2>1
  <2>3. ProgressOf(f)' = ProgressOf(f)
    BY <1>0, <1>6, <2>1, <2>2, JobSame DEF ProgressOf, ResumeInfo, HasMarker
  <2> QED
    BY <1>0, <1>1, <1>6, <2>1, <2>3, WriterDirSame
<1>7. CASE Open(p)
  <2>1. wpc[p] = "open" /\ UNCHANGED pocx
    BY <1>7 DEF Open
  <2>2. PICK f \in Files : f = FileOf(p) /\ tmp[f] \in Tmps(p) /\ DOMAIN tmp = Files
    BY <1>5, <2>1
  <2>3. CASE tmp' = tmp
    <3>1. wpc'[p] # "marker"
      BY <1>2, <1>7 DEF Open, Fail
    <3> QED
      BY <1>4, <2>1, <2>3, <3>1
  <2>4. CASE tmp' # tmp
    <3>1. tmp[f].size = "none" /\ tmp' = [tmp EXCEPT ![f].size = "empty"] /\ wpc'[p] = "alloc" /\ UNCHANGED wtask
      BY <1>2, <1>7, <2>2, <2>4 DEF Open
    <3>2. tmp'[f].size = "empty"
      BY <2>2, <3>1 DEF Tmps
    <3> QED
      BY <1>6, <2>1, <2>2, <3>1, <3>2 DEF ResumeInfo
  <2> QED
    BY <2>3, <2>4
<1>8. CASE Allocate(p)
  <2>1. wpc[p] = "alloc" /\ UNCHANGED <<wtask, pocx>> /\ wpc'[p] = "mark0"
    BY <1>2, <1>8 DEF Allocate
  <2>2. PICK f \in Files : /\ f = FileOf(p) /\ tmp[f] \in Tmps(p) /\ DOMAIN tmp = Files /\ WriterRight(p) /\ FileOK(f)
    BY <1>5, <2>1
  <2>3. tmp[f].size = "empty" /\ ~HasMarker(tmp[f]) /\ tmp'[f].marker = tmp[f].marker
    BY <1>8, <2>1, <2>2 DEF WriterRight, FileOK, Allocate, Tmps
  <2> QED
    BY <1>6, <2>1, <2>2, <2>3 DEF ResumeInfo, HasMarker
<1>9. CASE WriteMarker0(p)
  <2>1. wpc[p] = "mark0" /\ UNCHANGED <<wtask, pocx>> /\ wpc'[p] = "write"
    BY <1>2, <1>9 DEF WriteMarker0
  <2>2. PICK f \in Files : /\ f = FileOf(p) /\ tmp[f] \in Tmps(p) /\ DOMAIN tmp = Files /\ WriterRight(p)
    BY <1>5, <2>1
  <2>3. tmp[f].marker = NoMarker /\ tmp'[f].marker = 0
    BY <1>9, <2>1, <2>2 DEF WriterRight, WriteMarker0, Tmps
  <2> QED
    BY <1>6, <2>1, <2>2, <2>3 DEF ResumeInfo, HasMarker
<1>10. CASE WriteScoops(p)
  <2>1. wpc[p] = "write" /\ UNCHANGED pocx
    BY <1>10 DEF WriteScoops
  <2>2. PICK f \in Files : /\ f = FileOf(p) /\ tmp[f] \in Tmps(p) /\ DOMAIN tmp = Files
    BY <1>5, <2>1
  <2>3. CASE WriteAllowed(p)
    <3>1. /\ wpc'[p] = "last" /\ UNCHANGED wtask
          /\ tmp' = [tmp EXCEPT ![f].data = [w \in DOMAIN @ |-> IF w \in Written(p) THEN {Junk} ELSE @[w]]]
      BY <1>2, <1>10, <2>2, <2>3 DEF WriteScoops
    <3>2. tmp'[f].size = tmp[f].size /\ tmp'[f].marker = tmp[f].marker
      BY <2>2, <3>1 DEF Tmps
    <3> QED
      BY <1>6, <2>1, <2>2, <3>1, <3>2 DEF ResumeInfo, HasMarker
  <2>4. CASE ~WriteAllowed(p)
    <3>1. tmp' = tmp /\ wpc'[p] # "marker"
      BY <1>2, <1>10, <2>4 DEF WriteScoops, Fail
    <3> QED
      BY <1>4, <2>1, <3>1
  <2> QED
    BY <2>3, <2>4
<1>11. CASE WriteLastScoop(p)
  <2>1. wpc[p] = "last" /\ wpc'[p] = "marker" /\ UNCHANGED <<wtask, pocx>>
    BY <1>2, <1>11 DEF WriteLastScoop
  <2>2. PICK f \in Files : /\ f = FileOf(p) /\ f[1] = p /\ f[2] = wtask[p].seed
                           /\ \A g \in Files : g # f => tmp'[g] = tmp[g] /\ pocx'[g] = pocx[g]
    BY <1>5, <2>1
  <2>3. ProgressOf(f) = wtask[p].start /\ pocx[f] = NoPocx
    BY <2>1, <2>2, TaskProgress
  <2>4. ProgressOf(f)' = wtask[p].start
    BY <1>0, <2>1, <2>2, <2>3, JobSame DEF ProgressOf
  <2> QED
    BY <1>0, <1>1, <2>1, <2>2, <2>3, <2>4, WriterDirSame
<1>12. CASE WriteMarker(p)
  <2>1. wpc[p] = "marker" /\ UNCHANGED pocx /\ wpc'[p] \in {"rename", "recv"}
    BY <1>2, <1>12 DEF WriteMarker, Recycle
  <2>2. PICK f \in Files : /\ f = FileOf(p) /\ f[1] = p /\ f[2] = wtask[p].seed /\ tmp[f] \in Tmps(p) /\ WriterRight(p)
                           /\ \A g \in Files : g # f => tmp'[g] = tmp[g] /\ pocx'[g] = pocx[g]
                           /\ DOMAIN tmp = Files
    BY <1>5, <2>1
  <2>3. ProgressOf(f) = wtask[p].start /\ pocx[f] = NoPocx
    BY <2>1, <2>2, TaskProgress
  <2>4. /\ wtask[p].start \in Nat /\ wtask[p].n \in 1 .. Escalate /\ wtask[p].start + wtask[p].n <= Warps[p]
        /\ Escalate \in Nat
    BY <2>1, WorkFacts, PipelineAssumption
  <2>5. PICK m \in wtask[p].start + 1 .. wtask[p].start + Escalate : m = wtask[p].start + wtask[p].n /\ m > 0
    BY <2>4
  <2>6. tmp'[f].size = "full" /\ tmp'[f].marker = m
    BY <1>12, <2>1, <2>2, <2>5 DEF WriteMarker, WriterRight, NewProgress, Tmps
  <2>7. ProgressOf(f)' = m
    BY <1>0, <2>1, <2>2, <2>3, <2>5, <2>6, JobSame DEF ProgressOf, ResumeInfo, HasMarker, NoMarker
  <2>8. \A g \in Files : g # f => ProgressOf(g)' = ProgressOf(g) /\ (pocx'[g] # NoPocx <=> pocx[g] # NoPocx)
    BY <1>0, <1>1, <2>1, <2>2, OthersProgress
  <2>9. Directory!DirNext
    BY <2>1, <2>2, <2>3, <2>4, <2>5, <2>7, <2>8, DirExtends
  <2> QED
    BY <2>9
<1>13. ASSUME wpc[p] \in {"rename", "finalize"}, RenameFile(p), wpc'[p] = "recv",
              tmp[FileOf(p)].size # "none", tmp[FileOf(p)].marker = Warps[p]
       PROVE  Directory!DirNext
  <2>1. PICK f \in Files : /\ f = FileOf(p) /\ f[1] = p /\ f[2] = wtask[p].seed /\ tmp[f] \in Tmps(p) /\ FileOK(f)
                           /\ DOMAIN tmp = Files /\ DOMAIN pocx = Files /\ Warps[p] \in Nat \ {0}
                           /\ \A g \in Files : g # f => tmp'[g] = tmp[g] /\ pocx'[g] = pocx[g]
    BY <1>5, <1>13
  <2>2. pocx[f] = NoPocx /\ pocx'[f] # NoPocx
    BY <1>13, <2>1, FileIsNotNone DEF FileOK, RenameFile
  <2>3. ProgressOf(f) = Warps[p]
    BY <1>13, <2>1, <2>2 DEF ProgressOf, FileOK, HasMarker, NoMarker, ResumeInfo
  <2>4. ProgressOf(f)' = Warps[p]
    BY <2>1, <2>2 DEF ProgressOf
  <2>5. \A g \in Files : g # f => ProgressOf(g)' = ProgressOf(g) /\ (pocx'[g] # NoPocx <=> pocx[g] # NoPocx)
    BY <1>0, <1>1, <1>13, <2>1, OthersProgress
  <2> QED
    BY <2>1, <2>2, <2>3, <2>4, <2>5, DirFinishes
<1>14. CASE Rename(p)
  <2>1. wpc[p] = "rename" /\ RenameFile(p) /\ wpc'[p] = "recv"
    BY <1>2, <1>14 DEF Rename, Recycle
  <2>2. tmp[FileOf(p)].size = "full" /\ tmp[FileOf(p)].marker = Warps[p]
    BY <1>5, <2>1 DEF WriterRight
  <2> QED
    BY <1>13, <2>1, <2>2
<1>15. CASE FinalizeFile(p)
  <2>1. wpc[p] = "finalize" /\ wpc'[p] = "recv"
    BY <1>2, <1>15 DEF FinalizeFile
  <2>2. CASE tmp[FileOf(p)].size = "none"
    <3>1. UNCHANGED <<tmp, pocx>>
      BY <1>15, <2>2 DEF FinalizeFile
    <3> QED
      BY <1>0, <1>1, <2>1, <3>1, ProgressSame
  <2>3. CASE tmp[FileOf(p)].size # "none"
    <3>1. RenameFile(p) /\ tmp[FileOf(p)].marker = Warps[p]
      BY <1>15, <2>1, <2>3, FinalizeWhole DEF FinalizeFile
    <3> QED
      BY <1>13, <2>1, <2>3, <3>1
  <2> QED
    BY <2>2, <2>3
<1> QED
  BY <1>3, <1>7, <1>8, <1>9, <1>10, <1>11, <1>12, <1>14, <1>15 DEF Writer

\* The progress that ends with the process, or with a writer.
LEMMA WritersGone ==
  ASSUME IInv, UNCHANGED <<job, tmp, pocx>>,
         \A p \in Paths : \/ wpc'[p] = wpc[p] /\ wtask'[p] = wtask[p]
                          \/ wpc'[p] # "marker"
  PROVE  Directory!DirNext \/ UNCHANGED Directory!dirVars
<1> DEFINE F == {f \in Files : ProgressOf(f)' # ProgressOf(f)}
<1>1. ASSUME NEW f \in F
      PROVE  /\ pocx[f] = NoPocx /\ ProgressOf(f)' = 0 /\ ProgressOf(f) > 0
             /\ ProgressOf(f) < Warps[f[1]] /\ Warps[f[1]] - ProgressOf(f) <= Escalate
  <2>1. f \in Files /\ ProgressOf(f)' # ProgressOf(f)
    OBVIOUS
  <2>2. PICK p : p = f[1] /\ f = <<p, f[2]>>
    BY <2>1 DEF Files
  <2>3. pocx[f] = NoPocx /\ p \in Paths /\ wpc[p] = "marker" /\ wpc'[p] # "marker" /\ wtask[p].seed = f[2]
    BY <2>1, <2>2, JobSame DEF ProgressOf, ResumeInfo, HasMarker
  <2>4. f = FileOf(p)
    BY <2>2, <2>3 DEF FileOf
  <2>5. ProgressOf(f)' = ResumeInfo(p, tmp[f])
    BY <2>2, <2>3, JobSame DEF ProgressOf, ResumeInfo, HasMarker
  <2> QED
    BY <2>1, <2>2, <2>3, <2>4, <2>5, ProgressLost
<1>2. F \in SUBSET Files /\ \A f \in Files : f \notin F => ProgressOf(f)' = ProgressOf(f)
  OBVIOUS
<1> HIDE DEF F
<1>3. PICK G \in SUBSET Files : G = F
  BY <1>2
<1>4. Directory!DirNext
  BY <1>1, <1>2, <1>3, DirLoses
<1> QED
  BY <1>4

LEMMA NextImplements ==
  ASSUME IInv, Next
  PROVE  Directory!DirNext \/ UNCHANGED Directory!dirVars
<1>1. CASE StartRun
  <2>1. UNCHANGED <<job, tmp, pocx>> /\ pc = "down" /\ wpc' = [p \in Paths |-> "recv"]
    BY <1>1 DEF StartRun, Start, diskVars
  <2>2. \A p \in Paths : wpc[p] # "marker" /\ wpc'[p] # "marker"
    BY <2>1 DEF IInv, DiskRight, NoProcess
  <2> QED
    BY <2>1, <2>2, ProgressSame
<1>2. CASE Crash \/ Return
  <2>1. UNCHANGED <<job, tmp, pocx>> /\ wpc' = [p \in Paths |-> "ended"]
    BY <1>2 DEF Crash, Return, Exit, diskVars
  <2>2. \A p \in Paths : wpc'[p] # "marker"
    BY <2>1
  <2> QED
    BY <2>1, <2>2, WritersGone
<1>3. CASE RequestStop \/ Scheduler
  <2>1. UNCHANGED <<job, tmp, pocx, wpc, wtask>>
    BY <1>3 DEF RequestStop, Scheduler, Hash, Compress, Flush, Drain, End, procVars, diskVars, writerVars
  <2> QED
    BY <2>1, ProgressSame
<1>4. ASSUME NEW p \in Paths, Fault(p)
      PROVE  Directory!DirNext \/ UNCHANGED Directory!dirVars
  <2>1. UNCHANGED <<job, tmp, pocx>> /\ \A q \in Paths \ {p} : wpc'[q] = wpc[q] /\ wtask'[q] = wtask[q]
    BY <1>4 DEF Fault, Fail, diskVars, IInv, Types, WriterTypes
  <2>2. wpc'[p] # "marker"
    BY <1>4 DEF Fault, Fail, IInv, Types, WriterTypes
  <2> QED
    BY <2>1, <2>2, WritersGone
<1>5. CASE Quiet
  <2>1. UNCHANGED <<job, tmp, pocx, wpc, wtask>>
    BY <1>5 DEF Quiet, vars, procVars, diskVars, writerVars
  <2> QED
    BY <2>1, ProgressSame
<1> QED
  BY <1>1, <1>2, <1>3, <1>4, <1>5, WriterImplements DEF Next

\* Every step of scheduler, writers and process is a step of PlotDirectory or
\* none: files grow front to back, are finished once and when whole, and lose
\* nothing but a last chunk under way.
THEOREM PipelineImplements == Spec => ImplementsDirectory
<1>1. Init => Directory!DirInit
  <2> SUFFICES ASSUME Init PROVE Directory!DirInit
    OBVIOUS
  <2>1. \A f \in Files : ProgressOf(f) = 0 /\ pocx[f] = NoPocx
    <3>1. TAKE f \in Files
    <3>2. tmp[f].size = "none" /\ pocx[f] = NoPocx
      BY DEF Init, NoTmp
    <3>3. ~(f[1] \in Paths /\ wpc[f[1]] = "marker")
      BY DEF Init
    <3> QED
      BY <3>2, <3>3 DEF ProgressOf, ResumeInfo
  <2> QED
    BY <2>1 DEF Directory!DirInit
<1>2. IInv /\ [Next]_vars => [Directory!DirNext]_Directory!dirVars
  <2>1. CASE UNCHANGED vars
    <3>1. UNCHANGED <<job, tmp, pocx, wpc, wtask>>
      BY <2>1 DEF vars, procVars, diskVars, writerVars
    <3> QED
      BY <3>1, ProgressSame
  <2> QED
    BY <2>1, NextImplements
<1> QED
  BY <1>1, <1>2, PipelineInvariant, PTL DEF Spec, ImplementsDirectory, Directory!DirSpec

-----------------------------------------------------------------------------
(* The write buffers. *)

\* The writers and the places of the channels that hold a buffer.
Busy == {p \in Paths : IsProcess(wtask[p])}
Waiting == {pi \in Paths \X (1 .. NumBuffers) :
              /\ pi[2] \in DOMAIN queue[pi[1]]
              /\ IsProcess(queue[pi[1]][pi[2]])}
InHand == IF held THEN 1 ELSE 0
Buffers == pool + InHand + Cardinality(Busy) + Cardinality(Waiting)

\* There are never more buffers than the run has made, and no fewer unless a
\* writer has failed.
Balance ==
    IF pc = "down"
    THEN pool = 0
    ELSE /\ Buffers <= NumBuffers
         /\ Buffers = NumBuffers \/ \E p \in Paths : wpc[p] = "failed"

\* The places that a task leaves free when it is taken from its channel.
LEMMA ShiftedCard ==
  ASSUME NEW W, NEW V, NEW p, IsFiniteSet(W),
         \A x \in W : x = <<x[1], x[2]>> /\ x[2] \in Nat \ {0},
         \A x \in V : x = <<x[1], x[2]>> /\ x[2] \in Nat \ {0},
         \A i \in Nat \ {0} : <<p, i>> \in V <=> <<p, i + 1>> \in W,
         \A q, i : q # p => (<<q, i>> \in V <=> <<q, i>> \in W)
  PROVE  Cardinality(V) = Cardinality(W \ {<<p, 1>>})
<1> DEFINE U == W \ {<<p, 1>>}
           g == [x \in U |-> IF x[1] = p THEN <<p, x[2] - 1>> ELSE x]
<1>2. ASSUME NEW x \in U PROVE g[x] \in V
  <2>0. x \in W /\ x = <<x[1], x[2]>> /\ x[2] \in Nat \ {0} /\ x # <<p, 1>>
    OBVIOUS
  <2>1. CASE x[1] = p
    <3>1. x[2] # 1
      BY <2>0, <2>1
    <3>2. x[2] - 1 \in Nat \ {0} /\ (x[2] - 1) + 1 = x[2]
      BY <2>0, <3>1
    <3>3. <<p, x[2] - 1>> \in V
      BY <2>0, <2>1, <3>2
    <3> QED
      BY <2>1, <3>3
  <2>2. CASE x[1] # p
    <3>1. x \in V
      BY <2>0, <2>2
    <3> QED
      BY <2>2, <3>1
  <2> QED
    BY <2>1, <2>2
<1>3. ASSUME NEW v \in V PROVE \E x \in U : g[x] = v
  <2>0. v = <<v[1], v[2]>> /\ v[2] \in Nat \ {0}
    OBVIOUS
  <2>1. CASE v[1] = p
    <3>1. (v[2] + 1) - 1 = v[2] /\ v[2] + 1 # 1 /\ v = <<p, v[2]>>
      BY <2>0, <2>1
    <3>2. <<p, v[2] + 1>> \in W
      BY <2>0, <3>1
    <3>3. <<p, v[2] + 1>> \in U /\ <<p, v[2] + 1>>[1] = p /\ <<p, v[2] + 1>>[2] = v[2] + 1
      BY <3>1, <3>2
    <3>4. g[<<p, v[2] + 1>>] = v
      BY <3>1, <3>3
    <3> QED
      BY <3>3, <3>4
  <2>2. CASE v[1] # p
    <3>1. v \in W /\ v # <<p, 1>>
      BY <2>0, <2>2
    <3>2. v \in U
      BY <3>1
    <3> QED
      BY <2>2, <3>2
  <2> QED
    BY <2>1, <2>2
<1>4. ASSUME NEW x \in U, NEW y \in U, g[x] = g[y] PROVE x = y
  <2>1. x = <<x[1], x[2]>> /\ y = <<y[1], y[2]>> /\ x[2] \in Int /\ y[2] \in Int
    OBVIOUS
  <2>2. g[x] = (IF x[1] = p THEN <<p, x[2] - 1>> ELSE x) /\ g[y] = (IF y[1] = p THEN <<p, y[2] - 1>> ELSE y)
    OBVIOUS
  <2> HIDE DEF g, U
  <2>3. g[x][1] = x[1] /\ g[y][1] = y[1] /\ g[x][2] = (IF x[1] = p THEN x[2] - 1 ELSE x[2])
        /\ g[y][2] = (IF y[1] = p THEN y[2] - 1 ELSE y[2])
    BY <2>1, <2>2
  <2>4. x[1] = y[1] /\ x[2] = y[2]
    BY <1>4, <2>1, <2>3
  <2> QED
    BY <2>1, <2>4
<1>5. ExistsBijection(U, V)
  <2>1. g \in [U -> V]
    BY <1>2
  <2>2. \A x, y \in U : g[x] = g[y] => x = y
    BY <1>4
  <2>3. \A v \in V : \E x \in U : g[x] = v
    BY <1>3
  <2> HIDE DEF g, U
  <2>4. g \in Injection(U, V)
    BY <2>1, <2>2 DEF Injection, IsInjective
  <2>5. g \in Surjection(U, V)
    BY <2>1, <2>3 DEF Surjection
  <2> QED
    BY <2>4, <2>5 DEF ExistsBijection, Bijection
<1>6. IsFiniteSet(U)
  BY FS_RemoveElement
<1> QED
  BY <1>5, <1>6, FS_Bijection

\* All these sets are finite.
LEMMA BufferSets ==
  ASSUME job \in Jobs, NEW B \in SUBSET Paths, NEW W \in SUBSET (Paths \X (1 .. NumBuffers))
  PROVE  IsFiniteSet(B) /\ Cardinality(B) \in Nat /\ IsFiniteSet(W) /\ Cardinality(W) \in Nat
<1>1. IsFiniteSet(Paths) /\ IsFiniteSet(1 .. NumBuffers)
  BY JobFacts, FS_Interval DEF Paths
<1>2. IsFiniteSet(Paths \X (1 .. NumBuffers))
  BY <1>1, FS_Product
<1> QED
  BY <1>1, <1>2, FS_Subset, FS_CardinalityType

\* What the balance is about, as a step finds it.
LEMMA BufferFacts ==
  ASSUME IInv
  PROVE  /\ job \in Jobs /\ NumBuffers \in Nat /\ pool \in Nat /\ InHand \in 0 .. 1
         /\ Busy \in SUBSET Paths /\ Waiting \in SUBSET (Paths \X (1 .. NumBuffers))
         /\ IsFiniteSet(Busy) /\ Cardinality(Busy) \in Nat
         /\ IsFiniteSet(Waiting) /\ Cardinality(Waiting) \in Nat
         /\ \A p \in Paths : /\ queue[p] \in Seq(Tasks) /\ Len(queue[p]) \in 0 .. NumBuffers
                             /\ DOMAIN queue[p] = 1 .. Len(queue[p])
         /\ DOMAIN queue = Paths /\ DOMAIN wtask = Paths /\ DOMAIN wpc = Paths
<1>1. job \in Jobs /\ NumBuffers \in Nat /\ pool \in Nat /\ held \in BOOLEAN
  BY JobFacts DEF IInv, Types, ProcTypes, QueueTypes, SchedTypes
<1>2. InHand \in 0 .. 1
  BY <1>1 DEF InHand
<1>3. Busy \in SUBSET Paths /\ Waiting \in SUBSET (Paths \X (1 .. NumBuffers))
  BY DEF Busy, Waiting
<1>4. IsFiniteSet(Busy) /\ Cardinality(Busy) \in Nat /\ IsFiniteSet(Waiting) /\ Cardinality(Waiting) \in Nat
  BY <1>1, <1>3, BufferSets
<1>5. \A p \in Paths : /\ queue[p] \in Seq(Tasks) /\ Len(queue[p]) \in 0 .. NumBuffers
                       /\ DOMAIN queue[p] = 1 .. Len(queue[p])
  BY <1>1 DEF IInv, Types, QueueTypes
<1>6. DOMAIN queue = Paths /\ DOMAIN wtask = Paths /\ DOMAIN wpc = Paths
  BY DEF IInv, Types, QueueTypes, WriterTypes
<1> QED
  BY <1>1, <1>2, <1>3, <1>4, <1>5, <1>6

\* A buffer that changes hands.
LEMMA BufferMoves ==
  ASSUME Balance, pc # "down", pc' # "down", UNCHANGED job, Buffers' = Buffers,
         \A p \in Paths : wpc[p] = "failed" => wpc'[p] = "failed"
  PROVE  Balance'
BY JobSame DEF Balance

\* A buffer that a failed writer has taken along.
LEMMA BufferLost ==
  ASSUME IInv, Balance, pc # "down", pc' # "down", UNCHANGED job, Buffers' <= Buffers, Buffers' \in Int,
         \E p \in Paths : wpc'[p] = "failed"
  PROVE  Balance'
<1>1. Buffers \in Int /\ NumBuffers \in Int
  BY BufferFacts DEF Buffers
<1> QED
  BY <1>1, JobSame DEF Balance

\* A step that leaves the channels and the writers' tasks alone.
LEMMA SetsSame ==
  ASSUME UNCHANGED <<job, queue, wtask>>
  PROVE  Busy' = Busy /\ Waiting' = Waiting
BY JobSame DEF Busy, Waiting

\* A task is put at the end of a channel.
LEMMA WaitingSends ==
  ASSUME IInv, UNCHANGED job, NEW p \in Paths, Len(queue[p]) < NumBuffers, NEW t,
         queue' = [queue EXCEPT ![p] = Append(@, t)]
  PROVE  /\ IsProcess(t) => Cardinality(Waiting') = Cardinality(Waiting) + 1
         /\ ~IsProcess(t) => Waiting' = Waiting
<1> DEFINE x == <<p, Len(queue[p]) + 1>>
<1>0. /\ UNCHANGED <<Paths, NumBuffers>> /\ Len(queue[p]) \in Nat /\ NumBuffers \in Nat
      /\ \A q \in Paths : DOMAIN queue[q] = 1 .. Len(queue[q])
      /\ queue[p] \in Seq(Tasks) /\ DOMAIN queue = Paths
  BY JobSame, BufferFacts
<1>1. /\ queue'[p] = Append(queue[p], t) /\ \A q \in Paths \ {p} : queue'[q] = queue[q]
  BY <1>0
<1>2. /\ DOMAIN queue'[p] = 1 .. (Len(queue[p]) + 1) /\ queue'[p][Len(queue[p]) + 1] = t
      /\ \A i \in 1 .. Len(queue[p]) : queue'[p][i] = queue[p][i]
  BY <1>0, <1>1
<1>3. ASSUME NEW y \in Paths \X (1 .. NumBuffers), y # x
      PROVE  y \in Waiting' <=> y \in Waiting
  <2>1. y = <<y[1], y[2]>> /\ y[1] \in Paths /\ y[2] \in 1 .. NumBuffers
    OBVIOUS
  <2>2. CASE y[1] = p
    <3>1. y[2] # Len(queue[p]) + 1
      BY <1>3, <2>1, <2>2
    <3>2. y[2] \in DOMAIN queue'[p] <=> y[2] \in DOMAIN queue[p]
      BY <1>0, <1>2, <2>1, <3>1
    <3> QED
      BY <1>0, <1>2, <2>2, <3>2 DEF Waiting, IsProcess
  <2>3. CASE y[1] # p
    BY <1>0, <1>1, <2>1, <2>3 DEF Waiting, IsProcess
  <2> QED
    BY <2>2, <2>3
<1>4. x \in Paths \X (1 .. NumBuffers) /\ x \notin Waiting
  BY <1>0 DEF Waiting
<1>5. x \in Waiting' <=> IsProcess(t)
  <2>1. x \in Waiting' <=> x[2] \in DOMAIN queue'[p] /\ IsProcess(queue'[p][x[2]])
    BY <1>0, <1>4 DEF Waiting, IsProcess
  <2> QED
    BY <1>0, <1>2, <2>1
<1>6. Waiting' \subseteq Paths \X (1 .. NumBuffers) /\ Waiting \subseteq Paths \X (1 .. NumBuffers)
  BY <1>0 DEF Waiting
<1> HIDE DEF x
<1>7. CASE IsProcess(t)
  <2>1. Waiting' = Waiting \cup {x}
    BY <1>3, <1>4, <1>5, <1>6, <1>7
  <2>2. IsFiniteSet(Waiting)
    BY BufferFacts
  <2> QED
    BY <1>4, <1>7, <2>1, <2>2, FS_AddElement
<1>8. CASE ~IsProcess(t)
  <2>1. x \notin Waiting' /\ x \notin Waiting
    BY <1>4, <1>5, <1>8
  <2>2. \A y \in Paths \X (1 .. NumBuffers) : y \in Waiting' <=> y \in Waiting
    BY <1>3, <2>1
  <2>3. Waiting' = Waiting
    BY <1>6, <2>2
  <2> QED
    BY <1>8, <2>3
<1> QED
  BY <1>7, <1>8

\* A task is taken from the head of a channel.
LEMMA WaitingReceives ==
  ASSUME IInv, UNCHANGED job, NEW p \in Paths, queue[p] # <<>>, queue' = [queue EXCEPT ![p] = Tail(@)]
  PROVE  /\ IsProcess(Head(queue[p])) => Cardinality(Waiting') = Cardinality(Waiting) - 1
         /\ ~IsProcess(Head(queue[p])) => Cardinality(Waiting') = Cardinality(Waiting)
<1>0. /\ UNCHANGED <<Paths, NumBuffers>> /\ Len(queue[p]) \in 1 .. NumBuffers /\ NumBuffers \in Nat
      /\ \A q \in Paths : DOMAIN queue[q] = 1 .. Len(queue[q])
      /\ queue[p] \in Seq(Tasks) /\ DOMAIN queue = Paths
      /\ Waiting \in SUBSET (Paths \X (1 .. NumBuffers)) /\ IsFiniteSet(Waiting) /\ Cardinality(Waiting) \in Nat
  BY JobSame, BufferFacts
<1>1. /\ queue'[p] = Tail(queue[p]) /\ \A q \in Paths \ {p} : queue'[q] = queue[q]
  BY <1>0
<1>2. /\ DOMAIN queue'[p] = 1 .. (Len(queue[p]) - 1)
      /\ \A i \in 1 .. Len(queue[p]) - 1 : queue'[p][i] = queue[p][i + 1]
      /\ Head(queue[p]) = queue[p][1]
  BY <1>0, <1>1
<1>3. ASSUME NEW y \in Paths \X (1 .. NumBuffers)
      PROVE  y \in Waiting' <=> IF y[1] = p THEN <<p, y[2] + 1>> \in Waiting ELSE y \in Waiting
  <2>1. y = <<y[1], y[2]>> /\ y[1] \in Paths /\ y[2] \in 1 .. NumBuffers
    OBVIOUS
  <2>2. CASE y[1] = p
    <3>1. y \in Waiting' <=> y[2] \in DOMAIN queue'[p] /\ IsProcess(queue'[p][y[2]])
      BY <1>0, <2>2 DEF Waiting, IsProcess
    <3>2. <<p, y[2] + 1>> \in Waiting <=> y[2] + 1 \in DOMAIN queue[p] /\ IsProcess(queue[p][y[2] + 1])
      BY <1>0, <2>1, <2>2 DEF Waiting, IsProcess
    <3>3. y[2] \in DOMAIN queue'[p] <=> y[2] + 1 \in DOMAIN queue[p]
      BY <1>0, <1>2, <2>1
    <3> QED
      BY <1>0, <1>2, <2>1, <2>2, <3>1, <3>2, <3>3
  <2>3. CASE y[1] # p
    BY <1>0, <1>1, <2>1, <2>3 DEF Waiting, IsProcess
  <2> QED
    BY <2>2, <2>3
<1>4. Waiting' \subseteq Paths \X (1 .. NumBuffers)
  BY <1>0 DEF Waiting
<1>5. Cardinality(Waiting') = Cardinality(Waiting \ {<<p, 1>>})
  <2>1. PICK W : W = Waiting
    OBVIOUS
  <2>2. PICK V : V = Waiting'
    OBVIOUS
  <2>3. /\ \A x \in W : x = <<x[1], x[2]>> /\ x[2] \in Nat \ {0}
        /\ \A x \in V : x = <<x[1], x[2]>> /\ x[2] \in Nat \ {0}
    BY <1>0, <1>4, <2>1, <2>2
  <2>4. ASSUME NEW i \in Nat \ {0} PROVE <<p, i>> \in V <=> <<p, i + 1>> \in W
    <3>1. <<p, i>>[1] = p /\ <<p, i>>[2] = i
      OBVIOUS
    <3>2. CASE i \in 1 .. NumBuffers
      BY <1>3, <2>1, <2>2, <3>1, <3>2
    <3>3. CASE i \notin 1 .. NumBuffers
      <4>1. i + 1 \notin 1 .. NumBuffers
        BY <1>0, <3>3
      <4>2. <<p, i>> \notin Paths \X (1 .. NumBuffers) /\ <<p, i + 1>> \notin Paths \X (1 .. NumBuffers)
        BY <3>3, <4>1
      <4> QED
        BY <1>0, <1>4, <2>1, <2>2, <4>2
    <3> QED
      BY <3>2, <3>3
  <2>5. ASSUME NEW q, NEW i, q # p PROVE <<q, i>> \in V <=> <<q, i>> \in W
    <3>1. <<q, i>>[1] = q
      OBVIOUS
    <3>2. <<q, i>> \in Paths \X (1 .. NumBuffers) => (<<q, i>> \in V <=> <<q, i>> \in W)
      BY <1>3, <2>1, <2>2, <2>5, <3>1
    <3> QED
      BY <1>0, <1>4, <2>1, <2>2, <3>2
  <2>6. Cardinality(V) = Cardinality(W \ {<<p, 1>>})
    BY <1>0, <2>1, <2>3, <2>4, <2>5, ShiftedCard
  <2> QED
    BY <2>1, <2>2, <2>6
<1>6. <<p, 1>> \in Waiting <=> IsProcess(Head(queue[p]))
  BY <1>0, <1>2 DEF Waiting
<1> QED
  BY <1>0, <1>5, <1>6, FS_RemoveElement

\* The writer of p is done with its task: whether it held a buffer.
LEMMA BusyChanges ==
  ASSUME IInv, UNCHANGED job, NEW p \in Paths, NEW t, wtask' = [wtask EXCEPT ![p] = t]
  PROVE  /\ IsProcess(wtask[p]) /\ ~IsProcess(t) => Cardinality(Busy') = Cardinality(Busy) - 1
         /\ ~IsProcess(wtask[p]) /\ IsProcess(t) => Cardinality(Busy') = Cardinality(Busy) + 1
         /\ (IsProcess(wtask[p]) <=> IsProcess(t)) => Busy' = Busy
<1>0. /\ UNCHANGED Paths /\ IsFiniteSet(Busy) /\ Cardinality(Busy) \in Nat
      /\ wtask'[p] = t /\ \A q \in Paths \ {p} : wtask'[q] = wtask[q]
  BY JobSame, BufferFacts
<1>1. /\ \A q \in Paths : q # p => (q \in Busy' <=> q \in Busy)
      /\ p \in Busy' <=> IsProcess(t)
      /\ p \in Busy <=> IsProcess(wtask[p])
      /\ Busy \subseteq Paths /\ Busy' \subseteq Paths
  BY <1>0 DEF Busy, IsProcess
<1>2. CASE IsProcess(wtask[p]) /\ ~IsProcess(t)
  <2>1. Busy' = Busy \ {p} /\ p \in Busy
    BY <1>1, <1>2
  <2> QED
    BY <1>0, <1>2, <2>1, FS_RemoveElement
<1>3. CASE ~IsProcess(wtask[p]) /\ IsProcess(t)
  <2>1. Busy' = Busy \cup {p} /\ p \notin Busy
    BY <1>1, <1>3
  <2> QED
    BY <1>0, <1>3, <2>1, FS_AddElement
<1>4. CASE IsProcess(wtask[p]) <=> IsProcess(t)
  <2>1. \A q \in Paths : q \in Busy' <=> q \in Busy
    BY <1>1, <1>4
  <2>2. Busy' = Busy
    BY <1>1, <2>1
  <2> QED
    BY <1>4, <2>2
<1> QED
  BY <1>2, <1>3, <1>4

\* A writer fails, and takes what it holds and what its channel holds along.
LEMMA FailBalance ==
  ASSUME IInv, Balance, NEW p \in Paths, Fail(p), UNCHANGED <<pc, job, pool, held>>, pc # "down"
  PROVE  Balance'
<1>0. /\ UNCHANGED <<Paths, NumBuffers>> /\ pool \in Nat /\ InHand \in 0 .. 1 /\ UNCHANGED InHand
      /\ IsFiniteSet(Busy) /\ IsFiniteSet(Waiting)
      /\ DOMAIN queue = Paths /\ DOMAIN wtask = Paths /\ DOMAIN wpc = Paths
  BY JobSame, BufferFacts DEF InHand
<1>1. /\ wtask'[p] = NoTask /\ queue'[p] = <<>> /\ wpc'[p] = "failed"
      /\ \A q \in Paths \ {p} : wtask'[q] = wtask[q] /\ queue'[q] = queue[q]
  BY <1>0 DEF Fail
<1>2. Busy' \subseteq Busy
  BY <1>0, <1>1 DEF Busy, IsProcess, NoTask
<1>3. Waiting' \subseteq Waiting
  <2>1. ASSUME NEW y \in Waiting' PROVE y \in Waiting
    <3>1. /\ y \in Paths \X (1 .. NumBuffers) /\ y[1] \in Paths
          /\ y[2] \in DOMAIN queue'[y[1]] /\ IsProcess(queue'[y[1]][y[2]])
      BY <1>0, <2>1 DEF Waiting, IsProcess
    <3>2. y[1] # p
      BY <1>1, <3>1
    <3> QED
      BY <1>1, <3>1, <3>2 DEF Waiting
  <2> QED
    BY <2>1
<1>4. /\ Cardinality(Busy') <= Cardinality(Busy) /\ Cardinality(Busy') \in Nat
      /\ Cardinality(Waiting') <= Cardinality(Waiting) /\ Cardinality(Waiting') \in Nat
  BY <1>0, <1>2, <1>3, FS_Subset, FS_CardinalityType
<1>5. Cardinality(Busy) \in Nat /\ Cardinality(Waiting) \in Nat
  BY BufferFacts
<1>6. Buffers' <= Buffers /\ Buffers' \in Int
  BY <1>0, <1>4, <1>5 DEF Buffers
<1> QED
  BY <1>1, <1>6, BufferLost

\* flush_buffer sends the buffer on, or drops it when the writer has failed.
LEMMA FlushBalance ==
  ASSUME IInv, Balance, NEW s, FlushBuffer(s), UNCHANGED <<pool, writerVars, job>>,
         pc \in {"flush", "drain"}, pc' # "down"
  PROVE  Balance'
<1>0. /\ bufPath \in Paths /\ held \in BOOLEAN /\ Ending /\ pool \in Nat /\ NumBuffers \in Nat
      /\ Cardinality(Busy) \in Nat /\ Cardinality(Waiting) \in Nat /\ UNCHANGED <<Paths, wpc, wtask>>
      /\ UNCHANGED Busy
  BY BufferFacts, JobSame DEF IInv, Types, SchedTypes, writerVars, Busy
<1>1. CASE held /\ Alive(bufPath)
  <2>1. PICK t : /\ Len(queue[bufPath]) < NumBuffers /\ queue' = [queue EXCEPT ![bufPath] = Append(@, t)]
                 /\ IsProcess(t) /\ held' = FALSE
    BY <1>1 DEF FlushBuffer, ProcessTask, IsProcess
  <2>2. Cardinality(Waiting') = Cardinality(Waiting) + 1
    BY <1>0, <2>1, WaitingSends
  <2>3. Buffers' = Buffers
    BY <1>0, <1>1, <2>1, <2>2 DEF Buffers, InHand
  <2> QED
    BY <1>0, <2>3, BufferMoves
<1>2. CASE held /\ ~Alive(bufPath)
  <2>1. wpc[bufPath] = "failed" /\ held' = FALSE /\ UNCHANGED queue
    BY <1>0, <1>2, DeadIsFailed DEF FlushBuffer
  <2>2. UNCHANGED Waiting
    BY <1>0, <2>1, SetsSame
  <2>3. Buffers' <= Buffers /\ Buffers' \in Int
    BY <1>0, <1>2, <2>1, <2>2 DEF Buffers, InHand
  <2>4. \E p \in Paths : wpc'[p] = "failed"
    BY <1>0, <2>1
  <2> QED
    BY <2>3, <2>4, BufferLost
<1>3. CASE ~held
  <2>1. UNCHANGED <<queue, held>>
    BY <1>3 DEF FlushBuffer
  <2>2. Buffers' = Buffers
    BY <1>0, <2>1, SetsSame DEF Buffers, InHand
  <2> QED
    BY <1>0, <2>2, BufferMoves
<1> QED
  BY <1>0, <1>1, <1>2, <1>3

LEMMA SchedulerBalance ==
  ASSUME IInv, Balance, Scheduler
  PROVE  Balance'
<1>0. /\ pc # "down" /\ pc' # "down" /\ UNCHANGED <<writerVars, job, wpc, wtask>>
      /\ held \in BOOLEAN /\ pool \in Nat /\ Cardinality(Busy) \in Nat /\ Cardinality(Waiting) \in Nat
  BY BufferFacts DEF Scheduler, Hash, Compress, Flush, Drain, End, procVars, writerVars, IInv, Types, SchedTypes
<1>1. CASE Hash
  <2>1. UNCHANGED <<pool, held, queue>>
    BY <1>1 DEF Hash, sharedVars
  <2>2. Buffers' = Buffers
    BY <1>0, <2>1, SetsSame DEF Buffers, InHand
  <2> QED
    BY <1>0, <2>2, BufferMoves
<1>2. CASE Compress
  <2>1. UNCHANGED queue /\ held' = TRUE /\ pool' = (IF held THEN pool ELSE pool - 1)
    BY <1>2 DEF Compress
  <2>2. Buffers' = Buffers
    BY <1>0, <2>1, SetsSame DEF Buffers, InHand
  <2> QED
    BY <1>0, <2>2, BufferMoves
<1>3. CASE Flush
  <2>1. PICK s : s = seeds[path] /\ FlushBuffer(s)
    BY <1>3 DEF Flush
  <2>2. pc \in {"flush", "drain"} /\ UNCHANGED pool
    BY <1>3 DEF Flush
  <2> QED
    BY <1>0, <2>1, <2>2, FlushBalance
<1>4. CASE Drain
  <2>1. pc \in {"flush", "drain"} /\ UNCHANGED pool
    BY <1>4 DEF Drain
  <2>2. CASE inBuffer > 0
    <3>1. PICK s : s = seeds[bufPath] /\ FlushBuffer(s)
      BY <1>4, <2>2 DEF Drain
    <3> QED
      BY <1>0, <2>1, <3>1, FlushBalance
  <2>3. CASE ~(inBuffer > 0)
    <3>1. UNCHANGED <<queue, held>>
      BY <1>4, <2>3 DEF Drain
    <3>2. Buffers' = Buffers
      BY <1>0, <2>1, <3>1, SetsSame DEF Buffers, InHand
    <3> QED
      BY <1>0, <3>2, BufferMoves
  <2> QED
    BY <2>2, <2>3
<1>5. CASE End
  <2>1. UNCHANGED <<pool, held>> /\ endTo \in Paths
    BY <1>5 DEF End, IInv, Types, SchedTypes
  <2>2. UNCHANGED Busy
    BY <1>0, JobSame DEF Busy
  <2>3. UNCHANGED Waiting
    <3>1. CASE Alive(endTo)
      <4>1. Len(queue[endTo]) < NumBuffers /\ queue' = [queue EXCEPT ![endTo] = Append(@, EndTask)]
        BY <1>5, <3>1 DEF End
      <4>2. ~IsProcess(EndTask)
        BY DEF IsProcess, EndTask
      <4> QED
        BY <1>0, <2>1, <4>1, <4>2, WaitingSends
    <3>2. CASE ~Alive(endTo)
      <4>1. UNCHANGED queue
        BY <1>5, <3>2 DEF End
      <4> QED
        BY <1>0, <4>1, SetsSame
    <3> QED
      BY <3>1, <3>2
  <2>4. Buffers' = Buffers
    BY <2>1, <2>2, <2>3 DEF Buffers, InHand
  <2> QED
    BY <1>0, <2>4, BufferMoves
<1> QED
  BY <1>1, <1>2, <1>3, <1>4, <1>5 DEF Scheduler

\* A writer gives its buffer back when its task is done, and keeps it till then.
LEMMA WriterBalance ==
  ASSUME IInv, Balance, NEW p \in Paths, Writer(p) \/ Fault(p)
  PROVE  Balance'
<1>0. /\ pc # "down" /\ pc' = pc /\ UNCHANGED <<job, held>>
      /\ wpc \in [Paths -> {"recv", "open", "alloc", "mark0", "write", "last", "marker", "rename", "finalize",
                            "ended", "failed"}]
      /\ wtask \in [Paths -> Tasks] /\ WriterRight(p)
      /\ pool \in Nat /\ InHand \in 0 .. 1 /\ UNCHANGED InHand
      /\ Cardinality(Busy) \in Nat /\ Cardinality(Waiting) \in Nat
  <2>1. pc' = pc /\ UNCHANGED <<job, held>> /\ wpc[p] # "ended"
    BY DEF Writer, Receive, Open, Allocate, WriteMarker0, WriteScoops, WriteLastScoop, WriteMarker, Rename,
           FinalizeFile, Fault, procVars, schedVars
  <2>2. pc # "down" /\ WriterRight(p)
    BY <2>1 DEF IInv, DiskRight, NoProcess, Writers
  <2> QED
    BY <2>1, <2>2, BufferFacts DEF IInv, Types, WriterTypes, InHand
<1>1. ASSUME wpc'[p] # "failed", wpc[p] # "failed", \A q \in Paths \ {p} : wpc'[q] = wpc[q], Buffers' = Buffers
      PROVE  Balance'
  <2>1. \A q \in Paths : wpc[q] = "failed" => wpc'[q] = "failed"
    BY <1>1
  <2> QED
    BY <1>0, <1>1, <2>1, BufferMoves
\* A step within a task.
<1>2. ASSUME UNCHANGED <<queue, wtask, pool>>, wpc[p] # "failed", \A q \in Paths \ {p} : wpc'[q] = wpc[q],
             wpc'[p] # "failed"
      PROVE  Balance'
  <2>1. UNCHANGED <<Busy, Waiting>>
    BY <1>0, <1>2, SetsSame
  <2>2. Buffers' = Buffers
    BY <1>0, <1>2, <2>1 DEF Buffers
  <2> QED
    BY <1>1, <1>2, <2>2
\* The end of a write task.
<1>3. ASSUME wtask[p].type = "process", Recycle(p), UNCHANGED queue, wpc[p] # "failed"
      PROVE  Balance'
  <2>1. wtask' = [wtask EXCEPT ![p] = NoTask] /\ pool' = pool + 1 /\ wpc' = [wpc EXCEPT ![p] = "recv"]
    BY <1>3 DEF Recycle
  <2>2. ~IsProcess(NoTask) /\ IsProcess(wtask[p])
    BY <1>3 DEF IsProcess, NoTask
  <2>3. PICK t : t = NoTask
    OBVIOUS
  <2>4. Cardinality(Busy') = Cardinality(Busy) - 1
    BY <1>0, <2>1, <2>2, <2>3, BusyChanges
  <2>5. UNCHANGED Waiting
    BY <1>0, <1>3, JobSame DEF Waiting
  <2>6. Buffers' = Buffers
    BY <1>0, <2>1, <2>4, <2>5 DEF Buffers
  <2>7. wpc'[p] # "failed" /\ \A q \in Paths \ {p} : wpc'[q] = wpc[q]
    BY <1>0, <2>1
  <2> QED
    BY <1>1, <1>3, <2>6, <2>7
\* The end of a Finalize task.
<1>4. ASSUME wpc[p] = "finalize", wtask' = [wtask EXCEPT ![p] = NoTask], wpc' = [wpc EXCEPT ![p] = "recv"],
             UNCHANGED <<queue, pool>>
      PROVE  Balance'
  <2>1. ~IsProcess(NoTask) /\ ~IsProcess(wtask[p])
    BY <1>0, <1>4 DEF IsProcess, NoTask, WriterRight
  <2>2. PICK t : t = NoTask
    OBVIOUS
  <2>3. Busy' = Busy
    BY <1>0, <1>4, <2>1, <2>2, BusyChanges
  <2>4. UNCHANGED Waiting
    BY <1>0, <1>4, JobSame DEF Waiting
  <2>5. Buffers' = Buffers
    BY <1>0, <1>4, <2>3, <2>4 DEF Buffers
  <2>6. wpc'[p] # "failed" /\ wpc[p] # "failed" /\ \A q \in Paths \ {p} : wpc'[q] = wpc[q]
    BY <1>0, <1>4
  <2> QED
    BY <1>1, <2>5, <2>6
<1>5. ASSUME Fail(p), UNCHANGED pool PROVE Balance'
  BY <1>0, <1>5, FailBalance
<1>6. CASE Receive(p)
  <2>0. /\ wpc[p] = "recv" /\ queue[p] # <<>> /\ queue' = [queue EXCEPT ![p] = Tail(@)] /\ UNCHANGED pool
        /\ wtask[p] = NoTask /\ ~IsProcess(NoTask)
    BY <1>0, <1>6 DEF Receive, WriterRight, IsProcess, NoTask
  <2>1. PICK t : t = Head(queue[p])
    OBVIOUS
  <2>2. PICK u : u = (IF t.type = "end" THEN NoTask ELSE t)
    OBVIOUS
  <2>3. wtask' = [wtask EXCEPT ![p] = u] /\ (IsProcess(u) <=> IsProcess(t))
    BY <1>6, <2>1, <2>2 DEF Receive, IsProcess, NoTask
  <2>4. wpc'[p] # "failed" /\ \A q \in Paths \ {p} : wpc'[q] = wpc[q]
    BY <1>0, <1>6 DEF Receive
  <2>5. CASE IsProcess(t)
    <3>1. Cardinality(Waiting') = Cardinality(Waiting) - 1
      BY <1>0, <2>0, <2>1, <2>5, WaitingReceives
    <3>2. Cardinality(Busy') = Cardinality(Busy) + 1
      BY <1>0, <2>0, <2>3, <2>5, BusyChanges
    <3>3. Buffers' = Buffers
      BY <1>0, <2>0, <3>1, <3>2 DEF Buffers
    <3> QED
      BY <1>1, <2>0, <2>4, <3>3
  <2>6. CASE ~IsProcess(t)
    <3>1. Cardinality(Waiting') = Cardinality(Waiting)
      BY <1>0, <2>0, <2>1, <2>6, WaitingReceives
    <3>2. Busy' = Busy
      BY <1>0, <2>0, <2>3, <2>6, BusyChanges
    <3>3. Buffers' = Buffers
      BY <1>0, <2>0, <3>1, <3>2 DEF Buffers
    <3> QED
      BY <1>1, <2>0, <2>4, <3>3
  <2> QED
    BY <2>5, <2>6
<1>7. CASE Open(p)
  <2>1. CASE Fail(p)
    BY <1>5, <1>7, <2>1 DEF Open
  <2>2. CASE ~Fail(p)
    BY <1>0, <1>2, <1>7, <2>2 DEF Open
  <2> QED
    BY <2>1, <2>2
<1>8. CASE Allocate(p) \/ WriteMarker0(p) \/ WriteLastScoop(p)
  BY <1>0, <1>2, <1>8 DEF Allocate, WriteMarker0, WriteLastScoop, sharedVars
<1>9. CASE WriteScoops(p)
  <2>1. CASE WriteAllowed(p)
    BY <1>0, <1>2, <1>9, <2>1 DEF WriteScoops
  <2>2. CASE ~WriteAllowed(p)
    BY <1>5, <1>9, <2>2 DEF WriteScoops
  <2> QED
    BY <2>1, <2>2
<1>10. CASE WriteMarker(p)
  <2>1. wpc[p] = "marker" /\ wtask[p].type = "process" /\ UNCHANGED queue
    BY <1>0, <1>10 DEF WriteMarker, WriterRight
  <2>2. CASE Recycle(p)
    BY <1>3, <2>1, <2>2
  <2>3. CASE ~Recycle(p)
    <3>1. wpc' = [wpc EXCEPT ![p] = "rename"] /\ UNCHANGED <<wtask, pool>>
      BY <1>10, <2>3 DEF WriteMarker
    <3> QED
      BY <1>0, <1>2, <2>1, <3>1
  <2> QED
    BY <2>2, <2>3
<1>11. CASE Rename(p)
  <2>1. wpc[p] = "rename" /\ wtask[p].type = "process" /\ UNCHANGED queue /\ Recycle(p)
    BY <1>0, <1>11 DEF Rename, WriterRight
  <2> QED
    BY <1>3, <2>1
<1>12. CASE FinalizeFile(p)
  BY <1>4, <1>12 DEF FinalizeFile, sharedVars
<1>13. CASE Fault(p)
  BY <1>4, <1>5, <1>13 DEF Fault
<1> QED
  BY <1>6, <1>7, <1>8, <1>9, <1>10, <1>11, <1>12, <1>13 DEF Writer

\* A run starts with all its buffers in the pool.
LEMMA StartBalance ==
  ASSUME IInv, NEW given \in [Paths -> SeedIds \cup {<<0, 0>>}], Start(given)
  PROVE  Balance'
<1>0. /\ UNCHANGED <<Paths, NumBuffers>> /\ NumBuffers \in Nat /\ pool' = NumBuffers /\ held' = FALSE
      /\ wtask' = [p \in Paths |-> NoTask] /\ pc' = "hash"
  <2>1. UNCHANGED job
    BY Zenon DEF Start, diskVars
  <2>2. UNCHANGED <<Paths, NumBuffers>> /\ NumBuffers \in Nat
    BY <2>1, BufferFacts, JobSame
  <2> QED
    BY <2>2, Zenon DEF Start
<1>1. ASSUME NEW p \in Paths PROVE queue'[p] = <<>> \/ \E s : queue'[p] = <<Finalize(s)>>
  <2>1. PICK F, first : queue' = [q \in Paths |-> IF q \in F THEN <<Finalize(first[q])>> ELSE <<>>]
    BY Zenon DEF Start
  <2> QED
    BY <2>1
<1>2. Busy' = {}
  BY <1>0 DEF Busy, IsProcess, NoTask
<1>3. Waiting' = {}
  <2>1. ASSUME NEW p \in Paths, NEW i \in DOMAIN queue'[p] PROVE ~IsProcess(queue'[p][i])
    <3>1. CASE queue'[p] = <<>>
      BY <3>1
    <3>2. ASSUME NEW s, queue'[p] = <<Finalize(s)>> PROVE ~IsProcess(queue'[p][i])
      <4>1. i = 1
        BY <3>2
      <4>2. queue'[p][i] = Finalize(s)
        BY <3>2, <4>1
      <4> QED
        BY <4>2 DEF IsProcess, Finalize
    <3> QED
      BY <1>1, <3>1, <3>2
  <2> QED
    BY <1>0, <2>1 DEF Waiting, IsProcess
<1>4. Buffers' = NumBuffers'
  BY <1>0, <1>2, <1>3, FS_EmptySet DEF Buffers, InHand
<1> QED
  BY <1>0, <1>4 DEF Balance

LEMMA NextBalance == IInv /\ Balance /\ [Next]_vars => Balance'
<1> SUFFICES ASSUME IInv, Balance, [Next]_vars PROVE Balance'
  OBVIOUS
<1>1. CASE StartRun
  BY <1>1, StartBalance DEF StartRun
<1>2. CASE Crash \/ Return
  <2>1. pc' = "down" /\ pool' = 0
    BY <1>2 DEF Crash, Return, Exit
  <2> QED
    BY <2>1 DEF Balance
<1>3. CASE RequestStop \/ UNCHANGED vars
  <2>1. UNCHANGED <<pc, pool, held, job, queue, wtask, wpc>>
    BY <1>3 DEF RequestStop, vars, schedVars, sharedVars, procVars, writerVars
  <2>2. UNCHANGED <<Paths, NumBuffers, Busy, Waiting, InHand>>
    BY <2>1, SetsSame, JobSame DEF InHand
  <2> QED
    BY <2>1, <2>2 DEF Balance, Buffers
<1>4. CASE Scheduler
  BY <1>4, SchedulerBalance
<1>5. CASE \E p \in Paths : Writer(p) \/ Fault(p)
  BY <1>5, WriterBalance
<1> QED
  BY <1>1, <1>2, <1>3, <1>4, <1>5 DEF Next, Quiet

LEMMA AlwaysBalance == Spec => []Balance
<1>1. Init => Balance
  BY DEF Init, Balance
<1> QED
  BY <1>1, NextBalance, PipelineInvariant, PTL DEF Spec

\* Every write buffer of the run is in the pool, with the scheduler, in a channel
\* or with a writer, once, until a writer fails and drops some
\* (create_buffer_pool, flush_buffer, create_writer_thread).
THEOREM BuffersAreConserved == Spec => []BuffersConserved
<1>1. IInv /\ Balance => BuffersConserved
  BY DEF Balance, Buffers, InHand, Busy, Waiting, BuffersConserved
<1> QED
  BY <1>1, PipelineInvariant, AlwaysBalance, PTL

\* Every variable keeps its type, and the pool never holds more buffers than
\* were made.
THEOREM PipelineTypes == Spec => []TypeOK
<1>1. IInv /\ Balance => TypeOK
  <2> SUFFICES ASSUME IInv, Balance PROVE TypeOK
    OBVIOUS
  <2>1. pool \in 0 .. NumBuffers
    <3>1. pool \in Nat /\ NumBuffers \in Nat /\ (pool <= Buffers \/ pool = 0)
      BY BufferFacts DEF Buffers
    <3> QED
      BY <3>1, BufferFacts DEF Balance, Buffers
  <2>2. ASSUME NEW p, NEW t \in Tasks PROVE TaskOK(p, t)
    BY DEF Tasks, Datas, TaskOK
  <2>3. ASSUME NEW p, NEW t \in Tmps(p) PROVE TmpOK(p, t)
    BY DEF Tmps, Datas, TmpOK
  <2>4. /\ DOMAIN queue = Paths
        /\ \A p \in Paths : /\ Len(queue[p]) <= NumBuffers
                            /\ \A i \in DOMAIN queue[p] : TaskOK(p, queue[p][i])
    <3>1. \A p \in Paths : \A i \in DOMAIN queue[p] : queue[p][i] \in Tasks
      BY BufferFacts
    <3> QED
      BY <2>2, <3>1 DEF IInv, Types, QueueTypes
  <2>5. /\ wpc \in [Paths -> {"recv", "open", "alloc", "mark0", "write", "last", "marker", "rename", "finalize",
                              "ended", "failed"}]
        /\ DOMAIN wtask = Paths /\ \A p \in Paths : TaskOK(p, wtask[p])
    BY <2>2 DEF IInv, Types, WriterTypes
  <2>6. /\ DOMAIN tmp = Files /\ DOMAIN pocx = Files
        /\ \A f \in Files : TmpOK(f[1], tmp[f]) /\ (pocx[f] = NoPocx \/ TmpOK(f[1], pocx[f]))
    BY <2>3 DEF IInv, Types, DiskTypes
  <2>7. /\ run \in 0 .. MaxRuns /\ firstSeed \in [Paths -> SeedIds \cup {<<0, 0>>}]
        /\ result \in {"none", "ok", "err", "killed"} /\ faults \in 0 .. job.faults
    BY DEF IInv, Types, ProcTypes, GivenSeeds
  <2>8. SchedTypes
    BY DEF IInv, Types
  <2> QED
    BY <2>1, <2>4, <2>5, <2>6, <2>7, <2>8 DEF TypeOK, SchedTypes, GivenSeeds, Datas
<1> QED
  BY <1>1, PipelineInvariant, AlwaysBalance, PTL
=============================================================================
