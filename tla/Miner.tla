------------------------------- MODULE Miner -------------------------------
(* The miner of pocx_miner: how blocks of several chains are queued by       *)
(* priority and scanned one at a time by one reader thread per disk, how a   *)
(* scan is interrupted for a newer block of its chain, paused for a block of *)
(* a chain of higher priority and resumed later, and how the miner stops.    *)
(*                                                                           *)
(* The unit of reading is one full buffer (hdd_read_cache_in_warps), so a    *)
(* plot is the number of reads it takes.  The n-th block the miner learns of *)
(* on a chain is the number n, chain_state.block.  The reply a reader sends  *)
(* to the round thread is handed to the hashers in the same step: the round  *)
(* thread leaves its loop only after the last message of every disk.         *)
EXTENDS Integers, Sequences, FiniteSets, SequencesExt

CONSTANTS
    NumChains,      \* chains in the configuration; chain 0 has the highest priority
    ReadBuffers,    \* hdd_read_buffer_count: read buffers per disk
    MaxDisks,       \* bound: disks with plots, numbered from 1
    Setups          \* the disks and what happens to the miner: see SetupOK

Chains == 0 .. NumChains - 1
NoResume == << >>
NoRound == [chain |-> 0, block |-> 0, resume |-> NoResume]

SetupOK(s) ==
    /\ s.disks \in 1 .. MaxDisks
    /\ s.reads \in [1 .. s.disks -> Seq(Nat \ {0})]   \* for each plot of a disk, the reads it takes
    /\ s.mineable \in [Chains -> SUBSET ((1 .. s.disks) \X Nat)]  \* the <<disk, plot>>
                                      \* that a chain's compression range admits
    /\ s.blocks \in Nat \ {0}     \* bound: blocks the miner learns of on each chain
    /\ s.errors \in BOOLEAN       \* whether a read may meet an I/O error
    /\ s.stops \in BOOLEAN        \* whether the miner may be asked to stop

ASSUME ConstantsAssumption ==
    /\ NumChains \in Nat \ {0} /\ ReadBuffers \in Nat /\ MaxDisks \in Nat
    /\ \A s \in Setups : SetupOK(s)

VARIABLES
    tip,        \* chain_states[c].block: blocks seen on each chain
    inbox,      \* the scheduler's channel
    pq,         \* the priority queue: chains with a block to scan
    info,       \* mining_infos[c]: the block last scheduled of each chain
    resume,     \* resume_states[c]: where to take up a paused block, or NoResume
    scanning, interrupt, pause, current,    \* MinerState; current is its chain_id
    round,      \* the arguments of the mining round
    roundPc,    \* "none", "start" or "collect": where the round's thread is
    progress,   \* read_progress of every plot, in reads
    reader,     \* reader[d]: "none", "take", "read", "finished" or "interrupted"
    pool,       \* empty read buffers
    hashing,    \* reads whose buffer a hasher has
    setup,      \* the disks, and the bounds on what happens
    cancelled,  \* the shutdown token
    late,       \* the scheduler had taken a message when the token was cancelled
    drained,    \* graceful_shutdown has drained the buffers
    read, scanned, reported, paused     \* history: reads done, reads given to the
                                        \* hashers, blocks reported finished, paused
chainVars == <<tip, inbox>>
queueVars == <<pq, info, resume>>
stateVars == <<scanning, interrupt, pause, current>>
roundVars == <<round, roundPc, progress, reader>>
bufferVars == <<pool, hashing>>
stopVars == <<setup, cancelled, late, drained>>
history == <<read, scanned, reported, paused>>
vars == <<chainVars, queueVars, stateVars, roundVars, bufferVars, stopVars, history>>

Disks == 1 .. setup.disks
Reads == setup.reads
Mineable == setup.mineable
Plots(d) == 1 .. Len(Reads[d])
NumBuffers == Cardinality(Disks) * ReadBuffers

Nothing == [d \in Disks |-> [i \in Plots(d) |-> 0]]

New(c, b, initial) == [kind |-> "new", chain |-> c, block |-> b, initial |-> initial]
Again(c, b, p) == [kind |-> "again", chain |-> c, block |-> b, resume |-> p]
Process == [kind |-> "process"]

\* unbounded_send: once the channel is closed every message is dropped.
Send(box, msgs) == IF cancelled THEN box ELSE box \o msgs

\* The miner starts when every chain has answered its first request or failed;
\* the answers are queued in any order and a ProcessBlock follows them.
Init ==
    /\ setup \in Setups
    /\ \E known \in SUBSET Chains : \E order \in SetToSeqs(known) :
        /\ tip = [c \in Chains |-> IF c \in known THEN 1 ELSE 0]
        /\ inbox = [k \in 1 .. Len(order) |-> New(order[k], 1, TRUE)] \o <<Process>>
    /\ pq = {} /\ info = [c \in Chains |-> 0] /\ resume = [c \in Chains |-> NoResume]
    /\ scanning = FALSE /\ interrupt = FALSE /\ pause = FALSE /\ current = 0
    /\ round = NoRound /\ roundPc = "none"
    /\ progress = Nothing /\ reader = [d \in Disks |-> "none"]
    /\ pool = NumBuffers /\ hashing = {}
    /\ cancelled = FALSE /\ late = FALSE /\ drained = FALSE
    /\ read = {} /\ scanned = {} /\ reported = {} /\ paused = {}

-----------------------------------------------------------------------------
(* The tasks that poll the chains, and the scheduler.                        *)

\* A chain's server answers with a block hash that differs from the last one.
NewBlock(c) ==
    /\ ~cancelled
    /\ tip[c] < setup.blocks
    /\ tip' = [tip EXCEPT ![c] = @ + 1]
    /\ inbox' = Append(inbox, New(c, tip[c] + 1, FALSE))
    /\ UNCHANGED <<queueVars, stateVars, roundVars, bufferVars, stopVars, history>>

\* The scheduler takes its next message; after the cancellation it handles at
\* most the one it already had.
Take(kind) ==
    /\ inbox # << >> /\ Head(inbox).kind = kind
    /\ ~cancelled \/ late
    /\ late' = FALSE
    /\ UNCHANGED <<tip, setup, cancelled, drained, history>>

\* Mutant: no ProcessBlock follows.
ScheduleNewBlockSilent ==
    /\ Take("new")
    /\ LET m == Head(inbox) IN
        /\ pq' = pq \union {m.chain}
        /\ info' = [info EXCEPT ![m.chain] = m.block]
        /\ resume' = [resume EXCEPT ![m.chain] = NoResume]
        /\ inbox' = Tail(inbox)
    /\ UNCHANGED <<stateVars, roundVars, bufferVars>>

\* Mutant: the progress of a paused block is kept.
ScheduleNewBlockResumes ==
    /\ Take("new")
    /\ LET m == Head(inbox) IN
        /\ pq' = pq \union {m.chain}
        /\ info' = [info EXCEPT ![m.chain] = m.block]
        /\ UNCHANGED resume
        /\ inbox' = IF m.initial THEN Tail(inbox) ELSE Send(Tail(inbox), <<Process>>)
    /\ UNCHANGED <<stateVars, roundVars, bufferVars>>

\* A new block replaces the one its chain had queued, progress and all.
ScheduleNewBlock ==
    /\ Take("new")
    /\ LET m == Head(inbox) IN
        /\ pq' = pq \union {m.chain}
        /\ info' = [info EXCEPT ![m.chain] = m.block]
        /\ resume' = [resume EXCEPT ![m.chain] = NoResume]
        /\ inbox' = IF m.initial THEN Tail(inbox) ELSE Send(Tail(inbox), <<Process>>)
    /\ UNCHANGED <<stateVars, roundVars, bufferVars>>

\* A paused block goes back into the queue unless its chain has a newer one there.
RescheduleBlock ==
    /\ Take("again")
    /\ LET m == Head(inbox) IN
        IF m.chain \notin pq
        THEN /\ pq' = pq \union {m.chain}
             /\ info' = [info EXCEPT ![m.chain] = m.block]
             /\ resume' = [resume EXCEPT ![m.chain] = m.resume]
        ELSE UNCHANGED queueVars
    /\ inbox' = Send(Tail(inbox), <<Process>>)
    /\ UNCHANGED <<stateVars, roundVars, bufferVars>>

Top == CHOOSE c \in pq : \A e \in pq : c <= e
Prio(c) == NumChains - c

\* Nothing is being scanned: the queued block of highest priority is.
StartBlock ==
    /\ Take("process")
    /\ ~scanning /\ pq # {}
    /\ pq' = pq \ {Top}
    /\ scanning' = TRUE /\ interrupt' = FALSE /\ pause' = FALSE /\ current' = Top
    /\ round' = [chain |-> Top, block |-> info[Top], resume |-> resume[Top]]
    /\ roundPc' = "start"
    /\ resume' = [resume EXCEPT ![Top] = NoResume]
    /\ inbox' = Tail(inbox)
    /\ UNCHANGED <<info, progress, reader, bufferVars>>

\* Mutant: a newer block of the same chain does not interrupt.
PreemptHigherOnly ==
    /\ Take("process")
    /\ scanning \/ pq = {}
    /\ IF scanning /\ pq # {}
       THEN CASE Prio(Top) > Prio(current) /\ ~interrupt /\ ~pause
                 -> interrupt' = TRUE /\ pause' = TRUE
              [] OTHER -> UNCHANGED <<interrupt, pause>>
       ELSE UNCHANGED <<interrupt, pause>>
    /\ inbox' = Tail(inbox)
    /\ UNCHANGED <<queueVars, scanning, current, roundVars, bufferVars>>

\* A scan is under way: a newer block of its chain interrupts it, a block of a
\* chain of higher priority pauses it.
Preempt ==
    /\ Take("process")
    /\ scanning \/ pq = {}
    /\ IF scanning /\ pq # {}
       THEN CASE Prio(Top) = Prio(current) -> interrupt' = TRUE /\ UNCHANGED pause
              [] Prio(Top) > Prio(current) /\ ~interrupt /\ ~pause
                    -> interrupt' = TRUE /\ pause' = TRUE
              [] OTHER -> UNCHANGED <<interrupt, pause>>
       ELSE UNCHANGED <<interrupt, pause>>
    /\ inbox' = Tail(inbox)
    /\ UNCHANGED <<queueVars, scanning, current, roundVars, bufferVars>>

Scheduler == ScheduleNewBlock \/ RescheduleBlock \/ StartBlock \/ Preempt

-----------------------------------------------------------------------------
(* A mining round and its readers.                                           *)

\* Mutant: the progress of the round before is kept.
RoundStartNoReset ==
    /\ roundPc = "start"
    /\ progress' = IF round.resume = NoResume THEN progress ELSE round.resume
    /\ reader' = [d \in Disks |-> "take"]
    /\ roundPc' = "collect"
    /\ UNCHANGED <<chainVars, queueVars, stateVars, round, bufferVars, stopVars, history>>

\* load resume info or reset, then start a reader per disk
RoundStart ==
    /\ roundPc = "start"
    /\ progress' = IF round.resume = NoResume THEN Nothing ELSE round.resume
    /\ reader' = [d \in Disks |-> "take"]
    /\ roundPc' = "collect"
    /\ UNCHANGED <<chainVars, queueVars, stateVars, round, bufferVars, stopVars, history>>

Unread(d) == {i \in Plots(d) : <<d, i>> \in Mineable[round.chain] /\ progress[d][i] < Reads[d][i]}

\* The reader of a disk waits for an empty buffer for the plot it is at.
TakeBuffer(d) ==
    /\ reader[d] = "take" /\ Unread(d) # {}
    /\ pool > 0
    /\ pool' = pool - 1
    /\ reader' = [reader EXCEPT ![d] = "read"]
    /\ UNCHANGED <<chainVars, queueVars, stateVars, round, roundPc, progress, hashing, stopVars, history>>

\* The plot the reader is at: they are read in order, the finished ones skipped.
Plot(d) == CHOOSE i \in Unread(d) : \A j \in Unread(d) : i <= j

\* A buffer is read; then the interrupt is checked, and if it is set the reader
\* ends and the buffer goes back to the pool with the warps in it.
ReadBuffer(d) ==
    LET i == Plot(d)
        id == <<round.chain, round.block, d, i, progress[d][i]>>
    IN
    /\ reader[d] = "read"
    /\ progress' = [progress EXCEPT ![d][i] = @ + 1]
    /\ read' = read \union {id}
    /\ IF interrupt
       THEN /\ reader' = [reader EXCEPT ![d] = "interrupted"]
            /\ pool' = pool + 1
            /\ UNCHANGED <<hashing, scanned>>
       ELSE /\ reader' = [reader EXCEPT ![d] = "take"]
            /\ hashing' = hashing \union {id}
            /\ scanned' = scanned \union {id}
            /\ UNCHANGED pool
    /\ UNCHANGED <<chainVars, queueVars, stateVars, round, roundPc, stopVars, reported, paused>>

\* Mutant: the buffer is not returned.
ReadFailsLeaks(d) ==
    LET i == Plot(d) IN
    /\ setup.errors
    /\ reader[d] = "read"
    /\ progress' = [progress EXCEPT ![d][i] = Reads[d][i]]
    /\ LET rest == {<<round.chain, round.block, d, i, r>> : r \in progress[d][i] .. Reads[d][i] - 1}
       IN read' = read \union rest /\ scanned' = scanned \union rest
    /\ reader' = [reader EXCEPT ![d] = "take"]
    /\ UNCHANGED pool
    /\ UNCHANGED <<chainVars, queueVars, stateVars, round, roundPc, hashing, stopVars, reported, paused>>

\* A read fails: the rest of the plot is skipped (the history counts it as read
\* and scanned: the disk has nothing to give).
ReadFails(d) ==
    LET i == Plot(d) IN
    /\ setup.errors
    /\ reader[d] = "read"
    /\ progress' = [progress EXCEPT ![d][i] = Reads[d][i]]
    /\ LET rest == {<<round.chain, round.block, d, i, r>> : r \in progress[d][i] .. Reads[d][i] - 1}
       IN read' = read \union rest /\ scanned' = scanned \union rest
    /\ reader' = [reader EXCEPT ![d] = "take"]
    /\ pool' = pool + 1
    /\ UNCHANGED <<chainVars, queueVars, stateVars, round, roundPc, hashing, stopVars, reported, paused>>

ReaderFinishes(d) ==
    /\ reader[d] = "take" /\ Unread(d) = {}
    /\ reader' = [reader EXCEPT ![d] = "finished"]
    /\ UNCHANGED <<chainVars, queueVars, stateVars, round, roundPc, progress, bufferVars, stopVars, history>>

\* A hasher finds the best nonce of a buffer, queues it for submission and
\* returns the buffer.
HashDone(id) ==
    /\ id \in hashing
    /\ hashing' = hashing \ {id}
    /\ pool' = pool + 1
    /\ UNCHANGED <<chainVars, queueVars, stateVars, roundVars, stopVars, history>>

Interrupted == \E d \in Disks : reader[d] = "interrupted"

\* Every disk has reported (with no disk at all the round waits for a first
\* message for ever): a paused block is handed back to the scheduler with the
\* progress of the plots, an interrupted one is given up.
RoundEnd ==
    /\ roundPc = "collect"
    /\ Disks # {} /\ \A d \in Disks : reader[d] \in {"finished", "interrupted"}
    /\ IF interrupt /\ pause /\ Interrupted
       THEN /\ inbox' = Send(inbox, <<Again(current, round.block, progress), Process>>)
            /\ paused' = paused \union {<<round.chain, round.block>>}
       ELSE /\ inbox' = Send(inbox, <<Process>>)
            /\ UNCHANGED paused
    /\ reported' = IF ~interrupt \/ (pause /\ ~Interrupted)
                   THEN reported \union {<<round.chain, round.block>>} ELSE reported
    /\ scanning' = FALSE
    /\ roundPc' = "none" /\ round' = NoRound
    /\ reader' = [d \in Disks |-> "none"]
    /\ UNCHANGED <<tip, queueVars, interrupt, pause, current, progress, bufferVars, stopVars, read, scanned>>

Reader(d) == TakeBuffer(d) \/ ReadBuffer(d) \/ ReadFails(d) \/ ReaderFinishes(d)
Round == RoundStart \/ RoundEnd

-----------------------------------------------------------------------------
(* Shutdown.                                                                 *)

\* graceful_shutdown: the token is cancelled, the scan interrupted and the
\* scheduler's channel closed; the scheduler may be at a message it has taken.
Shutdown ==
    /\ setup.stops /\ ~cancelled
    /\ cancelled' = TRUE
    /\ interrupt' = TRUE
    /\ late' \in (IF inbox = << >> THEN {FALSE} ELSE BOOLEAN)
    /\ UNCHANGED <<chainVars, queueVars, scanning, pause, current, roundVars, bufferVars, setup, drained, history>>

\* A second later: the buffers in the pool are taken out of it.
DrainBuffers ==
    /\ cancelled /\ ~drained
    /\ drained' = TRUE
    /\ pool' = 0
    /\ UNCHANGED <<chainVars, queueVars, stateVars, roundVars, hashing, setup, cancelled, late, history>>

-----------------------------------------------------------------------------
Next ==
    \/ \E c \in Chains : NewBlock(c)
    \/ Scheduler
    \/ Round
    \/ \E d \in Disks : Reader(d)
    \/ \E id \in hashing : HashDone(id)
    \/ Shutdown \/ DrainBuffers

Spec == Init /\ [][Next]_vars

\* Tasks and threads that can run do; the servers, the disks' errors and the
\* user owe nothing.
FairSpec ==
    /\ Spec
    /\ WF_vars(Scheduler) /\ WF_vars(Round) /\ WF_vars(DrainBuffers)
    /\ \A d \in 1 .. MaxDisks : WF_vars(d \in Disks /\ Reader(d))
    /\ WF_vars(\E id \in hashing : HashDone(id))

-----------------------------------------------------------------------------
(* Properties.                                                               *)

Progress == [Disks -> Seq(Nat)]
Blocks == 0 .. setup.blocks

\* Type correctness of the miner's state.
TypeOK ==
    /\ tip \in [Chains -> Blocks] /\ info \in [Chains -> Blocks]
    /\ pq \subseteq Chains
    /\ \A k \in DOMAIN inbox : inbox[k].kind \in {"new", "again", "process"}
    /\ \A c \in Chains : resume[c] = NoResume \/ resume[c] \in Progress
    /\ scanning \in BOOLEAN /\ interrupt \in BOOLEAN /\ pause \in BOOLEAN
    /\ current \in Chains /\ round.chain \in Chains /\ round.block \in Blocks
    /\ roundPc \in {"none", "start", "collect"}
    /\ progress \in Progress
    /\ \A d \in Disks : \A i \in Plots(d) : progress[d][i] <= Reads[d][i]
    /\ reader \in [Disks -> {"none", "take", "read", "finished", "interrupted"}]
    /\ pool \in 0 .. NumBuffers
    /\ cancelled \in BOOLEAN /\ late \in BOOLEAN /\ drained \in BOOLEAN

\* Every read buffer is in the pool, with a reader or with a hasher until the
\* shutdown drains them: none is lost when a reader is interrupted, meets an
\* error or finishes (plots.rs:377, :397).
BuffersConserved ==
    ~drained => pool + Cardinality({d \in Disks : reader[d] = "read"}) + Cardinality(hashing) = NumBuffers

\* The miner never idles with a block queued: when the scheduler has no message
\* left and nothing is scanned, the queue is empty.  Every handler that fills
\* the queue, and every end of a round, must send a ProcessBlock after it.
NeverIdleWithWork ==
    ~cancelled /\ inbox = << >> /\ ~scanning => pq = {}

\* Once the scheduler has handled its messages, a scan of a chain does not go
\* on undisturbed while a block of that chain or of one of higher priority is
\* queued: its readers have been told to stop (miner.rs:1001-1020).
YieldsToBetterBlock ==
    ~cancelled /\ inbox = << >> /\ scanning =>
        \A c \in pq : Prio(c) >= Prio(current) => interrupt

\* A scan that is taken up again starts at plots whose skipped part was read
\* for the very same block: the progress of one block is never applied to
\* another (miner.rs:764, :827).
ResumesOwnProgress ==
    \A c \in Chains : resume[c] # NoResume =>
        \A d \in Disks : \A i \in Plots(d) : \A r \in 0 .. resume[c][d][i] - 1 :
            <<d, i>> \in Mineable[c] => <<c, info[c], d, i, r>> \in read

\* A block the miner reports as finished without ever having paused it has been
\* scanned completely: each buffer of each plot its compression range admits
\* went to a hasher for that block.
FinishedIsScanned ==
    \A b \in reported \ paused : \A d \in Disks : \A i \in Plots(d) :
        <<d, i>> \in Mineable[b[1]] =>
            \A r \in 0 .. Reads[d][i] - 1 : <<b[1], b[2], d, i, r>> \in scanned

\* The same of every block reported as finished, paused or not: plots.rs calls
\* warps_scanned the "Total warps scanned so far", and a resumed scan counts
\* them as done.
ResumedIsScanned ==
    \A b \in reported : \A d \in Disks : \A i \in Plots(d) :
        <<d, i>> \in Mineable[b[1]] =>
            \A r \in 0 .. Reads[d][i] - 1 : <<b[1], b[2], d, i, r>> \in scanned

\* A chain never goes back to an older block: a paused block is put back in the
\* queue "only [...] if no new block in the meantime" (miner.rs:827).
NeverBackToOldBlock ==
    [][\A c \in Chains : info'[c] >= info[c]]_vars

\* When no more blocks arrive the miner comes to rest with nothing queued, and
\* the newest block of the chain of highest priority has been scanned to its
\* end, whatever the other chains did, unless the miner is asked to stop.
Settles ==
    <>[](~cancelled => /\ inbox = << >> /\ ~scanning /\ pq = {}
                       /\ tip[0] > 0 => <<0, tip[0]>> \in reported)

\* A requested shutdown ends the scan that is under way: graceful_shutdown
\* promises to "Close channels to unblock waiting tasks" (miner.rs:1214).
ShutdownEndsScan == cancelled ~> ~scanning

=============================================================================
