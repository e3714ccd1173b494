------------------------------ MODULE Mockchain ------------------------------
(***************************************************************************)
(* The mock chain: a server that miners ask for the mining info and send    *)
(* nonces to (json_rpc_handler.rs), and that forges a block when the time   *)
(* of the best of them has come (db.rs).  Handlers run on the threads of    *)
(* the runtime; each forging is a task of its own, which the handler of a   *)
(* better nonce interrupts through the tripwire.  Three mutexes guard the   *)
(* mining info, the best quality and the tripwire; the table of blocks is   *)
(* all that a restart leaves.                                               *)
(*                                                                          *)
(* Data.  A generation signature is the sequence of the generators it was   *)
(* computed from, a block hash a number never used before.  A nonce is      *)
(* [gensig, quality]: the block it was found for and its quality there, the *)
(* one that calculate_best_quality_in_range computes.  The target quality   *)
(* is u64::MAX and refuses nothing.                                         *)
(*                                                                          *)
(* Time is counted in seconds.  Rows are stamped with the wall clock, which *)
(* can be set, also back to before the latest row: its age may be below     *)
(* zero.  Tasks sleep by a clock of their own, which nothing sets.          *)
(***************************************************************************)
EXTENDS Integers, Sequences

CONSTANTS
    Miners,             \* connections that submit nonces
    Account,            \* Account[m]: the address m mines for
    Qualities,          \* qualities of their nonces
    MaxQuality,         \* u64::MAX, which none of them reaches
    BlockTime,          \* block_time_seconds
    GenesisBaseTarget,  \* genesis_base_target(block_time_seconds)
    TimeOf,             \* TimeOf[q]: the seconds of adjusted quality q
    Lookback,           \* lookback_blocks of the difficulty adjustment
    MinPercent,         \* min_adjustment_ratio, in hundredths
    MaxPercent,         \* max_adjustment_ratio, in hundredths
    MaxHeight,          \* bound: no block is forged above this height
    MaxTasks,           \* bound: forging tasks alive at once
    MaxAge,             \* bound: ages above it are not told apart
    SetTo,              \* bound: ages of the latest row the wall clock is set to
    MaxClockSets,       \* bound: times it is set
    MaxRestarts,        \* bound: restarts of the server
    MaxFaults           \* bound: failing accesses to the table

Tasks == 1 .. MaxTasks

ASSUME MockchainAssumption ==
    /\ MaxQuality \in Nat \ {0}
    /\ Qualities \subseteq 0 .. MaxQuality - 1
    /\ DOMAIN Account = Miners
    /\ BlockTime \in Nat \ {0}
    /\ GenesisBaseTarget \in Nat \ {0}
    /\ TimeOf \in [0 .. MaxQuality - 1 -> 0 .. MaxAge]
    /\ Lookback \in Nat \ {0}
    /\ {MinPercent, MaxPercent} \subseteq Nat
    /\ SetTo \subseteq -MaxAge .. MaxAge
    /\ {MaxHeight, MaxTasks, MaxAge, MaxClockSets, MaxRestarts, MaxFaults} \subseteq Nat

VARIABLES
    info,       \* cache.mining_info: [height, gensig, hash, base]
    rows,       \* the table of blocks, in the order of their heights
    age,        \* seconds since the latest row was created, by the wall clock
    set_back,   \* the wall clock was set back since then
    clock_sets, \* times the wall clock was set
    best,       \* best_quality
    tripwire,   \* the task the tripwire interrupts, 0 = None
    tasks,      \* tasks[t]: the forging task t, or Gone
    known,      \* known[m]: the mining info miner m was given last
    call,       \* call[m]: the nonce of m whose quality is being computed, or NoCall
    hashes,     \* block hashes drawn so far
    restarts,
    faults

clock == <<age, set_back, clock_sets>>
vars == <<info, rows, clock, best, tripwire, tasks, known, call, hashes, restarts, faults>>

Gone   == [state |-> "gone"]
NoCall == [nonce |-> "none"]

Latest == rows[Len(rows)]
AtMost(n, m) == IF n < m THEN n ELSE m
AtLeast(n, m) == IF n < m THEN m ELSE n

\* A new MiningInfo, with a random block hash.
MiningInfo(height, gensig, base) ==
    [height |-> height, gensig |-> gensig, base |-> base, hash |-> hashes + 1]

----------------------------------------------------------------------------

\* DB::new on an empty table: the genesis block.
Init ==
    /\ info = [height |-> 0, gensig |-> <<>>, base |-> GenesisBaseTarget, hash |-> 1]
    /\ rows = <<[height |-> 0, gensig |-> <<>>, base |-> GenesisBaseTarget,
                 generator |-> 0,
                 found_for |-> <<>>, poc_time |-> BlockTime, created |-> 0,
                 set_back |-> FALSE]>>
    /\ age = 0 /\ set_back = FALSE /\ clock_sets = 0
    /\ best = MaxQuality
    /\ tripwire = 0
    /\ tasks = [t \in Tasks |-> Gone]
    /\ known = [m \in Miners |-> info]
    /\ call = [m \in Miners |-> NoCall]
    /\ hashes = 1
    /\ restarts = 0
    /\ faults = 0

\* A miner asks for the mining info (between its submissions: two connections
\* of one miner are two miners here).
get_mining_info(m) ==
    /\ call[m] = NoCall
    /\ known' = [known EXCEPT ![m] = info]
    /\ UNCHANGED <<info, rows, clock, best, tripwire, tasks, call, hashes, restarts, faults>>

\* The handler copies the mining info, compares the submission with the copy
\* and computes the quality: the lock on the mining info is given up before.
IsCurrent(i) ==
    /\ i.hash = info.hash
    /\ i.height = info.height
    /\ i.gensig = info.gensig

submit_nonce(m, q) ==
    /\ call[m] = NoCall
    /\ info.height < MaxHeight
    /\ IF IsCurrent(known[m])
       THEN call' = [call EXCEPT ![m] =
                       [info |-> info, nonce |-> [gensig |-> known[m].gensig, quality |-> q]]]
       ELSE UNCHANGED call
    /\ UNCHANGED <<info, rows, clock, best, tripwire, tasks, known, hashes, restarts, faults>>

PocTime(i, q) == TimeOf[q \div i.base]

\* What is left of the time of a nonce, by the wall clock and the creation of
\* the latest row; nothing if that row is of the future.
Remaining(poc_time) == IF age > poc_time \/ age < 0 THEN 0 ELSE poc_time - age

\* sender.send(()): heard by a task that still sleeps.
Interrupt(t) ==
    IF t # 0 /\ tasks[t].state = "asleep"
    THEN [tasks EXCEPT ![t].interrupted = TRUE]
    ELSE tasks

\* Mutant: the task takes the height from the mining info of now.
ForgingTaskOfNow(i, nonce, m) ==
    LET poc_time == PocTime(i, nonce.quality)
    IN [state |-> "asleep", interrupted |-> FALSE, timer |-> Remaining(poc_time),
        height |-> info.height, generator |-> Account[m], nonce |-> nonce, poc_time |-> poc_time]

ForgingTask(i, nonce, m) ==
    LET poc_time == PocTime(i, nonce.quality)
    IN [state |-> "asleep", interrupted |-> FALSE, timer |-> Remaining(poc_time),
        height |-> i.height, generator |-> Account[m], nonce |-> nonce, poc_time |-> poc_time]

\* The rest of submit_nonce, under the lock on best_quality: a better nonce
\* becomes the best one, interrupts the task of the one before and gets a task
\* of its own.  Any other is accepted without effect.
Register(m) ==
    /\ call[m] # NoCall
    /\ LET q == call[m].nonce.quality
           t == CHOOSE u \in Tasks : tasks[u] = Gone
       IN IF q < best
          THEN /\ \E u \in Tasks : tasks[u] = Gone
               /\ best' = q
               /\ tasks' = [Interrupt(tripwire) EXCEPT ![t] = ForgingTask(call[m].info, call[m].nonce, m)]
               /\ tripwire' = t
          ELSE UNCHANGED <<best, tasks, tripwire>>
    /\ call' = [call EXCEPT ![m] = NoCall]
    /\ UNCHANGED <<info, rows, clock, known, hashes, restarts, faults>>

\* The latest row cannot be read: the quality is recorded, the submission
\* fails, and neither the tripwire nor a task follows.
RegisterFails(m) ==
    /\ faults < MaxFaults
    /\ call[m] # NoCall
    /\ call[m].nonce.quality < best
    /\ best' = call[m].nonce.quality
    /\ call' = [call EXCEPT ![m] = NoCall]
    /\ faults' = faults + 1
    /\ UNCHANGED <<info, rows, clock, tripwire, tasks, known, hashes, restarts>>

----------------------------------------------------------------------------

\* tokio::select!: the sleep is over, also for a task that was interrupted in
\* the meantime: of two branches that are ready either may be taken.
Due(t) ==
    /\ tasks[t].state = "asleep"
    /\ tasks[t].timer = 0
    /\ tasks' = [tasks EXCEPT ![t].state = "due"]
    /\ UNCHANGED <<info, rows, clock, best, tripwire, known, call, hashes, restarts, faults>>

\* The other branch: "Interrupted by better quality".
Interrupted(t) ==
    /\ tasks[t].state = "asleep"
    /\ tasks[t].interrupted
    /\ tasks' = [tasks EXCEPT ![t] = Gone]
    /\ UNCHANGED <<info, rows, clock, best, tripwire, known, call, hashes, restarts, faults>>

\* get_elapsed_time over the last Lookback rows: seconds and their number.  A
\* wall clock set back can make it a time below zero, which is none.
NumBlocks == AtMost(Lookback, Len(rows))
ElapsedTime == age + Latest.created - rows[Len(rows) - NumBlocks + 1].created

NewBaseTarget ==
    LET raw     == (info.base * ElapsedTime) \div (NumBlocks * BlockTime)
        floored == AtLeast(raw, (info.base * MinPercent) \div 100)
        limited == AtMost(floored, (info.base * MaxPercent) \div 100)
    IN AtLeast(AtMost(limited, GenesisBaseTarget), 1)

\* Mutant: a task forges whatever the height is.
RaceUnchecked(task) == TRUE

\* "check for a race": the task's nonce was checked against this height.
RightHeight(task) == task.height = info.height

\* The insertion may fail, which is only logged; the cache takes the new block
\* all the same.
forge_block(task) ==
    LET new == MiningInfo(info.height + 1, Append(info.gensig, task.generator), NewBaseTarget)
        row == [height |-> new.height, gensig |-> new.gensig, base |-> new.base,
                generator |-> task.generator, found_for |-> task.nonce.gensig, poc_time |-> task.poc_time, created |-> Latest.created + age,
                set_back |-> set_back]
    IN /\ info' = new
       /\ hashes' = hashes + 1
       /\ \/ /\ rows' = Append(rows, row)
             /\ age' = 0 /\ set_back' = FALSE /\ UNCHANGED <<clock_sets, faults>>
          \/ /\ faults < MaxFaults
             /\ faults' = faults + 1
             /\ UNCHANGED <<rows, clock>>

\* "wrong_height", an elapsed time below zero, or one that cannot be read: no
\* block.
ForgesNothing(task) ==
    /\ \/ ~RightHeight(task) /\ UNCHANGED faults
       \/ RightHeight(task) /\ ElapsedTime < 0 /\ UNCHANGED faults
       \/ /\ RightHeight(task)
          /\ faults < MaxFaults
          /\ faults' = faults + 1
    /\ UNCHANGED <<info, rows, clock, hashes>>

\* Mutant: only a forged block frees the best quality.
BestKept(forged) == IF forged THEN MaxQuality ELSE best

\* In every case the next nonce starts from u64::MAX.
BestAfterForging(forged) == MaxQuality

\* A due task gets the lock on best_quality, forges and resets the quality.
Forge(t) ==
    /\ tasks[t].state = "due"
    /\ \/ /\ RightHeight(tasks[t]) /\ ElapsedTime >= 0
          /\ forge_block(tasks[t])
          /\ best' = BestAfterForging(TRUE)
       \/ ForgesNothing(tasks[t]) /\ best' = BestAfterForging(FALSE)
    /\ tasks' = [tasks EXCEPT ![t] = Gone]
    /\ UNCHANGED <<tripwire, known, call, restarts>>

\* A second passes, for the wall clock and for the tasks that sleep.
Tick ==
    /\ age' = AtMost(age + 1, MaxAge)
    /\ tasks' = [t \in Tasks |->
                   IF tasks[t].state = "asleep" /\ tasks[t].timer > 0
                   THEN [tasks[t] EXCEPT !.timer = @ - 1] ELSE tasks[t]]
    /\ UNCHANGED <<info, rows, set_back, clock_sets, best, tripwire, known, call, hashes, restarts, faults>>

\* The wall clock is set, forwards or back.
SetClock ==
    /\ clock_sets < MaxClockSets
    /\ age' \in SetTo
    /\ set_back' = (set_back \/ age' < age)
    /\ clock_sets' = clock_sets + 1
    /\ UNCHANGED <<info, rows, best, tripwire, tasks, known, call, hashes, restarts, faults>>

\* The server dies and starts again: DB::new from the latest row.
Restart ==
    /\ restarts < MaxRestarts
    /\ restarts' = restarts + 1
    /\ info' = MiningInfo(Latest.height, Latest.gensig, Latest.base)
    /\ hashes' = hashes + 1
    /\ best' = MaxQuality
    /\ tripwire' = 0
    /\ tasks' = [t \in Tasks |-> Gone]
    /\ call' = [m \in Miners |-> NoCall]
    /\ UNCHANGED <<rows, clock, known, faults>>

Next ==
    \/ \E m \in Miners :
          \/ get_mining_info(m)
          \/ \E q \in Qualities : submit_nonce(m, q)
          \/ Register(m)
          \/ RegisterFails(m)
    \/ \E t \in Tasks : Due(t) \/ Interrupted(t) \/ Forge(t)
    \/ Tick
    \/ SetClock
    \/ Restart

Spec == Init /\ [][Next]_vars

----------------------------------------------------------------------------

\* A row remembers besides its columns which block its nonce was found for, and
\* whether the wall clock was set back between the row before and this one.
Generators == {0} \cup {Account[m] : m \in Miners}
Info  == [height : Nat, gensig : Seq(Generators), base : Nat \ {0}, hash : Nat]
Row   == [height : Nat, gensig : Seq(Generators), base : Nat \ {0},
          generator : Generators, found_for : Seq(Generators), poc_time : Nat, created : Int,
          set_back : BOOLEAN]
Nonce == [gensig : Seq(Generators), quality : Qualities]
Task  == [state : {"asleep", "due"}, interrupted : BOOLEAN, timer : Nat, height : Nat,
          generator : Generators, nonce : Nonce, poc_time : 0 .. MaxAge]

\* Every variable keeps its type: base targets stay above zero, so that a quality
\* can be divided by them, and there is always a latest row to start from.
TypeOK ==
    /\ info \in Info
    /\ rows \in Seq(Row) /\ rows # <<>>
    /\ age \in -MaxAge .. MaxAge /\ set_back \in BOOLEAN /\ clock_sets \in Nat
    /\ best \in Qualities \cup {MaxQuality}
    /\ tripwire \in {0} \cup Tasks
    /\ tasks \in [Tasks -> {Gone} \cup Task]
    /\ known \in [Miners -> Info]
    /\ call \in [Miners -> {NoCall} \cup [info : Info, nonce : Nonce]]
    /\ hashes \in Nat /\ restarts \in Nat /\ faults \in Nat

\* A task that no better nonce has interrupted.
Standing(t) == tasks[t] # Gone /\ (tasks[t].state = "asleep" => ~tasks[t].interrupted)

\* json_rpc_handler.rs:67-83, db.rs:243: a nonce is checked against a copy of
\* the mining info, registered after its quality was computed and forged when
\* its time has come, each behind another lock.  Whatever happens in between,
\* also a block the table refused or a restart: a block of the table was forged
\* with a nonce that was found for, and checked against, the block it extends.
ForgedForItsBlock ==
    \A i \in 2 .. Len(rows) :
        rows[i].gensig = Append(rows[i].found_for, rows[i].generator)

\* json_rpc_handler.rs:191-203: no block enters the table before the time of its
\* nonce has passed since the row before it, whenever the nonce was submitted,
\* whichever tasks were due at once and however often the wall clock was set
\* forwards.  A wall clock set back between the two rows is excepted: the time is
\* taken as over when the row before is of the future (line 202), and a task that
\* already sleeps does not sleep longer.
ForgedOnTime ==
    \A i \in 2 .. Len(rows) :
        ~rows[i].set_back => rows[i].created >= rows[i - 1].created + rows[i].poc_time

\* json_rpc_handler.rs:183-229: the quality that shuts out worse nonces is that
\* of a task no better nonce has interrupted: what is refused for its sake will
\* be made good for.  Only a table that could not be read leaves a quality
\* without a task (json_rpc_handler.rs:187).
BestBacked ==
    (best # MaxQuality /\ faults = 0) =>
        \E t \in Tasks : Standing(t) /\ tasks[t].nonce.quality = best

\* json_rpc_handler.rs:235, "Interrupted by better quality": a task is only
\* interrupted by a nonce of a better quality.  It is not so: a task of an older
\* block resets the best quality of the block being forged.
InterruptedByBetter ==
    [][\A t \in Tasks :
          (tasks[t].state = "asleep" /\ ~tasks[t].interrupted /\ tasks'[t].state = "asleep")
            => (tasks'[t].interrupted => best' < tasks[t].nonce.quality)]_vars

=============================================================================
