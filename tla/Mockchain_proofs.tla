-------------------------- MODULE Mockchain_proofs --------------------------
(* What the mock chain promises for any number of miners, tasks, restarts    *)
(* and faults, whatever the qualities and their times: blocks stand on       *)
(* nonces found for the block they extend, none comes early unless the wall   *)
(* clock was set back, and the best quality is that of a task which still    *)
(* stands.                                                                   *)
EXTENDS Mockchain, TLAPS

\* A nonce was found for a block of the chain, and for the latest one if it was
\* checked against the latest height: heights only grow, and a restart, after
\* which they may fall, leaves no nonce.
OnBlock(height, nonce) ==
    /\ height <= info.height
    /\ height = info.height => nonce.gensig = info.gensig

CallsOnBlock == \A m \in Miners : call[m] # NoCall => OnBlock(call[m].info.height, call[m].nonce)
TasksOnBlock == \A t \in Tasks : tasks[t] # Gone => OnBlock(tasks[t].height, tasks[t].nonce)

\* A task that may still forge sleeps at least until the time of its nonce has
\* passed since the latest row, as long as the wall clock was not set back.
TimersRun ==
    \A t \in Tasks : (tasks[t] # Gone /\ tasks[t].height = info.height /\ ~set_back)
        => tasks[t].poc_time <= age + tasks[t].timer

\* Only a wall clock set back makes the latest row one of the future.
AgeCounts == ~set_back => age >= 0

\* A due task has slept to its end.
DueTimers == \A t \in Tasks : (tasks[t] # Gone /\ tasks[t].state = "due") => tasks[t].timer = 0

\* The tripwire leads to the task of the best quality, which still stands.
TripwireStands ==
    (best # MaxQuality /\ faults = 0) =>
        tripwire \in Tasks /\ Standing(tripwire) /\ tasks[tripwire].nonce.quality = best

IInv ==
    /\ TypeOK
    /\ CallsOnBlock /\ TasksOnBlock
    /\ TimersRun /\ DueTimers
    /\ AgeCounts
    /\ TripwireStands
    /\ ForgedForItsBlock /\ ForgedOnTime

-----------------------------------------------------------------------------
(* The arithmetic of the adjustment and of the times. *)

\* A quotient of a number is no greater than the number.
LEMMA QuotientBelow ==
  ASSUME NEW a \in Nat, NEW b \in Nat \ {0}
  PROVE  a \div b \in 0 .. a
<1>1. a \div b \in Nat /\ (a \div b) * b <= a
  OBVIOUS
<1>2. (a \div b) * b >= a \div b
  BY <1>1
<1> QED
  BY <1>1, <1>2

\* The time of a quality is one of the table's.
LEMMA PocTimeType ==
  ASSUME NEW i \in Info, NEW q \in Qualities
  PROVE  PocTime(i, q) \in 0 .. MaxAge
<1>1. q \in Nat /\ q \in 0 .. MaxQuality - 1 /\ i.base \in Nat \ {0} /\ MaxQuality \in Nat
  BY MockchainAssumption DEF Info
<1>2. q \div i.base \in 0 .. q
  BY <1>1, QuotientBelow
<1>3. q \div i.base \in 0 .. MaxQuality - 1
  BY <1>1, <1>2
<1> QED
  BY <1>3, MockchainAssumption DEF PocTime

\* The elapsed time is a number of seconds, below zero only with the clock set back.
LEMMA ElapsedTimeType ==
  ASSUME TypeOK
  PROVE  ElapsedTime \in Int /\ NumBlocks \in Nat \ {0}
<1>1. Lookback \in Nat \ {0} /\ MaxAge \in Nat
  BY MockchainAssumption
<1>2. Len(rows) \in Nat \ {0} /\ \A i \in 1 .. Len(rows) : rows[i] \in Row
  BY DEF TypeOK
<1>3. NumBlocks \in 1 .. Len(rows)
  BY <1>1, <1>2 DEF NumBlocks, AtMost
<1> DEFINE first == Len(rows) - NumBlocks + 1
<1>4. first \in 1 .. Len(rows) /\ Len(rows) \in 1 .. Len(rows)
  BY <1>2, <1>3
<1>5. Latest.created \in Int /\ rows[first].created \in Int
  BY <1>2, <1>4 DEF Row, Latest
<1>6. age \in Int
  BY <1>1 DEF TypeOK
<1>7. ElapsedTime = age + Latest.created - rows[first].created
  BY DEF ElapsedTime
<1>8. NumBlocks \in Nat \ {0}
  BY <1>2, <1>3
<1> HIDE DEF first
<1> QED
  BY <1>5, <1>6, <1>7, <1>8

\* The base target never reaches zero.
LEMMA NewBaseTargetType ==
  ASSUME TypeOK, ElapsedTime >= 0
  PROVE  NewBaseTarget \in Nat \ {0}
<1>1. /\ GenesisBaseTarget \in Nat /\ BlockTime \in Nat \ {0}
      /\ MinPercent \in Nat /\ MaxPercent \in Nat
  BY MockchainAssumption
<1>2. ElapsedTime \in Nat /\ NumBlocks \in Nat \ {0}
  BY ElapsedTimeType
<1>3. info.base \in Nat
  BY DEF TypeOK, Info
<1>9. \A a, b \in Nat : a * b \in Nat
  OBVIOUS
<1>10. \A a, b \in Nat \ {0} : a * b \in Nat \ {0}
  OBVIOUS
<1>11. (info.base * ElapsedTime) \div (NumBlocks * BlockTime) \in Nat
  <2>1. info.base * ElapsedTime \in Nat
    BY <1>2, <1>3, <1>9
  <2>2. NumBlocks * BlockTime \in Nat \ {0}
    BY <1>1, <1>2, <1>10
  <2> DEFINE a == info.base * ElapsedTime
             b == NumBlocks * BlockTime
  <2> HIDE DEF a, b
  <2>3. a \in Nat /\ b \in Nat \ {0}
    BY <2>1, <2>2 DEF a, b
  <2>4. a \div b \in 0 .. a
    BY <2>3, QuotientBelow
  <2>5. a \div b \in Nat
    BY <2>3, <2>4
  <2> QED
    BY <2>5 DEF a, b
<1>12. (info.base * MinPercent) \div 100 \in Nat /\ (info.base * MaxPercent) \div 100 \in Nat
  <2>1. info.base * MinPercent \in Nat /\ info.base * MaxPercent \in Nat
    BY <1>1, <1>3, <1>9
  <2>2. \A a \in Nat : a \div 100 \in Nat
    OBVIOUS
  <2> QED
    BY <2>1, <2>2
<1> QED
  BY <1>1, <1>11, <1>12 DEF NewBaseTarget, AtLeast, AtMost

-----------------------------------------------------------------------------

LEMMA InitIInv == Init => IInv
<1> SUFFICES ASSUME Init PROVE IInv
  OBVIOUS
<1>1. <<>> \in Seq(Generators) /\ 0 \in Generators
  BY DEF Generators
<1>2. info \in Info
  BY <1>1, MockchainAssumption DEF Init, Info
<1>3. rows \in Seq(Row) /\ rows # <<>> /\ Len(rows) = 1
  <2> DEFINE row == [height |-> 0, gensig |-> <<>>, base |-> GenesisBaseTarget, generator |-> 0,
                     found_for |-> <<>>, poc_time |-> BlockTime, created |-> 0,
                     set_back |-> FALSE]
  <2>1. row \in Row
    BY <1>1, MockchainAssumption DEF Row
  <2>2. rows = <<row>>
    BY DEF Init
  <2> HIDE DEF row
  <2> QED
    BY <2>1, <2>2
<1>4. TypeOK
  <2>1. /\ age = 0 /\ set_back = FALSE /\ clock_sets = 0 /\ best = MaxQuality /\ tripwire = 0
        /\ tasks = [t \in Tasks |-> Gone] /\ known = [m \in Miners |-> info]
        /\ call = [m \in Miners |-> NoCall] /\ hashes = 1 /\ restarts = 0 /\ faults = 0
    BY DEF Init
  <2>2. age \in -MaxAge .. MaxAge
    BY <2>1, MockchainAssumption
  <2> QED
    BY <1>2, <1>3, <2>1, <2>2 DEF TypeOK
<1>5. AgeCounts
  BY DEF AgeCounts, Init
<1>6. CallsOnBlock /\ TasksOnBlock /\ TimersRun /\ DueTimers /\ TripwireStands
  BY DEF Init, CallsOnBlock, TasksOnBlock, TimersRun, DueTimers, TripwireStands
<1>7. ForgedForItsBlock /\ ForgedOnTime
  BY <1>3 DEF ForgedForItsBlock, ForgedOnTime
<1> QED
  BY <1>4, <1>5, <1>6, <1>7 DEF IInv

-----------------------------------------------------------------------------
(* One lemma per action: what it may disturb. *)

LEMMA RowFacts ==
  ASSUME TypeOK
  PROVE  /\ Len(rows) \in Nat \ {0}
         /\ \A i \in 1 .. Len(rows) : rows[i] \in Row
         /\ Latest \in Row
<1>1. rows \in Seq(Row) /\ Len(rows) # 0
  BY DEF TypeOK
<1> QED
  BY <1>1 DEF Latest

\* A submission in the handler keeps the info it was checked against.
LEMMA GetMiningInfoStep ==
  ASSUME IInv, NEW m \in Miners, get_mining_info(m)
  PROVE  IInv'
<1>1. UNCHANGED <<info, rows, age, set_back, clock_sets, best, tripwire, tasks, call, hashes, restarts, faults>>
  BY DEF get_mining_info, clock
<1>2. known' \in [Miners -> Info]
  BY DEF get_mining_info, IInv, TypeOK
<1>3. TypeOK'
  BY <1>1, <1>2 DEF IInv, TypeOK
<1> QED
  BY <1>1, <1>3 DEF IInv, CallsOnBlock, TasksOnBlock, OnBlock, TimersRun, DueTimers, AgeCounts,
                    TripwireStands, Standing, ForgedForItsBlock, ForgedOnTime

LEMMA SubmitNonceStep ==
  ASSUME IInv, NEW m \in Miners, NEW q \in Qualities, submit_nonce(m, q)
  PROVE  IInv'
<1>1. UNCHANGED <<info, rows, age, set_back, clock_sets, best, tripwire, tasks, known, hashes, restarts, faults>>
  BY DEF submit_nonce, clock
<1> DEFINE new == [info |-> info, nonce |-> [gensig |-> known[m].gensig, quality |-> q]]
<1>2. \/ UNCHANGED call
      \/ IsCurrent(known[m]) /\ call' = [call EXCEPT ![m] = new]
  BY DEF submit_nonce
<1>3. info \in Info /\ known[m] \in Info
  BY DEF IInv, TypeOK
<1>4. new \in [info : Info, nonce : Nonce]
  BY <1>3 DEF Info, Nonce
<1>5. call \in [Miners -> {NoCall} \cup [info : Info, nonce : Nonce]]
  BY DEF IInv, TypeOK
<1>6. call' \in [Miners -> {NoCall} \cup [info : Info, nonce : Nonce]]
  <2> HIDE DEF new
  <2> QED
    BY <1>2, <1>4, <1>5
<1>7. TypeOK'
  BY <1>1, <1>6 DEF IInv, TypeOK
<1>8. CallsOnBlock'
  <2>1. CASE UNCHANGED call
    BY <1>1, <2>1 DEF IInv, CallsOnBlock, OnBlock
  <2>2. CASE IsCurrent(known[m]) /\ call' = [call EXCEPT ![m] = new]
    <3>1. new.info.height <= info.height /\ new.nonce.gensig = info.gensig
      BY <1>3, <2>2 DEF IsCurrent, Info
    <3> HIDE DEF new
    <3> SUFFICES ASSUME NEW n \in Miners, call'[n] # NoCall
                 PROVE  OnBlock(call[n].info.height, call[n].nonce)'
      BY DEF CallsOnBlock
    <3>2. CASE n = m
      BY <1>1, <1>5, <2>2, <3>1, <3>2 DEF OnBlock
    <3>3. CASE n # m
      BY <1>1, <1>5, <2>2, <3>3 DEF OnBlock, IInv, CallsOnBlock
    <3> QED
      BY <3>2, <3>3
  <2> QED
    BY <1>2, <2>1, <2>2
<1> QED
  BY <1>1, <1>7, <1>8 DEF IInv, TasksOnBlock, OnBlock, TimersRun, DueTimers, AgeCounts,
                    TripwireStands, Standing, ForgedForItsBlock, ForgedOnTime

\* A new task is one of the block its nonce was checked against, and sleeps until
\* the time of the nonce; the task of a worse nonce may be interrupted.
LEMMA RegisterStep ==
  ASSUME IInv, NEW m \in Miners, Register(m)
  PROVE  IInv'
<1>1. UNCHANGED <<info, rows, age, set_back, clock_sets, known, hashes, restarts, faults>> /\ call' = [call EXCEPT ![m] = NoCall]
  BY DEF Register, clock
<1>2. /\ call \in [Miners -> {NoCall} \cup [info : Info, nonce : Nonce]]
      /\ call[m] \in [info : Info, nonce : Nonce]
      /\ call[m] # NoCall
  BY DEF Register, IInv, TypeOK
<1>3. call' \in [Miners -> {NoCall} \cup [info : Info, nonce : Nonce]] /\ CallsOnBlock'
  BY <1>1, <1>2 DEF IInv, CallsOnBlock, OnBlock
<1> DEFINE q == call[m].nonce.quality
           t == CHOOSE u \in Tasks : tasks[u] = Gone
           new == ForgingTask(call[m].info, call[m].nonce, m)
<1>4. CASE UNCHANGED <<best, tasks, tripwire>>
  BY <1>1, <1>3, <1>4 DEF IInv, TypeOK, TasksOnBlock, OnBlock, TimersRun, DueTimers, AgeCounts,
                    TripwireStands, Standing, ForgedForItsBlock, ForgedOnTime
<1>5. CASE /\ \E u \in Tasks : tasks[u] = Gone
           /\ best' = q
           /\ tasks' = [Interrupt(tripwire) EXCEPT ![t] = new]
           /\ tripwire' = t
  <2>1. t \in Tasks
    BY <1>5
  <2>2. q \in Qualities /\ call[m].info \in Info /\ call[m].nonce \in Nonce
    BY <1>2 DEF Nonce
  <2>3. PocTime(call[m].info, q) \in 0 .. MaxAge /\ MaxAge \in Nat
    BY <2>2, PocTimeType, MockchainAssumption
  <2>4. age \in -MaxAge .. MaxAge /\ (~set_back => age >= 0)
    BY DEF IInv, TypeOK, AgeCounts
  <2>5. /\ Remaining(PocTime(call[m].info, q)) \in Nat
        /\ ~set_back => PocTime(call[m].info, q) <= age + Remaining(PocTime(call[m].info, q))
    BY <2>3, <2>4 DEF Remaining
  <2>6. Account[m] \in Generators
    BY DEF Generators
  <2>7. /\ new.state = "asleep" /\ new.interrupted = FALSE /\ new.timer = Remaining(PocTime(call[m].info, q))
        /\ new.height = call[m].info.height /\ new.nonce = call[m].nonce
        /\ new.poc_time = PocTime(call[m].info, q)
    BY DEF ForgingTask
  <2>8. new \in Task /\ new # Gone
    <3>1. new \in Task
      BY <2>2, <2>3, <2>5, <2>6 DEF ForgingTask, Task, Info
    <3>2. Gone.state = "gone"
      BY DEF Gone
    <3> QED
      BY <2>7, <3>1, <3>2
  <2>9. OnBlock(new.height, new.nonce)
    BY <1>2, <2>7 DEF IInv, CallsOnBlock
  <2> HIDE DEF new, t
  <2> DEFINE before == Interrupt(tripwire)
  <2>10. tasks \in [Tasks -> {Gone} \cup Task] /\ tripwire \in {0} \cup Tasks
    BY DEF IInv, TypeOK
  <2>11. /\ before \in [Tasks -> {Gone} \cup Task]
         /\ \A u \in Tasks :
              /\ before[u] # Gone => tasks[u] # Gone
              /\ tasks[u] # Gone => /\ before[u].state = tasks[u].state
                                    /\ before[u].timer = tasks[u].timer
                                    /\ before[u].height = tasks[u].height
                                    /\ before[u].nonce = tasks[u].nonce
                                    /\ before[u].poc_time = tasks[u].poc_time
    <3>1. CASE tripwire # 0 /\ tasks[tripwire].state = "asleep"
      <4>1. tripwire \in Tasks /\ tasks[tripwire] \in Task
        BY <2>10, <3>1 DEF Gone
      <4>2. before = [tasks EXCEPT ![tripwire] = [tasks[tripwire] EXCEPT !.interrupted = TRUE]]
        BY <3>1 DEF Interrupt
      <4>3. [tasks[tripwire] EXCEPT !.interrupted = TRUE] \in Task
        BY <4>1 DEF Task
      <4>4. tasks[tripwire] # Gone
        BY <3>1 DEF Gone
      <4>5. before \in [Tasks -> {Gone} \cup Task]
        BY <2>10, <4>1, <4>2, <4>3
      <4> HIDE DEF before
      <4> QED
        BY <2>10, <4>1, <4>2, <4>4, <4>5 DEF Task
    <3>2. CASE ~(tripwire # 0 /\ tasks[tripwire].state = "asleep")
      BY <2>10, <3>2 DEF Interrupt
    <3> QED
      BY <3>1, <3>2
  <2> HIDE DEF before
  <2>12. tasks' = [before EXCEPT ![t] = new]
    BY <1>5 DEF before
  <2>13. /\ tasks' \in [Tasks -> {Gone} \cup Task]
         /\ tasks'[t] = new
         /\ \A u \in Tasks : u # t => tasks'[u] = before[u]
    BY <2>1, <2>8, <2>11, <2>12
  <2>14. TypeOK'
    BY <1>1, <1>3, <1>5, <2>1, <2>2, <2>13 DEF IInv, TypeOK
  <2>15. TasksOnBlock'
    <3> SUFFICES ASSUME NEW u \in Tasks, tasks'[u] # Gone
                 PROVE  OnBlock(tasks'[u].height, tasks'[u].nonce)
      BY <1>1 DEF TasksOnBlock, OnBlock
    <3>1. CASE u = t
      BY <2>9, <2>13, <3>1
    <3>2. CASE u # t
      <4>1. tasks'[u] = before[u] /\ tasks[u] # Gone
        BY <2>11, <2>13, <3>2
      <4>2. tasks'[u].height = tasks[u].height /\ tasks'[u].nonce = tasks[u].nonce
        BY <2>11, <4>1
      <4> QED
        BY <4>1, <4>2 DEF IInv, TasksOnBlock
    <3> QED
      BY <3>1, <3>2
  <2>16. TimersRun'
    BY <1>1, <2>5, <2>7, <2>11, <2>13 DEF IInv, TimersRun
  <2>17. DueTimers'
    <3> SUFFICES ASSUME NEW u \in Tasks, tasks'[u] # Gone, tasks'[u].state = "due"
                 PROVE  tasks'[u].timer = 0
      BY DEF DueTimers
    <3>1. u # t
      BY <2>7, <2>13
    <3>2. tasks'[u] = before[u] /\ tasks[u] # Gone
      BY <2>11, <2>13, <3>1
    <3>3. tasks[u].state = "due" /\ tasks'[u].timer = tasks[u].timer
      BY <2>11, <3>2
    <3> QED
      BY <3>2, <3>3 DEF IInv, DueTimers
  <2>18. TripwireStands'
    BY <1>5, <2>1, <2>7, <2>8, <2>13 DEF TripwireStands, Standing
  <2> QED
    BY <1>1, <1>3, <2>14, <2>15, <2>16, <2>17, <2>18
       DEF IInv, AgeCounts, ForgedForItsBlock, ForgedOnTime
<1> QED
  BY <1>4, <1>5 DEF Register

LEMMA RegisterFailsStep ==
  ASSUME IInv, NEW m \in Miners, RegisterFails(m)
  PROVE  IInv'
<1>1. /\ UNCHANGED <<info, rows, age, set_back, clock_sets, tripwire, tasks, known, hashes, restarts>>
      /\ call' = [call EXCEPT ![m] = NoCall]
      /\ best' = call[m].nonce.quality
      /\ faults' = faults + 1
  BY DEF RegisterFails, clock
<1>2. /\ call \in [Miners -> {NoCall} \cup [info : Info, nonce : Nonce]]
      /\ call[m] \in [info : Info, nonce : Nonce]
      /\ faults \in Nat
  BY DEF RegisterFails, IInv, TypeOK
<1>3. call' \in [Miners -> {NoCall} \cup [info : Info, nonce : Nonce]] /\ CallsOnBlock'
  BY <1>1, <1>2 DEF IInv, CallsOnBlock, OnBlock
<1>4. best' \in Qualities /\ faults' \in Nat \ {0}
  BY <1>1, <1>2 DEF Nonce
<1>5. TypeOK'
  BY <1>1, <1>3, <1>4 DEF IInv, TypeOK
<1>6. TripwireStands'
  BY <1>4 DEF TripwireStands
<1> QED
  BY <1>1, <1>3, <1>5, <1>6 DEF IInv, TasksOnBlock, OnBlock, TimersRun, DueTimers, AgeCounts,
                    ForgedForItsBlock, ForgedOnTime

LEMMA DueStep ==
  ASSUME IInv, NEW t \in Tasks, Due(t)
  PROVE  IInv'
<1>1. UNCHANGED <<info, rows, age, set_back, clock_sets, best, tripwire, known, call, hashes, restarts, faults>>
  BY DEF Due, clock
<1>2. tasks[t].state = "asleep" /\ tasks[t].timer = 0 /\ tasks' = [tasks EXCEPT ![t].state = "due"]
  BY DEF Due
<1>3. tasks \in [Tasks -> {Gone} \cup Task]
  BY DEF IInv, TypeOK
<1>4. tasks[t] # Gone /\ tasks[t] \in Task
  BY <1>2, <1>3 DEF Gone
<1>5. [tasks[t] EXCEPT !.state = "due"] \in Task
  BY <1>4 DEF Task
<1>6. tasks' \in [Tasks -> {Gone} \cup Task]
  BY <1>2, <1>3, <1>5
<1>7. \A u \in Tasks :
        /\ tasks'[u] # Gone => tasks[u] # Gone
        /\ tasks[u] # Gone => /\ tasks'[u] # Gone
                              /\ tasks'[u].timer = tasks[u].timer
                              /\ tasks'[u].height = tasks[u].height
                              /\ tasks'[u].nonce = tasks[u].nonce
                              /\ tasks'[u].poc_time = tasks[u].poc_time
                              /\ tasks'[u].state = "due" \/ tasks'[u] = tasks[u]
        /\ tasks'[u].state = "due" => u = t \/ tasks[u].state = "due"
  <2>1. tasks'[t] = [tasks[t] EXCEPT !.state = "due"] /\ tasks'[t].state = "due"
    BY <1>2, <1>3, <1>4 DEF Task
  <2>2. tasks'[t] # Gone
    BY <2>1 DEF Gone
  <2> QED
    BY <1>2, <1>3, <1>4, <2>1, <2>2 DEF Task
<1>8. TypeOK'
  BY <1>1, <1>6 DEF IInv, TypeOK
<1>9. TasksOnBlock' /\ TimersRun'
  BY <1>1, <1>7 DEF IInv, TasksOnBlock, TimersRun, OnBlock
<1>10. DueTimers'
  BY <1>2, <1>7 DEF IInv, DueTimers
<1>11. TripwireStands'
  BY <1>1, <1>7 DEF IInv, TripwireStands, Standing
<1> QED
  BY <1>1, <1>8, <1>9, <1>10, <1>11
     DEF IInv, CallsOnBlock, OnBlock, AgeCounts, ForgedForItsBlock, ForgedOnTime

LEMMA InterruptedStep ==
  ASSUME IInv, NEW t \in Tasks, Interrupted(t)
  PROVE  IInv'
<1>1. /\ UNCHANGED <<info, rows, age, set_back, clock_sets, best, tripwire, known, call, hashes, restarts, faults>>
      /\ tasks[t].state = "asleep" /\ tasks[t].interrupted
      /\ tasks' = [tasks EXCEPT ![t] = Gone]
  BY DEF Interrupted, clock
<1>2. tasks \in [Tasks -> {Gone} \cup Task]
  BY DEF IInv, TypeOK
<1>3. tasks' \in [Tasks -> {Gone} \cup Task] /\ \A u \in Tasks : tasks'[u] = IF u = t THEN Gone ELSE tasks[u]
  BY <1>1, <1>2
<1>4. TypeOK'
  BY <1>1, <1>3 DEF IInv, TypeOK
<1>5. TripwireStands'
  BY <1>1, <1>3 DEF IInv, TripwireStands, Standing
<1> QED
  BY <1>1, <1>3, <1>4, <1>5
     DEF IInv, CallsOnBlock, TasksOnBlock, TimersRun, DueTimers, OnBlock, AgeCounts, ForgedForItsBlock,
         ForgedOnTime

\* The block that is forged: its nonce was found for the block of the mining
\* info, since the heights are equal, and its time has passed.
LEMMA ForgeStep ==
  ASSUME IInv, NEW t \in Tasks, Forge(t)
  PROVE  IInv'
<1>1. /\ tasks[t].state = "due" /\ best' = MaxQuality
      /\ tasks' = [tasks EXCEPT ![t] = Gone]
      /\ UNCHANGED <<tripwire, known, call, restarts>>
      /\ \/ RightHeight(tasks[t]) /\ ElapsedTime >= 0 /\ forge_block(tasks[t])
         \/ ForgesNothing(tasks[t])
  BY DEF Forge, BestAfterForging
<1>2. tasks \in [Tasks -> {Gone} \cup Task]
  BY DEF IInv, TypeOK
<1>3. tasks[t] \in Task /\ tasks[t] # Gone
  BY <1>1, <1>2 DEF Gone
<1>4. tasks' \in [Tasks -> {Gone} \cup Task] /\ \A u \in Tasks : tasks'[u] = IF u = t THEN Gone ELSE tasks[u]
  BY <1>1, <1>2
<1>5. TripwireStands'
  BY <1>1 DEF TripwireStands
<1>6. DueTimers'
  BY <1>4 DEF IInv, DueTimers
<1>7. CASE ForgesNothing(tasks[t])
  <2>1. UNCHANGED <<info, rows, age, set_back, clock_sets, hashes>> /\ faults' \in Nat
    <3>1. faults \in Nat
      BY DEF IInv, TypeOK
    <3>2. /\ UNCHANGED <<info, rows, age, set_back, clock_sets, hashes>>
          /\ faults' = faults \/ faults' = faults + 1
      BY <1>7, Zenon DEF ForgesNothing, clock
    <3> HIDE <1>7
    <3> QED
      BY <3>1, <3>2
  <2>2. TypeOK'
    BY <1>1, <1>4, <2>1 DEF IInv, TypeOK
  <2> QED
    BY <1>1, <1>4, <1>5, <1>6, <2>1, <2>2
       DEF IInv, CallsOnBlock, TasksOnBlock, TimersRun, OnBlock, AgeCounts, ForgedForItsBlock, ForgedOnTime
<1>8. CASE RightHeight(tasks[t]) /\ ElapsedTime >= 0 /\ forge_block(tasks[t])
  <2> DEFINE task == tasks[t]
             new == MiningInfo(info.height + 1, Append(info.gensig, task.generator), NewBaseTarget)
             row == [height |-> new.height, gensig |-> new.gensig, base |-> new.base,
                     generator |-> task.generator, found_for |-> task.nonce.gensig,
                     poc_time |-> task.poc_time, created |-> Latest.created + age,
                     set_back |-> set_back]
  <2>1. /\ info' = new /\ hashes' = hashes + 1
        /\ \/ /\ rows' = Append(rows, row) /\ age' = 0 /\ set_back' = FALSE
              /\ UNCHANGED <<clock_sets, faults>>
           \/ faults' = faults + 1 /\ UNCHANGED <<rows, age, set_back, clock_sets>>
    BY <1>8 DEF forge_block, clock
  <2>2. /\ info \in Info /\ hashes \in Nat /\ faults \in Nat
        /\ clock_sets \in Nat /\ set_back \in BOOLEAN
        /\ age \in Int /\ MaxAge \in Nat
    BY MockchainAssumption DEF IInv, TypeOK
  <2>3. NewBaseTarget \in Nat \ {0}
    BY <1>8, NewBaseTargetType DEF IInv
  <2>4. task.generator \in Generators /\ task.nonce.gensig \in Seq(Generators) /\ task.poc_time \in Nat
    <3>1. task.poc_time \in 0 .. MaxAge
      BY <1>3 DEF Task
    <3>2. task.poc_time \in Nat
      BY <2>2, <3>1
    <3> QED
      BY <1>3, <3>2 DEF Task, Nonce
  <2>5. Append(info.gensig, task.generator) \in Seq(Generators)
    BY <2>2, <2>4 DEF Info
  <2>6. /\ new.height = info.height + 1 /\ new.gensig = Append(info.gensig, task.generator)
        /\ new.base = NewBaseTarget /\ new \in Info
    BY <2>2, <2>3, <2>5 DEF MiningInfo, Info
  <2>7. Latest \in Row /\ Len(rows) \in Nat \ {0} /\ \A i \in 1 .. Len(rows) : rows[i] \in Row
    BY RowFacts DEF IInv
  <2>8. Latest.created \in Int /\ Latest.created + age \in Int
    <3>1. Latest.created \in Int
      BY <2>7 DEF Row
    <3>2. \A a, b \in Int : a + b \in Int
      OBVIOUS
    <3> QED
      BY <2>2, <3>1, <3>2
  <2>9. row \in Row
    BY <2>2, <2>3, <2>4, <2>5, <2>6, <2>8 DEF Row, Info
  <2>10. /\ row.gensig = Append(info.gensig, task.generator) /\ row.generator = task.generator
         /\ row.found_for = task.nonce.gensig
         /\ row.poc_time = task.poc_time /\ row.created = Latest.created + age
         /\ row.set_back = set_back
    BY <2>6
  <2>11. task.height = info.height
    BY <1>8 DEF RightHeight
  <2>12. task.nonce.gensig = info.gensig /\ (~set_back => task.poc_time <= age)
    <3>1. OnBlock(task.height, task.nonce)
      BY <1>3 DEF IInv, TasksOnBlock
    <3>2. (~set_back => task.poc_time <= age + task.timer) /\ task.timer = 0
      BY <1>1, <1>3, <2>11 DEF IInv, TimersRun, DueTimers
    <3> QED
      BY <2>2, <2>4, <2>11, <3>1, <3>2 DEF OnBlock
  <2> HIDE DEF new, row
  <2>13. info'.height = info.height + 1 /\ info.height \in Nat
    BY <2>1, <2>2, <2>6 DEF Info
  <2>14. CallsOnBlock'
    <3>1. call \in [Miners -> {NoCall} \cup [info : Info, nonce : Nonce]]
      BY DEF IInv, TypeOK
    <3> SUFFICES ASSUME NEW m \in Miners, call[m] # NoCall
                 PROVE  call[m].info.height < info'.height
      BY <1>1, <2>13, <3>1 DEF CallsOnBlock, OnBlock, Info
    <3>2. call[m].info.height <= info.height /\ call[m].info.height \in Nat
      BY <3>1 DEF IInv, CallsOnBlock, OnBlock, Info
    <3> QED
      BY <2>13, <3>2
  <2>15. \A u \in Tasks : tasks'[u] # Gone => /\ tasks'[u].height < info'.height
                                             /\ tasks'[u].height \in Nat
    <3> SUFFICES ASSUME NEW u \in Tasks, tasks[u] # Gone
                 PROVE  tasks[u].height < info'.height /\ tasks[u].height \in Nat
      BY <1>4
    <3>1. tasks[u].height <= info.height /\ tasks[u].height \in Nat
      BY <1>2 DEF IInv, TasksOnBlock, OnBlock, Task
    <3> QED
      BY <2>13, <3>1
  <2>16. TasksOnBlock' /\ TimersRun'
    BY <2>13, <2>15 DEF TasksOnBlock, TimersRun, OnBlock
  <2>17. CASE faults' = faults + 1 /\ UNCHANGED <<rows, age, set_back, clock_sets>>
    <3>1. TypeOK'
      BY <1>1, <1>4, <2>1, <2>2, <2>6, <2>17 DEF IInv, TypeOK
    <3> QED
      BY <1>5, <1>6, <2>14, <2>16, <2>17, <3>1 DEF IInv, AgeCounts, ForgedForItsBlock, ForgedOnTime
  <2>18. CASE /\ rows' = Append(rows, row) /\ age' = 0 /\ set_back' = FALSE
              /\ UNCHANGED <<clock_sets, faults>>
    <3>1. rows \in Seq(Row) /\ rows' \in Seq(Row) /\ rows' # <<>>
      BY <2>9, <2>18 DEF IInv, TypeOK
    <3>2. /\ Len(rows') = Len(rows) + 1
          /\ \A i \in 1 .. Len(rows) : rows'[i] = rows[i]
          /\ rows'[Len(rows) + 1] = row
      BY <2>9, <2>18, <3>1
    <3>3. TypeOK'
      <4>1. /\ age' \in -MaxAge .. MaxAge /\ set_back' \in BOOLEAN /\ clock_sets' \in Nat
            /\ faults' \in Nat /\ hashes' \in Nat /\ info' \in Info
        <5>1. age' \in -MaxAge .. MaxAge
          BY <2>2, <2>18
        <5>2. set_back' \in BOOLEAN /\ clock_sets' \in Nat /\ faults' \in Nat
          BY <2>2, <2>18
        <5> QED
          BY <2>1, <2>2, <2>6, <5>1, <5>2
      <4> QED
        BY <1>1, <1>4, <3>1, <4>1 DEF IInv, TypeOK
    <3>5. AgeCounts'
      BY <2>18 DEF AgeCounts
    <3>6. ForgedForItsBlock'
      <4> SUFFICES ASSUME NEW i \in 2 .. Len(rows) + 1
                   PROVE  rows'[i].gensig = Append(rows'[i].found_for, rows'[i].generator)
        BY <3>2 DEF ForgedForItsBlock
      <4>1. CASE i \in 2 .. Len(rows)
        <5>1. i \in 1 .. Len(rows)
          BY <2>7, <4>1
        <5>2. rows[i].gensig = Append(rows[i].found_for, rows[i].generator)
          BY <4>1 DEF IInv, ForgedForItsBlock
        <5> QED
          BY <3>2, <5>1, <5>2
      <4>2. CASE i = Len(rows) + 1
        BY <2>10, <2>12, <3>2, <4>2
      <4> QED
        BY <2>7, <4>1, <4>2
    <3>7. ForgedOnTime'
      <4> SUFFICES ASSUME NEW i \in 2 .. Len(rows) + 1
                   PROVE  ~rows'[i].set_back =>
                            rows'[i].created >= rows'[i - 1].created + rows'[i].poc_time
        BY <3>2 DEF ForgedOnTime
      <4>1. CASE i \in 2 .. Len(rows)
        <5>1. i \in 1 .. Len(rows) /\ i - 1 \in 1 .. Len(rows)
          BY <2>7, <4>1
        <5> QED
          BY <3>2, <4>1, <5>1 DEF IInv, ForgedOnTime
      <4>2. CASE i = Len(rows) + 1
        <5>1. rows'[i - 1] = Latest /\ rows'[i] = row
          <6>1. i - 1 = Len(rows) /\ Len(rows) \in 1 .. Len(rows)
            BY <2>7, <4>2
          <6> QED
            BY <3>2, <4>2, <6>1, Zenon DEF Latest
        <5>2. \A a, b, c \in Int : c <= b => a + b >= a + c
          OBVIOUS
        <5>3. ~set_back => Latest.created + age >= Latest.created + task.poc_time
          <6>1. age \in Int /\ Latest.created \in Int
            BY <2>2, <2>8, Zenon
          <6>2. task.poc_time \in Int
            <7>1. task.poc_time \in Nat
              BY <2>4, Zenon
            <7>2. \A n \in Nat : n \in Int
              OBVIOUS
            <7> QED
              BY <7>1, <7>2, Zenon
          <6> QED
            BY <2>12, <5>2, <6>1, <6>2, Zenon
        <5> QED
          BY <2>10, <5>1, <5>3
      <4> QED
        BY <2>7, <4>1, <4>2
    <3> QED
      BY <1>5, <1>6, <2>14, <2>16, <3>3, <3>5, <3>6, <3>7 DEF IInv
  <2> QED
    BY <2>1, <2>17, <2>18
<1> QED
  BY <1>1, <1>7, <1>8

\* A second brings every sleeping task nearer to its end, and is counted up to
\* MaxAge, which no time of a nonce exceeds.
LEMMA TickStep ==
  ASSUME IInv, Tick
  PROVE  IInv'
<1>1. /\ age' = AtMost(age + 1, MaxAge)
      /\ UNCHANGED <<info, rows, set_back, clock_sets, best, tripwire, known, call, hashes, restarts, faults>>
  BY DEF Tick
<1>2. age \in -MaxAge .. MaxAge /\ MaxAge \in Nat /\ tasks \in [Tasks -> {Gone} \cup Task]
  BY MockchainAssumption DEF IInv, TypeOK
<1>3. age' \in -MaxAge .. MaxAge /\ (age' = age + 1 \/ age' = MaxAge) /\ age <= age'
  BY <1>1, <1>2 DEF AtMost
<1> DEFINE after(u) == IF tasks[u].state = "asleep" /\ tasks[u].timer > 0
                       THEN [tasks[u] EXCEPT !.timer = @ - 1] ELSE tasks[u]
<1>4. tasks' = [u \in Tasks |-> after(u)]
  BY DEF Tick
<1>5. ASSUME NEW u \in Tasks
      PROVE  /\ after(u) \in {Gone} \cup Task
             /\ after(u) = Gone <=> tasks[u] = Gone
             /\ tasks[u] # Gone =>
                  /\ after(u).state = tasks[u].state /\ after(u).interrupted = tasks[u].interrupted
                  /\ after(u).height = tasks[u].height /\ after(u).nonce = tasks[u].nonce
                  /\ after(u).poc_time = tasks[u].poc_time
                  /\ after(u).timer = tasks[u].timer
                       \/ (after(u).state = "asleep" /\ tasks[u].timer > 0 /\ after(u).timer = tasks[u].timer - 1)
  <2>1. CASE tasks[u].state = "asleep" /\ tasks[u].timer > 0
    <3>1. tasks[u] \in Task /\ tasks[u] # Gone
      BY <1>2, <2>1 DEF Gone
    <3>2. after(u) = [tasks[u] EXCEPT !.timer = @ - 1]
      BY <2>1
    <3> HIDE DEF after
    <3>3. tasks[u].timer - 1 \in Nat
      BY <2>1, <3>1 DEF Task
    <3>4. after(u) \in Task
      BY <3>1, <3>2, <3>3 DEF Task
    <3>5. after(u).state = "asleep"
      BY <2>1, <3>1, <3>2 DEF Task
    <3>6. after(u) # Gone
      BY <3>5 DEF Gone
    <3> QED
      BY <2>1, <3>1, <3>2, <3>4, <3>6 DEF Task
  <2>2. CASE ~(tasks[u].state = "asleep" /\ tasks[u].timer > 0)
    <3>1. after(u) = tasks[u]
      BY <2>2
    <3> HIDE DEF after
    <3> QED
      BY <1>2, <3>1
  <2> QED
    BY <2>1, <2>2
<1> HIDE DEF after
<1>6. tasks' \in [Tasks -> {Gone} \cup Task] /\ \A u \in Tasks : tasks'[u] = after(u)
  BY <1>4, <1>5
<1>7. TypeOK'
  BY <1>1, <1>3, <1>6 DEF IInv, TypeOK
<1>8. TasksOnBlock'
  <2> SUFFICES ASSUME NEW u \in Tasks, tasks[u] # Gone
               PROVE  OnBlock(after(u).height, after(u).nonce)
    BY <1>1, <1>5, <1>6 DEF TasksOnBlock, OnBlock
  <2> QED
    BY <1>5 DEF IInv, TasksOnBlock
<1>9. TimersRun'
  <2> SUFFICES ASSUME NEW u \in Tasks, tasks[u] # Gone, tasks[u].height = info.height, ~set_back
               PROVE  tasks[u].poc_time <= age' + after(u).timer
    BY <1>1, <1>5, <1>6 DEF TimersRun
  <2>1. tasks[u].poc_time <= age + tasks[u].timer
    BY DEF IInv, TimersRun
  <2>2. tasks[u].poc_time \in 0 .. MaxAge /\ tasks[u].timer \in Nat
    BY <1>2 DEF Task
  <2>3. after(u).timer \in Nat
    BY <1>5 DEF Task
  <2>4. after(u).timer = tasks[u].timer \/ after(u).timer = tasks[u].timer - 1
    BY <1>5
  <2>5. \A p, a, b, x, y \in Nat :
          (p <= a + x /\ p <= MaxAge /\ (b = a + 1 \/ b = MaxAge) /\ a <= b /\ (y = x \/ y = x - 1)) => p <= b + y
    BY <1>2
  <2>6. tasks[u].poc_time \in Nat /\ tasks[u].poc_time <= MaxAge /\ age \in Nat /\ age' \in Nat
    BY <1>2, <1>3, <2>2 DEF IInv, AgeCounts
  <2>7. tasks[u].timer \in Nat
    BY <2>2
  <2> QED
    BY <1>3, <2>1, <2>3, <2>4, <2>5, <2>6, <2>7, ZenonT(60)
<1>10. DueTimers'
  BY <1>5, <1>6 DEF IInv, DueTimers
<1>11. TripwireStands'
  BY <1>1, <1>5, <1>6 DEF IInv, TripwireStands, Standing
<1>12. AgeCounts'
  BY <1>1, <1>2, <1>3 DEF IInv, AgeCounts
<1> QED
  BY <1>1, <1>7, <1>8, <1>9, <1>10, <1>11, <1>12
     DEF IInv, CallsOnBlock, OnBlock, ForgedForItsBlock, ForgedOnTime

\* The wall clock set forwards makes the latest row older, and set back excuses the
\* next row.
LEMMA SetClockStep ==
  ASSUME IInv, SetClock
  PROVE  IInv'
<1>1. /\ age' \in SetTo
      /\ set_back' = (set_back \/ age' < age)
      /\ clock_sets' = clock_sets + 1
      /\ UNCHANGED <<info, rows, best, tripwire, tasks, known, call, hashes, restarts, faults>>
  BY DEF SetClock
<1>2. /\ age \in -MaxAge .. MaxAge /\ MaxAge \in Nat /\ clock_sets \in Nat
      /\ tasks \in [Tasks -> {Gone} \cup Task]
  BY MockchainAssumption DEF IInv, TypeOK
<1>3. age' \in -MaxAge .. MaxAge
  BY <1>1, MockchainAssumption
<1>4. set_back' \in BOOLEAN /\ clock_sets' \in Nat
  BY <1>1, <1>2
<1>5. TypeOK'
  BY <1>1, <1>3, <1>4 DEF IInv, TypeOK
<1>6. ~set_back' => ~set_back /\ age <= age'
  <2>1. age \in Int /\ age' \in Int
    BY <1>2, <1>3
  <2>2. ~set_back' => ~set_back /\ ~(age' < age)
    BY <1>1, Zenon
  <2> QED
    BY <2>1, <2>2
<1>7. AgeCounts'
  BY <1>2, <1>3, <1>6 DEF IInv, AgeCounts
<1>8. TimersRun'
  <2> SUFFICES ASSUME NEW t \in Tasks, tasks[t] # Gone, tasks[t].height = info.height, ~set_back'
               PROVE  tasks[t].poc_time <= age' + tasks[t].timer
    BY <1>1 DEF TimersRun
  <2>1. tasks[t].poc_time <= age + tasks[t].timer /\ age <= age'
    BY <1>6 DEF IInv, TimersRun
  <2>2. tasks[t].poc_time \in 0 .. MaxAge /\ tasks[t].timer \in Nat
    BY <1>2 DEF Task
  <2> QED
    BY <1>2, <1>3, <2>1, <2>2
<1> QED
  BY <1>1, <1>5, <1>7, <1>8 DEF IInv, CallsOnBlock, TasksOnBlock, OnBlock, DueTimers,
                    TripwireStands, Standing, ForgedForItsBlock, ForgedOnTime

\* The server starts again from the latest row, with no submission and no task.
LEMMA RestartStep ==
  ASSUME IInv, Restart
  PROVE  IInv'
<1>1. /\ info' = MiningInfo(Latest.height, Latest.gensig, Latest.base)
      /\ hashes' = hashes + 1 /\ restarts' = restarts + 1
      /\ best' = MaxQuality /\ tripwire' = 0
      /\ tasks' = [t \in Tasks |-> Gone]
      /\ call' = [m \in Miners |-> NoCall]
      /\ UNCHANGED <<rows, age, set_back, clock_sets, known, faults>>
  BY DEF Restart, clock
<1>2. Latest \in Row /\ hashes \in Nat /\ restarts \in Nat
  BY RowFacts DEF IInv, TypeOK
<1>3. info' \in Info
  BY <1>1, <1>2 DEF MiningInfo, Info, Row
<1>4. TypeOK'
  BY <1>1, <1>2, <1>3 DEF IInv, TypeOK
<1> QED
  BY <1>1, <1>4 DEF IInv, CallsOnBlock, TasksOnBlock, TimersRun, DueTimers, TripwireStands, AgeCounts,
                    ForgedForItsBlock, ForgedOnTime

-----------------------------------------------------------------------------

\* The inductive invariant: submissions, tasks and timers belong to the block of
\* the mining info or to a lower one, and the tripwire to the best quality.
THEOREM MockchainInvariant == Spec => []IInv
<1>1. Init => IInv
  BY InitIInv
<1>2. IInv /\ [Next]_vars => IInv'
  <2> SUFFICES ASSUME IInv, [Next]_vars PROVE IInv'
    OBVIOUS
  <2>1. ASSUME NEW m \in Miners, get_mining_info(m) PROVE IInv'
    BY <2>1, GetMiningInfoStep
  <2>2. ASSUME NEW m \in Miners, NEW q \in Qualities, submit_nonce(m, q) PROVE IInv'
    BY <2>2, SubmitNonceStep
  <2>3. ASSUME NEW m \in Miners, Register(m) PROVE IInv'
    BY <2>3, RegisterStep
  <2>4. ASSUME NEW m \in Miners, RegisterFails(m) PROVE IInv'
    BY <2>4, RegisterFailsStep
  <2>5. ASSUME NEW t \in Tasks, Due(t) PROVE IInv'
    BY <2>5, DueStep
  <2>6. ASSUME NEW t \in Tasks, Interrupted(t) PROVE IInv'
    BY <2>6, InterruptedStep
  <2>7. ASSUME NEW t \in Tasks, Forge(t) PROVE IInv'
    BY <2>7, ForgeStep
  <2>8. CASE Tick
    BY <2>8, TickStep
  <2>9. CASE SetClock
    BY <2>9, SetClockStep
  <2>10. CASE Restart
    BY <2>10, RestartStep
  <2>11. CASE UNCHANGED vars
    BY <2>11 DEF vars, clock, IInv, TypeOK, CallsOnBlock, TasksOnBlock, OnBlock, TimersRun, DueTimers, AgeCounts,
                 TripwireStands, Standing, ForgedForItsBlock, ForgedOnTime
  <2> QED
    BY <2>1, <2>2, <2>3, <2>4, <2>5, <2>6, <2>7, <2>8, <2>9, <2>10, <2>11 DEF Next
<1> QED
  BY <1>1, <1>2, PTL DEF Spec

\* Every variable keeps its type; the base target never gets to zero, which
\* qualities are divided by (json_rpc_handler.rs:145).
THEOREM MockchainTypes == Spec => []TypeOK
<1>1. IInv => TypeOK
  BY DEF IInv
<1> QED
  BY <1>1, MockchainInvariant, PTL

\* A block of the table stands on a nonce that was found for the block it extends,
\* whatever happened between the check of the nonce and the forging
\* (json_rpc_handler.rs:67-83, db.rs:243).
THEOREM BlocksForgedForTheirBlock == Spec => []ForgedForItsBlock
<1>1. IInv => ForgedForItsBlock
  BY DEF IInv
<1> QED
  BY <1>1, MockchainInvariant, PTL

\* No block enters the table before the time of its nonce has passed since the row
\* before it, unless the wall clock was set back in between
\* (json_rpc_handler.rs:191-203).
THEOREM BlocksForgedOnTime == Spec => []ForgedOnTime
<1>1. IInv => ForgedOnTime
  BY DEF IInv
<1> QED
  BY <1>1, MockchainInvariant, PTL

\* The quality that shuts out worse nonces is that of a task which still stands
\* (json_rpc_handler.rs:183-229).
THEOREM BestIsBacked == Spec => []BestBacked
<1>1. IInv => BestBacked
  BY DEF IInv, TripwireStands, BestBacked
<1> QED
  BY <1>1, MockchainInvariant, PTL

=============================================================================
