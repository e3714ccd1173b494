-------------------------- MODULE AggregatorServer --------------------------
(* The aggregator's server: the requests of miners for mining information,   *)
(* answered from a cache with a time to live behind a fetch lock (pool.rs),  *)
(* the handlers that keep the status and the statistics up to date           *)
(* (server.rs, stats.rs), the task that writes accepted submissions to the   *)
(* database (db.rs), and a restart that loads them again.                    *)
(*                                                                           *)
(* A block is its height, and stands for its mining info.  A miner is an     *)
(* account on a machine.  What is sent upstream is in AggregatorQueue; when  *)
(* miners were last seen, and the base target and hash the server stores     *)
(* but nothing reads (server.rs:263, :266), are left out.                    *)
EXTENDS TimeBending, Sequences, SequencesExt, FiniteSets, FiniteSetsExt

CONSTANTS
    Pollers,      \* requests for mining info that may be under way at a time
    Submitters,   \* submissions that may be
    Miners,       \* accounts on machines
    Qualities,    \* raw qualities of nonces
    BaseTarget,   \* BaseTarget[h]: the base target of the block at height h
    Heights,      \* bound: the blocks of the upstream
    TTL,          \* cache_ttl, in ticks of the clock
    Retention,    \* retention_blocks: 0 keeps everything
    Window,       \* blocks of statistics kept for a miner (720)
    MaxSubs,      \* bound: submissions
    MaxFaults     \* bound: failed fetches, failed writes and crashes, together

First == CHOOSE h \in Heights : \A g \in Heights : h <= g
NoBlock == 0
NoQuality == -1
NoMiner == [height |-> NoBlock, best |-> NoQuality, perBlock |-> << >>]

ASSUME HeightsAssumption ==
    Heights \subseteq Nat \ {0} /\ IsFiniteSet(Heights) /\ First \in Heights
ASSUME BaseTargetAssumption == BaseTarget \in [Heights -> Nat \ {0}]
ASSUME QualitiesAssumption == Qualities \subseteq Nat
ASSUME BoundsAssumption ==
    /\ TTL \in Nat \ {0} /\ Window \in Nat \ {0} /\ Retention \in Nat
    /\ MaxSubs \in Nat /\ MaxFaults \in Nat

VARIABLES
    tip,        \* the upstream's current block
    cache,      \* current_mining_info: [block, age], NoBlock if there is none
    lock,       \* who holds fetch_lock
    pc, got,    \* a poller's place in its handler, and the block it has
    height, target,  \* Stats: current_height, and the block of current_base_target
    current,    \* AppState.current_height
    miners,     \* active_connections: height, best_raw_quality, best_per_block
    saving,     \* a submitter's submission on its way from the statistics to
                \* the database's channel
    channel,    \* the commands for the writer task
    loading,    \* the rows a server that starts has yet to load
    rows,       \* the table: the quality of a miner at a height
    subs, faults,    \* submissions and failures so far
    unsaved, cut     \* history: rows that missed a submission, the last cutoff

cacheVars == <<cache, lock>>
statusVars == <<height, target, current>>
dbVars == <<channel, rows, unsaved, cut>>
vars == <<tip, cacheVars, pc, got, statusVars, miners, saving, dbVars, loading, subs, faults>>

Free == "free"
ASSUME PollersAssumption == Free \notin Pollers

NoSub == << >>
Save(k, h, q) == [kind |-> "save", miner |-> k, height |-> h, quality |-> q]
Cleanup(h) == [kind |-> "cleanup", height |-> h]

Init ==
    /\ tip = First
    /\ cache = [block |-> NoBlock, age |-> 0] /\ lock = Free
    /\ pc = [r \in Pollers |-> "idle"] /\ got = [r \in Pollers |-> NoBlock]
    /\ height = NoBlock /\ target = NoBlock /\ current = NoBlock
    /\ miners = [k \in Miners |-> NoMiner]
    /\ saving = [s \in Submitters |-> NoSub]
    /\ channel = << >> /\ rows = [x \in {} |-> NoQuality] /\ loading = {}
    /\ subs = 0 /\ faults = 0 /\ unsaved = {} /\ cut = 0

-----------------------------------------------------------------------------
(* The upstream and the clock.                                               *)

NewBlock(h) ==
    /\ h > tip
    /\ tip' = h
    /\ UNCHANGED <<cacheVars, pc, got, statusVars, miners, saving, dbVars, loading, subs, faults>>

Tick ==
    /\ cache.block # NoBlock /\ cache.age < TTL
    /\ cache' = [cache EXCEPT !.age = @ + 1]
    /\ UNCHANGED <<tip, lock, pc, got, statusVars, miners, saving, dbVars, loading, subs, faults>>

-----------------------------------------------------------------------------
(* A request for mining info: PoolManager::get_mining_info ...               *)

Fresh == cache.block # NoBlock /\ cache.age < TTL

Go(r, place) == pc' = [pc EXCEPT ![r] = place]
AtPoller(r, place) ==
    /\ pc[r] = place
    /\ UNCHANGED <<tip, miners, saving, rows, loading, subs, unsaved, cut>>

\* A miner asks; what is fresh in the cache is its answer.
Poll(r) ==
    /\ AtPoller(r, "idle") /\ loading = {}
    /\ IF Fresh THEN got' = [got EXCEPT ![r] = cache.block] /\ Go(r, "height")
                ELSE UNCHANGED got /\ Go(r, "lock")
    /\ UNCHANGED <<cacheVars, statusVars, channel, faults>>

\* Mutant: the cache is not looked at again.
AcquireNoCheck(r) ==
    /\ AtPoller(r, "lock")
    /\ lock = Free
    /\ lock' = r /\ UNCHANGED got /\ Go(r, "ask")
    /\ UNCHANGED <<cache, statusVars, channel, faults>>

\* It gets the fetch lock, and finds that another task has filled the cache, or
\* not.  (Only the holder of the lock fills it, so this is one step.)
Acquire(r) ==
    /\ AtPoller(r, "lock")
    /\ lock = Free
    /\ IF Fresh THEN UNCHANGED lock /\ got' = [got EXCEPT ![r] = cache.block] /\ Go(r, "height")
                ELSE lock' = r /\ UNCHANGED got /\ Go(r, "ask")
    /\ UNCHANGED <<cache, statusVars, channel, faults>>

\* The upstream answers with the block it is at.
Answer(r) ==
    /\ AtPoller(r, "ask")
    /\ got' = [got EXCEPT ![r] = tip]
    /\ Go(r, "store")
    /\ UNCHANGED <<cacheVars, statusVars, channel, faults>>

\* It does not: the miner gets an error, the guard is dropped.
AnswerFails(r) ==
    /\ AtPoller(r, "ask")
    /\ faults < MaxFaults /\ faults' = faults + 1
    /\ lock' = Free /\ Go(r, "idle")
    /\ UNCHANGED <<cache, got, statusVars, channel>>

Store(r) ==
    /\ AtPoller(r, "store")
    /\ cache' = [block |-> got[r], age |-> 0]
    /\ lock' = Free
    /\ Go(r, "height")
    /\ UNCHANGED <<got, statusVars, channel, faults>>

(* ... and handle_get_mining_info.                                           *)

UpdateHeight(r) ==
    /\ AtPoller(r, "height")
    /\ height' = got[r] /\ Go(r, "target")
    /\ UNCHANGED <<cacheVars, got, target, current, channel, faults>>

UpdateBaseTarget(r) ==
    /\ AtPoller(r, "target")
    /\ target' = got[r] /\ Go(r, "current")
    /\ UNCHANGED <<cacheVars, got, height, current, channel, faults>>

\* The height is stored; if it was another, old rows are to be deleted.  (Two
\* tasks between the read of the old height and the write of the new one would
\* only send the same command twice.)
StoreHeight(r) ==
    /\ AtPoller(r, "current")
    /\ current' = got[r] /\ Go(r, "idle")
    /\ channel' = IF got[r] # current /\ Retention > 0
                  THEN Append(channel, Cleanup(got[r])) ELSE channel
    /\ got' = [got EXCEPT ![r] = NoBlock]
    /\ UNCHANGED <<cacheVars, height, target, faults>>

Handle(r) ==
    \/ Acquire(r) \/ Answer(r) \/ Store(r)
    \/ UpdateHeight(r) \/ UpdateBaseTarget(r) \/ StoreHeight(r)

-----------------------------------------------------------------------------
(* A submission: handle_submit_nonce, after it was handed to the queue.      *)

\* The table with another value for a key, which may be new.
With(table, key, value) ==
    [x \in DOMAIN table \union {key} |-> IF x = key THEN value ELSE table[x]]

\* Mutant: the quality of another block counts for this one.
RecordedNoReset(m, h, q) ==
    LET known == IF h \in DOMAIN m.perBlock /\ m.perBlock[h] < q THEN m.perBlock[h] ELSE q IN
    IF m = NoMiner THEN [height |-> h, best |-> q, perBlock |-> With(m.perBlock, h, q)]
    ELSE [height   |-> h,
          best     |-> IF m.best < q THEN m.best ELSE q,
          perBlock |-> LET all == With(m.perBlock, h, known)
                       IN Restrict(all, {g \in DOMAIN all : g > h - Window})]

\* record_submission: a miner's statistics after a submission.
Recorded(m, h, q) ==
    LET known == IF h \in DOMAIN m.perBlock /\ m.perBlock[h] < q THEN m.perBlock[h] ELSE q IN
    IF m = NoMiner THEN [height |-> h, best |-> q, perBlock |-> With(m.perBlock, h, q)]
    ELSE [height   |-> h,
          best     |-> IF h = m.height /\ m.best < q THEN m.best ELSE q,
          perBlock |-> LET all == With(m.perBlock, h, known)
                       IN Restrict(all, {g \in DOMAIN all : g > h - Window})]

\* A miner submits a nonce of a block up to the current one.
Record(s, k, h, q) ==
    /\ saving[s] = NoSub /\ subs < MaxSubs /\ h <= tip /\ loading = {}
    /\ subs' = subs + 1
    /\ miners' = [miners EXCEPT ![k] = Recorded(@, h, q)]
    /\ saving' = [saving EXCEPT ![s] = Save(k, h, q)]
    /\ UNCHANGED <<tip, cacheVars, pc, got, statusVars, dbVars, loading, faults>>

\* save_submission: the row is the writer task's business.
QueueSave(s) ==
    /\ saving[s] # NoSub
    /\ channel' = Append(channel, saving[s])
    /\ saving' = [saving EXCEPT ![s] = NoSub]
    /\ UNCHANGED <<tip, cacheVars, pc, got, statusVars, miners, rows, unsaved, cut, loading, subs, faults>>

-----------------------------------------------------------------------------
(* The writer task, and a restart.                                           *)

WriterTakes(kind) ==
    /\ channel # << >> /\ Head(channel).kind = kind
    /\ channel' = Tail(channel)
    /\ UNCHANGED <<tip, cacheVars, pc, got, statusVars, miners, saving, loading, subs>>

\* Mutant: the row takes the last quality.
UpsertLast(x) == With(rows, <<x.miner, x.height>>, x.quality)

\* The insertion keeps the better quality of a row that exists.
Upsert(x) ==
    LET row == <<x.miner, x.height>> IN
    With(rows, row, IF row \in DOMAIN rows /\ rows[row] <= x.quality THEN rows[row] ELSE x.quality)

SaveSubmission ==
    /\ WriterTakes("save")
    /\ rows' = Upsert(Head(channel))
    /\ UNCHANGED <<unsaved, cut, faults>>

\* The database refuses; this is only logged.
SaveFails ==
    /\ WriterTakes("save")
    /\ faults < MaxFaults /\ faults' = faults + 1
    /\ unsaved' = unsaved \union {<<Head(channel).miner, Head(channel).height>>}
    /\ UNCHANGED <<rows, cut>>

\* The rows below the cutoff go.
Expired(cutoff) == {x \in DOMAIN rows : x[2] < cutoff}

CleanUp ==
    /\ WriterTakes("cleanup")
    /\ LET cutoff == Head(channel).height - Retention IN
        /\ rows' = Restrict(rows, DOMAIN rows \ Expired(cutoff))
        /\ cut' = IF cutoff > cut THEN cutoff ELSE cut
    /\ UNCHANGED <<unsaved, faults>>

Writer == SaveSubmission \/ SaveFails \/ CleanUp

\* The rows of the last day, or none if they cannot be read.
Recent == SUBSET DOMAIN rows

\* The process dies and starts again: the database is all that is left.
Restart ==
    /\ faults < MaxFaults /\ faults' = faults + 1
    /\ cache' = [block |-> NoBlock, age |-> 0] /\ lock' = Free
    /\ pc' = [r \in Pollers |-> "idle"] /\ got' = [r \in Pollers |-> NoBlock]
    /\ height' = NoBlock /\ target' = NoBlock /\ current' = NoBlock
    /\ miners' = [k \in Miners |-> NoMiner]
    /\ saving' = [s \in Submitters |-> NoSub]
    /\ channel' = << >> /\ unsaved' = {}
    /\ loading' \in Recent
    /\ UNCHANGED <<tip, rows, cut, subs>>

\* The next row is loaded, as if it were submitted; before the last of them
\* the server takes no request.  The rows come in any order: that of their
\* timestamps, which have the resolution of a second and move when a row improves.
Load(x) ==
    /\ loading' = loading \ {x}
    /\ miners' = [miners EXCEPT ![x[1]] = Recorded(@, x[2], rows[x])]
    /\ UNCHANGED <<tip, cacheVars, pc, got, statusVars, saving, dbVars, subs, faults>>

-----------------------------------------------------------------------------
Next ==
    \/ \E h \in Heights : NewBlock(h)
    \/ Tick
    \/ \E r \in Pollers : Poll(r) \/ AnswerFails(r) \/ Handle(r)
    \/ \E s \in Submitters, k \in Miners, h \in Heights, q \in Qualities : Record(s, k, h, q)
    \/ \E s \in Submitters : QueueSave(s)
    \/ Writer
    \/ Restart
    \/ \E x \in loading : Load(x)

Spec == Init /\ [][Next]_vars

-----------------------------------------------------------------------------
(* Properties.                                                               *)

\* Tables that have a quality for some of the keys.
Tables(keys) == UNION {[S -> Qualities] : S \in SUBSET keys}
Infos == [height : Heights, best : Qualities, perBlock : Tables(Heights)] \union {NoMiner}
Saves == [kind : {"save"}, miner : Miners, height : Heights, quality : Qualities]
Cleanups == [kind : {"cleanup"}, height : Heights]

\* Type correctness of the server's state.
TypeOK ==
    /\ tip \in Heights
    /\ cache \in [block : Heights \union {NoBlock}, age : 0 .. TTL]
    /\ lock \in Pollers \union {Free}
    /\ pc \in [Pollers -> {"idle", "lock", "ask", "store", "height", "target", "current"}]
    /\ got \in [Pollers -> Heights \union {NoBlock}]
    /\ \A r \in Pollers : pc[r] \in {"store", "height", "target", "current"} => got[r] # NoBlock
    /\ {height, target, current} \subseteq Heights \union {NoBlock}
    /\ miners \in [Miners -> Infos]
    /\ saving \in [Submitters -> Saves \union {NoSub}]
    /\ channel \in Seq(Saves \union Cleanups)
    /\ rows \in Tables(Miners \X Heights)
    /\ loading \subseteq DOMAIN rows
    /\ unsaved \subseteq Miners \X Heights /\ cut \in Nat
    /\ subs \in 0 .. MaxSubs /\ faults \in 0 .. MaxFaults

\* Only one task asks the upstream at a time, and only while nothing fresh is
\* in the cache, however many miners ask: the lock "Prevents thundering herd on
\* cache miss" (pool.rs:55).  No task keeps it when it is done, even if it failed.
NoHerd == \A r \in Pollers : IF pc[r] \in {"ask", "store"} THEN lock = r /\ ~Fresh ELSE lock # r

\* The cache never goes back to an earlier block of the upstream, in whatever
\* order the tasks that fetch and store are scheduled (pool.rs:136-160).
CacheAdvances == [][cache'.block >= cache.block \/ cache'.block = NoBlock]_cache

\* What the dashboard shows as a miner's best of a block is a quality recorded
\* for that very block, not one left from another (stats.rs:273-282).
ShownIsOfItsBlock ==
    \A k \in Miners : miners[k] # NoMiner =>
        /\ miners[k].height \in DOMAIN miners[k].perBlock
        /\ miners[k].best >= miners[k].perBlock[miners[k].height]

\* The qualities the dashboard compares: of the miners at the current height.
Shown == {k \in Miners : miners[k].height = height /\ miners[k].best # NoQuality}

\* The times shown with them are those of their qualities' exact roots, and the
\* best quality has the least of them (stats.rs:440-458, time_bending.rs:29).
ShownTimesRight ==
    target # NoBlock =>
        \A k \in Shown :
            LET ratio == Ratio(miners[k].best, BaseTarget[target]) IN
            /\ IsRoot(int_cuberoot(ratio), ratio)
            /\ \A l \in Shown : miners[k].best <= miners[l].best =>
                PocTime(miners[k].best, BaseTarget[target]) <= PocTime(miners[l].best, BaseTarget[target])

OnItsWay(k, h) ==
    \/ \E s \in Submitters : saving[s] # NoSub /\ saving[s].miner = k /\ saving[s].height = h
    \/ \E i \in DOMAIN channel : channel[i].kind = "save" /\ channel[i].miner = k /\ channel[i].height = h

\* Once the writer has caught up, the database knows every quality the
\* statistics have, or a better one, unless the block was expired or the
\* database refused: a restart loses nothing else (server.rs:87, db.rs:133).
RowsKeepUp ==
    \A k \in Miners : \A h \in DOMAIN miners[k].perBlock :
        h >= cut /\ <<k, h>> \notin unsaved /\ ~OnItsWay(k, h) =>
            /\ <<k, h>> \in DOMAIN rows
            /\ rows[<<k, h>>] <= miners[k].perBlock[h]

\* The best a dashboard shows for a miner at its block is the best it submitted
\* for that block: record_submission is to "Update best for current round"
\* (stats.rs:278).
ShownIsBest ==
    \A k \in Miners : miners[k] # NoMiner => miners[k].best = miners[k].perBlock[miners[k].height]

=============================================================================
