----------------------------- MODULE Submission -----------------------------
(* How the miner gets the best nonces of one chain to its pool or wallet.    *)
(*                                                                           *)
(* The mining-info task replaces the chain's state when the pool names a new *)
(* block (miner.rs, update_mining_info) and tells the scheduler; the hashers *)
(* send the best nonce of every buffer; the submission task keeps those that *)
(* fit the current block and beat the best one so far; the request handler   *)
(* gives each account (in pool mode) or the whole wallet a lane of its own,  *)
(* a PrioRetry stream that yields new and better nonces at once, repeats     *)
(* failed ones after a delay and forgets the rest.                           *)
(*                                                                           *)
(* Chains share nothing here, so one chain is enough.  A block is its        *)
(* generation signature; what a scan of it can find is Nonces[sig].          *)
EXTENDS Integers, Sequences, SequencesExt, FiniteSets, FiniteSetsExt

CONSTANTS
    Sigs,         \* generation signatures of the blocks the pool may name
    Accounts,     \* accounts of the plot files
    Nonces,       \* Nonces[s]: what a scan of s finds, [account, raw] records
    BaseTarget,   \* raw quality divided by it is the adjusted quality
    Target,       \* Target[a]: the least of the account's, chain's, pool's limit
    Modes,        \* submission modes to consider: "pool", "wallet"
    MaxBlocks,    \* bound: updates of the mining info
    MaxFaults,    \* bound: submissions that fail
    MayFlip,      \* may the pool return to a block it has left?
    BusyModes,    \* modes in which the pool may answer that it is too busy
    NoBest        \* u64::MAX, the quality of an account that has found nothing

ASSUME BaseTargetAssumption == BaseTarget \in Nat \ {0}
ASSUME NoBestAssumption == NoBest \in Nat
ASSUME NoncesAssumption ==
    Nonces \in [Sigs -> SUBSET [account : Accounts, raw : 0 .. NoBest]]
ASSUME TargetAssumption == Target \in [Accounts -> 0 .. NoBest]
ASSUME AccountsAssumption == Accounts # {} /\ "wallet" \notin Accounts
ASSUME ModesAssumption == Modes \subseteq {"pool", "wallet"}
ASSUME MaxBlocksAssumption == MaxBlocks \in Nat \ {0}

VARIABLES
    mode,      \* chain_state.submission_mode
    tip,       \* chain_state: generation signature and block counter
    seen,      \* the blocks named so far
    best,      \* account_id_to_best_quality, in adjusted units
    blocks,    \* scheduler's channel: blocks to be scanned
    scan,      \* the scan under way: its block, its counter, what it has left
    found,     \* tx_nonce_data: nonces of the hashers, in any order
    demux,     \* tx_submit_data, in pool mode
    queue,     \* queue[l]: the channel lane l's PrioRetry reads
    item,      \* item[l]: PrioRetry's delayed_item, the last one yielded
    delayed,   \* delayed[l]: is item[l] waiting to be yielded again?
    sending,   \* sending[l]: the submission whose answer lane l awaits
    settled,   \* the submissions the pool has accepted or refused
    faults     \* failed submissions so far

chainVars == <<mode, tip, seen, best>>
scanVars  == <<blocks, scan, found>>
laneVars  == <<demux, queue, item, delayed, sending>>
vars == <<chainVars, scanVars, laneVars, settled, faults>>

Lanes == Accounts \cup {"wallet"}

\* No submission; Less puts it below every submission.
None == [sig |-> "none", count |-> 0]

\* Quality in the unit of the targets.
Adjusted(raw) == raw \div BaseTarget

Submissions ==
    [sig : Sigs, count : 1 .. MaxBlocks, account : Accounts, raw : 0 .. NoBest]

\* SubmissionParameters::cmp: a newer block, then a lower quality, is greater.
Less(x, y) == x.count < y.count \/ (x.count = y.count /\ y.raw < x.raw)

Lane(x) == IF mode = "pool" THEN x.account ELSE "wallet"

-----------------------------------------------------------------------------
Init ==
    /\ mode \in Modes
    /\ \E s \in Sigs :
        /\ tip = [sig |-> s, count |-> 1]
        /\ seen = {s}
        /\ blocks = <<s>>
    /\ best = [a \in Accounts |-> NoBest]
    /\ scan = [sig |-> "none", count |-> 0, left |-> {}]
    /\ found = {}
    /\ demux = <<>>
    /\ queue = [l \in Lanes |-> <<>>]
    /\ item = [l \in Lanes |-> None]
    /\ delayed = [l \in Lanes |-> FALSE]
    /\ sending = [l \in Lanes |-> None]
    /\ settled = {}
    /\ faults = 0

\* Mutant: the best qualities of the block before stay.
NewInfoKeepsBest ==
    /\ tip.count < MaxBlocks
    /\ \E s \in Sigs \ {tip.sig} :
        /\ s \in seen => MayFlip
        /\ tip' = [sig |-> s, count |-> tip.count + 1]
        /\ seen' = seen \cup {s}
        /\ blocks' = Append(blocks, s)
    /\ UNCHANGED <<mode, best, scan, found, laneVars, settled, faults>>

\* The pool names another block: the chain's state is replaced and the block
\* sent to the scheduler, under one lock.
NewInfo ==
    /\ tip.count < MaxBlocks
    /\ \E s \in Sigs \ {tip.sig} :
        /\ s \in seen => MayFlip
        /\ tip' = [sig |-> s, count |-> tip.count + 1]
        /\ seen' = seen \cup {s}
        /\ blocks' = Append(blocks, s)
    /\ best' = [a \in Accounts |-> NoBest]
    /\ UNCHANGED <<mode, scan, found, laneVars, settled, faults>>

\* The scheduler ends the scan under way and starts that of the next block.
\* The block counter is the chain's at that moment, which may be newer.
StartScan ==
    /\ blocks # <<>>
    /\ scan' = [sig |-> Head(blocks), count |-> tip.count,
                left |-> Nonces[Head(blocks)]]
    /\ blocks' = Tail(blocks)
    /\ UNCHANGED <<chainVars, found, laneVars, settled, faults>>

\* A hasher sends the best nonce of a buffer.
Find ==
    /\ \E n \in scan.left :
        /\ found' = found \cup {[sig |-> scan.sig, count |-> scan.count,
                                 account |-> n.account, raw |-> n.raw]}
        /\ scan' = [scan EXCEPT !.left = @ \ {n}]
    /\ UNCHANGED <<chainVars, blocks, laneVars, settled, faults>>

\* The best quality x has to beat: the account's, or in wallet mode anyone's.
BestFor(x) ==
    IF mode = "wallet" THEN Min({best[a] : a \in Accounts}) ELSE best[x.account]

Worth(x) ==
    /\ x.sig = tip.sig
    /\ Adjusted(x.raw) < BestFor(x)
    /\ Adjusted(x.raw) < Target[x.account]

\* RequestHandler::submit_nonce
HandOver(x) ==
    IF mode = "wallet"
    THEN /\ queue' = [queue EXCEPT !["wallet"] = Append(@, x)]
         /\ UNCHANGED demux
    ELSE /\ demux' = Append(demux, x)
         /\ UNCHANGED queue

\* The submission task takes a nonce and keeps or forgets it.
Filter ==
    /\ \E x \in found :
        /\ found' = found \ {x}
        /\ \/ /\ Worth(x)
              /\ best' = [best EXCEPT ![x.account] = Adjusted(x.raw)]
              /\ HandOver(x)
           \/ /\ ~Worth(x)
              /\ UNCHANGED <<best, demux, queue>>
    /\ UNCHANGED <<mode, tip, seen, blocks, scan, item, delayed, sending,
                   settled, faults>>

\* Pool mode: the demultiplexer passes a submission to its account's lane.
Route ==
    /\ demux # <<>>
    /\ queue' = [queue EXCEPT ![Lane(Head(demux))] = Append(@, Head(demux))]
    /\ demux' = Tail(demux)
    /\ UNCHANGED <<chainVars, scanVars, item, delayed, sending, settled, faults>>

-----------------------------------------------------------------------------
(* PrioRetry and the handler of a lane.  The stream is polled only while the *)
(* handler does not wait for an answer.                                      *)

Free(l) == sending[l] = None

\* Lane l yields x, without touching its delayed_item otherwise.
Yield(l, x) == sending' = [sending EXCEPT ![l] = x]

\* Mutant: an older or worse submission is yielded as well.
PollAny(l) ==
    /\ Free(l) /\ queue[l] # <<>>
    /\ queue' = [queue EXCEPT ![l] = Tail(@)]
    /\ LET x == Head(queue[l]) IN
        /\ item' = [item EXCEPT ![l] = x]
        /\ delayed' = [delayed EXCEPT ![l] = FALSE]
        /\ Yield(l, x)
    /\ UNCHANGED <<chainVars, scanVars, demux, settled, faults>>

\* Mutant: a submission that comes back is forgotten.
PollNoRetry(l) ==
    /\ Free(l) /\ queue[l] # <<>>
    /\ queue' = [queue EXCEPT ![l] = Tail(@)]
    /\ LET x == Head(queue[l]) IN
        \/ /\ Less(item[l], x)
           /\ item' = [item EXCEPT ![l] = x]
           /\ delayed' = [delayed EXCEPT ![l] = FALSE]
           /\ Yield(l, x)
        \/ /\ ~Less(item[l], x)
           /\ UNCHANGED <<item, delayed, sending>>
    /\ UNCHANGED <<chainVars, scanVars, demux, settled, faults>>

\* The stream takes the next submission: a greater one replaces the item and
\* is yielded at once, an equal one is the item coming back and has the item
\* wait, a lesser one is dropped.
Poll(l) ==
    /\ Free(l) /\ queue[l] # <<>>
    /\ queue' = [queue EXCEPT ![l] = Tail(@)]
    /\ LET x == Head(queue[l]) IN
        \/ /\ Less(item[l], x)
           /\ item' = [item EXCEPT ![l] = x]
           /\ delayed' = [delayed EXCEPT ![l] = FALSE]
           /\ Yield(l, x)
        \/ /\ ~Less(item[l], x) /\ ~Less(x, item[l])
           /\ delayed' = [delayed EXCEPT ![l] = TRUE]
           /\ UNCHANGED <<item, sending>>
        \/ /\ Less(x, item[l])
           /\ UNCHANGED <<item, delayed, sending>>
    /\ UNCHANGED <<chainVars, scanVars, demux, settled, faults>>

\* Nothing new, and the delay of the item is over: it is yielded again.
DelayEnds(l) ==
    /\ Free(l) /\ queue[l] = <<>> /\ delayed[l]
    /\ delayed' = [delayed EXCEPT ![l] = FALSE]
    /\ Yield(l, item[l])
    /\ UNCHANGED <<chainVars, scanVars, demux, queue, item, settled, faults>>

\* The pool accepts the submission, or refuses it for good.
Settle(l) ==
    /\ ~Free(l)
    /\ settled' = settled \cup {sending[l]}
    /\ Yield(l, None)
    /\ UNCHANGED <<chainVars, scanVars, demux, queue, item, delayed, faults>>

\* Mutant: a failed submission is forgotten.
RequeueNever(l) == queue' = queue

\* The handler gives the submission back to its lane.  In wallet mode it does
\* not.
Requeue(l) ==
    queue' = IF mode = "pool" THEN [queue EXCEPT ![l] = Append(@, sending[l])]
                              ELSE queue

\* The request fails on the way (FetchError::Http), a timeout included.
Unreachable(l) ==
    /\ ~Free(l) /\ faults < MaxFaults
    /\ faults' = faults + 1
    /\ Requeue(l)
    /\ Yield(l, None)
    /\ UNCHANGED <<chainVars, scanVars, demux, item, delayed, settled>>

\* The text of the error a busy pool's answer becomes: the client makes
\* RATE_LIMITED a ProtocolError::RateLimited, whose text is fixed, and puts a
\* prefix before the pool's own text in every other case.
BusyMessages == {"Rate limited", "Internal error: limit exceeded",
                 "Other error: HTTP error: 503 Service Unavailable"}

\* The texts for which the handler tries again.
RetryMessages == {"", "limit exceeded"}

\* The pool answers that it has too much to do (FetchError::Pool).
Busy(l) ==
    /\ ~Free(l) /\ mode \in BusyModes /\ faults < MaxFaults
    /\ faults' = faults + 1
    /\ \E m \in BusyMessages :
        \/ m \in RetryMessages /\ Requeue(l)
        \/ m \notin RetryMessages /\ UNCHANGED queue
    /\ Yield(l, None)
    /\ UNCHANGED <<chainVars, scanVars, demux, item, delayed, settled>>

-----------------------------------------------------------------------------
Answer(l) == Settle(l) \/ Unreachable(l) \/ Busy(l)

Quiet ==
    /\ tip.count = MaxBlocks /\ blocks = <<>> /\ scan.left = {} /\ found = {}
    /\ demux = <<>>
    /\ \A l \in Lanes : Free(l) /\ queue[l] = <<>> /\ ~delayed[l]
    /\ UNCHANGED vars

Next ==
    \/ NewInfo \/ StartScan \/ Find \/ Filter \/ Route
    \/ \E l \in Lanes : Poll(l) \/ DelayEnds(l) \/ Answer(l)
    \/ Quiet

Spec == Init /\ [][Next]_vars

\* Tasks of the runtime are polled again and again, timers fire, and a request
\* ends at the latest with its timeout.
Fairness ==
    /\ WF_vars(StartScan) /\ WF_vars(Find) /\ WF_vars(Filter) /\ WF_vars(Route)
    /\ \A l \in Lanes :
        WF_vars(Poll(l)) /\ WF_vars(DelayEnds(l)) /\ WF_vars(Answer(l))

FairSpec == Spec /\ Fairness

-----------------------------------------------------------------------------
(* Properties. *)

\* Every variable keeps its type; a lane holds its own submissions only, and
\* repeats or awaits none but its item.
TypeOK ==
    /\ mode \in Modes
    /\ tip \in [sig : Sigs, count : 1 .. MaxBlocks]
    /\ seen \subseteq Sigs
    /\ best \in [Accounts -> 0 .. NoBest]
    /\ blocks \in Seq(Sigs)
    /\ scan \in [sig : Sigs \cup {"none"}, count : 0 .. MaxBlocks,
                 left : SUBSET [account : Accounts, raw : 0 .. NoBest]]
    /\ scan.left # {} => /\ scan.sig \in Sigs /\ scan.count \in 1 .. MaxBlocks
                         /\ scan.left \subseteq Nonces[scan.sig]
    /\ found \subseteq Submissions
    /\ demux \in Seq(Submissions)
    /\ queue \in [Lanes -> Seq(Submissions)]
    /\ item \in [Lanes -> Submissions \cup {None}]
    /\ delayed \in [Lanes -> BOOLEAN]
    /\ sending \in [Lanes -> Submissions \cup {None}]
    /\ \A l \in Lanes :
        /\ \A x \in ToSet(queue[l]) \cup ({item[l]} \ {None}) : Lane(x) = l
        /\ sending[l] \in {None, item[l]}
        /\ delayed[l] => item[l] # None
    /\ settled \subseteq Submissions
    /\ faults \in Nat

\* What is on its way to the pool, or has been answered.
Underway ==
    settled
        \cup ToSet(demux)
        \cup (UNION {ToSet(queue[l]) : l \in Lanes})
        \cup ({sending[l] : l \in Lanes} \ {None})
        \cup {item[l] : l \in {k \in Lanes : delayed[k]}}

\* x is a submission of account a for the current block that is as good as the
\* best recorded one.
IsBest(x, a) ==
    x.sig = tip.sig /\ x.account = a /\ Adjusted(x.raw) <= best[a]

\* The best nonce of an account is recorded before it is handed over
\* (miner.rs:1144): no later nonce will do, so it must not get lost on the
\* way, neither between the queues nor by a failed request.  A wallet's
\* submissions are not repeated, so there only when no request has failed.
BestNotLost ==
    (mode = "pool" \/ faults = 0) =>
        \A a \in Accounts : best[a] # NoBest =>
            \E x \in Underway : IsBest(x, a)

\* When everything found has been looked at, each account's best (in wallet
\* mode that of all accounts) is the best the block's scan has found, among
\* those below the target.
Wanted(a) ==
    {Adjusted(n.raw) : n \in
        {m \in Nonces[tip.sig] : m.account = a /\ Adjusted(m.raw) < Target[a]}}

FindsBest ==
    (blocks = <<>> /\ scan.left = {} /\ found = {}) =>
        IF mode = "pool"
        THEN \A a \in Accounts : best[a] = Min(Wanted(a) \cup {NoBest})
        ELSE Min({best[a] : a \in Accounts}) =
                Min((UNION {Wanted(a) : a \in Accounts}) \cup {NoBest})

\* A lane never sends a submission after a newer or better one, in whatever
\* order submissions and returning ones reach it (prio_retry.rs).
NeverWorse ==
    [][\A l \in Lanes :
        sending'[l] # None => ~Less(sending'[l], item[l])]_vars

\* In pool mode, once the pool names no further block, the best nonce of every
\* account is answered for good, whatever failed on the way.
Delivered ==
    <>[](mode = "pool" =>
            \A a \in Accounts : best[a] # NoBest =>
                \E x \in settled : IsBest(x, a))

\* "If pool sends empty message or "limit exceeded", they are experiencing too
\* much load - retry later" (request.rs:197): a submission a busy pool did not
\* take goes back to its lane.
BusyIsRetried ==
    [][\A a \in Accounts :
        (mode = "pool" /\ Busy(a)) => sending[a] \in ToSet(queue'[a])]_vars
=============================================================================
