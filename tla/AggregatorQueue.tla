--------------------------- MODULE AggregatorQueue ---------------------------
(* How the aggregator forwards nonces to its pool or wallet.                 *)
(*                                                                           *)
(* Every request of a miner is answered with success at once; a filter in    *)
(* front of a channel passes on what beats the best quality of its block so  *)
(* far, and remembers the last few blocks only.  In pool mode                *)
(* (queue/submission_queue.rs) the filter is per account, and one handler    *)
(* task for all accounts sorts out what is obsolete by its turn and repeats  *)
(* what fails; in wallet mode (queue/global_best_queue.rs) there is one      *)
(* filter, and the handler sends everything once.                            *)
EXTENDS Integers, Sequences, SequencesExt, FiniteSets, Functions

CONSTANTS
    Offers,       \* submissions the miners may make: [account, block, quality]
    Modes,        \* submission modes to consider: "pool", "wallet"
    MaxTracked,   \* blocks a filter remembers (MAX_BLOCKS)
    MaxRetries,   \* retries of a submission (MAX_RETRIES)
    MaxFaults,    \* bound: requests to the pool that fail
    MayAge        \* may a submission wait for longer than STALE_TIMEOUT?

ASSUME OffersAssumption ==
    \A x \in Offers : DOMAIN x = {"account", "block", "quality"} /\ x.quality \in Nat
ASSUME ModesAssumption == Modes \subseteq {"pool", "wallet"}
ASSUME MaxTrackedAssumption == MaxTracked \in Nat \ {0}
ASSUME MaxRetriesAssumption == MaxRetries \in Nat
ASSUME MayAgeAssumption == MayAge \in BOOLEAN

VARIABLES
    mode,      \* the handler chosen by the configuration
    offers,    \* what the miners have not submitted yet
    filter,    \* filter[k]: its blocks in order, and best quality of each
    channel,   \* tx_submit / rx_submit
    pc,        \* the handler: "top" of its loop, "wait" for a submission
    pending,   \* pending_queue: submission, retry_count, may it be stale?
    inQueue,   \* in_queue_best: the best quality of a key in pending
    hand,      \* the item whose answer the handler awaits
    settled,   \* submissions the pool has accepted or refused
    givenUp,   \* submissions dropped as stale or after too many failures
    faults     \* requests that failed so far

handlerVars == <<pc, pending, inQueue, hand>>
resultVars  == <<settled, givenUp, faults>>
vars == <<mode, offers, filter, channel, handlerVars, resultVars>>

Accounts == {x.account : x \in Offers}
Blocks   == {x.block : x \in Offers}
Keys     == Accounts \cup {"wallet"}

Empty == [k \in {} |-> 0]
Put(f, k, v) == [x \in DOMAIN f \cup {k} |-> IF x = k THEN v ELSE f[x]]
Without(f, k) == Restrict(f, DOMAIN f \ {k})
NoItem == [retries |-> -1]

Item(x) == [sub |-> x, retries |-> 0, aged |-> FALSE]

\* The filter that judges x.
FilterOf(x) == IF mode = "pool" THEN x.account ELSE "wallet"

\* The handler's key for x.
KeyOf(x) == <<x.account, x.block>>

Held == pending \o (IF hand = NoItem THEN <<>> ELSE <<hand>>)

-----------------------------------------------------------------------------
Init ==
    /\ mode \in Modes
    /\ offers = Offers
    /\ filter = [k \in Keys |-> [blocks |-> <<>>, best |-> Empty]]
    /\ channel = <<>>
    /\ pc = "top"
    /\ pending = <<>>
    /\ inQueue = Empty
    /\ hand = NoItem
    /\ settled = {} /\ givenUp = {} /\ faults = 0

\* The filter after x: the quality of a known block, or a new block, for which
\* the oldest one makes room.
Known(f, x)  == x.block \in DOMAIN f.best
Better(f, x) == x.quality < f.best[x.block]

Track(f, x) ==
    IF Known(f, x) THEN [f EXCEPT !.best[x.block] = x.quality]
    ELSE LET kept == IF Len(f.blocks) >= MaxTracked THEN Tail(f.blocks)
                                                    ELSE f.blocks
         IN  [blocks |-> Append(kept, x.block),
              best |-> Put(Restrict(f.best, ToSet(kept)), x.block, x.quality)]

\* submit: under the filter's lock the submission is forwarded or filtered out.
Submit ==
    /\ \E x \in offers :
        LET k == FilterOf(x) IN
        /\ offers' = offers \ {x}
        /\ \/ /\ Known(filter[k], x) => Better(filter[k], x)
              /\ filter' = [filter EXCEPT ![k] = Track(@, x)]
              /\ channel' = Append(channel, x)
           \/ /\ Known(filter[k], x) /\ ~Better(filter[k], x)
              /\ UNCHANGED <<filter, channel>>
    /\ UNCHANGED <<mode, handlerVars, resultVars>>

-----------------------------------------------------------------------------
(* Pool mode: the handler's loop.                                            *)

\* Time passes while the handler waits: what is in the queue may get stale.
Age(items) == [i \in DOMAIN items |-> [items[i] EXCEPT !.aged = MayAge]]

\* Mutant: a submission is compared with the whole queue, not with its key.
DrainAnyKey ==
    /\ mode = "pool" /\ pc = "top" /\ hand = NoItem /\ channel # <<>>
    /\ LET x == Head(channel)
           k == KeyOf(x)
       IN  \/ /\ \A j \in DOMAIN inQueue : x.quality < inQueue[j]
              /\ inQueue' = Put(inQueue, k, x.quality)
              /\ pending' = Append(pending, Item(x))
           \/ /\ \E j \in DOMAIN inQueue : x.quality >= inQueue[j]
              /\ UNCHANGED <<inQueue, pending>>
    /\ channel' = Tail(channel)
    /\ UNCHANGED <<mode, offers, filter, pc, hand, resultVars>>

\* The handler takes a submission from the channel and queues it, unless a
\* better one of its key is queued.
Drain ==
    /\ mode = "pool" /\ pc = "top" /\ hand = NoItem /\ channel # <<>>
    /\ LET x == Head(channel)
           k == KeyOf(x)
       IN  \/ /\ k \in DOMAIN inQueue => x.quality < inQueue[k]
              /\ inQueue' = Put(inQueue, k, x.quality)
              /\ pending' = Append(pending, Item(x))
           \/ /\ k \in DOMAIN inQueue /\ x.quality >= inQueue[k]
              /\ UNCHANGED <<inQueue, pending>>
    /\ channel' = Tail(channel)
    /\ UNCHANGED <<mode, offers, filter, pc, hand, resultVars>>

\* With the channel empty it takes the first item of its queue.
First == Head(pending)

Turn ==
    /\ mode = "pool" /\ pc = "top" /\ hand = NoItem
    /\ channel = <<>> /\ pending # <<>>
    /\ pending' = Tail(pending)

\* A better submission of the item's key is in the queue.
Obsolete(it) ==
    /\ KeyOf(it.sub) \in DOMAIN inQueue
    /\ it.sub.quality > inQueue[KeyOf(it.sub)]

DropStale ==
    /\ Turn /\ First.aged
    /\ inQueue' = Without(inQueue, KeyOf(First.sub))
    /\ givenUp' = givenUp \cup {First.sub}
    /\ UNCHANGED <<mode, offers, filter, channel, pc, hand, settled, faults>>

DropObsolete ==
    /\ Turn /\ Obsolete(First)
    /\ UNCHANGED <<mode, offers, filter, channel, pc, inQueue, hand, resultVars>>

\* Mutant: an obsolete item is sent all the same.
SendObsolete ==
    /\ Turn
    /\ hand' = First
    /\ UNCHANGED <<mode, offers, filter, channel, pc, inQueue, resultVars>>

Send ==
    /\ Turn /\ ~Obsolete(First)
    /\ hand' = First
    /\ UNCHANGED <<mode, offers, filter, channel, pc, inQueue, resultVars>>

\* The pool accepts the submission or refuses it as invalid or stale.
Settle ==
    /\ mode = "pool" /\ hand # NoItem
    /\ settled' = settled \cup {hand.sub}
    /\ inQueue' = Without(inQueue, KeyOf(hand.sub))
    /\ pending' = Age(pending)
    /\ hand' = NoItem
    /\ UNCHANGED <<mode, offers, filter, channel, pc, givenUp, faults>>

\* The pool is too busy, or the request fails in any other way: after a delay
\* the item is first in the queue again, or it is dropped for good.
Fail ==
    /\ mode = "pool" /\ hand # NoItem /\ faults < MaxFaults
    /\ faults' = faults + 1
    /\ \/ /\ hand.retries + 1 > MaxRetries
          /\ inQueue' = Without(inQueue, KeyOf(hand.sub))
          /\ givenUp' = givenUp \cup {hand.sub}
          /\ pending' = Age(pending)
       \/ /\ hand.retries + 1 <= MaxRetries
          /\ pending' = Age(<<[hand EXCEPT !.retries = @ + 1]>> \o pending)
          /\ UNCHANGED <<inQueue, givenUp>>
    /\ hand' = NoItem
    /\ UNCHANGED <<mode, offers, filter, channel, pc, settled>>

\* Nothing to do: the handler blocks on the channel.
Block ==
    /\ mode = "pool" /\ pc = "top" /\ hand = NoItem
    /\ channel = <<>> /\ pending = <<>>
    /\ pc' = "wait"
    /\ UNCHANGED <<mode, offers, filter, channel, pending, inQueue, hand, resultVars>>

\* Mutant: the handler does not go back to the top of its loop.
ReceiveStaysWaiting ==
    /\ mode = "pool" /\ pc = "wait" /\ channel # <<>>
    /\ LET x == Head(channel) IN
        /\ inQueue' = Put(inQueue, KeyOf(x), x.quality)
        /\ pending' = Append(pending, Item(x))
    /\ channel' = Tail(channel)
    /\ UNCHANGED <<mode, offers, filter, pc, hand, resultVars>>

\* The next submission is queued without a look at in_queue_best.
Receive ==
    /\ mode = "pool" /\ pc = "wait" /\ channel # <<>>
    /\ LET x == Head(channel) IN
        /\ inQueue' = Put(inQueue, KeyOf(x), x.quality)
        /\ pending' = Append(pending, Item(x))
    /\ channel' = Tail(channel)
    /\ pc' = "top"
    /\ UNCHANGED <<mode, offers, filter, hand, resultVars>>

-----------------------------------------------------------------------------
(* Wallet mode: one submission after the other, each once.                   *)

SendOnce ==
    /\ mode = "wallet" /\ hand = NoItem /\ channel # <<>>
    /\ hand' = Item(Head(channel))
    /\ channel' = Tail(channel)
    /\ UNCHANGED <<mode, offers, filter, pc, pending, inQueue, resultVars>>

AnswerOnce ==
    /\ mode = "wallet" /\ hand # NoItem
    /\ \/ /\ settled' = settled \cup {hand.sub}
          /\ UNCHANGED <<givenUp, faults>>
       \/ /\ faults < MaxFaults
          /\ faults' = faults + 1
          /\ givenUp' = givenUp \cup {hand.sub}
          /\ UNCHANGED settled
    /\ hand' = NoItem
    /\ UNCHANGED <<mode, offers, filter, channel, pc, pending, inQueue>>

-----------------------------------------------------------------------------
Handler ==
    \/ Drain \/ DropStale \/ DropObsolete \/ Send \/ Settle \/ Fail
    \/ Block \/ Receive
    \/ SendOnce \/ AnswerOnce

Next == Submit \/ Handler

Spec == Init /\ [][Next]_vars

\* The handler's task is polled again and again, and its requests end at the
\* latest with their timeout.
FairSpec == Spec /\ WF_vars(Handler)

-----------------------------------------------------------------------------
(* Properties. *)

\* Every variable keeps its type; a filter has a quality for each block of its
\* list and no other, and the list never outgrows its bound.
TypeOK ==
    /\ mode \in Modes /\ pc \in {"top", "wait"}
    /\ \A k \in Keys :
        /\ Len(filter[k].blocks) <= MaxTracked
        /\ DOMAIN filter[k].best = ToSet(filter[k].blocks)
        /\ IsInjective(filter[k].blocks)
    /\ ToSet(channel) \cup {it.sub : it \in ToSet(Held)} \subseteq Offers
    /\ \A it \in ToSet(Held) : it.retries \in 0 .. MaxRetries
    /\ DOMAIN inQueue \subseteq Accounts \X Blocks

\* The best quality is recorded before the submission is forwarded: as the
\* filter then turns away everything worse, one as good must be on its way,
\* answered, or given up for a reason the handler states in its log.
BestHeld ==
    \A k \in Keys : \A b \in DOMAIN filter[k].best :
        \E x \in ToSet(channel) \cup {it.sub : it \in ToSet(Held)}
                    \cup settled \cup givenUp :
            FilterOf(x) = k /\ x.block = b /\ x.quality <= filter[k].best[b]

\* in_queue_best speaks of submissions that are in the queue: an entry left
\* behind would make the handler drop every later one of its key.
InQueueBacked ==
    \A k \in DOMAIN inQueue :
        \E it \in ToSet(Held) : KeyOf(it.sub) = k /\ it.sub.quality = inQueue[k]

\* What is sent is the best of its key in the queue, whatever failed before.
\* Giving one up makes the handler forget the better ones behind it
\* (submission_queue.rs:218), so only of keys of which none was given up.
SendsBest ==
    (hand # NoItem /\ \A x \in givenUp : KeyOf(x) # KeyOf(hand.sub)) =>
        \A it \in ToSet(pending) :
            KeyOf(it.sub) = KeyOf(hand.sub) => hand.sub.quality <= it.sub.quality

\* The handler works off whatever the miners submitted: one account's failing
\* submission does not block the others for ever.
Drains == <>[](channel = <<>> /\ pending = <<>> /\ hand = NoItem)
=============================================================================
