----------------------------- MODULE TimeEntries -----------------------------
(***************************************************************************)
(* The hash chain of one employee's time entries and the calls that append *)
(* to it:                                                                  *)
(*   lib/effect/services/time-entry.service.ts                             *)
(*   lib/effect/services/break-enforcement.service.ts                      *)
(*   lib/time-tracking/blockchain.ts                                       *)
(*   app/[locale]/(app)/time-tracking/actions/entry-helpers.ts             *)
(*   app/[locale]/(app)/time-tracking/actions/{clocking,corrections}.ts    *)
(*   app/api/time-entries/**/route.ts, lib/teams/commands/clock-{in,out}.ts *)
(*                                                                         *)
(* Every call reads the entry with the greatest createdAt and inserts one  *)
(* that holds its hash.  What differs is what surrounds the two statements *)
(* (the lane).  createdAt is defaultNow(), the time a transaction BEGAN,   *)
(* not the time it inserted.  An entry is known by its position in the     *)
(* order of commits, a hash by the entry it belongs to.                    *)
(***************************************************************************)
EXTENDS Integers, Sequences

CONSTANTS
    Appender,    \* server calls that append at a time
    MaxTime      \* bound: timestamps after which no call begins

ASSUME MaxTimeAssumption == MaxTime \in Nat

VARIABLES
    entries,     \* the committed rows, in commit order
    chainClock,  \* timestamps handed out so far
    append,      \* append[a]: how far the call a is and what it has read
    disturbed    \* history: calls met in a way the chain does not survive

chainVars == <<entries, chainClock, append, disturbed>>

(***************************************************************************)
(* "plain":  the web actions, breaks put in afterwards and the bots, which *)
(*           read outside the transaction they insert in                   *)
(* "single": one entry in a transaction (clock-out of the app)             *)
(* "pair":   two entries in a transaction (break, correction, deletion)    *)
(* "locked": the API routes, a transaction that takes an advisory lock     *)
(***************************************************************************)
Lane == {"plain", "single", "pair", "locked"}

Resting == [step |-> "idle"]

\* The first entry of a pair, which has no position before the commit.
Own == -1

\* at: the createdAt its rows get (0: that of their own statement); prev, second: the
\* predecessors its entries were given.
Appending == [step : {"begun", "locked", "read", "paired"}, lane : Lane, at : Nat,
              prev : Nat, second : Nat \cup {Own}]

Entry == [prev : Nat, at : Nat]

Active(a) == append[a].step # "idle"
HoldsLock(a) == Active(a) /\ append[a].lane = "locked" /\ append[a].step # "begun"

ChainInit ==
    /\ entries = <<>> /\ chainClock = 0
    /\ append = [a \in Appender |-> Resting]
    /\ disturbed = FALSE

\* ORDER BY created_at DESC LIMIT 1: any of the newest, or none.
Newest ==
    IF entries = <<>> THEN {0}
    ELSE {i \in DOMAIN entries : \A j \in DOMAIN entries : entries[j].at <= entries[i].at}

-----------------------------------------------------------------------------
\* Two calls disturb each other unless both wait for the lock.
Overlaps(a, lane) ==
    \E b \in Appender \ {a} : Active(b) /\ ~(lane = "locked" /\ append[b].lane = "locked")

BeginEntry(a, lane) ==
    /\ ~Active(a) /\ chainClock < MaxTime
    /\ chainClock' = chainClock + 1
    /\ append' = [append EXCEPT ![a] = [step |-> "begun", lane |-> lane, prev |-> 0, second |-> 0,
                                        at |-> IF lane = "plain" THEN 0 ELSE chainClock + 1]]
    /\ disturbed' = (disturbed \/ Overlaps(a, lane))
    /\ UNCHANGED entries

\* pg_advisory_xact_lock.  A transaction that began earlier may get it later: its rows
\* will be older than the newest.
TakeLock(a) ==
    /\ append[a].step = "begun" /\ append[a].lane = "locked"
    /\ \A b \in Appender : ~HoldsLock(b)
    /\ append' = [append EXCEPT ![a].step = "locked"]
    /\ disturbed' = (disturbed \/ \E i \in DOMAIN entries : entries[i].at > append[a].at)
    /\ UNCHANGED <<entries, chainClock>>

\* Variant: the API route reads before it waits for the lock.
MayReadUnlocked(a) == append[a].step = "begun" \/ append[a].step = "locked"

MayRead(a) ==
    \/ append[a].step = "begun" /\ append[a].lane # "locked"
    \/ append[a].step = "locked"

ReadNewest(a) ==
    /\ MayRead(a)
    /\ \E i \in Newest : append' = [append EXCEPT ![a].step = "read", ![a].prev = i]
    /\ disturbed' = (disturbed \/ \E i, j \in Newest : i # j)
    /\ UNCHANGED <<entries, chainClock>>

\* The first entry of a pair is inserted, the second reads the newest again and sees it.
ReadNewestAgain(a) ==
    /\ append[a].step = "read" /\ append[a].lane = "pair"
    /\ \E i \in IF \E j \in DOMAIN entries : entries[j].at > append[a].at THEN Newest ELSE {Own} :
          append' = [append EXCEPT ![a].step = "paired", ![a].second = i]
    /\ UNCHANGED <<entries, chainClock, disturbed>>

InsertEntry(a) ==
    /\ append[a].step = "read" /\ append[a].lane = "plain"
    /\ chainClock' = chainClock + 1
    /\ entries' = Append(entries, [prev |-> append[a].prev, at |-> chainClock + 1])
    /\ append' = [append EXCEPT ![a] = Resting]
    /\ UNCHANGED disturbed

CommitEntry(a) ==
    /\ append[a].step = "read" /\ append[a].lane \in {"single", "locked"}
    /\ entries' = Append(entries, [prev |-> append[a].prev, at |-> append[a].at])
    /\ append' = [append EXCEPT ![a] = Resting]
    /\ UNCHANGED <<chainClock, disturbed>>

CommitPair(a) ==
    /\ append[a].step = "paired"
    /\ entries' = entries \o
          << [prev |-> append[a].prev, at |-> append[a].at],
             [prev |-> IF append[a].second = Own THEN Len(entries) + 1 ELSE append[a].second,
              at |-> append[a].at] >>
    /\ append' = [append EXCEPT ![a] = Resting]
    /\ UNCHANGED <<chainClock, disturbed>>

\* The call fails or its process dies: a transaction leaves nothing behind.
GiveUp(a) ==
    /\ Active(a)
    /\ append' = [append EXCEPT ![a] = Resting]
    /\ UNCHANGED <<entries, chainClock, disturbed>>

-----------------------------------------------------------------------------
ChainNext ==
    \E a \in Appender :
        \/ \E lane \in Lane : BeginEntry(a, lane)
        \/ TakeLock(a)
        \/ ReadNewest(a)
        \/ ReadNewestAgain(a)
        \/ InsertEntry(a)
        \/ CommitEntry(a)
        \/ CommitPair(a)
        \/ GiveUp(a)

ChainSpec == ChainInit /\ [][ChainNext]_chainVars

-----------------------------------------------------------------------------
(***************************************************************************)
(* Properties.                                                             *)
(***************************************************************************)

\* Every variable has the type its column or value has.
ChainTypeOK ==
    /\ entries \in Seq(Entry) /\ chainClock \in Nat
    /\ append \in [Appender -> {Resting} \cup Appending]
    /\ disturbed \in BOOLEAN

\* "Ensures ... all links are valid" (validateChain): some order of creation is a
\* chain from the first entry on.
ChainValidates ==
    \A i \in DOMAIN entries :
        /\ entries[i].prev = i - 1
        /\ i > 1 => entries[i - 1].at <= entries[i].at

\* Calls that come one after the other, or queue for the advisory lock in the order
\* they began in, keep the chain whole as long as nothing reads right after a pair.
UndisturbedChainValidates == ~disturbed => ChainValidates
=============================================================================
