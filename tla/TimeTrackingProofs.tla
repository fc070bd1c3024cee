-------------------------- MODULE TimeTrackingProofs --------------------------
(***************************************************************************)
(* What holds of the hash chain of the time entries for any number of calls *)
(* and timestamps, and of an employee's periods, entries and corrections   *)
(* for any number of calls at a time and in all, however they overlap or   *)
(* die.                                                                    *)
(***************************************************************************)
EXTENDS TimeEntries, TimeClock, SequenceTheorems, FiniteSetTheorems, TLAPS

-----------------------------------------------------------------------------
(***************************************************************************)
(* The hash chain: the chain of undisturbed calls is whole.                *)
(***************************************************************************)


-----------------------------------------------------------------------------
(***************************************************************************)
(* The inductive invariant.                                                *)
(***************************************************************************)

\* The chain is whole, sorted, and not from the future.
Sorted ==
    /\ \A i \in DOMAIN entries : entries[i].prev = i - 1 /\ entries[i].at <= chainClock
    /\ \A i, j \in DOMAIN entries : i <= j => entries[i].at <= entries[j].at

\* Calls overlap only in the queue for the lock, which one of them holds.
Apart ==
    /\ \A a, b \in Appender : Active(a) /\ Active(b) /\ a # b =>
          append[a].lane = "locked" /\ append[b].lane = "locked"
    /\ \A a, b \in Appender : HoldsLock(a) /\ HoldsLock(b) => a = b

\* What a call has read is the end of the chain, and its rows will be the newest.
Current(a) ==
    /\ append[a].at <= chainClock
    /\ append[a].step = "locked" => append[a].lane = "locked"
    /\ append[a].lane \in {"single", "pair"} \/ HoldsLock(a) =>
          \A i \in DOMAIN entries : entries[i].at <= append[a].at
    /\ append[a].step \in {"read", "paired"} => append[a].prev = Len(entries)
    /\ append[a].step = "paired" => append[a].lane = "pair" /\ append[a].second = Own

Undisturbed == Sorted /\ Apart /\ \A a \in Appender : Active(a) => Current(a)

ChainInv == ChainTypeOK /\ (~disturbed => Undisturbed)

-----------------------------------------------------------------------------
\* A call of one of its lanes ends without a trace in the others.
LEMMA RestingUntouched ==
    ASSUME ChainInv, ~disturbed, NEW a \in Appender, append' = [append EXCEPT ![a] = Resting],
           UNCHANGED <<entries, chainClock>>
    PROVE  Undisturbed'
<1> USE DEF ChainInv, Undisturbed
<1>1. \A b \in Appender : append'[b] = IF b = a THEN Resting ELSE append[b]
  BY DEF ChainTypeOK
<1>2. \A b \in Appender : Active(b)' => b # a /\ Active(b) /\ append'[b] = append[b]
  BY <1>1 DEF Active, Resting
<1>3. \A b \in Appender : HoldsLock(b)' => b # a /\ HoldsLock(b)
  BY <1>1, <1>2 DEF HoldsLock
<1>4. Sorted'
  BY DEF Sorted
<1>5. Apart'
  BY <1>2, <1>3 DEF Apart
<1>6. ASSUME NEW b \in Appender, Active(b)' PROVE Current(b)'
  BY <1>2, <1>3, <1>6 DEF Current
<1>7. QED
  BY <1>4, <1>5, <1>6

\* Without a tie the newest entry is the last one.
LEMMA NewestIsLast ==
    ASSUME ChainTypeOK, Sorted, \A i, j \in Newest : i = j
    PROVE  Newest = {Len(entries)}
<1>1. CASE entries = <<>>
  BY <1>1 DEF Newest
<1>2. CASE entries # <<>>
  <2>1. Len(entries) \in DOMAIN entries /\ \A j \in DOMAIN entries : j <= Len(entries)
    BY <1>2 DEF ChainTypeOK
  <2>2. Len(entries) \in Newest
    BY <1>2, <2>1 DEF Newest, Sorted
  <2>3. QED
    BY <2>2
<1>3. QED
  BY <1>1, <1>2

\* The newest entries exist, unless there is none.
LEMMA NewestTyped == ASSUME ChainTypeOK PROVE Newest \subseteq Nat
<1>1. DOMAIN entries \subseteq Nat
  BY DEF ChainTypeOK
<1>2. QED
  BY <1>1 DEF Newest

-----------------------------------------------------------------------------
(***************************************************************************)
(* Type correctness.                                                       *)
(***************************************************************************)

\* A call that is under way has a lane.
LEMMA ActiveTyped ==
    ASSUME ChainTypeOK, NEW a \in Appender, append[a].step # "idle"
    PROVE  append[a] \in Appending
BY DEF ChainTypeOK, Resting

\* The fields of the rows are numbers.
LEMMA EntriesTyped ==
    ASSUME ChainTypeOK
    PROVE  \A i \in DOMAIN entries : entries[i].at \in Nat /\ entries[i].prev \in Nat
<1>1. \A i \in DOMAIN entries : entries[i] \in Entry
  BY DEF ChainTypeOK
<1>2. QED
  BY <1>1 DEF Entry

\* The rows a call inserts are entries.
LEMMA AppendTyped ==
    ASSUME ChainTypeOK, NEW a \in Appender, append[a] \in Appending
    PROVE  /\ InsertEntry(a) \/ CommitEntry(a) => entries' \in Seq(Entry)
           /\ CommitPair(a) => entries' \in Seq(Entry)
<1>1. entries \in Seq(Entry) /\ chainClock + 1 \in Nat
  BY DEF ChainTypeOK
<1>2. append[a].prev \in Nat /\ append[a].at \in Nat /\ append[a].second \in Nat \cup {Own}
  BY DEF Appending
<1>3. Len(entries) + 1 \in Nat
  BY <1>1
<1>4. InsertEntry(a) \/ CommitEntry(a) => entries' \in Seq(Entry)
  <2>1. \A e \in Entry : Append(entries, e) \in Seq(Entry)
    BY <1>1
  <2>2. \A at \in Nat : [prev |-> append[a].prev, at |-> at] \in Entry
    BY <1>2 DEF Entry
  <2>3. QED
    BY <1>1, <1>2, <2>1, <2>2 DEF InsertEntry, CommitEntry
<1>5. ASSUME CommitPair(a) PROVE entries' \in Seq(Entry)
  <2> DEFINE first == [prev |-> append[a].prev, at |-> append[a].at]
             next == [prev |-> IF append[a].second = Own THEN Len(entries) + 1 ELSE append[a].second,
                      at |-> append[a].at]
  <2>1. first \in Entry /\ next \in Entry
    BY <1>2, <1>3 DEF Entry
  <2>2. <<first, next>> \in Seq(Entry)
    BY <2>1
  <2>3. entries' = entries \o <<first, next>>
    BY <1>5 DEF CommitPair
  <2>4. QED
    BY <1>1, <2>2, <2>3
<1>6. QED
  BY <1>4, <1>5

\* Every step keeps the types.
LEMMA ChainTypeStep == ASSUME ChainTypeOK, [ChainNext]_chainVars PROVE ChainTypeOK'
<1>1. CASE UNCHANGED chainVars
  BY <1>1 DEF ChainTypeOK, chainVars
<1>2. ASSUME NEW a \in Appender, NEW lane \in Lane, BeginEntry(a, lane) PROVE ChainTypeOK'
  <2>1. chainClock + 1 \in Nat /\ chainClock' = chainClock + 1
    BY <1>2 DEF BeginEntry, ChainTypeOK
  <2>2. [step |-> "begun", lane |-> lane, prev |-> 0, second |-> 0,
         at |-> IF lane = "plain" THEN 0 ELSE chainClock + 1] \in Appending
    BY <2>1 DEF Appending
  <2>3. disturbed' \in BOOLEAN
    BY <1>2 DEF BeginEntry
  <2>4. QED
    BY <1>2, <2>1, <2>2, <2>3 DEF BeginEntry, ChainTypeOK
<1>3. ASSUME NEW a \in Appender, TakeLock(a) PROVE ChainTypeOK'
  <2>1. [append[a] EXCEPT !.step = "locked"] \in Appending
    BY <1>3, ActiveTyped DEF TakeLock, Appending
  <2>2. append' = [append EXCEPT ![a] = [append[a] EXCEPT !.step = "locked"]]
    BY <1>3 DEF TakeLock
  <2>3. disturbed' \in BOOLEAN
    BY <1>3 DEF TakeLock
  <2>4. QED
    BY <1>3, <2>1, <2>2, <2>3 DEF TakeLock, ChainTypeOK
<1>4. ASSUME NEW a \in Appender, ReadNewest(a) PROVE ChainTypeOK'
  <2>1. PICK i \in Newest : append' = [append EXCEPT ![a].step = "read", ![a].prev = i]
    BY <1>4 DEF ReadNewest
  <2>2. append[a] \in Appending
    BY <1>4, ActiveTyped DEF ReadNewest, MayRead
  <2>3. [append[a] EXCEPT !.step = "read", !.prev = i] \in Appending
    BY <2>2, NewestTyped DEF Appending
  <2>4. append' = [append EXCEPT ![a] = [append[a] EXCEPT !.step = "read", !.prev = i]]
    BY <2>1
  <2>5. disturbed' \in BOOLEAN
    BY <1>4 DEF ReadNewest
  <2>6. QED
    BY <1>4, <2>3, <2>4, <2>5 DEF ReadNewest, ChainTypeOK
<1>5. ASSUME NEW a \in Appender, ReadNewestAgain(a) PROVE ChainTypeOK'
  <2>1. PICK i \in Newest \cup {Own} :
            append' = [append EXCEPT ![a].step = "paired", ![a].second = i]
    BY <1>5 DEF ReadNewestAgain
  <2>2. append[a] \in Appending
    BY <1>5, ActiveTyped DEF ReadNewestAgain
  <2>3. [append[a] EXCEPT !.step = "paired", !.second = i] \in Appending
    BY <2>2, NewestTyped DEF Appending
  <2>4. append' = [append EXCEPT ![a] = [append[a] EXCEPT !.step = "paired", !.second = i]]
    BY <2>1
  <2>5. QED
    BY <1>5, <2>3, <2>4 DEF ReadNewestAgain, ChainTypeOK
<1>6. ASSUME NEW a \in Appender, InsertEntry(a) \/ CommitEntry(a) \/ CommitPair(a)
      PROVE  ChainTypeOK'
  <2>1. append[a] \in Appending
    BY <1>6, ActiveTyped DEF InsertEntry, CommitEntry, CommitPair
  <2>2. entries' \in Seq(Entry)
    BY <1>6, <2>1, AppendTyped
  <2>3. append' = [append EXCEPT ![a] = Resting] /\ disturbed' = disturbed
    BY <1>6 DEF InsertEntry, CommitEntry, CommitPair
  <2>4. chainClock' \in Nat
    BY <1>6 DEF InsertEntry, CommitEntry, CommitPair, ChainTypeOK
  <2>5. QED
    BY <2>2, <2>3, <2>4 DEF ChainTypeOK
<1>7. ASSUME NEW a \in Appender, GiveUp(a) PROVE ChainTypeOK'
  BY <1>7 DEF GiveUp, ChainTypeOK
<1>8. QED
  BY <1>1, <1>2, <1>3, <1>4, <1>5, <1>6, <1>7 DEF ChainNext

\* At the start every variable has its type.
LEMMA ChainStartTyped == ASSUME ChainInit PROVE ChainTypeOK
<1>1. entries \in Seq(Entry)
  BY DEF ChainInit
<1>2. append \in [Appender -> {Resting} \cup Appending]
  BY DEF ChainInit
<1>3. QED
  BY <1>1, <1>2 DEF ChainInit, ChainTypeOK

\* Every variable keeps its type, whatever the number of calls and timestamps.
THEOREM ChainTypeCorrect == ChainSpec => []ChainTypeOK
BY ChainStartTyped, ChainTypeStep, PTL DEF ChainSpec

-----------------------------------------------------------------------------
(***************************************************************************)
(* A step that does not disturb keeps the chain whole.                     *)
(***************************************************************************)

\* Only the step of one call changes: the others see what they saw.
LEMMA OthersUntouched ==
    ASSUME ChainInv, ~disturbed, NEW a \in Appender, NEW c \in Appending,
           append' = [append EXCEPT ![a] = c],
           UNCHANGED entries, chainClock' \in Nat, chainClock <= chainClock',
           \A b \in Appender \ {a} : Active(b) => append[b].lane = "locked" /\ c.lane = "locked",
           c.step # "begun" /\ c.lane = "locked" => \A b \in Appender \ {a} : ~HoldsLock(b),
           Current(a)'
    PROVE  Undisturbed'
<1> USE DEF ChainInv, Undisturbed
<1>1. \A b \in Appender : append'[b] = IF b = a THEN c ELSE append[b]
  BY DEF ChainTypeOK
<1>2. \A b \in Appender \ {a} : (Active(b)' <=> Active(b)) /\ (HoldsLock(b)' <=> HoldsLock(b))
  BY <1>1 DEF Active, HoldsLock
<1>3. Sorted'
  <2>1. \A i \in DOMAIN entries : entries[i].at \in Nat
    BY EntriesTyped
  <2>2. QED
    BY <2>1 DEF Sorted, ChainTypeOK
<1>4. Apart'
  <2>1. \A b, d \in Appender : Active(b)' /\ Active(d)' /\ b # d =>
            append'[b].lane = "locked" /\ append'[d].lane = "locked"
    BY <1>1, <1>2 DEF Apart
  <2>2. \A b, d \in Appender : HoldsLock(b)' /\ HoldsLock(d)' => b = d
    BY <1>1, <1>2 DEF Apart, HoldsLock
  <2>3. QED
    BY <2>1, <2>2 DEF Apart
<1>5. ASSUME NEW b \in Appender \ {a}, Active(b)' PROVE Current(b)'
  <2>1. append[b].at \in Nat
    BY <1>2, <1>5, ActiveTyped DEF Active, Appending
  <2>2. QED
    BY <1>1, <1>2, <1>5, <2>1 DEF Current, ChainTypeOK
<1>6. QED
  BY <1>3, <1>4, <1>5

\* A call that begins has read nothing yet, and holds the lock only when nobody does.
LEMMA BeginStep ==
    ASSUME ChainInv, ~disturbed', NEW a \in Appender, NEW lane \in Lane, BeginEntry(a, lane)
    PROVE  Undisturbed'
<1> DEFINE c == [step |-> "begun", lane |-> lane, prev |-> 0, second |-> 0,
                 at |-> IF lane = "plain" THEN 0 ELSE chainClock + 1]
<1>1. ~disturbed /\ ~Overlaps(a, lane)
  BY DEF BeginEntry
<1>2. chainClock \in Nat /\ chainClock' = chainClock + 1
  BY DEF BeginEntry, ChainInv, ChainTypeOK
<1>3. c \in Appending
  BY <1>2 DEF Appending
<1>4. append' = [append EXCEPT ![a] = c] /\ append'[a] = c
  BY DEF BeginEntry, ChainInv, ChainTypeOK
<1>5. \A b \in Appender \ {a} : Active(b) => append[b].lane = "locked" /\ lane = "locked"
  BY <1>1 DEF Overlaps
<1>6. \A i \in DOMAIN entries : entries[i].at \in Nat /\ entries[i].at <= chainClock
  BY <1>1, EntriesTyped DEF ChainInv, Undisturbed, Sorted
<1>7. Current(a)'
  BY <1>2, <1>4, <1>6 DEF Current, HoldsLock, BeginEntry, Lane
<1>8. UNCHANGED entries
  BY DEF BeginEntry
<1> HIDE DEF c
<1>9. c.step = "begun" /\ \A b \in Appender \ {a} : Active(b) =>
          append[b].lane = "locked" /\ c.lane = "locked"
  BY <1>5 DEF c
<1>10. chainClock' \in Nat /\ chainClock <= chainClock'
  BY <1>2
<1>11. QED
  BY <1>1, <1>3, <1>4, <1>7, <1>8, <1>9, <1>10, OthersUntouched

\* Taking the advisory lock keeps the order and what the others have read.
LEMMA LockStep ==
    ASSUME ChainInv, ~disturbed', NEW a \in Appender, TakeLock(a)
    PROVE  Undisturbed'
<1> DEFINE c == [append[a] EXCEPT !.step = "locked"]
<1>1. ~disturbed /\ \A i \in DOMAIN entries : ~(entries[i].at > append[a].at)
  BY DEF TakeLock
<1>2. append[a] \in Appending
  BY ActiveTyped DEF TakeLock, ChainInv
<1>3. c \in Appending /\ c.lane = "locked" /\ c.step = "locked" /\ c.at = append[a].at
  BY <1>2 DEF Appending, TakeLock
<1>4. append' = [append EXCEPT ![a] = c] /\ append'[a] = c
  BY DEF TakeLock, ChainInv, ChainTypeOK
<1>5. \A b \in Appender \ {a} : Active(b) => append[b].lane = "locked"
  BY <1>1 DEF ChainInv, Undisturbed, Apart, TakeLock, Active
<1>6. \A i \in DOMAIN entries : entries[i].at <= append[a].at
  BY <1>1, <1>2, EntriesTyped DEF ChainInv, Appending
<1>7. append[a].at <= chainClock
  BY <1>1 DEF ChainInv, Undisturbed, Current, Active, TakeLock
<1>8. UNCHANGED <<entries, chainClock>>
  BY DEF TakeLock
<1>9. Current(a)'
  BY <1>3, <1>4, <1>6, <1>7, <1>8 DEF Current
<1>10. chainClock' \in Nat /\ chainClock <= chainClock'
  BY <1>8 DEF ChainInv, ChainTypeOK
<1>11. \A b \in Appender : ~HoldsLock(b)
  BY DEF TakeLock
<1> HIDE DEF c
<1>12. QED
  BY <1>1, <1>3, <1>4, <1>5, <1>8, <1>9, <1>10, <1>11, OthersUntouched

\* A call that may read has the others, if any, wait for its lock.
LEMMA AloneOrLocked ==
    ASSUME ChainInv, ~disturbed, NEW a \in Appender, Active(a),
           append[a].lane # "locked" \/ HoldsLock(a)
    PROVE  /\ \A b \in Appender \ {a} :
                 Active(b) => append[b].lane = "locked" /\ append[a].lane = "locked"
           /\ \A b \in Appender \ {a} : ~HoldsLock(b)
<1>1. \A b \in Appender \ {a} : Active(b) => append[b].lane = "locked" /\ append[a].lane = "locked"
  BY DEF ChainInv, Undisturbed, Apart
<1>2. \A b \in Appender \ {a} : ~HoldsLock(b)
  BY <1>1 DEF ChainInv, Undisturbed, Apart, HoldsLock
<1>3. QED
  BY <1>1, <1>2

\* An undisturbed read of the newest entry finds the end of the chain.
LEMMA ReadStep ==
    ASSUME ChainInv, ~disturbed', NEW a \in Appender, ReadNewest(a)
    PROVE  Undisturbed'
<1>1. ~disturbed /\ \A i, j \in Newest : i = j
  BY DEF ReadNewest
<1>2. append[a] \in Appending /\ Active(a)
  BY ActiveTyped DEF ReadNewest, MayRead, ChainInv, Active
<1>3. Current(a)
  BY <1>1, <1>2 DEF ChainInv, Undisturbed
<1>4. append[a].lane # "locked" \/ HoldsLock(a)
  BY <1>2, <1>3 DEF ReadNewest, MayRead, HoldsLock, Current
<1>5. Newest = {Len(entries)}
  BY <1>1, NewestIsLast DEF ChainInv, Undisturbed
<1> DEFINE c == [append[a] EXCEPT !.step = "read", !.prev = Len(entries)]
<1>6. Len(entries) \in Nat
  BY DEF ChainInv, ChainTypeOK
<1>7. c \in Appending /\ c.lane = append[a].lane /\ c.at = append[a].at /\ c.step = "read"
      /\ c.prev = Len(entries)
  BY <1>2, <1>6 DEF Appending
<1>8. append' = [append EXCEPT ![a] = c] /\ append'[a] = c
  BY <1>5 DEF ReadNewest, ChainInv, ChainTypeOK
<1>9. UNCHANGED <<entries, chainClock>>
  BY DEF ReadNewest
<1>10. chainClock' \in Nat /\ chainClock <= chainClock'
  BY <1>9 DEF ChainInv, ChainTypeOK
<1> HIDE DEF c
<1>11. HoldsLock(a)' => append[a].lane = "locked"
  BY <1>7, <1>8 DEF HoldsLock
<1>12. Current(a)'
  BY <1>3, <1>4, <1>7, <1>8, <1>9, <1>11 DEF Current
<1>13. QED
  BY <1>1, <1>2, <1>4, <1>7, <1>8, <1>9, <1>10, <1>12, AloneOrLocked, OthersUntouched

\* So does the second read of a call that reads twice (the lookup of the parent id).
LEMMA ReadAgainStep ==
    ASSUME ChainInv, ~disturbed', NEW a \in Appender, ReadNewestAgain(a)
    PROVE  Undisturbed'
<1>1. ~disturbed
  BY DEF ReadNewestAgain
<1>2. append[a] \in Appending /\ Active(a) /\ append[a].lane = "pair" /\ append[a].step = "read"
  BY ActiveTyped DEF ReadNewestAgain, ChainInv, Active
<1>3. Current(a)
  BY <1>1, <1>2 DEF ChainInv, Undisturbed
<1>4. ~\E j \in DOMAIN entries : entries[j].at > append[a].at
  BY <1>2, <1>3, EntriesTyped DEF Current, ChainInv, Appending
<1> DEFINE c == [append[a] EXCEPT !.step = "paired", !.second = Own]
<1>5. c \in Appending /\ c.lane = "pair" /\ c.at = append[a].at /\ c.step = "paired"
      /\ c.prev = append[a].prev /\ c.second = Own
  BY <1>2 DEF Appending
<1>6. append' = [append EXCEPT ![a] = c] /\ append'[a] = c
  BY <1>4 DEF ReadNewestAgain, ChainInv, ChainTypeOK
<1>7. UNCHANGED <<entries, chainClock>>
  BY DEF ReadNewestAgain
<1>8. chainClock' \in Nat /\ chainClock <= chainClock'
  BY <1>7 DEF ChainInv, ChainTypeOK
<1> HIDE DEF c
<1>9. Current(a)'
  BY <1>2, <1>3, <1>5, <1>6, <1>7 DEF Current
<1>10. append[a].lane # "locked"
  BY <1>2
<1>11. QED
  BY <1>1, <1>2, <1>5, <1>6, <1>7, <1>8, <1>9, <1>10, AloneOrLocked, OthersUntouched

-----------------------------------------------------------------------------
(***************************************************************************)
(* The steps that make the chain longer.                                   *)
(***************************************************************************)

\* A row that holds the last hash and is the newest makes the chain longer.
LEMMA GrowByOne ==
    ASSUME ChainTypeOK, Sorted, NEW e \in Entry, entries' = Append(entries, e),
           e.prev = Len(entries), chainClock' \in Nat, chainClock <= chainClock',
           e.at <= chainClock', \A i \in DOMAIN entries : entries[i].at <= e.at
    PROVE  Sorted'
<1>1. entries \in Seq(Entry) /\ Len(entries) \in Nat /\ chainClock \in Nat /\ e.at \in Nat
  BY DEF ChainTypeOK, Entry
<1>2. DOMAIN entries = 1..Len(entries) /\ DOMAIN entries' = 1..(Len(entries) + 1)
  BY <1>1
<1>3. \A i \in DOMAIN entries' : entries'[i] = IF i = Len(entries) + 1 THEN e ELSE entries[i]
  BY <1>1, <1>2
<1>4. \A i \in DOMAIN entries : entries[i].at \in Nat
  BY EntriesTyped
<1>5. \A i \in DOMAIN entries' : entries'[i].prev = i - 1 /\ entries'[i].at <= chainClock'
  BY <1>1, <1>2, <1>3, <1>4 DEF Sorted
<1>6. \A i, j \in DOMAIN entries' : i <= j => entries'[i].at <= entries'[j].at
  BY <1>1, <1>2, <1>3, <1>4 DEF Sorted
<1>7. QED
  BY <1>5, <1>6 DEF Sorted

\* Two rows of one createdAt, the second holding the hash of the first, do too.
LEMMA GrowByTwo ==
    ASSUME ChainTypeOK, Sorted, NEW e \in Entry, NEW f \in Entry, entries' = entries \o <<e, f>>,
           e.prev = Len(entries), f.prev = Len(entries) + 1, f.at = e.at, UNCHANGED chainClock,
           e.at <= chainClock, \A i \in DOMAIN entries : entries[i].at <= e.at
    PROVE  Sorted'
<1>1. entries \in Seq(Entry) /\ Len(entries) \in Nat /\ chainClock \in Nat /\ e.at \in Nat
  BY DEF ChainTypeOK, Entry
<1>2. <<e, f>> \in Seq(Entry) /\ Len(<<e, f>>) = 2
  OBVIOUS
<1>3. DOMAIN entries = 1..Len(entries) /\ DOMAIN entries' = 1..(Len(entries) + 2)
  BY <1>1, <1>2
<1>4. \A i \in DOMAIN entries' : entries'[i] = IF i = Len(entries) + 1 THEN e
                                             ELSE IF i = Len(entries) + 2 THEN f ELSE entries[i]
  BY <1>1, <1>2, <1>3
<1>5. \A i \in DOMAIN entries : entries[i].at \in Nat
  BY EntriesTyped
<1>6. ASSUME NEW i \in DOMAIN entries'
      PROVE  entries'[i].prev = i - 1 /\ entries'[i].at <= chainClock'
  <2>1. CASE i \in DOMAIN entries
    BY <1>1, <1>3, <1>4, <2>1 DEF Sorted
  <2>2. CASE i = Len(entries) + 1
    BY <1>1, <1>4, <2>2
  <2>3. CASE i = Len(entries) + 2
    BY <1>1, <1>4, <2>3
  <2>4. QED
    BY <1>1, <1>3, <2>1, <2>2, <2>3
<1>7. \A i \in DOMAIN entries' \ DOMAIN entries : entries'[i].at = e.at /\ i > Len(entries)
  BY <1>1, <1>3, <1>4
<1>8. \A i \in DOMAIN entries : entries'[i] = entries[i] /\ i \in Nat /\ i <= Len(entries)
  BY <1>1, <1>3, <1>4
<1>9. ASSUME NEW i \in DOMAIN entries', NEW j \in DOMAIN entries', i <= j
      PROVE  entries'[i].at <= entries'[j].at
  <2>1. CASE i \in DOMAIN entries /\ j \in DOMAIN entries
    BY <1>8, <1>9, <2>1 DEF Sorted
  <2>2. CASE i \in DOMAIN entries /\ j \notin DOMAIN entries
    BY <1>7, <1>8, <2>2
  <2>3. CASE i \notin DOMAIN entries
    <3>1. j \notin DOMAIN entries
      BY <1>1, <1>3, <1>7, <1>8, <1>9, <2>3
    <3>2. entries'[i].at = e.at /\ entries'[j].at = e.at
      BY <1>7, <2>3, <3>1
    <3>3. e.at <= e.at
      BY <1>1
    <3>4. QED
      BY <3>2, <3>3
  <2>4. QED
    BY <2>1, <2>2, <2>3
<1>10. QED
  BY <1>6, <1>9 DEF Sorted

\* When a call has appended, the others have read nothing yet.
LEMMA AppendedUntouched ==
    ASSUME ChainInv, ~disturbed, NEW a \in Appender, Active(a),
           append[a].lane # "locked" \/ HoldsLock(a),
           append' = [append EXCEPT ![a] = Resting],
           chainClock' \in Nat, chainClock <= chainClock', Sorted'
    PROVE  Undisturbed'
<1>1. \A b \in Appender : append'[b] = IF b = a THEN Resting ELSE append[b]
  BY DEF ChainInv, ChainTypeOK
<1>2. \A b \in Appender : Active(b)' => b # a /\ Active(b) /\ append'[b] = append[b]
  BY <1>1 DEF Active, Resting
<1>3. \A b \in Appender : ~HoldsLock(b)'
  BY <1>1, <1>2, AloneOrLocked DEF HoldsLock
<1>4. Apart'
  BY <1>2, <1>3 DEF ChainInv, Undisturbed, Apart
<1>5. ASSUME NEW b \in Appender, Active(b)' PROVE Current(b)'
  <2>1. append'[b] = append[b] /\ append[b].lane = "locked" /\ append[b].step = "begun"
    BY <1>2, <1>3, <1>5, AloneOrLocked DEF HoldsLock
  <2>2. append[b].at \in Nat /\ append[b].at <= chainClock
    BY <1>2, <1>5, ActiveTyped DEF ChainInv, Undisturbed, Current, Active, Appending
  <2>3. append'[b].at <= chainClock'
    BY <2>1, <2>2 DEF ChainInv, ChainTypeOK
  <2>4. QED
    BY <1>3, <2>1, <2>3 DEF Current
<1>6. QED
  BY <1>4, <1>5 DEF Undisturbed

\* The call that appends has read the end of the chain.
LEMMA ReadIsCurrent ==
    ASSUME ChainInv, ~disturbed, NEW a \in Appender, append[a].step \in {"read", "paired"}
    PROVE  /\ append[a] \in Appending /\ Active(a) /\ Current(a)
           /\ append[a].lane # "locked" \/ HoldsLock(a)
<1>1. append[a] \in Appending /\ Active(a)
  BY ActiveTyped DEF ChainInv, Active
<1>2. Current(a)
  BY <1>1 DEF ChainInv, Undisturbed
<1>3. append[a].lane # "locked" \/ HoldsLock(a)
  BY <1>1 DEF HoldsLock
<1>4. QED
  BY <1>1, <1>2, <1>3

\* A call that inserts one entry adds it behind the last one.
LEMMA AppendOneStep ==
    ASSUME ChainInv, ~disturbed', NEW a \in Appender, InsertEntry(a) \/ CommitEntry(a)
    PROVE  Undisturbed'
<1>1. ~disturbed /\ append[a].step = "read" /\ append' = [append EXCEPT ![a] = Resting]
  BY DEF InsertEntry, CommitEntry
<1>2. append[a] \in Appending /\ Active(a) /\ Current(a) /\ (append[a].lane # "locked" \/ HoldsLock(a))
  BY <1>1, ReadIsCurrent
<1>3. chainClock \in Nat /\ Sorted /\ \A i \in DOMAIN entries : entries[i].at \in Nat
  BY <1>1, EntriesTyped DEF ChainInv, ChainTypeOK, Undisturbed
<1>4. PICK at \in Nat :
          /\ entries' = Append(entries, [prev |-> append[a].prev, at |-> at])
          /\ at <= chainClock' /\ chainClock' \in Nat /\ chainClock <= chainClock'
          /\ \A i \in DOMAIN entries : entries[i].at <= at
  <2>1. CASE InsertEntry(a)
    <3>1. chainClock' = chainClock + 1
          /\ entries' = Append(entries, [prev |-> append[a].prev, at |-> chainClock + 1])
      BY <2>1 DEF InsertEntry
    <3>2. \A i \in DOMAIN entries : entries[i].at <= chainClock + 1
      BY <1>3 DEF Sorted
    <3>3. /\ chainClock + 1 \in Nat /\ chainClock + 1 <= chainClock'
          /\ chainClock' \in Nat /\ chainClock <= chainClock'
      BY <1>3, <3>1
    <3>4. QED
      BY <3>1, <3>2, <3>3
  <2>2. CASE CommitEntry(a)
    <3>1. chainClock' = chainClock /\ append[a].lane \in {"single", "locked"}
          /\ entries' = Append(entries, [prev |-> append[a].prev, at |-> append[a].at])
      BY <2>2 DEF CommitEntry
    <3>2. append[a].at \in Nat /\ append[a].at <= chainClock
          /\ \A i \in DOMAIN entries : entries[i].at <= append[a].at
      BY <1>2, <3>1 DEF Current, Appending
    <3>3. PICK at \in Nat : at = append[a].at
      BY <3>2
    <3>4. /\ entries' = Append(entries, [prev |-> append[a].prev, at |-> at])
          /\ \A i \in DOMAIN entries : entries[i].at <= at
      BY <3>1, <3>2, <3>3
    <3>5. at <= chainClock' /\ chainClock' \in Nat /\ chainClock <= chainClock'
      BY <1>3, <3>1, <3>2, <3>3
    <3>6. QED
      BY <3>4, <3>5
  <2>3. QED
    BY <2>1, <2>2
<1>5. append[a].prev = Len(entries) /\ append[a].prev \in Nat
  BY <1>1, <1>2 DEF Current, Appending
<1> DEFINE e == [prev |-> append[a].prev, at |-> at]
<1>6. e \in Entry /\ e.prev = Len(entries) /\ e.at = at
  BY <1>5 DEF Entry
<1>7. entries' = Append(entries, e)
  BY <1>4
<1>8. ChainTypeOK
  BY DEF ChainInv
<1> HIDE DEF e
<1>9. Sorted'
  BY <1>3, <1>4, <1>6, <1>7, <1>8, GrowByOne
<1>10. QED
  BY <1>1, <1>2, <1>4, <1>9, AppendedUntouched

\* A transaction of two entries adds both, linked to each other, behind the last one.
LEMMA AppendPairStep ==
    ASSUME ChainInv, ~disturbed', NEW a \in Appender, CommitPair(a)
    PROVE  Undisturbed'
<1>1. ~disturbed /\ append[a].step = "paired" /\ append' = [append EXCEPT ![a] = Resting]
      /\ UNCHANGED chainClock
  BY DEF CommitPair
<1>2. append[a] \in Appending /\ Active(a) /\ Current(a) /\ (append[a].lane # "locked" \/ HoldsLock(a))
  BY <1>1, ReadIsCurrent
<1>3. /\ append[a].prev = Len(entries) /\ append[a].prev \in Nat /\ append[a].second = Own
      /\ append[a].at \in Nat /\ append[a].at <= chainClock
      /\ \A i \in DOMAIN entries : entries[i].at <= append[a].at
  BY <1>1, <1>2 DEF Current, Appending
<1> DEFINE e == [prev |-> append[a].prev, at |-> append[a].at]
           f == [prev |-> Len(entries) + 1, at |-> append[a].at]
<1>4. entries' = entries \o <<e, f>>
  BY <1>3 DEF CommitPair
<1>5. /\ e \in Entry /\ e.prev = Len(entries) /\ e.at = append[a].at
      /\ f \in Entry /\ f.prev = Len(entries) + 1 /\ f.at = append[a].at
  BY <1>3 DEF Entry
<1>6. ChainTypeOK /\ Sorted /\ chainClock' \in Nat /\ chainClock <= chainClock'
  BY <1>1 DEF ChainInv, ChainTypeOK, Undisturbed
<1> HIDE DEF e, f
<1>7. Sorted'
  BY <1>1, <1>3, <1>4, <1>5, <1>6, GrowByTwo
<1>8. QED
  BY <1>1, <1>2, <1>6, <1>7, AppendedUntouched

-----------------------------------------------------------------------------
\* The inductive step.
LEMMA ChainStep == ASSUME ChainInv, [ChainNext]_chainVars PROVE ChainInv'
<1>1. ChainTypeOK'
  BY ChainTypeStep DEF ChainInv
<1>2. ASSUME ~disturbed' PROVE Undisturbed'
  <2>1. CASE UNCHANGED chainVars
    BY <1>2, <2>1 DEF ChainInv, Undisturbed, Sorted, Apart, Current, Active, HoldsLock, chainVars
  <2>2. ASSUME NEW a \in Appender, NEW lane \in Lane, BeginEntry(a, lane) PROVE Undisturbed'
    BY <1>2, <2>2, BeginStep
  <2>3. ASSUME NEW a \in Appender, TakeLock(a) PROVE Undisturbed'
    BY <1>2, <2>3, LockStep
  <2>4. ASSUME NEW a \in Appender, ReadNewest(a) PROVE Undisturbed'
    BY <1>2, <2>4, ReadStep
  <2>5. ASSUME NEW a \in Appender, ReadNewestAgain(a) PROVE Undisturbed'
    BY <1>2, <2>5, ReadAgainStep
  <2>6. ASSUME NEW a \in Appender, InsertEntry(a) \/ CommitEntry(a) PROVE Undisturbed'
    BY <1>2, <2>6, AppendOneStep
  <2>7. ASSUME NEW a \in Appender, CommitPair(a) PROVE Undisturbed'
    BY <1>2, <2>7, AppendPairStep
  <2>8. ASSUME NEW a \in Appender, GiveUp(a) PROVE Undisturbed'
    BY <1>2, <2>8, RestingUntouched DEF GiveUp
  <2>9. QED
    BY <2>1, <2>2, <2>3, <2>4, <2>5, <2>6, <2>7, <2>8 DEF ChainNext
<1>3. QED
  BY <1>1, <1>2 DEF ChainInv

\* Calls that do not overlap, or queue for the lock in the order they began in, and do not
\* read a tie, build a chain that validates, whatever lanes they take and however many
\* there are.
THEOREM UndisturbedChainCorrect == ChainSpec => []UndisturbedChainValidates
<1>1. ASSUME ChainInit PROVE ChainInv
  <2>1. entries \in Seq(Entry) /\ DOMAIN entries = {} /\ chainClock \in Nat
    BY <1>1 DEF ChainInit
  <2>2. append \in [Appender -> {Resting} \cup Appending] /\ \A a \in Appender : ~Active(a)
    BY <1>1 DEF ChainInit, Active, Resting
  <2>3. ChainTypeOK
    BY <1>1, <2>1, <2>2 DEF ChainInit, ChainTypeOK
  <2>4. Undisturbed
    BY <2>1, <2>2 DEF Undisturbed, Sorted, Apart, HoldsLock
  <2>5. QED
    BY <2>3, <2>4 DEF ChainInv
<1>2. ChainInv /\ [ChainNext]_chainVars => ChainInv'
  BY ChainStep
<1>3. ASSUME ChainInv PROVE UndisturbedChainValidates
  <2>1. \A i \in DOMAIN entries : i > 1 => i - 1 \in DOMAIN entries /\ i - 1 <= i
    BY <1>3 DEF ChainInv, ChainTypeOK
  <2>2. QED
    BY <1>3, <2>1 DEF ChainInv, Undisturbed, Sorted, UndisturbedChainValidates, ChainValidates
<1>4. QED
  BY <1>1, <1>2, <1>3, PTL DEF ChainSpec

-----------------------------------------------------------------------------
(***************************************************************************)
(* The time clock.                                                         *)
(***************************************************************************)


-----------------------------------------------------------------------------
(***************************************************************************)
(* The inductive invariant.  What calls have read stays good enough for    *)
(* what they write: periods are never made active again, entries only get  *)
(* more, and an approval is not taken back.                                *)
(***************************************************************************)
\* The entries of a correction.
Ids(c) == {correction[c].in, correction[c].out} \ {0}

\* e is a correction that nobody has approved.
Drafted(e) == \E c \in DOMAIN correction : correction[c].status # "approved" /\ e \in Ids(c)

\* e is an entry that may count.
Known(e) == e \in 1..Len(punch) /\ ~Drafted(e)

\* Steps before the call has a period, and steps of calls about a period that has ended.
NoPeriodYet == {"clock_in", "clock_in_period", "manual", "manual_period", "api_in"}
OnClosed == {"enforce", "split", "split_notes", "split_update", "split_insert",
             "edit_in", "edit_in_insert", "edit_out", "edit_out_insert", "edit_update"}

\* Entries the call has inserted, at least, when it comes to the step.
Inserted(step) ==
    IF step \in {"manual_period", "split_notes", "split_update", "split_insert"} THEN 2
    ELSE IF step \in {"clock_in_period", "web_out_update", "edit_out", "edit_out_insert", "edit_update"}
         THEN 1 ELSE 0

CallOK(s) ==
    LET call == clockCall[s] IN
    call.step # "off" =>
        /\ call.p \in 0..Len(period)
        /\ call.step \notin NoPeriodYet => call.p # 0
        /\ Len(call.es) >= Inserted(call.step)
        /\ \A i \in 1..Len(call.es) : Known(call.es[i])
        /\ call.p # 0 => Known(call.was.in) /\ (call.was.out = 0 \/ Known(call.was.out))
        /\ call.step \in OnClosed => ~period[call.p].active
        /\ call.step = "approve" =>
              /\ call.c \in DOMAIN correction
              /\ period[call.p].active => ~call.was.ended /\ call.was.out = 0

RowsOK ==
    /\ \A p \in DOMAIN period :
          /\ Known(period[p].in) /\ (period[p].out = 0 \/ Known(period[p].out))
          /\ period[p].active => ~period[p].ended /\ period[p].out = 0
    /\ \A c \in DOMAIN correction :
          /\ correction[c].of \in 1..Len(period)
          /\ correction[c].in \in 1..Len(punch) /\ correction[c].out \in 0..Len(punch)
    /\ \A c, d \in DOMAIN correction : c # d => Ids(c) \cap Ids(d) = {}
    /\ \A e \in 1..Len(punch) : Drafted(e) => ~punch[e].live

LockOK ==
    /\ \A s, r \in Clocker :
          clockCall[s].step \in {"api_in", "api_out"} /\ clockCall[r].step \in {"api_in", "api_out"}
              => s = r
    /\ \A s \in Clocker : AtStep(s, "api_in") => \A p \in Open : period[p].via # "api"
    /\ OneOpenUnderLock

ClockInv == ClockTypeOK /\ RowsOK /\ LockOK /\ \A s \in Clocker : CallOK(s)

\* What no call may undo of the rows: this is what keeps the readings of the others good.
Grows ==
    /\ punch' \in Seq(Punch) /\ period' \in Seq(Period) /\ correction' \in Seq(Correction)
    /\ Len(punch) <= Len(punch') /\ Len(period) <= Len(period') /\ Len(correction) <= Len(correction')
    /\ \A p \in 1..Len(period) :
          period'[p].via = period[p].via /\ (period'[p].active => period[p].active)
    /\ \A e \in 1..Len(punch) : Drafted(e)' => Drafted(e)

-----------------------------------------------------------------------------
(***************************************************************************)
(* What follows for the calls that do not step.                            *)
(***************************************************************************)

\* Periods, entries and corrections are sequences over their rows.
LEMMA RowsOfTables ==
    ASSUME ClockTypeOK
    PROVE  /\ period \in Seq(Period) /\ Len(period) \in Nat /\ DOMAIN period = 1..Len(period)
           /\ punch \in Seq(Punch) /\ Len(punch) \in Nat /\ DOMAIN punch = 1..Len(punch)
           /\ correction \in Seq(Correction) /\ Len(correction) \in Nat
           /\ DOMAIN correction = 1..Len(correction)
           /\ \A p \in 1..Len(period) : period[p] \in Period
           /\ \A e \in 1..Len(punch) : punch[e] \in Punch
           /\ \A c \in 1..Len(correction) : correction[c] \in Correction
BY DEF ClockTypeOK

\* The same after a step that only lets them grow.
LEMMA SequencesGrown ==
    ASSUME Grows
    PROVE  /\ Len(period') \in Nat /\ DOMAIN period' = 1..Len(period')
           /\ Len(punch') \in Nat /\ DOMAIN punch' = 1..Len(punch')
           /\ Len(correction') \in Nat /\ DOMAIN correction' = 1..Len(correction')
BY DEF Grows

\* An entry that may count goes on to.
LEMMA KnownGrows ==
    ASSUME ClockTypeOK, Grows, NEW e, Known(e)
    PROVE  Known(e)'
<1>1. e \in 1..Len(punch) /\ e \in 1..Len(punch')
  BY RowsOfTables, SequencesGrown DEF Known, Grows
<1>2. ~Drafted(e)'
  BY <1>1 DEF Known, Grows
<1>3. QED
  BY <1>1, <1>2 DEF Known

\* A call that has begun is a record of its fields.
LEMMA BusyCall ==
    ASSUME ClockTypeOK, NEW s \in Clocker, clockCall[s].step # "off"
    PROVE  /\ clockCall[s] \in Busy /\ clockCall[s].p \in Nat /\ clockCall[s].c \in Nat
           /\ clockCall[s].es \in Seq(Nat) /\ Len(clockCall[s].es) \in Nat
           /\ clockCall[s].was \in Period
<1>1. clockCall[s] \in Busy
  BY DEF ClockTypeOK, Off
<1>2. QED
  BY <1>1 DEF Busy

\* A call that does not step is as good as before.
LEMMA CallStable ==
    ASSUME ClockTypeOK, Grows, NEW s \in Clocker, CallOK(s), clockCall'[s] = clockCall[s]
    PROVE  CallOK(s)'
<1> SUFFICES ASSUME clockCall[s].step # "off" PROVE CallOK(s)'
  BY DEF CallOK
<1>1. clockCall[s].p \in 0..Len(period) /\ clockCall[s].p \in 0..Len(period')
  BY RowsOfTables, SequencesGrown DEF CallOK, Grows
<1>2. \A i \in 1..Len(clockCall[s].es) : Known(clockCall[s].es[i])'
  BY KnownGrows DEF CallOK
<1>3. clockCall[s].p # 0 => Known(clockCall[s].was.in)'
                            /\ (clockCall[s].was.out = 0 \/ Known(clockCall[s].was.out)')
  BY KnownGrows DEF CallOK
<1>4. clockCall[s].step \in OnClosed \cup {"approve"} => clockCall[s].p \in 1..Len(period)
  BY <1>1, RowsOfTables DEF CallOK, OnClosed, NoPeriodYet
<1>5. clockCall[s].step \in OnClosed => ~period'[clockCall[s].p].active
  BY <1>4 DEF CallOK, Grows
<1>6. clockCall[s].step = "approve" =>
          /\ clockCall[s].c \in DOMAIN correction'
          /\ period'[clockCall[s].p].active => ~clockCall[s].was.ended /\ clockCall[s].was.out = 0
  BY <1>4, RowsOfTables, SequencesGrown DEF CallOK, Grows
<1>7. QED
  BY <1>1, <1>2, <1>3, <1>5, <1>6 DEF CallOK

\* Steps that leave corrections alone do not draft anything.
LEMMA GrowsWithoutCorrection ==
    ASSUME ClockTypeOK, punch' \in Seq(Punch), period' \in Seq(Period), correction' = correction,
           Len(punch) <= Len(punch'), Len(period) <= Len(period'),
           \A p \in 1..Len(period) :
               period'[p].via = period[p].via /\ (period'[p].active => period[p].active)
    PROVE  Grows /\ \A e : Drafted(e)' = Drafted(e)
<1>1. \A e : Drafted(e)' = Drafted(e)
  BY DEF Drafted, Ids
<1>2. QED
  BY <1>1, RowsOfTables DEF Grows

\* A step of one call: what it writes lets the rows grow and leaves them sound, and so is
\* what it has read.
LEMMA StepKeeps ==
    ASSUME ClockInv, NEW s \in Clocker, Grows, RowsOK', LockOK', CallOK(s)',
           NEW new \in {Off} \cup Busy, clockCall' = [clockCall EXCEPT ![s] = new],
           calls' \in 0..MaxCalls, unsettled' \in BOOLEAN
    PROVE  ClockInv'
<1>1. ClockTypeOK
  BY DEF ClockInv
<1>2. \A r \in Clocker : CallOK(r)'
  <2> SUFFICES ASSUME NEW r \in Clocker, r # s PROVE CallOK(r)'
    OBVIOUS
  <2>1. clockCall'[r] = clockCall[r]
    BY <1>1 DEF ClockTypeOK
  <2>2. QED
    BY <1>1, <2>1, CallStable DEF ClockInv
<1>3. \A p \in DOMAIN period' : period'[p].in \in DOMAIN punch' /\ period'[p].out \in 0..Len(punch')
  BY SequencesGrown DEF RowsOK, Known
<1>4. clockCall' \in [Clocker -> {Off} \cup Busy]
  BY <1>1 DEF ClockTypeOK
<1>5. ClockTypeOK'
  BY <1>3, <1>4 DEF ClockTypeOK, Grows
<1>6. QED
  BY <1>2, <1>5 DEF ClockInv

\* Calls that keep out of the API's transaction leave its periods as they are.
LEMMA LockKept ==
    ASSUME ClockInv, Grows,
           \A p \in 1..Len(period') : p > Len(period) => period'[p].via = "app",
           \A s \in Clocker : clockCall'[s].step \in {"api_in", "api_out"} =>
               clockCall'[s].step = clockCall[s].step
    PROVE  LockOK'
<1>1. ClockTypeOK
  BY DEF ClockInv
<1>2. ASSUME NEW p \in Open', period'[p].via = "api"
      PROVE  p \in Open /\ period[p].via = "api"
  <2>1. p \in 1..Len(period') /\ period'[p].active /\ ~period'[p].ended
    BY SequencesGrown DEF Open
  <2>2. p \in 1..Len(period)
    BY <1>1, <1>2, <2>1, RowsOfTables, SequencesGrown, SMTT(60)
  <2>3. period[p].active /\ period[p].via = "api"
    BY <1>2, <2>1, <2>2 DEF Grows
  <2>4. ~period[p].ended
    BY <1>1, <2>2, <2>3, RowsOfTables DEF ClockInv, RowsOK
  <2>5. QED
    BY <1>1, <2>2, <2>3, <2>4, RowsOfTables DEF Open
<1>3. OneOpenUnderLock'
  BY <1>2 DEF OneOpenUnderLock, ClockInv, LockOK
<1>4. \A s \in Clocker : AtStep(s, "api_in")' => \A p \in Open' : period'[p].via # "api"
  BY <1>2 DEF AtStep, ClockInv, LockOK
<1>5. QED
  BY <1>3, <1>4 DEF LockOK, ClockInv

-----------------------------------------------------------------------------
(***************************************************************************)
(* The ways a call goes on.                                                *)
(***************************************************************************)
AnyStep == {"clock_in", "clock_in_period", "manual", "manual_period", "api_in", "api_out",
            "web_out", "web_out_update", "bot_out", "app_out", "break", "enforce",
            "split", "split_notes", "split_update", "split_insert",
            "edit_in", "edit_in_insert", "edit_out", "edit_out_insert", "edit_update",
            "ask_edit", "ask_delete", "approve"}

\* The call ends.
LEMMA EndKeeps ==
    ASSUME ClockInv, NEW s \in Clocker, End(s), Grows, RowsOK',
           \A p \in 1..Len(period') : p > Len(period) => period'[p].via = "app",
           calls' \in 0..MaxCalls, unsettled' \in BOOLEAN
    PROVE  ClockInv'
<1>1. ClockTypeOK
  BY DEF ClockInv
<1>2. /\ clockCall'[s].step = "off"
      /\ \A r \in Clocker : clockCall'[r].step \in {"api_in", "api_out"} =>
             clockCall'[r].step = clockCall[r].step
  BY <1>1 DEF End, Off, ClockTypeOK
<1>3. LockOK'
  BY <1>2, LockKept
<1>4. CallOK(s)'
  BY <1>2 DEF CallOK
<1>5. QED
  BY <1>3, <1>4, StepKeeps DEF End

\* The call goes on about the same period, with what it has read and inserted.
LEMMA ContinueKeeps ==
    ASSUME ClockInv, NEW s \in Clocker, clockCall[s].step # "off", Grows, RowsOK',
           \A p \in 1..Len(period') : p > Len(period) => period'[p].via = "app",
           calls' \in 0..MaxCalls, unsettled' \in BOOLEAN,
           NEW new \in Busy, clockCall' = [clockCall EXCEPT ![s] = new],
           new.p = clockCall[s].p, new.was = clockCall[s].was,
           new.step \notin {"api_in", "api_out", "approve", "off"},
           new.step \notin NoPeriodYet => clockCall[s].p # 0,
           Len(new.es) >= Inserted(new.step),
           \A i \in 1..Len(new.es) : Known(new.es[i])',
           new.step \in OnClosed => ~period'[clockCall[s].p].active
    PROVE  ClockInv'
<1>1. ClockTypeOK /\ CallOK(s)
  BY DEF ClockInv
<1>2. clockCall'[s] = new /\ \A r \in Clocker \ {s} : clockCall'[r] = clockCall[r]
  BY <1>1 DEF ClockTypeOK
<1>3. LockOK'
  BY <1>2, LockKept
<1>4. new.p \in 0..Len(period')
  BY <1>1, RowsOfTables, SequencesGrown DEF CallOK, Grows
<1>5. new.p # 0 => Known(new.was.in)' /\ (new.was.out = 0 \/ Known(new.was.out)')
  BY <1>1, KnownGrows DEF CallOK
<1>6. CallOK(s)'
  BY <1>2, <1>4, <1>5 DEF CallOK
<1>7. QED
  BY <1>3, <1>6, StepKeeps

\* What Go and GoWith make of a call.
LEMMA GoFields ==
    ASSUME ClockTypeOK, NEW s \in Clocker, clockCall[s].step # "off", NEW step \in AnyStep
    PROVE  Go(s, step) => \E new \in Busy :
               /\ new.step = step /\ new.p = clockCall[s].p /\ new.was = clockCall[s].was
               /\ new.es = clockCall[s].es /\ new.c = clockCall[s].c
               /\ clockCall' = [clockCall EXCEPT ![s] = new]
<1> DEFINE new == [clockCall[s] EXCEPT !.step = step]
<1>1. clockCall[s] \in Busy
  BY BusyCall
<1>2. /\ new \in Busy /\ new.step = step /\ new.p = clockCall[s].p /\ new.was = clockCall[s].was
      /\ new.es = clockCall[s].es /\ new.c = clockCall[s].c
  BY <1>1 DEF Busy, AnyStep
<1>3. Go(s, step) => clockCall' = [clockCall EXCEPT ![s] = new]
  BY DEF Go
<1> HIDE DEF new
<1>4. QED
  BY <1>2, <1>3

\* The call with its next step and the entries it has inserted in this one.
WentOn(call, step, es, new) ==
    /\ new.step = step /\ new.p = call.p /\ new.was = call.was
    /\ Len(new.es) = Len(call.es) + Len(es)
    /\ \A i \in 1..Len(new.es) : \/ i \in 1..Len(call.es) /\ new.es[i] = call.es[i]
                                 \/ \E j \in 1..Len(es) : new.es[i] = es[j]

LEMMA GoWithFields ==
    ASSUME ClockTypeOK, NEW s \in Clocker, clockCall[s].step # "off", NEW step \in AnyStep,
           NEW es \in Seq(Nat)
    PROVE  GoWith(s, step, es) =>
               \E new \in Busy : WentOn(clockCall[s], step, es, new)
                                /\ clockCall' = [clockCall EXCEPT ![s] = new]
<1>1. clockCall[s] \in Busy /\ clockCall[s].es \in Seq(Nat)
  BY BusyCall
<1> DEFINE joint == clockCall[s].es \o es
           new == [clockCall[s] EXCEPT !.step = step, !.es = joint]
<1>2. /\ joint \in Seq(Nat) /\ Len(joint) = Len(clockCall[s].es) + Len(es)
      /\ \A i \in 1..Len(clockCall[s].es) + Len(es) : joint[i] =
             IF i <= Len(clockCall[s].es) THEN clockCall[s].es[i] ELSE es[i - Len(clockCall[s].es)]
  BY <1>1, ConcatProperties
<1> HIDE DEF joint
<1>3. Len(clockCall[s].es) \in Nat /\ Len(es) \in Nat
  BY <1>1
<1>4. \A i \in 1..Len(joint) : \/ i \in 1..Len(clockCall[s].es) /\ joint[i] = clockCall[s].es[i]
                               \/ \E j \in 1..Len(es) : joint[i] = es[j]
  <2> SUFFICES ASSUME NEW i \in 1..Len(joint)
               PROVE  \/ i \in 1..Len(clockCall[s].es) /\ joint[i] = clockCall[s].es[i]
                      \/ \E j \in 1..Len(es) : joint[i] = es[j]
    OBVIOUS
  <2>1. i \in 1..Len(clockCall[s].es) + Len(es)
    BY <1>2
  <2>2. CASE i <= Len(clockCall[s].es)
    BY <1>2, <1>3, <2>1, <2>2
  <2>3. CASE ~(i <= Len(clockCall[s].es))
    <3>1. \A n, m \in Nat : i \in 1..n + m /\ ~(i <= n) => i - n \in 1..m
      OBVIOUS
    <3>2. i - Len(clockCall[s].es) \in 1..Len(es)
      BY <1>3, <2>1, <2>3, <3>1
    <3>3. QED
      BY <1>2, <2>1, <2>3, <3>2
  <2>4. QED
    BY <2>2, <2>3
<1>5. new \in Busy /\ new.step = step /\ new.p = clockCall[s].p /\ new.was = clockCall[s].was /\ new.es = joint
  BY <1>1, <1>2 DEF Busy, AnyStep
<1>6. GoWith(s, step, es) => clockCall' = [clockCall EXCEPT ![s] = new]
  BY DEF GoWith, joint
<1> HIDE DEF new
<1>7. WentOn(clockCall[s], step, es, new)
  BY <1>2, <1>4, <1>5 DEF WentOn
<1>8. QED
  BY <1>5, <1>6, <1>7

\* What a call has read that begins with a period, or without one.
LEMMA ActingFields ==
    ASSUME ClockTypeOK, NEW p \in 0..Len(period), NEW step \in AnyStep, NEW c \in Nat
    PROVE  /\ ActingOn(p, step) = [ActingOn(p, step) EXCEPT !.c = 0]
           /\ LET new == [ActingOn(p, step) EXCEPT !.c = c] IN
              /\ new \in Busy /\ new.step = step /\ new.p = p /\ new.es = <<>> /\ new.c = c
              /\ p # 0 => new.was = period[p]
<1>1. Blank \in Period
  BY DEF Blank, OpenPeriod, Period
<1>2. p # 0 => p \in 1..Len(period)
  BY RowsOfTables
<1> DEFINE was == IF p = 0 THEN Blank ELSE period[p]
<1>3. was \in Period
  BY <1>1, <1>2, RowsOfTables
<1>4. ActingOn(p, step) = [step |-> step, p |-> p, was |-> was, es |-> <<>>, c |-> 0]
  BY DEF ActingOn
<1>5. p # 0 => was = period[p]
  OBVIOUS
<1> HIDE DEF was
<1>6. p \in Nat /\ <<>> \in Seq(Nat)
  BY RowsOfTables
<1> DEFINE new == [step |-> step, p |-> p, was |-> was, es |-> <<>>, c |-> c]
<1>7. [ActingOn(p, step) EXCEPT !.c = c] = new
  BY <1>4
<1>8. ActingOn(p, step) = [ActingOn(p, step) EXCEPT !.c = 0]
  BY <1>4
<1>9. new \in Busy
  BY <1>3, <1>6 DEF Busy, AnyStep
<1>10. new.step = step /\ new.p = p /\ new.es = <<>> /\ new.c = c /\ new.was = was
  OBVIOUS
<1> HIDE DEF new
<1>11. QED
  BY <1>5, <1>7, <1>8, <1>9, <1>10

\* Rows that are not touched.
LEMMA RowsUnchanged ==
    ASSUME ClockInv, UNCHANGED <<period, punch, correction>>
    PROVE  Grows /\ RowsOK' /\ \A e : Known(e)' = Known(e)
<1>1. ClockTypeOK /\ RowsOK
  BY DEF ClockInv
<1>2. Grows
  BY <1>1, RowsOfTables, GrowsWithoutCorrection
<1>3. \A e : Known(e)' = Known(e)
  BY DEF Known, Drafted, Ids
<1>4. RowsOK'
  BY <1>1 DEF RowsOK, Known, Drafted, Ids
<1>5. QED
  BY <1>2, <1>3, <1>4

\* A call that has just read a period is sound.
LEMMA FreshCallOK ==
    ASSUME ClockInv, NEW s \in Clocker, UNCHANGED <<period, punch, correction>>,
           NEW p \in 0..Len(period), NEW step \in AnyStep, NEW c \in Nat,
           clockCall' = [clockCall EXCEPT ![s] = [ActingOn(p, step) EXCEPT !.c = c]],
           step \notin NoPeriodYet => p # 0,
           Inserted(step) = 0,
           step \in OnClosed => ~period[p].active,
           step = "approve" => c \in DOMAIN correction
    PROVE  CallOK(s)' /\ [ActingOn(p, step) EXCEPT !.c = c] \in Busy /\ clockCall'[s].step = step
<1>1. ClockTypeOK /\ RowsOK
  BY DEF ClockInv
<1> DEFINE new == [ActingOn(p, step) EXCEPT !.c = c]
<1>2. /\ new \in Busy /\ new.step = step /\ new.p = p /\ new.es = <<>> /\ new.c = c
      /\ p # 0 => new.was = period[p]
  BY <1>1, ActingFields
<1> HIDE DEF new
<1>3. clockCall'[s] = new
  BY <1>1 DEF ClockTypeOK, new
<1>4. p # 0 => /\ Known(period[p].in) /\ (period[p].out = 0 \/ Known(period[p].out))
               /\ period[p].active => ~period[p].ended /\ period[p].out = 0
  BY <1>1, RowsOfTables DEF RowsOK
<1>5. \A e : Known(e)' = Known(e)
  BY RowsUnchanged
<1>6. step = "approve" => p # 0
  BY DEF NoPeriodYet
<1>7. Len(new.es) = 0
  BY <1>2
<1>8. clockCall'[s].p # 0 => /\ Known(clockCall[s].was.in)'
                             /\ clockCall'[s].was.out = 0 \/ Known(clockCall[s].was.out)'
  <2>1. p # 0 => Known(period[p].in) /\ (period[p].out = 0 \/ Known(period[p].out))
    BY <1>4
  <2>2. p # 0 => clockCall'[s].was = period[p]
    BY <1>2, <1>3
  <2>3. p # 0 => \A e : Known(e) => Known(e)'
    BY <1>5
  <2>4. clockCall'[s].p = p
    BY <1>2, <1>3
  <2>5. QED
    BY <2>1, <2>2, <2>3, <2>4
<1>9. clockCall'[s].step = step /\ clockCall'[s].p = p /\ clockCall'[s].c = c
  BY <1>2, <1>3
<1>10. CallOK(s)'
  <2>1. /\ clockCall'[s].p \in 0..Len(period')
        /\ clockCall'[s].step \notin NoPeriodYet => clockCall'[s].p # 0
    BY <1>9
  <2>2. Len(clockCall'[s].es) >= Inserted(clockCall'[s].step)
    BY <1>3, <1>7, <1>9
  <2>3. \A i \in 1..Len(clockCall'[s].es) : Known(clockCall[s].es[i])'
    <3>1. Len(clockCall'[s].es) = 0
      BY <1>3, <1>7
    <3>2. 1..Len(clockCall'[s].es) = {}
      BY <3>1
    <3>3. QED
      BY <3>2
  <2>4. clockCall'[s].step \in OnClosed => ~period'[clockCall'[s].p].active
    BY <1>9
  <2>5. clockCall'[s].step = "approve" =>
            /\ clockCall'[s].c \in DOMAIN correction'
            /\ period'[clockCall'[s].p].active => ~clockCall'[s].was.ended /\ clockCall'[s].was.out = 0
    BY <1>2, <1>3, <1>4, <1>6, <1>9
  <2>6. QED
    BY <1>8, <2>1, <2>2, <2>3, <2>4, <2>5 DEF CallOK
<1>11. [ActingOn(p, step) EXCEPT !.c = c] \in Busy
  BY <1>2 DEF new
<1>12. QED
  BY <1>9, <1>10, <1>11

\* A call begins.
LEMMA BeginKeeps ==
    ASSUME ClockInv, NEW s \in Clocker, NEW p \in 0..Len(period), NEW step \in AnyStep, NEW c \in Nat,
           Begin(s, [ActingOn(p, step) EXCEPT !.c = c]),
           step \notin NoPeriodYet => p # 0,
           Inserted(step) = 0,
           step \in OnClosed => ~period[p].active,
           step = "approve" => c \in DOMAIN correction,
           step \in {"api_in", "api_out"} => ApiLockFree,
           step = "api_in" => Open = {}
    PROVE  ClockInv'
<1>1. /\ UNCHANGED <<period, punch, correction>>
      /\ clockCall' = [clockCall EXCEPT ![s] = [ActingOn(p, step) EXCEPT !.c = c]]
      /\ calls < MaxCalls /\ calls' = calls + 1 /\ unsettled' \in BOOLEAN
  BY DEF Begin, ClockInv, ClockTypeOK
<1>2. CallOK(s)' /\ [ActingOn(p, step) EXCEPT !.c = c] \in Busy /\ clockCall'[s].step = step
  BY <1>1, FreshCallOK
<1>3. Grows /\ RowsOK' /\ \A e : Known(e)' = Known(e)
  BY <1>1, RowsUnchanged
<1>4. ClockTypeOK
  BY DEF ClockInv
<1>5. calls' \in 0..MaxCalls
  BY <1>1, <1>4, ClockBounds DEF ClockTypeOK
<1>6. \A r \in Clocker \ {s} : clockCall'[r] = clockCall[r]
  BY <1>1, <1>4 DEF ClockTypeOK
<1>7. LockOK'
  <2>1. CASE step \notin {"api_in", "api_out"}
    <3>1. \A p2 \in 1..Len(period') : p2 > Len(period) => period'[p2].via = "app"
      BY <1>1, <1>4, RowsOfTables
    <3>2. QED
      BY <1>2, <1>3, <1>6, <2>1, <3>1, LockKept
  <2>2. CASE step \in {"api_in", "api_out"}
    <3>1. \A r \in Clocker : clockCall[r].step \notin {"api_in", "api_out"}
      BY <2>2 DEF ApiLockFree, AtStep
    <3>2. Open' = Open
      BY <1>1 DEF Open
    <3>3. OneOpenUnderLock'
      BY <1>1, <3>2 DEF OneOpenUnderLock, ClockInv, LockOK
    <3>4. \A r, q \in Clocker :
              clockCall'[r].step \in {"api_in", "api_out"} /\ clockCall'[q].step \in {"api_in", "api_out"}
                  => r = q
      BY <1>6, <3>1
    <3>5. \A r \in Clocker : AtStep(r, "api_in")' => Open' = {}
      BY <1>2, <1>6, <3>1, <3>2 DEF AtStep
    <3>6. QED
      BY <3>3, <3>4, <3>5 DEF LockOK
  <2>3. QED
    BY <2>1, <2>2
<1>8. QED
  BY <1>1, <1>2, <1>3, <1>5, <1>7, StepKeeps

-----------------------------------------------------------------------------
(***************************************************************************)
(* What statements make of the rows.                                       *)
(***************************************************************************)

\* A function on the first n numbers is a sequence.
LEMMA FunctionIsSeq ==
    ASSUME NEW S, NEW n \in Nat, NEW f \in [1..n -> S]
    PROVE  f \in Seq(S) /\ Len(f) = n
<1>1. f \in UNION {[1..m -> S] : m \in Nat}
  OBVIOUS
<1>2. f \in Seq(S)
  BY <1>1, SeqDef
<1>3. DOMAIN f = 1..n /\ DOMAIN f = 1..Len(f) /\ Len(f) \in Nat
  BY <1>2, LenProperties
<1>4. QED
  BY <1>2, <1>3

\* Entries that are inserted.
LEMMA PunchesAdded ==
    ASSUME ClockTypeOK, NEW kinds \in Seq({"in", "out"})
    PROVE  /\ WithPunches(kinds) \in Seq(Punch)
           /\ Len(WithPunches(kinds)) = Len(punch) + Len(kinds)
           /\ \A e \in 1..Len(punch) : WithPunches(kinds)[e] = punch[e]
<1> DEFINE add == [i \in DOMAIN kinds |-> [kind |-> kinds[i], of |-> 0, live |-> TRUE]]
<1>1. DOMAIN kinds = 1..Len(kinds) /\ Len(kinds) \in Nat /\ \A i \in 1..Len(kinds) : kinds[i] \in {"in", "out"}
  OBVIOUS
<1>2. add \in [1..Len(kinds) -> Punch]
  BY <1>1 DEF Punch
<1>3. add \in Seq(Punch) /\ Len(add) = Len(kinds)
  BY <1>1, <1>2, FunctionIsSeq
<1>4. WithPunches(kinds) = punch \o add
  BY DEF WithPunches
<1> HIDE DEF add
<1>5. punch \in Seq(Punch) /\ Len(punch) \in Nat
  BY RowsOfTables
<1>6. /\ punch \o add \in Seq(Punch) /\ Len(punch \o add) = Len(punch) + Len(add)
      /\ \A i \in 1..Len(punch) + Len(add) : (punch \o add)[i] =
             IF i <= Len(punch) THEN punch[i] ELSE add[i - Len(punch)]
  BY <1>3, <1>5, ConcatProperties
<1>7. \A e \in 1..Len(punch) : e \in 1..Len(punch) + Len(add) /\ e <= Len(punch)
  BY <1>1, <1>3, <1>5
<1>8. QED
  BY <1>3, <1>4, <1>6, <1>7

\* Entries that are superseded or activated.
LEMMA SetLiveFields ==
    ASSUME NEW ps \in Seq(Punch), NEW es, NEW live \in BOOLEAN
    PROVE  /\ SetLive(ps, es, live) \in Seq(Punch) /\ Len(SetLive(ps, es, live)) = Len(ps)
           /\ \A e \in 1..Len(ps) : SetLive(ps, es, live)[e].live = IF e \in es THEN live ELSE ps[e].live
<1>1. DOMAIN ps = 1..Len(ps) /\ Len(ps) \in Nat /\ \A e \in 1..Len(ps) : ps[e] \in Punch
  OBVIOUS
<1>2. \A e \in 1..Len(ps) : /\ [ps[e] EXCEPT !.live = live] \in Punch
                            /\ [ps[e] EXCEPT !.live = live].live = live
  BY <1>1 DEF Punch
<1>3. SetLive(ps, es, live) \in [1..Len(ps) -> Punch]
  BY <1>1, <1>2 DEF SetLive
<1>4. \A e \in 1..Len(ps) : SetLive(ps, es, live)[e].live = IF e \in es THEN live ELSE ps[e].live
  BY <1>1, <1>2 DEF SetLive
<1>5. QED
  BY <1>1, <1>3, <1>4, FunctionIsSeq

\* An entry that was just inserted is in no correction.
LEMMA NewKnown ==
    ASSUME ClockInv, correction' = correction, NEW e \in 1..Len(punch'), e > Len(punch)
    PROVE  Known(e)'
<1>1. ClockTypeOK /\ RowsOK
  BY DEF ClockInv
<1>2. ~Drafted(e)'
  <2>1. \A c \in DOMAIN correction : e \notin Ids(c)
    BY <1>1, RowsOfTables DEF RowsOK, Ids
  <2>2. QED
    BY <2>1 DEF Drafted, Ids
<1>3. QED
  BY <1>2 DEF Known

\* Statements on entries and periods: entries get more and no old one is activated,
\* periods stay of their kind and refer to entries that may count.
LEMMA RowsStep ==
    ASSUME ClockInv, correction' = correction,
           punch' \in Seq(Punch), Len(punch) <= Len(punch'),
           \A e \in 1..Len(punch) : punch'[e].live => punch[e].live,
           period' \in Seq(Period), Len(period) <= Len(period'),
           \A p \in 1..Len(period) :
               period'[p].via = period[p].via /\ (period'[p].active => period[p].active),
           \A p \in 1..Len(period') :
               /\ Known(period[p].in)' /\ (period'[p].out = 0 \/ Known(period[p].out)')
               /\ period'[p].active => ~period'[p].ended /\ period'[p].out = 0
    PROVE  Grows /\ RowsOK'
<1>1. ClockTypeOK /\ RowsOK
  BY DEF ClockInv
<1>2. Grows /\ \A e : Drafted(e)' = Drafted(e)
  BY <1>1, GrowsWithoutCorrection
<1>3. \A p \in DOMAIN period' :
          /\ Known(period[p].in)' /\ (period'[p].out = 0 \/ Known(period[p].out)')
          /\ period'[p].active => ~period'[p].ended /\ period'[p].out = 0
  BY <1>2, SequencesGrown
<1>4. \A c \in DOMAIN correction' :
          /\ correction'[c].of \in 1..Len(period')
          /\ correction'[c].in \in 1..Len(punch') /\ correction'[c].out \in 0..Len(punch')
  BY <1>1, <1>2, RowsOfTables, SequencesGrown DEF RowsOK
<1>5. \A c, d \in DOMAIN correction' : c # d => Ids(c)' \cap Ids(d)' = {}
  BY <1>1 DEF RowsOK, Ids
<1>6. \A e \in 1..Len(punch') : Drafted(e)' => ~punch'[e].live
  <2> SUFFICES ASSUME NEW e \in 1..Len(punch'), Drafted(e) PROVE ~punch'[e].live
    BY <1>2
  <2>1. e \in 1..Len(punch)
    BY <1>1, RowsOfTables DEF Drafted, Ids, RowsOK
  <2>2. QED
    BY <1>1, <2>1 DEF RowsOK
<1>7. QED
  BY <1>2, <1>3, <1>4, <1>5, <1>6 DEF RowsOK

\* One period is written ...
LEMMA PeriodWritten ==
    ASSUME ClockInv, correction' = correction,
           punch' \in Seq(Punch), Len(punch) <= Len(punch'),
           \A e \in 1..Len(punch) : punch'[e].live => punch[e].live,
           NEW p \in 1..Len(period), NEW new \in Period, period' = [period EXCEPT ![p] = new],
           new.via = period[p].via, new.active => period[p].active,
           Known(new.in)', new.out = 0 \/ Known(new.out)',
           new.active => ~new.ended /\ new.out = 0
    PROVE  /\ Grows /\ RowsOK'
           /\ \A q \in 1..Len(period') : q > Len(period) => period'[q].via = "app"
<1>1. ClockTypeOK /\ RowsOK
  BY DEF ClockInv
<1>2. /\ period \in Seq(Period) /\ Len(period) \in Nat
      /\ DOMAIN period = 1..Len(period) /\ \A q \in 1..Len(period) : period[q] \in Period
  BY <1>1, RowsOfTables
<1>3. /\ period' \in Seq(Period) /\ Len(period') = Len(period)
      /\ \A q \in 1..Len(period) : period'[q] = IF q = p THEN new ELSE period[q]
  BY <1>2, ExceptSeq
<1>4. Grows
  BY <1>1, <1>2, <1>3, GrowsWithoutCorrection
<1>5. \A q \in 1..Len(period') :
          /\ Known(period[q].in)' /\ (period'[q].out = 0 \/ Known(period[q].out)')
          /\ period'[q].active => ~period'[q].ended /\ period'[q].out = 0
  <2> SUFFICES ASSUME NEW q \in 1..Len(period')
               PROVE  /\ Known(period[q].in)' /\ (period'[q].out = 0 \/ Known(period[q].out)')
                      /\ period'[q].active => ~period'[q].ended /\ period'[q].out = 0
    OBVIOUS
  <2>1. CASE q = p
    BY <1>3, <2>1
  <2>2. CASE q # p
    <3>1. period'[q] = period[q]
      BY <1>3, <2>2
    <3>2. /\ Known(period[q].in) /\ (period[q].out = 0 \/ Known(period[q].out))
          /\ period[q].active => ~period[q].ended /\ period[q].out = 0
      BY <1>1, <1>2, <1>3 DEF RowsOK
    <3>3. \A e : Known(e) => Known(e)'
      BY <1>1, <1>4, KnownGrows
    <3>4. QED
      BY <3>1, <3>2, <3>3
  <2>3. QED
    BY <2>1, <2>2
<1>6. Grows /\ RowsOK'
  BY <1>2, <1>3, <1>4, <1>5, RowsStep DEF Grows
<1>7. QED
  BY <1>2, <1>3, <1>6

\* ... or inserted ...
LEMMA PeriodInserted ==
    ASSUME ClockInv, correction' = correction,
           punch' \in Seq(Punch), Len(punch) <= Len(punch'),
           \A e \in 1..Len(punch) : punch'[e].live => punch[e].live,
           NEW new \in Period, period' = Append(period, new),
           Known(new.in)', new.out = 0 \/ Known(new.out)',
           new.active => ~new.ended /\ new.out = 0
    PROVE  /\ Grows /\ RowsOK' /\ Len(period') = Len(period) + 1
           /\ \A q \in 1..Len(period) : period'[q] = period[q]
           /\ period'[Len(period) + 1] = new
<1>1. ClockTypeOK /\ RowsOK
  BY DEF ClockInv
<1>2. /\ period \in Seq(Period) /\ Len(period) \in Nat
      /\ DOMAIN period = 1..Len(period) /\ \A q \in 1..Len(period) : period[q] \in Period
  BY <1>1, RowsOfTables
<1>3. /\ period' \in Seq(Period) /\ Len(period') = Len(period) + 1
      /\ \A q \in 1..Len(period) : period'[q] = period[q]
      /\ period'[Len(period) + 1] = new
  BY <1>2
<1>4. Grows
  BY <1>1, <1>2, <1>3, GrowsWithoutCorrection
<1>5. \A q \in 1..Len(period') :
          /\ Known(period[q].in)' /\ (period'[q].out = 0 \/ Known(period[q].out)')
          /\ period'[q].active => ~period'[q].ended /\ period'[q].out = 0
  <2> SUFFICES ASSUME NEW q \in 1..Len(period')
               PROVE  /\ Known(period[q].in)' /\ (period'[q].out = 0 \/ Known(period[q].out)')
                      /\ period'[q].active => ~period'[q].ended /\ period'[q].out = 0
    OBVIOUS
  <2>1. CASE q = Len(period) + 1
    BY <1>3, <2>1
  <2>2. CASE q # Len(period) + 1
    <3>1. q \in 1..Len(period) /\ period'[q] = period[q]
      BY <1>2, <1>3, <2>2
    <3>2. /\ Known(period[q].in) /\ (period[q].out = 0 \/ Known(period[q].out))
          /\ period[q].active => ~period[q].ended /\ period[q].out = 0
      BY <1>1, <1>2, <3>1 DEF RowsOK
    <3>3. \A e : Known(e) => Known(e)'
      BY <1>1, <1>4, KnownGrows
    <3>4. QED
      BY <3>1, <3>2, <3>3
  <2>3. QED
    BY <2>1, <2>2
<1>6. Grows /\ RowsOK'
  BY <1>2, <1>3, <1>4, <1>5, RowsStep DEF Grows
<1>7. QED
  BY <1>3, <1>6

\* ... or none is touched.
LEMMA PeriodsUntouched ==
    ASSUME ClockInv, correction' = correction, period' = period,
           punch' \in Seq(Punch), Len(punch) <= Len(punch'),
           \A e \in 1..Len(punch) : punch'[e].live => punch[e].live
    PROVE  /\ Grows /\ RowsOK'
           /\ \A q \in 1..Len(period') : q > Len(period) => period'[q].via = "app"
<1>1. ClockTypeOK /\ RowsOK
  BY DEF ClockInv
<1>2. Grows
  BY <1>1, RowsOfTables, GrowsWithoutCorrection
<1>3. \A e : Known(e) => Known(e)'
  BY <1>1, <1>2, KnownGrows
<1>4. \A q \in 1..Len(period') :
          /\ Known(period[q].in)' /\ (period'[q].out = 0 \/ Known(period[q].out)')
          /\ period'[q].active => ~period'[q].ended /\ period'[q].out = 0
  <2> SUFFICES ASSUME NEW q \in 1..Len(period)
               PROVE  /\ Known(period[q].in)' /\ (period[q].out = 0 \/ Known(period[q].out)')
                      /\ period[q].active => ~period[q].ended /\ period[q].out = 0
    OBVIOUS
  <2>1. /\ Known(period[q].in) /\ (period[q].out = 0 \/ Known(period[q].out))
        /\ period[q].active => ~period[q].ended /\ period[q].out = 0
    BY <1>1, RowsOfTables DEF RowsOK
  <2>2. QED
    BY <1>3, <2>1
<1>5. Grows /\ RowsOK'
  BY <1>1, <1>2, <1>4, RowsOfTables, RowsStep DEF Grows
<1>6. QED
  BY <1>1, <1>5, RowsOfTables

-----------------------------------------------------------------------------
(***************************************************************************)
(* The actions.                                                            *)
(***************************************************************************)

\* What an invariant says of the call that steps.
LEMMA CallFacts ==
    ASSUME ClockInv, NEW s \in Clocker, clockCall[s].step # "off"
    PROVE  /\ ClockTypeOK /\ RowsOK /\ LockOK /\ CallOK(s)
           /\ clockCall[s] \in Busy
           /\ clockCall[s].p \in 0..Len(period) /\ Len(period) \in Nat
           /\ clockCall[s].step \notin NoPeriodYet => clockCall[s].p \in 1..Len(period)
           /\ Len(clockCall[s].es) \in Nat /\ Len(clockCall[s].es) >= Inserted(clockCall[s].step)
           /\ \A i \in 1..Len(clockCall[s].es) : Known(clockCall[s].es[i])
           /\ clockCall[s].p # 0 => /\ Known(clockCall[s].was.in)
                                    /\ clockCall[s].was.out = 0 \/ Known(clockCall[s].was.out)
           /\ calls \in 0..MaxCalls /\ unsettled \in BOOLEAN
<1>1. ClockTypeOK /\ RowsOK /\ LockOK /\ CallOK(s) /\ calls \in 0..MaxCalls /\ unsettled \in BOOLEAN
  BY DEF ClockInv, ClockTypeOK
<1>2. clockCall[s] \in Busy /\ Len(clockCall[s].es) \in Nat /\ Len(period) \in Nat
  BY <1>1, BusyCall, RowsOfTables
<1>3. QED
  BY <1>1, <1>2 DEF CallOK

\* The calls that begin.
LEMMA BeginActions ==
    ASSUME ClockInv, NEW s \in Clocker,
           \/ CheckIn(s) \/ CheckManual(s) \/ ApiBegin(s) \/ CheckOut(s) \/ CheckSplit(s)
           \/ CheckEnforce(s) \/ CheckEdit(s) \/ CheckRequest(s) \/ CheckApprove(s)
    PROVE  ClockInv'
<1>1. ClockTypeOK /\ RowsOK /\ Len(period) \in Nat /\ DOMAIN period = 1..Len(period)
  BY RowsOfTables DEF ClockInv
<1>2. ASSUME NEW p \in 0..Len(period), NEW step \in AnyStep, Begin(s, ActingOn(p, step)),
             step \notin NoPeriodYet => p # 0, Inserted(step) = 0,
             step \in OnClosed => ~period[p].active, step # "approve",
             step \in {"api_in", "api_out"} => ApiLockFree, step = "api_in" => Open = {}
      PROVE  ClockInv'
  <2>1. 0 \in Nat
    OBVIOUS
  <2>2. ActingOn(p, step) = [ActingOn(p, step) EXCEPT !.c = 0]
    BY DEF ActingOn
  <2>3. PICK c \in Nat : Begin(s, [ActingOn(p, step) EXCEPT !.c = c])
    BY <1>2, <2>1, <2>2
  <2>4. step = "approve" => c \in DOMAIN correction
    BY <1>2
  <2>5. QED
    BY <1>2, <2>3, <2>4, BeginKeeps
<1>3. CASE CheckIn(s) \/ CheckManual(s)
  <2>1. PICK step \in {"clock_in", "manual"} : Begin(s, ActingOn(0, step))
    BY <1>3 DEF CheckIn, CheckManual
  <2>2. /\ step \in AnyStep /\ step \in NoPeriodYet /\ Inserted(step) = 0 /\ step \notin OnClosed
        /\ step \notin {"api_in", "api_out", "approve"}
    BY DEF AnyStep, NoPeriodYet, Inserted, OnClosed
  <2>3. 0 \in 0..Len(period)
    BY <1>1
  <2>4. QED
    BY <1>2, <2>1, <2>2, <2>3
<1>4. CASE ApiBegin(s)
  <2>1. CASE Open = {} /\ Begin(s, ActingOn(0, "api_in"))
    <3>1. 0 \in 0..Len(period) /\ ApiLockFree
      BY <1>1, <1>4 DEF ApiBegin
    <3>2. /\ "api_in" \in AnyStep /\ "api_in" \in NoPeriodYet /\ Inserted("api_in") = 0
          /\ "api_in" \notin OnClosed
      BY DEF AnyStep, NoPeriodYet, Inserted, OnClosed
    <3>3. QED
      BY <1>2, <2>1, <3>1, <3>2
  <2>2. ASSUME NEW p \in Open, Begin(s, ActingOn(p, "api_out"))
        PROVE  ClockInv'
    <3>1. p \in 0..Len(period) /\ p # 0 /\ ApiLockFree
      BY <1>1, <1>4 DEF ApiBegin, Open
    <3>2. "api_out" \in AnyStep /\ Inserted("api_out") = 0 /\ "api_out" \notin OnClosed
      BY DEF AnyStep, Inserted, OnClosed
    <3>3. QED
      BY <1>2, <2>2, <3>1, <3>2
  <2>3. QED
    BY <1>4, <2>1, <2>2 DEF ApiBegin
<1>5. CASE CheckOut(s)
  <2>1. PICK p \in WithoutEnd, step \in {"web_out", "bot_out", "app_out", "break"} :
            Begin(s, ActingOn(p, step))
    BY <1>5 DEF CheckOut
  <2>2. p \in 0..Len(period) /\ p # 0
    BY <1>1 DEF WithoutEnd
  <2>3. /\ step \in AnyStep /\ Inserted(step) = 0 /\ step \notin OnClosed
        /\ step \notin {"api_in", "api_out", "approve"}
    BY DEF AnyStep, Inserted, OnClosed
  <2>4. QED
    BY <1>2, <2>1, <2>2, <2>3
<1>6. CASE CheckSplit(s) \/ CheckEnforce(s) \/ CheckEdit(s)
  <2>1. PICK p \in DOMAIN period, step \in {"split", "enforce", "edit_in"} :
            Begin(s, ActingOn(p, step)) /\ (period[p].ended \/ ~period[p].active)
    BY <1>6 DEF CheckSplit, CheckEnforce, CheckEdit
  <2>2. p \in 0..Len(period) /\ p # 0
    BY <1>1
  <2>3. ~period[p].active
    BY <1>1, <2>1 DEF RowsOK
  <2>4. /\ step \in AnyStep /\ Inserted(step) = 0
        /\ step \notin {"api_in", "api_out", "approve"}
    BY DEF AnyStep, Inserted
  <2>5. QED
    BY <1>2, <2>1, <2>2, <2>3, <2>4
<1>7. CASE CheckRequest(s)
  <2>1. PICK p \in DOMAIN period, step \in {"ask_edit", "ask_delete"} : Begin(s, ActingOn(p, step))
    BY <1>7 DEF CheckRequest
  <2>2. p \in 0..Len(period) /\ p # 0
    BY <1>1
  <2>3. /\ step \in AnyStep /\ Inserted(step) = 0 /\ step \notin OnClosed
        /\ step \notin {"api_in", "api_out", "approve"}
    BY DEF AnyStep, Inserted, OnClosed
  <2>4. QED
    BY <1>2, <2>1, <2>2, <2>3
<1>8. CASE CheckApprove(s)
  <2>1. PICK c \in DOMAIN correction : Begin(s, [ActingOn(correction[c].of, "approve") EXCEPT !.c = c])
    BY <1>8 DEF CheckApprove
  <2>2. c \in Nat /\ correction[c].of \in 0..Len(period) /\ correction[c].of # 0
    BY <1>1, RowsOfTables DEF RowsOK
  <2>3. "approve" \in AnyStep /\ Inserted("approve") = 0 /\ "approve" \notin OnClosed
    BY DEF AnyStep, Inserted, OnClosed
  <2>4. QED
    BY <2>1, <2>2, <2>3, BeginKeeps
<1>9. QED
  BY <1>3, <1>4, <1>5, <1>6, <1>7, <1>8

\* A call that is refused or dies.
LEMMA EndActions ==
    ASSUME ClockInv, NEW s \in Clocker, Refuse(s) \/ Die(s)
    PROVE  ClockInv'
<1>1. /\ End(s) /\ UNCHANGED <<period, punch, correction>> /\ calls' = calls
      /\ unsettled' \in {TRUE, unsettled}
  BY DEF Refuse, Die
<1>2. ClockTypeOK
  BY DEF ClockInv
<1>3. calls' \in 0..MaxCalls /\ unsettled' \in BOOLEAN
  BY <1>1, <1>2 DEF ClockTypeOK
<1>4. Grows /\ RowsOK'
  BY <1>1, RowsUnchanged
<1>5. \A q \in 1..Len(period') : q > Len(period) => period'[q].via = "app"
  BY <1>1, <1>2, RowsOfTables
<1>6. QED
  BY <1>1, <1>3, <1>4, <1>5, EndKeeps

\* A call that has inserted entries and goes on with them.
LEMMA PunchGo ==
    ASSUME ClockInv, NEW s \in Clocker, clockCall[s].step # "off", NEW step \in AnyStep,
           NEW es \in Seq(Nat), GoWith(s, step, es),
           \A j \in 1..Len(es) : es[j] \in 1..Len(punch') /\ es[j] > Len(punch),
           UNCHANGED <<period, correction, calls, unsettled>>,
           punch' \in Seq(Punch), Len(punch) <= Len(punch'),
           \A e \in 1..Len(punch) : punch'[e].live => punch[e].live,
           step \notin {"api_in", "api_out", "approve"},
           step \notin NoPeriodYet => clockCall[s].p # 0,
           Len(clockCall[s].es) + Len(es) >= Inserted(step),
           step \in OnClosed => ~period[clockCall[s].p].active
    PROVE  ClockInv'
<1>1. /\ Grows /\ RowsOK'
      /\ \A q \in 1..Len(period') : q > Len(period) => period'[q].via = "app"
  BY PeriodsUntouched
<1>2. ClockTypeOK /\ (\A i \in 1..Len(clockCall[s].es) : Known(clockCall[s].es[i]))
      /\ calls \in 0..MaxCalls /\ unsettled \in BOOLEAN
  BY CallFacts
<1>3. PICK new \in Busy : /\ WentOn(clockCall[s], step, es, new)
                          /\ clockCall' = [clockCall EXCEPT ![s] = new]
  BY <1>2, GoWithFields
<1>4. \A e : Known(e) => Known(e)'
  BY <1>1, <1>2, KnownGrows
<1>5. \A j \in 1..Len(es) : Known(es[j])'
  BY NewKnown
<1>6. \A i \in 1..Len(new.es) : Known(new.es[i])'
  BY <1>2, <1>3, <1>4, <1>5 DEF WentOn
<1>7. /\ step # "off" /\ new.step = step /\ new.p = clockCall[s].p /\ new.was = clockCall[s].was
      /\ Len(new.es) = Len(clockCall[s].es) + Len(es)
  BY <1>3 DEF AnyStep, WentOn
<1>8. QED
  BY <1>1, <1>2, <1>3, <1>6, <1>7, ContinueKeeps

\* The steps that insert entries and nothing else.
LEMMA PunchActions ==
    ASSUME ClockInv, NEW s \in Clocker,
           PunchIn(s) \/ PunchManual(s) \/ PunchOut(s) \/ PunchSplit(s)
    PROVE  ClockInv'
<1>1. clockCall[s].step # "off"
  BY DEF PunchIn, PunchManual, PunchOut, PunchSplit, AtStep
<1>2. /\ ClockTypeOK /\ RowsOK /\ CallOK(s) /\ Len(clockCall[s].es) \in Nat /\ Len(punch) \in Nat
      /\ Len(clockCall[s].es) >= 0
  BY <1>1, CallFacts, RowsOfTables
<1>3. ASSUME NEW kinds \in Seq({"in", "out"}), NEW n \in {1, 2}, Len(kinds) = n, NEW es \in Seq(Nat),
             Len(es) = n, \A j \in 1..n : es[j] = Len(punch) + j,
             punch' = WithPunches(kinds), NEW step \in AnyStep, GoWith(s, step, es),
             UNCHANGED <<period, correction, calls, unsettled>>,
             step \notin {"api_in", "api_out", "approve"}, n >= Inserted(step),
             step \notin NoPeriodYet => clockCall[s].p # 0,
             step \in OnClosed => ~period[clockCall[s].p].active
      PROVE  ClockInv'
  <2>1. /\ punch' \in Seq(Punch) /\ Len(punch') = Len(punch) + n
        /\ \A e \in 1..Len(punch) : punch'[e] = punch[e]
    BY <1>2, <1>3, PunchesAdded
  <2>2. /\ Len(punch) <= Len(punch')
        /\ \A e \in 1..Len(punch) : punch'[e].live => punch[e].live
    BY <1>2, <2>1
  <2>3. \A j \in 1..Len(es) : es[j] \in 1..Len(punch') /\ es[j] > Len(punch)
    BY <1>2, <1>3, <2>1
  <2>4. Inserted(step) \in Nat /\ Len(clockCall[s].es) + Len(es) >= Inserted(step)
    BY <1>2, <1>3 DEF Inserted
  <2>5. QED
    BY <1>1, <1>3, <2>1, <2>2, <2>3, <2>4, PunchGo
<1>4. CASE PunchIn(s)
  <2>1. <<"in">> \in Seq({"in", "out"}) /\ Len(<<"in">>) = 1 /\ 1 \in {1, 2}
    OBVIOUS
  <2>2. /\ <<New(1)>> \in Seq(Nat) /\ Len(<<New(1)>>) = 1
        /\ \A j \in 1..1 : <<New(1)>>[j] = Len(punch) + j
    BY <1>2 DEF New
  <2>3. /\ "clock_in_period" \in AnyStep /\ 1 >= Inserted("clock_in_period")
        /\ "clock_in_period" \in NoPeriodYet /\ "clock_in_period" \notin OnClosed
    BY DEF AnyStep, Inserted, NoPeriodYet, OnClosed
  <2>4. /\ punch' = WithPunches(<<"in">>) /\ GoWith(s, "clock_in_period", <<New(1)>>)
        /\ UNCHANGED <<period, correction, calls, unsettled>>
    BY <1>4 DEF PunchIn
  <2>5. QED
    BY <1>3, <2>1, <2>2, <2>3, <2>4
<1>5. CASE PunchOut(s)
  <2>1. <<"out">> \in Seq({"in", "out"}) /\ Len(<<"out">>) = 1 /\ 1 \in {1, 2}
    OBVIOUS
  <2>2. /\ <<New(1)>> \in Seq(Nat) /\ Len(<<New(1)>>) = 1
        /\ \A j \in 1..1 : <<New(1)>>[j] = Len(punch) + j
    BY <1>2 DEF New
  <2>3. /\ "web_out_update" \in AnyStep /\ 1 >= Inserted("web_out_update")
        /\ "web_out_update" \notin OnClosed
    BY DEF AnyStep, Inserted, OnClosed
  <2>4. /\ punch' = WithPunches(<<"out">>) /\ GoWith(s, "web_out_update", <<New(1)>>)
        /\ UNCHANGED <<period, correction, calls, unsettled>> /\ clockCall[s].step = "web_out"
    BY <1>5 DEF PunchOut, AtStep
  <2>5. clockCall[s].p # 0
    BY <1>2, <2>4 DEF CallOK, NoPeriodYet
  <2>6. QED
    BY <1>3, <2>1, <2>2, <2>3, <2>4, <2>5
<1>6. <<New(1), New(2)>> \in Seq(Nat) /\ Len(<<New(1), New(2)>>) = 2
      /\ (\A j \in 1..2 : <<New(1), New(2)>>[j] = Len(punch) + j) /\ 2 \in {1, 2}
  BY <1>2 DEF New
<1>7. CASE PunchManual(s)
  <2>1. <<"in", "out">> \in Seq({"in", "out"}) /\ Len(<<"in", "out">>) = 2
    OBVIOUS
  <2>2. /\ "manual_period" \in AnyStep /\ 2 >= Inserted("manual_period")
        /\ "manual_period" \in NoPeriodYet /\ "manual_period" \notin OnClosed
    BY DEF AnyStep, Inserted, NoPeriodYet, OnClosed
  <2>3. /\ punch' = WithPunches(<<"in", "out">>) /\ GoWith(s, "manual_period", <<New(1), New(2)>>)
        /\ UNCHANGED <<period, correction, calls, unsettled>>
    BY <1>7 DEF PunchManual
  <2>4. QED
    BY <1>3, <1>6, <2>1, <2>2, <2>3
<1>8. CASE PunchSplit(s)
  <2>1. <<"out", "in">> \in Seq({"in", "out"}) /\ Len(<<"out", "in">>) = 2
    OBVIOUS
  <2>2. PICK step \in {"split_update", "split_notes"} : GoWith(s, step, <<New(1), New(2)>>)
    BY <1>8 DEF PunchSplit
  <2>3. step \in AnyStep /\ 2 >= Inserted(step) /\ step \notin {"api_in", "api_out", "approve"}
    BY DEF AnyStep, Inserted
  <2>4. /\ punch' = WithPunches(<<"out", "in">>)
        /\ UNCHANGED <<period, correction, calls, unsettled>> /\ clockCall[s].step = "split"
    BY <1>8 DEF PunchSplit, AtStep
  <2>5. clockCall[s].p # 0 /\ ~period[clockCall[s].p].active
    BY <1>2, <2>4 DEF CallOK, NoPeriodYet, OnClosed
  <2>6. QED
    BY <1>3, <1>6, <2>1, <2>2, <2>3, <2>4, <2>5
<1>9. QED
  BY <1>4, <1>5, <1>7, <1>8

\* An entry that may count does so however many are inserted.
LEMMA KnownStays ==
    ASSUME ClockTypeOK, correction' = correction, punch' \in Seq(Punch), Len(punch) <= Len(punch')
    PROVE  \A e : Known(e) => Known(e)'
BY RowsOfTables DEF Known, Drafted, Ids

\* One entry that is inserted.
LEMMA OnePunch ==
    ASSUME ClockInv, correction' = correction, NEW kind \in {"in", "out"}, punch' = WithPunches(<<kind>>)
    PROVE  /\ punch' \in Seq(Punch) /\ Len(punch) <= Len(punch')
           /\ \A e \in 1..Len(punch) : punch'[e].live => punch[e].live
           /\ \E n \in Nat : n = New(1) /\ Known(n)'
<1>1. ClockTypeOK /\ Len(punch) \in Nat
  BY RowsOfTables DEF ClockInv
<1>2. <<kind>> \in Seq({"in", "out"}) /\ Len(<<kind>>) = 1
  OBVIOUS
<1>3. /\ punch' \in Seq(Punch) /\ Len(punch') = Len(punch) + 1
      /\ \A e \in 1..Len(punch) : punch'[e] = punch[e]
  BY <1>1, <1>2, PunchesAdded
<1>4. PICK n \in Nat : n = Len(punch) + 1
  BY <1>1
<1>5. n \in 1..Len(punch') /\ n > Len(punch)
  BY <1>1, <1>3, <1>4
<1>6. Known(n)'
  BY <1>5, NewKnown
<1>7. QED
  BY <1>1, <1>3, <1>4, <1>6 DEF New

\* The rows that calls insert.
LEMMA OpenMade ==
    ASSUME NEW e \in Nat, NEW via \in {"api", "app"}
    PROVE  /\ OpenPeriod(e, via) \in Period
           /\ OpenPeriod(e, via).in = e /\ OpenPeriod(e, via).out = 0
           /\ ~OpenPeriod(e, via).ended /\ OpenPeriod(e, via).via = via
<1>1. 0 \in Nat
  OBVIOUS
<1>2. QED
  BY <1>1 DEF OpenPeriod, Period

LEMMA ClosedMade ==
    ASSUME NEW e \in Nat, NEW f \in Nat, NEW adjusted \in BOOLEAN
    PROVE  /\ ClosedPeriod(e, f, adjusted) \in Period
           /\ ClosedPeriod(e, f, adjusted).in = e /\ ClosedPeriod(e, f, adjusted).out = f
           /\ ~ClosedPeriod(e, f, adjusted).active /\ ClosedPeriod(e, f, adjusted).via = "app"
BY DEF OpenPeriod, ClosedPeriod, Period

\* The period of a clock-in or of a manual entry.
LEMMA InsertPeriodKeeps ==
    ASSUME ClockInv, NEW s \in Clocker, InsertPeriod(s)
    PROVE  ClockInv'
<1>1. /\ clockCall[s].step \in {"clock_in_period", "manual_period"} /\ End(s)
      /\ UNCHANGED <<punch, correction, calls, unsettled>>
  BY DEF InsertPeriod, AtStep
<1>2. /\ ClockTypeOK /\ Len(clockCall[s].es) \in Nat
      /\ Len(clockCall[s].es) >= Inserted(clockCall[s].step)
      /\ \A i \in 1..Len(clockCall[s].es) : Known(clockCall[s].es[i])
      /\ calls \in 0..MaxCalls /\ unsettled \in BOOLEAN
  BY <1>1, CallFacts
<1>3. \A e : Known(e) => e \in Nat
  BY <1>2, RowsOfTables DEF Known
<1>4. PICK new \in Period :
          /\ period' = Append(period, new) /\ new.via = "app"
          /\ Known(new.in) /\ (new.out = 0 \/ Known(new.out))
          /\ new.active => ~new.ended /\ new.out = 0
  <2>1. CASE clockCall[s].step = "clock_in_period"
    <3>1. Known(clockCall[s].es[1])
      BY <1>2, <2>1 DEF Inserted
    <3>2. PICK e \in Nat : e = clockCall[s].es[1]
      BY <1>3, <3>1
    <3> DEFINE new == OpenPeriod(e, "app")
    <3>3. period' = Append(period, new)
      BY <2>1, <3>2 DEF InsertPeriod, AtStep
    <3>4. /\ new \in Period /\ new.via = "app" /\ new.in = e /\ new.out = 0 /\ ~new.ended
      BY OpenMade, "app" \in {"api", "app"}
    <3> HIDE DEF new
    <3>5. QED
      BY <3>1, <3>2, <3>3, <3>4
  <2>2. CASE clockCall[s].step = "manual_period"
    <3>1. Known(clockCall[s].es[1]) /\ Known(clockCall[s].es[2])
      BY <1>2, <2>2 DEF Inserted
    <3>2. PICK e \in Nat, f \in Nat : e = clockCall[s].es[1] /\ f = clockCall[s].es[2]
      BY <1>3, <3>1
    <3> DEFINE new == ClosedPeriod(e, f, FALSE)
    <3>3. period' = Append(period, new)
      BY <2>2, <3>2 DEF InsertPeriod, AtStep
    <3>4. /\ new \in Period /\ new.via = "app" /\ new.in = e /\ new.out = f /\ ~new.active
      BY ClosedMade, FALSE \in BOOLEAN
    <3> HIDE DEF new
    <3>5. QED
      BY <3>1, <3>2, <3>3, <3>4
  <2>3. QED
    BY <1>1, <2>1, <2>2
<1>5. punch' \in Seq(Punch) /\ Len(punch) <= Len(punch') /\ Len(period) \in Nat
  BY <1>1, <1>2, RowsOfTables
<1>6. Known(new.in)' /\ (new.out = 0 \/ Known(new.out)')
  BY <1>1, <1>2, <1>4, <1>5, KnownStays
<1>7. /\ Grows /\ RowsOK' /\ Len(period') = Len(period) + 1
      /\ period'[Len(period) + 1] = new
  BY <1>1, <1>4, <1>5, <1>6, PeriodInserted
<1>8. \A q \in 1..Len(period') : q > Len(period) => period'[q].via = "app"
  BY <1>4, <1>5, <1>7
<1>9. QED
  BY <1>1, <1>2, <1>7, <1>8, EndKeeps

\* A period that is closed.
LEMMA CloseKeeps ==
    ASSUME ClockInv, NEW p \in 1..Len(period), NEW e \in Nat, Close(p, e), Known(e)',
           correction' = correction, punch' \in Seq(Punch), Len(punch) <= Len(punch'),
           \A f \in 1..Len(punch) : punch'[f].live => punch[f].live
    PROVE  /\ Grows /\ RowsOK' /\ ~period'[p].active
           /\ \A q \in 1..Len(period') : q > Len(period) => period'[q].via = "app"
<1>1. /\ ClockTypeOK /\ RowsOK /\ period[p] \in Period /\ Known(period[p].in)
      /\ DOMAIN period = 1..Len(period)
  BY RowsOfTables DEF ClockInv, RowsOK
<1> DEFINE row == [period[p] EXCEPT !.out = e, !.active = FALSE, !.ended = TRUE]
<1>2. /\ row \in Period /\ row.via = period[p].via /\ row.in = period[p].in /\ row.out = e
      /\ ~row.active
  BY <1>1 DEF Period
<1>3. period' = [period EXCEPT ![p] = row]
  BY DEF Close
<1> HIDE DEF row
<1>4. PICK new \in Period :
          /\ period' = [period EXCEPT ![p] = new] /\ new.via = period[p].via /\ Known(new.in)
          /\ new.out = e /\ ~new.active
  BY <1>1, <1>2, <1>3
<1>5. Known(new.in)' /\ (new.out = 0 \/ Known(new.out)')
  BY <1>1, <1>4, KnownStays
<1>6. /\ Grows /\ RowsOK'
      /\ \A q \in 1..Len(period') : q > Len(period) => period'[q].via = "app"
  BY <1>4, <1>5, PeriodWritten
<1>7. ~period'[p].active
  BY <1>1, <1>4
<1>8. QED
  BY <1>6, <1>7

\* The API, the app and the bot close a period with an entry of the same statement block.
LEMMA CloseWithPunch ==
    ASSUME ClockInv, NEW s \in Clocker, CloseIfOpen(s) \/ BotClose(s)
    PROVE  ClockInv'
<1>1. CASE CloseIfOpen(s) /\ Refuse(s)
  BY <1>1, EndActions
<1>2. CASE /\ clockCall[s].step \in {"api_out", "app_out", "bot_out"}
           /\ punch' = WithPunches(<<"out">>) /\ Close(clockCall[s].p, New(1)) /\ End(s)
           /\ UNCHANGED <<correction, calls, unsettled>>
  <2>1. /\ clockCall[s].p \in 1..Len(period) /\ calls \in 0..MaxCalls /\ unsettled \in BOOLEAN
    BY <1>2, CallFacts DEF NoPeriodYet
  <2>2. /\ punch' \in Seq(Punch) /\ Len(punch) <= Len(punch')
        /\ \A f \in 1..Len(punch) : punch'[f].live => punch[f].live
    BY <1>2, OnePunch
  <2>3. PICK n \in Nat : n = New(1) /\ Known(n)'
    BY <1>2, OnePunch
  <2>4. PICK p \in 1..Len(period) : p = clockCall[s].p
    BY <2>1
  <2>5. Close(p, n)
    BY <1>2, <2>3, <2>4
  <2>6. /\ Grows /\ RowsOK'
        /\ \A q \in 1..Len(period') : q > Len(period) => period'[q].via = "app"
    BY <1>2, <2>2, <2>3, <2>5, CloseKeeps
  <2>7. QED
    BY <1>2, <2>1, <2>6, EndKeeps
<1>3. QED
  BY <1>1, <1>2 DEF CloseIfOpen, BotClose, AtStep

\* The browser closes it in a later statement, and may go on to the break rule.
LEMMA WebCloseKeeps ==
    ASSUME ClockInv, NEW s \in Clocker, WebClose(s)
    PROVE  ClockInv'
<1>1. /\ clockCall[s].step = "web_out_update" /\ clockCall[s].step # "off"
      /\ Close(clockCall[s].p, clockCall[s].es[1]) /\ (End(s) \/ Go(s, "enforce"))
      /\ UNCHANGED <<punch, correction, calls, unsettled>>
  BY DEF WebClose, AtStep
<1>2. /\ ClockTypeOK /\ clockCall[s].p \in 1..Len(period) /\ Len(clockCall[s].es) \in Nat
      /\ Len(clockCall[s].es) >= 1 /\ \A i \in 1..Len(clockCall[s].es) : Known(clockCall[s].es[i])
      /\ calls \in 0..MaxCalls /\ unsettled \in BOOLEAN
  BY <1>1, CallFacts DEF NoPeriodYet, Inserted
<1>3. punch' \in Seq(Punch) /\ Len(punch) <= Len(punch') /\ Close(clockCall[s].p, clockCall[s].es[1])
  BY <1>1, <1>2, RowsOfTables DEF WebClose
<1>4. PICK e \in Nat : e = clockCall[s].es[1] /\ Known(e)
  BY <1>2, RowsOfTables DEF Known
<1>5. PICK p \in 1..Len(period) : p = clockCall[s].p
  BY <1>2
<1>6. Known(e)' /\ \A f \in 1..Len(punch) : punch'[f].live => punch[f].live
  BY <1>1, <1>2, <1>3, <1>4, KnownStays
<1>7. Close(p, e)
  BY <1>3, <1>4, <1>5
<1>8. /\ Grows /\ RowsOK' /\ ~period'[p].active
      /\ \A q \in 1..Len(period') : q > Len(period) => period'[q].via = "app"
  BY <1>1, <1>3, <1>6, <1>7, CloseKeeps
<1>9. CASE End(s)
  BY <1>1, <1>2, <1>8, <1>9, EndKeeps
<1>10. CASE Go(s, "enforce")
  <2>1. "enforce" \in AnyStep /\ Inserted("enforce") = 0
    BY DEF AnyStep, Inserted
  <2>2. PICK new \in Busy :
            /\ new.step = "enforce" /\ new.p = clockCall[s].p /\ new.was = clockCall[s].was
            /\ new.es = clockCall[s].es /\ clockCall' = [clockCall EXCEPT ![s] = new]
    BY <1>1, <1>2, <1>10, <2>1, GoFields
  <2>3. \A i \in 1..Len(new.es) : Known(new.es[i])'
    BY <1>1, <1>2, <1>3, <2>2, KnownStays
  <2>4. Len(new.es) >= Inserted(new.step)
    BY <1>2, <2>1, <2>2
  <2>5. ~period'[clockCall[s].p].active /\ clockCall[s].p # 0
    BY <1>2, <1>5, <1>8
  <2>6. QED
    BY <1>1, <1>2, <1>8, <2>2, <2>3, <2>4, <2>5, ContinueKeeps
<1>11. QED
  BY <1>9, <1>10 DEF WebClose

\* Entries that are superseded.
LEMMA Superseded ==
    ASSUME NEW ps \in Seq(Punch), NEW es
    PROVE  /\ SetLive(ps, es, FALSE) \in Seq(Punch) /\ Len(SetLive(ps, es, FALSE)) = Len(ps)
           /\ \A e \in 1..Len(ps) : SetLive(ps, es, FALSE)[e].live => ps[e].live
<1>1. PICK no \in BOOLEAN : no = FALSE
  OBVIOUS
<1>2. /\ SetLive(ps, es, no) \in Seq(Punch) /\ Len(SetLive(ps, es, no)) = Len(ps)
      /\ \A e \in 1..Len(ps) : SetLive(ps, es, no)[e].live = IF e \in es THEN no ELSE ps[e].live
  BY SetLiveFields
<1>3. \A e \in 1..Len(ps) : SetLive(ps, es, no)[e].live => ps[e].live
  BY <1>1, <1>2
<1>4. SetLive(ps, es, FALSE) = SetLive(ps, es, no)
  BY <1>1
<1>5. QED
  BY <1>2, <1>3, <1>4

\* A call that goes on to its next step with what it has.
LEMMA GoKeeps ==
    ASSUME ClockInv, NEW s \in Clocker, clockCall[s].step # "off", NEW step \in AnyStep, Go(s, step),
           Grows, RowsOK', calls' \in 0..MaxCalls, unsettled' \in BOOLEAN,
           \A p \in 1..Len(period') : p > Len(period) => period'[p].via = "app",
           step \notin {"api_in", "api_out", "approve"},
           step \notin NoPeriodYet => clockCall[s].p # 0,
           Len(clockCall[s].es) >= Inserted(step),
           step \in OnClosed => ~period'[clockCall[s].p].active
    PROVE  ClockInv'
<1>1. ClockTypeOK /\ \A i \in 1..Len(clockCall[s].es) : Known(clockCall[s].es[i])
  BY CallFacts
<1>2. PICK new \in Busy :
          /\ new.step = step /\ new.p = clockCall[s].p /\ new.was = clockCall[s].was
          /\ new.es = clockCall[s].es /\ clockCall' = [clockCall EXCEPT ![s] = new]
  BY <1>1, GoFields
<1>3. \A i \in 1..Len(new.es) : Known(new.es[i])'
  BY <1>1, <1>2, KnownGrows
<1>4. step # "off"
  BY DEF AnyStep
<1>5. QED
  BY <1>2, <1>3, <1>4, ContinueKeeps

\* The clock-out a split supersedes, and the period it shortens.
LEMMA SplitNotesKeeps ==
    ASSUME ClockInv, NEW s \in Clocker, SplitNotes(s)
    PROVE  ClockInv'
<1>1. /\ clockCall[s].step = "split_notes" /\ clockCall[s].step # "off" /\ Go(s, "split_update")
      /\ punch' = SetLive(punch, {clockCall[s].was.out}, FALSE) /\ unsettled' = TRUE
      /\ UNCHANGED <<period, correction, calls>>
  BY DEF SplitNotes, AtStep
<1>2. /\ ClockTypeOK /\ CallOK(s) /\ clockCall[s].p \in 1..Len(period)
      /\ Len(clockCall[s].es) >= 2 /\ calls \in 0..MaxCalls
      /\ punch \in Seq(Punch) /\ Len(punch) \in Nat /\ Len(period) \in Nat
  BY <1>1, CallFacts, RowsOfTables DEF NoPeriodYet, Inserted
<1>3. /\ punch' \in Seq(Punch) /\ Len(punch) <= Len(punch')
      /\ \A e \in 1..Len(punch) : punch'[e].live => punch[e].live
  <2>1. PICK es : es = {clockCall[s].was.out}
    OBVIOUS
  <2>2. /\ SetLive(punch, es, FALSE) \in Seq(Punch) /\ Len(SetLive(punch, es, FALSE)) = Len(punch)
        /\ \A e \in 1..Len(punch) : SetLive(punch, es, FALSE)[e].live => punch[e].live
    BY <1>2, Superseded
  <2>3. punch' = SetLive(punch, es, FALSE)
    BY <1>1, <2>1
  <2>4. Len(punch') = Len(punch)
    BY <2>2, <2>3
  <2>5. Len(punch) <= Len(punch')
    BY <1>2, <2>4
  <2>6. QED
    BY <2>2, <2>3, <2>5, Zenon
<1>4. /\ Grows /\ RowsOK'
      /\ \A q \in 1..Len(period') : q > Len(period) => period'[q].via = "app"
  BY <1>1, <1>3, PeriodsUntouched
<1>5. ~period'[clockCall[s].p].active
  BY <1>1, <1>2 DEF CallOK, OnClosed
<1>6. /\ "split_update" \in AnyStep /\ Inserted("split_update") = 2 /\ clockCall[s].p # 0
      /\ "split_update" \notin {"api_in", "api_out", "approve"}
  BY <1>2 DEF AnyStep, Inserted
<1>7. QED
  BY <1>1, <1>2, <1>4, <1>5, <1>6, GoKeeps

LEMMA SplitUpdateKeeps ==
    ASSUME ClockInv, NEW s \in Clocker, SplitUpdate(s)
    PROVE  ClockInv'
<1>1. /\ clockCall[s].step = "split_update" /\ clockCall[s].step # "off" /\ Go(s, "split_insert")
      /\ UNCHANGED <<punch, correction, calls, unsettled>>
  BY DEF SplitUpdate, AtStep
<1>2. /\ ClockTypeOK /\ RowsOK /\ CallOK(s) /\ clockCall[s].p \in 1..Len(period)
      /\ Len(clockCall[s].es) \in Nat /\ Len(clockCall[s].es) >= 2
      /\ calls \in 0..MaxCalls /\ unsettled \in BOOLEAN
      /\ \A i \in 1..Len(clockCall[s].es) : Known(clockCall[s].es[i])
  BY <1>1, CallFacts DEF NoPeriodYet, Inserted
<1>3. PICK p \in 1..Len(period) : p = clockCall[s].p
  BY <1>2
<1>4. ~period[p].active /\ period[p] \in Period /\ Known(period[p].in) /\ Known(clockCall[s].es[1])
  BY <1>1, <1>2, <1>3, RowsOfTables DEF CallOK, OnClosed, RowsOK
<1>5. PICK e \in Nat : e = clockCall[s].es[1] /\ Known(e)
  BY <1>2, <1>4, RowsOfTables DEF Known
<1>6. punch' \in Seq(Punch) /\ Len(punch) <= Len(punch') /\ DOMAIN period = 1..Len(period) /\ Len(period) \in Nat
  BY <1>1, <1>2, RowsOfTables
<1>7. /\ Grows /\ RowsOK' /\ ~period'[p].active
      /\ \A q \in 1..Len(period') : q > Len(period) => period'[q].via = "app"
  <2>1. CASE period' = period
    BY <1>1, <1>4, <1>6, <2>1, PeriodsUntouched
  <2>2. CASE period' # period
    <3> DEFINE row == [period[p] EXCEPT !.out = e, !.ended = TRUE, !.adjusted = @ \/ ByRule(s)]
    <3>1. ByRule(s) \in BOOLEAN
      BY DEF ByRule
    <3>2. /\ row \in Period /\ row.via = period[p].via /\ row.in = period[p].in /\ row.out = e
          /\ row.active = period[p].active
      BY <1>4, <3>1 DEF Period
    <3>3. period' = [period EXCEPT ![p] = row]
      BY <1>3, <1>5, <2>2 DEF SplitUpdate
    <3> HIDE DEF row
    <3>4. PICK new \in Period :
              /\ period' = [period EXCEPT ![p] = new] /\ new.via = period[p].via /\ Known(new.in)
              /\ new.out = e /\ ~new.active
      BY <1>4, <3>2, <3>3
    <3>5. Known(new.in)' /\ (new.out = 0 \/ Known(new.out)')
      BY <1>1, <1>2, <1>5, <1>6, <3>4, KnownStays
    <3>6. /\ Grows /\ RowsOK'
          /\ \A q \in 1..Len(period') : q > Len(period) => period'[q].via = "app"
      BY <1>1, <1>6, <3>4, <3>5, PeriodWritten
    <3>7. QED
      BY <1>6, <3>4, <3>6
  <2>3. QED
    BY <2>1, <2>2
<1>8. /\ "split_insert" \in AnyStep /\ Inserted("split_insert") = 2 /\ clockCall[s].p # 0
      /\ "split_insert" \notin {"api_in", "api_out", "approve"}
  BY <1>2 DEF AnyStep, Inserted
<1>9. QED
  BY <1>1, <1>2, <1>3, <1>7, <1>8, GoKeeps

\* The second half keeps the clock-out that was read.
LEMMA SplitInsertKeeps ==
    ASSUME ClockInv, NEW s \in Clocker, SplitInsert(s)
    PROVE  ClockInv'
<1>1. /\ clockCall[s].step = "split_insert" /\ clockCall[s].step # "off" /\ End(s)
      /\ period' = Append(period, ClosedPeriod(clockCall[s].es[2], clockCall[s].was.out, ByRule(s)))
      /\ UNCHANGED <<punch, correction, calls, unsettled>>
  BY DEF SplitInsert, AtStep
<1>2. /\ ClockTypeOK /\ clockCall[s].p \in 1..Len(period)
      /\ Len(clockCall[s].es) \in Nat /\ Len(clockCall[s].es) >= 2
      /\ calls \in 0..MaxCalls /\ unsettled \in BOOLEAN
      /\ \A i \in 1..Len(clockCall[s].es) : Known(clockCall[s].es[i])
      /\ clockCall[s].was.out = 0 \/ Known(clockCall[s].was.out)
  BY <1>1, CallFacts DEF NoPeriodYet, Inserted
<1>3. PICK e \in Nat : e = clockCall[s].es[2] /\ Known(e)
  BY <1>2, RowsOfTables DEF Known
<1>4. PICK f \in Nat : f = clockCall[s].was.out /\ (f = 0 \/ Known(f))
  BY <1>2, RowsOfTables DEF Known
<1>5. PICK new \in Period :
          /\ period' = Append(period, new) /\ new.via = "app" /\ new.in = e /\ new.out = f
          /\ ~new.active
  <2>1. ByRule(s) \in BOOLEAN
    BY DEF ByRule
  <2> DEFINE row == ClosedPeriod(e, f, ByRule(s))
  <2>2. row \in Period /\ row.via = "app" /\ row.in = e /\ row.out = f /\ ~row.active
    BY <2>1, ClosedMade
  <2>3. period' = Append(period, row)
    BY <1>1, <1>3, <1>4
  <2> HIDE DEF row
  <2>4. QED
    BY <2>2, <2>3
<1>6. punch' \in Seq(Punch) /\ Len(punch) <= Len(punch') /\ Len(period) \in Nat
  BY <1>1, <1>2, RowsOfTables
<1>7. Known(new.in)' /\ (new.out = 0 \/ Known(new.out)')
  BY <1>1, <1>2, <1>3, <1>4, <1>5, <1>6, KnownStays
<1>8. Grows /\ RowsOK' /\ Len(period') = Len(period) + 1 /\ period'[Len(period) + 1] = new
  BY <1>1, <1>5, <1>6, <1>7, PeriodInserted
<1>9. \A q \in 1..Len(period') : q > Len(period) => period'[q].via = "app"
  BY <1>5, <1>6, <1>8
<1>10. QED
  BY <1>1, <1>2, <1>8, <1>9, EndKeeps

\* The break rule reads the period again and splits it, or does not.
LEMMA EnforceKeeps ==
    ASSUME ClockInv, NEW s \in Clocker, Enforce(s)
    PROVE  ClockInv'
<1>1. /\ clockCall[s].step = "enforce" /\ clockCall[s].step # "off"
      /\ UNCHANGED <<period, punch, correction, calls, unsettled>>
  BY DEF Enforce, AtStep
<1>2. /\ ClockTypeOK /\ CallOK(s) /\ clockCall[s].p \in 1..Len(period) /\ Len(period) \in Nat
      /\ calls \in 0..MaxCalls /\ unsettled \in BOOLEAN
  BY <1>1, CallFacts DEF NoPeriodYet
<1>3. Grows /\ RowsOK' /\ \A q \in 1..Len(period') : q > Len(period) => period'[q].via = "app"
  BY <1>1, <1>2, RowsUnchanged
<1>4. CASE End(s)
  BY <1>1, <1>2, <1>3, <1>4, EndKeeps
<1>5. CASE clockCall' = [clockCall EXCEPT ![s] = [ActingOn(clockCall[s].p, "split") EXCEPT !.c = 1]]
  <2>1. PICK p \in 0..Len(period) : p = clockCall[s].p /\ p # 0
    BY <1>2
  <2>2. "split" \in AnyStep /\ Inserted("split") = 0 /\ "split" \in OnClosed
    BY DEF AnyStep, Inserted, OnClosed
  <2>3. ~period[p].active
    BY <1>1, <1>2, <2>1 DEF CallOK, OnClosed
  <2>4. PICK c \in Nat, step \in AnyStep : c = 1 /\ step = "split"
    BY <2>2
  <2>5. clockCall' = [clockCall EXCEPT ![s] = [ActingOn(p, step) EXCEPT !.c = c]]
    BY <1>5, <2>1, <2>4
  <2>6. /\ CallOK(s)' /\ [ActingOn(p, step) EXCEPT !.c = c] \in Busy
        /\ clockCall'[s].step = step
    <3>1. /\ step \notin NoPeriodYet => p # 0
          /\ Inserted(step) = 0
          /\ step \in OnClosed => ~period[p].active
          /\ step = "approve" => c \in DOMAIN correction
          /\ UNCHANGED <<period, punch, correction>>
      BY <1>1, <2>1, <2>2, <2>3, <2>4
    <3>2. QED
      BY <2>5, <3>1, FreshCallOK
  <2>7. \A r \in Clocker : clockCall'[r].step \in {"api_in", "api_out"} =>
            clockCall'[r].step = clockCall[r].step
    <3>1. \A r \in Clocker \ {s} : clockCall'[r] = clockCall[r]
      BY <1>2, <2>5 DEF ClockTypeOK
    <3>2. QED
      BY <2>4, <2>6, <3>1
  <2>8. LockOK'
    BY <1>3, <2>7, LockKept
  <2>9. QED
    BY <1>1, <1>2, <1>3, <2>5, <2>6, <2>8, StepKeeps
<1>6. QED
  BY <1>4, <1>5 DEF Enforce, End

\* An edit finds the entry superseded, or not.
LEMMA EditCheckKeeps ==
    ASSUME ClockInv, NEW s \in Clocker, EditCheck(s)
    PROVE  ClockInv'
<1>1. CASE Refuse(s)
  BY <1>1, EndActions
<1>2. CASE ~Refuse(s)
  <2>1. PICK step \in {"edit_in_insert", "edit_out_insert"} :
            /\ clockCall[s].step = (IF step = "edit_in_insert" THEN "edit_in" ELSE "edit_out")
            /\ Go(s, step) /\ UNCHANGED <<period, punch, correction, calls, unsettled>>
    BY <1>2 DEF EditCheck, Replaceable, AtStep
  <2>2. clockCall[s].step # "off" /\ clockCall[s].step \in {"edit_in", "edit_out"}
    BY <2>1
  <2>3. /\ ClockTypeOK /\ CallOK(s) /\ clockCall[s].p \in 1..Len(period) /\ Len(period) \in Nat
        /\ calls \in 0..MaxCalls /\ unsettled \in BOOLEAN /\ Len(clockCall[s].es) \in Nat
    BY <2>2, CallFacts DEF NoPeriodYet
  <2>4. Grows /\ RowsOK' /\ \A q \in 1..Len(period') : q > Len(period) => period'[q].via = "app"
    BY <2>1, <2>3, RowsUnchanged
  <2>5. step \in AnyStep /\ step \notin {"api_in", "api_out", "approve"}
    BY DEF AnyStep
  <2>6. Len(clockCall[s].es) >= Inserted(step)
    <3>1. CASE step = "edit_in_insert"
      BY <2>3, <3>1 DEF Inserted
    <3>2. CASE step = "edit_out_insert"
      BY <2>1, <2>3, <3>2 DEF CallOK, Inserted
    <3>3. QED
      BY <3>1, <3>2
  <2>7. ~period'[clockCall[s].p].active
    BY <2>1, <2>2, <2>3 DEF CallOK, OnClosed
  <2>8. QED
    BY <2>1, <2>2, <2>3, <2>4, <2>5, <2>6, <2>7, GoKeeps
<1>3. QED
  BY <1>1, <1>2

\* An edit supersedes the entry with its correction.
LEMMA EditInsertKeeps ==
    ASSUME ClockInv, NEW s \in Clocker, EditInsert(s)
    PROVE  ClockInv'
<1>1. /\ clockCall[s].step \in {"edit_in_insert", "edit_out_insert"} /\ clockCall[s].step # "off"
      /\ \E e \in {clockCall[s].was.in, clockCall[s].was.out}, step \in {"edit_update", "edit_out"} :
            Replace(s, e, step)
  BY DEF EditInsert, AtStep
<1>2. /\ ClockTypeOK /\ CallOK(s) /\ clockCall[s].p \in 1..Len(period)
      /\ Len(clockCall[s].es) \in Nat /\ clockCall[s].was \in Period
      /\ punch \in Seq(Punch) /\ Len(punch) \in Nat
  BY <1>1, CallFacts, BusyCall, RowsOfTables DEF NoPeriodYet
<1>3. PICK e \in Nat, step \in {"edit_update", "edit_out"} : Replace(s, e, step)
  BY <1>1, <1>2 DEF Period
<1> DEFINE left == SetLive(punch, {e}, FALSE)
           fix == [kind |-> "fix", of |-> e, live |-> TRUE]
<1>4. /\ left \in Seq(Punch) /\ Len(left) = Len(punch)
      /\ \A f \in 1..Len(punch) : left[f].live => punch[f].live
  BY <1>2, Superseded
<1>5. fix \in Punch
  BY DEF Punch
<1>6. /\ punch' = Append(left, fix) /\ GoWith(s, step, <<New(1)>>)
      /\ UNCHANGED <<period, correction, calls, unsettled>>
  BY <1>3 DEF Replace
<1> HIDE DEF left, fix
<1>7. /\ punch' \in Seq(Punch) /\ Len(punch') = Len(punch) + 1
      /\ \A f \in 1..Len(punch) : punch'[f] = left[f]
  BY <1>2, <1>4, <1>5, <1>6
<1>8. /\ <<New(1)>> \in Seq(Nat) /\ Len(<<New(1)>>) = 1
      /\ \A j \in 1..1 : <<New(1)>>[j] = Len(punch) + 1
  BY <1>2 DEF New
<1>9. PICK es \in Seq(Nat) : Len(es) = 1 /\ GoWith(s, step, es) /\ \A j \in 1..1 : es[j] = Len(punch) + 1
  BY <1>6, <1>8
<1>10. /\ step \in AnyStep /\ Inserted(step) = 1 /\ step \notin {"api_in", "api_out", "approve"}
  BY DEF AnyStep, Inserted
<1>11. clockCall[s].p # 0 /\ ~period[clockCall[s].p].active
  BY <1>1, <1>2 DEF CallOK, OnClosed
<1>12. /\ Len(punch) <= Len(punch')
       /\ \A f \in 1..Len(punch) : punch'[f].live => punch[f].live
       /\ \A j \in 1..Len(es) : es[j] \in 1..Len(punch') /\ es[j] > Len(punch)
       /\ Len(clockCall[s].es) + Len(es) >= Inserted(step)
  <2>1. \A f \in 1..Len(punch) : punch'[f].live => punch[f].live
    BY <1>4, <1>7
  <2>2. \A j \in 1..Len(es) : es[j] = Len(punch) + 1
    BY <1>9
  <2>3. \A j \in 1..Len(es) : es[j] \in 1..Len(punch') /\ es[j] > Len(punch)
    BY <1>2, <1>7, <2>2
  <2>4. Len(clockCall[s].es) + Len(es) >= Inserted(step) /\ Len(punch) <= Len(punch')
    BY <1>2, <1>7, <1>9, <1>10
  <2>5. QED
    BY <2>1, <2>3, <2>4
<1>13. QED
  BY <1>1, <1>6, <1>7, <1>9, <1>10, <1>11, <1>12, PunchGo

\* ... and the period refers to the corrections.
LEMMA EditUpdateKeeps ==
    ASSUME ClockInv, NEW s \in Clocker, EditUpdate(s)
    PROVE  ClockInv'
<1>1. /\ clockCall[s].step = "edit_update" /\ clockCall[s].step # "off" /\ End(s)
      /\ UNCHANGED <<punch, correction, calls, unsettled>>
  BY DEF EditUpdate, AtStep
<1>2. /\ ClockTypeOK /\ RowsOK /\ CallOK(s) /\ clockCall[s].p \in 1..Len(period)
      /\ Len(clockCall[s].es) \in Nat /\ Len(clockCall[s].es) >= 1
      /\ calls \in 0..MaxCalls /\ unsettled \in BOOLEAN
      /\ \A i \in 1..Len(clockCall[s].es) : Known(clockCall[s].es[i])
      /\ clockCall[s].was.out = 0 \/ Known(clockCall[s].was.out)
  BY <1>1, CallFacts DEF NoPeriodYet, Inserted
<1>3. PICK p \in 1..Len(period) : p = clockCall[s].p
  BY <1>2
<1>4. ~period[p].active /\ period[p] \in Period /\ DOMAIN period = 1..Len(period) /\ Len(period) \in Nat
  BY <1>1, <1>2, <1>3, RowsOfTables DEF CallOK, OnClosed
<1>5. PICK e \in Nat : e = clockCall[s].es[1] /\ Known(e)
  BY <1>2, RowsOfTables, SMTT(60) DEF Known
<1> DEFINE outNow == IF Len(clockCall[s].es) = 2 THEN clockCall[s].es[2] ELSE clockCall[s].was.out
<1>6. outNow \in Nat /\ (outNow = 0 \/ Known(outNow))
  <2>1. outNow = 0 \/ Known(outNow)
    <3>1. CASE Len(clockCall[s].es) = 2
      BY <1>2, <3>1
    <3>2. CASE Len(clockCall[s].es) # 2
      BY <1>2, <3>2
    <3>3. QED
      BY <3>1, <3>2
  <2>2. Known(outNow) => outNow \in Nat
    BY <1>2, RowsOfTables DEF Known
  <2>3. QED
    BY <2>1, <2>2
<1>7. PICK f \in Nat : f = outNow /\ (f = 0 \/ Known(f))
  BY <1>6
<1>8. punch' \in Seq(Punch) /\ Len(punch) <= Len(punch')
  BY <1>1, <1>2, RowsOfTables
<1>9. /\ Grows /\ RowsOK' /\ \A q \in 1..Len(period') : q > Len(period) => period'[q].via = "app"
  <2>1. CASE period' = period
    BY <1>1, <1>8, <2>1, PeriodsUntouched
  <2>2. CASE period' # period
    <3> DEFINE row == [period[p] EXCEPT !.in = e, !.ended = TRUE, !.out = f]
    <3>1. /\ row \in Period /\ row.via = period[p].via /\ row.in = e /\ row.out = f
          /\ row.active = period[p].active
      BY <1>4 DEF Period
    <3>2. period' = [period EXCEPT ![p] = row]
      BY <1>3, <1>5, <1>7, <2>2 DEF EditUpdate
    <3> HIDE DEF row, outNow
    <3>3. PICK new \in Period :
              /\ period' = [period EXCEPT ![p] = new] /\ new.via = period[p].via
              /\ new.in = e /\ new.out = f /\ ~new.active
      BY <1>4, <3>1, <3>2
    <3>4. Known(new.in)' /\ (new.out = 0 \/ Known(new.out)')
      BY <1>1, <1>2, <1>5, <1>7, <1>8, <3>3, KnownStays
    <3>5. QED
      BY <1>1, <1>8, <3>3, <3>4, PeriodWritten
  <2>3. QED
    BY <2>1, <2>2
<1>10. QED
  BY <1>1, <1>2, <1>9, EndKeeps

\* A break closes the period and opens the next.
LEMMA TakeBreakKeeps ==
    ASSUME ClockInv, NEW s \in Clocker, TakeBreak(s)
    PROVE  ClockInv'
<1>1. CASE Refuse(s)
  BY <1>1, EndActions
<1>2. CASE ~Refuse(s)
  <2>1. /\ clockCall[s].step = "break" /\ clockCall[s].step # "off" /\ End(s)
        /\ punch' = WithPunches(<<"out", "in">>)
        /\ period' = Append([period EXCEPT ![clockCall[s].p].out = New(1), ![clockCall[s].p].active = FALSE,
                                           ![clockCall[s].p].ended = TRUE],
                            OpenPeriod(New(2), "app"))
        /\ UNCHANGED <<correction, calls, unsettled>>
    BY <1>2 DEF TakeBreak, AtStep
  <2>2. /\ ClockTypeOK /\ RowsOK /\ clockCall[s].p \in 1..Len(period) /\ Len(period) \in Nat
        /\ calls \in 0..MaxCalls /\ unsettled \in BOOLEAN
        /\ period \in Seq(Period) /\ DOMAIN period = 1..Len(period) /\ Len(punch) \in Nat
    BY <2>1, CallFacts, RowsOfTables DEF NoPeriodYet
  <2>3. <<"out", "in">> \in Seq({"in", "out"}) /\ Len(<<"out", "in">>) = 2
    OBVIOUS
  <2>4. /\ punch' \in Seq(Punch) /\ Len(punch') = Len(punch) + 2
        /\ \A e \in 1..Len(punch) : punch'[e] = punch[e]
    BY <2>1, <2>2, <2>3, PunchesAdded
  <2>5. PICK p \in 1..Len(period), e \in Nat, f \in Nat :
            p = clockCall[s].p /\ e = New(1) /\ f = New(2) /\ e = Len(punch) + 1 /\ f = Len(punch) + 2
    BY <2>2 DEF New
  <2>6. Known(e)' /\ Known(f)'
    <3>1. e \in 1..Len(punch') /\ e > Len(punch) /\ f \in 1..Len(punch') /\ f > Len(punch)
      BY <2>2, <2>4, <2>5
    <3>2. QED
      BY <2>1, <3>1, NewKnown
  <2>7. period[p] \in Period /\ Known(period[p].in)
    BY <2>2 DEF RowsOK
  <2>8. PICK new \in Period : /\ new = OpenPeriod(f, "app") /\ new.via = "app" /\ new.in = f
                              /\ new.out = 0 /\ ~new.ended
    BY OpenMade, "app" \in {"api", "app"}
  <2> DEFINE row == [period[p] EXCEPT !.out = e, !.active = FALSE, !.ended = TRUE]
             mid == [period EXCEPT ![p] = row]
  <2>9. /\ row \in Period /\ row.via = period[p].via /\ row.in = period[p].in /\ row.out = e
        /\ ~row.active
    BY <2>7 DEF Period
  <2>10. period' = Append(mid, new)
    BY <2>1, <2>5, <2>8
  <2> HIDE DEF row
  <2>11. /\ mid \in Seq(Period) /\ Len(mid) = Len(period)
         /\ \A q \in 1..Len(period) : mid[q] = IF q = p THEN row ELSE period[q]
    BY <2>2, <2>9, ExceptSeq
  <2> HIDE DEF mid
  <2>12. /\ period' \in Seq(Period) /\ Len(period') = Len(period) + 1
         /\ \A q \in 1..Len(period) : period'[q] = mid[q]
         /\ period'[Len(period) + 1] = new
    BY <2>2, <2>10, <2>11, SMTT(60)
  <2>13. \A d : Known(d) => Known(d)'
    BY <2>1, <2>2, <2>4, KnownStays
  <2>14. /\ period'[p].in = period[p].in /\ period'[p].out = e /\ ~period'[p].active
         /\ period'[p].via = period[p].via
         /\ \A q \in 1..Len(period) : q # p => period'[q] = period[q]
    BY <2>9, <2>11, <2>12
  <2>15. \A q \in 1..Len(period) :
             period'[q].via = period[q].via /\ (period'[q].active => period[q].active)
    BY <2>14
  <2>16. \A q \in 1..Len(period') :
             /\ Known(period[q].in)' /\ (period'[q].out = 0 \/ Known(period[q].out)')
             /\ period'[q].active => ~period'[q].ended /\ period'[q].out = 0
    <3> SUFFICES ASSUME NEW q \in 1..Len(period')
                 PROVE  /\ Known(period[q].in)' /\ (period'[q].out = 0 \/ Known(period[q].out)')
                        /\ period'[q].active => ~period'[q].ended /\ period'[q].out = 0
      OBVIOUS
    <3>1. CASE q = Len(period) + 1
      BY <2>6, <2>8, <2>12, <3>1
    <3>2. CASE q = p
      BY <2>6, <2>7, <2>13, <2>14, <3>2
    <3>3. CASE q # p /\ q # Len(period) + 1
      <4>1. q \in 1..Len(period)
        BY <2>2, <2>12, <3>3
      <4>2. period'[q] = period[q]
        BY <2>14, <3>3, <4>1
      <4>3. /\ Known(period[q].in) /\ (period[q].out = 0 \/ Known(period[q].out))
            /\ period[q].active => ~period[q].ended /\ period[q].out = 0
        BY <2>2, <4>1 DEF RowsOK
      <4>4. QED
        BY <2>13, <4>2, <4>3
    <3>4. QED
      BY <3>1, <3>2, <3>3
  <2>17. Len(period) <= Len(period') /\ Len(punch) <= Len(punch')
    BY <2>2, <2>4, <2>12
  <2>18. correction' = correction /\ \A d \in 1..Len(punch) : punch'[d].live => punch[d].live
    BY <2>1, <2>4
  <2>19. Grows /\ RowsOK'
    BY <2>4, <2>12, <2>15, <2>16, <2>17, <2>18, RowsStep
  <2>20. \A q \in 1..Len(period') : q > Len(period) => period'[q].via = "app"
    BY <2>2, <2>8, <2>12
  <2>21. QED
    BY <2>1, <2>2, <2>19, <2>20, EndKeeps
<1>3. QED
  BY <1>1, <1>2

\* The API opens a period under its lock: no other call of the API runs, and none of its
\* periods is open.
LEMMA ApiClockInKeeps ==
    ASSUME ClockInv, NEW s \in Clocker, ApiClockIn(s)
    PROVE  ClockInv'
<1>1. /\ clockCall[s].step = "api_in" /\ clockCall[s].step # "off" /\ End(s)
      /\ punch' = WithPunches(<<"in">>) /\ period' = Append(period, OpenPeriod(New(1), "api"))
      /\ UNCHANGED <<correction, calls, unsettled>>
  BY DEF ApiClockIn, AtStep
<1>2. /\ ClockTypeOK /\ LockOK /\ Len(period) \in Nat /\ DOMAIN period = 1..Len(period)
      /\ calls \in 0..MaxCalls /\ unsettled \in BOOLEAN
  BY <1>1, CallFacts, RowsOfTables
<1>3. /\ punch' \in Seq(Punch) /\ Len(punch) <= Len(punch')
      /\ \A e \in 1..Len(punch) : punch'[e].live => punch[e].live
  BY <1>1, OnePunch
<1>4. PICK n \in Nat : n = New(1) /\ Known(n)'
  BY <1>1, OnePunch
<1>5. PICK new \in Period : /\ new = OpenPeriod(n, "api") /\ new.in = n /\ new.out = 0 /\ ~new.ended
  BY OpenMade, "api" \in {"api", "app"}
<1>6. Known(new.in)' /\ period' = Append(period, new)
  BY <1>1, <1>4, <1>5
<1>7. /\ Grows /\ RowsOK' /\ Len(period') = Len(period) + 1
      /\ \A q \in 1..Len(period) : period'[q] = period[q]
  BY <1>1, <1>3, <1>5, <1>6, PeriodInserted
<1>8. clockCall'[s] = Off /\ \A r \in Clocker \ {s} : clockCall'[r] = clockCall[r]
  BY <1>1, <1>2 DEF End, ClockTypeOK
<1>9. \A r \in Clocker : clockCall'[r].step \notin {"api_in", "api_out"}
  <2> SUFFICES ASSUME NEW r \in Clocker PROVE clockCall'[r].step \notin {"api_in", "api_out"}
    OBVIOUS
  <2>1. CASE r = s
    BY <1>8, <2>1 DEF Off
  <2>2. CASE r # s
    BY <1>1, <1>2, <1>8, <2>2 DEF LockOK
  <2>3. QED
    BY <2>1, <2>2
<1>10. \A p \in Open' : period'[p].via = "api" => p = Len(period) + 1
  <2> SUFFICES ASSUME NEW p \in Open', period'[p].via = "api", p # Len(period) + 1 PROVE FALSE
    OBVIOUS
  <2>1. p \in 1..Len(period') /\ period'[p].active /\ ~period'[p].ended
    BY <1>7, SequencesGrown DEF Open
  <2>2. p \in 1..Len(period) /\ period'[p] = period[p]
    BY <1>2, <1>7, <2>1
  <2>3. p \in Open /\ period[p].via = "api"
    BY <1>2, <2>1, <2>2 DEF Open
  <2>4. QED
    BY <1>1, <1>2, <2>3 DEF LockOK, AtStep
<1>11. LockOK'
  BY <1>9, <1>10 DEF LockOK, OneOpenUnderLock, AtStep
<1>12. CallOK(s)'
  BY <1>8 DEF CallOK, Off
<1>13. QED
  BY <1>1, <1>2, <1>7, <1>11, <1>12, StepKeeps DEF End

\* A correction whose request changes its status.
LEMMA Decided ==
    ASSUME ClockTypeOK, NEW c \in DOMAIN correction, NEW status \in {"approved", "rejected"},
           correction' = [correction EXCEPT ![c].status = status]
    PROVE  /\ correction' \in Seq(Correction) /\ Len(correction') = Len(correction)
           /\ \A d \in 1..Len(correction) :
                 /\ correction'[d].of = correction[d].of /\ correction'[d].in = correction[d].in
                 /\ correction'[d].out = correction[d].out
                 /\ correction'[d].status = IF d = c THEN status ELSE correction[d].status
<1>1. /\ correction \in Seq(Correction) /\ Len(correction) \in Nat
      /\ DOMAIN correction = 1..Len(correction) /\ correction[c] \in Correction
  BY RowsOfTables
<1> DEFINE row == [correction[c] EXCEPT !.status = status]
<1>2. /\ row \in Correction /\ row.of = correction[c].of /\ row.in = correction[c].in
      /\ row.out = correction[c].out /\ row.status = status
  BY <1>1 DEF Correction
<1>3. correction' = [correction EXCEPT ![c] = row]
  OBVIOUS
<1> HIDE DEF row
<1>4. /\ correction' \in Seq(Correction) /\ Len(correction') = Len(correction)
      /\ \A d \in 1..Len(correction) : correction'[d] = IF d = c THEN row ELSE correction[d]
  BY <1>1, <1>2, <1>3, ExceptSeq
<1>5. QED
  BY <1>2, <1>4

\* A decision makes nobody's correction count but its own.
LEMMA DecidedIds ==
    ASSUME ClockInv, NEW c \in DOMAIN correction, NEW status \in {"approved", "rejected"},
           correction' = [correction EXCEPT ![c].status = status],
           status = "rejected" => correction[c].status # "approved"
    PROVE  /\ \A d \in DOMAIN correction : Ids(d)' = Ids(d)
           /\ DOMAIN correction' = DOMAIN correction
           /\ \A e : Drafted(e)' => Drafted(e)
           /\ status = "approved" => \A e \in Ids(c) : ~Drafted(e)'
<1>1. ClockTypeOK /\ RowsOK /\ DOMAIN correction = 1..Len(correction)
  BY RowsOfTables DEF ClockInv
<1>2. /\ correction' \in Seq(Correction) /\ Len(correction') = Len(correction)
      /\ \A d \in 1..Len(correction) :
             /\ correction'[d].of = correction[d].of /\ correction'[d].in = correction[d].in
             /\ correction'[d].out = correction[d].out
             /\ correction'[d].status = IF d = c THEN status ELSE correction[d].status
  BY <1>1, Decided
<1>3. DOMAIN correction' = DOMAIN correction
  BY <1>1, <1>2
<1>4. \A d \in DOMAIN correction : Ids(d)' = Ids(d)
  BY <1>1, <1>2 DEF Ids
<1>5. ASSUME NEW e, Drafted(e)'
      PROVE  Drafted(e) /\ (status = "approved" => e \notin Ids(c))
  <2>1. PICK d \in DOMAIN correction : correction'[d].status # "approved" /\ e \in Ids(d)
    BY <1>3, <1>4, <1>5 DEF Drafted
  <2>2. correction[d].status # "approved" /\ (status = "approved" => d # c)
    BY <1>1, <1>2, <2>1
  <2>3. QED
    BY <1>1, <2>1, <2>2 DEF Drafted, RowsOK
<1>6. QED
  BY <1>3, <1>4, <1>5

\* The request of a correction or a deletion.
LEMMA RequestKeeps ==
    ASSUME ClockInv, NEW s \in Clocker, clockCall[s].step \in {"ask_edit", "ask_delete"},
           NEW action \in {"edit", "delete"}, NEW both \in BOOLEAN, Request(s, action, both)
    PROVE  ClockInv'
<1>1. clockCall[s].step # "off" /\ End(s) /\ UNCHANGED <<period, calls, unsettled>>
  BY DEF Request
<1>2. /\ ClockTypeOK /\ RowsOK /\ clockCall[s].p \in 1..Len(period) /\ clockCall[s].was \in Period
      /\ calls \in 0..MaxCalls /\ unsettled \in BOOLEAN
      /\ period \in Seq(Period) /\ Len(period) \in Nat /\ DOMAIN period = 1..Len(period)
      /\ punch \in Seq(Punch) /\ Len(punch) \in Nat
      /\ correction \in Seq(Correction) /\ Len(correction) \in Nat
      /\ DOMAIN correction = 1..Len(correction)
  BY <1>1, CallFacts, BusyCall, RowsOfTables DEF NoPeriodYet
<1> DEFINE n == Len(punch)
           first == Draft(clockCall[s].was.in)
           second == Draft(clockCall[s].was.out)
           drafts == IF both THEN <<first, second>> ELSE <<first>>
           asked == [of |-> clockCall[s].p, action |-> action, in |-> n + 1,
                     out |-> IF both THEN n + 2 ELSE 0, status |-> "pending"]
<1>3. punch' = punch \o drafts /\ correction' = Append(correction, asked)
  BY DEF Request, New
<1>4. first \in Punch /\ second \in Punch /\ ~first.live /\ ~second.live
  BY <1>2 DEF Draft, Punch, Period
<1> HIDE DEF first, second
<1>5. /\ drafts \in Seq(Punch) /\ Len(drafts) = (IF both THEN 2 ELSE 1)
      /\ \A i \in 1..Len(drafts) : ~drafts[i].live
  BY <1>4
<1> HIDE DEF drafts
<1>6. /\ punch' \in Seq(Punch) /\ Len(punch') = n + (IF both THEN 2 ELSE 1)
      /\ \A e \in 1..n : punch'[e] = punch[e]
      /\ \A e \in 1..Len(punch') : e > n => ~punch'[e].live
  <2>1. /\ punch' \in Seq(Punch) /\ Len(punch') = n + Len(drafts)
        /\ \A i \in 1..n + Len(drafts) : punch'[i] = IF i <= n THEN punch[i] ELSE drafts[i - n]
    BY <1>2, <1>3, <1>5, ConcatProperties
  <2>2. \A e \in 1..n : e \in 1..n + Len(drafts) /\ e <= n
    BY <1>2, <1>5
  <2>3. \A e \in 1..Len(punch') : e > n => ~(e <= n) /\ e \in 1..n + Len(drafts) /\ e - n \in 1..Len(drafts)
    BY <1>2, <1>5, <2>1
  <2>4. \A e \in 1..Len(punch') : e > n => ~punch'[e].live
    BY <1>5, <2>1, <2>3
  <2>5. QED
    BY <1>5, <2>1, <2>2, <2>4
<1>7. /\ asked \in Correction /\ asked.of = clockCall[s].p /\ asked.in = n + 1
      /\ asked.out \in {0, n + 2} /\ asked.out \in 0..Len(punch') /\ asked.in \in 1..Len(punch')
      /\ asked.status = "pending"
  BY <1>2, <1>6 DEF Correction
<1> HIDE DEF asked
<1>8. /\ correction' \in Seq(Correction) /\ Len(correction') = Len(correction) + 1
      /\ \A d \in 1..Len(correction) : correction'[d] = correction[d]
      /\ correction'[Len(correction) + 1] = asked
      /\ DOMAIN correction' = 1..Len(correction) + 1
  BY <1>2, <1>3, <1>7
<1>9. /\ \A d \in 1..Len(correction) : Ids(d)' = Ids(d) /\ Ids(d) \subseteq 1..n
      /\ \A e : e \in {asked.in, asked.out} \ {0} => e > n /\ e \notin 1..n
  <2>1. \A d \in 1..Len(correction) : Ids(d)' = Ids(d)
    BY <1>8 DEF Ids
  <2>2. \A d \in 1..Len(correction) : Ids(d) \subseteq 1..n
    BY <1>2 DEF RowsOK, Ids
  <2>3. \A e : e \in {asked.in, asked.out} \ {0} => e > n /\ e \notin 1..n
    BY <1>2, <1>7
  <2>4. QED
    BY <2>1, <2>2, <2>3
<1>10. \A e : Drafted(e)' => Drafted(e) \/ e \in {asked.in, asked.out} \ {0}
  <2> SUFFICES ASSUME NEW e, Drafted(e)', e \notin {asked.in, asked.out} \ {0} PROVE Drafted(e)
    OBVIOUS
  <2>1. PICK d \in 1..Len(correction) + 1 :
            correction'[d].status # "approved" /\ e \in {correction'[d].in, correction'[d].out} \ {0}
    BY <1>8 DEF Drafted, Ids
  <2>2. d \in 1..Len(correction)
    BY <1>2, <1>8, <2>1
  <2>3. QED
    BY <1>2, <1>8, <2>1, <2>2 DEF Drafted, Ids
<1>11. Grows
  <2>1. \A e \in 1..n : Drafted(e)' => Drafted(e)
    BY <1>9, <1>10
  <2>2. Len(punch) <= Len(punch') /\ Len(correction) <= Len(correction') /\ Len(period) <= Len(period')
    BY <1>1, <1>2, <1>6, <1>8
  <2>3. QED
    BY <1>1, <1>2, <1>6, <1>8, <2>1, <2>2 DEF Grows
<1>12. RowsOK'
  <2>1. \A p \in DOMAIN period' :
            /\ Known(period[p].in)' /\ (period'[p].out = 0 \/ Known(period[p].out)')
            /\ period'[p].active => ~period'[p].ended /\ period'[p].out = 0
    <3> SUFFICES ASSUME NEW p \in DOMAIN period
                 PROVE  /\ Known(period[p].in)' /\ (period'[p].out = 0 \/ Known(period[p].out)')
                        /\ period'[p].active => ~period'[p].ended /\ period'[p].out = 0
      BY <1>1
    <3>1. /\ Known(period[p].in) /\ (period[p].out = 0 \/ Known(period[p].out))
          /\ period[p].active => ~period[p].ended /\ period[p].out = 0
      BY <1>2 DEF RowsOK
    <3>2. \A e : Known(e) => Known(e)'
      BY <1>2, <1>11, KnownGrows
    <3>3. period' = period
      BY <1>1
    <3>4. QED
      BY <3>1, <3>2, <3>3
  <2>2. \A d \in DOMAIN correction' :
            /\ correction'[d].of \in 1..Len(period')
            /\ correction'[d].in \in 1..Len(punch') /\ correction'[d].out \in 0..Len(punch')
    <3> SUFFICES ASSUME NEW d \in 1..Len(correction) + 1
                 PROVE  /\ correction'[d].of \in 1..Len(period')
                        /\ correction'[d].in \in 1..Len(punch') /\ correction'[d].out \in 0..Len(punch')
      BY <1>8
    <3>1. CASE d = Len(correction) + 1
      BY <1>1, <1>2, <1>7, <1>8, <3>1
    <3>2. CASE d # Len(correction) + 1
      <4>1. d \in 1..Len(correction) /\ correction'[d] = correction[d]
        BY <1>2, <1>8, <3>2
      <4>2. /\ correction[d].of \in 1..Len(period)
            /\ correction[d].in \in 1..n /\ correction[d].out \in 0..n
        BY <1>2, <4>1 DEF RowsOK
      <4>3. QED
        BY <1>1, <1>2, <1>6, <4>1, <4>2
    <3>3. QED
      BY <3>1, <3>2
  <2>3. \A d, f \in DOMAIN correction' : d # f => Ids(d)' \cap Ids(f)' = {}
    <3>1. PICK k \in Nat : k = Len(correction) + 1
      BY <1>2
    <3>2. Ids(k)' = {asked.in, asked.out} \ {0}
      BY <1>8, <3>1 DEF Ids
    <3>3. \A d, f \in 1..Len(correction) : d # f => Ids(d)' \cap Ids(f)' = {}
      BY <1>2, <1>9 DEF RowsOK
    <3>4. \A d \in 1..Len(correction) : Ids(d)' \cap Ids(k)' = {}
      BY <1>9, <3>2
    <3>5. \A d \in DOMAIN correction' : d \in 1..Len(correction) \/ d = k
      BY <1>2, <1>8, <3>1
    <3>6. QED
      BY <3>3, <3>4, <3>5
  <2>4. \A e \in 1..Len(punch') : Drafted(e)' => ~punch'[e].live
    <3> SUFFICES ASSUME NEW e \in 1..Len(punch'), Drafted(e)' PROVE ~punch'[e].live
      OBVIOUS
    <3>1. CASE e > n
      BY <1>6, <3>1
    <3>2. CASE ~(e > n)
      <4>1. e \in 1..n
        BY <1>2, <1>6, <3>2
      <4>2. Drafted(e)
        BY <1>9, <1>10, <4>1
      <4>3. QED
        BY <1>2, <1>6, <4>1, <4>2 DEF RowsOK
    <3>3. QED
      BY <3>1, <3>2
  <2>5. QED
    BY <2>1, <2>2, <2>3, <2>4 DEF RowsOK
<1>13. \A p \in 1..Len(period') : p > Len(period) => period'[p].via = "app"
  BY <1>1, <1>2
<1>14. QED
  BY <1>1, <1>2, <1>11, <1>12, <1>13, EndKeeps

LEMMA RequestActions ==
    ASSUME ClockInv, NEW s \in Clocker, RequestCorrection(s) \/ RequestDeletion(s)
    PROVE  ClockInv'
<1>1. CASE Refuse(s)
  BY <1>1, EndActions
<1>2. CASE ~Refuse(s)
  <2>1. /\ clockCall[s].step \in {"ask_edit", "ask_delete"}
        /\ \E action \in {"edit", "delete"}, both \in BOOLEAN : Request(s, action, both)
    BY <1>2 DEF RequestCorrection, RequestDeletion, AtStep
  <2>2. QED
    BY <2>1, RequestKeeps
<1>3. QED
  BY <1>1, <1>2

\* An approval writes the period with the corrections it has found, which count from now on.
LEMMA ApplyKeeps ==
    ASSUME ClockInv, NEW s \in Clocker, clockCall[s].step = "approve",
           NEW c \in DOMAIN correction, c = clockCall[s].c,
           NEW p \in 1..Len(period), p = clockCall[s].p,
           NEW was \in Period, was = clockCall[s].was,
           NEW newIn \in Ids(c), NEW newOut \in {0} \cup Ids(c), was.out = 0 => newOut = 0,
           ApplyCorrection(s, c, p, was, newIn, newOut)
    PROVE  ClockInv'
<1>1. /\ clockCall[s].step # "off" /\ End(s) /\ UNCHANGED <<calls, unsettled>>
      /\ correction' = [correction EXCEPT ![c].status = "approved"]
  BY DEF ApplyCorrection
<1>2. /\ ClockTypeOK /\ RowsOK /\ CallOK(s) /\ calls \in 0..MaxCalls /\ unsettled \in BOOLEAN
      /\ period \in Seq(Period) /\ Len(period) \in Nat /\ DOMAIN period = 1..Len(period)
      /\ punch \in Seq(Punch) /\ Len(punch) \in Nat
      /\ DOMAIN correction = 1..Len(correction) /\ Len(correction) \in Nat /\ period[p] \in Period
  BY <1>1, CallFacts, RowsOfTables
<1>3. /\ correction' \in Seq(Correction) /\ Len(correction') = Len(correction)
      /\ \A d \in 1..Len(correction) :
            /\ correction'[d].of = correction[d].of /\ correction'[d].in = correction[d].in
            /\ correction'[d].out = correction[d].out
  BY <1>1, <1>2, Decided
<1>4. /\ \A d \in DOMAIN correction : Ids(d)' = Ids(d)
      /\ DOMAIN correction' = DOMAIN correction
      /\ \A e : Drafted(e)' => Drafted(e)
      /\ \A e \in Ids(c) : ~Drafted(e)'
  BY <1>1, DecidedIds
<1>5. Ids(c) \subseteq 1..Len(punch)
  <2>1. correction[c].in \in 1..Len(punch) /\ correction[c].out \in 0..Len(punch)
    BY <1>2 DEF RowsOK
  <2>2. QED
    BY <1>2, <2>1 DEF Ids
<1>6. /\ Known(was.in) /\ (was.out = 0 \/ Known(was.out))
      /\ period[p].active => ~was.ended /\ was.out = 0
  BY <1>2, SMTT(30) DEF CallOK, NoPeriodYet
<1> DEFINE active == SetLive(punch, {newIn, newOut}, TRUE)
           gone == {was.in} \cup (IF newOut # 0 THEN {was.out} ELSE {})
           outNow == IF newOut # 0 THEN newOut ELSE was.out
           ended == newOut # 0 \/ was.ended
           deleted == period[p].deleted \/ correction[c].action = "delete"
           row == [period[p] EXCEPT !.in = newIn, !.out = outNow, !.ended = ended, !.deleted = deleted]
<1>7. punch' = SetLive(active, gone, FALSE) /\ period' = [period EXCEPT ![p] = row]
  BY DEF ApplyCorrection
<1>8. newIn \in Nat /\ newOut \in Nat /\ outNow \in Nat /\ ended \in BOOLEAN /\ deleted \in BOOLEAN
  BY <1>2, <1>5, SMTT(60) DEF Period
<1> HIDE DEF ended, deleted, outNow
<1>9. /\ row \in Period /\ row.via = period[p].via /\ row.in = newIn /\ row.out = outNow
      /\ row.active = period[p].active /\ row.ended = ended
  BY <1>2, <1>8 DEF Period
<1> HIDE DEF row
<1>10. /\ active \in Seq(Punch) /\ Len(active) = Len(punch)
       /\ \A e \in 1..Len(punch) : e \notin {newIn, newOut} => active[e].live = punch[e].live
  <2>1. PICK yes \in BOOLEAN, es \in {{newIn, newOut}} : yes = TRUE /\ es = {newIn, newOut}
    OBVIOUS
  <2>2. /\ SetLive(punch, es, yes) \in Seq(Punch) /\ Len(SetLive(punch, es, yes)) = Len(punch)
        /\ \A e \in 1..Len(punch) : SetLive(punch, es, yes)[e].live = IF e \in es THEN yes ELSE punch[e].live
    BY <1>2, SetLiveFields
  <2>3. active = SetLive(punch, es, yes)
    BY <2>1
  <2> HIDE DEF active
  <2>4. QED
    BY <2>1, <2>2, <2>3
<1> HIDE DEF active, gone
<1>11. /\ punch' \in Seq(Punch) /\ Len(punch') = Len(punch)
       /\ \A e \in 1..Len(punch) : e \notin {newIn, newOut} => (punch'[e].live => punch[e].live)
  <2>1. /\ SetLive(active, gone, FALSE) \in Seq(Punch)
        /\ Len(SetLive(active, gone, FALSE)) = Len(active)
        /\ \A e \in 1..Len(active) : SetLive(active, gone, FALSE)[e].live => active[e].live
    BY <1>10, Superseded
  <2>2. punch' \in Seq(Punch) /\ Len(punch') = Len(punch)
    BY <1>7, <1>10, <2>1
  <2>3. \A e \in 1..Len(punch) : punch'[e].live => active[e].live
    BY <1>7, <1>10, <2>1
  <2>4. QED
    BY <1>10, <2>2, <2>3
<1>12. /\ period' \in Seq(Period) /\ Len(period') = Len(period)
       /\ \A q \in 1..Len(period) : period'[q] = IF q = p THEN row ELSE period[q]
  BY <1>2, <1>7, <1>9, ExceptSeq
<1>13. Grows
  <2>1. \A q \in 1..Len(period) : period'[q].via = period[q].via /\ (period'[q].active => period[q].active)
    BY <1>9, <1>12
  <2>2. Len(punch) <= Len(punch') /\ Len(period) <= Len(period') /\ Len(correction) <= Len(correction')
    BY <1>2, <1>3, <1>11, <1>12
  <2>3. QED
    BY <1>3, <1>4, <1>11, <1>12, <2>1, <2>2 DEF Grows
<1>14. \A e : Known(e) => Known(e)'
  BY <1>2, <1>13, KnownGrows
<1>15. \A e \in Ids(c) : Known(e)'
  BY <1>4, <1>5, <1>11 DEF Known
<1>16. \A q \in DOMAIN period' :
           /\ Known(period[q].in)' /\ (period'[q].out = 0 \/ Known(period[q].out)')
           /\ period'[q].active => ~period'[q].ended /\ period'[q].out = 0
  <2> SUFFICES ASSUME NEW q \in 1..Len(period)
               PROVE  /\ Known(period[q].in)' /\ (period'[q].out = 0 \/ Known(period[q].out)')
                      /\ period'[q].active => ~period'[q].ended /\ period'[q].out = 0
    BY <1>12
  <2>1. CASE q = p
    <3>1. period'[q].in = newIn /\ period'[q].out = outNow /\ period'[q].active = period[p].active
          /\ period'[q].ended = ended
      BY <1>9, <1>12, <2>1
    <3>2. Known(period[q].in)'
      BY <1>15, <3>1
    <3>3. period'[q].out = 0 \/ Known(period[q].out)'
      <4>1. CASE newOut # 0
        BY <1>15, <3>1, <4>1 DEF outNow
      <4>2. CASE newOut = 0
        BY <1>6, <1>14, <3>1, <4>2 DEF outNow
      <4>3. QED
        BY <4>1, <4>2
    <3>4. period'[q].active => ~period'[q].ended /\ period'[q].out = 0
      BY <1>6, <3>1 DEF ended, outNow
    <3>5. QED
      BY <3>2, <3>3, <3>4
  <2>2. CASE q # p
    <3>1. period'[q] = period[q]
      BY <1>12, <2>2
    <3>2. /\ Known(period[q].in) /\ (period[q].out = 0 \/ Known(period[q].out))
          /\ period[q].active => ~period[q].ended /\ period[q].out = 0
      BY <1>2 DEF RowsOK
    <3>3. QED
      BY <1>14, <3>1, <3>2
  <2>3. QED
    BY <2>1, <2>2
<1>17. \A d \in DOMAIN correction' :
           /\ correction'[d].of \in 1..Len(period')
           /\ correction'[d].in \in 1..Len(punch') /\ correction'[d].out \in 0..Len(punch')
  BY <1>2, <1>3, <1>4, <1>11, <1>12 DEF RowsOK
<1>18. \A d, f \in DOMAIN correction' : d # f => Ids(d)' \cap Ids(f)' = {}
  BY <1>2, <1>4 DEF RowsOK
<1>19. \A e \in 1..Len(punch') : Drafted(e)' => ~punch'[e].live
  <2> SUFFICES ASSUME NEW e \in 1..Len(punch), Drafted(e)' PROVE ~punch'[e].live
    BY <1>11
  <2>1. Drafted(e) /\ ~punch[e].live
    BY <1>2, <1>4 DEF RowsOK
  <2>2. e \notin Ids(c) /\ e # 0
    BY <1>2, <1>4
  <2>3. e \notin {newIn, newOut}
    BY <2>2
  <2>4. QED
    BY <1>11, <2>1, <2>3
<1>20. RowsOK'
  BY <1>16, <1>17, <1>18, <1>19 DEF RowsOK
<1>21. \A q \in 1..Len(period') : q > Len(period) => period'[q].via = "app"
  BY <1>2, <1>12
<1>22. QED
  BY <1>1, <1>2, <1>13, <1>20, <1>21, EndKeeps

\* A clock-out correction is applied only to a period that had a clock-out when it was read.
LEMMA ApproveKeeps ==
    ASSUME ClockInv, NEW s \in Clocker, Approve(s)
    PROVE  ClockInv'
<1>1. CASE Refuse(s)
  BY <1>1, EndActions
<1>2. CASE ~Refuse(s)
  <2> DEFINE c0 == clockCall[s].c
             was0 == clockCall[s].was
             in0 == Resolved(correction[c0].in, was0.in)
             out0 == Resolved(correction[c0].out, was0.out)
  <2>1. /\ clockCall[s].step = "approve" /\ clockCall[s].step # "off"
        /\ MayApply(correction[c0].action, in0, out0)
        /\ ApplyCorrection(s, c0, clockCall[s].p, was0, in0, out0)
    BY <1>2 DEF Approve, AtStep
  <2>2. /\ clockCall[s].p \in 1..Len(period) /\ c0 \in DOMAIN correction /\ was0 \in Period
    <3>1. clockCall[s].step = "approve" /\ clockCall[s].step # "off"
      BY <2>1
    <3>2. /\ clockCall[s].p \in 1..Len(period) /\ ClockTypeOK /\ CallOK(s)
      BY <3>1, CallFacts DEF NoPeriodYet
    <3>3. was0 \in Period
      BY <3>1, <3>2, BusyCall
    <3>4. c0 \in DOMAIN correction
      BY <3>1, <3>2, SMTT(30) DEF CallOK
    <3>5. QED
      BY <3>2, <3>3, <3>4
  <2>3. in0 # 0 /\ in0 \in Ids(c0)
    BY <2>1 DEF MayApply, Resolved, Ids
  <2>4. out0 \in {0} \cup Ids(c0) /\ (was0.out = 0 => out0 = 0)
    BY DEF Resolved, Ids
  <2>5. PICK c \in DOMAIN correction, p \in 1..Len(period), was \in Period :
            c = c0 /\ p = clockCall[s].p /\ was = was0
    BY <2>2
  <2>6. PICK newIn \in Ids(c), newOut \in {0} \cup Ids(c) : newIn = in0 /\ newOut = out0
    BY <2>3, <2>4, <2>5
  <2>7. ApplyCorrection(s, c, p, was, newIn, newOut) /\ (was.out = 0 => newOut = 0)
    BY <2>1, <2>4, <2>5, <2>6
  <2> HIDE DEF in0, out0
  <2>8. QED
    BY <2>1, <2>5, <2>7, ApplyKeeps
<1>3. QED
  BY <1>1, <1>2

\* A rejection changes the status of a pending correction and nothing else.
LEMMA RejectKeeps ==
    ASSUME ClockInv, NEW s \in Clocker, Reject(s)
    PROVE  ClockInv'
<1>1. PICK c \in DOMAIN correction :
          /\ correction[c].status = "pending" /\ calls < MaxCalls /\ calls' = calls + 1
          /\ correction' = [correction EXCEPT ![c].status = "rejected"]
          /\ UNCHANGED <<period, punch, clockCall, unsettled>>
  BY DEF Reject
<1>2. /\ ClockTypeOK /\ RowsOK /\ LockOK /\ CallOK(s) /\ calls \in 0..MaxCalls /\ unsettled \in BOOLEAN
      /\ period \in Seq(Period) /\ Len(period) \in Nat /\ punch \in Seq(Punch) /\ Len(punch) \in Nat
      /\ DOMAIN correction = 1..Len(correction) /\ Len(correction) \in Nat
  BY RowsOfTables DEF ClockInv, ClockTypeOK
<1>3. PICK status \in {"approved", "rejected"} : status = "rejected"
  OBVIOUS
<1>4. correction' = [correction EXCEPT ![c].status = status] /\ correction[c].status # "approved"
  BY <1>1, <1>3
<1>5. /\ correction' \in Seq(Correction) /\ Len(correction') = Len(correction)
      /\ \A d \in 1..Len(correction) :
            /\ correction'[d].of = correction[d].of /\ correction'[d].in = correction[d].in
            /\ correction'[d].out = correction[d].out
  BY <1>2, <1>4, Decided
<1>6. /\ \A d \in DOMAIN correction : Ids(d)' = Ids(d)
      /\ DOMAIN correction' = DOMAIN correction
      /\ \A e : Drafted(e)' => Drafted(e)
  BY <1>4, DecidedIds
<1>7. Grows
  BY <1>1, <1>2, <1>5, <1>6 DEF Grows
<1>8. \A e : Known(e) => Known(e)'
  BY <1>2, <1>7, KnownGrows
<1>9. RowsOK'
  <2>1. \A p \in DOMAIN period' :
            /\ Known(period[p].in)' /\ (period'[p].out = 0 \/ Known(period[p].out)')
            /\ period'[p].active => ~period'[p].ended /\ period'[p].out = 0
    <3> SUFFICES ASSUME NEW p \in DOMAIN period
                 PROVE  /\ Known(period[p].in)' /\ (period'[p].out = 0 \/ Known(period[p].out)')
                        /\ period'[p].active => ~period'[p].ended /\ period'[p].out = 0
      BY <1>1
    <3>1. /\ Known(period[p].in) /\ (period[p].out = 0 \/ Known(period[p].out))
          /\ period[p].active => ~period[p].ended /\ period[p].out = 0
      BY <1>2 DEF RowsOK
    <3>2. period' = period
      BY <1>1
    <3>3. QED
      BY <1>8, <3>1, <3>2
  <2>2. \A d \in DOMAIN correction' :
            /\ correction'[d].of \in 1..Len(period')
            /\ correction'[d].in \in 1..Len(punch') /\ correction'[d].out \in 0..Len(punch')
    BY <1>1, <1>2, <1>5, <1>6 DEF RowsOK
  <2>3. \A d, f \in DOMAIN correction' : d # f => Ids(d)' \cap Ids(f)' = {}
    BY <1>2, <1>6 DEF RowsOK
  <2>4. \A e \in 1..Len(punch') : Drafted(e)' => ~punch'[e].live
    BY <1>1, <1>2, <1>6 DEF RowsOK
  <2>5. QED
    BY <2>1, <2>2, <2>3, <2>4 DEF RowsOK
<1>10. \A p \in 1..Len(period') : p > Len(period) => period'[p].via = "app"
  BY <1>1, <1>2
<1>11. LockOK'
  BY <1>1, <1>7, <1>10, LockKept
<1>12. CallOK(s)'
  BY <1>1, <1>2, <1>7, CallStable
<1>13. PICK new \in {Off} \cup Busy : new = clockCall[s]
  BY <1>2 DEF ClockTypeOK
<1>14. clockCall' = [clockCall EXCEPT ![s] = new]
  BY <1>1, <1>2, <1>13 DEF ClockTypeOK
<1>15. calls' \in 0..MaxCalls /\ unsettled' \in BOOLEAN
  BY <1>1, <1>2, ClockBounds
<1>16. QED
  BY <1>7, <1>9, <1>11, <1>12, <1>14, <1>15, StepKeeps

-----------------------------------------------------------------------------
(***************************************************************************)
(* The theorems.                                                           *)
(***************************************************************************)

\* What the employee starts with is sound.
LEMMA ClockStarts ==
    ASSUME ClockInit
    PROVE  ClockInv
<1> DEFINE live == ThePunches \o <<Draft(1), Draft(2)>>
<1>1. /\ clockCall = [s \in Clocker |-> Off] /\ calls = 0 /\ unsettled = FALSE
      /\ \A s \in Clocker : clockCall[s] = Off
  BY DEF ClockInit
<1>2. /\ clockCall \in [Clocker -> {Off} \cup Busy] /\ calls \in 0..MaxCalls /\ unsettled \in BOOLEAN
      /\ \A s \in Clocker : CallOK(s)
      /\ \A s \in Clocker : clockCall[s].step = "off"
  <2>1. \A s \in Clocker : clockCall[s].step = "off"
    BY <1>1 DEF Off
  <2>2. \A s \in Clocker : CallOK(s)
    BY <2>1 DEF CallOK
  <2>3. calls \in 0..MaxCalls
    <3>1. calls = 0 /\ MaxCalls \in Nat
      BY <1>1, ClockBounds
    <3>2. QED
      BY <3>1
  <2>4. clockCall \in [Clocker -> {Off} \cup Busy]
    BY <1>1
  <2>5. unsettled \in BOOLEAN
    <3>1. unsettled = FALSE
      BY <1>1
    <3>2. QED
      BY <3>1
  <2>6. QED
    BY <2>1, <2>2, <2>3, <2>4, <2>5
<1>3. ThePunches \in Seq(Punch) /\ Len(ThePunches) = 2 /\ <<ThePunches[1]>> \in Seq(Punch)
  BY DEF ThePunches, Punch
<1>4. /\ live \in Seq(Punch) /\ Len(live) = 4 /\ ~live[3].live /\ ~live[4].live
  BY DEF ThePunches, Draft, Punch
<1> HIDE DEF live
<1>5. /\ OpenPeriod(1, "app") \in Period /\ OpenPeriod(1, "app").in = 1 /\ OpenPeriod(1, "app").out = 0
      /\ ~OpenPeriod(1, "app").ended /\ OpenPeriod(1, "app").via = "app"
      /\ ClosedPeriod(1, 2, FALSE) \in Period /\ ClosedPeriod(1, 2, FALSE).in = 1
      /\ ClosedPeriod(1, 2, FALSE).out = 2 /\ ~ClosedPeriod(1, 2, FALSE).active
      /\ ClosedPeriod(1, 2, FALSE).via = "app"
  BY DEF OpenPeriod, ClosedPeriod, Period
<1>6. PICK row \in Period :
          /\ period = <<>> \/ period = <<row>>
          /\ row.in = 1 /\ row.via = "app"
          /\ row.active => ~row.ended /\ row.out = 0
          /\ row.out \in {0, 2}
          /\ \/ period = <<>> /\ punch = <<>> /\ correction = <<>>
             \/ period = <<row>> /\ row.out = 0 /\ punch = <<ThePunches[1]>> /\ correction = <<>>
             \/ period = <<row>> /\ punch = ThePunches /\ correction = <<>>
             \/ period = <<row>> /\ punch = live /\ correction = <<TheCorrection>>
  <2>1. CASE period = <<>> /\ punch = <<>> /\ correction = <<>>
    <3>1. PICK row \in Period : row = OpenPeriod(1, "app")
      BY <1>5
    <3>2. QED
      BY <1>5, <2>1, <3>1
  <2>2. CASE period = <<OpenPeriod(1, "app")>> /\ punch = <<ThePunches[1]>> /\ correction = <<>>
    <3>1. PICK row \in Period : row = OpenPeriod(1, "app")
      BY <1>5
    <3>2. QED
      BY <1>5, <2>2, <3>1
  <2>3. CASE /\ period = <<ClosedPeriod(1, 2, FALSE)>>
             /\ \/ punch = ThePunches /\ correction = <<>>
                \/ punch = live /\ correction = <<TheCorrection>>
    <3>1. PICK row \in Period : row = ClosedPeriod(1, 2, FALSE)
      BY <1>5
    <3>2. QED
      BY <1>5, <2>3, <3>1
  <2>4. QED
    BY <2>1, <2>2, <2>3 DEF ClockInit, live
<1>7. /\ TheCorrection \in Correction /\ TheCorrection.of = 1 /\ TheCorrection.in = 3
      /\ TheCorrection.out = 4
  BY DEF TheCorrection, Correction
<1>8. /\ period \in Seq(Period) /\ Len(period) \in {0, 1} /\ DOMAIN period = 1..Len(period)
      /\ \A p \in DOMAIN period : p = 1 /\ period[p] = row /\ period = <<row>>
  <2>1. CASE period = <<>>
    BY <2>1
  <2>2. CASE period = <<row>>
    BY <2>2
  <2>3. QED
    BY <1>6, <2>1, <2>2
<1>9. /\ punch \in Seq(Punch) /\ correction \in Seq(Correction) /\ Len(punch) \in Nat
      /\ \A p \in DOMAIN period : Len(punch) >= 1 /\ (row.out = 2 => Len(punch) >= 2)
      /\ \A c \in DOMAIN correction : /\ c = 1 /\ correction[c] = TheCorrection
                                      /\ Len(punch) = 4 /\ punch = live /\ Len(period) = 1
  <2>1. /\ <<>> \in Seq(Punch) /\ Len(<<>>) = 0 /\ <<>> \in Seq(Correction) /\ DOMAIN <<>> = {}
        /\ <<TheCorrection>> \in Seq(Correction) /\ <<TheCorrection>>[1] = TheCorrection
        /\ DOMAIN <<TheCorrection>> = {1} /\ Len(<<ThePunches[1]>>) = 1 /\ Len(<<row>>) = 1
    BY <1>7
  <2>2. punch \in Seq(Punch) /\ correction \in Seq(Correction) /\ Len(punch) \in {0, 1, 2, 4}
    BY <1>3, <1>4, <1>6, <2>1
  <2>3. ASSUME NEW p \in DOMAIN period
        PROVE  Len(punch) >= 1 /\ (row.out = 2 => Len(punch) >= 2)
    <3>1. period # <<>>
      BY <1>8, <2>3, <2>1
    <3>2. CASE row.out = 0 /\ punch = <<ThePunches[1]>>
      BY <2>1, <3>2
    <3>3. CASE punch = ThePunches \/ punch = live
      <4>1. CASE punch = ThePunches
        <5>1. Len(punch) = 2
          BY <1>3, <4>1
        <5>2. QED
          BY <5>1
      <4>2. CASE punch = live
        <5>1. Len(punch) = 4
          BY <1>4, <4>2
        <5>2. QED
          BY <5>1
      <4>3. QED
        BY <3>3, <4>1, <4>2
    <3>4. QED
      BY <1>6, <3>1, <3>2, <3>3
  <2>4. ASSUME NEW c \in DOMAIN correction
        PROVE  /\ c = 1 /\ correction[c] = TheCorrection
               /\ Len(punch) = 4 /\ punch = live /\ Len(period) = 1
    <3>1. correction # <<>>
      BY <2>1, <2>4
    <3>2. period = <<row>> /\ punch = live /\ correction = <<TheCorrection>>
      BY <1>6, <3>1
    <3>3. QED
      BY <1>4, <2>1, <2>4, <3>2
  <2>5. QED
    BY <2>2, <2>3, <2>4
<1>10. \A c \in DOMAIN correction : Ids(c) = {3, 4}
  BY <1>7, <1>9 DEF Ids
<1>11. \A e : Drafted(e) => /\ e \in {3, 4} /\ punch = live
  BY <1>9, <1>10 DEF Drafted
<1>12. \A p \in DOMAIN period : Known(period[p].in) /\ (period[p].out = 0 \/ Known(period[p].out))
  BY <1>6, <1>8, <1>9, <1>11 DEF Known
<1>13. RowsOK
  <2>1. \A p \in DOMAIN period : period[p].active => ~period[p].ended /\ period[p].out = 0
    <3>1. row.active => ~row.ended /\ row.out = 0
      BY <1>6
    <3>2. \A p \in DOMAIN period : period[p] = row
      BY <1>8
    <3>3. QED
      BY <3>1, <3>2
  <2>2. \A c \in DOMAIN correction :
            /\ correction[c].of \in 1..Len(period)
            /\ correction[c].in \in 1..Len(punch) /\ correction[c].out \in 0..Len(punch)
    <3> SUFFICES ASSUME NEW c \in DOMAIN correction
                 PROVE  /\ correction[c].of \in 1..Len(period)
                        /\ correction[c].in \in 1..Len(punch) /\ correction[c].out \in 0..Len(punch)
      OBVIOUS
    <3>1. correction[c].of = 1 /\ correction[c].in = 3 /\ correction[c].out = 4
      BY <1>7, <1>9
    <3>2. Len(punch) = 4 /\ Len(period) = 1
      BY <1>9
    <3>3. QED
      BY <3>1, <3>2
  <2>3. \A c, d \in DOMAIN correction : c # d => Ids(c) \cap Ids(d) = {}
    BY <1>9
  <2>4. \A e \in 1..Len(punch) : Drafted(e) => ~punch[e].live
    BY <1>4, <1>11
  <2>5. QED
    BY <1>12, <2>1, <2>2, <2>3, <2>4 DEF RowsOK
<1>14. LockOK
  BY <1>2, <1>8 DEF LockOK, OneOpenUnderLock, AtStep, Open
<1>15. ClockTypeOK
  <2>1. \A p \in DOMAIN period : period[p].in \in DOMAIN punch /\ period[p].out \in 0..Len(punch)
    <3>1. DOMAIN punch = 1..Len(punch)
      BY <1>9
    <3>2. QED
      BY <1>9, <1>12, <3>1 DEF Known
  <2>2. QED
    BY <1>2, <1>8, <1>9, <2>1 DEF ClockTypeOK
<1>16. QED
  BY <1>2, <1>13, <1>14, <1>15 DEF ClockInv

\* Every call keeps it.
LEMMA ClockSteps ==
    ASSUME ClockInv, [ClockNext]_clockVars
    PROVE  ClockInv'
<1>1. ASSUME NEW s \in Clocker,
             \/ CheckIn(s) \/ CheckManual(s) \/ ApiBegin(s) \/ CheckOut(s) \/ CheckSplit(s)
             \/ CheckEnforce(s) \/ CheckEdit(s) \/ CheckRequest(s) \/ CheckApprove(s)
      PROVE  ClockInv'
  BY <1>1, BeginActions
<1>2. ASSUME NEW s \in Clocker, PunchIn(s) \/ PunchManual(s) \/ PunchOut(s) \/ PunchSplit(s)
      PROVE  ClockInv'
  BY <1>2, PunchActions
<1>3. ASSUME NEW s \in Clocker,
             \/ InsertPeriod(s) \/ ApiClockIn(s) \/ CloseIfOpen(s) \/ WebClose(s) \/ BotClose(s)
      PROVE  ClockInv'
  BY <1>3, InsertPeriodKeeps, ApiClockInKeeps, CloseWithPunch, WebCloseKeeps
<1>4. ASSUME NEW s \in Clocker,
             TakeBreak(s) \/ Enforce(s) \/ SplitNotes(s) \/ SplitUpdate(s) \/ SplitInsert(s)
      PROVE  ClockInv'
  BY <1>4, TakeBreakKeeps, EnforceKeeps, SplitNotesKeeps, SplitUpdateKeeps, SplitInsertKeeps
<1>5. ASSUME NEW s \in Clocker,
             EditCheck(s) \/ EditInsert(s) \/ EditUpdate(s) \/ RequestCorrection(s) \/ RequestDeletion(s)
      PROVE  ClockInv'
  BY <1>5, EditCheckKeeps, EditInsertKeeps, EditUpdateKeeps, RequestActions
<1>6. ASSUME NEW s \in Clocker, Approve(s) \/ Reject(s) \/ Die(s)
      PROVE  ClockInv'
  BY <1>6, ApproveKeeps, RejectKeeps, EndActions
<1>7. CASE UNCHANGED clockVars
  <2>1. UNCHANGED <<period, punch, correction, clockCall, calls, unsettled>> /\ ClockTypeOK
    BY <1>7 DEF clockVars, ClockInv
  <2>2. Grows /\ RowsOK'
    BY <2>1, RowsUnchanged
  <2>3. \A s \in Clocker : CallOK(s)'
    BY <2>1, <2>2, CallStable DEF ClockInv
  <2>4. LockOK'
    BY <2>1 DEF ClockInv, LockOK, OneOpenUnderLock, Open, AtStep
  <2>5. ClockTypeOK'
    BY <2>1 DEF ClockTypeOK
  <2>6. QED
    BY <2>2, <2>3, <2>4, <2>5 DEF ClockInv
<1>8. QED
  BY <1>1, <1>2, <1>3, <1>4, <1>5, <1>6, <1>7 DEF ClockNext

LEMMA ClockInvHolds == ClockSpec => []ClockInv
BY ClockStarts, ClockSteps, PTL DEF ClockSpec

\* Every table and every call keeps its type, and a period refers only to entries there are.
THEOREM ClockTypeCorrect == ClockSpec => []ClockTypeOK
<1>1. ClockInv => ClockTypeOK
  BY DEF ClockInv
<1>2. QED
  BY <1>1, ClockInvHolds, PTL

\* However many calls of the API overlap the app's and die, it has one period open at most.
THEOREM OneOpenUnderLockCorrect == ClockSpec => []OneOpenUnderLock
<1>1. ClockInv => OneOpenUnderLock
  BY DEF ClockInv, LockOK
<1>2. QED
  BY <1>1, ClockInvHolds, PTL

\* No write by a stale reading leaves a period active that has an end or a clock-out.
THEOREM ActiveHasNoEndCorrect == ClockSpec => []ActiveHasNoEnd
<1>1. ClockInv => ActiveHasNoEnd
  BY DEF ClockInv, RowsOK, ActiveHasNoEnd
<1>2. QED
  BY <1>1, ClockInvHolds, PTL

\* A correction that is not approved is not live, and no period refers to it.
THEOREM UnapprovedNeverCountsCorrect == ClockSpec => []UnapprovedNeverCounts
<1>1. ASSUME ClockInv PROVE UnapprovedNeverCounts
  <2> SUFFICES ASSUME NEW c \in DOMAIN correction, correction[c].status # "approved",
                      NEW e \in {correction[c].in, correction[c].out} \ {0}
               PROVE  /\ ~punch[e].live
                      /\ \A p \in DOMAIN period : e # period[p].in /\ e # period[p].out
    BY DEF UnapprovedNeverCounts
  <2>1. Drafted(e) /\ e # 0
    BY DEF Drafted, Ids
  <2>2. RowsOK /\ e \in 1..Len(punch)
    BY <1>1, <2>1, RowsOfTables DEF ClockInv, RowsOK
  <2>3. ~punch[e].live
    BY <2>1, <2>2 DEF RowsOK
  <2>4. \A p \in DOMAIN period : e # period[p].in /\ e # period[p].out
    BY <2>1, <2>2 DEF RowsOK, Known
  <2>5. QED
    BY <2>3, <2>4
<1>2. QED
  BY <1>1, ClockInvHolds, PTL


-----------------------------------------------------------------------------
(***************************************************************************)
(* What calls that come one after the other leave behind.  Rows are sound  *)
(* but for entries a call has inserted that no period has yet (loose) and  *)
(* for those of a period that it has superseded already (stale).           *)
(***************************************************************************)
RowIds(row) == {row.in, row.out} \ {0}

Shapely(row) ==
    /\ row.in # 0 /\ row.in # row.out
    /\ row.ended <=> row.out # 0
    /\ row.active <=> ~row.ended

SoundRow(row, es, stale) ==
    /\ Shapely(row)
    /\ \A e \in RowIds(row) : e \in DOMAIN es /\ (es[e].live <=> e \notin stale)

SoundRows(ps, es, loose, stale) ==
    /\ \A p, q \in DOMAIN ps : ~ps[p].ended /\ ~ps[q].ended => p = q
    /\ \A p, q \in DOMAIN ps : p # q => RowIds(ps[p]) \cap RowIds(ps[q]) = {}
    /\ \A p \in DOMAIN ps : SoundRow(ps[p], es, stale)
    /\ \A e \in loose : e \in DOMAIN es /\ es[e].live /\ \A p \in DOMAIN ps : e \notin RowIds(ps[p])
    /\ \A e \in DOMAIN es : es[e].live => e \in loose \/ \E p \in DOMAIN ps : e \in RowIds(ps[p])

\* The steps at which the call has inserted nothing yet, and those at which no period has
\* what it inserted.
NothingInserted == {"clock_in", "manual", "web_out", "split", "edit_in", "edit_in_insert"}
InsertedLoose == {"clock_in_period", "manual_period", "web_out_update", "split_notes",
                  "split_update", "edit_out", "edit_out_insert", "edit_update"}
EditSteps == {"edit_in", "edit_in_insert", "edit_out", "edit_out_insert", "edit_update"}

Loose(call) ==
    IF call.step \in InsertedLoose THEN {call.es[i] : i \in 1..Len(call.es)}
    ELSE IF call.step = "split_insert" THEN {call.es[2], call.was.out} ELSE {}

Stale(call) ==
    IF call.step \in {"edit_out", "edit_out_insert"} THEN {call.was.in}
    ELSE IF call.step = "edit_update"
         THEN IF Len(call.es) = 2 THEN {call.was.in, call.was.out} ELSE {call.was.in}
         ELSE {}

\* What the call has inserted.
KnowsEntries(call) ==
    /\ call.step \in NothingInserted => Len(call.es) = 0
    /\ call.step \in {"clock_in_period", "web_out_update", "edit_out", "edit_out_insert"} =>
          Len(call.es) = 1
    /\ call.step \in {"manual_period", "split_notes", "split_update", "split_insert"} => Len(call.es) = 2
    /\ call.step = "edit_update" => Len(call.es) \in {1, 2}
    /\ Len(call.es) = 2 => call.es[1] # call.es[2]
    /\ call.step = "split_insert" => call.was.out # 0 /\ call.es[2] # call.was.out

\* What the call has read.
KnowsRows(call) ==
    /\ call.step \in {"clock_in", "clock_in_period", "api_in"} => WithoutEnd = {}
    /\ call.step \in {"web_out", "web_out_update", "bot_out"} => ~period[call.p].ended
    /\ call.step \in {"split", "split_notes", "split_update"} \cup EditSteps =>
          period[call.p] = call.was /\ call.was.ended /\ ~call.was.deleted
    /\ call.step = "approve" =>
          period[call.p] = call.was /\ correction[call.c].status # "approved"

InTurn ==
    /\ \A s, r \in Clocker : clockCall[s].step # "off" /\ clockCall[r].step # "off" => s = r
    /\ (\A s \in Clocker : clockCall[s].step = "off") => SoundRows(period, punch, {}, {})
    /\ \A s \in Clocker : clockCall[s].step # "off" =>
          /\ SoundRows(period, punch, Loose(clockCall[s]), Stale(clockCall[s]))
          /\ KnowsEntries(clockCall[s]) /\ KnowsRows(clockCall[s])

TurnInv == ~unsettled => InTurn

-----------------------------------------------------------------------------
\* A row that is inserted with entries that were loose.
LEMMA RowAppended ==
    ASSUME NEW ps, NEW es, NEW loose, NEW row, NEW n, NEW ps2,
           DOMAIN ps2 = DOMAIN ps \cup {n}, n \notin DOMAIN ps, ps2[n] = row,
           \A p \in DOMAIN ps : ps2[p] = ps[p],
           SoundRows(ps, es, loose, {}), Shapely(row), RowIds(row) \subseteq loose,
           row.ended \/ \A p \in DOMAIN ps : ps[p].ended
    PROVE  SoundRows(ps2, es, loose \ RowIds(row), {})
<1>1. \A p, q \in DOMAIN ps2 : ~ps2[p].ended /\ ~ps2[q].ended => p = q
  BY DEF SoundRows
<1>2. \A p \in DOMAIN ps : RowIds(ps[p]) \cap RowIds(row) = {}
  BY DEF SoundRows
<1>3. \A p, q \in DOMAIN ps2 : p # q => RowIds(ps2[p]) \cap RowIds(ps2[q]) = {}
  BY <1>2 DEF SoundRows
<1>4. \A p \in DOMAIN ps2 : SoundRow(ps2[p], es, {})
  BY DEF SoundRows, SoundRow
<1>5. ASSUME NEW e \in loose \ RowIds(row)
      PROVE  e \in DOMAIN es /\ es[e].live /\ \A p \in DOMAIN ps2 : e \notin RowIds(ps2[p])
  BY DEF SoundRows
<1>6. ASSUME NEW e \in DOMAIN es, es[e].live
      PROVE  e \in loose \ RowIds(row) \/ \E p \in DOMAIN ps2 : e \in RowIds(ps2[p])
  BY <1>6 DEF SoundRows
<1>7. QED
  BY <1>1, <1>3, <1>4, <1>5, <1>6 DEF SoundRows

\* A row that takes loose entries, and leaves some of its own loose.
LEMMA RowReplaced ==
    ASSUME NEW ps, NEW es, NEW loose, NEW stale, NEW row, NEW ps2, NEW p \in DOMAIN ps,
           DOMAIN ps2 = DOMAIN ps, ps2[p] = row, \A q \in DOMAIN ps \ {p} : ps2[q] = ps[q],
           SoundRows(ps, es, loose, stale), Shapely(row),
           RowIds(row) \subseteq loose \cup RowIds(ps[p]),
           stale \subseteq RowIds(ps[p]) \ RowIds(row), row.ended \/ ~ps[p].ended
    PROVE  SoundRows(ps2, es, (loose \ RowIds(row)) \cup ((RowIds(ps[p]) \ RowIds(row)) \ stale), {})
<1>1. \A q, r \in DOMAIN ps2 : ~ps2[q].ended /\ ~ps2[r].ended => q = r
  BY DEF SoundRows
<1>2. \A q \in DOMAIN ps \ {p} : RowIds(ps[q]) \cap RowIds(row) = {}
  BY DEF SoundRows
<1>3. \A q, r \in DOMAIN ps2 : q # r => RowIds(ps2[q]) \cap RowIds(ps2[r]) = {}
  BY <1>2 DEF SoundRows
<1>4. \A q \in DOMAIN ps2 : SoundRow(ps2[q], es, {})
  <2>1. SoundRow(row, es, {})
    <3>1. \A e \in RowIds(row) : e \in DOMAIN es /\ es[e].live
      BY DEF SoundRows, SoundRow
    <3>2. QED
      BY <3>1 DEF SoundRow
  <2>2. ASSUME NEW q \in DOMAIN ps \ {p} PROVE SoundRow(ps[q], es, {})
    <3>1. RowIds(ps[q]) \cap stale = {}
      BY DEF SoundRows
    <3>2. SoundRow(ps[q], es, stale)
      BY DEF SoundRows
    <3>3. QED
      BY <3>1, <3>2 DEF SoundRow
  <2>3. QED
    BY <2>1, <2>2
<1>5. ASSUME NEW e \in (loose \ RowIds(row)) \cup ((RowIds(ps[p]) \ RowIds(row)) \ stale)
      PROVE  e \in DOMAIN es /\ es[e].live /\ \A q \in DOMAIN ps2 : e \notin RowIds(ps2[q])
  <2>1. CASE e \in loose
    BY <1>5, <2>1 DEF SoundRows
  <2>2. CASE e \in RowIds(ps[p]) \ stale
    <3>1. e \in DOMAIN es /\ es[e].live
      BY <2>2 DEF SoundRows, SoundRow
    <3>2. \A q \in DOMAIN ps \ {p} : e \notin RowIds(ps[q])
      BY <2>2 DEF SoundRows
    <3>3. QED
      BY <1>5, <3>1, <3>2, <2>2 DEF SoundRows
  <2>3. QED
    BY <2>1, <2>2
<1>6. ASSUME NEW e \in DOMAIN es, es[e].live
      PROVE  \/ e \in (loose \ RowIds(row)) \cup ((RowIds(ps[p]) \ RowIds(row)) \ stale)
             \/ \E q \in DOMAIN ps2 : e \in RowIds(ps2[q])
  <2>1. e \notin stale
    BY <1>6 DEF SoundRows, SoundRow
  <2>2. e \in loose \/ \E q \in DOMAIN ps : e \in RowIds(ps[q])
    BY <1>6 DEF SoundRows
  <2>3. QED
    BY <2>1, <2>2
<1>7. QED
  BY <1>1, <1>3, <1>4, <1>5, <1>6 DEF SoundRows

\* The entries new are inserted, and those of them that are live are loose.
NewEntries(es, es2, new) ==
    /\ DOMAIN es2 = DOMAIN es \cup new
    /\ \A e \in new : e \notin DOMAIN es
    /\ \A e \in DOMAIN es : es2[e] = es[e]

Loosened(loose, more, es2, new) ==
    \A e : e \in more <=> e \in loose \/ (e \in new /\ es2[e].live)

LEMMA EntriesAdded ==
    ASSUME NEW ps, NEW es, NEW loose, NEW stale, NEW new, NEW es2, NEW more,
           NewEntries(es, es2, new), Loosened(loose, more, es2, new), SoundRows(ps, es, loose, stale)
    PROVE  SoundRows(ps, es2, more, stale)
<1>1. \A p \in DOMAIN ps : SoundRow(ps[p], es2, stale) /\ RowIds(ps[p]) \subseteq DOMAIN es
  BY DEF SoundRows, SoundRow, NewEntries
<1>2. \A e \in more :
          e \in DOMAIN es2 /\ es2[e].live /\ \A p \in DOMAIN ps : e \notin RowIds(ps[p])
  BY <1>1 DEF SoundRows, NewEntries, Loosened
<1>3. \A e \in DOMAIN es2 : es2[e].live =>
          e \in more \/ \E p \in DOMAIN ps : e \in RowIds(ps[p])
  BY DEF SoundRows, NewEntries, Loosened
<1>4. QED
  BY <1>1, <1>2, <1>3 DEF SoundRows

\* Entries of a row that are superseded are stale.
LEMMA EntriesSuperseded ==
    ASSUME NEW ps, NEW es, NEW loose, NEW stale, NEW es2, NEW p \in DOMAIN ps, NEW gone,
           gone \subseteq RowIds(ps[p]), DOMAIN es2 = DOMAIN es,
           \A e \in DOMAIN es : es2[e].live <=> es[e].live /\ e \notin gone,
           SoundRows(ps, es, loose, stale)
    PROVE  SoundRows(ps, es2, loose, stale \cup gone)
<1>1. \A q \in DOMAIN ps : SoundRow(ps[q], es2, stale \cup gone)
  BY DEF SoundRows, SoundRow
<1>2. \A e \in loose : e \in DOMAIN es2 /\ es2[e].live /\ \A q \in DOMAIN ps : e \notin RowIds(ps[q])
  BY DEF SoundRows
<1>3. \A e \in DOMAIN es2 : es2[e].live => e \in loose \/ \E q \in DOMAIN ps : e \in RowIds(ps[q])
  BY DEF SoundRows
<1>4. QED
  BY <1>1, <1>2, <1>3 DEF SoundRows

\* Entries of no row that are activated are loose.
LEMMA EntriesActivated ==
    ASSUME NEW ps, NEW es, NEW loose, NEW stale, NEW es2, NEW new,
           new \subseteq DOMAIN es, DOMAIN es2 = DOMAIN es,
           \A p \in DOMAIN ps : RowIds(ps[p]) \cap new = {},
           \A e \in DOMAIN es : es2[e].live <=> es[e].live \/ e \in new,
           SoundRows(ps, es, loose, stale)
    PROVE  SoundRows(ps, es2, loose \cup new, stale)
<1>1. \A q \in DOMAIN ps : SoundRow(ps[q], es2, stale)
  BY DEF SoundRows, SoundRow
<1>2. \A e \in loose \cup new :
          e \in DOMAIN es2 /\ es2[e].live /\ \A q \in DOMAIN ps : e \notin RowIds(ps[q])
  BY DEF SoundRows
<1>3. \A e \in DOMAIN es2 : es2[e].live => e \in loose \cup new \/ \E q \in DOMAIN ps : e \in RowIds(ps[q])
  BY DEF SoundRows
<1>4. QED
  BY <1>1, <1>2, <1>3 DEF SoundRows

-----------------------------------------------------------------------------
\* The one call that runs goes on, and the rows are sound but for what is its own.
LEMMA TurnGoes ==
    ASSUME ClockTypeOK, InTurn, NEW s \in Clocker,
           (\A r \in Clocker : clockCall[r].step = "off") \/ clockCall[s].step # "off",
           NEW new, new.step # "off", clockCall' = [clockCall EXCEPT ![s] = new],
           SoundRows(period', punch', Loose(new), Stale(new)), KnowsEntries(new), KnowsRows(new)'
    PROVE  InTurn'
<1>1. /\ clockCall'[s] = new
      /\ \A r \in Clocker \ {s} : clockCall'[r] = clockCall[r]
  BY DEF ClockTypeOK
<1>2. \A r \in Clocker \ {s} : clockCall'[r].step = "off"
  BY <1>1 DEF InTurn
<1>3. \A q, r \in Clocker : clockCall'[q].step # "off" /\ clockCall'[r].step # "off" => q = r
  BY <1>2
<1>4. SoundRows(period', punch', Loose(clockCall'[s]), Stale(clockCall'[s]))
  BY <1>1
<1>5. KnowsEntries(clockCall'[s]) /\ KnowsRows(clockCall[s])'
  BY <1>1 DEF KnowsEntries, KnowsRows
<1>6. \A r \in Clocker : clockCall'[r].step # "off" =>
          /\ SoundRows(period', punch', Loose(clockCall'[r]), Stale(clockCall'[r]))
          /\ KnowsEntries(clockCall'[r]) /\ KnowsRows(clockCall[r])'
  BY <1>2, <1>4, <1>5
<1>7. ~\A r \in Clocker : clockCall'[r].step = "off"
  BY <1>1
<1>8. QED
  BY <1>3, <1>6, <1>7 DEF InTurn

\* It ends, and the rows are sound.
LEMMA TurnEnds ==
    ASSUME ClockTypeOK, InTurn, NEW s \in Clocker, clockCall[s].step # "off", End(s),
           SoundRows(period', punch', {}, {})
    PROVE  InTurn'
<1>1. clockCall' = [clockCall EXCEPT ![s] = Off] /\ Off.step = "off"
  BY DEF End, Off
<1> HIDE DEF Off
<1>2. \A r \in Clocker : clockCall'[r].step = "off"
  BY <1>1 DEF InTurn, ClockTypeOK
<1>3. QED
  BY <1>2 DEF InTurn

\* A call begins when none runs.
BeginSteps == {"clock_in", "manual", "api_in", "api_out", "web_out", "bot_out", "app_out", "break",
               "split", "enforce", "edit_in", "ask_edit", "ask_delete", "approve"}

LEMMA TurnBegins ==
    ASSUME ClockInv, InTurn, ~unsettled', NEW s \in Clocker, NEW p \in 0..Len(period),
           NEW step \in BeginSteps, NEW c \in Nat, Begin(s, [ActingOn(p, step) EXCEPT !.c = c]),
           step \in {"clock_in", "api_in"} => WithoutEnd = {},
           step \in {"web_out", "bot_out"} => ~period[p].ended,
           step \in {"split", "edit_in"} => p # 0 /\ period[p].ended /\ ~period[p].deleted,
           step = "approve" => p # 0 /\ correction[c].status # "approved"
    PROVE  InTurn'
<1>1. ClockTypeOK /\ step \in AnyStep
  BY DEF ClockInv, BeginSteps, AnyStep
<1> DEFINE made == [ActingOn(p, step) EXCEPT !.c = c]
<1>2. /\ made \in Busy /\ made.step = step /\ made.p = p /\ made.es = <<>> /\ made.c = c
      /\ p # 0 => made.was = period[p]
  BY <1>1, ActingFields
<1> HIDE DEF made
<1>3. PICK new : new = made
  OBVIOUS
<1>4. /\ clockCall' = [clockCall EXCEPT ![s] = new] /\ UNCHANGED <<period, punch, correction>>
      /\ unsettled' = (unsettled \/ Others(s) # {}) /\ clockCall[s].step = "off"
  BY <1>3 DEF Begin, AtStep, made
<1>5. \A r \in Clocker : clockCall[r].step = "off"
  BY <1>4 DEF Others
<1>6. SoundRows(period', punch', {}, {})
  BY <1>4, <1>5 DEF InTurn
<1>7. Loose(new) = {} /\ Stale(new) = {} /\ Len(new.es) = 0 /\ new.step # "off"
  BY <1>2, <1>3 DEF Loose, Stale, InsertedLoose, BeginSteps
<1>8. KnowsEntries(new)
  BY <1>2, <1>7, <1>3 DEF KnowsEntries, BeginSteps
<1>9. KnowsRows(new)'
  <2>1. WithoutEnd' = WithoutEnd
    BY <1>4 DEF WithoutEnd
  <2>2. step \notin {"clock_in_period", "web_out_update", "split_notes", "split_update",
                     "edit_in_insert", "edit_out", "edit_out_insert", "edit_update"}
    BY DEF BeginSteps
  <2>3. QED
    BY <1>2, <1>4, <1>3, <2>1, <2>2 DEF KnowsRows, EditSteps
<1>10. QED
  BY <1>1, <1>4, <1>5, <1>6, <1>7, <1>8, <1>9, TurnGoes


LEMMA BeginsInTurn ==
    ASSUME ClockInv, InTurn, ~unsettled', NEW s \in Clocker,
           \/ CheckIn(s) \/ CheckManual(s) \/ ApiBegin(s) \/ CheckOut(s) \/ CheckSplit(s)
           \/ CheckEnforce(s) \/ CheckEdit(s) \/ CheckRequest(s) \/ CheckApprove(s)
    PROVE  InTurn'
<1>1. ClockTypeOK /\ RowsOK /\ Len(period) \in Nat /\ DOMAIN period = 1..Len(period)
  BY RowsOfTables DEF ClockInv
<1>2. ASSUME NEW p \in 0..Len(period), NEW step \in BeginSteps, Begin(s, ActingOn(p, step)),
             step \in {"clock_in", "api_in"} => WithoutEnd = {},
             step \in {"web_out", "bot_out"} => ~period[p].ended,
             step \in {"split", "edit_in"} => p # 0 /\ period[p].ended /\ ~period[p].deleted,
             step # "approve"
      PROVE  InTurn'
  <2>1. 0 \in Nat
    OBVIOUS
  <2>2. ActingOn(p, step) = [ActingOn(p, step) EXCEPT !.c = 0]
    BY DEF ActingOn
  <2>3. PICK c \in Nat : Begin(s, [ActingOn(p, step) EXCEPT !.c = c])
    BY <1>2, <2>1, <2>2
  <2>4. QED
    BY <1>2, <2>3, TurnBegins
<1>3. 0 \in 0..Len(period)
  BY <1>1
<1>4. CASE CheckIn(s) \/ CheckManual(s)
  <2>1. PICK step \in {"clock_in", "manual"} :
            Begin(s, ActingOn(0, step)) /\ (step = "clock_in" => WithoutEnd = {})
    BY <1>4 DEF CheckIn, CheckManual
  <2>2. step \in BeginSteps /\ step \notin {"api_in", "web_out", "bot_out", "split", "edit_in", "approve"}
    BY DEF BeginSteps
  <2>3. QED
    BY <1>2, <1>3, <2>1, <2>2
<1>5. CASE ApiBegin(s)
  <2>1. CASE Open = {} /\ Begin(s, ActingOn(0, "api_in"))
    <3>1. \A r \in Clocker : clockCall[r].step = "off"
      BY <2>1 DEF Begin, AtStep, Others
    <3>2. \A p \in DOMAIN period : period[p].active <=> ~period[p].ended
      BY <3>1 DEF InTurn, SoundRows, SoundRow, Shapely
    <3>3. WithoutEnd = {}
      BY <2>1, <3>2 DEF WithoutEnd, Open
    <3>4. "api_in" \in BeginSteps
      BY DEF BeginSteps
    <3>5. QED
      BY <1>2, <1>3, <2>1, <3>3, <3>4
  <2>2. ASSUME NEW p \in Open, Begin(s, ActingOn(p, "api_out"))
        PROVE  InTurn'
    <3>1. p \in 0..Len(period) /\ "api_out" \in BeginSteps
      BY <1>1 DEF Open, BeginSteps
    <3>2. QED
      BY <1>2, <2>2, <3>1
  <2>3. QED
    BY <1>5, <2>1, <2>2 DEF ApiBegin
<1>6. CASE CheckOut(s)
  <2>1. PICK p \in WithoutEnd, step \in {"web_out", "bot_out", "app_out", "break"} :
            Begin(s, ActingOn(p, step))
    BY <1>6 DEF CheckOut
  <2>2. p \in 0..Len(period) /\ ~period[p].ended
    BY <1>1 DEF WithoutEnd
  <2>3. step \in BeginSteps /\ step \notin {"clock_in", "api_in", "split", "edit_in", "approve"}
    BY DEF BeginSteps
  <2>4. QED
    BY <1>2, <2>1, <2>2, <2>3
<1>7. CASE CheckSplit(s) \/ CheckEnforce(s) \/ CheckEdit(s)
  <2>1. PICK p \in DOMAIN period, step \in {"split", "enforce", "edit_in"} :
            /\ Begin(s, ActingOn(p, step))
            /\ step \in {"split", "edit_in"} => period[p].ended /\ ~period[p].deleted
    BY <1>7 DEF CheckSplit, CheckEnforce, CheckEdit
  <2>2. p \in 0..Len(period) /\ p # 0
    BY <1>1
  <2>3. /\ step \in BeginSteps
        /\ step \notin {"clock_in", "api_in", "web_out", "bot_out", "approve"}
    BY DEF BeginSteps
  <2>4. QED
    BY <1>2, <2>1, <2>2, <2>3
<1>8. CASE CheckRequest(s)
  <2>1. PICK p \in DOMAIN period, step \in {"ask_edit", "ask_delete"} : Begin(s, ActingOn(p, step))
    BY <1>8 DEF CheckRequest
  <2>2. p \in 0..Len(period)
    BY <1>1
  <2>3. /\ step \in BeginSteps
        /\ step \notin {"clock_in", "api_in", "web_out", "bot_out", "split", "edit_in", "approve"}
    BY DEF BeginSteps
  <2>4. QED
    BY <1>2, <2>1, <2>2, <2>3
<1>9. CASE CheckApprove(s)
  <2>1. PICK c \in DOMAIN correction :
            /\ Begin(s, [ActingOn(correction[c].of, "approve") EXCEPT !.c = c])
            /\ correction[c].status = "pending"
    BY <1>9 DEF CheckApprove
  <2>2. c \in Nat /\ correction[c].of \in 0..Len(period) /\ correction[c].of # 0
    BY <1>1, RowsOfTables DEF RowsOK
  <2>3. "approve" \in BeginSteps
    BY DEF BeginSteps
  <2>4. QED
    BY <2>1, <2>2, <2>3, TurnBegins
<1>10. QED
  BY <1>4, <1>5, <1>6, <1>7, <1>8, <1>9

-----------------------------------------------------------------------------
\* The entries a statement inserts are live, and of no period.
LEMMA PunchesLive ==
    ASSUME ClockTypeOK, NEW kinds \in Seq({"in", "out"}), punch' = WithPunches(kinds),
           NEW loose, NEW stale, SoundRows(period, punch, loose, stale)
    PROVE  /\ SoundRows(period, punch', loose \cup Len(punch) + 1..Len(punch) + Len(kinds), stale)
           /\ DOMAIN punch' = 1..Len(punch) + Len(kinds)
<1> DEFINE add == [i \in DOMAIN kinds |-> [kind |-> kinds[i], of |-> 0, live |-> TRUE]]
<1>1. DOMAIN kinds = 1..Len(kinds) /\ Len(kinds) \in Nat
  OBVIOUS
<1>2. \A i \in 1..Len(kinds) : add[i].live
  BY <1>1
<1>3. add \in [1..Len(kinds) -> Punch]
  BY <1>1 DEF Punch
<1>4. add \in Seq(Punch) /\ Len(add) = Len(kinds)
  BY <1>1, <1>3, FunctionIsSeq
<1>5. punch' = punch \o add
  BY DEF WithPunches
<1> HIDE DEF add
<1>6. punch \in Seq(Punch) /\ Len(punch) \in Nat /\ DOMAIN punch = 1..Len(punch)
  BY RowsOfTables, SMTT(60)
<1>7. PICK k \in Nat, l \in Nat : k = Len(punch) /\ l = Len(kinds)
  BY <1>1, <1>6
<1>8. /\ punch' \in Seq(Punch) /\ Len(punch') = k + l
      /\ \A i \in 1..k + l : punch'[i] = IF i <= k THEN punch[i] ELSE add[i - k]
  <2>1. /\ punch \o add \in Seq(Punch) /\ Len(punch \o add) = Len(punch) + Len(add)
        /\ \A i \in 1..Len(punch) + Len(add) : (punch \o add)[i] =
               IF i <= Len(punch) THEN punch[i] ELSE add[i - Len(punch)]
    BY <1>4, <1>6, ConcatProperties
  <2>2. QED
    BY <1>4, <1>5, <1>7, <2>1
<1> DEFINE new == k + 1..k + l
<1>9. \A e \in new : e \in 1..k + l /\ e \notin 1..k /\ ~(e <= k) /\ e - k \in 1..l
  BY <1>7
<1>10. 1..k + l = 1..k \cup new
  BY <1>7
<1>11. DOMAIN punch' = 1..k + l
  BY <1>8
<1>12. DOMAIN punch' = DOMAIN punch \cup new /\ \A e \in new : e \notin DOMAIN punch
  BY <1>6, <1>7, <1>9, <1>10, <1>11
<1>13. \A e \in DOMAIN punch : punch'[e] = punch[e]
  BY <1>6, <1>7, <1>8
<1>14. \A e \in new : punch'[e].live
  BY <1>2, <1>7, <1>8, <1>9
<1> HIDE DEF new
<1>15. PICK more : more = loose \cup new
  OBVIOUS
<1>16. NewEntries(punch, punch', new) /\ Loosened(loose, more, punch', new)
  BY <1>12, <1>13, <1>14, <1>15 DEF NewEntries, Loosened
<1>17. SoundRows(period, punch', more, stale)
  BY <1>16, EntriesAdded
<1>18. QED
  BY <1>7, <1>11, <1>15, <1>17 DEF new

LEMMA OneLive ==
    ASSUME ClockTypeOK, NEW kind \in {"in", "out"}, punch' = WithPunches(<<kind>>),
           NEW loose, NEW stale, SoundRows(period, punch, loose, stale)
    PROVE  \E n \in Nat : /\ n = New(1) /\ n # 0 /\ n \notin DOMAIN punch
                          /\ SoundRows(period, punch', loose \cup {n}, stale)
<1>1. <<kind>> \in Seq({"in", "out"}) /\ Len(<<kind>>) = 1
  OBVIOUS
<1>2. SoundRows(period, punch', loose \cup Len(punch) + 1..Len(punch) + 1, stale)
  BY <1>1, PunchesLive
<1>3. PICK k \in Nat : k = Len(punch)
  BY RowsOfTables
<1>4. PICK n \in Nat : n = k + 1
  OBVIOUS
<1>5. k + 1..k + 1 = {n} /\ n # 0 /\ n \notin 1..k
  BY <1>4
<1>6. QED
  BY <1>2, <1>3, <1>4, <1>5, RowsOfTables DEF New

LEMMA TwoLive ==
    ASSUME ClockTypeOK, NEW kind \in {"in", "out"}, NEW then \in {"in", "out"},
           punch' = WithPunches(<<kind, then>>),
           NEW loose, NEW stale, SoundRows(period, punch, loose, stale)
    PROVE  \E n, m \in Nat : /\ n = New(1) /\ m = New(2) /\ n # m /\ n # 0 /\ m # 0
                             /\ n \notin DOMAIN punch /\ m \notin DOMAIN punch
                             /\ SoundRows(period, punch', loose \cup {n, m}, stale)
<1>1. <<kind, then>> \in Seq({"in", "out"}) /\ Len(<<kind, then>>) = 2
  OBVIOUS
<1>2. SoundRows(period, punch', loose \cup Len(punch) + 1..Len(punch) + 2, stale)
  BY <1>1, PunchesLive
<1>3. PICK k \in Nat : k = Len(punch)
  BY RowsOfTables
<1>4. PICK n \in Nat, m \in Nat : n = k + 1 /\ m = k + 2
  OBVIOUS
<1>5. k + 1..k + 2 = {n, m} /\ n # m /\ n # 0 /\ m # 0 /\ n \notin 1..k /\ m \notin 1..k
  BY <1>4
<1>6. QED
  BY <1>2, <1>3, <1>4, <1>5, RowsOfTables DEF New

\* What a call is after it has inserted entries.
Joined(es, fs) == es \o fs

LEMMA GoWithMore ==
    ASSUME ClockTypeOK, NEW s \in Clocker, clockCall[s].step # "off", NEW step \in AnyStep,
           NEW es \in Seq(Nat), GoWith(s, step, es)
    PROVE  \E new \in Busy : /\ new.step = step /\ new.p = clockCall[s].p
                             /\ new.was = clockCall[s].was /\ new.c = clockCall[s].c
                             /\ new.es = Joined(clockCall[s].es, es)
                             /\ clockCall' = [clockCall EXCEPT ![s] = new]
<1>1. clockCall[s] \in Busy /\ clockCall[s].es \in Seq(Nat)
  BY BusyCall
<1>2. PICK joint \in Seq(Nat) : joint = clockCall[s].es \o es
  BY <1>1, ConcatProperties
<1> DEFINE new == [clockCall[s] EXCEPT !.step = step, !.es = joint]
<1>3. /\ new \in Busy /\ new.step = step /\ new.p = clockCall[s].p /\ new.was = clockCall[s].was
      /\ new.c = clockCall[s].c /\ new.es = joint
  BY <1>1 DEF Busy, AnyStep
<1>4. clockCall' = [clockCall EXCEPT ![s] = new]
  BY <1>2 DEF GoWith
<1> HIDE DEF new
<1>5. new.es = Joined(clockCall[s].es, es)
  BY <1>2, <1>3 DEF Joined
<1>6. QED
  BY <1>3, <1>4, <1>5

LEMMA NothingBefore ==
    ASSUME NEW es \in Seq(Nat), Len(es) = 0, NEW fs \in Seq(Nat)
    PROVE  Joined(es, fs) = fs
<1>1. es = <<>>
  OBVIOUS
<1>2. QED
  BY <1>1 DEF Joined

LEMMA GoWithFirst ==
    ASSUME ClockTypeOK, NEW s \in Clocker, clockCall[s].step # "off", NEW step \in AnyStep,
           NEW es \in Seq(Nat), GoWith(s, step, es), Len(clockCall[s].es) = 0
    PROVE  \E new \in Busy : /\ new.step = step /\ new.p = clockCall[s].p
                             /\ new.was = clockCall[s].was /\ new.c = clockCall[s].c
                             /\ new.es = es /\ clockCall' = [clockCall EXCEPT ![s] = new]
<1>1. clockCall[s].es \in Seq(Nat)
  BY BusyCall
<1>2. Joined(clockCall[s].es, es) = es
  BY <1>1, NothingBefore
<1>3. QED
  BY <1>2, GoWithMore

\* What is known when the one call that runs makes a step.
LEMMA TurnFacts ==
    ASSUME ClockInv, InTurn, NEW s \in Clocker, clockCall[s].step # "off"
    PROVE  /\ ClockTypeOK /\ RowsOK /\ clockCall[s] \in Busy
           /\ Len(clockCall[s].es) \in Nat /\ clockCall[s].es \in Seq(Nat)
           /\ period \in Seq(Period) /\ Len(period) \in Nat /\ DOMAIN period = 1..Len(period)
           /\ clockCall[s].step \notin NoPeriodYet =>
                 clockCall[s].p \in DOMAIN period /\ period[clockCall[s].p] \in Period
           /\ SoundRows(period, punch, Loose(clockCall[s]), Stale(clockCall[s]))
           /\ KnowsEntries(clockCall[s]) /\ KnowsRows(clockCall[s])
<1>1. ClockTypeOK
  BY DEF ClockInv
<1>2. QED
  BY <1>1, BusyCall, CallFacts, RowsOfTables DEF InTurn

\* One or two entries that the call inserts before it writes a period.
LEMMA PunchesInTurn ==
    ASSUME ClockInv, InTurn, ~unsettled', NEW s \in Clocker,
           PunchIn(s) \/ PunchManual(s) \/ PunchOut(s) \/ PunchSplit(s)
    PROVE  InTurn'
<1>1. /\ clockCall[s].step \in {"clock_in", "manual", "web_out", "split"}
      /\ period' = period /\ correction' = correction
  BY DEF PunchIn, PunchManual, PunchOut, PunchSplit, AtStep
<1>2. /\ ClockTypeOK /\ clockCall[s] \in Busy /\ clockCall[s].es \in Seq(Nat)
      /\ SoundRows(period, punch, Loose(clockCall[s]), Stale(clockCall[s]))
      /\ KnowsEntries(clockCall[s]) /\ KnowsRows(clockCall[s])
  BY <1>1, TurnFacts
<1>3. /\ Len(clockCall[s].es) = 0 /\ SoundRows(period, punch, {}, {})
      /\ clockCall[s].step # "off"
  BY <1>1, <1>2 DEF KnowsEntries, NothingInserted, Loose, Stale, InsertedLoose
<1>4. WithoutEnd' = WithoutEnd
  BY <1>1 DEF WithoutEnd
<1>5. CASE PunchIn(s) \/ PunchOut(s)
  <2>1. PICK kind \in {"in", "out"}, step \in {"clock_in_period", "web_out_update"} :
            /\ punch' = WithPunches(<<kind>>) /\ GoWith(s, step, <<New(1)>>)
            /\ step = "clock_in_period" => clockCall[s].step = "clock_in"
            /\ step = "web_out_update" => clockCall[s].step = "web_out"
    BY <1>5 DEF PunchIn, PunchOut, AtStep
  <2>2. PICK n \in Nat : n = New(1) /\ n # 0 /\ SoundRows(period, punch', {} \cup {n}, {})
    BY <1>2, <1>3, <2>1, OneLive
  <2>3. PICK es \in Seq(Nat) : /\ GoWith(s, step, es) /\ Len(es) = 1 /\ es[1] = n
    <3>1. <<n>> \in Seq(Nat) /\ Len(<<n>>) = 1 /\ <<n>>[1] = n
      OBVIOUS
    <3>2. GoWith(s, step, <<n>>)
      BY <2>1, <2>2
    <3>3. QED
      BY <3>1, <3>2
  <2>4. PICK new \in Busy : /\ new.step = step /\ new.p = clockCall[s].p
                            /\ new.was = clockCall[s].was /\ new.c = clockCall[s].c
                            /\ new.es = es /\ clockCall' = [clockCall EXCEPT ![s] = new]
    <3>1. step \in AnyStep
      BY DEF AnyStep
    <3>2. QED
      BY <1>2, <1>3, <2>3, <3>1, GoWithFirst
  <2>5. Len(new.es) = 1 /\ new.es[1] = n
    BY <2>3, <2>4
  <2>6. {new.es[i] : i \in 1..Len(new.es)} = {} \cup {n}
    BY <2>5
  <2>7. Loose(new) = {} \cup {n} /\ Stale(new) = {}
    BY <2>4, <2>6 DEF Loose, Stale, InsertedLoose
  <2>8. KnowsEntries(new)
    BY <2>4, <2>5 DEF KnowsEntries, NothingInserted
  <2>9. KnowsRows(new)'
    BY <1>1, <1>2, <1>4, <2>1, <2>4 DEF KnowsRows, EditSteps
  <2>10. SoundRows(period', punch', Loose(new), Stale(new)) /\ new.step # "off"
    BY <1>1, <2>2, <2>4, <2>7
  <2>11. QED
    BY <1>2, <1>3, <2>4, <2>8, <2>9, <2>10, TurnGoes
<1>6. CASE PunchManual(s) \/ PunchSplit(s)
  <2>1. PICK kind \in {"in", "out"}, then \in {"in", "out"},
             step \in {"manual_period", "split_update", "split_notes"} :
            /\ punch' = WithPunches(<<kind, then>>) /\ GoWith(s, step, <<New(1), New(2)>>)
            /\ step \in {"split_update", "split_notes"} => clockCall[s].step = "split"
    BY <1>6 DEF PunchManual, PunchSplit, AtStep
  <2>2. PICK n, m \in Nat : /\ n = New(1) /\ m = New(2) /\ n # m
                            /\ SoundRows(period, punch', {} \cup {n, m}, {})
    BY <1>2, <1>3, <2>1, TwoLive
  <2>3. PICK es \in Seq(Nat) : /\ GoWith(s, step, es) /\ Len(es) = 2 /\ es[1] = n /\ es[2] = m
    <3>1. <<n, m>> \in Seq(Nat) /\ Len(<<n, m>>) = 2 /\ <<n, m>>[1] = n /\ <<n, m>>[2] = m
      OBVIOUS
    <3>2. GoWith(s, step, <<n, m>>)
      BY <2>1, <2>2
    <3>3. QED
      BY <3>1, <3>2
  <2>4. PICK new \in Busy : /\ new.step = step /\ new.p = clockCall[s].p
                            /\ new.was = clockCall[s].was /\ new.c = clockCall[s].c
                            /\ new.es = es /\ clockCall' = [clockCall EXCEPT ![s] = new]
    <3>1. step \in AnyStep
      BY DEF AnyStep
    <3>2. QED
      BY <1>2, <1>3, <2>3, <3>1, GoWithFirst
  <2>5. Len(new.es) = 2 /\ new.es[1] = n /\ new.es[2] = m
    BY <2>3, <2>4
  <2>6. {new.es[i] : i \in 1..Len(new.es)} = {} \cup {n, m}
    BY <2>5
  <2>7. Loose(new) = {} \cup {n, m} /\ Stale(new) = {}
    BY <2>4, <2>6 DEF Loose, Stale, InsertedLoose
  <2>8. KnowsEntries(new)
    BY <2>2, <2>4, <2>5 DEF KnowsEntries, NothingInserted
  <2>9. KnowsRows(new)'
    BY <1>1, <1>2, <1>4, <2>1, <2>4 DEF KnowsRows, EditSteps
  <2>10. SoundRows(period', punch', Loose(new), Stale(new)) /\ new.step # "off"
    BY <1>1, <2>2, <2>4, <2>7
  <2>11. QED
    BY <1>2, <1>3, <2>4, <2>8, <2>9, <2>10, TurnGoes
<1>7. QED
  BY <1>5, <1>6


-----------------------------------------------------------------------------
\* The rows that calls insert, and the rows they are inserted into or written over.
LEMMA OpenShape ==
    ASSUME NEW e \in Nat \ {0}, NEW via \in {"api", "app"}
    PROVE  Shapely(OpenPeriod(e, via)) /\ RowIds(OpenPeriod(e, via)) = {e}
BY DEF OpenPeriod, Shapely, RowIds

LEMMA ClosedShape ==
    ASSUME NEW e \in Nat \ {0}, NEW f \in Nat \ {0}, e # f, NEW adjusted \in BOOLEAN
    PROVE  /\ Shapely(ClosedPeriod(e, f, adjusted)) /\ RowIds(ClosedPeriod(e, f, adjusted)) = {e, f}
           /\ ClosedPeriod(e, f, adjusted).ended
BY DEF OpenPeriod, ClosedPeriod, Shapely, RowIds

LEMMA AppendedSound ==
    ASSUME NEW ps \in Seq(Period), NEW row \in Period, NEW es, NEW loose, NEW rest,
           SoundRows(ps, es, loose, {}), Shapely(row), RowIds(row) \subseteq loose,
           row.ended \/ \A p \in DOMAIN ps : ps[p].ended, rest = loose \ RowIds(row)
    PROVE  SoundRows(Append(ps, row), es, rest, {})
<1>1. PICK ps2, n : ps2 = Append(ps, row) /\ n = Len(ps) + 1
  OBVIOUS
<1>2. /\ DOMAIN ps2 = DOMAIN ps \cup {n} /\ n \notin DOMAIN ps /\ ps2[n] = row
      /\ \A p \in DOMAIN ps : ps2[p] = ps[p]
  BY <1>1
<1>3. SoundRows(ps2, es, loose \ RowIds(row), {})
  BY <1>2, RowAppended
<1>4. QED
  BY <1>1, <1>3

LEMMA WrittenSound ==
    ASSUME NEW ps, NEW p \in DOMAIN ps, NEW row, NEW es, NEW loose, NEW stale, NEW rest,
           SoundRows(ps, es, loose, stale), Shapely(row),
           RowIds(row) \subseteq loose \cup RowIds(ps[p]),
           stale \subseteq RowIds(ps[p]) \ RowIds(row), row.ended \/ ~ps[p].ended,
           rest = (loose \ RowIds(row)) \cup ((RowIds(ps[p]) \ RowIds(row)) \ stale)
    PROVE  SoundRows([ps EXCEPT ![p] = row], es, rest, {})
<1>1. PICK ps2 : ps2 = [ps EXCEPT ![p] = row]
  OBVIOUS
<1>2. DOMAIN ps2 = DOMAIN ps /\ ps2[p] = row /\ \A q \in DOMAIN ps \ {p} : ps2[q] = ps[q]
  BY <1>1
<1>3. SoundRows(ps2, es, (loose \ RowIds(row)) \cup ((RowIds(ps[p]) \ RowIds(row)) \ stale), {})
  BY <1>2, RowReplaced
<1>4. QED
  BY <1>1, <1>3

\* A period that is closed with a loose entry.
Closing(ps, p, e) == [ps EXCEPT ![p].out = e, ![p].active = FALSE, ![p].ended = TRUE]

LEMMA ClosedSound ==
    ASSUME NEW ps \in Seq(Period), NEW p \in DOMAIN ps, NEW es, NEW loose, NEW e \in loose, e \in Nat,
           SoundRows(ps, es, loose, {}), ~ps[p].ended, e # 0, NEW now,
           now = Closing(ps, p, e)
    PROVE  /\ SoundRows(now, es, loose \ {e}, {}) /\ now \in Seq(Period)
           /\ \A q \in DOMAIN ps : now[q].ended
<1>1. ps[p] \in Period /\ Shapely(ps[p]) /\ e \notin RowIds(ps[p])
  BY DEF SoundRows, SoundRow
<1> DEFINE row == [ps[p] EXCEPT !.out = e, !.active = FALSE, !.ended = TRUE]
<1>2. /\ row \in Period /\ row.in = ps[p].in /\ row.out = e /\ ~row.active /\ row.ended
  BY <1>1 DEF Period
<1>3. now = [ps EXCEPT ![p] = row]
  BY DEF Closing
<1> HIDE DEF row
<1>4. ps[p].out = 0 /\ ps[p].in # 0 /\ ps[p].in # e
  BY <1>1 DEF Shapely, RowIds
<1>5. RowIds(ps[p]) = {ps[p].in} /\ RowIds(row) = {ps[p].in, e}
  BY <1>2, <1>4 DEF RowIds
<1>6. Shapely(row)
  BY <1>2, <1>4 DEF Shapely
<1>7. loose \ {e} = (loose \ RowIds(row)) \cup ((RowIds(ps[p]) \ RowIds(row)) \ {})
  <2>1. ps[p].in \notin loose
    BY <1>5 DEF SoundRows
  <2>2. QED
    BY <1>5, <2>1
<1>8. SoundRows([ps EXCEPT ![p] = row], es, loose \ {e}, {})
  <2>1. RowIds(row) \subseteq loose \cup RowIds(ps[p]) /\ {} \subseteq RowIds(ps[p]) \ RowIds(row)
    BY <1>5
  <2>2. PICK rest : rest = loose \ {e}
    OBVIOUS
  <2>3. SoundRows([ps EXCEPT ![p] = row], es, rest, {})
    BY <1>2, <1>6, <1>7, <2>1, <2>2, WrittenSound
  <2>4. QED
    BY <2>2, <2>3
<1>9. now \in Seq(Period) /\ \A q \in DOMAIN ps : now[q].ended
  <2>1. \A q \in DOMAIN ps \ {p} : ps[q].ended
    BY DEF SoundRows
  <2>2. \A q \in DOMAIN ps : now[q] = IF q = p THEN row ELSE ps[q]
    BY <1>3
  <2>3. now \in Seq(Period)
    <3>1. p \in 1..Len(ps)
      OBVIOUS
    <3>2. [ps EXCEPT ![p] = row] \in Seq(Period)
      BY <1>2, <3>1, ExceptSeq
    <3>3. QED
      BY <1>3, <3>2
  <2>4. QED
    BY <1>2, <2>1, <2>2, <2>3
<1>10. QED
  BY <1>3, <1>8, <1>9

-----------------------------------------------------------------------------
\* The period of a clock-in or of a manual entry takes what the call has inserted.
LEMMA InsertPeriodInTurn ==
    ASSUME ClockInv, InTurn, NEW s \in Clocker, InsertPeriod(s)
    PROVE  InTurn'
<1>1. /\ clockCall[s].step \in {"clock_in_period", "manual_period"} /\ End(s) /\ punch' = punch
  BY DEF InsertPeriod, AtStep
<1>2. PICK es \in Seq(Nat) : es = clockCall[s].es
  BY <1>1, TurnFacts
<1>3. /\ ClockTypeOK /\ period \in Seq(Period)
      /\ SoundRows(period, punch, Loose(clockCall[s]), Stale(clockCall[s]))
      /\ KnowsEntries(clockCall[s]) /\ KnowsRows(clockCall[s])
  BY <1>1, TurnFacts
<1>4. SoundRows(period, punch, {es[i] : i \in 1..Len(es)}, {})
  BY <1>1, <1>2, <1>3 DEF Loose, Stale, InsertedLoose
<1>5. \A i \in 1..Len(es) : es[i] \in Nat \ {0}
  <2>1. DOMAIN punch = 1..Len(punch) /\ Len(punch) \in Nat
    BY <1>3, RowsOfTables
  <2>2. \A i \in 1..Len(es) : es[i] \in DOMAIN punch
    BY <1>4 DEF SoundRows
  <2>3. QED
    BY <2>1, <2>2
<1>6. CASE clockCall[s].step = "clock_in_period"
  <2>1. Len(es) = 1 /\ WithoutEnd = {} /\ period' = Append(period, OpenPeriod(es[1], "app"))
    BY <1>2, <1>3, <1>6 DEF InsertPeriod, AtStep, KnowsEntries, KnowsRows
  <2>2. PICK e \in Nat \ {0} : e = es[1]
    BY <1>5, <2>1
  <2>3. {es[i] : i \in 1..Len(es)} = {e}
    BY <2>1, <2>2
  <2>4. PICK row \in Period : row = OpenPeriod(e, "app") /\ Shapely(row) /\ RowIds(row) = {e}
    BY OpenMade, OpenShape, "app" \in {"api", "app"}
  <2>5. \A p \in DOMAIN period : period[p].ended
    BY <2>1 DEF WithoutEnd
  <2>6. SoundRows(Append(period, row), punch, {}, {})
    BY <1>3, <1>4, <2>3, <2>4, <2>5, AppendedSound
  <2>7. SoundRows(period', punch', {}, {})
    BY <1>1, <2>1, <2>2, <2>4, <2>6
  <2>8. QED
    BY <1>1, <1>3, <2>7, TurnEnds
<1>7. CASE clockCall[s].step = "manual_period"
  <2>1. /\ Len(es) = 2 /\ es[1] # es[2]
        /\ period' = Append(period, ClosedPeriod(es[1], es[2], FALSE))
    BY <1>2, <1>3, <1>7 DEF InsertPeriod, AtStep, KnowsEntries
  <2>2. PICK e \in Nat \ {0}, f \in Nat \ {0} : e = es[1] /\ f = es[2] /\ e # f
    BY <1>5, <2>1
  <2>3. {es[i] : i \in 1..Len(es)} = {e, f}
    BY <2>1, <2>2
  <2>4. PICK row \in Period : /\ row = ClosedPeriod(e, f, FALSE) /\ Shapely(row) /\ row.ended
                              /\ RowIds(row) = {e, f}
    <3>1. PICK no \in BOOLEAN : no = FALSE
      OBVIOUS
    <3>2. /\ ClosedPeriod(e, f, no) \in Period /\ Shapely(ClosedPeriod(e, f, no))
          /\ ClosedPeriod(e, f, no).ended /\ RowIds(ClosedPeriod(e, f, no)) = {e, f}
      BY <2>2, ClosedMade, ClosedShape
    <3>3. QED
      BY <3>1, <3>2
  <2>5. SoundRows(Append(period, row), punch, {}, {})
    BY <1>3, <1>4, <2>3, <2>4, AppendedSound
  <2>6. SoundRows(period', punch', {}, {})
    BY <1>1, <2>1, <2>2, <2>4, <2>5
  <2>7. QED
    BY <1>1, <1>3, <2>6, TurnEnds
<1>8. QED
  BY <1>1, <1>6, <1>7

\* So does the period the API inserts with its entry.
LEMMA ApiClockInTurn ==
    ASSUME ClockInv, InTurn, NEW s \in Clocker, ApiClockIn(s)
    PROVE  InTurn'
<1>1. /\ clockCall[s].step = "api_in" /\ End(s) /\ punch' = WithPunches(<<"in">>)
      /\ period' = Append(period, OpenPeriod(New(1), "api"))
  BY DEF ApiClockIn, AtStep
<1>2. /\ ClockTypeOK /\ period \in Seq(Period)
      /\ SoundRows(period, punch, Loose(clockCall[s]), Stale(clockCall[s])) /\ KnowsRows(clockCall[s])
  BY <1>1, TurnFacts
<1>3. SoundRows(period, punch, {}, {}) /\ WithoutEnd = {}
  BY <1>1, <1>2 DEF Loose, Stale, InsertedLoose, KnowsRows
<1>4. PICK n \in Nat : n = New(1) /\ n # 0 /\ SoundRows(period, punch', {} \cup {n}, {})
  BY <1>1, <1>2, <1>3, OneLive
<1>5. PICK row \in Period : row = OpenPeriod(n, "api") /\ Shapely(row) /\ RowIds(row) = {n}
  BY <1>4, OpenMade, OpenShape, "api" \in {"api", "app"}
<1>6. \A p \in DOMAIN period : period[p].ended
  BY <1>3 DEF WithoutEnd
<1>7. SoundRows(Append(period, row), punch', {}, {})
  BY <1>2, <1>4, <1>5, <1>6, AppendedSound
<1>8. QED
  BY <1>1, <1>2, <1>4, <1>5, <1>7, TurnEnds

\* A refused call has inserted nothing, unless it is one that corrects an entry.
LEMMA RefusedInTurn ==
    ASSUME ClockInv, InTurn, NEW s \in Clocker, Refuse(s), clockCall[s].step # "off",
           Loose(clockCall[s]) = {} /\ Stale(clockCall[s]) = {}
    PROVE  InTurn'
<1>1. ClockTypeOK /\ SoundRows(period, punch, Loose(clockCall[s]), Stale(clockCall[s]))
  BY TurnFacts
<1>2. End(s) /\ period' = period /\ punch' = punch
  BY DEF Refuse
<1>3. QED
  BY <1>1, <1>2, TurnEnds


\* The API, the app and the bot close a period that is open.
LEMMA CloseInTurn ==
    ASSUME ClockInv, InTurn, NEW s \in Clocker, CloseIfOpen(s) \/ BotClose(s)
    PROVE  InTurn'
<1>1. clockCall[s].step \in {"api_out", "app_out", "bot_out"}
  BY DEF CloseIfOpen, BotClose, AtStep
<1>2. /\ ClockTypeOK /\ period \in Seq(Period) /\ KnowsRows(clockCall[s])
      /\ SoundRows(period, punch, Loose(clockCall[s]), Stale(clockCall[s]))
      /\ clockCall[s].p \in DOMAIN period
  BY <1>1, TurnFacts DEF NoPeriodYet
<1>3. Loose(clockCall[s]) = {} /\ Stale(clockCall[s]) = {} /\ clockCall[s].step # "off"
  BY <1>1 DEF Loose, Stale, InsertedLoose
<1>4. CASE Refuse(s)
  BY <1>3, <1>4, RefusedInTurn
<1>5. CASE ~Refuse(s)
  <2>1. PICK p \in DOMAIN period : p = clockCall[s].p
    BY <1>2
  <2>2. ~period[p].ended
    BY <1>1, <1>2, <1>5, <2>1 DEF CloseIfOpen, BotClose, AtStep, KnowsRows, Open
  <2>3. punch' = WithPunches(<<"out">>) /\ End(s) /\ Close(p, New(1))
    BY <1>5, <2>1 DEF CloseIfOpen, BotClose
  <2>4. PICK n \in Nat : n = New(1) /\ n # 0 /\ SoundRows(period, punch', {} \cup {n}, {})
    BY <1>2, <1>3, <2>3, OneLive
  <2>5. period' = Closing(period, p, n)
    BY <2>3, <2>4 DEF Close, Closing
  <2>6. PICK loose : loose = {n} /\ n \in loose
    OBVIOUS
  <2>7. SoundRows(period, punch', loose, {})
    BY <2>4, <2>6
  <2>8. SoundRows(period', punch', loose \ {n}, {})
    BY <1>2, <2>2, <2>4, <2>5, <2>6, <2>7, ClosedSound
  <2>9. loose \ {n} = {}
    BY <2>6
  <2>10. QED
    BY <1>2, <1>3, <2>3, <2>8, <2>9, TurnEnds
<1>6. QED
  BY <1>4, <1>5

\* What a call keeps when it goes on without an entry.
LEMMA TurnMovesOn ==
    ASSUME ClockInv, InTurn, NEW s \in Clocker, clockCall[s].step # "off", NEW step \in AnyStep,
           Go(s, step)
    PROVE  \E new \in Busy : /\ new.step = step /\ new.p = clockCall[s].p
                             /\ new.was = clockCall[s].was /\ new.es = clockCall[s].es
                             /\ new.c = clockCall[s].c /\ new.step # "off"
                             /\ clockCall' = [clockCall EXCEPT ![s] = new]
BY GoFields DEF ClockInv, AnyStep

\* The browser closes a period with the entry of the statement before.
LEMMA WebCloseInTurn ==
    ASSUME ClockInv, InTurn, NEW s \in Clocker, WebClose(s)
    PROVE  InTurn'
<1>1. /\ clockCall[s].step = "web_out_update" /\ clockCall[s].step # "off" /\ punch' = punch
      /\ End(s) \/ Go(s, "enforce")
  BY DEF WebClose, AtStep
<1>2. /\ ClockTypeOK /\ period \in Seq(Period) /\ KnowsRows(clockCall[s]) /\ KnowsEntries(clockCall[s])
      /\ SoundRows(period, punch, Loose(clockCall[s]), Stale(clockCall[s]))
      /\ clockCall[s].p \in DOMAIN period /\ clockCall[s].es \in Seq(Nat)
  BY <1>1, TurnFacts DEF NoPeriodYet
<1>3. PICK es \in Seq(Nat), p \in DOMAIN period : es = clockCall[s].es /\ p = clockCall[s].p
  BY <1>2
<1>4. Len(es) = 1 /\ ~period[p].ended
  BY <1>1, <1>2, <1>3 DEF KnowsEntries, KnowsRows
<1>5. PICK n \in Nat : n = es[1]
  <2>1. es[1] \in Nat
    BY <1>4
  <2>2. QED
    BY <2>1
<1>6. {es[i] : i \in 1..Len(es)} = {n}
  BY <1>4, <1>5
<1>7. PICK loose : loose = {n} /\ n \in loose
  OBVIOUS
<1>8. SoundRows(period, punch, loose, {}) /\ n # 0
  <2>1. SoundRows(period, punch, {es[i] : i \in 1..Len(es)}, {})
    BY <1>1, <1>2, <1>3 DEF Loose, Stale, InsertedLoose
  <2>2. n \in DOMAIN punch
    BY <1>6, <2>1 DEF SoundRows
  <2>3. DOMAIN punch = 1..Len(punch)
    BY <1>2, RowsOfTables
  <2>4. SoundRows(period, punch, {n}, {})
    BY <1>6, <2>1
  <2>5. QED
    BY <1>7, <2>2, <2>3, <2>4
<1>9. period' = Closing(period, p, n)
  BY <1>3, <1>5 DEF WebClose, Close, Closing
<1>10. SoundRows(period', punch', loose \ {n}, {})
  BY <1>1, <1>2, <1>4, <1>7, <1>8, <1>9, ClosedSound
<1>11. SoundRows(period', punch', {}, {})
  BY <1>7, <1>10
<1>12. CASE End(s)
  BY <1>1, <1>2, <1>11, <1>12, TurnEnds
<1>13. CASE Go(s, "enforce")
  <2>1. PICK step \in AnyStep : step = "enforce"
    BY DEF AnyStep
  <2>2. PICK new \in Busy : new.step = "enforce" /\ new.es = es /\ new.step # "off"
                            /\ clockCall' = [clockCall EXCEPT ![s] = new]
    BY <1>1, <1>3, <1>13, <2>1, TurnMovesOn
  <2>3. Loose(new) = {} /\ Stale(new) = {}
    BY <2>2 DEF Loose, Stale, InsertedLoose
  <2>4. KnowsEntries(new) /\ KnowsRows(new)'
    BY <1>4, <2>2 DEF KnowsEntries, KnowsRows, NothingInserted, EditSteps
  <2>5. QED
    BY <1>1, <1>2, <1>11, <2>2, <2>3, <2>4, TurnGoes
<1>14. QED
  BY <1>1, <1>12, <1>13

\* A break closes the open period and opens the next one.
LEMMA BreakInTurn ==
    ASSUME ClockInv, InTurn, NEW s \in Clocker, TakeBreak(s)
    PROVE  InTurn'
<1>1. clockCall[s].step = "break" /\ clockCall[s].step # "off"
  BY DEF TakeBreak, AtStep
<1>2. /\ ClockTypeOK /\ period \in Seq(Period)
      /\ SoundRows(period, punch, Loose(clockCall[s]), Stale(clockCall[s]))
      /\ clockCall[s].p \in DOMAIN period
  BY <1>1, TurnFacts DEF NoPeriodYet
<1>3. Loose(clockCall[s]) = {} /\ Stale(clockCall[s]) = {}
  BY <1>1 DEF Loose, Stale, InsertedLoose
<1>4. CASE Refuse(s)
  BY <1>1, <1>3, <1>4, RefusedInTurn
<1>5. CASE ~Refuse(s)
  <2>1. PICK p \in DOMAIN period : p = clockCall[s].p
    BY <1>2
  <2>2. /\ period[p].active /\ End(s) /\ punch' = WithPunches(<<"out", "in">>)
        /\ period' = Append([period EXCEPT ![p].out = New(1), ![p].active = FALSE, ![p].ended = TRUE],
                            OpenPeriod(New(2), "app"))
    BY <1>5, <2>1 DEF TakeBreak
  <2>3. ~period[p].ended
    BY <1>2, <2>2 DEF SoundRows, SoundRow, Shapely
  <2>4. PICK n, m \in Nat : /\ n = New(1) /\ m = New(2) /\ n # m /\ n # 0 /\ m # 0
                            /\ SoundRows(period, punch', {} \cup {n, m}, {})
    BY <1>2, <1>3, <2>2, TwoLive, ZenonT(60)
  <2>5. PICK loose : loose = {n, m} /\ n \in loose
    OBVIOUS
  <2>6. SoundRows(period, punch', loose, {})
    BY <2>4, <2>5
  <2>7. PICK mid : mid = Closing(period, p, n)
    OBVIOUS
  <2>8. SoundRows(mid, punch', loose \ {n}, {}) /\ mid \in Seq(Period) /\ \A q \in DOMAIN period : mid[q].ended
    BY <1>2, <2>3, <2>4, <2>5, <2>6, <2>7, ClosedSound
  <2>9. DOMAIN mid = DOMAIN period /\ loose \ {n} = {m}
    BY <2>4, <2>5, <2>7 DEF Closing
  <2>10. PICK row \in Period : row = OpenPeriod(m, "app") /\ Shapely(row) /\ RowIds(row) = {m}
    BY <2>4, OpenMade, OpenShape, "app" \in {"api", "app"}
  <2>11. SoundRows(Append(mid, row), punch', {}, {})
    BY <2>8, <2>9, <2>10, AppendedSound
  <2>12. period' = Append(mid, row)
    BY <2>2, <2>4, <2>7, <2>10 DEF Closing
  <2>13. QED
    BY <1>1, <1>2, <2>2, <2>11, <2>12, TurnEnds
<1>6. QED
  BY <1>4, <1>5

\* The break rule reads the period again, and goes on to split one that has ended.
LEMMA EnforceInTurn ==
    ASSUME ClockInv, InTurn, NEW s \in Clocker, Enforce(s)
    PROVE  InTurn'
<1>1. clockCall[s].step = "enforce" /\ clockCall[s].step # "off" /\ period' = period /\ punch' = punch
  BY DEF Enforce, AtStep
<1>2. /\ ClockTypeOK /\ SoundRows(period, punch, Loose(clockCall[s]), Stale(clockCall[s]))
      /\ clockCall[s].p \in DOMAIN period /\ DOMAIN period = 1..Len(period) /\ Len(period) \in Nat
  BY <1>1, TurnFacts DEF NoPeriodYet
<1>3. SoundRows(period', punch', {}, {})
  BY <1>1, <1>2 DEF Loose, Stale, InsertedLoose
<1>4. PICK p \in 0..Len(period) : p = clockCall[s].p /\ p # 0 /\ p \in DOMAIN period
  BY <1>2
<1>5. CASE period[p].adjusted \/ ~period[p].ended \/ period[p].deleted
  <2>1. End(s)
    BY <1>4, <1>5 DEF Enforce, End
  <2>2. QED
    BY <1>1, <1>2, <1>3, <2>1, TurnEnds
<1>6. CASE ~(period[p].adjusted \/ ~period[p].ended \/ period[p].deleted)
  <2>1. PICK step \in AnyStep, c \in Nat : step = "split" /\ c = 1
    BY DEF AnyStep
  <2> DEFINE made == [ActingOn(p, step) EXCEPT !.c = c]
  <2>2. /\ made \in Busy /\ made.step = step /\ made.p = p /\ made.es = <<>> /\ made.c = c
        /\ p # 0 => made.was = period[p]
    BY <1>2, <2>1, ActingFields
  <2>3. clockCall' = [clockCall EXCEPT ![s] = made]
    BY <1>4, <1>6, <2>1 DEF Enforce
  <2> HIDE DEF made
  <2>4. PICK new : new = made
    OBVIOUS
  <2>5. /\ new.step = "split" /\ new.p = p /\ Len(new.es) = 0 /\ new.was = period[p]
        /\ clockCall' = [clockCall EXCEPT ![s] = new]
    BY <1>4, <2>1, <2>2, <2>3, <2>4
  <2>6. Loose(new) = {} /\ Stale(new) = {} /\ new.step # "off"
    BY <2>5 DEF Loose, Stale, InsertedLoose
  <2>7. KnowsEntries(new) /\ KnowsRows(new)'
    BY <1>1, <1>6, <2>5 DEF KnowsEntries, KnowsRows, NothingInserted, EditSteps
  <2>8. QED
    BY <1>1, <1>2, <1>3, <2>5, <2>6, <2>7, TurnGoes
<1>7. QED
  BY <1>5, <1>6


-----------------------------------------------------------------------------
\* A split gives the first half the entry it has inserted; the clock-out the call has read
\* is loose until the second half is inserted.
LEMMA SplitUpdateInTurn ==
    ASSUME ClockInv, InTurn, NEW s \in Clocker, SplitUpdate(s)
    PROVE  InTurn'
<1>1. clockCall[s].step = "split_update" /\ clockCall[s].step # "off" /\ punch' = punch
  BY DEF SplitUpdate, AtStep
<1>2. /\ ClockTypeOK /\ period \in Seq(Period) /\ KnowsRows(clockCall[s]) /\ KnowsEntries(clockCall[s])
      /\ SoundRows(period, punch, Loose(clockCall[s]), Stale(clockCall[s]))
      /\ clockCall[s].p \in DOMAIN period /\ period[clockCall[s].p] \in Period
      /\ clockCall[s].es \in Seq(Nat)
  BY <1>1, TurnFacts DEF NoPeriodYet
<1>3. PICK es \in Seq(Nat), p \in DOMAIN period, was \in Period :
          es = clockCall[s].es /\ p = clockCall[s].p /\ was = period[p]
  BY <1>2
<1>4. /\ Len(es) = 2 /\ es[1] # es[2] /\ clockCall[s].was = was /\ was.ended /\ ~was.deleted
  BY <1>1, <1>2, <1>3 DEF KnowsEntries, KnowsRows
<1>5. PICK a \in Nat, b \in Nat : a = es[1] /\ b = es[2] /\ a # b
  <2>1. 1 \in 1..Len(es) /\ 2 \in 1..Len(es)
    BY <1>4
  <2>2. es[1] \in Nat /\ es[2] \in Nat
    BY <2>1, ElementOfSeq
  <2>3. QED
    BY <1>4, <2>2
<1>6. {es[i] : i \in 1..Len(es)} = {a, b}
  BY <1>4, <1>5
<1>7. SoundRows(period, punch, {a, b}, {})
  <2>1. Loose(clockCall[s]) = {es[i] : i \in 1..Len(es)} /\ Stale(clockCall[s]) = {}
    BY <1>1, <1>3 DEF Loose, Stale, InsertedLoose
  <2>2. QED
    BY <1>2, <1>6, <2>1
<1>8. Shapely(was) /\ a # 0 /\ b # 0 /\ a \notin RowIds(was) /\ b \notin RowIds(was)
  <2>1. a \in DOMAIN punch /\ b \in DOMAIN punch /\ 0 \notin DOMAIN punch
    BY <1>2, <1>7, RowsOfTables DEF SoundRows
  <2>2. QED
    BY <1>3, <1>7, <2>1 DEF SoundRows, SoundRow
<1>9. /\ was.in # 0 /\ was.out # 0 /\ was.in # was.out /\ RowIds(was) = {was.in, was.out}
      /\ ~was.active
  BY <1>4, <1>8 DEF Shapely, RowIds
<1>10. PICK adjusted : adjusted = (period[p].adjusted \/ ByRule(s))
  OBVIOUS
<1> DEFINE row == [was EXCEPT !.out = a, !.ended = TRUE, !.adjusted = adjusted]
<1>11. period' = [period EXCEPT ![p] = row]
  BY <1>3, <1>4, <1>5, <1>10 DEF SplitUpdate
<1>12. row.in = was.in /\ row.out = a /\ row.ended /\ row.active = was.active
  BY DEF Period
<1> HIDE DEF row
<1>13. Shapely(row) /\ RowIds(row) = {was.in, a}
  BY <1>8, <1>9, <1>12 DEF Shapely, RowIds
<1>14. PICK rest : rest = {b, was.out}
  OBVIOUS
<1>15. rest = ({a, b} \ RowIds(row)) \cup ((RowIds(period[p]) \ RowIds(row)) \ {})
  BY <1>3, <1>5, <1>8, <1>9, <1>13, <1>14
<1>16. /\ RowIds(row) \subseteq {a, b} \cup RowIds(period[p])
       /\ {} \subseteq RowIds(period[p]) \ RowIds(row)
  BY <1>3, <1>9, <1>13
<1>17. SoundRows(period', punch', rest, {})
  BY <1>1, <1>7, <1>11, <1>12, <1>13, <1>15, <1>16, WrittenSound
<1>18. PICK step \in AnyStep : step = "split_insert"
  BY DEF AnyStep
<1>19. PICK new \in Busy : /\ new.step = "split_insert" /\ new.was = was /\ new.es = es
                           /\ new.step # "off" /\ clockCall' = [clockCall EXCEPT ![s] = new]
  <2>1. Go(s, step)
    BY <1>18 DEF SplitUpdate
  <2>2. QED
    BY <1>1, <1>3, <1>4, <1>18, <2>1, TurnMovesOn
<1>20. Loose(new) = rest /\ Stale(new) = {}
  BY <1>5, <1>14, <1>19 DEF Loose, Stale, InsertedLoose
<1>21. KnowsEntries(new) /\ KnowsRows(new)'
  BY <1>4, <1>5, <1>8, <1>9, <1>19 DEF KnowsEntries, KnowsRows, NothingInserted, EditSteps
<1>22. QED
  BY <1>1, <1>2, <1>17, <1>19, <1>20, <1>21, TurnGoes

LEMMA SplitInsertInTurn ==
    ASSUME ClockInv, InTurn, NEW s \in Clocker, SplitInsert(s)
    PROVE  InTurn'
<1>1. /\ clockCall[s].step = "split_insert" /\ clockCall[s].step # "off" /\ punch' = punch /\ End(s)
      /\ period' = Append(period, ClosedPeriod(clockCall[s].es[2], clockCall[s].was.out, ByRule(s)))
  BY DEF SplitInsert, AtStep
<1>2. /\ ClockTypeOK /\ period \in Seq(Period) /\ KnowsEntries(clockCall[s])
      /\ SoundRows(period, punch, Loose(clockCall[s]), Stale(clockCall[s]))
  BY <1>1, TurnFacts
<1>3. PICK b, out : b = clockCall[s].es[2] /\ out = clockCall[s].was.out
  OBVIOUS
<1>4. SoundRows(period, punch, {b, out}, {}) /\ b # out
  BY <1>1, <1>2, <1>3 DEF KnowsEntries, Loose, Stale, InsertedLoose
<1>5. b \in Nat \ {0} /\ out \in Nat \ {0}
  BY <1>2, <1>4, RowsOfTables DEF SoundRows
<1>6. PICK adjusted \in BOOLEAN : adjusted = ByRule(s)
  BY DEF ByRule
<1>7. PICK row : row = ClosedPeriod(b, out, adjusted)
  OBVIOUS
<1>8. row \in Period /\ Shapely(row) /\ row.ended /\ RowIds(row) = {b, out}
  BY <1>4, <1>5, <1>7, ClosedMade, ClosedShape
<1>9. SoundRows(Append(period, row), punch, {}, {})
  BY <1>2, <1>4, <1>8, AppendedSound
<1>10. SoundRows(period', punch', {}, {})
  BY <1>1, <1>3, <1>6, <1>7, <1>9
<1>11. QED
  BY <1>1, <1>2, <1>10, TurnEnds

-----------------------------------------------------------------------------
\* One entry that is inserted.
LEMMA EntryAppended ==
    ASSUME NEW ps, NEW es \in Seq(Punch), NEW loose, NEW stale, SoundRows(ps, es, loose, stale),
           NEW fix \in Punch, fix.live, NEW n, n = Len(es) + 1
    PROVE  n \in Nat \ {0} /\ n \notin loose /\ SoundRows(ps, Append(es, fix), loose \cup {n}, stale)
<1>1. PICK es2, fresh, more : es2 = Append(es, fix) /\ fresh = {n} /\ more = loose \cup {n}
  OBVIOUS
<1>2. /\ DOMAIN es2 = DOMAIN es \cup {n} /\ n \notin DOMAIN es /\ es2[n] = fix
      /\ \A e \in DOMAIN es : es2[e] = es[e]
  BY <1>1
<1>3. NewEntries(es, es2, fresh) /\ Loosened(loose, more, es2, fresh)
  BY <1>1, <1>2 DEF NewEntries, Loosened
<1>4. SoundRows(ps, es2, more, stale)
  BY <1>3, EntriesAdded
<1>5. n \in Nat \ {0} /\ n \notin loose
  BY <1>2 DEF SoundRows
<1>6. QED
  BY <1>1, <1>4, <1>5

\* An entry of a period is replaced: it is stale, and its correction loose.
LEMMA ReplacedSound ==
    ASSUME ClockTypeOK, NEW p \in DOMAIN period, NEW e \in RowIds(period[p]), NEW loose, NEW stale,
           SoundRows(period, punch, loose, stale), NEW fix \in Punch, fix.live,
           punch' = Append(SetLive(punch, {e}, FALSE), fix)
    PROVE  \E n \in Nat : /\ n = New(1) /\ n # 0 /\ n \notin loose
                          /\ SoundRows(period, punch', loose \cup {n}, stale \cup {e})
<1>1. punch \in Seq(Punch) /\ Len(punch) \in Nat /\ DOMAIN punch = 1..Len(punch)
  BY RowsOfTables
<1>2. PICK no \in BOOLEAN, gone \in {{e}} : no = FALSE /\ gone = {e}
  OBVIOUS
<1>3. PICK mid : mid = SetLive(punch, gone, no)
  OBVIOUS
<1>4. /\ mid \in Seq(Punch) /\ Len(mid) = Len(punch)
      /\ \A f \in 1..Len(punch) : mid[f].live = IF f \in gone THEN no ELSE punch[f].live
  BY <1>1, <1>3, SetLiveFields
<1>5. DOMAIN mid = DOMAIN punch
  BY <1>1, <1>4
<1>6. \A f \in DOMAIN punch : mid[f].live <=> punch[f].live /\ f \notin gone
  BY <1>1, <1>2, <1>4
<1>7. PICK more : more = stale \cup gone
  OBVIOUS
<1>8. SoundRows(period, mid, loose, more)
  <2>1. gone \subseteq RowIds(period[p])
    BY <1>2
  <2>2. SoundRows(period, mid, loose, stale \cup gone)
    BY <1>5, <1>6, <2>1, EntriesSuperseded
  <2>3. QED
    BY <1>7, <2>2
<1>9. punch' = Append(mid, fix)
  BY <1>2, <1>3
<1>10. PICK n : n = Len(mid) + 1
  OBVIOUS
<1>11. mid \in Seq(Punch)
  BY <1>4
<1>12. n \in Nat \ {0} /\ n \notin loose /\ SoundRows(period, Append(mid, fix), loose \cup {n}, more)
  BY <1>8, <1>10, <1>11, EntryAppended
<1>13. n = New(1) /\ more = stale \cup {e}
  BY <1>2, <1>4, <1>7, <1>10 DEF New
<1>14. SoundRows(period, punch', loose \cup {n}, stale \cup {e})
  BY <1>9, <1>12, <1>13
<1>15. QED
  BY <1>12, <1>13, <1>14

\* What an edit has read of its period.
LEMMA EditFacts ==
    ASSUME ClockInv, InTurn, NEW s \in Clocker, clockCall[s].step \in EditSteps
    PROVE  /\ ClockTypeOK /\ clockCall[s].step # "off"
           /\ \E p \in DOMAIN period, was \in Period :
                 /\ p = clockCall[s].p /\ was = period[p] /\ was = clockCall[s].was
                 /\ was.ended /\ ~was.deleted
                 /\ Shapely(was) /\ was.in # 0 /\ was.out # 0 /\ was.in # was.out
                 /\ RowIds(was) = {was.in, was.out}
           /\ SoundRows(period, punch, Loose(clockCall[s]), Stale(clockCall[s]))
           /\ KnowsEntries(clockCall[s]) /\ clockCall[s].es \in Seq(Nat)
<1>1. clockCall[s].step # "off" /\ clockCall[s].step \notin NoPeriodYet
  BY DEF EditSteps, NoPeriodYet
<1>2. /\ ClockTypeOK /\ KnowsRows(clockCall[s]) /\ KnowsEntries(clockCall[s])
      /\ SoundRows(period, punch, Loose(clockCall[s]), Stale(clockCall[s]))
      /\ clockCall[s].p \in DOMAIN period /\ period[clockCall[s].p] \in Period
      /\ clockCall[s].es \in Seq(Nat)
  BY <1>1, TurnFacts
<1>3. PICK p \in DOMAIN period, was \in Period : p = clockCall[s].p /\ was = period[p]
  BY <1>2
<1>4. was = clockCall[s].was /\ was.ended /\ ~was.deleted
  BY <1>2, <1>3 DEF KnowsRows, EditSteps
<1>5. Shapely(was)
  BY <1>2, <1>3 DEF SoundRows, SoundRow
<1>6. was.in # 0 /\ was.out # 0 /\ was.in # was.out /\ RowIds(was) = {was.in, was.out}
  BY <1>4, <1>5 DEF Shapely, RowIds
<1>7. QED
  BY <1>1, <1>2, <1>3, <1>4, <1>5, <1>6

\* The entry a call is about to correct is live: a call that runs alone is not refused.
LEMMA EditCheckInTurn ==
    ASSUME ClockInv, InTurn, NEW s \in Clocker, EditCheck(s)
    PROVE  InTurn'
<1>1. clockCall[s].step \in {"edit_in", "edit_out"}
  BY DEF EditCheck, AtStep
<1>2. clockCall[s].step \in EditSteps
  BY <1>1 DEF EditSteps
<1>3. PICK p \in DOMAIN period, was \in Period :
          /\ p = clockCall[s].p /\ was = period[p] /\ was = clockCall[s].was
          /\ was.ended /\ ~was.deleted
          /\ Shapely(was) /\ was.in # 0 /\ was.out # 0 /\ was.in # was.out
          /\ RowIds(was) = {was.in, was.out}
  BY <1>2, EditFacts
<1>4. /\ ClockTypeOK /\ clockCall[s].step # "off"
      /\ SoundRows(period, punch, Loose(clockCall[s]), Stale(clockCall[s]))
      /\ KnowsEntries(clockCall[s])
  BY <1>2, EditFacts
<1>5. PICK step \in {"edit_in_insert", "edit_out_insert"} :
          /\ step = (IF clockCall[s].step = "edit_in" THEN "edit_in_insert" ELSE "edit_out_insert")
          /\ Go(s, step) /\ UNCHANGED <<period, punch, correction>>
  <2>1. CASE clockCall[s].step = "edit_in"
    <3>1. Stale(clockCall[s]) = {}
      BY <2>1 DEF Stale
    <3>2. punch[was.in].live
      BY <1>3, <1>4, <3>1 DEF SoundRows, SoundRow
    <3>3. QED
      BY <1>3, <2>1, <3>2 DEF EditCheck, AtStep, Replaceable
  <2>2. CASE clockCall[s].step = "edit_out"
    <3>1. Stale(clockCall[s]) = {was.in}
      BY <1>3, <2>2 DEF Stale
    <3>2. punch[was.out].live
      BY <1>3, <1>4, <3>1 DEF SoundRows, SoundRow
    <3>3. QED
      BY <1>3, <2>2, <3>2 DEF EditCheck, AtStep, Replaceable
  <2>3. QED
    BY <1>1, <2>1, <2>2
<1>6. PICK new \in Busy : /\ new.step = step /\ new.p = p /\ new.was = was
                          /\ new.es = clockCall[s].es
                          /\ new.step # "off" /\ clockCall' = [clockCall EXCEPT ![s] = new]
  <2>1. step \in AnyStep
    BY DEF AnyStep
  <2>2. QED
    BY <1>3, <1>4, <1>5, <2>1, TurnMovesOn
<1>7. Loose(new) = Loose(clockCall[s]) /\ Stale(new) = Stale(clockCall[s])
  BY <1>1, <1>3, <1>5, <1>6 DEF Loose, Stale, InsertedLoose
<1>8. KnowsEntries(new)
  BY <1>1, <1>4, <1>5, <1>6 DEF KnowsEntries, NothingInserted
<1>9. KnowsRows(new)'
  BY <1>3, <1>5, <1>6 DEF KnowsRows, EditSteps
<1>10. QED
  BY <1>4, <1>5, <1>6, <1>7, <1>8, <1>9, TurnGoes


\* The entries of a call that has inserted one or two.
LEMMA OneEntry ==
    ASSUME NEW n \in Nat
    PROVE  <<n>> \in Seq(Nat) /\ Len(<<n>>) = 1 /\ <<n>>[1] = n
OBVIOUS

LEMMA EntryAfter ==
    ASSUME NEW es \in Seq(Nat), Len(es) = 1, NEW n \in Nat
    PROVE  /\ es[1] \in Nat /\ es \o <<n>> \in Seq(Nat) /\ Len(es \o <<n>>) = 2
           /\ (es \o <<n>>)[1] = es[1] /\ (es \o <<n>>)[2] = n
<1>1. 1 \in 1..Len(es)
  OBVIOUS
<1>2. es[1] \in Nat
  BY <1>1, ElementOfSeq
<1>3. PICK more \in Seq(Nat) : more = <<n>> /\ Len(more) = 1 /\ more[1] = n
  BY OneEntry
<1>4. PICK joint : joint = es \o more
  OBVIOUS
<1>5. /\ joint \in Seq(Nat) /\ Len(joint) = Len(es) + Len(more)
      /\ \A i \in 1..Len(es) + Len(more) : joint[i] = IF i <= Len(es) THEN es[i] ELSE more[i - Len(es)]
  BY <1>4, ConcatProperties
<1>6. Len(joint) = 2 /\ joint[1] = es[1] /\ joint[2] = n
  BY <1>3, <1>5
<1>7. QED
  BY <1>2, <1>3, <1>4, <1>5, <1>6

LEMMA FixMade ==
    ASSUME NEW e \in Nat
    PROVE  \E fix \in Punch : fix = [kind |-> "fix", of |-> e, live |-> TRUE] /\ fix.live
<1>1. [kind |-> "fix", of |-> e, live |-> TRUE] \in Punch
  BY DEF Punch
<1>2. QED
  BY <1>1

\* A correction of the clock-in is the first entry of an edit, one of the clock-out the second.
LEMMA EditInsertInTurn ==
    ASSUME ClockInv, InTurn, NEW s \in Clocker, EditInsert(s)
    PROVE  InTurn'
<1>1. clockCall[s].step \in {"edit_in_insert", "edit_out_insert"}
  BY DEF EditInsert, AtStep
<1>2. clockCall[s].step \in EditSteps
  BY <1>1 DEF EditSteps
<1>3. PICK p \in DOMAIN period, was \in Period :
          /\ p = clockCall[s].p /\ was = period[p] /\ was = clockCall[s].was
          /\ was.ended /\ ~was.deleted
          /\ Shapely(was) /\ was.in # 0 /\ was.out # 0 /\ was.in # was.out
          /\ RowIds(was) = {was.in, was.out}
  BY <1>2, EditFacts
<1>4. /\ ClockTypeOK /\ clockCall[s].step # "off"
      /\ SoundRows(period, punch, Loose(clockCall[s]), Stale(clockCall[s]))
      /\ KnowsEntries(clockCall[s]) /\ clockCall[s].es \in Seq(Nat)
  BY <1>2, EditFacts
<1>5. /\ clockCall[s].step = "edit_in_insert" =>
            Loose(clockCall[s]) = {} /\ Stale(clockCall[s]) = {} /\ Len(clockCall[s].es) = 0
      /\ clockCall[s].step = "edit_out_insert" =>
            Stale(clockCall[s]) = {was.in} /\ Len(clockCall[s].es) = 1
  BY <1>3, <1>4 DEF KnowsEntries, NothingInserted, Loose, Stale, InsertedLoose
<1>6. CASE clockCall[s].step = "edit_in_insert"
  <2>1. PICK step \in {"edit_update", "edit_out"} : Replace(s, was.in, step)
    BY <1>3, <1>6 DEF EditInsert, AtStep
  <2>2. PICK e \in RowIds(period[p]) : e = was.in
    BY <1>3
  <2>3. PICK fix \in Punch : fix = [kind |-> "fix", of |-> e, live |-> TRUE] /\ fix.live
    <3>1. e \in Nat
      BY <1>3, <2>2 DEF Period
    <3>2. QED
      BY <3>1, FixMade
  <2>4. punch' = Append(SetLive(punch, {e}, FALSE), fix)
    BY <2>1, <2>2, <2>3 DEF Replace
  <2>5. PICK loose, stale : loose = {} /\ stale = {} /\ SoundRows(period, punch, loose, stale)
    BY <1>4, <1>5, <1>6
  <2>6. PICK n \in Nat : /\ n = New(1) /\ n # 0 /\ n \notin loose
                         /\ SoundRows(period, punch', loose \cup {n}, stale \cup {e})
    BY <1>4, <2>3, <2>4, <2>5, ReplacedSound
  <2>7. PICK es \in Seq(Nat) : es = <<n>> /\ Len(es) = 1 /\ es[1] = n
    BY OneEntry
  <2>8. PICK new \in Busy : /\ new.step = step /\ new.p = p /\ new.was = was /\ new.es = es
                            /\ clockCall' = [clockCall EXCEPT ![s] = new]
    <3>1. step \in AnyStep
      BY DEF AnyStep
    <3>2. GoWith(s, step, es)
      BY <2>1, <2>6, <2>7 DEF Replace
    <3>3. QED
      BY <1>3, <1>4, <1>5, <1>6, <3>1, <3>2, GoWithFirst
  <2>9. {es[i] : i \in 1..Len(es)} = {n} /\ loose \cup {n} = {n} /\ stale \cup {e} = {was.in}
    BY <2>2, <2>5, <2>7
  <2>10. Loose(new) = loose \cup {n} /\ Stale(new) = stale \cup {e}
    BY <2>7, <2>8, <2>9 DEF Loose, Stale, InsertedLoose
  <2>11. KnowsEntries(new) /\ new.step # "off"
    BY <2>7, <2>8 DEF KnowsEntries, NothingInserted
  <2>12. period' = period /\ KnowsRows(new)'
    BY <1>3, <2>1, <2>8 DEF KnowsRows, EditSteps, Replace
  <2>13. QED
    BY <1>4, <2>6, <2>8, <2>10, <2>11, <2>12, TurnGoes
<1>7. CASE clockCall[s].step = "edit_out_insert"
  <2>1. Replace(s, was.out, "edit_update")
    BY <1>3, <1>7 DEF EditInsert, AtStep
  <2>2. PICK e \in RowIds(period[p]) : e = was.out
    BY <1>3
  <2>3. PICK fix \in Punch : fix = [kind |-> "fix", of |-> e, live |-> TRUE] /\ fix.live
    <3>1. e \in Nat
      BY <1>3, <2>2 DEF Period
    <3>2. QED
      BY <3>1, FixMade
  <2>4. punch' = Append(SetLive(punch, {e}, FALSE), fix)
    BY <2>1, <2>2, <2>3 DEF Replace
  <2>5. PICK before \in Seq(Nat), m \in Nat :
            before = clockCall[s].es /\ Len(before) = 1 /\ m = before[1]
    <3>1. clockCall[s].es[1] \in Nat
      BY <1>4, <1>5, <1>7, EntryAfter
    <3>2. QED
      BY <1>4, <1>5, <1>7, <3>1
  <2>6. PICK loose, stale : loose = {m} /\ stale = {was.in} /\ SoundRows(period, punch, loose, stale)
    <3>1. {clockCall[s].es[i] : i \in 1..Len(clockCall[s].es)} = {m}
      <4>1. {before[i] : i \in 1..Len(before)} = {m}
        BY <2>5
      <4>2. QED
        BY <2>5, <4>1
    <3>2. Loose(clockCall[s]) = {m}
      BY <1>7, <3>1 DEF Loose, InsertedLoose
    <3>3. QED
      BY <1>4, <1>5, <1>7, <3>2
  <2>7. PICK n \in Nat : /\ n = New(1) /\ n # 0 /\ n \notin loose
                         /\ SoundRows(period, punch', loose \cup {n}, stale \cup {e})
    BY <1>4, <2>3, <2>4, <2>6, ReplacedSound
  <2>8. PICK es \in Seq(Nat), joint \in Seq(Nat) :
            /\ es = <<n>> /\ joint = clockCall[s].es \o es
            /\ Len(joint) = 2 /\ joint[1] = m /\ joint[2] = n
    <3>1. /\ before \o <<n>> \in Seq(Nat) /\ Len(before \o <<n>>) = 2
          /\ (before \o <<n>>)[1] = m /\ (before \o <<n>>)[2] = n
      BY <2>5, EntryAfter
    <3>2. PICK es \in Seq(Nat), joint \in Seq(Nat) : es = <<n>> /\ joint = before \o <<n>>
      BY <3>1, OneEntry
    <3>3. /\ joint = clockCall[s].es \o es
          /\ Len(joint) = 2 /\ joint[1] = m /\ joint[2] = n
      BY <2>5, <3>1, <3>2
    <3>4. QED
      BY <3>2, <3>3
  <2>9. PICK step \in AnyStep : step = "edit_update"
    BY DEF AnyStep
  <2>10. PICK new \in Busy : /\ new.step = step /\ new.p = p /\ new.was = was /\ new.es = joint
                             /\ clockCall' = [clockCall EXCEPT ![s] = new]
    <3>1. GoWith(s, step, es)
      BY <2>1, <2>7, <2>8, <2>9 DEF Replace
    <3>2. PICK new \in Busy :
              /\ new.step = step /\ new.p = clockCall[s].p
              /\ new.was = clockCall[s].was /\ new.c = clockCall[s].c
              /\ new.es = Joined(clockCall[s].es, es)
              /\ clockCall' = [clockCall EXCEPT ![s] = new]
      BY <1>4, <3>1, GoWithMore
    <3>3. new.es = joint
      BY <2>8, <3>2 DEF Joined
    <3>4. QED
      BY <1>3, <3>2, <3>3
  <2>11. /\ {joint[i] : i \in 1..Len(joint)} = {m, n} /\ loose \cup {n} = {m, n} /\ m # n
         /\ stale \cup {e} = {was.in, was.out}
    BY <2>2, <2>6, <2>7, <2>8
  <2>12. Loose(new) = loose \cup {n} /\ Stale(new) = stale \cup {e}
    BY <2>8, <2>9, <2>10, <2>11, SMTT(60) DEF Loose, Stale, InsertedLoose
  <2>13. KnowsEntries(new) /\ new.step # "off"
    BY <2>8, <2>9, <2>10, <2>11 DEF KnowsEntries, NothingInserted
  <2>14. period' = period /\ KnowsRows(new)'
    BY <1>3, <2>1, <2>9, <2>10 DEF KnowsRows, EditSteps, Replace
  <2>15. QED
    BY <1>4, <2>7, <2>10, <2>12, <2>13, <2>14, TurnGoes
<1>8. QED
  BY <1>1, <1>6, <1>7

\* The edit gives its period the corrections, and what they replace belongs to no period.
LEMMA EditUpdateInTurn ==
    ASSUME ClockInv, InTurn, NEW s \in Clocker, EditUpdate(s)
    PROVE  InTurn'
<1>1. clockCall[s].step = "edit_update" /\ punch' = punch /\ End(s)
  BY DEF EditUpdate, AtStep
<1>2. clockCall[s].step \in EditSteps
  BY <1>1 DEF EditSteps
<1>3. PICK p \in DOMAIN period, was \in Period :
          /\ p = clockCall[s].p /\ was = period[p] /\ was = clockCall[s].was
          /\ was.ended /\ ~was.deleted
          /\ Shapely(was) /\ was.in # 0 /\ was.out # 0 /\ was.in # was.out
          /\ RowIds(was) = {was.in, was.out}
  BY <1>2, EditFacts
<1>4. /\ ClockTypeOK /\ clockCall[s].step # "off"
      /\ SoundRows(period, punch, Loose(clockCall[s]), Stale(clockCall[s]))
      /\ KnowsEntries(clockCall[s])
  BY <1>2, EditFacts
<1>5. PICK es \in Seq(Nat) : es = clockCall[s].es /\ Len(es) \in {1, 2}
  BY <1>1, <1>2, <1>4, EditFacts DEF KnowsEntries
<1>6. PICK a \in Nat, out \in Nat :
          /\ a = es[1] /\ out = IF Len(es) = 2 THEN es[2] ELSE was.out
  <2>1. es[1] \in Nat /\ (Len(es) = 2 => es[2] \in Nat)
    BY <1>5, ElementOfSeq
  <2>2. was.out \in Nat
    BY DEF Period
  <2>3. QED
    BY <2>1, <2>2
<1>7. PICK loose, stale :
          /\ loose = Loose(clockCall[s]) /\ stale = Stale(clockCall[s])
          /\ SoundRows(period, punch, loose, stale)
  BY <1>4
<1>8. /\ loose = IF Len(es) = 2 THEN {a, out} ELSE {a}
      /\ stale = IF Len(es) = 2 THEN {was.in, was.out} ELSE {was.in}
      /\ Len(es) = 2 => a # out
  <2>1. {es[i] : i \in 1..Len(es)} = IF Len(es) = 2 THEN {a, out} ELSE {a}
    BY <1>5, <1>6
  <2>2. loose = {es[i] : i \in 1..Len(es)}
    BY <1>1, <1>5, <1>7 DEF Loose, InsertedLoose
  <2>3. stale = IF Len(es) = 2 THEN {was.in, was.out} ELSE {was.in}
    BY <1>1, <1>3, <1>5, <1>7 DEF Stale
  <2>4. Len(es) = 2 => a # out
    BY <1>4, <1>5, <1>6 DEF KnowsEntries
  <2>5. QED
    BY <2>1, <2>2, <2>3, <2>4
<1>9. \A e \in loose : e # 0 /\ e \notin RowIds(was)
  <2>1. 0 \notin DOMAIN punch
    BY <1>4, RowsOfTables
  <2>2. QED
    BY <1>3, <1>7, <2>1 DEF SoundRows
<1>10. a \in loose /\ a # 0 /\ out # 0 /\ a # out /\ a # was.in /\ a # was.out /\ out # was.in
  BY <1>3, <1>6, <1>8, <1>9
<1> DEFINE row == [was EXCEPT !.in = a, !.ended = TRUE, !.out = out]
<1>11. period' = [period EXCEPT ![p] = row]
  BY <1>3, <1>5, <1>6 DEF EditUpdate
<1>12. row.in = a /\ row.out = out /\ row.ended /\ row.active = was.active
  BY DEF Period
<1> HIDE DEF row
<1>13. ~was.active
  BY <1>3 DEF Shapely
<1>14. Shapely(row) /\ RowIds(row) = {a, out}
  BY <1>10, <1>12, <1>13 DEF Shapely, RowIds
<1>15. PICK rest : rest = {}
  OBVIOUS
<1>16. /\ RowIds(row) \subseteq loose \cup RowIds(period[p])
       /\ stale \subseteq RowIds(period[p]) \ RowIds(row)
       /\ rest = (loose \ RowIds(row)) \cup ((RowIds(period[p]) \ RowIds(row)) \ stale)
  <2>1. CASE Len(es) = 2
    <3>1. loose = {a, out} /\ stale = {was.in, was.out}
      BY <1>8, <2>1
    <3>2. out \notin {was.in, was.out}
      BY <1>3, <1>9, <3>1
    <3>3. QED
      BY <1>3, <1>10, <1>14, <1>15, <3>1, <3>2
  <2>2. CASE Len(es) # 2
    <3>1. loose = {a} /\ stale = {was.in} /\ out = was.out
      BY <1>6, <1>8, <2>2
    <3>2. QED
      BY <1>3, <1>10, <1>14, <1>15, <3>1
  <2>3. QED
    BY <2>1, <2>2
<1>17. SoundRows(period', punch', rest, {})
  BY <1>1, <1>7, <1>11, <1>12, <1>14, <1>16, WrittenSound
<1>18. QED
  BY <1>1, <1>4, <1>15, <1>17, TurnEnds


-----------------------------------------------------------------------------
\* The corrections of a request are neither live nor of a period.
LEMMA DraftsAdded ==
    ASSUME ClockTypeOK, NEW drafts \in Seq(Punch), \A i \in 1..Len(drafts) : ~drafts[i].live,
           punch' = punch \o drafts, SoundRows(period, punch, {}, {})
    PROVE  SoundRows(period, punch', {}, {})
<1>1. punch \in Seq(Punch) /\ Len(punch) \in Nat /\ DOMAIN punch = 1..Len(punch) /\ Len(drafts) \in Nat
  BY RowsOfTables
<1>2. PICK k \in Nat, l \in Nat : k = Len(punch) /\ l = Len(drafts)
  BY <1>1
<1>3. /\ punch' \in Seq(Punch) /\ Len(punch') = k + l
      /\ \A i \in 1..k + l : punch'[i] = IF i <= k THEN punch[i] ELSE drafts[i - k]
  BY <1>1, <1>2, ConcatProperties
<1> DEFINE new == k + 1..k + l
<1>4. \A e \in new : e \in 1..k + l /\ e \notin 1..k /\ ~(e <= k) /\ e - k \in 1..l
  BY <1>2
<1>5. 1..k + l = 1..k \cup new
  BY <1>2
<1>6. DOMAIN punch' = DOMAIN punch \cup new /\ \A e \in new : e \notin DOMAIN punch
  <2>1. DOMAIN punch' = 1..k + l
    BY <1>3
  <2>2. QED
    BY <1>1, <1>2, <1>4, <1>5, <2>1
<1>7. \A e \in DOMAIN punch : punch'[e] = punch[e]
  BY <1>1, <1>2, <1>3
<1>8. \A e \in new : ~punch'[e].live
  BY <1>2, <1>3, <1>4
<1> HIDE DEF new
<1>9. PICK none, es : none = {} /\ es = punch'
  OBVIOUS
<1>10. Loosened(none, none, es, new)
  BY <1>8, <1>9 DEF Loosened
<1>11. SoundRows(period, punch', none, {})
  <2>1. SoundRows(period, punch, none, none)
    BY <1>9
  <2>2. NewEntries(punch, es, new)
    BY <1>6, <1>7, <1>9 DEF NewEntries
  <2>3. SoundRows(period, es, none, none)
    BY <1>10, <2>1, <2>2, EntriesAdded
  <2>4. QED
    BY <1>9, <2>3
<1>12. QED
  BY <1>9, <1>11

LEMMA RequestInTurn ==
    ASSUME ClockInv, InTurn, NEW s \in Clocker, RequestCorrection(s) \/ RequestDeletion(s)
    PROVE  InTurn'
<1>1. clockCall[s].step \in {"ask_edit", "ask_delete"} /\ clockCall[s].step # "off"
  BY DEF RequestCorrection, RequestDeletion, AtStep
<1>2. Loose(clockCall[s]) = {} /\ Stale(clockCall[s]) = {}
  BY <1>1 DEF Loose, Stale, InsertedLoose
<1>3. CASE Refuse(s)
  BY <1>1, <1>2, <1>3, RefusedInTurn
<1>4. CASE ~Refuse(s)
  <2>1. PICK action \in {"edit", "delete"}, both \in BOOLEAN : Request(s, action, both)
    BY <1>4 DEF RequestCorrection, RequestDeletion
  <2>2. /\ ClockTypeOK /\ SoundRows(period, punch, {}, {}) /\ clockCall[s].was \in Period
    BY <1>1, <1>2, TurnFacts, BusyCall
  <2> DEFINE first == Draft(clockCall[s].was.in)
             second == Draft(clockCall[s].was.out)
             drafts == IF both THEN <<first, second>> ELSE <<first>>
  <2>3. punch' = punch \o drafts /\ End(s) /\ period' = period
    BY <2>1 DEF Request
  <2>4. first \in Punch /\ second \in Punch /\ ~first.live /\ ~second.live
    BY <2>2 DEF Draft, Punch, Period
  <2> HIDE DEF first, second
  <2>5. drafts \in Seq(Punch) /\ \A i \in 1..Len(drafts) : ~drafts[i].live
    BY <2>4
  <2> HIDE DEF drafts
  <2>6. SoundRows(period, punch', {}, {})
    BY <2>2, <2>3, <2>5, DraftsAdded
  <2>7. QED
    BY <1>1, <2>2, <2>3, <2>6, TurnEnds
<1>5. QED
  BY <1>3, <1>4

\* The corrections of an approval count from now on, and what they replace does not.
LEMMA ApplyInTurn ==
    ASSUME ClockInv, InTurn, NEW s \in Clocker, clockCall[s].step = "approve",
           NEW c \in DOMAIN correction, c = clockCall[s].c,
           NEW p \in DOMAIN period, p = clockCall[s].p,
           NEW was \in Period, was = clockCall[s].was,
           NEW newIn \in Ids(c), NEW newOut \in {0} \cup Ids(c), was.out = 0 => newOut = 0,
           newIn # newOut, ApplyCorrection(s, c, p, was, newIn, newOut)
    PROVE  InTurn'
<1>1. clockCall[s].step # "off" /\ End(s)
  BY DEF ApplyCorrection
<1>2. /\ ClockTypeOK /\ RowsOK /\ period[p] = was /\ correction[c].status # "approved"
      /\ SoundRows(period, punch, {}, {})
      /\ punch \in Seq(Punch) /\ Len(punch) \in Nat /\ DOMAIN punch = 1..Len(punch)
  <2>1. Loose(clockCall[s]) = {} /\ Stale(clockCall[s]) = {}
    BY DEF Loose, Stale, InsertedLoose
  <2>2. ClockTypeOK /\ RowsOK /\ period[p] = was /\ correction[c].status # "approved"
    BY <1>1, TurnFacts DEF KnowsRows
  <2>3. QED
    BY <1>1, <2>1, <2>2, TurnFacts, RowsOfTables
<1>3. \A e \in Ids(c) : e \in DOMAIN punch /\ e # 0 /\ \A q \in DOMAIN period : e \notin RowIds(period[q])
  <2>1. correction[c].in \in 1..Len(punch) /\ correction[c].out \in 0..Len(punch)
    BY <1>2 DEF RowsOK
  <2>2. \A e \in Ids(c) : e \in 1..Len(punch) /\ e # 0 /\ Drafted(e)
    BY <1>2, <2>1 DEF Ids, Drafted
  <2>3. \A q \in DOMAIN period : Known(period[q].in) /\ (period[q].out = 0 \/ Known(period[q].out))
    BY <1>2 DEF RowsOK
  <2>4. QED
    BY <1>2, <2>2, <2>3 DEF Known, RowIds
<1>4. Shapely(was)
  BY <1>2 DEF SoundRows, SoundRow
<1> DEFINE out == IF newOut # 0 THEN newOut ELSE was.out
           ended == newOut # 0 \/ was.ended
           deleted == period[p].deleted \/ correction[c].action = "delete"
           row == [was EXCEPT !.in = newIn, !.out = out, !.ended = ended, !.deleted = deleted]
<1>5. period' = [period EXCEPT ![p] = row]
  BY <1>2 DEF ApplyCorrection
<1> HIDE DEF out, ended, deleted
<1>6. row.in = newIn /\ row.out = out /\ row.active = was.active /\ row.ended = ended
  BY DEF Period
<1> HIDE DEF row
<1>7. PICK new, gone :
          /\ new = {newIn, newOut} \ {0}
          /\ gone = {was.in} \cup (IF newOut # 0 THEN {was.out} ELSE {})
  OBVIOUS
<1>8. newIn # 0 /\ newIn \notin RowIds(was) /\ newOut \notin RowIds(was)
  BY <1>2, <1>3 DEF RowIds
<1>9. PICK active : active = SetLive(punch, {newIn, newOut}, TRUE)
  OBVIOUS
<1>10. active \in Seq(Punch) /\ DOMAIN active = DOMAIN punch /\ SoundRows(period, active, new, {})
  <2>1. PICK yes \in BOOLEAN, both \in {{newIn, newOut}} : yes = TRUE /\ both = {newIn, newOut}
    OBVIOUS
  <2>2. /\ SetLive(punch, both, yes) \in Seq(Punch) /\ Len(SetLive(punch, both, yes)) = Len(punch)
        /\ \A e \in 1..Len(punch) : SetLive(punch, both, yes)[e].live = IF e \in both THEN yes ELSE punch[e].live
    BY <1>2, SetLiveFields
  <2>3. active = SetLive(punch, both, yes)
    BY <1>9, <2>1
  <2>4. active \in Seq(Punch) /\ DOMAIN active = DOMAIN punch
    BY <1>2, <2>2, <2>3
  <2>5. \A e \in DOMAIN punch : active[e].live <=> punch[e].live \/ e \in new
    <3>1. \A e \in DOMAIN punch : e # 0 /\ (e \in both <=> e \in new)
      BY <1>2, <1>7, <2>1
    <3>2. QED
      BY <1>2, <2>1, <2>2, <2>3, <3>1
  <2>6. new \subseteq DOMAIN punch /\ \A q \in DOMAIN period : RowIds(period[q]) \cap new = {}
    BY <1>3, <1>7
  <2>7. PICK loose : loose = {} \cup new
    OBVIOUS
  <2>8. SoundRows(period, active, {} \cup new, {})
    BY <1>2, <2>4, <2>5, <2>6, EntriesActivated
  <2>9. {} \cup new = new
    OBVIOUS
  <2>10. QED
    BY <2>4, <2>8, <2>9
<1>11. SoundRows(period, punch', new, gone)
  <2>1. PICK no \in BOOLEAN : no = FALSE
    OBVIOUS
  <2>2. punch' = SetLive(active, gone, no)
    BY <1>7, <1>9, <2>1 DEF ApplyCorrection
  <2>3. /\ SetLive(active, gone, no) \in Seq(Punch) /\ Len(SetLive(active, gone, no)) = Len(active)
        /\ \A e \in 1..Len(active) : SetLive(active, gone, no)[e].live = IF e \in gone THEN no ELSE active[e].live
    BY <1>10, SetLiveFields
  <2>4. DOMAIN active = 1..Len(active) /\ DOMAIN punch' = DOMAIN active
    BY <1>10, <2>2, <2>3
  <2>5. \A e \in DOMAIN active : punch'[e].live <=> active[e].live /\ e \notin gone
    BY <2>1, <2>2, <2>3, <2>4
  <2>6. gone \subseteq RowIds(period[p])
    BY <1>2, <1>4, <1>7 DEF RowIds, Shapely
  <2>7. SoundRows(period, punch', new, {} \cup gone)
    BY <1>10, <2>4, <2>5, <2>6, EntriesSuperseded
  <2>8. {} \cup gone = gone
    OBVIOUS
  <2>9. QED
    BY <2>7, <2>8
<1>12. PICK rest : rest = {}
  OBVIOUS
<1>13. /\ Shapely(row)
       /\ row.ended \/ ~period[p].ended
       /\ RowIds(row) \subseteq new \cup RowIds(period[p])
       /\ gone \subseteq RowIds(period[p]) \ RowIds(row)
       /\ rest = (new \ RowIds(row)) \cup ((RowIds(period[p]) \ RowIds(row)) \ gone)
  <2>1. CASE newOut # 0
    <3>1. /\ row.in = newIn /\ row.out = newOut /\ row.ended /\ ~row.active
          /\ was.in # 0 /\ was.out # 0 /\ RowIds(was) = {was.in, was.out}
      BY <1>4, <1>6, <2>1 DEF out, ended, Shapely, RowIds
    <3>2. RowIds(row) = {newIn, newOut} /\ new = {newIn, newOut} /\ gone = {was.in, was.out}
      BY <1>7, <1>8, <2>1, <3>1 DEF RowIds
    <3>3. QED
      BY <1>2, <1>8, <1>12, <2>1, <3>1, <3>2 DEF Shapely
  <2>2. CASE newOut = 0
    <3>1. /\ row.in = newIn /\ row.out = was.out /\ row.ended = was.ended /\ row.active = was.active
      BY <1>6, <2>2 DEF out, ended, Period
    <3>2. /\ RowIds(row) = {newIn, was.out} \ {0} /\ RowIds(was) = {was.in, was.out} \ {0}
          /\ new = {newIn} /\ gone = {was.in}
      BY <1>7, <1>8, <2>2, <3>1 DEF RowIds
    <3>3. newIn # was.out
      BY <1>8, <3>2
    <3>4. Shapely(row)
      BY <1>4, <1>8, <3>1, <3>3 DEF Shapely
    <3>5. row.ended \/ ~period[p].ended
      BY <1>2, <3>1
    <3>6. QED
      BY <1>2, <1>4, <1>8, <1>12, <3>2, <3>3, <3>4, <3>5 DEF Shapely
  <2>3. QED
    BY <2>1, <2>2
<1>14. SoundRows(period', punch', rest, {})
  <2>1. PICK es, written : es = punch' /\ written = row
    OBVIOUS
  <2>2. /\ SoundRows(period, es, new, gone) /\ Shapely(written)
        /\ written.ended \/ ~period[p].ended
        /\ RowIds(written) \subseteq new \cup RowIds(period[p])
        /\ gone \subseteq RowIds(period[p]) \ RowIds(written)
        /\ rest = (new \ RowIds(written)) \cup ((RowIds(period[p]) \ RowIds(written)) \ gone)
    BY <1>11, <1>13, <2>1
  <2>3. SoundRows([period EXCEPT ![p] = written], es, rest, {})
    BY <2>2, WrittenSound
  <2>4. QED
    BY <1>5, <2>1, <2>3
<1>15. QED
  BY <1>1, <1>2, <1>12, <1>14, TurnEnds

LEMMA ApproveInTurn ==
    ASSUME ClockInv, InTurn, NEW s \in Clocker, Approve(s)
    PROVE  InTurn'
<1>1. clockCall[s].step = "approve" /\ clockCall[s].step # "off"
  BY DEF Approve, AtStep
<1>2. CASE Refuse(s)
  <2>1. Loose(clockCall[s]) = {} /\ Stale(clockCall[s]) = {}
    BY <1>1 DEF Loose, Stale, InsertedLoose
  <2>2. QED
    BY <1>1, <1>2, <2>1, RefusedInTurn
<1>3. CASE ~Refuse(s)
  <2> DEFINE c0 == clockCall[s].c
             was0 == clockCall[s].was
             in0 == Resolved(correction[c0].in, was0.in)
             out0 == Resolved(correction[c0].out, was0.out)
  <2>1. /\ MayApply(correction[c0].action, in0, out0)
        /\ ApplyCorrection(s, c0, clockCall[s].p, was0, in0, out0)
    BY <1>3 DEF Approve, AtStep
  <2>2. /\ clockCall[s].p \in DOMAIN period /\ was0 \in Period /\ c0 \in DOMAIN correction
        /\ Shapely(was0)
    <3>1. /\ ClockTypeOK /\ clockCall[s].p \in DOMAIN period /\ KnowsRows(clockCall[s])
          /\ SoundRows(period, punch, Loose(clockCall[s]), Stale(clockCall[s]))
      BY <1>1, TurnFacts DEF NoPeriodYet
    <3>2. was0 \in Period
      BY <1>1, <3>1, BusyCall
    <3>3. CallOK(s)
      BY DEF ClockInv
    <3>4. c0 \in DOMAIN correction
      BY <1>1, <3>3, SMTT(30) DEF CallOK
    <3>5. period[clockCall[s].p] = was0
      BY <1>1, <3>1, SMTT(60) DEF KnowsRows
    <3>6. QED
      BY <3>1, <3>2, <3>4, <3>5 DEF SoundRows, SoundRow
  <2>3. in0 # 0 /\ in0 \in Ids(c0)
    BY <2>1 DEF MayApply, Resolved, Ids
  <2>4. out0 \in {0} \cup Ids(c0) /\ (was0.out = 0 => out0 = 0)
    BY DEF Resolved, Ids
  <2>5. in0 # out0
    BY <2>2, <2>3 DEF Resolved, Shapely
  <2>6. PICK c \in DOMAIN correction, p \in DOMAIN period, was \in Period :
            c = c0 /\ p = clockCall[s].p /\ was = was0
    BY <2>2
  <2>7. PICK newIn \in Ids(c), newOut \in {0} \cup Ids(c) : newIn = in0 /\ newOut = out0
    BY <2>3, <2>4, <2>6
  <2>8. ApplyCorrection(s, c, p, was, newIn, newOut) /\ (was.out = 0 => newOut = 0) /\ newIn # newOut
    BY <2>1, <2>4, <2>5, <2>6, <2>7
  <2> HIDE DEF in0, out0
  <2>9. QED
    BY <1>1, <2>6, <2>8, ApplyInTurn
<1>4. QED
  BY <1>2, <1>3

\* A rejection takes no turn: it leaves the rows and what the call that runs knows.
LEMMA RejectInTurn ==
    ASSUME ClockInv, InTurn, NEW s \in Clocker, Reject(s)
    PROVE  InTurn'
<1>1. PICK c \in DOMAIN correction, status \in {"approved", "rejected"} :
          /\ status = "rejected" /\ correction' = [correction EXCEPT ![c].status = status]
          /\ UNCHANGED <<period, punch, clockCall>>
  BY DEF Reject
<1>2. ClockTypeOK /\ DOMAIN correction = 1..Len(correction)
  BY RowsOfTables DEF ClockInv
<1>3. \A d \in DOMAIN correction : correction[d].status # "approved" => correction'[d].status # "approved"
  BY <1>1, <1>2, Decided
<1>4. WithoutEnd' = WithoutEnd
  BY <1>1 DEF WithoutEnd
<1>5. ASSUME NEW r \in Clocker, clockCall[r].step # "off"
      PROVE  KnowsRows(clockCall[r])'
  <2>1. KnowsRows(clockCall[r])
    BY <1>5 DEF InTurn
  <2>2. clockCall[r].step = "approve" => clockCall[r].c \in DOMAIN correction
    <3>1. CallOK(r)
      BY DEF ClockInv
    <3>2. QED
      BY <1>5, <3>1, SMTT(30) DEF CallOK
  <2>3. QED
    BY <1>1, <1>3, <1>4, <2>1, <2>2 DEF KnowsRows
<1>6. QED
  BY <1>1, <1>5 DEF InTurn


-----------------------------------------------------------------------------
\* What the employee starts with.
LEMMA OneRowSound ==
    ASSUME NEW ps, NEW row, DOMAIN ps = {1}, ps[1] = row, Shapely(row), NEW es,
           RowIds(row) \subseteq DOMAIN es, \A e \in DOMAIN es : es[e].live <=> e \in RowIds(row)
    PROVE  SoundRows(ps, es, {}, {})
BY DEF SoundRows, SoundRow

LEMMA TurnStart == ASSUME ClockInit PROVE InTurn
<1>1. \A s \in Clocker : clockCall[s].step = "off"
  BY DEF ClockInit, Off
<1>2. SoundRows(period, punch, {}, {})
  <2> DEFINE drafted == ThePunches \o <<Draft(1), Draft(2)>>
  <2>1. /\ DOMAIN ThePunches = {1, 2} /\ ThePunches[1].live /\ ThePunches[2].live
        /\ DOMAIN <<ThePunches[1]>> = {1} /\ <<ThePunches[1]>>[1].live
    BY DEF ThePunches
  <2>2. /\ DOMAIN drafted = {1, 2, 3, 4} /\ drafted[1].live /\ drafted[2].live
        /\ ~drafted[3].live /\ ~drafted[4].live
    BY DEF ThePunches, Draft
  <2> HIDE DEF drafted
  <2>3. CASE period = <<>> /\ punch = <<>>
    BY <2>3 DEF SoundRows
  <2>4. CASE period = <<OpenPeriod(1, "app")>> /\ punch = <<ThePunches[1]>>
    <3>1. PICK row : row = OpenPeriod(1, "app") /\ Shapely(row) /\ RowIds(row) = {1}
      BY OpenShape
    <3>2. DOMAIN <<row>> = {1} /\ <<row>>[1] = row
      OBVIOUS
    <3>3. PICK ps, es : ps = <<row>> /\ es = <<ThePunches[1]>>
      OBVIOUS
    <3>4. SoundRows(ps, es, {}, {})
      BY <2>1, <3>1, <3>2, <3>3, OneRowSound
    <3>5. QED
      BY <2>4, <3>1, <3>3, <3>4
  <2>5. CASE period = <<ClosedPeriod(1, 2, FALSE)>> /\ (punch = ThePunches \/ punch = drafted)
    <3>1. PICK row : row = ClosedPeriod(1, 2, FALSE) /\ Shapely(row) /\ RowIds(row) = {1, 2}
      <4>1. PICK no \in BOOLEAN : no = FALSE
        OBVIOUS
      <4>2. Shapely(ClosedPeriod(1, 2, no)) /\ RowIds(ClosedPeriod(1, 2, no)) = {1, 2}
        BY ClosedShape
      <4>3. QED
        BY <4>1, <4>2
    <3>2. DOMAIN <<row>> = {1} /\ <<row>>[1] = row
      OBVIOUS
    <3>3. PICK ps, es : ps = <<row>> /\ es = punch
      OBVIOUS
    <3>4. /\ RowIds(row) \subseteq DOMAIN es
          /\ \A e \in DOMAIN es : es[e].live <=> e \in RowIds(row)
      BY <2>1, <2>2, <2>5, <3>1, <3>3
    <3>5. SoundRows(ps, es, {}, {})
      BY <3>1, <3>2, <3>3, <3>4, OneRowSound
    <3>6. QED
      BY <2>5, <3>1, <3>3, <3>5
  <2>6. QED
    BY <2>3, <2>4, <2>5 DEF ClockInit, drafted
<1>3. QED
  BY <1>1, <1>2 DEF InTurn

\* Every step of a call that runs alone keeps the rows sound but for what is the call's own.
LEMMA TurnStep == ASSUME ClockInv, TurnInv, [ClockNext]_clockVars PROVE TurnInv'
<1> SUFFICES ASSUME ~unsettled' PROVE InTurn'
  BY DEF TurnInv
<1>1. ASSUME NEW s \in Clocker,
             \/ CheckIn(s) \/ CheckManual(s) \/ ApiBegin(s) \/ CheckOut(s) \/ CheckSplit(s)
             \/ CheckEnforce(s) \/ CheckEdit(s) \/ CheckRequest(s) \/ CheckApprove(s)
      PROVE  InTurn'
  <2>1. unsettled' = (unsettled \/ Others(s) # {})
    BY <1>1 DEF CheckIn, CheckManual, ApiBegin, CheckOut, CheckSplit, CheckEnforce, CheckEdit,
                CheckRequest, CheckApprove, Begin
  <2>2. ~unsettled
    BY <2>1
  <2>3. QED
    BY <1>1, <2>2, BeginsInTurn DEF TurnInv
<1>2. ASSUME NEW s \in Clocker,
             \/ PunchIn(s) \/ PunchManual(s) \/ PunchOut(s) \/ PunchSplit(s)
             \/ InsertPeriod(s) \/ ApiClockIn(s) \/ CloseIfOpen(s) \/ BotClose(s) \/ WebClose(s)
             \/ TakeBreak(s) \/ Enforce(s) \/ SplitUpdate(s) \/ SplitInsert(s)
      PROVE  InTurn'
  <2>1. unsettled' = unsettled
    BY <1>2 DEF PunchIn, PunchManual, PunchOut, PunchSplit, InsertPeriod, ApiClockIn, CloseIfOpen,
                BotClose, WebClose, TakeBreak, Enforce, SplitUpdate, SplitInsert, Refuse
  <2>2. InTurn
    BY <2>1 DEF TurnInv
  <2>3. QED
    BY <1>2, <2>2, PunchesInTurn, InsertPeriodInTurn, ApiClockInTurn, CloseInTurn, WebCloseInTurn,
       BreakInTurn, EnforceInTurn, SplitUpdateInTurn, SplitInsertInTurn
<1>3. ASSUME NEW s \in Clocker,
             \/ EditCheck(s) \/ EditInsert(s) \/ EditUpdate(s)
             \/ RequestCorrection(s) \/ RequestDeletion(s) \/ Approve(s) \/ Reject(s)
      PROVE  InTurn'
  <2>1. unsettled' = unsettled
    BY <1>3 DEF EditCheck, Replaceable, EditInsert, Replace, EditUpdate, RequestCorrection,
                RequestDeletion, Request, Approve, ApplyCorrection, Reject, Refuse
  <2>2. InTurn
    BY <2>1 DEF TurnInv
  <2>3. QED
    BY <1>3, <2>2, EditCheckInTurn, EditInsertInTurn, EditUpdateInTurn, RequestInTurn,
       ApproveInTurn, RejectInTurn, SMTT(60)
<1>4. ASSUME NEW s \in Clocker, SplitNotes(s) \/ Die(s)
      PROVE  InTurn'
  BY <1>4 DEF SplitNotes, Die
<1>5. CASE UNCHANGED clockVars
  <2>1. UNCHANGED <<period, punch, correction, clockCall, unsettled>>
    BY <1>5 DEF clockVars
  <2>2. InTurn /\ WithoutEnd' = WithoutEnd
    BY <2>1 DEF TurnInv, WithoutEnd
  <2>3. \A r \in Clocker : KnowsRows(clockCall[r]) => KnowsRows(clockCall[r])'
    BY <2>1, <2>2 DEF KnowsRows
  <2>4. QED
    BY <2>1, <2>2, <2>3 DEF InTurn
<1>6. QED
  BY <1>1, <1>2, <1>3, <1>4, <1>5 DEF ClockNext

\* What that says of the periods when no call runs.
LEMMA SettledRows == ASSUME ClockInv, TurnInv PROVE SettledPeriodsSound
<1> SUFFICES ASSUME ~unsettled, \A s \in Clocker : AtStep(s, "off")
             PROVE  /\ Cardinality(WithoutEnd) <= 1
                    /\ \A p \in DOMAIN period :
                          /\ period[p].ended = (period[p].out # 0)
                          /\ period[p].active = ~period[p].ended
                          /\ \A e \in EntriesOf(p) : punch[e].live
                    /\ \A e \in DOMAIN punch : punch[e].live => \E p \in DOMAIN period : e \in EntriesOf(p)
                    /\ \A p, q \in DOMAIN period : p # q => EntriesOf(p) \cap EntriesOf(q) = {}
  BY DEF SettledPeriodsSound
<1>1. SoundRows(period, punch, {}, {})
  BY DEF TurnInv, InTurn, AtStep
<1>2. Cardinality(WithoutEnd) <= 1
  <2>1. CASE WithoutEnd = {}
    BY <2>1, FS_EmptySet
  <2>2. ASSUME NEW p \in WithoutEnd
        PROVE  Cardinality(WithoutEnd) <= 1
    <3>1. WithoutEnd = {p}
      BY <1>1, <2>2 DEF SoundRows, WithoutEnd
    <3>2. Cardinality({p}) = 1
      BY FS_Singleton, Zenon
    <3>3. QED
      BY <3>1, <3>2
  <2>3. QED
    BY <2>1, <2>2
<1>3. ASSUME NEW p \in DOMAIN period
      PROVE  /\ period[p].ended = (period[p].out # 0)
             /\ period[p].active = ~period[p].ended
             /\ \A e \in EntriesOf(p) : punch[e].live
  <2>1. period[p] \in Period
    BY RowsOfTables DEF ClockInv
  <2>2. period[p].ended \in BOOLEAN /\ period[p].active \in BOOLEAN
    BY <2>1 DEF Period
  <2>3. Shapely(period[p])
    BY <1>1 DEF SoundRows, SoundRow
  <2>4. period[p].ended <=> period[p].out # 0
    BY <2>3 DEF Shapely
  <2>5. period[p].active <=> ~period[p].ended
    BY <2>3 DEF Shapely
  <2>6. \A e \in EntriesOf(p) : punch[e].live
    BY <1>1 DEF SoundRows, SoundRow, EntriesOf, RowIds
  <2>7. QED
    BY <2>2, <2>4, <2>5, <2>6
<1>4. \A e \in DOMAIN punch : punch[e].live => \E p \in DOMAIN period : e \in EntriesOf(p)
  BY <1>1 DEF SoundRows, EntriesOf, RowIds
<1>5. \A p, q \in DOMAIN period : p # q => EntriesOf(p) \cap EntriesOf(q) = {}
  BY <1>1 DEF SoundRows, EntriesOf, RowIds
<1>6. QED
  BY <1>2, <1>3, <1>4, <1>5

\* Calls that come one after the other leave the periods sound, whichever they are and in
\* whatever order: one open at most, an end exactly with a clock-out, and every live entry
\* in exactly one period.
THEOREM SettledPeriodsSoundCorrect == ClockSpec => []SettledPeriodsSound
<1>1. ClockInit => TurnInv
  BY TurnStart DEF TurnInv
<1>2. ClockInv /\ TurnInv /\ [ClockNext]_clockVars => TurnInv'
  BY TurnStep
<1>3. ClockInv /\ TurnInv => SettledPeriodsSound
  BY SettledRows
<1>4. QED
  BY <1>1, <1>2, <1>3, ClockInvHolds, PTL DEF ClockSpec
===============================================================================
