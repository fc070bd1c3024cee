--------------------------- MODULE SideBySideProofs ---------------------------
(***************************************************************************)
(* Proofs about Billing: every variable keeps its type, and the access of  *)
(* an organization follows Stripe when each event is taken after all       *)
(* deliveries of the others, for any number of subscriptions, events,      *)
(* calls, repetitions and failures.                                        *)
(* And about the seven components side by side: each keeps its types.      *)
(***************************************************************************)
EXTENDS MCSideBySide, TimeTrackingProofs, JobQueueProofs, MembersAndShiftsProofs, TLAPS

Calls == BillingCall \cup {HourlyJob}

\* The steps after the row was written.
AfterRow == {"count", "seats", "read", "quantity", "mark"}

\* What a call has at hand in each of its steps.
SyncOK(y) ==
    /\ y.event <= Len(sent)
    /\ y.step = "off" => y.event = 0
    /\ y.step \in {"change", "fetch", "create", "mark"} => y.event # 0
    /\ y.step = "change" => sent[y.event].type # "checkout"
    /\ y.step \in {"fetch", "create"} => sent[y.event].type = "checkout"
    /\ y.step \in {"change", "fetch", "create"} => y.of = sent[y.event].of
    /\ y.step = "create" => y.status \in Status
    /\ y.step = "quantity" => y.of \in Subscription

CallInv == (\A c \in Calls : SyncOK(sync[c])) /\ sync[HourlyJob].event = 0

\* e is the last event about s.
Last(e, s) ==
    /\ e \in 1..Len(sent) /\ sent[e].of = s
    /\ \A f \in e + 1..Len(sent) : sent[f].of # s

LastOfCheckouts(e) ==
    /\ e \in 1..Len(sent) /\ sent[e].type = "checkout"
    /\ \A f \in e + 1..Len(sent) : sent[f].type # "checkout"

\* The status event e speaks of.
Carried(e) == IF sent[e].type = "checkout" THEN sent[e].status ELSE StatusOf(e)

\* The last event about a subscription carries what Stripe has.
AccountInv ==
    \A s \in Subscription :
        /\ account[s].status \in Status =>
              \E e \in 1..Len(sent) :
                  Last(e, s) /\ (Carried(e) \in Granting <=> account[s].status \in Granting)
        /\ account[s].status \notin Status => \A e \in 1..Len(sent) : sent[e].of # s

RowInv == billingRow.of # NoSubscription => billingRow.status \in Status

\* Events are processed in their order, and all deliveries at work are of one event, the
\* next or, if they repeat it, the last that is processed.
InOrderInv ==
    /\ \A e \in processed : \A f \in 1..e - 1 : f \in processed
    /\ \A c \in BillingCall : sync[c].event # 0 =>
          /\ \A f \in processed : f <= sync[c].event
          /\ \A f \in 1..sync[c].event - 1 : f \in processed
    /\ \A c, d \in BillingCall : sync[c].event # 0 /\ sync[d].event # 0 =>
          sync[c].event = sync[d].event

Applied(e) ==
    \/ e \in processed
    \/ \E c \in BillingCall : sync[c].event = e /\ sync[c].step \in AfterRow

\* As soon as they are applied, the row is that of the last checkout,
RowFollows ==
    \A e \in 1..Len(sent) : LastOfCheckouts(e) /\ Applied(e) => billingRow.of = sent[e].of

\* and grants what the last event about its subscription says;
GrantFollows ==
    \A s \in Subscription, e \in 1..Len(sent) :
        billingRow.of = s /\ Last(e, s) /\ Applied(e) =>
            (billingRow.status \in Granting <=> account[s].status \in Granting)

\* and so will the row that is about to be written.
ReadFollows ==
    \A c \in BillingCall, s \in Subscription :
        sync[c].step = "create" /\ sync[c].of = s /\ Last(sync[c].event, s) =>
            (sync[c].status \in Granting <=> account[s].status \in Granting)

FollowInv == RowFollows /\ GrantFollows /\ ReadFollows

IInv ==
    /\ BillingTypeOK /\ CallInv /\ AccountInv /\ RowInv
    /\ crossed = {} => InOrderInv /\ FollowInv

-----------------------------------------------------------------------------
LEMMA InitInv == BillingInit => IInv
<1> SUFFICES ASSUME BillingInit PROVE IInv
  OBVIOUS
<1>1. sent \in Seq(StripeEvent) /\ Len(sent) = 0 /\ processed = {} /\ 1..Len(sent) = {}
  BY DEF BillingInit
<1>2. /\ account \in [Subscription -> Account]
      /\ \A s \in Subscription : account[s].status \notin Status
  <2>1. 0 \in Seats
    BY SeatsAssumption DEF Seats
  <2>2. account = [s \in Subscription |-> [status |-> "none", quantity |-> 0]]
    BY DEF BillingInit
  <2>3. [status |-> "none", quantity |-> 0] \in Account
    BY <2>1 DEF Account
  <2>4. \A s \in Subscription : account[s].status = "none"
    BY <2>2
  <2>5. "none" \notin Status
    BY DEF Status, Live
  <2> QED
    BY <2>2, <2>3, <2>4, <2>5
<1>3. billingRow \in BillingRow /\ billingRow.of = NoSubscription
  BY SeatsAssumption DEF BillingInit, BillingRow, Seats
<1>4. sync \in [Calls -> Sync] /\ \A c \in Calls : sync[c] = NoSync
  BY SeatsAssumption DEF BillingInit, Calls, Sync, NoSync, Seats
<1>5. BillingTypeOK
  <2>1. /\ billable \in 1..MaxSeats /\ crossed \subseteq Crossing
        /\ moves \in 0..MaxMoves /\ mishap \in 0..MaxBillingTrouble
    <3>1. billable = 1 /\ crossed = {} /\ moves = 0 /\ mishap = 0
      BY DEF BillingInit
    <3>2. billable \in 1..MaxSeats /\ moves \in 0..MaxMoves /\ mishap \in 0..MaxBillingTrouble
      BY <3>1, SeatsAssumption, TroubleAssumption
    <3>3. crossed \subseteq Crossing
      BY <3>1
    <3> QED
      BY <3>2, <3>3
  <2>2. Len(sent) <= MaxEvents /\ processed \subseteq 1..Len(sent)
    BY <1>1, SeatsAssumption
  <2> QED
    BY <1>1, <1>2, <1>3, <1>4, <2>1, <2>2 DEF BillingTypeOK, Calls
<1>6. CallInv
  BY <1>1, <1>4 DEF CallInv, SyncOK, Calls, NoSync
<1>7. AccountInv
  BY <1>1, <1>2 DEF AccountInv
<1>8. RowInv
  BY <1>3 DEF RowInv
<1>9. InOrderInv
  BY <1>1, <1>4 DEF InOrderInv, NoSync, Calls
<1>10. FollowInv
  BY <1>1, <1>4 DEF FollowInv, RowFollows, GrantFollows, ReadFollows, NoSync, Calls, Last
<1> QED
  BY <1>5, <1>6, <1>7, <1>8, <1>9, <1>10 DEF IInv

-----------------------------------------------------------------------------
(***************************************************************************)
(* Stripe reports a change of s: the last event about s is now another     *)
(* one, which nobody has applied.                                          *)
(***************************************************************************)
LEMMA AppendInv ==
    ASSUME IInv, NEW s \in Subscription, NEW v \in StripeEvent, NEW n, n = Len(sent) + 1,
           n <= MaxEvents, v.of = s, sent' = Append(sent, v),
           account' \in [Subscription -> Account], account'[s].status \in Status,
           Carried(n)' \in Granting <=> account'[s].status \in Granting,
           \A t \in Subscription : t # s => account'[t] = account[t],
           UNCHANGED <<billable, processed, billingRow, sync, crossed, moves, mishap>>
    PROVE  IInv'
<1>1. BillingTypeOK /\ CallInv /\ AccountInv /\ RowInv /\ (crossed = {} => InOrderInv /\ FollowInv)
  BY DEF IInv
<1>2. sent \in Seq(StripeEvent) /\ Len(sent) \in Nat /\ n \in Nat /\ n \notin 1..Len(sent)
  BY <1>1 DEF BillingTypeOK
<1>3. /\ sent' \in Seq(StripeEvent) /\ Len(sent') = n /\ sent'[n] = v
      /\ \A i \in 1..Len(sent) : sent'[i] = sent[i]
  BY <1>2
<1>4. BillingTypeOK'
  <2>1. processed' \subseteq 1..Len(sent')
    BY <1>1, <1>2, <1>3 DEF BillingTypeOK
  <2> QED
    BY <1>1, <1>3, <2>1 DEF BillingTypeOK
<1>5. \A c \in Calls : sync[c] \in Sync /\ sync[c].event \in 0..Len(sent)
  BY <1>1, <1>2 DEF BillingTypeOK, CallInv, SyncOK, Calls, Sync
<1>6. CallInv'
  <2> SUFFICES ASSUME NEW c \in Calls PROVE SyncOK(sync[c])'
    BY <1>1 DEF CallInv
  <2>1. SyncOK(sync[c])
    BY <1>1 DEF CallInv
  <2>2. sync[c].event # 0 => sync[c].event \in 1..Len(sent) /\ sent'[sync[c].event] = sent[sync[c].event]
    BY <1>2, <1>3, <1>5
  <2>3. sync[c].event <= Len(sent')
    BY <1>2, <1>3, <1>5
  <2> QED
    BY <2>1, <2>2, <2>3 DEF SyncOK
<1>7. /\ Last(n, s)'
      /\ \A e : Last(e, s)' => e = n
      /\ \A e, t : t # s => (Last(e, t)' <=> Last(e, t))
  <2>1. Last(n, s)'
    BY <1>2, <1>3 DEF Last
  <2>2. ASSUME NEW e, Last(e, s)' PROVE e = n
    <3>1. e \in 1..n /\ \A f \in e + 1..n : sent'[f].of # s
      BY <2>2, <1>3 DEF Last
    <3> QED
      BY <3>1, <1>2, <1>3
  <2>3. ASSUME NEW e, NEW t, t # s, Last(e, t)' PROVE Last(e, t)
    <3>1. e \in 1..n /\ sent'[e].of = t /\ \A f \in e + 1..n : sent'[f].of # t
      BY <2>3, <1>3 DEF Last
    <3>2. e # n
      BY <2>3, <3>1, <1>3
    <3> QED
      BY <3>1, <3>2, <1>2, <1>3 DEF Last
  <2>4. ASSUME NEW e, NEW t, t # s, Last(e, t) PROVE Last(e, t)'
    <3>1. e \in 1..Len(sent) /\ sent[e].of = t /\ \A f \in e + 1..Len(sent) : sent[f].of # t
      BY <2>4 DEF Last
    <3>2. \A f \in e + 1..n : sent'[f].of # t
      BY <2>4, <3>1, <1>2, <1>3
    <3> QED
      BY <3>1, <3>2, <1>2, <1>3 DEF Last
  <2> QED
    BY <2>1, <2>2, <2>3, <2>4
<1>8. AccountInv'
  <2> SUFFICES ASSUME NEW t \in Subscription
               PROVE  /\ account'[t].status \in Status =>
                            \E e \in 1..Len(sent') :
                               Last(e, t)' /\ (Carried(e)' \in Granting <=> account'[t].status \in Granting)
                      /\ account'[t].status \notin Status => \A e \in 1..Len(sent') : sent'[e].of # t
    BY DEF AccountInv
  <2>1. CASE t = s
    BY <2>1, <1>2, <1>3, <1>7
  <2>2. CASE t # s
    <3>1. account'[t] = account[t]
      BY <2>2
    <3>2. ASSUME NEW e \in 1..Len(sent) PROVE Carried(e)' = Carried(e)
      <4>1. sent'[e] = sent[e]
        BY <1>3
      <4> QED
        BY <4>1 DEF Carried, StatusOf
    <3>3. 1..Len(sent) \subseteq 1..Len(sent') /\ \A e \in 1..Len(sent') : e \in 1..Len(sent) \/ e = n
      BY <1>2, <1>3
    <3>4. ASSUME account[t].status \in Status
          PROVE  \E e \in 1..Len(sent') :
                     Last(e, t)' /\ (Carried(e)' \in Granting <=> account'[t].status \in Granting)
      <4>1. PICK e \in 1..Len(sent) :
               Last(e, t) /\ (Carried(e) \in Granting <=> account[t].status \in Granting)
        BY <1>1, <3>4 DEF AccountInv
      <4> QED
        BY <4>1, <2>2, <3>1, <3>2, <3>3, <1>7
    <3>5. ASSUME account[t].status \notin Status, NEW e \in 1..Len(sent')
          PROVE  sent'[e].of # t
      BY <1>1, <1>3, <2>2, <3>3, <3>5 DEF AccountInv
    <3> QED
      BY <3>1, <3>4, <3>5
  <2> QED
    BY <2>1, <2>2
<1>9. RowInv'
  BY <1>1 DEF RowInv
<1>10. InOrderInv => InOrderInv'
  BY DEF InOrderInv
<1>11. ~Applied(n)' /\ \A e : Applied(e)' <=> Applied(e)
  <2>1. n \notin processed
    BY <1>1, <1>2 DEF BillingTypeOK
  <2>2. \A c \in BillingCall : sync[c].event # n
    BY <1>2, <1>5 DEF Calls
  <2> QED
    BY <2>1, <2>2 DEF Applied
<1>12. FollowInv => FollowInv'
  <2> SUFFICES ASSUME FollowInv PROVE FollowInv'
    OBVIOUS
  <2>1. ASSUME NEW e \in 1..Len(sent'), LastOfCheckouts(e)', Applied(e)'
        PROVE  billingRow.of = sent'[e].of
    <3>1. e \in 1..Len(sent) /\ sent'[e] = sent[e]
      BY <2>1, <1>2, <1>3, <1>11
    <3>2. LastOfCheckouts(e)
      BY <2>1, <3>1, <1>2, <1>3 DEF LastOfCheckouts
    <3> QED
      BY <2>1, <3>1, <3>2, <1>11 DEF FollowInv, RowFollows, GrantFollows, ReadFollows
  <2>2. ASSUME NEW t \in Subscription, NEW e \in 1..Len(sent'),
               billingRow.of = t, Last(e, t)', Applied(e)'
        PROVE  billingRow.status \in Granting <=> account'[t].status \in Granting
    <3>1. e # n /\ t # s
      BY <2>2, <1>7, <1>11
    <3>2. e \in 1..Len(sent) /\ account'[t] = account[t]
      BY <3>1, <1>2, <1>3
    <3> QED
      BY <2>2, <3>1, <3>2, <1>7, <1>11 DEF FollowInv, RowFollows, GrantFollows, ReadFollows
  <2>3. ASSUME NEW c \in BillingCall, NEW t \in Subscription,
               sync[c].step = "create", sync[c].of = t, Last(sync[c].event, t)'
        PROVE  sync[c].status \in Granting <=> account'[t].status \in Granting
    <3>1. sync[c].event # n
      BY <1>2, <1>5 DEF Calls
    <3>2. t # s
      BY <2>3, <3>1, <1>7
    <3>3. account'[t] = account[t] /\ Last(sync[c].event, t)
      BY <2>3, <3>2, <1>7
    <3> QED
      BY <2>3, <3>3 DEF FollowInv, RowFollows, GrantFollows, ReadFollows
  <2> QED
    BY <2>1, <2>2, <2>3 DEF FollowInv, RowFollows, GrantFollows, ReadFollows
<1> QED
  BY <1>1, <1>4, <1>6, <1>8, <1>9, <1>10, <1>12 DEF IInv
-----------------------------------------------------------------------------
(***************************************************************************)
(* Before Stripe knows the subscription: no event is about it yet, and a   *)
(* row without a subscription may have any status.                         *)
(***************************************************************************)
LEMMA BeforeStripeInv ==
    ASSUME IInv, UNCHANGED <<billable, sent, processed, sync, crossed, moves, mishap>>,
           account' \in [Subscription -> Account], billingRow' \in BillingRow,
           billingRow'.of = billingRow.of,
           billingRow.of # NoSubscription => billingRow'.status = billingRow.status,
           \A s \in Subscription :
              \/ account'[s].status = account[s].status
              \/ account'[s].status \notin Status /\ account[s].status \notin Status
    PROVE  IInv'
<1>1. BillingTypeOK /\ CallInv /\ AccountInv /\ RowInv /\ (crossed = {} => InOrderInv /\ FollowInv)
  BY DEF IInv
<1>2. BillingTypeOK'
  BY <1>1 DEF BillingTypeOK
<1>3. CallInv'
  BY <1>1 DEF CallInv, SyncOK
<1>4. \A e : Carried(e)' = Carried(e)
  BY DEF Carried, StatusOf
<1>5. \A e, s : Last(e, s)' = Last(e, s)
  BY DEF Last
<1>6. AccountInv'
  BY <1>1, <1>4, <1>5 DEF AccountInv
<1>7. RowInv'
  BY <1>1 DEF RowInv
<1>8. InOrderInv => InOrderInv'
  BY DEF InOrderInv
<1>9. \A e : (Applied(e)' <=> Applied(e)) /\ (LastOfCheckouts(e)' <=> LastOfCheckouts(e))
  BY DEF Applied, LastOfCheckouts
<1>10. ASSUME NEW s \in Subscription, NEW e, Last(e, s)
       PROVE  account'[s].status = account[s].status
  <2>1. e \in 1..Len(sent) /\ sent[e].of = s
    BY <1>10 DEF Last
  <2> QED
    BY <1>1, <2>1 DEF AccountInv
<1>11. ASSUME FollowInv PROVE FollowInv'
  <2>1. ASSUME NEW e \in 1..Len(sent), LastOfCheckouts(e)', Applied(e)'
        PROVE  billingRow'.of = sent'[e].of
    BY <1>9, <1>11, <2>1 DEF FollowInv, RowFollows, GrantFollows, ReadFollows
  <2>2. ASSUME NEW s \in Subscription, NEW e \in 1..Len(sent),
               billingRow'.of = s, Last(e, s)', Applied(e)'
        PROVE  billingRow'.status \in Granting <=> account'[s].status \in Granting
    <3>1. Last(e, s) /\ Applied(e) /\ billingRow.of = s /\ s # NoSubscription
      BY <1>5, <1>9, <2>2, SubscriptionAssumption
    <3> QED
      BY <3>1, <1>10, <1>11 DEF FollowInv, RowFollows, GrantFollows, ReadFollows
  <2>3. ASSUME NEW c \in BillingCall, NEW s \in Subscription,
               sync[c].step = "create", sync[c].of = s, Last(sync[c].event, s)'
        PROVE  sync[c].status \in Granting <=> account'[s].status \in Granting
    BY <2>3, <1>5, <1>10, <1>11 DEF FollowInv, RowFollows, GrantFollows, ReadFollows
  <2> QED
    BY <2>1, <2>2, <2>3 DEF FollowInv, RowFollows, GrantFollows, ReadFollows
<1> QED
  BY <1>1, <1>2, <1>3, <1>6, <1>7, <1>8, <1>11 DEF IInv

-----------------------------------------------------------------------------
(***************************************************************************)
(* A call goes a step further, or stops, and neither writes the status of  *)
(* a row nor takes or finishes an event.                                   *)
(***************************************************************************)
LEMMA CallInvStep ==
    ASSUME IInv, NEW c \in Calls, NEW y \in Sync, sync' = [sync EXCEPT ![c] = y], SyncOK(y),
           y.event = 0 \/ y.event = sync[c].event,
           y.event # 0 /\ y.step \in AfterRow => sync[c].step \in AfterRow,
           y.step = "create" => y.status = account[y.of].status,
           UNCHANGED <<sent, processed, crossed>>,
           billable' \in 1..MaxSeats, moves' \in 0..MaxMoves, mishap' \in 0..MaxBillingTrouble,
           account' \in [Subscription -> Account], billingRow' \in BillingRow,
           \A s \in Subscription : account'[s].status = account[s].status,
           billingRow'.of = billingRow.of, billingRow'.status = billingRow.status
    PROVE  IInv'
<1>1. BillingTypeOK /\ CallInv /\ AccountInv /\ RowInv /\ (crossed = {} => InOrderInv /\ FollowInv)
  BY DEF IInv
<1>2. /\ sync \in [Calls -> Sync] /\ sync' \in [Calls -> Sync]
      /\ sync'[c] = y /\ \A d \in Calls : d # c => sync'[d] = sync[d]
  BY <1>1 DEF BillingTypeOK, Calls
<1>3. BillingTypeOK'
  BY <1>1, <1>2 DEF BillingTypeOK, Calls
<1>4. CallInv'
  <2>1. \A d \in Calls : SyncOK(sync'[d])
    BY <1>1, <1>2 DEF CallInv
  <2>2. \A d \in Calls : SyncOK(sync[d])'
    BY <2>1 DEF SyncOK
  <2>3. HourlyJob \in Calls /\ sync[HourlyJob].event = 0
    BY <1>1 DEF CallInv, Calls
  <2>4. sync'[HourlyJob].event = 0
    BY <1>2, <2>3
  <2> QED
    BY <2>2, <2>4 DEF CallInv
<1>5. \A e : Carried(e)' = Carried(e)
  BY DEF Carried, StatusOf
<1>6. \A e, s : Last(e, s)' <=> Last(e, s)
  BY DEF Last
<1>7. AccountInv'
  BY <1>1, <1>5, <1>6 DEF AccountInv
<1>8. RowInv'
  BY <1>1 DEF RowInv
<1>9. ASSUME NEW d \in BillingCall, sync'[d].event # 0
      PROVE  sync[d].event = sync'[d].event /\ (sync'[d].step \in AfterRow => sync[d].step \in AfterRow)
  BY <1>2, <1>9 DEF Calls
<1>10. ASSUME InOrderInv PROVE InOrderInv'
  BY <1>9, <1>10 DEF InOrderInv
<1>11. ASSUME NEW e \in 1..Len(sent), Applied(e)' PROVE Applied(e)
  <2>1. Len(sent) \in Nat
    BY <1>1 DEF BillingTypeOK
  <2> QED
    BY <1>9, <1>11, <2>1 DEF Applied
<1>12. ASSUME FollowInv PROVE FollowInv'
  <2>1. ASSUME NEW e \in 1..Len(sent), LastOfCheckouts(e)', Applied(e)'
        PROVE  billingRow'.of = sent'[e].of
    <3>1. LastOfCheckouts(e) /\ Applied(e)
      BY <2>1, <1>11 DEF LastOfCheckouts
    <3> QED
      BY <3>1, <1>12 DEF FollowInv, RowFollows, GrantFollows, ReadFollows
  <2>2. ASSUME NEW s \in Subscription, NEW e \in 1..Len(sent),
               billingRow'.of = s, Last(e, s)', Applied(e)'
        PROVE  billingRow'.status \in Granting <=> account'[s].status \in Granting
    BY <1>6, <1>11, <1>12, <2>2 DEF FollowInv, RowFollows, GrantFollows, ReadFollows
  <2>3. ASSUME NEW d \in BillingCall, NEW s \in Subscription,
               sync'[d].step = "create", sync'[d].of = s, Last(sync[d].event, s)'
        PROVE  sync'[d].status \in Granting <=> account'[s].status \in Granting
    <3>1. CASE d = c
      BY <1>2, <2>3, <3>1
    <3>2. CASE d # c
      <4>1. sync'[d] = sync[d]
        BY <1>2, <3>2 DEF Calls
      <4>2. Last(sync[d].event, s)
        BY <4>1, <2>3 DEF Last
      <4> QED
        BY <4>1, <4>2, <1>12, <2>3 DEF FollowInv, RowFollows, GrantFollows, ReadFollows
    <3> QED
      BY <3>1, <3>2
  <2> QED
    BY <2>1, <2>2, <2>3 DEF FollowInv, RowFollows, GrantFollows, ReadFollows
<1> QED
  BY <1>1, <1>3, <1>4, <1>7, <1>8, <1>10, <1>12 DEF IInv

-----------------------------------------------------------------------------
(***************************************************************************)
(* The steps of a seat sync, and the end of a call that fails.             *)
(***************************************************************************)
LEMMA NoSyncOK ==
    /\ NoSync \in Sync /\ NoSync.event = 0 /\ NoSync.step = "off"
    /\ [NoSync EXCEPT !.step = "count"] \in Sync
    /\ BillingTypeOK => SyncOK(NoSync) /\ SyncOK([NoSync EXCEPT !.step = "count"])
<1>1. 0 \in Seats /\ 0 \in 0..MaxEvents
  BY SeatsAssumption DEF Seats
<1>2. NoSync \in Sync /\ [NoSync EXCEPT !.step = "count"] \in Sync
  BY <1>1 DEF NoSync, Sync
<1>3. BillingTypeOK => 0 <= Len(sent)
  BY DEF BillingTypeOK
<1> QED
  BY <1>2, <1>3 DEF NoSync, SyncOK

\* What every call may rely on.
LEMMA SyncFacts ==
    ASSUME IInv, NEW c \in Calls
    PROVE  /\ sync[c] \in Sync /\ SyncOK(sync[c]) /\ Len(sent) \in Nat
           /\ billable \in 1..MaxSeats /\ billable \in Seats
           /\ moves \in 0..MaxMoves /\ mishap \in 0..MaxBillingTrouble
           /\ account \in [Subscription -> Account] /\ billingRow \in BillingRow
<1>1. BillingTypeOK /\ CallInv
  BY DEF IInv
<1>2. billable \in Seats
  BY <1>1, SeatsAssumption DEF BillingTypeOK, Seats
<1> QED
  BY <1>1, <1>2 DEF BillingTypeOK, CallInv, Calls

\* The next record of a call that changes its own state only.
LEMMA OwnStep ==
    ASSUME IInv, NEW c \in Calls, NEW y \in Sync, sync' = [sync EXCEPT ![c] = y], SyncOK(y),
           y.event = 0 \/ y.event = sync[c].event,
           y.event # 0 /\ y.step \in AfterRow => sync[c].step \in AfterRow,
           y.step = "create" => y.status = account[y.of].status,
           UNCHANGED <<billable, account, sent, processed, billingRow, crossed, moves, mishap>>
    PROVE  IInv'
<1> USE SyncFacts
<1> QED
  BY CallInvStep

LEMMA SyncedOK ==
    ASSUME IInv, NEW c \in Calls, sync[c].step \in AfterRow
    PROVE  /\ Synced(c) \in Sync /\ SyncOK(Synced(c))
           /\ Synced(c).event = 0 \/ Synced(c).event = sync[c].event
           /\ Synced(c).step # "create"
<1>1. BillingTypeOK /\ sync[c] \in Sync /\ SyncOK(sync[c])
  BY SyncFacts DEF IInv
<1>2. CASE sync[c].event = 0
  BY <1>1, <1>2, NoSyncOK DEF Synced
<1>3. CASE sync[c].event # 0
  <2> DEFINE y == [NoSync EXCEPT !.step = "mark", !.event = sync[c].event]
  <2>1. sync[c].event \in 0..MaxEvents /\ sync[c].event <= Len(sent)
    BY <1>1 DEF Sync, SyncOK
  <2>2. y \in Sync /\ y.step = "mark" /\ y.event = sync[c].event
    BY <2>1, NoSyncOK DEF Sync, NoSync
  <2>3. SyncOK(y)
    BY <2>1, <2>2, <1>3 DEF SyncOK
  <2> QED
    BY <1>3, <2>2, <2>3 DEF Synced
<1> QED
  BY <1>2, <1>3

LEMMA SyncStepInv ==
    ASSUME IInv, NEW c \in Calls, SyncStep(c)
    PROVE  IInv'
<1>1. sync[c] \in Sync /\ SyncOK(sync[c]) /\ billable \in Seats /\ BillingTypeOK
  BY SyncFacts DEF IInv
<1>2. CASE CountMembers(c)
  <2> DEFINE y == [sync[c] EXCEPT !.step = "seats", !.seats = billable]
  <2>1. y \in Sync /\ y.step = "seats" /\ y.event = sync[c].event
    BY <1>1 DEF Sync
  <2>2. SyncOK(y)
    BY <1>1, <2>1 DEF SyncOK
  <2>3. sync' = [sync EXCEPT ![c] = y] /\ sync[c].step \in AfterRow
    BY <1>2 DEF CountMembers, Become, AtStepOf, AfterRow
  <2>4. UNCHANGED <<billable, account, sent, processed, billingRow, crossed, moves, mishap>>
    BY <1>2 DEF CountMembers
  <2> QED
    BY <2>1, <2>2, <2>3, <2>4, OwnStep
<1>3. CASE UpdateSeatCount(c)
  <2> DEFINE y == [sync[c] EXCEPT !.step = "read"]
  <2>1. y \in Sync /\ y.step = "read" /\ y.event = sync[c].event
    BY <1>1 DEF Sync
  <2>2. SyncOK(y)
    BY <1>1, <2>1 DEF SyncOK
  <2>3. sync' = [sync EXCEPT ![c] = y] /\ sync[c].step \in AfterRow
    BY <1>3 DEF UpdateSeatCount, Become, AtStepOf, AfterRow
  <2>4. UNCHANGED <<billable, account, sent, processed, crossed, moves, mishap>>
    BY <1>3 DEF UpdateSeatCount
  <2>5. billingRow \in BillingRow /\ sync[c].seats \in Seats
    BY <1>1, SyncFacts DEF Sync
  <2>6. billingRow' \in BillingRow /\ billingRow'.of = billingRow.of /\ billingRow'.status = billingRow.status
    BY <1>3, <2>5 DEF UpdateSeatCount, BillingRow
  <2> QED
    BY <2>1, <2>2, <2>3, <2>4, <2>6, SyncFacts, CallInvStep
<1>4. CASE ReadSubscription(c)
  <2>1. sync[c].step \in AfterRow
    BY <1>4 DEF ReadSubscription, AtStepOf, AfterRow
  <2>2. UNCHANGED <<billable, account, sent, processed, billingRow, crossed, moves, mishap>>
    BY <1>4 DEF ReadSubscription
  <2>3. CASE billingRow.of = NoSubscription
    <3>1. sync' = [sync EXCEPT ![c] = Synced(c)]
      BY <1>4, <2>3 DEF ReadSubscription, Become
    <3> QED
      BY <2>1, <2>2, <3>1, SyncedOK, OwnStep
  <2>4. CASE billingRow.of # NoSubscription
    <3> DEFINE y == [sync[c] EXCEPT !.step = "quantity", !.of = billingRow.of]
    <3>1. billingRow.of \in Subscription
      BY <2>4, SyncFacts DEF BillingRow
    <3>2. y \in Sync /\ y.step = "quantity" /\ y.event = sync[c].event /\ y.of \in Subscription
      BY <1>1, <3>1 DEF Sync
    <3>3. SyncOK(y)
      BY <1>1, <3>2 DEF SyncOK
    <3>4. sync' = [sync EXCEPT ![c] = y]
      BY <1>4, <2>4 DEF ReadSubscription, Become
    <3> QED
      BY <2>1, <2>2, <3>2, <3>3, <3>4, OwnStep
  <2> QED
    BY <2>3, <2>4
<1>5. CASE UpdateQuantity(c)
  <2>1. sync[c].step = "quantity" /\ sync[c].step \in AfterRow
    BY <1>5 DEF UpdateQuantity, AtStepOf, AfterRow
  <2>2. UNCHANGED <<billable, sent, processed, billingRow, crossed, moves, mishap>>
    BY <1>5 DEF UpdateQuantity
  <2>3. sync[c].of \in Subscription /\ sync[c].seats \in Seats /\ account \in [Subscription -> Account]
    BY <1>1, <2>1, SyncFacts DEF SyncOK, Sync
  <2>4. CASE /\ account' = [account EXCEPT ![sync[c].of].quantity = sync[c].seats]
             /\ Become(c, Synced(c))
    <3>1. \A s \in Subscription : account[s] \in Account
      BY <2>3
    <3>2. /\ account' \in [Subscription -> Account]
          /\ \A s \in Subscription : account'[s].status = account[s].status
      BY <2>3, <2>4, <3>1 DEF Account
    <3>3. sync' = [sync EXCEPT ![c] = Synced(c)]
      BY <2>4 DEF Become
    <3> QED
      BY <2>1, <2>2, <3>2, <3>3, SyncedOK, SyncFacts, CallInvStep
  <2>5. CASE Become(c, NoSync) /\ UNCHANGED account
    <3>1. sync' = [sync EXCEPT ![c] = NoSync]
      BY <2>5 DEF Become
    <3> QED
      BY <1>1, <2>2, <2>5, <3>1, NoSyncOK, OwnStep
  <2> QED
    BY <1>5, <2>4, <2>5 DEF UpdateQuantity
<1> QED
  BY <1>2, <1>3, <1>4, <1>5 DEF SyncStep

-----------------------------------------------------------------------------
(***************************************************************************)
(* The steps of a delivery.                                                *)
(***************************************************************************)

\* A step that writes the row, takes an event or finishes one keeps the rest of IInv.
LEMMA EventStepInv ==
    ASSUME IInv, NEW c \in BillingCall, NEW y \in Sync, sync' = [sync EXCEPT ![c] = y], SyncOK(y),
           UNCHANGED <<billable, account, sent, moves, mishap>>,
           billingRow' \in BillingRow,
           billingRow'.of # NoSubscription => billingRow'.status \in Status,
           processed' \subseteq 1..Len(sent), crossed' \subseteq Crossing,
           crossed' = {} => InOrderInv' /\ FollowInv'
    PROVE  IInv'
<1>1. BillingTypeOK /\ CallInv /\ AccountInv
  BY DEF IInv
<1>2. /\ sync \in [Calls -> Sync] /\ sync' \in [Calls -> Sync] /\ sync'[c] = y
      /\ \A d \in Calls : d # c => sync'[d] = sync[d]
  BY <1>1 DEF BillingTypeOK, Calls
<1>3. BillingTypeOK'
  BY <1>1, <1>2 DEF BillingTypeOK, Calls
<1>4. CallInv'
  <2>1. \A d \in Calls : SyncOK(sync'[d])
    BY <1>1, <1>2 DEF CallInv
  <2>2. \A d \in Calls : SyncOK(sync[d])'
    BY <2>1 DEF SyncOK
  <2>3. HourlyJob \in Calls /\ HourlyJob # c /\ sync[HourlyJob].event = 0
    BY <1>1, HourlyAssumption DEF CallInv, Calls
  <2> QED
    BY <1>2, <2>2, <2>3 DEF CallInv
<1>5. AccountInv'
  <2>1. \A e : Carried(e)' = Carried(e)
    BY DEF Carried, StatusOf
  <2>2. \A e, s : Last(e, s)' <=> Last(e, s)
    BY DEF Last
  <2> QED
    BY <1>1, <2>1, <2>2 DEF AccountInv
<1>6. RowInv'
  BY DEF RowInv
<1> QED
  BY <1>3, <1>4, <1>5, <1>6 DEF IInv

\* What is applied while the call c has an event at hand was taken before it.
LEMMA AppliedBefore ==
    ASSUME IInv, InOrderInv, NEW c \in BillingCall, sync[c].event # 0,
           NEW x \in 1..Len(sent), Applied(x), x # sync[c].event
    PROVE  x < sync[c].event /\ sync[c].event \in x + 1..Len(sent)
<1>1. c \in Calls
  BY DEF Calls
<1>2. sync[c].event \in 1..Len(sent) /\ Len(sent) \in Nat
  BY <1>1, SyncFacts DEF SyncOK, Sync
<1>3. x \in processed
  BY DEF Applied, InOrderInv
<1>4. x <= sync[c].event
  BY <1>3 DEF InOrderInv
<1> QED
  BY <1>2, <1>4

LEMMA TakeEventInv ==
    ASSUME IInv, NEW c \in BillingCall, NEW e \in 1..Len(sent), TakeEvent(c, e)
    PROVE  IInv'
<1> DEFINE y == [NoSync EXCEPT !.event = e, !.of = sent[e].of,
                               !.step = IF sent[e].type = "checkout" THEN "fetch" ELSE "change"]
<1>1. /\ BillingTypeOK /\ CallInv /\ AccountInv /\ RowInv /\ (crossed = {} => InOrderInv /\ FollowInv)
      /\ c \in Calls
  BY DEF IInv, Calls
<1>2. e \in 0..MaxEvents /\ e # 0 /\ e <= Len(sent) /\ sent[e] \in StripeEvent
  BY <1>1, SeatsAssumption DEF BillingTypeOK
<1>3. y \in Sync /\ y.event = e /\ y.of = sent[e].of /\ y.step \notin AfterRow
      /\ y.step = IF sent[e].type = "checkout" THEN "fetch" ELSE "change"
  BY <1>2, NoSyncOK DEF NoSync, Sync, StripeEvent, AfterRow
<1>4. SyncOK(y)
  BY <1>2, <1>3 DEF SyncOK
<1>5. /\ sync' = [sync EXCEPT ![c] = y] /\ sync[c].step = "off" /\ e \notin processed
      /\ crossed' = crossed \cup CrossedBy(e)
      /\ UNCHANGED <<billable, account, sent, processed, billingRow, moves, mishap>>
  BY DEF TakeEvent, Become, AtStepOf, NotProcessed
<1>6. /\ sync'[c] = y /\ \A d \in Calls : d # c => sync'[d] = sync[d]
  BY <1>1, <1>5 DEF BillingTypeOK, Calls
<1>7. crossed' \subseteq Crossing
  BY <1>1, <1>5 DEF CrossedBy, BillingTypeOK
<1>8. ASSUME crossed' = {} PROVE InOrderInv' /\ FollowInv'
  <2>1. /\ crossed = {} /\ (\A f \in 1..e - 1 : f \in processed)
        /\ \A d \in BillingCall : sync[d].event \in {0, e}
    <3>1. crossed = {} /\ "early" \notin CrossedBy(e) /\ "late" \notin CrossedBy(e)
      BY <1>5, <1>8
    <3> QED
      BY <3>1 DEF CrossedBy, Crossing
  <2>2. InOrderInv /\ FollowInv
    BY <1>1, <2>1
  <2>3. \A d \in BillingCall : sync'[d].event \in {0, e}
    BY <1>3, <1>6, <2>1 DEF Calls
  <2>4. InOrderInv'
    <3>1. \A f \in processed : f <= e
      <4> SUFFICES ASSUME NEW f \in processed, ~(f <= e) PROVE FALSE
        OBVIOUS
      <4>1. f \in 1..Len(sent) /\ e \in 1..f - 1
        BY <1>1, <1>2 DEF BillingTypeOK
      <4> QED
        BY <1>5, <2>2, <4>1 DEF InOrderInv
    <3>2. ASSUME NEW d \in BillingCall, sync'[d].event # 0 PROVE sync'[d].event = e
      BY <2>3, <3>2
    <3> QED
      BY <1>5, <2>1, <2>2, <3>1, <3>2 DEF InOrderInv
  <2>5. ASSUME NEW x \in 1..Len(sent), Applied(x)' PROVE Applied(x)
    <3>1. sync'[c].step \notin AfterRow
      BY <1>3, <1>6
    <3>2. \A d \in BillingCall : d # c => sync'[d] = sync[d]
      BY <1>6 DEF Calls
    <3> QED
      BY <1>5, <2>5, <3>1, <3>2 DEF Applied
  <2>6. RowFollows'
    BY <1>5, <2>2, <2>5 DEF FollowInv, RowFollows, LastOfCheckouts
  <2>7. GrantFollows'
    BY <1>5, <2>2, <2>5 DEF FollowInv, GrantFollows, Last
  <2>8. ReadFollows'
    <3>1. sync'[c].step # "create"
      BY <1>3, <1>6
    <3>2. \A d \in BillingCall : d # c => sync'[d] = sync[d]
      BY <1>6 DEF Calls
    <3> QED
      BY <1>5, <2>2, <3>1, <3>2 DEF FollowInv, ReadFollows, Last
  <2> QED
    BY <2>4, <2>6, <2>7, <2>8 DEF FollowInv
<1> QED
  BY <1>1, <1>3, <1>4, <1>5, <1>7, <1>8, EventStepInv DEF BillingTypeOK, RowInv

LEMMA MarkProcessedInv ==
    ASSUME IInv, NEW c \in BillingCall, MarkProcessed(c)
    PROVE  IInv'
<1>1. /\ BillingTypeOK /\ CallInv /\ RowInv /\ (crossed = {} => InOrderInv /\ FollowInv)
      /\ c \in Calls /\ SyncOK(sync[c]) /\ sync[c] \in Sync
  BY SyncFacts DEF IInv, Calls
<1>2. /\ sync' = [sync EXCEPT ![c] = NoSync] /\ sync[c].step = "mark"
      /\ processed' = processed \cup {sync[c].event}
      /\ UNCHANGED <<billable, account, sent, billingRow, crossed, moves, mishap>>
  BY DEF MarkProcessed, Become, AtStepOf
<1>3. sync'[c] = NoSync /\ \A d \in Calls : d # c => sync'[d] = sync[d]
  BY <1>1, <1>2 DEF BillingTypeOK, Calls
<1>4. sync[c].event # 0 /\ sync[c].event \in 1..Len(sent)
  BY <1>1, <1>2 DEF SyncOK, Sync, BillingTypeOK
<1>5. processed' \subseteq 1..Len(sent)
  BY <1>1, <1>2, <1>4 DEF BillingTypeOK
<1>6. ASSUME crossed' = {} PROVE InOrderInv' /\ FollowInv'
  <2>1. InOrderInv /\ FollowInv
    BY <1>1, <1>2, <1>6
  <2>2. \A d \in BillingCall : sync'[d].event \in {0, sync[c].event} /\ (d # c => sync'[d] = sync[d])
    BY <1>3, <1>4, <2>1, NoSyncOK DEF InOrderInv, Calls
  <2>3. InOrderInv'
    <3> DEFINE e == sync[c].event
    <3>1. \A f \in processed : f <= e /\ f \in 1..Len(sent)
      BY <1>1, <1>4, <2>1 DEF InOrderInv, BillingTypeOK
    <3>2. (\A f \in 1..e - 1 : f \in processed) /\ e \in Nat /\ Len(sent) \in Nat
      BY <1>1, <1>4, <2>1 DEF InOrderInv, BillingTypeOK
    <3>3. \A x \in processed' : x <= e /\ \A f \in 1..x - 1 : f \in processed'
      BY <1>2, <2>1, <3>1, <3>2 DEF InOrderInv
    <3>4. ASSUME NEW d \in BillingCall, sync'[d].event # 0 PROVE sync'[d].event = e
      BY <2>2, <3>4
    <3> HIDE DEF e
    <3> QED
      BY <1>2, <3>2, <3>3, <3>4 DEF InOrderInv
  <2>4. ASSUME NEW x \in 1..Len(sent), Applied(x)' PROVE Applied(x)
    <3>1. sync'[c].step \notin AfterRow
      BY <1>3, NoSyncOK DEF AfterRow
    <3>2. x \in processed \cup {sync[c].event} \/ \E d \in BillingCall : sync[d].event = x /\ sync[d].step \in AfterRow
      BY <1>2, <2>2, <2>4, <3>1 DEF Applied
    <3> QED
      BY <1>2, <3>2 DEF Applied, AfterRow
  <2>5. RowFollows'
    BY <1>2, <2>1, <2>4 DEF FollowInv, RowFollows, LastOfCheckouts
  <2>6. GrantFollows'
    BY <1>2, <2>1, <2>4 DEF FollowInv, GrantFollows, Last
  <2>7. ReadFollows'
    <3>1. sync'[c].step # "create"
      BY <1>3, NoSyncOK
    <3> QED
      BY <1>2, <2>1, <2>2, <3>1 DEF FollowInv, ReadFollows, Last
  <2> QED
    BY <2>3, <2>5, <2>6, <2>7 DEF FollowInv
<1> QED
  BY <1>1, <1>2, <1>5, <1>6, NoSyncOK, EventStepInv DEF BillingTypeOK, RowInv

LEMMA ChangeRowInv ==
    ASSUME IInv, NEW c \in BillingCall, ChangeRow(c)
    PROVE  IInv'
<1> DEFINE y == [sync[c] EXCEPT !.step = "mark"]
<1> DEFINE e == sync[c].event
<1>1. /\ BillingTypeOK /\ CallInv /\ AccountInv /\ RowInv /\ (crossed = {} => InOrderInv /\ FollowInv)
      /\ c \in Calls /\ SyncOK(sync[c]) /\ sync[c] \in Sync /\ billingRow \in BillingRow
  BY SyncFacts DEF IInv, Calls
<1>2. /\ sync' = [sync EXCEPT ![c] = y] /\ sync[c].step = "change"
      /\ billingRow' = IF Tracks(sync[c].of)
                       THEN [billingRow EXCEPT !.status = StatusOf(e)] ELSE billingRow
      /\ UNCHANGED <<billable, account, sent, processed, crossed, moves, mishap>>
  BY DEF ChangeRow, Become, AtStepOf
<1>3. /\ sync'[c] = y /\ (\A d \in Calls : d # c => sync'[d] = sync[d])
      /\ y \in Sync /\ y.step = "mark" /\ y.event = e
  BY <1>1, <1>2 DEF BillingTypeOK, Calls, Sync
<1>4. /\ e # 0 /\ e \in 1..Len(sent) /\ sent[e] \in StripeEvent
      /\ sent[e].type # "checkout" /\ sync[c].of = sent[e].of
  BY <1>1, <1>2 DEF SyncOK, Sync, BillingTypeOK
<1>5. SyncOK(y)
  BY <1>1, <1>3, <1>4 DEF SyncOK
<1>6. StatusOf(e) \in Status /\ Carried(e) = StatusOf(e)
  BY <1>4 DEF StatusOf, StripeEvent, Status, Live, Carried
<1>7. billingRow' \in BillingRow /\ billingRow'.of = billingRow.of
  BY <1>1, <1>2, <1>6 DEF BillingRow
<1>8. billingRow'.of # NoSubscription => billingRow'.status \in Status
  BY <1>1, <1>2, <1>6 DEF BillingRow, RowInv
<1>9. ASSUME crossed' = {} PROVE InOrderInv' /\ FollowInv'
  <2>1. InOrderInv /\ FollowInv
    BY <1>1, <1>2, <1>9
  <2>2. \A d \in BillingCall : sync[d].event \in {0, e}
    BY <1>4, <2>1 DEF InOrderInv
  <2>3. \A d \in BillingCall : sync'[d].event = sync[d].event
    BY <1>3 DEF Calls
  <2>4. InOrderInv'
    BY <1>2, <2>1, <2>3 DEF InOrderInv
  <2>5. ASSUME NEW x \in 1..Len(sent), Applied(x)', x # e PROVE Applied(x)
    <3>1. x # 0
      BY <1>1 DEF BillingTypeOK
    <3>2. ASSUME NEW d \in BillingCall, sync'[d].event = x PROVE FALSE
      BY <2>2, <2>3, <2>5, <3>1, <3>2
    <3> QED
      BY <1>2, <2>5, <3>2 DEF Applied
  <2>6. RowFollows'
    <3> SUFFICES ASSUME NEW x \in 1..Len(sent), LastOfCheckouts(x)', Applied(x)'
                 PROVE  billingRow'.of = sent[x].of
      BY <1>2 DEF RowFollows
    <3>1. LastOfCheckouts(x) /\ x # e
      BY <1>2, <1>4 DEF LastOfCheckouts
    <3> QED
      BY <1>7, <2>1, <2>5, <3>1 DEF FollowInv, RowFollows
  <2>7. GrantFollows'
    <3> SUFFICES ASSUME NEW s \in Subscription, NEW x \in 1..Len(sent),
                        billingRow'.of = s, Last(x, s)', Applied(x)'
                 PROVE  billingRow'.status \in Granting <=> account[s].status \in Granting
      BY <1>2 DEF GrantFollows
    <3>1. Last(x, s) /\ billingRow.of = s
      BY <1>2, <1>7 DEF Last
    <3>2. CASE x = e
      <4>1. sent[e].of = s /\ billingRow' = [billingRow EXCEPT !.status = StatusOf(e)]
        BY <1>2, <1>4, <3>1, <3>2 DEF Last, Tracks
      <4>2. billingRow'.status = StatusOf(e)
        BY <1>1, <4>1 DEF BillingRow
      <4>3. account[s].status \in Status
        BY <1>1, <1>4, <4>1 DEF AccountInv
      <4>4. PICK z \in 1..Len(sent) :
               Last(z, s) /\ (Carried(z) \in Granting <=> account[s].status \in Granting)
        BY <1>1, <4>3 DEF AccountInv
      <4>5. z = e
        <5>1. Len(sent) \in Nat
          BY <1>1 DEF BillingTypeOK
        <5>2. z \notin e + 1..Len(sent) /\ e \notin z + 1..Len(sent)
          BY <3>1, <3>2, <4>1, <4>4 DEF Last
        <5> QED
          BY <1>4, <5>1, <5>2
      <4> QED
        BY <1>6, <4>2, <4>4, <4>5
    <3>3. CASE x # e
      <4>1. Applied(x)
        BY <2>5, <3>3
      <4>2. e \in x + 1..Len(sent)
        BY <1>4, <2>1, <3>3, <4>1, AppliedBefore
      <4>3. sent[e].of # s
        BY <3>1, <4>2 DEF Last
      <4>4. billingRow' = billingRow
        BY <1>2, <1>4, <3>1, <4>3 DEF Tracks
      <4> QED
        BY <2>1, <3>1, <4>1, <4>4 DEF FollowInv, GrantFollows
    <3> QED
      BY <3>2, <3>3
  <2>8. \A d \in BillingCall : sync'[d].step # "create"
    <3>1. \A d \in BillingCall : SyncOK(sync[d]) /\ d \in Calls
      BY <1>1 DEF CallInv, Calls
    <3>2. sync'[c].step # "create"
      BY <1>3
    <3>3. ASSUME NEW d \in BillingCall, d # c PROVE sync'[d].step # "create"
      BY <1>3, <1>4, <2>2, <3>1, <3>3 DEF SyncOK
    <3> QED
      BY <3>2, <3>3
  <2> QED
    BY <2>4, <2>6, <2>7, <2>8 DEF FollowInv, ReadFollows
<1> QED
  BY <1>1, <1>2, <1>3, <1>5, <1>7, <1>8, <1>9, EventStepInv DEF BillingTypeOK

LEMMA CreateRowInv ==
    ASSUME IInv, NEW c \in BillingCall, CreateRow(c)
    PROVE  IInv'
<1> DEFINE y == [sync[c] EXCEPT !.step = "count", !.of = NoSubscription, !.status = "none"]
<1> DEFINE e == sync[c].event
<1>1. /\ BillingTypeOK /\ CallInv /\ AccountInv /\ RowInv /\ (crossed = {} => InOrderInv /\ FollowInv)
      /\ c \in Calls /\ SyncOK(sync[c]) /\ sync[c] \in Sync
  BY SyncFacts DEF IInv, Calls
<1>2. /\ sync' = [sync EXCEPT ![c] = y] /\ sync[c].step = "create"
      /\ billingRow' = [of |-> sync[c].of, status |-> sync[c].status, seats |-> sync[c].seats]
      /\ UNCHANGED <<billable, account, sent, processed, crossed, moves, mishap>>
  BY DEF CreateRow, Become, AtStepOf
<1>3. /\ sync'[c] = y /\ (\A d \in Calls : d # c => sync'[d] = sync[d])
      /\ y \in Sync /\ y.step = "count" /\ y.event = e
  BY <1>1, <1>2 DEF BillingTypeOK, Calls, Sync
<1>4. /\ e # 0 /\ e \in 1..Len(sent) /\ sent[e] \in StripeEvent
      /\ sent[e].type = "checkout" /\ sync[c].of = sent[e].of /\ sync[c].status \in Status
  BY <1>1, <1>2 DEF SyncOK, Sync, BillingTypeOK
<1>5. SyncOK(y)
  BY <1>1, <1>3 DEF SyncOK
<1>6. /\ billingRow' \in BillingRow /\ billingRow'.of = sent[e].of
      /\ billingRow'.status = sync[c].status
  BY <1>1, <1>2, <1>4 DEF BillingRow, Sync
<1>7. ASSUME crossed' = {} PROVE InOrderInv' /\ FollowInv'
  <2>1. InOrderInv /\ FollowInv
    BY <1>1, <1>2, <1>7
  <2>2. \A d \in BillingCall : sync[d].event \in {0, e}
    BY <1>4, <2>1 DEF InOrderInv
  <2>3. \A d \in BillingCall : sync'[d].event = sync[d].event
    BY <1>3 DEF Calls
  <2>4. InOrderInv'
    BY <1>2, <2>1, <2>3 DEF InOrderInv
  <2>5. ASSUME NEW x \in 1..Len(sent), Applied(x)', x # e PROVE e \in x + 1..Len(sent)
    <3>1. x # 0
      BY <1>1 DEF BillingTypeOK
    <3>2. ASSUME NEW d \in BillingCall, sync'[d].event = x PROVE FALSE
      BY <2>2, <2>3, <2>5, <3>1, <3>2
    <3>3. Applied(x)
      BY <1>2, <2>5, <3>2 DEF Applied
    <3> QED
      BY <1>4, <2>1, <2>5, <3>3, AppliedBefore
  <2>6. RowFollows'
    <3> SUFFICES ASSUME NEW x \in 1..Len(sent), LastOfCheckouts(x)', Applied(x)'
                 PROVE  billingRow'.of = sent[x].of
      BY <1>2 DEF RowFollows
    <3>1. \A f \in x + 1..Len(sent) : sent[f].type # "checkout"
      BY <1>2 DEF LastOfCheckouts
    <3>2. x = e
      BY <1>4, <2>5, <3>1
    <3> QED
      BY <1>6, <3>2
  <2>7. GrantFollows'
    <3> SUFFICES ASSUME NEW s \in Subscription, NEW x \in 1..Len(sent),
                        billingRow'.of = s, Last(x, s)', Applied(x)'
                 PROVE  billingRow'.status \in Granting <=> account[s].status \in Granting
      BY <1>2 DEF GrantFollows
    <3>1. Last(x, s) /\ sent[e].of = s
      BY <1>2, <1>6 DEF Last
    <3>2. x = e
      BY <1>4, <2>5, <3>1 DEF Last
    <3>3. sync[c].status \in Granting <=> account[s].status \in Granting
      BY <1>2, <1>4, <2>1, <3>1, <3>2 DEF FollowInv, ReadFollows
    <3> QED
      BY <1>6, <3>3
  <2>8. ReadFollows'
    <3>1. sync'[c].step # "create" /\ \A d \in BillingCall : d # c => sync'[d] = sync[d]
      BY <1>3 DEF Calls
    <3> QED
      BY <1>2, <2>1, <3>1 DEF FollowInv, ReadFollows, Last
  <2> QED
    BY <2>4, <2>6, <2>7, <2>8 DEF FollowInv
<1> QED
  BY <1>1, <1>2, <1>3, <1>4, <1>5, <1>6, <1>7, EventStepInv DEF BillingTypeOK

-----------------------------------------------------------------------------
LEMMA StripeInv ==
    ASSUME IInv, NEW s \in Subscription,
           CompleteCheckout(s) \/ ChangeStatus(s) \/ PayTrialInvoice(s) \/ CancelSubscription(s)
    PROVE  IInv'
<1>1. BillingTypeOK
  BY DEF IInv
<1>0. PICK n : n = Len(sent) + 1
  OBVIOUS
<1>2. ASSUME NEW v \in StripeEvent, v.of = s, sent' = Append(sent, v)
      PROVE  /\ Len(sent) \in Nat /\ sent'[n] = v
             /\ Carried(n)' = IF v.type = "checkout" THEN v.status ELSE
                              CASE v.type = "updated" -> v.status
                                [] v.type = "deleted" -> "canceled"
                                [] v.type = "paid" -> "active"
                                [] v.type = "unpaid" -> "past_due"
  <2>1. sent'[n] = v /\ Len(sent) \in Nat
    BY <1>1, <1>2, <1>0 DEF BillingTypeOK
  <2> QED
    BY <2>1 DEF Carried, StatusOf
<1>3. ASSUME NEW v \in StripeEvent, v.of = s, sent' = Append(sent, v), Len(sent) < MaxEvents,
             NEW status \in Status, account' = [account EXCEPT ![s].status = status],
             Carried(n)' \in Granting <=> status \in Granting,
             UNCHANGED <<billable, processed, billingRow, sync, crossed, moves, mishap>>
      PROVE  IInv'
  <2>1. n = Len(sent) + 1 /\ n <= MaxEvents
    BY <1>1, <1>3, <1>0, SeatsAssumption DEF BillingTypeOK
  <2>2. /\ account' \in [Subscription -> Account] /\ account'[s].status = status
        /\ \A t \in Subscription : t # s => account'[t] = account[t]
    BY <1>1, <1>3 DEF BillingTypeOK, Account
  <2> QED
    BY <1>3, <2>1, <2>2, AppendInv
<1>4. CASE CompleteCheckout(s)
  <2>1. PICK status \in Granting :
           /\ account' = [account EXCEPT ![s].status = status]
           /\ sent' = Append(sent, Event("checkout", s, status))
    BY <1>4 DEF CompleteCheckout
  <2> DEFINE v == Event("checkout", s, status)
  <2>2. status \in Status /\ v \in StripeEvent /\ v.of = s /\ v.type = "checkout" /\ v.status = status
    BY DEF Event, StripeEvent, Status, Live, Granting
  <2>3. Carried(n)' = status
    BY <1>2, <2>1, <2>2
  <2>4. /\ Len(sent) < MaxEvents
        /\ UNCHANGED <<billable, processed, billingRow, sync, crossed, moves, mishap>>
    BY <1>4 DEF CompleteCheckout
  <2> QED
    BY <1>3, <2>1, <2>2, <2>3, <2>4
<1>5. CASE ChangeStatus(s)
  <2> DEFINE type(status) == IF account[s].status = "trialing" THEN "updated"
                             ELSE IF status = "active" THEN "paid" ELSE "unpaid"
  <2>1. PICK status \in {"active", "past_due"} :
           /\ account' = [account EXCEPT ![s].status = status]
           /\ sent' = Append(sent, Event(type(status), s, status))
    BY <1>5 DEF ChangeStatus
  <2> DEFINE v == Event(type(status), s, status)
  <2>2. /\ status \in Status /\ v \in StripeEvent /\ v.of = s /\ v.status = status
        /\ v.type = "updated" \/ v.type = (IF status = "active" THEN "paid" ELSE "unpaid")
    BY DEF Event, StripeEvent, Status, Live
  <2>3. Carried(n)' = status
    BY <1>2, <2>1, <2>2
  <2>4. /\ Len(sent) < MaxEvents
        /\ UNCHANGED <<billable, processed, billingRow, sync, crossed, moves, mishap>>
    BY <1>5 DEF ChangeStatus
  <2> QED
    BY <1>3, <2>1, <2>2, <2>3, <2>4
<1>6. CASE PayTrialInvoice(s)
  <2> DEFINE v == Event("paid", s, "trialing")
  <2>1. /\ account[s].status = "trialing" /\ Len(sent) < MaxEvents /\ sent' = Append(sent, v)
        /\ UNCHANGED <<billable, account, processed, billingRow, sync, crossed, moves, mishap>>
    BY <1>6 DEF PayTrialInvoice
  <2>2. v \in StripeEvent /\ v.of = s /\ v.type = "paid"
    BY DEF Event, StripeEvent, Status, Live
  <2>3. Carried(n)' = "active"
    BY <1>2, <2>1, <2>2
  <2>4. account' = [account EXCEPT ![s].status = "trialing"] /\ "trialing" \in Status
    BY <1>1, <2>1 DEF BillingTypeOK, Account, Status, Live
  <2>5. Carried(n)' \in Granting <=> "trialing" \in Granting
    BY <2>3 DEF Granting
  <2> QED
    BY <1>3, <2>1, <2>2, <2>4, <2>5
<1>7. CASE CancelSubscription(s)
  <2> DEFINE v == Event("deleted", s, "canceled")
  <2>1. /\ Len(sent) < MaxEvents /\ sent' = Append(sent, v)
        /\ account' = [account EXCEPT ![s].status = "canceled"]
        /\ UNCHANGED <<billable, processed, billingRow, sync, crossed, moves, mishap>>
    BY <1>7 DEF CancelSubscription
  <2>2. v \in StripeEvent /\ v.of = s /\ v.type = "deleted" /\ "canceled" \in Status
    BY DEF Event, StripeEvent, Status
  <2>3. Carried(n)' = "canceled"
    BY <1>2, <2>1, <2>2
  <2> QED
    BY <1>3, <2>1, <2>2, <2>3
<1> QED
  BY <1>4, <1>5, <1>6, <1>7

LEMMA OtherCallInv ==
    ASSUME IInv, NEW c \in Calls,
           \/ MoveMember(c) \/ FetchSubscription(c) \/ BillingFails(c)
           \/ c = HourlyJob /\ StartHourly
    PROVE  IInv'
<1> DEFINE count == [NoSync EXCEPT !.step = "count"]
<1>1. BillingTypeOK /\ SyncOK(sync[c]) /\ sync[c] \in Sync
  BY SyncFacts DEF IInv
<1>2. /\ NoSync \in Sync /\ SyncOK(NoSync) /\ NoSync.event = 0 /\ NoSync.step = "off"
      /\ count \in Sync /\ SyncOK(count) /\ count.event = 0 /\ count.step = "count"
  BY <1>1, NoSyncOK DEF NoSync
<1>3. CASE MoveMember(c)
  <2>1. /\ sync' = [sync EXCEPT ![c] = count] /\ moves < MaxMoves /\ moves' = moves + 1
        /\ billable' \in 1..MaxSeats
        /\ UNCHANGED <<account, sent, processed, billingRow, crossed, mishap>>
    BY <1>3 DEF MoveMember, Become
  <2>2. moves' \in 0..MaxMoves
    BY <2>1, SyncFacts, TroubleAssumption
  <2> HIDE DEF count
  <2> QED
    BY <1>2, <2>1, <2>2, SyncFacts, CallInvStep
<1>4. CASE c = HourlyJob /\ StartHourly
  <2>1. /\ sync' = [sync EXCEPT ![c] = count]
        /\ UNCHANGED <<billable, account, sent, processed, billingRow, crossed, moves, mishap>>
    BY <1>4 DEF StartHourly, Become
  <2> HIDE DEF count
  <2> QED
    BY <1>2, <2>1, OwnStep
<1>5. CASE BillingFails(c)
  <2>1. /\ sync' = [sync EXCEPT ![c] = NoSync] /\ mishap < MaxBillingTrouble /\ mishap' = mishap + 1
        /\ UNCHANGED <<billable, account, sent, processed, billingRow, crossed, moves>>
    BY <1>5 DEF BillingFails, Become
  <2>2. mishap' \in 0..MaxBillingTrouble
    BY <2>1, SyncFacts, TroubleAssumption
  <2> QED
    BY <1>2, <2>1, <2>2, SyncFacts, CallInvStep
<1>6. CASE FetchSubscription(c)
  <2> DEFINE s == sync[c].of
  <2> DEFINE y == [sync[c] EXCEPT !.step = "create", !.status = account[s].status,
                                  !.seats = account[s].quantity]
  <2>1. /\ sync[c].step = "fetch" /\ sync' = [sync EXCEPT ![c] = y]
        /\ UNCHANGED <<billable, account, sent, processed, billingRow, crossed, moves, mishap>>
    BY <1>6 DEF FetchSubscription, Become, AtStepOf
  <2>2. /\ sync[c].event \in 1..Len(sent) /\ s = sent[sync[c].event].of
        /\ sent[sync[c].event].type = "checkout" /\ sync[c].event # 0
    BY <1>1, <2>1 DEF SyncOK, Sync, BillingTypeOK
  <2>3. s \in Subscription
    <3>1. sent[sync[c].event] \in StripeEvent
      BY <1>1, <2>2 DEF BillingTypeOK
    <3> QED
      BY <2>2, <3>1 DEF StripeEvent
  <2>4. account[s].status \in Status /\ account[s].quantity \in Seats
    <3>1. account[s] \in Account
      BY <1>1, <2>3 DEF BillingTypeOK
    <3>2. account[s].status \in Status
      BY <2>2, <2>3 DEF IInv, AccountInv
    <3> QED
      BY <3>1, <3>2 DEF Account
  <2>5. /\ y \in Sync /\ y.step = "create" /\ y.event = sync[c].event /\ y.of = s
        /\ y.status = account[s].status
    BY <1>1, <2>4 DEF Sync
  <2>6. SyncOK(y)
    BY <1>1, <2>2, <2>4, <2>5 DEF SyncOK
  <2>7. y.step \notin AfterRow
    BY <2>5 DEF AfterRow
  <2> HIDE DEF y
  <2> QED
    BY <2>1, <2>5, <2>6, <2>7, OwnStep
<1> QED
  BY <1>3, <1>4, <1>5, <1>6

LEMMA NextInv == IInv /\ [BillingNext]_billingVars => IInv'
<1> SUFFICES ASSUME IInv, [BillingNext]_billingVars PROVE IInv'
  OBVIOUS
<1>1. billingRow \in BillingRow /\ account \in [Subscription -> Account] /\ billable \in Seats
      /\ RowInv
  BY SyncFacts DEF IInv, Calls
<1>2. CASE StartTrial
  <2>1. PICK n \in billable..MaxSeats :
           billingRow' = [billingRow EXCEPT !.status = "trialing", !.seats = n]
    BY <1>2 DEF StartTrial
  <2>2. /\ billingRow.status = "none" /\ n \in Seats
        /\ UNCHANGED <<billable, account, sent, processed, sync, crossed, moves, mishap>>
    BY <1>1, <1>2, SeatsAssumption DEF StartTrial, Seats
  <2>3. billingRow' \in BillingRow /\ billingRow'.of = billingRow.of
    BY <1>1, <2>1, <2>2 DEF BillingRow, Status, Live
  <2>4. billingRow.of = NoSubscription
    BY <1>1, <2>2 DEF RowInv, Status, Live
  <2> QED
    BY <1>1, <2>2, <2>3, <2>4, BeforeStripeInv
<1>3. ASSUME NEW s \in Subscription, OpenCheckout(s) PROVE IInv'
  <2>1. PICK n \in billable..MaxSeats :
           account' = [account EXCEPT ![s] = [status |-> "open", quantity |-> n]]
    BY <1>3 DEF OpenCheckout
  <2>2. /\ account[s].status = "none"
        /\ billingRow' = [billingRow EXCEPT !.status = IF @ = "none" THEN "incomplete" ELSE @]
        /\ UNCHANGED <<billable, sent, processed, sync, crossed, moves, mishap>>
    BY <1>3 DEF OpenCheckout
  <2>3. n \in Seats /\ [status |-> "open", quantity |-> n] \in Account
    BY <1>1, SeatsAssumption DEF Seats, Account
  <2>4. account' \in [Subscription -> Account]
    BY <1>1, <2>1, <2>3
  <2>5. \A t \in Subscription : \/ account'[t].status = account[t].status
                                \/ account'[t].status \notin Status /\ account[t].status \notin Status
    <3>1. "none" \notin Status /\ "open" \notin Status
      BY DEF Status, Live
    <3>2. account'[s].status = "open" /\ \A t \in Subscription : t # s => account'[t] = account[t]
      BY <1>1, <2>1
    <3> QED
      BY <2>2, <3>1, <3>2
  <2>6. /\ billingRow' \in BillingRow /\ billingRow'.of = billingRow.of
        /\ billingRow.status # "none" => billingRow'.status = billingRow.status
    BY <1>1, <2>2 DEF BillingRow
  <2>7. billingRow.of # NoSubscription => billingRow.status # "none"
    BY <1>1 DEF RowInv, Status, Live
  <2> QED
    BY <2>2, <2>4, <2>5, <2>6, <2>7, BeforeStripeInv
<1>4. ASSUME NEW s \in Subscription,
             CompleteCheckout(s) \/ ChangeStatus(s) \/ PayTrialInvoice(s) \/ CancelSubscription(s)
      PROVE  IInv'
  BY <1>4, StripeInv
<1>5. ASSUME NEW c \in BillingCall, NEW e \in 1..Len(sent), TakeEvent(c, e) PROVE IInv'
  BY <1>5, TakeEventInv
<1>6. ASSUME NEW c \in BillingCall, ChangeRow(c) \/ CreateRow(c) \/ MarkProcessed(c) PROVE IInv'
  BY <1>6, ChangeRowInv, CreateRowInv, MarkProcessedInv
<1>7. ASSUME NEW c \in Calls, SyncStep(c) PROVE IInv'
  BY <1>7, SyncStepInv
<1>8. ASSUME NEW c \in Calls, \/ MoveMember(c) \/ FetchSubscription(c) \/ BillingFails(c)
                              \/ c = HourlyJob /\ StartHourly
      PROVE  IInv'
  BY <1>8, OtherCallInv
<1>9. CASE UNCHANGED billingVars
  <2>1. billingRow'.of = billingRow.of /\ billingRow'.status = billingRow.status
    BY <1>9 DEF billingVars
  <2> QED
    BY <1>1, <1>9, <2>1, BeforeStripeInv DEF billingVars
<1>10. BillingCall \subseteq Calls /\ HourlyJob \in Calls
  BY DEF Calls
<1> QED
  BY <1>2, <1>3, <1>4, <1>5, <1>6, <1>7, <1>8, <1>9, <1>10 DEF BillingNext, Reconcile

\* Every variable of Billing has its type, for any numbers of subscriptions and calls.
THEOREM BillingTypeCorrect == BillingSpec => []BillingTypeOK
<1>1. IInv => BillingTypeOK
  BY DEF IInv
<1> QED
  BY <1>1, InitInv, NextInv, PTL DEF BillingSpec

\* When all events are processed, none was taken before the earlier ones were and none
\* while a delivery of another was still at work, the organization has access exactly if
\* the subscription of its last checkout grants it (BillingEventsService): however often
\* an event was delivered, also next to itself, and whatever failed on the way.
THEOREM AccessFollowsStripeCorrect == BillingSpec => []AccessFollowsStripe
<1>1. IInv => AccessFollowsStripe
  <2> SUFFICES ASSUME IInv, crossed = {}, processed = 1..Len(sent),
                      NEW s \in Subscription, LastCheckout(s)
               PROVE  /\ billingRow.of = s
                      /\ billingRow.status \in Granting <=> account[s].status \in Granting
    BY DEF AccessFollowsStripe, AccessAsGranted
  <2>1. AccountInv /\ FollowInv
    BY DEF IInv
  <2>2. \A e \in 1..Len(sent) : Applied(e)
    BY DEF Applied
  <2>3. PICK e \in 1..Len(sent) : sent[e].of = s /\ LastOfCheckouts(e)
    BY DEF LastCheckout, LastOfCheckouts
  <2>4. billingRow.of = s
    BY <2>1, <2>2, <2>3 DEF FollowInv, RowFollows
  <2>5. account[s].status \in Status
    BY <2>1, <2>3 DEF AccountInv
  <2>6. PICK z \in 1..Len(sent) : Last(z, s)
    BY <2>1, <2>5 DEF AccountInv
  <2> QED
    BY <2>1, <2>2, <2>4, <2>6 DEF FollowInv, GrantFollows
<1> QED
  BY <1>1, InitInv, NextInv, PTL DEF BillingSpec

-----------------------------------------------------------------------------
(***************************************************************************)
(* The components side by side.  Those a behaviour did not choose stand    *)
(* still, and a bound only takes steps away: each part's variables start   *)
(* and step as that part's own specification says, so that what its        *)
(* invariant keeps is kept here too.                                       *)
(***************************************************************************)

\* The inductive invariants of the seven.
SideInv ==
    /\ which \in Component
    /\ ChainTypeOK /\ ClockInv /\ WebhookTypeOK /\ ImportTypeOK
    /\ InviteTypeOK /\ ShiftTypeOK /\ IInv

\* The variables of every part begin as that part does.
LEMMA SideStarts == SideInit => SideInv
BY ChainStartTyped, ClockStarts, WebhookStartTyped, ImportStartTyped, InviteStartTyped,
   ShiftStartTyped, InitInv
   DEF SideInit, SideInv

\* Whatever component a behaviour is of, its step is a step or a stutter of each part.
LEMMA PartsStep ==
    ASSUME [SideNext]_sideVars
    PROVE  /\ [ChainNext]_chainVars /\ [ClockNext]_clockVars
           /\ [WebhookNext]_webhookVars /\ [ImportNext]_importVars
           /\ [InviteNext]_inviteVars /\ [ShiftNext]_shiftVars
           /\ [BillingNext]_billingVars /\ UNCHANGED which
<1>1. CASE UNCHANGED sideVars
  BY <1>1 DEF sideVars
<1>2. CASE SideNext
  BY <1>2 DEF SideNext, Rest
<1>3. QED
  BY <1>1, <1>2

\* A step of one of them leaves the invariants of all.
LEMMA SideSteps == ASSUME SideInv, [SideNext]_sideVars PROVE SideInv'
<1>1. ChainTypeOK' /\ ClockInv' /\ WebhookTypeOK' /\ ImportTypeOK'
  BY PartsStep, ChainTypeStep, ClockSteps, WebhookTypeStep, ImportTypeStep DEF SideInv
<1>2. InviteTypeOK' /\ ShiftTypeOK' /\ IInv'
  BY PartsStep, InviteTypeStep, ShiftTypeStep, NextInv DEF SideInv
<1>3. QED
  BY <1>1, <1>2, PartsStep DEF SideInv

\* Whichever component a behaviour is one of, every row, job and call of it has its type,
\* for any numbers of calls, workers, users and subscriptions.
THEOREM SideTypeCorrect == SideSpec => []SideTypeOK
<1>1. SideInv => SideTypeOK
  BY DEF SideInv, SideTypeOK, ClockInv, IInv
<1>2. QED
  BY <1>1, SideStarts, SideSteps, PTL DEF SideSpec
=============================================================================
