------------------------ MODULE MembersAndShiftsProofs ------------------------
(***************************************************************************)
(* What holds of an invite code for any number of users, of calls at a time *)
(* and of admins and for any limit, and of a shift and its requests for any *)
(* employees and calls.                                                    *)
(***************************************************************************)
EXTENDS MembersAndShifts, FiniteSetTheorems, TLAPS

-----------------------------------------------------------------------------
(***************************************************************************)
(* Invite codes and members.                                               *)
(***************************************************************************)


-----------------------------------------------------------------------------
(***************************************************************************)
(* Type correctness.                                                       *)
(***************************************************************************)

\* A call that has begun is a record of the fields of its kind.
LEMMA BusyCalls ==
    ASSUME InviteTypeOK
    PROVE  /\ \A a \in JoinCall : joinCall[a].step # "idle" => joinCall[a] \in Joining
           /\ \A v \in Review : review[v].step # "idle" =>
                 review[v] \in Reviewing /\ review[v].m \in DOMAIN joined
BY DEF InviteTypeOK, NoInviteCall

\* A member row has its fields.
LEMMA RowTyped ==
    ASSUME InviteTypeOK, NEW m \in DOMAIN joined
    PROVE  /\ joined[m] \in Membership
           /\ joined[m].user \in Joiner /\ joined[m].status \in {"pending", "approved"}
<1>1. joined \in Seq(Membership)
  BY DEF InviteTypeOK
<1>2. joined[m] \in Membership
  BY <1>1
<1>3. QED
  BY <1>2 DEF Membership

\* Going on to the next step keeps the call a call, and so does ending it.
LEMMA JoinTyped ==
    ASSUME InviteTypeOK, NEW a \in JoinCall
    PROVE  /\ \A step \in {"clear", "find", "member", "redeem", "employee", "commit"} :
                 joinCall[a].step # "idle" /\ JoinGoes(a, step) =>
                     joinCall' \in [JoinCall -> {NoInviteCall} \cup Joining]
           /\ JoinEnds(a) => joinCall' \in [JoinCall -> {NoInviteCall} \cup Joining]
<1>1. ASSUME NEW step \in {"clear", "find", "member", "redeem", "employee", "commit"},
             joinCall[a].step # "idle", JoinGoes(a, step)
      PROVE  joinCall' \in [JoinCall -> {NoInviteCall} \cup Joining]
  <2>1. joinCall[a] \in Joining
    BY <1>1, BusyCalls
  <2>2. [joinCall[a] EXCEPT !.step = step] \in Joining
    BY <2>1 DEF Joining
  <2>3. joinCall' = [joinCall EXCEPT ![a] = [joinCall[a] EXCEPT !.step = step]]
    BY <1>1 DEF JoinGoes
  <2>4. QED
    BY <2>2, <2>3 DEF InviteTypeOK
<1>2. ASSUME JoinEnds(a)
      PROVE  joinCall' \in [JoinCall -> {NoInviteCall} \cup Joining]
  BY <1>2 DEF JoinEnds, InviteTypeOK
<1>3. QED
  BY <1>1, <1>2

\* The same for a review, which stays with its member.
LEMMA ReviewTyped ==
    ASSUME InviteTypeOK, NEW v \in Review, DOMAIN joined' = DOMAIN joined
    PROVE  /\ \A step \in {"check", "insert", "employee", "hire", "remove"} :
                 review[v].step # "idle" /\ ReviewGoes(v, step) =>
                     /\ review' \in [Review -> {NoInviteCall} \cup Reviewing]
                     /\ \A w \in Review : review'[w].step # "idle" => review'[w].m \in DOMAIN joined'
           /\ ReviewEnds(v) =>
                 /\ review' \in [Review -> {NoInviteCall} \cup Reviewing]
                 /\ \A w \in Review : review'[w].step # "idle" => review'[w].m \in DOMAIN joined'
<1>1. ASSUME NEW step \in {"check", "insert", "employee", "hire", "remove"},
             review[v].step # "idle", ReviewGoes(v, step)
      PROVE  /\ review' \in [Review -> {NoInviteCall} \cup Reviewing]
             /\ \A w \in Review : review'[w].step # "idle" => review'[w].m \in DOMAIN joined'
  <2>1. review[v] \in Reviewing /\ review[v].m \in DOMAIN joined
    BY <1>1, BusyCalls
  <2> DEFINE next == [review[v] EXCEPT !.step = step]
  <2>2. next \in Reviewing /\ next.m = review[v].m
    BY <2>1 DEF Reviewing
  <2>3. review' = [review EXCEPT ![v] = next]
    BY <1>1 DEF ReviewGoes
  <2> HIDE DEF next
  <2>4. QED
    BY <2>1, <2>2, <2>3 DEF InviteTypeOK
<1>2. ASSUME ReviewEnds(v)
      PROVE  /\ review' \in [Review -> {NoInviteCall} \cup Reviewing]
             /\ \A w \in Review : review'[w].step # "idle" => review'[w].m \in DOMAIN joined'
  BY <1>2 DEF ReviewEnds, InviteTypeOK, NoInviteCall
<1>3. QED
  BY <1>1, <1>2

\* The greater of two limits is one of them.
LEMMA MaxOfTwo ==
    ASSUME NEW x \in Int, NEW y \in Int
    PROVE  Max({x, y}) \in {x, y} /\ Max({x, y}) >= x /\ Max({x, y}) >= y
<1>1. \E z \in {x, y} : \A w \in {x, y} : z >= w
  <2>1. CASE x >= y
    BY <2>1
  <2>2. CASE ~(x >= y)
    BY <2>2
  <2>3. QED
    BY <2>1, <2>2
<1>2. QED
  BY <1>1 DEF Max

\* The steps of one who joins keep the types.
LEMMA JoinTypeStep ==
    ASSUME InviteTypeOK, NEW a \in JoinCall,
           \/ \E u \in Joiner : UseCode(a, u) \/ ProcessPending(a, u)
           \/ ClearPending(a) \/ FindCode(a) \/ CheckMember(a) \/ BeginRedeem(a) \/ Redeem(a)
    PROVE  InviteTypeOK'
<1>1. ASSUME NEW u \in Joiner, NEW step \in {"clear", "find"}, BeginJoin(a, u, step)
      PROVE  InviteTypeOK'
  <2> DEFINE new == [step |-> step, user |-> u, wants |-> "pending", hires |-> FALSE]
  <2>1. new \in Joining
    BY DEF Joining
  <2>2. joinCall' = [joinCall EXCEPT ![a] = new]
    BY <1>1 DEF BeginJoin
  <2> HIDE DEF new
  <2>3. joinCall' \in [JoinCall -> {NoInviteCall} \cup Joining]
    BY <2>1, <2>2 DEF InviteTypeOK
  <2>4. begun' \in 0..MaxInviteCalls
    BY <1>1, InviteBounds DEF BeginJoin, InviteTypeOK
  <2>5. tangled' \in BOOLEAN
    BY <1>1 DEF BeginJoin, InviteTypeOK
  <2>6. QED
    BY <1>1, <2>3, <2>4, <2>5 DEF BeginJoin, InviteTypeOK
<1>2. CASE ClearPending(a)
  <2>1. joinCall' \in [JoinCall -> {NoInviteCall} \cup Joining]
    BY <1>2, JoinTyped DEF ClearPending
  <2>2. QED
    BY <1>2, <2>1 DEF ClearPending, InviteTypeOK
<1>3. CASE FindCode(a)
  <2>1. joinCall[a] \in Joining
    BY <1>3, BusyCalls DEF FindCode
  <2> DEFINE next == [joinCall[a] EXCEPT !.step = "member",
                          !.wants = IF code.approval THEN "pending" ELSE "approved"]
  <2>2. next \in Joining
    BY <2>1 DEF Joining
  <2>3. joinCall' = [joinCall EXCEPT ![a] = next] \/ JoinEnds(a)
    BY <1>3 DEF FindCode
  <2> HIDE DEF next
  <2>4. joinCall' \in [JoinCall -> {NoInviteCall} \cup Joining]
    BY <2>2, <2>3, JoinTyped DEF InviteTypeOK
  <2>5. QED
    BY <1>3, <2>4 DEF FindCode, InviteTypeOK
<1>4. CASE CheckMember(a)
  <2>1. joinCall' \in [JoinCall -> {NoInviteCall} \cup Joining]
    BY <1>4, JoinTyped DEF CheckMember
  <2>2. QED
    BY <1>4, <2>1 DEF CheckMember, InviteTypeOK
<1>5. CASE BeginRedeem(a)
  <2>1. joinCall[a] \in Joining
    BY <1>5, BusyCalls DEF BeginRedeem
  <2> DEFINE hires == joinCall[a].wants = "approved" /\ hired[joinCall[a].user] = 0
             next == [joinCall[a] EXCEPT !.step = "commit", !.hires = hires]
  <2>2. joinCall' = [joinCall EXCEPT ![a] = next]
    BY <1>5 DEF BeginRedeem
  <2>3. hires \in BOOLEAN
    OBVIOUS
  <2> HIDE DEF hires
  <2>4. next \in Joining
    BY <2>1, <2>3 DEF Joining
  <2> HIDE DEF next
  <2>5. joinCall' \in [JoinCall -> {NoInviteCall} \cup Joining]
    BY <2>2, <2>4 DEF InviteTypeOK
  <2>6. QED
    BY <1>5, <2>5 DEF BeginRedeem, InviteTypeOK
<1>6. CASE Redeem(a)
  <2>1. joinCall[a] \in Joining
    BY <1>6, BusyCalls DEF Redeem
  <2>2. joinCall[a].user \in Joiner /\ joinCall[a].wants \in {"pending", "approved"}
    BY <2>1 DEF Joining
  <2> DEFINE new == [user |-> joinCall[a].user, status |-> joinCall[a].wants, decisions |-> {},
                     gone |-> FALSE]
  <2>3. new \in Membership
    BY <2>2 DEF Membership
  <2>4. joined' = Append(joined, new)
    BY <1>6 DEF Redeem
  <2> HIDE DEF new
  <2>5. joined' \in Seq(Membership) /\ DOMAIN joined \subseteq DOMAIN joined'
    BY <2>3, <2>4 DEF InviteTypeOK
  <2>6. hired' \in [Joiner -> Nat]
    BY <1>6, <2>2 DEF Redeem, InviteTypeOK
  <2>7. code' \in Code
    <3>1. code' = [code EXCEPT !.uses = code.uses + 1]
      BY <1>6 DEF Redeem
    <3>2. code \in Code /\ code.uses + 1 \in Nat
      BY DEF InviteTypeOK, Code
    <3>3. QED
      BY <3>1, <3>2 DEF Code
  <2>8. joinCall' \in [JoinCall -> {NoInviteCall} \cup Joining]
    BY <1>6, JoinTyped DEF Redeem
  <2>9. QED
    BY <1>6, <2>5, <2>6, <2>7, <2>8 DEF Redeem, InviteTypeOK
<1>7. QED
  BY <1>1, <1>2, <1>3, <1>4, <1>5, <1>6 DEF UseCode, ProcessPending

\* The steps of an admin keep the types.
LEMMA AdminTypeStep ==
    ASSUME InviteTypeOK,
           \/ UpdateCode
           \/ \E v \in Review :
                 \/ BeginReview(v) \/ CheckDecided(v) \/ InsertDecision(v)
                 \/ CheckEmployee(v) \/ Hire(v) \/ RemoveMember(v)
    PROVE  InviteTypeOK'
<1>1. CASE UpdateCode
  <2>1. PICK open, approval \in BOOLEAN, limit \in 1..MaxLimit :
            /\ code' = [code EXCEPT !.open = open, !.approval = approval, !.limit = limit]
            /\ topLimit' = Max({topLimit, limit})
    BY <1>1 DEF UpdateCode
  <2>2. code' \in Code
    BY <2>1 DEF InviteTypeOK, Code
  <2>3. topLimit' \in 1..MaxLimit
    <3>1. topLimit \in 1..MaxLimit /\ topLimit \in Int /\ limit \in Int
      BY DEF InviteTypeOK
    <3>2. topLimit' \in {topLimit, limit}
      BY <2>1, <3>1, MaxOfTwo
    <3>3. QED
      BY <3>1, <3>2
  <2>4. QED
    BY <1>1, <2>2, <2>3 DEF UpdateCode, InviteTypeOK
<1>2. ASSUME NEW v \in Review, BeginReview(v)
      PROVE  InviteTypeOK'
  <2>1. PICK m \in Listed, verdict \in {"approved", "rejected"} :
            review' = [review EXCEPT ![v] = [step |-> "check", m |-> m, verdict |-> verdict]]
    BY <1>2 DEF BeginReview
  <2>2. m \in DOMAIN joined /\ m \in Nat
    BY <2>1 DEF Listed, InviteTypeOK
  <2> DEFINE new == [step |-> "check", m |-> m, verdict |-> verdict]
  <2>3. new \in Reviewing /\ new.m = m
    BY <2>2 DEF Reviewing
  <2>4. review' = [review EXCEPT ![v] = new]
    BY <2>1
  <2> HIDE DEF new
  <2>5. /\ review' \in [Review -> {NoInviteCall} \cup Reviewing]
        /\ \A w \in Review : review'[w].step # "idle" => review'[w].m \in DOMAIN joined
    BY <2>2, <2>3, <2>4 DEF InviteTypeOK
  <2>6. begun' \in 0..MaxInviteCalls
    BY <1>2, InviteBounds DEF BeginReview, InviteTypeOK
  <2>7. tangled' \in BOOLEAN
    BY <1>2 DEF BeginReview, InviteTypeOK
  <2>8. QED
    BY <1>2, <2>5, <2>6, <2>7 DEF BeginReview, InviteTypeOK
<1>3. ASSUME NEW v \in Review, CheckDecided(v) \/ CheckEmployee(v)
      PROVE  InviteTypeOK'
  <2>1. /\ review' \in [Review -> {NoInviteCall} \cup Reviewing]
        /\ \A w \in Review : review'[w].step # "idle" => review'[w].m \in DOMAIN joined'
    BY <1>3, ReviewTyped DEF CheckDecided, CheckEmployee
  <2>2. QED
    BY <1>3, <2>1 DEF CheckDecided, CheckEmployee, InviteTypeOK
<1>4. ASSUME NEW v \in Review, InsertDecision(v)
      PROVE  InviteTypeOK'
  <2> DEFINE m == review[v].m
  <2>1. review[v] \in Reviewing /\ m \in DOMAIN joined
    BY <1>4, BusyCalls DEF InsertDecision
  <2>2. joined[m] \in Membership
    BY <2>1 DEF InviteTypeOK
  <2> DEFINE next == [joined[m] EXCEPT !.decisions = @ \cup {review[v].verdict}]
  <2>3. review[v].verdict \in {"approved", "rejected"}
    BY <2>1 DEF Reviewing
  <2>4. next \in Membership
    BY <2>2, <2>3 DEF Membership
  <2>5. joined' = [joined EXCEPT ![m] = next] \/ joined' = joined
    BY <1>4 DEF InsertDecision
  <2> HIDE DEF next
  <2>6. joined' \in Seq(Membership) /\ DOMAIN joined' = DOMAIN joined
    BY <2>1, <2>4, <2>5 DEF InviteTypeOK
  <2>7. /\ review' \in [Review -> {NoInviteCall} \cup Reviewing]
        /\ \A w \in Review : review'[w].step # "idle" => review'[w].m \in DOMAIN joined'
    BY <1>4, <2>6, ReviewTyped DEF InsertDecision
  <2>8. QED
    BY <1>4, <2>6, <2>7 DEF InsertDecision, InviteTypeOK
<1>5. ASSUME NEW v \in Review, Hire(v)
      PROVE  InviteTypeOK'
  <2>1. review[v] \in Reviewing /\ review[v].m \in DOMAIN joined
    BY <1>5, BusyCalls DEF Hire
  <2>2. joined[review[v].m] \in Membership
    BY <2>1 DEF InviteTypeOK
  <2>3. joined[review[v].m].user \in Joiner
    BY <2>2 DEF Membership
  <2>4. hired' \in [Joiner -> Nat]
    BY <1>5, <2>3 DEF Hire, InviteTypeOK
  <2>5. /\ review' \in [Review -> {NoInviteCall} \cup Reviewing]
        /\ \A w \in Review : review'[w].step # "idle" => review'[w].m \in DOMAIN joined'
    BY <1>5, ReviewTyped DEF Hire
  <2>6. QED
    BY <1>5, <2>4, <2>5 DEF Hire, InviteTypeOK
<1>6. ASSUME NEW v \in Review, RemoveMember(v)
      PROVE  InviteTypeOK'
  <2> DEFINE m == review[v].m
  <2>1. review[v] \in Reviewing /\ m \in DOMAIN joined
    BY <1>6, BusyCalls DEF RemoveMember
  <2>2. joined[m] \in Membership
    BY <2>1 DEF InviteTypeOK
  <2> DEFINE next == [joined[m] EXCEPT !.gone = TRUE, !.decisions = {}]
  <2>3. next \in Membership
    BY <2>2 DEF Membership
  <2>4. joined' = [joined EXCEPT ![m] = next]
    BY <1>6, <2>1 DEF RemoveMember, InviteTypeOK
  <2> HIDE DEF next
  <2>5. joined' \in Seq(Membership) /\ DOMAIN joined' = DOMAIN joined
    BY <2>1, <2>3, <2>4 DEF InviteTypeOK
  <2>6. /\ review' \in [Review -> {NoInviteCall} \cup Reviewing]
        /\ \A w \in Review : review'[w].step # "idle" => review'[w].m \in DOMAIN joined'
    BY <1>6, <2>5, ReviewTyped DEF RemoveMember
  <2>7. keptOn' \subseteq Joiner
    <3>1. joined[m].user \in Joiner
      BY <2>1, RowTyped
    <3>2. QED
      BY <1>6, <3>1 DEF RemoveMember, InviteTypeOK
  <2>8. QED
    BY <1>6, <2>5, <2>6, <2>7 DEF RemoveMember, InviteTypeOK
<1>7. QED
  BY <1>1, <1>2, <1>3, <1>4, <1>5, <1>6

\* A call that dies keeps the types.
LEMMA MembersDieTyped == ASSUME InviteTypeOK, InviteCallDies PROVE InviteTypeOK'
<1>1. joinCall' \in [JoinCall -> {NoInviteCall} \cup Joining]
  BY JoinTyped DEF InviteCallDies, InviteTypeOK
<1>2. /\ review' \in [Review -> {NoInviteCall} \cup Reviewing]
      /\ \A w \in Review : review'[w].step # "idle" => review'[w].m \in DOMAIN joined
  BY ReviewTyped DEF InviteCallDies, InviteTypeOK
<1>3. unhired' \subseteq Joiner
  <2>1. \A v \in Review : review[v].step # "idle" => joined[review[v].m].user \in Joiner
    BY BusyCalls, RowTyped
  <2>2. QED
    BY <2>1 DEF InviteCallDies, InviteTypeOK
<1>4. QED
  BY <1>1, <1>2, <1>3 DEF InviteCallDies, InviteTypeOK

\* The first state has the types ...
LEMMA InviteStartTyped == ASSUME InviteInit PROVE InviteTypeOK
<1>1. code \in Code /\ topLimit \in 1..MaxLimit
  BY DEF InviteInit, Code
<1>2. joined \in Seq(Membership) /\ hired \in [Joiner -> Nat] /\ begun \in 0..MaxInviteCalls
  BY InviteBounds DEF InviteInit
<1>3. /\ joinCall \in [JoinCall -> {NoInviteCall} \cup Joining]
      /\ review \in [Review -> {NoInviteCall} \cup Reviewing]
  BY DEF InviteInit
<1>4. \A v \in Review : review[v].step = "idle"
  BY DEF InviteInit, NoInviteCall
<1>5. QED
  BY <1>1, <1>2, <1>3, <1>4 DEF InviteInit, InviteTypeOK

\* ... and each step keeps them.
LEMMA InviteTypeStep == ASSUME InviteTypeOK, [InviteNext]_inviteVars PROVE InviteTypeOK'
<1>1. CASE \E u \in Joiner : SetPendingInviteCode(u)
  BY <1>1 DEF SetPendingInviteCode, InviteTypeOK
<1>2. CASE UNCHANGED inviteVars
  BY <1>2 DEF inviteVars, InviteTypeOK
<1>3. QED
  BY <1>1, <1>2, JoinTypeStep, AdminTypeStep, MembersDieTyped DEF InviteNext

\* Whatever happens to a code and its members, every row and call has its type, and a
\* review is about a member that was there.
THEOREM InviteTypeCorrect == InviteSpec => []InviteTypeOK
BY InviteStartTyped, InviteTypeStep, PTL DEF InviteSpec

-----------------------------------------------------------------------------
(***************************************************************************)
(* The uses of a code add up.  Each call that has found the code usable    *)
(* and has not yet counted itself may still add one, whatever the code     *)
(* says by then: the invariant counts these calls too.                     *)
(***************************************************************************)
\* The calls that have found the code usable and go on to redeem it.
Redeeming == {a \in JoinCall : joinCall[a].step \in {"member", "redeem", "commit"}}

UsesInv ==
    /\ InviteTypeOK
    /\ code.uses = Len(joined)
    /\ code.limit <= topLimit
    /\ code.uses <= topLimit + Cardinality(JoinCall) - 1
    /\ code.uses + Cardinality(Redeeming) <= topLimit + Cardinality(JoinCall) - 1

\* There are finitely many such calls, no more than calls.
LEMMA RedeemingBounded ==
    ASSUME NEW S \in SUBSET JoinCall
    PROVE  IsFiniteSet(S) /\ Cardinality(S) \in Nat /\ Cardinality(S) <= Cardinality(JoinCall)
BY FS_Subset, FS_CardinalityType, InviteCalls

\* Calls that do not enter this part leave the sum as it was, or less.
LEMMA FewerRedeeming ==
    ASSUME Redeeming' \subseteq Redeeming
    PROVE  Cardinality(Redeeming') <= Cardinality(Redeeming)
<1>1. Redeeming \in SUBSET JoinCall
  BY DEF Redeeming
<1>2. IsFiniteSet(Redeeming)
  BY <1>1, RedeemingBounded
<1>3. QED
  BY <1>2, FS_Subset

\* What does not touch the uses and enters no call keeps the sum, also if limits grow.
LEMMA SumKept ==
    ASSUME UsesInv, InviteTypeOK', code'.uses = code.uses, Len(joined') = Len(joined),
           code'.limit <= topLimit', topLimit <= topLimit', Redeeming' \subseteq Redeeming
    PROVE  UsesInv'
<1>1. Cardinality(Redeeming') <= Cardinality(Redeeming)
  BY FewerRedeeming
<1>2. Redeeming \in SUBSET JoinCall /\ Redeeming' \in SUBSET JoinCall
  BY DEF Redeeming
<1>3. Cardinality(Redeeming) \in Nat /\ Cardinality(Redeeming') \in Nat /\ Cardinality(JoinCall) \in Nat
  BY <1>2, RedeemingBounded
<1>4. code.uses \in Nat /\ topLimit \in Nat /\ topLimit' \in Nat
  BY DEF UsesInv, InviteTypeOK, Code
<1>5. QED
  BY <1>1, <1>3, <1>4 DEF UsesInv

\* Finding the code: it is usable, so the uses are below the limit, and this call was not
\* among those that count.
LEMMA FindKeeps == ASSUME UsesInv, InviteTypeOK', NEW a \in JoinCall, FindCode(a) PROVE UsesInv'
<1>1. CASE Usable
  <2>1. Redeeming' \in SUBSET JoinCall
    BY DEF Redeeming
  <2>2. Cardinality(Redeeming') \in Nat /\ Cardinality(JoinCall) \in Nat
        /\ Cardinality(Redeeming') <= Cardinality(JoinCall)
    BY <2>1, RedeemingBounded
  <2>3. code' = code /\ joined' = joined /\ topLimit' = topLimit
    BY DEF FindCode
  <2>4. code.uses \in Nat /\ code.limit \in Nat /\ topLimit \in Nat
    BY DEF UsesInv, InviteTypeOK, Code
  <2>5. code.uses + 1 <= topLimit
    BY <1>1, <2>4 DEF Usable, UsesInv
  <2>6. QED
    BY <2>2, <2>3, <2>4, <2>5 DEF UsesInv
<1>2. CASE ~Usable
  <2>1. Redeeming' \subseteq Redeeming
    BY <1>2, SMTT(60) DEF FindCode, JoinEnds, Redeeming, UsesInv, InviteTypeOK, NoInviteCall
  <2>2. QED
    BY <2>1, SumKept DEF FindCode, UsesInv, InviteTypeOK
<1>3. QED
  BY <1>1, <1>2

\* Redeeming moves one from the calls to the uses.
LEMMA RedeemKeeps == ASSUME UsesInv, InviteTypeOK', NEW a \in JoinCall, Redeem(a) PROVE UsesInv'
<1>1. Redeeming' = Redeeming \ {a}
  BY DEF Redeem, JoinEnds, Redeeming, UsesInv, InviteTypeOK, NoInviteCall
<1>2. a \in Redeeming
  BY DEF Redeem, Redeeming
<1>3. Redeeming \in SUBSET JoinCall
  BY DEF Redeeming
<1>4. IsFiniteSet(Redeeming) /\ Cardinality(Redeeming) \in Nat /\ Cardinality(JoinCall) \in Nat
  BY <1>3, RedeemingBounded
<1>5. Cardinality(Redeeming') = Cardinality(Redeeming) - 1
  BY <1>1, <1>2, <1>4, FS_RemoveElement
<1>6. Redeeming' \in SUBSET JoinCall
  BY <1>1, <1>3
<1>7. Cardinality(Redeeming') \in Nat
  BY <1>6, RedeemingBounded
<1>8. code'.uses = code.uses + 1 /\ code'.limit = code.limit
  <2>1. code' = [code EXCEPT !.uses = code.uses + 1]
    BY DEF Redeem
  <2>2. code \in Code
    BY DEF UsesInv, InviteTypeOK
  <2>3. QED
    BY <2>1, <2>2 DEF Code
<1>9. Len(joined') = Len(joined) + 1
  <2>1. \E m : joined' = Append(joined, m)
    BY DEF Redeem
  <2>2. QED
    BY <2>1 DEF UsesInv, InviteTypeOK
<1>10. code.uses \in Nat /\ topLimit \in Nat /\ topLimit' = topLimit
  BY DEF Redeem, UsesInv, InviteTypeOK, Code
<1>11. QED
  BY <1>4, <1>5, <1>7, <1>8, <1>9, <1>10 DEF UsesInv

\* The other steps of one who joins: nobody enters, some leave.
LEMMA JoinKeeps ==
    ASSUME UsesInv, InviteTypeOK', NEW a \in JoinCall,
           \/ \E u \in Joiner : UseCode(a, u) \/ ProcessPending(a, u)
           \/ ClearPending(a) \/ CheckMember(a) \/ BeginRedeem(a)
    PROVE  UsesInv'
<1>1. Redeeming' \subseteq Redeeming
  <2>1. CASE (\E u \in Joiner : UseCode(a, u) \/ ProcessPending(a, u)) \/ ClearPending(a)
    <3>1. /\ \A b \in JoinCall \ {a} : joinCall'[b] = joinCall[b]
          /\ joinCall'[a].step \in {"find", "clear"}
      <4>1. PICK c : joinCall' = [joinCall EXCEPT ![a] = c] /\ c.step \in {"find", "clear"}
        <5>1. CASE ClearPending(a)
          <6>1. joinCall[a] \in Joining
            BY <5>1, BusyCalls DEF ClearPending, UsesInv
          <6>2. [joinCall[a] EXCEPT !.step = "find"].step = "find"
            BY <6>1 DEF Joining
          <6>3. QED
            BY <5>1, <6>2 DEF ClearPending, JoinGoes
        <5>2. CASE \E u \in Joiner : UseCode(a, u) \/ ProcessPending(a, u)
          <6>1. PICK u \in Joiner, step \in {"find", "clear"} : BeginJoin(a, u, step)
            BY <5>2 DEF UseCode, ProcessPending
          <6> DEFINE new == [step |-> step, user |-> u, wants |-> "pending", hires |-> FALSE]
          <6>2. new.step \in {"find", "clear"}
            OBVIOUS
          <6>3. joinCall' = [joinCall EXCEPT ![a] = new]
            BY <6>1 DEF BeginJoin
          <6>4. QED
            BY <6>2, <6>3
        <5>3. QED
          BY <2>1, <5>1, <5>2
      <4>2. QED
        BY <4>1 DEF UsesInv, InviteTypeOK
    <3>2. QED
      BY <3>1 DEF Redeeming
  <2>2. CASE CheckMember(a) \/ BeginRedeem(a)
    <3>1. a \in Redeeming
      BY <2>2 DEF CheckMember, BeginRedeem, Redeeming
    <3>2. \A b \in JoinCall \ {a} : joinCall'[b] = joinCall[b]
      <4>1. \E c : joinCall' = [joinCall EXCEPT ![a] = c]
        BY <2>2 DEF CheckMember, BeginRedeem, JoinGoes, JoinEnds
      <4>2. QED
        BY <4>1 DEF UsesInv, InviteTypeOK
    <3>3. QED
      BY <3>1, <3>2 DEF Redeeming
  <2>3. QED
    BY <2>1, <2>2
<1>2. code' = code /\ joined' = joined /\ topLimit' = topLimit
  BY DEF UseCode, ProcessPending, BeginJoin, ClearPending, CheckMember, BeginRedeem
<1>3. code.limit <= topLimit /\ topLimit \in Nat
  BY DEF UsesInv, InviteTypeOK
<1>4. QED
  BY <1>1, <1>2, <1>3, SumKept

\* What the admins do, and calls that die: only UpdateCode touches the limit.
LEMMA AdminKeeps ==
    ASSUME UsesInv, InviteTypeOK',
           \/ UpdateCode
           \/ \E v \in Review :
                 \/ BeginReview(v) \/ CheckDecided(v) \/ InsertDecision(v)
                 \/ CheckEmployee(v) \/ Hire(v) \/ RemoveMember(v)
           \/ InviteCallDies
    PROVE  UsesInv'
<1>1. Redeeming' \subseteq Redeeming
  <2>1. CASE InviteCallDies
    BY <2>1, SMTT(60) DEF InviteCallDies, JoinEnds, Redeeming, UsesInv, InviteTypeOK, NoInviteCall
  <2>2. CASE ~InviteCallDies
    <3>1. joinCall' = joinCall
      BY <2>2 DEF UpdateCode, BeginReview, CheckDecided, InsertDecision, CheckEmployee, Hire, RemoveMember
    <3>2. QED
      BY <3>1 DEF Redeeming
  <2>3. QED
    BY <2>1, <2>2
<1>2. code.limit \in Nat /\ topLimit \in Nat /\ code.limit <= topLimit
  BY DEF UsesInv, InviteTypeOK, Code
<1>3. CASE UpdateCode
  <2>1. PICK open, approval \in BOOLEAN, limit \in 1..MaxLimit :
            /\ code' = [code EXCEPT !.open = open, !.approval = approval, !.limit = limit]
            /\ topLimit' = Max({topLimit, limit})
    BY <1>3 DEF UpdateCode
  <2>2. code'.uses = code.uses /\ code'.limit = limit
    BY <2>1 DEF UsesInv, InviteTypeOK, Code
  <2>3. topLimit' >= topLimit /\ topLimit' >= limit /\ topLimit' \in Nat
    BY <2>1, <1>2, MaxOfTwo
  <2>4. joined' = joined
    BY <1>3 DEF UpdateCode
  <2>5. QED
    BY <1>1, <1>2, <2>2, <2>3, <2>4, SumKept
<1>4. CASE ~UpdateCode
  <2>1. code' = code /\ topLimit' = topLimit
    BY <1>4, ZenonT(60) DEF BeginReview, CheckDecided, InsertDecision, CheckEmployee, Hire, RemoveMember, InviteCallDies
  <2>2. Len(joined') = Len(joined)
    <3>1. \/ joined' = joined
          \/ \E m, x : joined' = [joined EXCEPT ![m].decisions = x]
          \/ \E m : joined' = [joined EXCEPT ![m].gone = TRUE, ![m].decisions = {}]
      BY <1>4 DEF BeginReview, CheckDecided, InsertDecision, CheckEmployee, Hire, RemoveMember, InviteCallDies
    <3>2. DOMAIN joined' = DOMAIN joined
      BY <3>1
    <3>3. joined \in Seq(Membership) /\ joined' \in Seq(Membership)
      BY DEF UsesInv, InviteTypeOK
    <3>4. QED
      BY <3>2, <3>3
  <2>3. QED
    BY <1>1, <1>2, <2>1, <2>2, SumKept, SMTT(60)
<1>5. QED
  BY <1>3, <1>4

\* However many join at once and whatever the admins set meanwhile: the uses are the
\* members the code has brought, and exceed the limit by no more than the calls that ran
\* next to the first.
THEOREM UsesAddUpCorrect == InviteSpec => []UsesAddUp
<1>1. InviteInit => UsesInv
  <2> SUFFICES ASSUME InviteInit PROVE UsesInv
    OBVIOUS
  <2>1. InviteTypeOK
    BY InviteStartTyped
  <2>2. code.uses = 0 /\ Len(joined) = 0 /\ code.limit = topLimit /\ topLimit \in Nat \ {0}
    BY DEF InviteInit
  <2>3. Redeeming = {}
    BY DEF InviteInit, Redeeming, NoInviteCall
  <2>4. Cardinality(Redeeming) = 0 /\ Cardinality(JoinCall) \in Nat /\ Cardinality(JoinCall) # 0
    BY <2>3, FS_EmptySet, FS_CardinalityType, InviteCalls
  <2>5. QED
    BY <2>1, <2>2, <2>4 DEF UsesInv
<1>2. UsesInv /\ [InviteNext]_inviteVars => UsesInv'
  <2> SUFFICES ASSUME UsesInv, [InviteNext]_inviteVars PROVE UsesInv'
    OBVIOUS
  <2>1. InviteTypeOK'
    BY InviteTypeStep DEF UsesInv
  <2>2. CASE (\E u \in Joiner : SetPendingInviteCode(u)) \/ UNCHANGED inviteVars
    <3>1. UNCHANGED <<code, joined, joinCall, topLimit>>
      BY <2>2 DEF SetPendingInviteCode, inviteVars
    <3>2. QED
      BY <2>1, <3>1 DEF UsesInv, Redeeming
  <2>3. QED
    BY <2>1, <2>2, FindKeeps, RedeemKeeps, JoinKeeps, AdminKeeps DEF InviteNext
<1>3. UsesInv => UsesAddUp
  BY DEF UsesInv, UsesAddUp
<1>4. QED
  BY <1>1, <1>2, <1>3, PTL DEF InviteSpec


-----------------------------------------------------------------------------
(***************************************************************************)
(* An employee row for whoever is admitted, whatever overlaps or dies: an  *)
(* employee row is never taken away, a member that the code admits is      *)
(* written together with it, and one that an admin admits has it, or the   *)
(* call that admitted him is still to write it, or died.                   *)
(***************************************************************************)
Hired(u) == hired[u] > 0

\* A call of an admin that has admitted u is about to see to u's employee row.
AboutToHire(u) ==
    \E v \in Review : review[v].step \in {"employee", "hire"} /\ joined[review[v].m].user = u

EmployedInv ==
    \A u \in Joiner :
        /\ \A m \in DOMAIN joined : joined[m].user = u =>
              /\ joined[m].status = "approved" => Hired(u)
              /\ "approved" \in joined[m].decisions => Hired(u) \/ u \in unhired \/ AboutToHire(u)
        /\ \A a \in JoinCall :
              joinCall[a].step = "commit" /\ joinCall[a].user = u /\ joinCall[a].wants = "approved" =>
                  joinCall[a].hires \/ Hired(u)

\* Steps that leave the rows as they are, or give them new decisions and gone.
LEMMA EmployedKept ==
    ASSUME InviteTypeOK, EmployedInv, joinCall' = joinCall, unhired \subseteq unhired',
           DOMAIN joined' = DOMAIN joined,
           \A u \in Joiner : Hired(u) => Hired(u)',
           \A u \in Joiner, m \in DOMAIN joined :
               joined[m].user = u /\ "approved" \in joined'[m].decisions =>
                   "approved" \in joined[m].decisions \/ AboutToHire(u)',
           \A m \in DOMAIN joined :
               joined'[m].user = joined[m].user /\ joined'[m].status = joined[m].status,
           \A u \in Joiner : AboutToHire(u) => AboutToHire(u)' \/ Hired(u)' \/ u \in unhired'
    PROVE  EmployedInv'
<1> SUFFICES
      ASSUME NEW u \in Joiner
      PROVE  /\ \A m \in DOMAIN joined' : joined'[m].user = u =>
                   /\ joined'[m].status = "approved" => Hired(u)'
                   /\ "approved" \in joined'[m].decisions =>
                          Hired(u)' \/ u \in unhired' \/ AboutToHire(u)'
             /\ \A a \in JoinCall :
                   joinCall'[a].step = "commit" /\ joinCall'[a].user = u
                   /\ joinCall'[a].wants = "approved" => joinCall'[a].hires \/ Hired(u)'
  BY DEF EmployedInv
<1>1. Hired(u) => Hired(u)'
  OBVIOUS
<1>2. \A m \in DOMAIN joined : joined[m].user = u =>
          /\ joined[m].status = "approved" => Hired(u)
          /\ "approved" \in joined[m].decisions => Hired(u) \/ u \in unhired \/ AboutToHire(u)
  BY DEF EmployedInv
<1>3. \A a \in JoinCall :
          joinCall[a].step = "commit" /\ joinCall[a].user = u /\ joinCall[a].wants = "approved" =>
              joinCall[a].hires \/ Hired(u)
  BY DEF EmployedInv
<1>4. QED
  BY <1>1, <1>2, <1>3

\* A call of one who joins that adds no member, or ends.
LEMMA EmployedJoins ==
    ASSUME InviteTypeOK, EmployedInv, NEW a \in JoinCall, NEW next,
           joinCall' = [joinCall EXCEPT ![a] = next],
           UNCHANGED <<joined, hired, review, unhired>>,
           next.step = "commit" /\ next.wants = "approved" =>
               \E u \in Joiner : next.user = u /\ (next.hires \/ Hired(u))
    PROVE  EmployedInv'
<1>1. joinCall'[a] = next /\ \A b \in JoinCall \ {a} : joinCall'[b] = joinCall[b]
  BY DEF InviteTypeOK
<1>2. \A u : (Hired(u)' <=> Hired(u)) /\ (AboutToHire(u)' <=> AboutToHire(u))
  BY DEF Hired, AboutToHire
<1>3. QED
  BY <1>1, <1>2 DEF EmployedInv

LEMMA EmployedJoinSteps ==
    ASSUME InviteTypeOK, EmployedInv, NEW a \in JoinCall,
           \/ \E u \in Joiner : UseCode(a, u) \/ ProcessPending(a, u)
           \/ ClearPending(a) \/ FindCode(a) \/ CheckMember(a) \/ BeginRedeem(a)
           \/ JoinEnds(a) /\ UNCHANGED <<joined, hired, review, unhired>>
    PROVE  EmployedInv'
<1>1. UNCHANGED <<joined, hired, review, unhired>>
  BY DEF UseCode, ProcessPending, BeginJoin, ClearPending, FindCode, CheckMember, BeginRedeem
<1>2. ASSUME NEW next, joinCall' = [joinCall EXCEPT ![a] = next], next.step # "commit"
      PROVE  EmployedInv'
  BY <1>1, <1>2, EmployedJoins
<1>3. CASE JoinEnds(a)
  <2>1. joinCall' = [joinCall EXCEPT ![a] = NoInviteCall] /\ NoInviteCall.step # "commit"
    BY <1>3 DEF JoinEnds, NoInviteCall
  <2> HIDE DEF NoInviteCall
  <2>2. QED
    BY <1>2, <2>1
<1>4. CASE \E u \in Joiner : UseCode(a, u) \/ ProcessPending(a, u)
  <2>1. PICK u \in Joiner, step \in {"find", "clear"} : BeginJoin(a, u, step)
    BY <1>4 DEF UseCode, ProcessPending
  <2> DEFINE new == [step |-> step, user |-> u, wants |-> "pending", hires |-> FALSE]
  <2>2. joinCall' = [joinCall EXCEPT ![a] = new] /\ new.step # "commit"
    BY <2>1 DEF BeginJoin
  <2> HIDE DEF new
  <2>3. QED
    BY <1>2, <2>2
<1>5. CASE ClearPending(a) \/ FindCode(a) \/ CheckMember(a)
  <2>1. joinCall[a] \in Joining
    BY <1>5, BusyCalls DEF ClearPending, FindCode, CheckMember
  <2> DEFINE found == [joinCall[a] EXCEPT !.step = "member",
                          !.wants = IF code.approval THEN "pending" ELSE "approved"]
  <2>2. \/ JoinEnds(a)
        \/ \E step \in {"find", "redeem"} :
               joinCall' = [joinCall EXCEPT ![a] = [joinCall[a] EXCEPT !.step = step]]
        \/ joinCall' = [joinCall EXCEPT ![a] = found]
    BY <1>5 DEF ClearPending, FindCode, CheckMember, JoinGoes
  <2>3. /\ \A step \in {"find", "redeem"} : [joinCall[a] EXCEPT !.step = step].step # "commit"
        /\ found.step # "commit"
    BY <2>1 DEF Joining
  <2> HIDE DEF found
  <2>4. QED
    BY <1>2, <1>3, <2>2, <2>3
<1>6. CASE BeginRedeem(a)
  <2>1. joinCall[a] \in Joining
    BY <1>6, BusyCalls DEF BeginRedeem
  <2>2. PICK u \in Joiner, wants \in {"pending", "approved"} :
            joinCall[a].user = u /\ joinCall[a].wants = wants
    BY <2>1 DEF Joining
  <2>3. PICK hires \in BOOLEAN : hires <=> wants = "approved" /\ hired[u] = 0
    OBVIOUS
  <2> DEFINE next == [joinCall[a] EXCEPT !.step = "commit", !.hires = hires]
  <2>4. joinCall' = [joinCall EXCEPT ![a] = next]
    <3>1. hires = (wants = "approved" /\ hired[u] = 0)
      BY <2>3, Zenon
    <3>2. QED
      BY <1>6, <2>2, <3>1 DEF BeginRedeem
  <2>5. next.user = u /\ next.wants = wants /\ next.hires = hires
    BY <2>1, <2>2 DEF Joining
  <2>6. hired[u] \in Nat
    BY DEF InviteTypeOK
  <2> HIDE DEF next
  <2>7. next.wants = "approved" => next.user = u /\ (next.hires \/ Hired(u))
    BY <2>3, <2>5, <2>6 DEF Hired
  <2>8. QED
    BY <1>1, <2>4, <2>7, EmployedJoins
<1>7. QED
  BY <1>3, <1>4, <1>5, <1>6

\* The member that the transaction adds has no decision yet, and an employee if the code
\* admits him.
LEMMA EmployedRedeem ==
    ASSUME InviteTypeOK, EmployedInv, NEW a \in JoinCall, Redeem(a)
    PROVE  EmployedInv'
<1>1. joinCall[a] \in Joining /\ joinCall[a].step = "commit"
  BY BusyCalls DEF Redeem
<1>2. PICK u \in Joiner, wants \in {"pending", "approved"}, hires \in BOOLEAN :
          joinCall[a].user = u /\ joinCall[a].wants = wants /\ joinCall[a].hires = hires
  BY <1>1 DEF Joining
<1>3. wants = "approved" => hires \/ Hired(u)
  BY <1>1, <1>2 DEF EmployedInv
<1> DEFINE new == [user |-> u, status |-> wants, decisions |-> {}, gone |-> FALSE]
<1>4. /\ joined' = Append(joined, new) /\ review' = review /\ unhired' = unhired
      /\ joinCall' = [joinCall EXCEPT ![a] = NoInviteCall]
      /\ hired' = IF hires THEN [hired EXCEPT ![u] = hired[u] + 1] ELSE hired
  BY <1>2 DEF Redeem, JoinEnds
<1>5. new.user = u /\ new.status = wants /\ new.decisions = {}
  OBVIOUS
<1>6. joined \in Seq(Membership) /\ hired \in [Joiner -> Nat]
  BY DEF InviteTypeOK
<1> HIDE DEF new
<1>7. PICK n \in Nat : /\ DOMAIN joined' = DOMAIN joined \cup {n} /\ joined'[n] = new
                       /\ \A m \in DOMAIN joined : joined'[m] = joined[m]
  BY <1>4, <1>6
<1>8. \A w \in Joiner : Hired(w) => Hired(w)'
  <2>1. \A w \in Joiner : hired'[w] = hired[w] \/ hired'[w] = hired[w] + 1
    BY <1>4, <1>6
  <2>2. \A w \in Joiner : hired[w] \in Nat
    BY <1>6
  <2>3. QED
    BY <2>1, <2>2 DEF Hired
<1>9. wants = "approved" => Hired(u)'
  <2>1. hired[u] \in Nat /\ (hires => hired'[u] = hired[u] + 1)
    BY <1>4, <1>6
  <2>2. hires => Hired(u)'
    BY <2>1 DEF Hired
  <2>3. QED
    BY <1>3, <1>8, <2>2
<1>10. \A w \in Joiner : AboutToHire(w) => AboutToHire(w)'
  <2>1. \A v \in Review : review[v].step # "idle" => review[v].m \in DOMAIN joined
    BY BusyCalls
  <2>2. QED
    BY <1>4, <1>7, <2>1 DEF AboutToHire
<1>11. ASSUME NEW w \in Joiner, NEW m \in DOMAIN joined', joined'[m].user = w
       PROVE  /\ joined'[m].status = "approved" => Hired(w)'
              /\ "approved" \in joined'[m].decisions => Hired(w)' \/ w \in unhired' \/ AboutToHire(w)'
  <2>1. CASE m \in DOMAIN joined
    <3>1. joined'[m] = joined[m]
      BY <1>7, <2>1
    <3>2. QED
      BY <1>4, <1>8, <1>10, <1>11, <2>1, <3>1 DEF EmployedInv
  <2>2. CASE m = n
    <3>1. joined'[m].status = wants /\ joined'[m].decisions = {} /\ w = u
      BY <1>5, <1>7, <1>11, <2>2
    <3>2. QED
      BY <1>9, <3>1
  <2>3. QED
    BY <1>7, <2>1, <2>2
<1>12. ASSUME NEW w \in Joiner, NEW b \in JoinCall, joinCall'[b].step = "commit",
              joinCall'[b].user = w, joinCall'[b].wants = "approved"
       PROVE  joinCall'[b].hires \/ Hired(w)'
  <2>1. joinCall'[b] = joinCall[b]
    BY <1>4, <1>12 DEF InviteTypeOK, NoInviteCall
  <2>2. QED
    BY <1>8, <1>12, <2>1 DEF EmployedInv
<1>13. QED
  BY <1>11, <1>12 DEF EmployedInv

\* A call of an admin that was about to hire still is, has found or made the employee, or
\* has died.
LEMMA AboutKept ==
    ASSUME InviteTypeOK, NEW v \in Review, NEW next, review' = [review EXCEPT ![v] = next],
           \A m \in DOMAIN joined : joined'[m].user = joined[m].user,
           \A u \in Joiner :
               review[v].step \in {"employee", "hire"} /\ joined[review[v].m].user = u =>
                   \/ Hired(u)' \/ u \in unhired'
                   \/ next.step \in {"employee", "hire"} /\ next.m = review[v].m
    PROVE  \A u \in Joiner : AboutToHire(u) => AboutToHire(u)' \/ Hired(u)' \/ u \in unhired'
<1> SUFFICES ASSUME NEW u \in Joiner, AboutToHire(u)
             PROVE  AboutToHire(u)' \/ Hired(u)' \/ u \in unhired'
  OBVIOUS
<1>1. PICK w \in Review : review[w].step \in {"employee", "hire"} /\ joined[review[w].m].user = u
  BY DEF AboutToHire
<1>2. review[w].m \in DOMAIN joined
  BY <1>1, BusyCalls
<1>3. joined'[review[w].m].user = u
  BY <1>1, <1>2
<1>4. review'[v] = next /\ \A x \in Review \ {v} : review'[x] = review[x]
  BY DEF InviteTypeOK
<1>5. CASE w = v
  <2>1. \/ Hired(u)' \/ u \in unhired'
        \/ next.step \in {"employee", "hire"} /\ next.m = review[v].m
    BY <1>1, <1>5
  <2>2. QED
    BY <1>3, <1>4, <1>5, <2>1 DEF AboutToHire
<1>6. CASE w # v
  BY <1>1, <1>3, <1>4, <1>6 DEF AboutToHire
<1>7. QED
  BY <1>5, <1>6

\* The steps of an admin's call that write no row.
LEMMA EmployedLooks ==
    ASSUME InviteTypeOK, EmployedInv, NEW v \in Review,
           \/ BeginReview(v) \/ CheckDecided(v) \/ CheckEmployee(v)
    PROVE  EmployedInv'
<1>1. UNCHANGED <<joined, hired, joinCall, unhired>>
  BY DEF BeginReview, CheckDecided, CheckEmployee
<1>2. PICK next :
          /\ review' = [review EXCEPT ![v] = next]
          /\ \A u \in Joiner :
                 review[v].step \in {"employee", "hire"} /\ joined[review[v].m].user = u =>
                     \/ Hired(u)
                     \/ next.step \in {"employee", "hire"} /\ next.m = review[v].m
  <2>1. CASE BeginReview(v)
    <3>1. PICK m, verdict :
              review' = [review EXCEPT ![v] = [step |-> "check", m |-> m, verdict |-> verdict]]
      BY <2>1 DEF BeginReview
    <3>2. review[v].step = "idle"
      BY <2>1 DEF BeginReview
    <3>3. QED
      BY <3>1, <3>2
  <2>2. CASE CheckDecided(v)
    <3>1. \E next : review' = [review EXCEPT ![v] = next]
      BY <2>2 DEF CheckDecided, ReviewGoes, ReviewEnds
    <3>2. review[v].step = "check"
      BY <2>2 DEF CheckDecided
    <3>3. QED
      BY <3>1, <3>2
  <2>3. CASE CheckEmployee(v)
    <3>1. review[v] \in Reviewing /\ review[v].m \in DOMAIN joined
      BY <2>3, BusyCalls DEF CheckEmployee
    <3>2. CASE hired[joined[review[v].m].user] = 0
      <4> DEFINE next == [review[v] EXCEPT !.step = "hire"]
      <4>1. next.step = "hire" /\ next.m = review[v].m
        BY <3>1 DEF Reviewing
      <4>2. review' = [review EXCEPT ![v] = next]
        BY <2>3, <3>2 DEF CheckEmployee, ReviewGoes
      <4> HIDE DEF next
      <4>3. QED
        BY <4>1, <4>2
    <3>3. CASE hired[joined[review[v].m].user] # 0
      <4>1. joined[review[v].m].user \in Joiner
        BY <3>1, RowTyped
      <4>2. hired[joined[review[v].m].user] \in Nat
        BY <4>1 DEF InviteTypeOK
      <4>3. \A u \in Joiner : joined[review[v].m].user = u => Hired(u)
        BY <3>3, <4>2 DEF Hired
      <4>4. review' = [review EXCEPT ![v] = NoInviteCall]
        BY <2>3, <3>3 DEF CheckEmployee, ReviewEnds
      <4>5. QED
        BY <4>3, <4>4
    <3>4. QED
      BY <3>2, <3>3
  <2>4. QED
    BY <2>1, <2>2, <2>3
<1>3. \A u : Hired(u)' <=> Hired(u)
  BY <1>1 DEF Hired
<1>4. \A u \in Joiner : AboutToHire(u) => AboutToHire(u)' \/ Hired(u)' \/ u \in unhired'
  <2>1. \A m \in DOMAIN joined : joined'[m].user = joined[m].user
    BY <1>1
  <2>2. \A u \in Joiner :
            review[v].step \in {"employee", "hire"} /\ joined[review[v].m].user = u =>
                \/ Hired(u)' \/ u \in unhired'
                \/ next.step \in {"employee", "hire"} /\ next.m = review[v].m
    BY <1>2, <1>3
  <2>3. QED
    BY <1>2, <2>1, <2>2, AboutKept
<1>5. QED
  BY <1>1, <1>3, <1>4, EmployedKept

\* An approval is written by a call that then sees to the employee row.
LEMMA EmployedDecides ==
    ASSUME InviteTypeOK, EmployedInv, NEW v \in Review, InsertDecision(v)
    PROVE  EmployedInv'
<1>1. review[v] \in Reviewing /\ review[v].step = "insert" /\ review[v].m \in DOMAIN joined
  BY BusyCalls DEF InsertDecision
<1>2. PICK m \in DOMAIN joined, verdict \in {"approved", "rejected"} :
          review[v].m = m /\ review[v].verdict = verdict
  BY <1>1 DEF Reviewing
<1>3. UNCHANGED <<hired, joinCall, unhired>> /\ \A u : Hired(u)' <=> Hired(u)
  BY DEF InsertDecision, Hired
<1>4. CASE joined[m].gone
  <2>1. joined' = joined /\ review' = [review EXCEPT ![v] = NoInviteCall]
    BY <1>2, <1>4 DEF InsertDecision, ReviewEnds
  <2>2. \A u \in Joiner : AboutToHire(u) => AboutToHire(u)' \/ Hired(u)' \/ u \in unhired'
    BY <1>1, <2>1, AboutKept
  <2>3. QED
    BY <1>3, <2>1, <2>2, EmployedKept
<1>5. CASE ~joined[m].gone
  <2>1. PICK step : step = IF verdict = "approved" THEN "employee" ELSE "remove"
    OBVIOUS
  <2> DEFINE row == [joined[m] EXCEPT !.decisions = @ \cup {verdict}]
             next == [review[v] EXCEPT !.step = step]
  <2>2. joined' = [joined EXCEPT ![m] = row] /\ review' = [review EXCEPT ![v] = next]
    BY <1>2, <1>5, <2>1 DEF InsertDecision, ReviewGoes
  <2>3. /\ row.user = joined[m].user /\ row.status = joined[m].status
        /\ row.decisions = joined[m].decisions \cup {verdict}
    BY RowTyped DEF Membership
  <2>4. next.step = step /\ next.m = m
    BY <1>1, <1>2 DEF Reviewing
  <2> HIDE DEF row, next
  <2>5. /\ DOMAIN joined' = DOMAIN joined /\ joined'[m] = row
        /\ \A n \in DOMAIN joined \ {m} : joined'[n] = joined[n]
    BY <2>2
  <2>6. \A n \in DOMAIN joined : joined'[n].user = joined[n].user
    BY <2>3, <2>5
  <2>7. \A u \in Joiner : AboutToHire(u) => AboutToHire(u)' \/ Hired(u)' \/ u \in unhired'
    BY <1>1, <2>2, <2>6, AboutKept
  <2>8. PICK u \in Joiner : joined[m].user = u
    BY RowTyped
  <2>9. verdict = "approved" => AboutToHire(u)'
    <3>1. review'[v] = next
      BY <2>2 DEF InviteTypeOK
    <3>2. QED
      BY <2>1, <2>4, <2>6, <2>8, <3>1 DEF AboutToHire
  <2>10. \A n \in DOMAIN joined : joined'[n].status = joined[n].status
    BY <2>3, <2>5
  <2>11. ASSUME NEW w \in Joiner, NEW n \in DOMAIN joined, joined[n].user = w,
                "approved" \in joined'[n].decisions
         PROVE  "approved" \in joined[n].decisions \/ AboutToHire(w)'
    <3>1. CASE n = m
      BY <2>3, <2>5, <2>8, <2>9, <2>11, <3>1
    <3>2. CASE n # m
      BY <2>5, <2>11, <3>2
    <3>3. QED
      BY <3>1, <3>2
  <2>12. QED
    BY <1>3, <2>5, <2>6, <2>7, <2>10, <2>11, EmployedKept
<1>6. QED
  BY <1>4, <1>5

\* The employee row is written.
LEMMA EmployedHires ==
    ASSUME InviteTypeOK, EmployedInv, NEW v \in Review, Hire(v)
    PROVE  EmployedInv'
<1>1. review[v].step = "hire" /\ review[v].m \in DOMAIN joined
  BY BusyCalls DEF Hire
<1>2. PICK u \in Joiner : joined[review[v].m].user = u
  BY <1>1, RowTyped
<1>3. /\ UNCHANGED <<joined, joinCall, unhired>> /\ review' = [review EXCEPT ![v] = NoInviteCall]
      /\ hired' = [hired EXCEPT ![u] = hired[u] + 1]
  BY <1>2 DEF Hire, ReviewEnds
<1>4. Hired(u)' /\ \A w \in Joiner : Hired(w) => Hired(w)'
  <2>1. \A w \in Joiner : hired[w] \in Nat
    BY DEF InviteTypeOK
  <2>2. hired'[u] = hired[u] + 1 /\ \A w \in Joiner \ {u} : hired'[w] = hired[w]
    BY <1>3 DEF InviteTypeOK
  <2>3. QED
    BY <2>1, <2>2 DEF Hired
<1>5. \A w \in Joiner : AboutToHire(w) => AboutToHire(w)' \/ Hired(w)' \/ w \in unhired'
  <2>1. \A m \in DOMAIN joined : joined'[m].user = joined[m].user
    BY <1>3
  <2>2. QED
    BY <1>2, <1>3, <1>4, <2>1, AboutKept
<1>6. QED
  BY <1>3, <1>4, <1>5, EmployedKept

\* A member goes, and with him the decisions about him; the employee row stays.
LEMMA EmployedRemoves ==
    ASSUME InviteTypeOK, EmployedInv, NEW v \in Review, RemoveMember(v)
    PROVE  EmployedInv'
<1>1. review[v].step = "remove" /\ review[v].m \in DOMAIN joined
  BY BusyCalls DEF RemoveMember
<1>2. PICK m \in DOMAIN joined : review[v].m = m
  BY <1>1
<1> DEFINE row == [joined[m] EXCEPT !.gone = TRUE, !.decisions = {}]
<1>3. /\ UNCHANGED <<hired, joinCall, unhired>> /\ review' = [review EXCEPT ![v] = NoInviteCall]
      /\ joined' = [joined EXCEPT ![m] = row]
  BY <1>2 DEF RemoveMember, ReviewEnds
<1>4. row.user = joined[m].user /\ row.status = joined[m].status /\ row.decisions = {}
  BY RowTyped DEF Membership
<1> HIDE DEF row
<1>5. /\ DOMAIN joined' = DOMAIN joined /\ joined'[m] = row
      /\ \A n \in DOMAIN joined \ {m} : joined'[n] = joined[n]
  BY <1>3
<1>6. \A n \in DOMAIN joined :
          /\ joined'[n].user = joined[n].user /\ joined'[n].status = joined[n].status
          /\ "approved" \in joined'[n].decisions => "approved" \in joined[n].decisions
  BY <1>4, <1>5
<1>7. \A u : Hired(u)' <=> Hired(u)
  BY <1>3 DEF Hired
<1>8. \A u \in Joiner : AboutToHire(u) => AboutToHire(u)' \/ Hired(u)' \/ u \in unhired'
  BY <1>1, <1>3, <1>6, AboutKept
<1>9. QED
  BY <1>3, <1>5, <1>6, <1>7, <1>8, EmployedKept

\* A call dies; an approval that was still to see to the employee row is remembered.
LEMMA EmployedDies ==
    ASSUME InviteTypeOK, EmployedInv, InviteCallDies
    PROVE  EmployedInv'
<1>1. joined' = joined /\ hired' = hired
  BY DEF InviteCallDies
<1>2. ASSUME NEW a \in JoinCall, JoinEnds(a), UNCHANGED <<review, unhired>>
      PROVE  EmployedInv'
  BY <1>1, <1>2, EmployedJoinSteps
<1>3. ASSUME NEW v \in Review, ReviewEnds(v), joinCall' = joinCall,
             unhired' = IF review[v].step \in {"employee", "hire"}
                        THEN unhired \cup {joined[review[v].m].user} ELSE unhired
      PROVE  EmployedInv'
  <2>1. review' = [review EXCEPT ![v] = NoInviteCall]
    BY <1>3 DEF ReviewEnds
  <2>2. review[v].step \in {"employee", "hire"} => joined[review[v].m].user \in unhired'
    BY <1>3
  <2>3. \A u \in Joiner : AboutToHire(u) => AboutToHire(u)' \/ Hired(u)' \/ u \in unhired'
    BY <1>1, <2>1, <2>2, AboutKept
  <2>4. unhired \subseteq unhired' /\ \A u : Hired(u)' <=> Hired(u)
    BY <1>1, <1>3 DEF Hired
  <2>5. QED
    BY <1>1, <1>3, <2>3, <2>4, EmployedKept
<1>4. QED
  BY <1>2, <1>3 DEF InviteCallDies

LEMMA EmployedStep == ASSUME InviteTypeOK, EmployedInv, [InviteNext]_inviteVars PROVE EmployedInv'
<1>1. CASE (\E u \in Joiner : SetPendingInviteCode(u)) \/ UpdateCode \/ UNCHANGED inviteVars
  <2>1. UNCHANGED <<joined, hired, joinCall, review, unhired>>
    BY <1>1 DEF SetPendingInviteCode, UpdateCode, inviteVars
  <2>2. QED
    BY <2>1 DEF EmployedInv, Hired, AboutToHire
<1>2. QED
  BY <1>1, EmployedJoinSteps, EmployedRedeem, EmployedLooks, EmployedDecides, EmployedHires,
     EmployedRemoves, EmployedDies DEF InviteNext

LEMMA EmployedStart == ASSUME InviteInit PROVE EmployedInv
BY DEF InviteInit, EmployedInv, NoInviteCall

-----------------------------------------------------------------------------
(***************************************************************************)
(* What calls leave behind that never overlap.  While nothing is tangled   *)
(* one call runs at most, of one who joins or of an admin, and it knows    *)
(* that what it has read is still so.  Calls may die.                      *)
(***************************************************************************)
Alone ==
    /\ \A a, b \in JoinCall : joinCall[a].step # "idle" /\ joinCall[b].step # "idle" => a = b
    /\ \A v, w \in Review : review[v].step # "idle" /\ review[w].step # "idle" => v = w
    /\ \A a \in JoinCall, v \in Review : joinCall[a].step = "idle" \/ review[v].step = "idle"

OneMembership(u) == \A m, n \in MembersOf(u) : m = n

\* One employee row at most, for an admitted member or one admitted once and then rejected.
OneEmployee(u) == hired[u] \in {0, 1} /\ (hired[u] = 1 => Confirmed(u) \/ u \in keptOn)

\* What the call that runs knows.
JoinKnows(a) ==
    LET c == joinCall[a] IN
    /\ c.step \in {"redeem", "commit"} => MembersOf(c.user) = {}
    /\ c.step = "commit" /\ c.hires => c.wants = "approved" /\ hired[c.user] = 0

ReviewKnows(v) ==
    LET m == review[v].m IN
    /\ review[v].step # "idle" => ~joined[m].gone
    /\ review[v].step \in {"check", "insert"} => joined[m].decisions = {}
    /\ review[v].step = "hire" => Admitted(m) /\ hired[joined[m].user] = 0
    /\ review[v].step = "employee" => Admitted(m)
    /\ review[v].step = "remove" => "approved" \notin joined[m].decisions

MembersInTurn ==
    /\ Alone
    /\ \A u \in Joiner : OneMembership(u) /\ OneEmployee(u)
    /\ \A a \in JoinCall : JoinKnows(a)
    /\ \A v \in Review : ReviewKnows(v)

InTurnInv == ~tangled => MembersInTurn


\* One call of those who join runs, before and after its step.
LEMMA OneJoinCall ==
    ASSUME InviteTypeOK, Alone, NEW a \in JoinCall, Calm \/ joinCall[a].step # "idle", NEW next,
           joinCall' = [joinCall EXCEPT ![a] = next], review' = review
    PROVE  /\ joinCall'[a] = next /\ Alone'
           /\ \A b \in JoinCall \ {a} : joinCall'[b].step = "idle"
           /\ \A v \in Review : review[v].step = "idle"
<1>1. joinCall'[a] = next /\ \A b \in JoinCall \ {a} : joinCall'[b] = joinCall[b]
  BY DEF InviteTypeOK
<1>2. /\ \A b \in JoinCall \ {a} : joinCall[b].step = "idle"
      /\ \A v \in Review : review[v].step = "idle"
  BY DEF Alone, Calm
<1>3. QED
  BY <1>1, <1>2 DEF Alone

\* Likewise one call of the admins.
LEMMA OneReviewCall ==
    ASSUME InviteTypeOK, Alone, NEW v \in Review, Calm \/ review[v].step # "idle", NEW next,
           review' = [review EXCEPT ![v] = next], joinCall' = joinCall
    PROVE  /\ review'[v] = next /\ Alone'
           /\ \A w \in Review \ {v} : review[w].step = "idle" /\ review'[w].step = "idle"
           /\ \A a \in JoinCall : joinCall[a].step = "idle" /\ joinCall'[a].step = "idle"
<1>1. review'[v] = next /\ \A w \in Review \ {v} : review'[w] = review[w]
  BY DEF InviteTypeOK
<1>2. /\ \A w \in Review \ {v} : review[w].step = "idle"
      /\ \A a \in JoinCall : joinCall[a].step = "idle"
  BY DEF Alone, Calm
<1>3. QED
  BY <1>1, <1>2 DEF Alone

\* A step of one who joins, from what the call knows then and what the rows are.
LEMMA StepOfJoin ==
    ASSUME InviteTypeOK, MembersInTurn, NEW a \in JoinCall, Calm \/ joinCall[a].step # "idle", NEW next,
           joinCall' = [joinCall EXCEPT ![a] = next], review' = review,
           next.step \in {"redeem", "commit"} => MembersOf(next.user)' = {},
           next.step = "commit" /\ next.hires => next.wants = "approved" /\ hired'[next.user] = 0,
           \A u \in Joiner : OneMembership(u)' /\ OneEmployee(u)'
    PROVE  MembersInTurn'
<1>1. /\ joinCall'[a] = next /\ Alone'
      /\ \A b \in JoinCall \ {a} : joinCall'[b].step = "idle"
      /\ \A v \in Review : review[v].step = "idle"
  BY OneJoinCall DEF MembersInTurn
<1>2. \A b \in JoinCall : JoinKnows(b)'
  <2>1. JoinKnows(a)'
    BY <1>1 DEF JoinKnows
  <2>2. \A b \in JoinCall \ {a} : JoinKnows(b)'
    BY <1>1 DEF JoinKnows
  <2>3. QED
    BY <2>1, <2>2
<1>3. \A v \in Review : ReviewKnows(v)'
  BY <1>1 DEF ReviewKnows
<1>4. QED
  BY <1>1, <1>2, <1>3 DEF MembersInTurn

\* Rows that nobody writes stay what they are.
LEMMA RowsStay ==
    ASSUME MembersInTurn, joined' = joined, hired' = hired, keptOn' = keptOn
    PROVE  /\ \A u \in Joiner : OneMembership(u)' /\ OneEmployee(u)'
           /\ \A u : MembersOf(u)' = MembersOf(u)
BY DEF MembersInTurn, OneMembership, OneEmployee, MembersOf, Confirmed, Admitted

\* The steps of one who joins before the transaction that adds the member, or the call dies.
LEMMA JoinInTurn ==
    ASSUME InviteTypeOK, MembersInTurn, ~tangled', NEW a \in JoinCall,
           \/ \E u \in Joiner : UseCode(a, u) \/ ProcessPending(a, u)
           \/ ClearPending(a) \/ FindCode(a) \/ CheckMember(a) \/ BeginRedeem(a)
           \/ /\ joinCall[a].step # "idle" /\ JoinEnds(a)
              /\ UNCHANGED <<joined, hired, review, keptOn>>
    PROVE  MembersInTurn'
<1>1. joined' = joined /\ hired' = hired /\ review' = review /\ keptOn' = keptOn
  BY DEF UseCode, ProcessPending, BeginJoin, ClearPending, FindCode, CheckMember, BeginRedeem
<1>2. /\ \A u \in Joiner : OneMembership(u)' /\ OneEmployee(u)'
      /\ \A u : MembersOf(u)' = MembersOf(u)
  BY <1>1, RowsStay
<1>3. ASSUME NEW next, joinCall' = [joinCall EXCEPT ![a] = next],
             Calm \/ joinCall[a].step # "idle",
             next.step \in {"redeem", "commit"} => MembersOf(next.user) = {},
             next.step = "commit" /\ next.hires => next.wants = "approved" /\ hired[next.user] = 0
      PROVE  MembersInTurn'
  BY <1>1, <1>2, <1>3, StepOfJoin
<1>4. ASSUME JoinEnds(a), joinCall[a].step # "idle" PROVE MembersInTurn'
  <2>1. joinCall' = [joinCall EXCEPT ![a] = NoInviteCall] /\ NoInviteCall.step = "idle"
    BY <1>4 DEF JoinEnds, NoInviteCall
  <2> HIDE DEF NoInviteCall
  <2>2. QED
    BY <1>3, <1>4, <2>1
<1>5. CASE \E u \in Joiner : UseCode(a, u) \/ ProcessPending(a, u)
  <2>1. PICK u \in Joiner, step \in {"find", "clear"} : BeginJoin(a, u, step)
    BY <1>5 DEF UseCode, ProcessPending
  <2> DEFINE new == [step |-> step, user |-> u, wants |-> "pending", hires |-> FALSE]
  <2>2. joinCall' = [joinCall EXCEPT ![a] = new] /\ Calm
    BY <2>1 DEF BeginJoin
  <2>3. new.step \in {"find", "clear"}
    OBVIOUS
  <2> HIDE DEF new
  <2>4. QED
    BY <1>3, <2>2, <2>3
<1>6. CASE ClearPending(a) \/ FindCode(a)
  <2>1. joinCall[a] \in Joining /\ joinCall[a].step # "idle"
    BY <1>6, BusyCalls DEF ClearPending, FindCode
  <2>2. \/ JoinEnds(a)
        \/ joinCall' = [joinCall EXCEPT ![a] = [joinCall[a] EXCEPT !.step = "find"]]
        \/ joinCall' = [joinCall EXCEPT ![a] = [joinCall[a] EXCEPT !.step = "member",
               !.wants = IF code.approval THEN "pending" ELSE "approved"]]
    BY <1>6 DEF ClearPending, FindCode, JoinGoes
  <2>3. /\ [joinCall[a] EXCEPT !.step = "find"].step = "find"
        /\ [joinCall[a] EXCEPT !.step = "member",
               !.wants = IF code.approval THEN "pending" ELSE "approved"].step = "member"
    BY <2>1 DEF Joining
  <2>4. QED
    BY <1>3, <1>4, <2>1, <2>2, <2>3
<1>7. CASE CheckMember(a)
  <2>1. joinCall[a] \in Joining /\ joinCall[a].step # "idle"
    BY <1>7, BusyCalls DEF CheckMember
  <2> DEFINE next == [joinCall[a] EXCEPT !.step = "redeem"]
  <2>2. \/ JoinEnds(a)
        \/ joinCall' = [joinCall EXCEPT ![a] = next] /\ MembersOf(joinCall[a].user) = {}
    BY <1>7 DEF CheckMember, JoinGoes
  <2>3. next.step = "redeem" /\ next.user = joinCall[a].user
    BY <2>1 DEF Joining
  <2> HIDE DEF next
  <2>4. QED
    BY <1>3, <1>4, <2>1, <2>2, <2>3
<1>8. CASE BeginRedeem(a)
  <2>1. joinCall[a] \in Joining /\ joinCall[a].step = "redeem"
    BY <1>8, BusyCalls DEF BeginRedeem
  <2>2. MembersOf(joinCall[a].user) = {}
    BY <2>1 DEF MembersInTurn, JoinKnows
  <2> DEFINE hires == joinCall[a].wants = "approved" /\ hired[joinCall[a].user] = 0
             next == [joinCall[a] EXCEPT !.step = "commit", !.hires = hires]
  <2>3. joinCall' = [joinCall EXCEPT ![a] = next]
    BY <1>8 DEF BeginRedeem
  <2>4. hires => joinCall[a].wants = "approved" /\ hired[joinCall[a].user] = 0
    OBVIOUS
  <2> HIDE DEF hires
  <2>5. /\ next.step = "commit" /\ next.user = joinCall[a].user /\ next.wants = joinCall[a].wants
        /\ next.hires = hires
    BY <2>1 DEF Joining
  <2> HIDE DEF next
  <2>6. QED
    BY <1>3, <2>1, <2>2, <2>3, <2>4, <2>5
<1>9. QED
  BY <1>4, <1>5, <1>6, <1>7, <1>8

\* The member is added for a user who had none, with an employee if the code admits him and
\* he is none already.
LEMMA RedeemInTurn ==
    ASSUME InviteTypeOK, MembersInTurn, NEW a \in JoinCall, Redeem(a)
    PROVE  MembersInTurn'
<1>1. joinCall[a] \in Joining /\ joinCall[a].step = "commit"
  BY BusyCalls DEF Redeem
<1>2. PICK u \in Joiner, wants \in {"pending", "approved"}, hires \in BOOLEAN, n \in Nat :
          /\ joinCall[a].user = u /\ joinCall[a].wants = wants /\ joinCall[a].hires = hires
          /\ Len(joined) + 1 = n
  <2>1. PICK u \in Joiner, wants \in {"pending", "approved"}, hires \in BOOLEAN :
            joinCall[a].user = u /\ joinCall[a].wants = wants /\ joinCall[a].hires = hires
    BY <1>1 DEF Joining
  <2>2. Len(joined) + 1 \in Nat
    BY DEF InviteTypeOK
  <2>3. QED
    BY <2>1, <2>2
<1>3. /\ MembersOf(u) = {} /\ hired[u] \in {0, 1} /\ (hired[u] = 1 => u \in keptOn)
      /\ hires => wants = "approved" /\ hired[u] = 0
  BY <1>1, <1>2 DEF MembersInTurn, JoinKnows, OneEmployee, Confirmed
<1> DEFINE new == [user |-> u, status |-> wants, decisions |-> {}, gone |-> FALSE]
<1>4. /\ joined' = Append(joined, new) /\ review' = review /\ keptOn' = keptOn
      /\ joinCall' = [joinCall EXCEPT ![a] = NoInviteCall]
      /\ hired' = IF hires THEN [hired EXCEPT ![u] = hired[u] + 1] ELSE hired
  BY <1>2 DEF Redeem, JoinEnds
<1>5. new.user = u /\ new.status = wants /\ new.decisions = {} /\ ~new.gone
  OBVIOUS
<1>6. joined \in Seq(Membership) /\ hired \in [Joiner -> Nat]
  BY DEF InviteTypeOK
<1> HIDE DEF new
<1>7. /\ DOMAIN joined' = DOMAIN joined \cup {n} /\ n \notin DOMAIN joined
      /\ joined'[n] = new /\ \A m \in DOMAIN joined : joined'[m] = joined[m]
  BY <1>2, <1>4, <1>6
<1>8. /\ MembersOf(u)' = {n}
      /\ \A w \in Joiner \ {u} : MembersOf(w)' = MembersOf(w)
  BY <1>3, <1>5, <1>7 DEF MembersOf
<1>9. \A w \in Joiner \ {u} : OneMembership(w)' /\ OneEmployee(w)'
  <2> SUFFICES ASSUME NEW w \in Joiner \ {u} PROVE OneMembership(w)' /\ OneEmployee(w)'
    OBVIOUS
  <2>1. hired'[w] = hired[w]
    BY <1>4, <1>6
  <2>2. MembersOf(w)' = MembersOf(w) /\ \A m \in MembersOf(w) : Admitted(m)' = Admitted(m)
    BY <1>7, <1>8 DEF MembersOf, Admitted
  <2>3. QED
    BY <1>4, <2>1, <2>2 DEF MembersInTurn, OneMembership, OneEmployee, Confirmed
<1>10. OneMembership(u)' /\ OneEmployee(u)'
  <2>1. wants = "approved" => Confirmed(u)'
    <3>1. wants = "approved" => Admitted(n)'
      BY <1>5, <1>7 DEF Admitted
    <3>2. QED
      BY <1>8, <3>1 DEF Confirmed
  <2>2. /\ hires => hired'[u] = 1
        /\ ~hires => hired'[u] = hired[u]
    <3>1. hires => hired' = [hired EXCEPT ![u] = hired[u] + 1] /\ hired[u] + 1 = 1
      BY <1>3, <1>4
    <3>2. QED
      BY <1>4, <1>6, <3>1
  <2>3. OneMembership(u)'
    BY <1>8 DEF OneMembership
  <2>4. OneEmployee(u)'
    BY <1>3, <1>4, <2>1, <2>2 DEF OneEmployee
  <2>5. QED
    BY <2>3, <2>4
<1>11. NoInviteCall.step = "idle"
  BY DEF NoInviteCall
<1> HIDE DEF NoInviteCall
<1>12. QED
  BY <1>1, <1>4, <1>9, <1>10, <1>11, StepOfJoin


\* A step of an admin's call, from what the call knows then and what the rows are.
LEMMA StepOfReview ==
    ASSUME InviteTypeOK, MembersInTurn, NEW v \in Review, Calm \/ review[v].step # "idle", NEW next,
           review' = [review EXCEPT ![v] = next], joinCall' = joinCall,
           ReviewKnows(v)', \A u \in Joiner : OneMembership(u)' /\ OneEmployee(u)'
    PROVE  MembersInTurn'
<1>1. /\ Alone' /\ \A w \in Review \ {v} : review'[w].step = "idle"
      /\ \A a \in JoinCall : joinCall'[a].step = "idle"
  BY OneReviewCall DEF MembersInTurn
<1>2. \A w \in Review : ReviewKnows(w)'
  <2>1. \A w \in Review \ {v} : ReviewKnows(w)'
    BY <1>1 DEF ReviewKnows
  <2>2. QED
    BY <2>1
<1>3. \A a \in JoinCall : JoinKnows(a)'
  BY <1>1 DEF JoinKnows
<1>4. QED
  BY <1>1, <1>2, <1>3 DEF MembersInTurn

\* The steps of an admin's call that write no row, or the call dies.
LEMMA ReviewLooks ==
    ASSUME InviteTypeOK, MembersInTurn, ~tangled', NEW v \in Review,
           \/ BeginReview(v) \/ CheckDecided(v) \/ CheckEmployee(v)
           \/ /\ review[v].step # "idle" /\ ReviewEnds(v)
              /\ UNCHANGED <<joined, hired, joinCall, keptOn>>
    PROVE  MembersInTurn'
<1>1. joined' = joined /\ hired' = hired /\ joinCall' = joinCall /\ keptOn' = keptOn
  BY DEF BeginReview, CheckDecided, CheckEmployee
<1>2. \A u \in Joiner : OneMembership(u)' /\ OneEmployee(u)'
  BY <1>1, RowsStay
<1>3. CASE BeginReview(v)
  <2>1. PICK m \in Listed, verdict \in {"approved", "rejected"} :
            review' = [review EXCEPT ![v] = [step |-> "check", m |-> m, verdict |-> verdict]]
    BY <1>3 DEF BeginReview
  <2>2. Calm
    BY <1>3 DEF BeginReview
  <2> DEFINE new == [step |-> "check", m |-> m, verdict |-> verdict]
  <2>3. new.step = "check" /\ new.m = m
    OBVIOUS
  <2>4. ~joined[m].gone /\ joined[m].decisions = {}
    BY DEF Listed
  <2>5. review' = [review EXCEPT ![v] = new] /\ review'[v] = new
    BY <2>1 DEF InviteTypeOK
  <2> HIDE DEF new
  <2>6. ReviewKnows(v)'
    BY <1>1, <2>3, <2>4, <2>5 DEF ReviewKnows
  <2>7. QED
    BY <1>1, <1>2, <2>2, <2>5, <2>6, StepOfReview
<1>4. ASSUME ReviewEnds(v), review[v].step # "idle" PROVE MembersInTurn'
  <2>1. review' = [review EXCEPT ![v] = NoInviteCall] /\ NoInviteCall.step = "idle"
    BY <1>4 DEF ReviewEnds, NoInviteCall
  <2> HIDE DEF NoInviteCall
  <2>2. review'[v].step = "idle"
    BY <2>1 DEF InviteTypeOK
  <2>3. ReviewKnows(v)'
    BY <2>2 DEF ReviewKnows
  <2>4. QED
    BY <1>1, <1>2, <1>4, <2>1, <2>3, StepOfReview
<1>5. ASSUME NEW step, ReviewGoes(v, step), review[v] \in Reviewing, review[v].step # "idle",
             \/ step = "insert" /\ review[v].step = "check"
             \/ /\ step = "hire" /\ review[v].step = "employee"
                /\ hired[joined[review[v].m].user] = 0
      PROVE  MembersInTurn'
  <2> DEFINE next == [review[v] EXCEPT !.step = step]
  <2>1. review' = [review EXCEPT ![v] = next]
    BY <1>5 DEF ReviewGoes
  <2>2. next.step = step /\ next.m = review[v].m
    BY <1>5 DEF Reviewing
  <2> HIDE DEF next
  <2>3. review'[v] = next
    BY <2>1 DEF InviteTypeOK
  <2>4. ReviewKnows(v)
    BY DEF MembersInTurn
  <2>5. ReviewKnows(v)'
    BY <1>1, <1>5, <2>2, <2>3, <2>4 DEF ReviewKnows, Admitted
  <2>6. QED
    BY <1>1, <1>2, <1>5, <2>1, <2>5, StepOfReview
<1>6. CASE CheckDecided(v)
  <2>1. review[v] \in Reviewing /\ review[v].step = "check"
    BY <1>6, BusyCalls DEF CheckDecided
  <2>2. ReviewEnds(v) \/ ReviewGoes(v, "insert")
    BY <1>6 DEF CheckDecided
  <2>3. QED
    BY <1>4, <1>5, <2>1, <2>2
<1>7. CASE CheckEmployee(v)
  <2>1. review[v] \in Reviewing /\ review[v].step = "employee"
    BY <1>7, BusyCalls DEF CheckEmployee
  <2>2. \/ ReviewEnds(v)
        \/ ReviewGoes(v, "hire") /\ hired[joined[review[v].m].user] = 0
    BY <1>7 DEF CheckEmployee
  <2>3. QED
    BY <1>4, <1>5, <2>1, <2>2
<1>8. QED
  BY <1>3, <1>4, <1>6, <1>7


\* A decision is written, the first about its member: an approval admits him.
LEMMA DecisionInTurn ==
    ASSUME InviteTypeOK, MembersInTurn, NEW v \in Review, InsertDecision(v)
    PROVE  MembersInTurn'
<1>1. review[v] \in Reviewing /\ review[v].step = "insert" /\ review[v].m \in DOMAIN joined
  BY BusyCalls DEF InsertDecision
<1>2. PICK m \in DOMAIN joined, verdict \in {"approved", "rejected"} :
          review[v].m = m /\ review[v].verdict = verdict
  BY <1>1 DEF Reviewing
<1>3. ~joined[m].gone /\ joined[m].decisions = {}
  BY <1>1, <1>2 DEF MembersInTurn, ReviewKnows
<1>4. PICK u \in Joiner : joined[m].user = u
  BY RowTyped
<1>5. PICK step : step = IF verdict = "approved" THEN "employee" ELSE "remove"
  OBVIOUS
<1> DEFINE row == [joined[m] EXCEPT !.decisions = {verdict}]
           next == [review[v] EXCEPT !.step = step]
<1>6. /\ joined' = [joined EXCEPT ![m] = row] /\ review' = [review EXCEPT ![v] = next]
      /\ hired' = hired /\ joinCall' = joinCall /\ keptOn' = keptOn
  <2>1. joined' = [joined EXCEPT ![m].decisions = joined[m].decisions \cup {verdict}]
    BY <1>2, <1>3 DEF InsertDecision
  <2>2. joined[m].decisions \cup {verdict} = {verdict}
    BY <1>3
  <2>3. joined' = [joined EXCEPT ![m].decisions = {verdict}]
    BY <2>1, <2>2
  <2>4. QED
    BY <1>2, <1>3, <1>5, <2>3 DEF InsertDecision, ReviewGoes
<1>7. /\ row.user = u /\ row.status = joined[m].status /\ row.decisions = {verdict}
      /\ row.gone = joined[m].gone
  BY <1>4, RowTyped DEF Membership
<1>8. next.step = step /\ next.m = m
  BY <1>1, <1>2 DEF Reviewing
<1> HIDE DEF row, next
<1>9. /\ DOMAIN joined' = DOMAIN joined /\ joined'[m] = row
      /\ \A n \in DOMAIN joined \ {m} : joined'[n] = joined[n]
  BY <1>6
<1>10. \A w : MembersOf(w)' = MembersOf(w)
  <2>1. /\ DOMAIN joined' = DOMAIN joined
        /\ \A n \in DOMAIN joined :
              joined'[n].user = joined[n].user /\ joined'[n].gone = joined[n].gone
    BY <1>4, <1>7, <1>9
  <2>2. QED
    BY <2>1 DEF MembersOf
<1>11. /\ \A n \in DOMAIN joined : Admitted(n) => Admitted(n)'
       /\ verdict = "approved" => Admitted(m)'
  <2>1. \A n \in DOMAIN joined \ {m} : Admitted(n) => Admitted(n)'
    BY <1>9 DEF Admitted
  <2>2. Admitted(m)' <=> (joined[m].status = "approved" \/ verdict = "approved")
    BY <1>7, <1>9 DEF Admitted
  <2>3. Admitted(m) => Admitted(m)'
    BY <1>3, <2>2 DEF Admitted
  <2>4. QED
    BY <2>1, <2>2, <2>3
<1>12. review'[v] = next
  BY <1>6 DEF InviteTypeOK
<1>13. ASSUME NEW w \in Joiner PROVE OneMembership(w)' /\ OneEmployee(w)'
  <2>1. OneEmployee(w) /\ OneMembership(w)
    BY DEF MembersInTurn
  <2>2. Confirmed(w) => Confirmed(w)'
    BY <1>10, <1>11 DEF Confirmed, MembersOf
  <2>3. OneMembership(w)'
    BY <1>10, <2>1 DEF OneMembership
  <2>4. OneEmployee(w)'
    BY <1>6, <2>1, <2>2 DEF OneEmployee
  <2>5. QED
    BY <2>3, <2>4
<1>14. ReviewKnows(v)'
  <2>1. review'[v].m = m /\ review'[v].step = step /\ ~joined'[m].gone
    BY <1>3, <1>7, <1>8, <1>9, <1>12
  <2>2. step = "employee" => Admitted(m)'
    BY <1>5, <1>11
  <2>3. step = "remove" => "approved" \notin joined'[m].decisions
    BY <1>2, <1>5, <1>7, <1>9
  <2>4. step \in {"employee", "remove"}
    BY <1>5
  <2>5. QED
    BY <2>1, <2>2, <2>3, <2>4 DEF ReviewKnows, Admitted
<1>15. QED
  BY <1>1, <1>6, <1>13, <1>14, StepOfReview


\* The employee row of a member who is admitted and had none.
LEMMA HireInTurn ==
    ASSUME InviteTypeOK, MembersInTurn, NEW v \in Review, Hire(v)
    PROVE  MembersInTurn'
<1>1. review[v] \in Reviewing /\ review[v].step = "hire" /\ review[v].m \in DOMAIN joined
  BY BusyCalls DEF Hire
<1>2. PICK m \in DOMAIN joined, u \in Joiner : review[v].m = m /\ joined[m].user = u
  BY <1>1, RowTyped
<1>3. ~joined[m].gone /\ Admitted(m) /\ hired[u] = 0
  BY <1>1, <1>2 DEF MembersInTurn, ReviewKnows
<1>4. /\ joined' = joined /\ joinCall' = joinCall /\ keptOn' = keptOn
      /\ review' = [review EXCEPT ![v] = NoInviteCall] /\ hired' = [hired EXCEPT ![u] = hired[u] + 1]
  BY <1>2 DEF Hire, ReviewEnds
<1>5. hired'[u] = 1 /\ \A w \in Joiner \ {u} : hired'[w] = hired[w]
  <2>1. hired[u] + 1 = 1
    BY <1>3
  <2>2. QED
    BY <1>4, <2>1 DEF InviteTypeOK
<1>6. /\ \A w : MembersOf(w)' = MembersOf(w)
      /\ \A w : Confirmed(w)' <=> Confirmed(w)
  BY <1>4 DEF MembersOf, Confirmed, Admitted
<1>7. Confirmed(u)
  <2>1. m \in MembersOf(u)
    BY <1>2, <1>3 DEF MembersOf
  <2>2. QED
    BY <1>3, <2>1 DEF Confirmed
<1>8. ASSUME NEW w \in Joiner PROVE OneMembership(w)' /\ OneEmployee(w)'
  <2>1. OneEmployee(w) /\ OneMembership(w)
    BY DEF MembersInTurn
  <2>2. OneEmployee(w)'
    <3>1. CASE w = u
      BY <1>5, <1>6, <1>7, <3>1 DEF OneEmployee
    <3>2. CASE w # u
      BY <1>4, <1>5, <1>6, <2>1, <3>2 DEF OneEmployee
    <3>3. QED
      BY <3>1, <3>2
  <2>3. OneMembership(w)'
    BY <1>6, <2>1 DEF OneMembership
  <2>4. QED
    BY <2>2, <2>3
<1>9. NoInviteCall.step = "idle" /\ review'[v] = NoInviteCall
  BY <1>4 DEF NoInviteCall, InviteTypeOK
<1> HIDE DEF NoInviteCall
<1>10. ReviewKnows(v)'
  BY <1>9 DEF ReviewKnows
<1>11. QED
  BY <1>1, <1>4, <1>8, <1>10, StepOfReview

\* The member who goes is the only one of his user.  Whoever stays an employee was admitted
\* by the code itself: no admin had approved him.
LEMMA RemoveInTurn ==
    ASSUME InviteTypeOK, MembersInTurn, NEW v \in Review, RemoveMember(v)
    PROVE  MembersInTurn'
<1>1. review[v] \in Reviewing /\ review[v].step = "remove" /\ review[v].m \in DOMAIN joined
  BY BusyCalls DEF RemoveMember
<1>2. PICK m \in DOMAIN joined : review[v].m = m
  BY <1>1
<1>3. "approved" \notin joined[m].decisions
  BY <1>1, <1>2 DEF MembersInTurn, ReviewKnows
<1>4. /\ joined' = [joined EXCEPT ![m].gone = TRUE, ![m].decisions = {}]
      /\ review' = [review EXCEPT ![v] = NoInviteCall] /\ hired' = hired /\ joinCall' = joinCall
      /\ keptOn \subseteq keptOn'
      /\ joined[m].status = "approved" => joined[m].user \in keptOn'
  BY <1>2 DEF RemoveMember, ReviewEnds
<1>5. /\ DOMAIN joined' = DOMAIN joined /\ joined'[m].gone
      /\ \A n \in DOMAIN joined \ {m} : joined'[n] = joined[n]
  BY <1>4, RowTyped DEF Membership
<1>6. /\ \A w : MembersOf(w)' = MembersOf(w) \ {m}
      /\ \A n \in DOMAIN joined \ {m} : Admitted(n)' <=> Admitted(n)
  BY <1>5 DEF MembersOf, Admitted
<1>7. \A w : Confirmed(w) => Confirmed(w)' \/ w \in keptOn'
  <2> SUFFICES ASSUME NEW w, NEW n \in MembersOf(w), Admitted(n)
               PROVE  Confirmed(w)' \/ w \in keptOn'
    BY DEF Confirmed
  <2>1. n \in DOMAIN joined /\ joined[n].user = w
    BY DEF MembersOf
  <2>2. CASE n = m
    BY <1>3, <1>4, <2>1, <2>2 DEF Admitted
  <2>3. CASE n # m
    BY <1>6, <2>1, <2>3 DEF Confirmed
  <2>4. QED
    BY <2>2, <2>3
<1>8. ASSUME NEW w \in Joiner PROVE OneMembership(w)' /\ OneEmployee(w)'
  <2>1. OneEmployee(w) /\ OneMembership(w)
    BY DEF MembersInTurn
  <2>2. OneEmployee(w)'
    BY <1>4, <1>7, <2>1 DEF OneEmployee
  <2>3. OneMembership(w)'
    BY <1>6, <2>1 DEF OneMembership
  <2>4. QED
    BY <2>2, <2>3
<1>9. NoInviteCall.step = "idle" /\ review'[v] = NoInviteCall
  BY <1>4 DEF NoInviteCall, InviteTypeOK
<1> HIDE DEF NoInviteCall
<1>10. ReviewKnows(v)'
  BY <1>9 DEF ReviewKnows
<1>11. QED
  BY <1>1, <1>4, <1>8, <1>10, StepOfReview

LEMMA InTurnStart == ASSUME InviteInit PROVE MembersInTurn
<1>1. /\ joined = <<>> /\ hired = [u \in Joiner |-> 0]
      /\ \A a \in JoinCall : joinCall[a].step = "idle"
      /\ \A v \in Review : review[v].step = "idle"
  BY DEF InviteInit, NoInviteCall
<1>2. \A u \in Joiner : MembersOf(u) = {} /\ hired[u] = 0
  BY <1>1 DEF MembersOf
<1>3. \A u \in Joiner : OneMembership(u) /\ OneEmployee(u)
  BY <1>2 DEF OneMembership, OneEmployee
<1>4. Alone /\ (\A a \in JoinCall : JoinKnows(a)) /\ (\A v \in Review : ReviewKnows(v))
  BY <1>1 DEF Alone, JoinKnows, ReviewKnows
<1>5. QED
  BY <1>3, <1>4 DEF MembersInTurn

LEMMA InTurnStep == ASSUME InviteTypeOK, InTurnInv, [InviteNext]_inviteVars PROVE InTurnInv'
<1> SUFFICES ASSUME ~tangled' PROVE MembersInTurn'
  BY DEF InTurnInv
<1>1. ~tangled
  <2>1. CASE UNCHANGED inviteVars
    BY <2>1, SMTT(60) DEF inviteVars
  <2>2. CASE InviteNext
    BY <2>2
       DEF InviteNext, SetPendingInviteCode, UseCode, ProcessPending, BeginJoin, ClearPending,
           FindCode, CheckMember, BeginRedeem, Redeem, UpdateCode, BeginReview, CheckDecided,
           InsertDecision, CheckEmployee, Hire, RemoveMember, InviteCallDies
  <2>3. QED
    BY <2>1, <2>2
<1>2. MembersInTurn
  BY <1>1 DEF InTurnInv
<1>3. CASE (\E u \in Joiner : SetPendingInviteCode(u)) \/ UpdateCode \/ UNCHANGED inviteVars
  <2>1. UNCHANGED <<joined, hired, joinCall, review, keptOn>>
    BY <1>3 DEF SetPendingInviteCode, UpdateCode, inviteVars
  <2>2. /\ \A u \in Joiner : OneMembership(u)' /\ OneEmployee(u)'
        /\ \A u : MembersOf(u)' = MembersOf(u)
    BY <1>2, <2>1, RowsStay
  <2>3. \A a \in JoinCall : JoinKnows(a)'
    BY <1>2, <2>1, <2>2 DEF MembersInTurn, JoinKnows
  <2>4. \A v \in Review : ReviewKnows(v)'
    BY <1>2, <2>1 DEF MembersInTurn, ReviewKnows, Admitted
  <2>5. QED
    BY <1>2, <2>1, <2>2, <2>3, <2>4 DEF MembersInTurn, Alone
<1>4. CASE InviteCallDies
  <2>1. UNCHANGED <<joined, hired, keptOn>>
    BY <1>4 DEF InviteCallDies
  <2>2. ASSUME NEW a \in JoinCall, joinCall[a].step # "idle", JoinEnds(a), review' = review
        PROVE  MembersInTurn'
    BY <1>2, <2>1, <2>2, JoinInTurn
  <2>3. ASSUME NEW v \in Review, review[v].step # "idle", ReviewEnds(v), joinCall' = joinCall
        PROVE  MembersInTurn'
    BY <1>2, <2>1, <2>3, ReviewLooks
  <2>4. QED
    BY <1>4, <2>2, <2>3 DEF InviteCallDies
<1>5. QED
  BY <1>2, <1>3, <1>4, JoinInTurn, RedeemInTurn, ReviewLooks, DecisionInTurn, HireInTurn,
     RemoveInTurn DEF InviteNext

LEMMA SettledRow ==
    ASSUME InviteTypeOK, EmployedInv, InTurnInv PROVE SettledMembersAgree
<1> SUFFICES ASSUME Calm, NEW u \in Joiner
             PROVE  /\ Confirmed(u) => hired[u] > 0 \/ u \in unhired
                    /\ ~tangled =>
                          /\ Cardinality(MembersOf(u)) <= 1 /\ hired[u] <= 1
                          /\ hired[u] = 1 => Confirmed(u) \/ u \in keptOn
  BY DEF SettledMembersAgree
<1>1. Confirmed(u) => hired[u] > 0 \/ u \in unhired
  <2>1. ~AboutToHire(u)
    BY DEF AboutToHire, Calm
  <2>2. ASSUME NEW m \in MembersOf(u), Admitted(m)
        PROVE  hired[u] > 0 \/ u \in unhired
    <3>1. m \in DOMAIN joined /\ joined[m].user = u
      BY <2>2 DEF MembersOf
    <3>2. QED
      BY <2>1, <2>2, <3>1 DEF EmployedInv, Admitted, Hired
  <2>3. QED
    BY <2>2 DEF Confirmed
<1>2. ASSUME ~tangled
      PROVE  /\ Cardinality(MembersOf(u)) <= 1 /\ hired[u] <= 1
             /\ hired[u] = 1 => Confirmed(u) \/ u \in keptOn
  <2>1. OneMembership(u) /\ OneEmployee(u)
    BY <1>2 DEF InTurnInv, MembersInTurn
  <2>2. Cardinality(MembersOf(u)) <= 1
    <3>1. CASE MembersOf(u) = {}
      BY <3>1, FS_EmptySet
    <3>2. CASE MembersOf(u) # {}
      <4>1. PICK n \in MembersOf(u) : MembersOf(u) = {n}
        BY <2>1, <3>2 DEF OneMembership
      <4>2. Cardinality({n}) = 1
        BY FS_Singleton, Zenon
      <4>3. QED
        BY <4>1, <4>2
    <3>3. QED
      BY <3>1, <3>2
  <2>3. QED
    BY <2>1, <2>2 DEF OneEmployee
<1>3. QED
  BY <1>1, <1>2

\* However many users, calls and limits there are, whatever overlaps and whatever dies: once
\* no call is at work, a user with a membership that the code or an admin approved is an
\* employee, but for one whose approval died between its two rows.  And as long as no two
\* calls have overlapped, a user has one membership and one employee row at most, the row
\* only with an approved membership or after an admin rejected a member whom the code itself
\* had approved.
THEOREM SettledMembersAgreeCorrect == InviteSpec => []SettledMembersAgree
<1>1. InviteInit => EmployedInv /\ InTurnInv
  BY InTurnStart, EmployedStart DEF InTurnInv
<1>2. InviteTypeOK /\ EmployedInv /\ InTurnInv /\ [InviteNext]_inviteVars => EmployedInv' /\ InTurnInv'
  BY InTurnStep, EmployedStep
<1>3. InviteTypeOK /\ EmployedInv /\ InTurnInv => SettledMembersAgree
  BY SettledRow
<1>4. QED
  BY <1>1, <1>2, <1>3, InviteTypeCorrect, PTL DEF InviteSpec

-----------------------------------------------------------------------------
(***************************************************************************)
(* Shifts and shift requests.                                              *)
(***************************************************************************)


-----------------------------------------------------------------------------
(***************************************************************************)
(* Type correctness.                                                       *)
(***************************************************************************)
ShiftCalls == {NoCall} \cup Asking \cup Deciding \cup Planning

\* The step of a call tells its kind.
LEMMA ShiftCallKinds ==
    ASSUME ShiftTypeOK, NEW s \in ShiftCall
    PROVE  /\ shiftCall[s].step \in {"check", "insert"} => shiftCall[s] \in Asking
           /\ shiftCall[s].step \in {"assign", "approve", "others", "reject", "cancel"} =>
                 shiftCall[s] \in Deciding /\ shiftCall[s].r \in DOMAIN wish
           /\ shiftCall[s].step \in {"publish", "delete"} => shiftCall[s] \in Planning
BY DEF ShiftTypeOK, NoCall, Asking, Deciding, Planning

\* A call that goes on stays of its kind, and about its request.
LEMMA ShiftCallMoves ==
    ASSUME ShiftTypeOK, NEW s \in ShiftCall, DOMAIN wish \subseteq DOMAIN wish',
           \/ CallEnds(s)
           \/ shiftCall[s].step = "check" /\ CallGoes(s, "insert")
           \/ shiftCall[s].step = "assign" /\ CallGoes(s, "approve")
           \/ shiftCall[s].step = "approve" /\ CallGoes(s, "others")
    PROVE  /\ shiftCall' \in [ShiftCall -> ShiftCalls]
           /\ \A t \in ShiftCall : shiftCall'[t] \in Deciding => shiftCall'[t].r \in DOMAIN wish'
<1>1. PICK next : /\ shiftCall' = [shiftCall EXCEPT ![s] = next]
                  /\ next \in ShiftCalls
                  /\ next \in Deciding => next.r \in DOMAIN wish'
  <2>1. CASE CallEnds(s)
    <3>1. NoCall \notin Deciding
      BY DEF NoCall, Deciding
    <3>2. QED
      BY <2>1, <3>1 DEF CallEnds, ShiftCalls
  <2>2. CASE shiftCall[s].step = "check" /\ CallGoes(s, "insert")
    <3> DEFINE next == [shiftCall[s] EXCEPT !.step = "insert"]
    <3>1. shiftCall[s] \in Asking
      BY <2>2, ShiftCallKinds
    <3>2. next \in Asking /\ next.step = "insert"
      BY <3>1 DEF Asking
    <3>3. next \notin Deciding
      BY <3>2 DEF Deciding
    <3>4. shiftCall' = [shiftCall EXCEPT ![s] = next]
      BY <2>2 DEF CallGoes
    <3> HIDE DEF next
    <3>5. QED
      BY <3>2, <3>3, <3>4 DEF ShiftCalls
  <2>3. ASSUME NEW step \in {"approve", "others"}, shiftCall[s].step \in {"assign", "approve"},
               CallGoes(s, step)
        PROVE  \E next : /\ shiftCall' = [shiftCall EXCEPT ![s] = next]
                         /\ next \in ShiftCalls
                         /\ next \in Deciding => next.r \in DOMAIN wish'
    <3> DEFINE next == [shiftCall[s] EXCEPT !.step = step]
    <3>1. shiftCall[s] \in Deciding /\ shiftCall[s].r \in DOMAIN wish
      BY <2>3, ShiftCallKinds
    <3>2. next \in Deciding /\ next.r = shiftCall[s].r
      BY <3>1 DEF Deciding
    <3>3. shiftCall' = [shiftCall EXCEPT ![s] = next]
      BY <2>3 DEF CallGoes
    <3> HIDE DEF next
    <3>4. QED
      BY <3>1, <3>2, <3>3 DEF ShiftCalls
  <2>4. QED
    BY <2>1, <2>2, <2>3
<1>2. QED
  BY <1>1 DEF ShiftTypeOK, ShiftCalls

\* A call that begins.
LEMMA ShiftCallBegins ==
    ASSUME ShiftTypeOK, NEW s \in ShiftCall, NEW call \in ShiftCalls, BeginShiftCall(s, call),
           call \in Deciding => call.r \in DOMAIN wish
    PROVE  ShiftTypeOK'
<1>1. shiftCall' = [shiftCall EXCEPT ![s] = call] /\ wish' = wish
  BY DEF BeginShiftCall
<1>2. /\ shiftCall' \in [ShiftCall -> ShiftCalls]
      /\ \A t \in ShiftCall : shiftCall'[t] \in Deciding => shiftCall'[t].r \in DOMAIN wish'
  BY <1>1 DEF ShiftTypeOK, ShiftCalls
<1>3. wishCalls' \in 0..MaxShiftCalls /\ entangled' \in BOOLEAN
  <2>1. entangled' \in BOOLEAN
    BY DEF BeginShiftCall, ShiftTypeOK
  <2>2. wishCalls' \in 0..MaxShiftCalls
    BY ShiftBounds DEF BeginShiftCall, ShiftTypeOK
  <2>3. QED
    BY <2>1, <2>2
<1>4. UNCHANGED <<shift, wish, assigned>>
  BY DEF BeginShiftCall
<1>5. QED
  BY <1>2, <1>3, <1>4 DEF ShiftTypeOK, ShiftCalls

\* Asking, deciding and planning begin with what they have read.
LEMMA BeginsTyped ==
    ASSUME ShiftTypeOK, NEW s \in ShiftCall,
           RequestSwap(s) \/ RequestPickup(s) \/ BeginDecision(s) \/ BeginPlanning(s)
    PROVE  ShiftTypeOK'
<1>1. ASSUME NEW type \in {"swap", "pickup"}, NEW by \in Worker, NEW target \in Worker \cup {Nobody},
             NEW which \in SUBSET {"swap", "pickup"}, Ask(s, type, by, target, which)
      PROVE  ShiftTypeOK'
  <2> DEFINE w == [type |-> type, by |-> by, target |-> target, status |-> "pending"]
             call == [step |-> "check", which |-> which, wish |-> w]
  <2>1. w \in Wish
    BY DEF Wish
  <2>2. BeginShiftCall(s, call)
    BY <1>1 DEF Ask
  <2> HIDE DEF w
  <2>3. call \in Asking /\ call.step = "check"
    BY <2>1 DEF Asking
  <2>4. call \notin Deciding
    BY <2>3 DEF Deciding
  <2> HIDE DEF call
  <2>5. QED
    BY <2>2, <2>3, <2>4, ShiftCallBegins DEF ShiftCalls
<1>2. CASE RequestSwap(s)
  BY <1>1, <1>2 DEF RequestSwap
<1>3. CASE RequestPickup(s)
  BY <1>1, <1>3 DEF RequestPickup
<1>4. CASE BeginDecision(s)
  <2>1. PICK r \in DOMAIN wish, step \in {"assign", "reject", "cancel"} :
            BeginShiftCall(s, [step |-> step, r |-> r])
    BY <1>4 DEF BeginDecision
  <2> DEFINE call == [step |-> step, r |-> r]
  <2>2. r \in Nat
    BY DEF ShiftTypeOK
  <2>3. call \in Deciding /\ call.r \in DOMAIN wish
    BY <2>2 DEF Deciding
  <2>4. BeginShiftCall(s, call)
    BY <2>1
  <2> HIDE DEF call
  <2>5. QED
    BY <2>3, <2>4, ShiftCallBegins DEF ShiftCalls
<1>5. CASE BeginPlanning(s)
  <2>1. PICK step \in {"publish", "delete"} : BeginShiftCall(s, [step |-> step])
    BY <1>5 DEF BeginPlanning
  <2> DEFINE call == [step |-> step]
  <2>2. call \in Planning /\ call.step \in {"publish", "delete"}
    BY DEF Planning
  <2>3. call \notin Deciding
    BY <2>2 DEF Deciding
  <2>4. BeginShiftCall(s, call)
    BY <2>1
  <2> HIDE DEF call
  <2>5. QED
    BY <2>2, <2>3, <2>4, ShiftCallBegins DEF ShiftCalls
<1>6. QED
  BY <1>2, <1>3, <1>4, <1>5

\* Writing the status of a request changes nothing else of it.
LEMMA WriteFields ==
    ASSUME ShiftTypeOK, NEW r \in DOMAIN wish, NEW status \in {"approved", "rejected", "deleted"},
           Write(r, status)
    PROVE  /\ wish' \in Seq(Wish) /\ DOMAIN wish' = DOMAIN wish
           /\ \A q \in DOMAIN wish \ {r} : wish'[q] = wish[q]
           /\ wish'[r].type = wish[r].type /\ wish'[r].by = wish[r].by
           /\ wish'[r].target = wish[r].target
           /\ wish'[r].status = IF wish[r].status = "deleted" THEN "deleted" ELSE status
<1> DEFINE next == [wish[r] EXCEPT !.status = IF @ = "deleted" THEN @ ELSE status]
<1>1. wish[r] \in Wish /\ wish \in Seq(Wish)
  BY DEF ShiftTypeOK
<1>2. /\ next \in Wish /\ next.type = wish[r].type /\ next.by = wish[r].by
      /\ next.target = wish[r].target
      /\ next.status = IF wish[r].status = "deleted" THEN "deleted" ELSE status
  BY <1>1 DEF Wish
<1>3. wish' = [wish EXCEPT ![r] = next]
  BY DEF Write
<1> HIDE DEF next
<1>4. QED
  BY <1>1, <1>2, <1>3

\* Rejecting the other pickups, likewise ...
LEMMA OthersFields ==
    ASSUME ShiftTypeOK, wish' = OthersRejected
    PROVE  /\ wish' \in Seq(Wish) /\ DOMAIN wish' = DOMAIN wish
           /\ \A q \in DOMAIN wish :
                 /\ wish'[q].type = wish[q].type /\ wish'[q].by = wish[q].by
                 /\ wish'[q].target = wish[q].target
                 /\ wish'[q].status = IF wish[q].type = "pickup" /\ wish[q].status = "pending"
                                      THEN "rejected" ELSE wish[q].status
<1>1. ASSUME NEW q \in DOMAIN wish
      PROVE  /\ wish'[q] \in Wish
             /\ wish'[q].type = wish[q].type /\ wish'[q].by = wish[q].by
             /\ wish'[q].target = wish[q].target
             /\ wish'[q].status = IF wish[q].type = "pickup" /\ wish[q].status = "pending"
                                  THEN "rejected" ELSE wish[q].status
  <2>1. wish[q] \in Wish
    BY DEF ShiftTypeOK
  <2>2. wish'[q] = IF wish[q].type = "pickup" /\ wish[q].status = "pending"
                   THEN [wish[q] EXCEPT !.status = "rejected"] ELSE wish[q]
    BY DEF OthersRejected
  <2>3. QED
    BY <2>1, <2>2 DEF Wish
<1>2. DOMAIN wish' = DOMAIN wish /\ DOMAIN wish = 1..Len(wish) /\ Len(wish) \in Nat
  BY DEF OthersRejected, ShiftTypeOK
<1>3. wish' = [q \in DOMAIN wish |-> wish'[q]]
  BY DEF OthersRejected
<1>4. wish' \in [1..Len(wish) -> Wish]
  BY <1>1, <1>2, <1>3
<1>5. wish' \in Seq(Wish)
  BY <1>2, <1>4
<1>6. QED
  BY <1>1, <1>2, <1>5

\* ... and deleting all of them.
LEMMA DeletedFields ==
    ASSUME ShiftTypeOK, wish' = [r \in DOMAIN wish |-> [wish[r] EXCEPT !.status = "deleted"]]
    PROVE  /\ wish' \in Seq(Wish) /\ DOMAIN wish' = DOMAIN wish
           /\ \A q \in DOMAIN wish :
                 wish'[q].status = "deleted" /\ (wish[q].status = "deleted" => wish'[q] = wish[q])
<1>1. ASSUME NEW q \in DOMAIN wish
      PROVE  /\ wish'[q] \in Wish /\ wish'[q].status = "deleted"
             /\ wish[q].status = "deleted" => wish'[q] = wish[q]
  <2>1. wish[q] \in Wish
    BY DEF ShiftTypeOK
  <2>2. wish'[q] = [wish[q] EXCEPT !.status = "deleted"]
    OBVIOUS
  <2>3. QED
    BY <2>1, <2>2 DEF Wish
<1>2. DOMAIN wish' = DOMAIN wish /\ DOMAIN wish = 1..Len(wish) /\ Len(wish) \in Nat
  BY DEF ShiftTypeOK
<1>3. wish' = [q \in DOMAIN wish |-> wish'[q]]
  OBVIOUS
<1>4. wish' \in [1..Len(wish) -> Wish]
  BY <1>1, <1>2, <1>3
<1>5. wish' \in Seq(Wish)
  BY <1>2, <1>4
<1>6. QED
  BY <1>1, <1>2, <1>5


\* A new request is one more.
LEMMA InsertTyped ==
    ASSUME ShiftTypeOK, NEW s \in ShiftCall, InsertRequest(s)
    PROVE  /\ wish' \in Seq(Wish) /\ DOMAIN wish \subseteq DOMAIN wish'
           /\ \A q \in DOMAIN wish : wish'[q] = wish[q]
           /\ shift.status # "deleted" =>
                 /\ DOMAIN wish' = DOMAIN wish \cup {Len(wish) + 1}
                 /\ Len(wish) + 1 \notin DOMAIN wish
                 /\ wish'[Len(wish) + 1] = shiftCall[s].wish
<1>1. shiftCall[s].wish \in Wish
  BY ShiftCallKinds DEF InsertRequest, Asking
<1>2. wish \in Seq(Wish)
  BY DEF ShiftTypeOK
<1>3. CASE shift.status = "deleted"
  BY <1>2, <1>3 DEF InsertRequest
<1>4. CASE shift.status # "deleted"
  <2>1. wish' = Append(wish, shiftCall[s].wish)
    BY <1>4 DEF InsertRequest
  <2>2. QED
    BY <1>1, <1>2, <2>1
<1>5. QED
  BY <1>3, <1>4

\* The steps that write a request keep the types.
LEMMA WishTypeStep ==
    ASSUME ShiftTypeOK, NEW s \in ShiftCall,
           \/ InsertRequest(s) \/ MarkApproved(s) \/ RejectOthers(s) \/ MarkRejected(s)
           \/ DeleteRequest(s) \/ DeleteShift(s)
    PROVE  ShiftTypeOK'
<1>1. /\ UNCHANGED <<assigned, wishCalls, entangled>>
      /\ shift' = shift \/ shift' = [shift EXCEPT !.status = "deleted"]
  BY DEF InsertRequest, MarkApproved, RejectOthers, MarkRejected, DeleteRequest, DeleteShift
<1>2. shift' \in Shift
  BY <1>1 DEF ShiftTypeOK, Shift
<1>3. wish' \in Seq(Wish) /\ DOMAIN wish \subseteq DOMAIN wish'
  <2>1. CASE InsertRequest(s)
    BY <2>1, InsertTyped
  <2>2. CASE MarkApproved(s) \/ MarkRejected(s) \/ DeleteRequest(s)
    <3>1. shiftCall[s].r \in DOMAIN wish
      BY <2>2, ShiftCallKinds DEF MarkApproved, MarkRejected, DeleteRequest
    <3>2. \E status \in {"approved", "rejected", "deleted"} : Write(shiftCall[s].r, status)
      BY <2>2 DEF MarkApproved, MarkRejected, DeleteRequest
    <3>3. QED
      BY <3>1, <3>2, WriteFields
  <2>3. CASE RejectOthers(s)
    BY <2>3, OthersFields DEF RejectOthers
  <2>4. CASE DeleteShift(s)
    BY <2>4, DeletedFields DEF DeleteShift
  <2>5. QED
    BY <2>1, <2>2, <2>3, <2>4
<1>4. \/ CallEnds(s)
      \/ shiftCall[s].step = "approve" /\ CallGoes(s, "others")
  BY DEF InsertRequest, MarkApproved, RejectOthers, MarkRejected, DeleteRequest, DeleteShift
<1>5. /\ shiftCall' \in [ShiftCall -> ShiftCalls]
      /\ \A t \in ShiftCall : shiftCall'[t] \in Deciding => shiftCall'[t].r \in DOMAIN wish'
  BY <1>3, <1>4, ShiftCallMoves
<1>6. QED
  BY <1>1, <1>2, <1>3, <1>5 DEF ShiftTypeOK, ShiftCalls

\* Who gets the shift by a request.
Receiver(r) == IF wish[r].type = "pickup" THEN wish[r].by ELSE wish[r].target

\* He is an employee, or nobody.
LEMMA ReceiverTyped ==
    ASSUME ShiftTypeOK, NEW r \in DOMAIN wish
    PROVE  Receiver(r) \in Worker \cup {Nobody} /\ wish[r].type \in {"swap", "pickup"}
<1>1. wish[r] \in Wish
  BY DEF ShiftTypeOK
<1>2. QED
  BY <1>1 DEF Receiver, Wish

\* The steps that leave the requests alone keep the types.
LEMMA OtherTypeStep ==
    ASSUME ShiftTypeOK,
           \/ UpsertShift
           \/ \E s \in ShiftCall :
                 CheckExisting(s) \/ AssignShift(s) \/ PublishShift(s) \/ ShiftCallDies(s)
    PROVE  ShiftTypeOK'
<1>1. CASE UpsertShift
  <2>1. PICK to \in Worker \cup {Nobody} : shift' = [shift EXCEPT !.holder = to]
    BY <1>1 DEF UpsertShift
  <2>2. shift' \in Shift
    BY <2>1 DEF ShiftTypeOK, Shift
  <2>3. QED
    BY <1>1, <2>2 DEF UpsertShift, ShiftTypeOK
<1>2. ASSUME NEW s \in ShiftCall,
             CheckExisting(s) \/ AssignShift(s) \/ PublishShift(s) \/ ShiftCallDies(s)
      PROVE  ShiftTypeOK'
  <2>1. /\ UNCHANGED <<wish, wishCalls>> /\ entangled' \in BOOLEAN
        /\ \/ CallEnds(s)
           \/ shiftCall[s].step = "check" /\ CallGoes(s, "insert")
           \/ shiftCall[s].step = "assign" /\ CallGoes(s, "approve")
    BY <1>2 DEF CheckExisting, AssignShift, PublishShift, ShiftCallDies, ShiftTypeOK
  <2>2. /\ shiftCall' \in [ShiftCall -> ShiftCalls]
        /\ \A t \in ShiftCall : shiftCall'[t] \in Deciding => shiftCall'[t].r \in DOMAIN wish'
    BY <2>1, ShiftCallMoves
  <2>3. shift' \in Shift /\ assigned' \in {"manager", "swap", "pickup"}
    <3>1. CASE AssignShift(s)
      <4> DEFINE r == shiftCall[s].r
      <4>1. r \in DOMAIN wish
        BY <3>1, ShiftCallKinds DEF AssignShift
      <4>2. \/ UNCHANGED <<shift, assigned>>
            \/ shift' = [shift EXCEPT !.holder = Receiver(r)] /\ assigned' = wish[r].type
        BY <3>1 DEF AssignShift, Receiver
      <4>3. Receiver(r) \in Worker \cup {Nobody} /\ wish[r].type \in {"swap", "pickup"}
        BY <4>1, ReceiverTyped
      <4> HIDE DEF r
      <4>4. QED
        BY <4>2, <4>3 DEF ShiftTypeOK, Shift
    <3>2. CASE PublishShift(s)
      BY <3>2 DEF PublishShift, ShiftTypeOK, Shift
    <3>3. CASE CheckExisting(s) \/ ShiftCallDies(s)
      BY <3>3 DEF CheckExisting, ShiftCallDies, ShiftTypeOK
    <3>4. QED
      BY <1>2, <3>1, <3>2, <3>3
  <2>4. QED
    BY <2>1, <2>2, <2>3 DEF ShiftTypeOK, ShiftCalls
<1>3. QED
  BY <1>1, <1>2

\* The first state has the types ...
LEMMA ShiftStartTyped == ASSUME ShiftInit PROVE ShiftTypeOK
<1>1. shift \in Shift
  BY DEF ShiftInit, Shift
<1>2. NoCall \notin Deciding
  BY DEF NoCall, Deciding
<1>3. shiftCall \in [ShiftCall -> ShiftCalls] /\ \A s \in ShiftCall : shiftCall[s] = NoCall
  BY DEF ShiftInit, ShiftCalls
<1>4. wish \in Seq(Wish) /\ wishCalls \in 0..MaxShiftCalls
  BY ShiftBounds DEF ShiftInit
<1>5. QED
  BY <1>1, <1>2, <1>3, <1>4 DEF ShiftInit, ShiftTypeOK, ShiftCalls

\* ... and each step keeps them.
LEMMA ShiftTypeStep == ASSUME ShiftTypeOK, [ShiftNext]_shiftVars PROVE ShiftTypeOK'
<1>1. CASE UNCHANGED shiftVars
  BY <1>1 DEF shiftVars, ShiftTypeOK
<1>2. QED
  BY <1>1, BeginsTyped, WishTypeStep, OtherTypeStep DEF ShiftNext

\* However the calls overlap or die, every row and call has its type, and a decision is
\* about a request that is there.
THEOREM ShiftTypeCorrect == ShiftSpec => []ShiftTypeOK
BY ShiftStartTyped, ShiftTypeStep, PTL DEF ShiftSpec

-----------------------------------------------------------------------------
(***************************************************************************)
(* What calls that come one after the other leave behind.  While nothing   *)
(* is entangled one call runs at most, and it knows that what it has read  *)
(* is still so: only the planner's form writes next to it, which takes the *)
(* shift from whoever got it by a request.                                 *)
(***************************************************************************)
Sole == \A s, t \in ShiftCall : shiftCall[s].step # "idle" /\ shiftCall[t].step # "idle" => s = t

Awaited(r) == wish[r].status = "pending"

PendingOnce ==
    \A q, r \in DOMAIN wish :
        Awaited(q) /\ Awaited(r) /\ wish[q].by = wish[r].by /\ wish[q].type = wish[r].type => q = r

Unpublished == shift.status # "published" => \A r \in DOMAIN wish : wish[r].status = "deleted"

\* Whoever got the shift by a request has an approved one, or the call that gave it to him
\* is about to approve it.
Given(r) == wish[r].type = assigned /\ shift.holder = Receiver(r) /\ shift.holder # Nobody

Backed ==
    assigned # "manager" =>
        \/ \E r \in DOMAIN wish : wish[r].status = "approved" /\ Given(r)
        \/ \E s \in ShiftCall : shiftCall[s].step = "approve" /\ Given(shiftCall[s].r)

\* Nobody else waits for a shift that was picked up, or the call is about to refuse them.
PickedUp ==
    assigned = "pickup" =>
        \/ \A r \in DOMAIN wish : wish[r].type = "pickup" => ~Awaited(r)
        \/ \E s \in ShiftCall :
              \/ shiftCall[s].step = "others"
              \/ shiftCall[s].step = "approve" /\ wish[shiftCall[s].r].type = "pickup"

\* What the call that runs knows.
Knows(s) ==
    LET c == shiftCall[s] IN
    /\ c.step \in {"check", "insert"} =>
          /\ shift.status = "published" /\ c.wish.status = "pending" /\ c.wish.type \in c.which
          /\ c.wish.type = "pickup" => assigned = "manager"
    /\ c.step = "insert" =>
          \A r \in DOMAIN wish :
              ~(Awaited(r) /\ wish[r].by = c.wish.by /\ wish[r].type = c.wish.type)
    /\ c.step \in {"assign", "approve", "reject", "cancel"} =>
          shift.status = "published" /\ Awaited(c.r)
    /\ c.step \in {"publish", "delete"} => shift.status = "draft"

Tidy ==
    /\ Sole /\ PendingOnce /\ Unpublished /\ Backed /\ PickedUp
    /\ \A s \in ShiftCall : Knows(s)

TidyInv == ~entangled => Tidy


\* One call runs, before and after its step.
LEMMA OneShiftCall ==
    ASSUME ShiftTypeOK, Sole, NEW s \in ShiftCall, ShiftCalm \/ shiftCall[s].step # "idle", NEW next,
           shiftCall' = [shiftCall EXCEPT ![s] = next]
    PROVE  /\ shiftCall'[s] = next /\ Sole'
           /\ \A t \in ShiftCall \ {s} : shiftCall[t].step = "idle" /\ shiftCall'[t].step = "idle"
<1>1. shiftCall'[s] = next /\ \A t \in ShiftCall \ {s} : shiftCall'[t] = shiftCall[t]
  BY DEF ShiftTypeOK
<1>2. \A t \in ShiftCall \ {s} : shiftCall[t].step = "idle"
  BY DEF Sole, ShiftCalm
<1>3. QED
  BY <1>1, <1>2 DEF Sole

\* The step of that call, from what it knows then and what the rows are.
LEMMA StepOfShiftCall ==
    ASSUME ShiftTypeOK, Sole, NEW s \in ShiftCall, ShiftCalm \/ shiftCall[s].step # "idle", NEW next,
           shiftCall' = [shiftCall EXCEPT ![s] = next],
           Knows(s)', PendingOnce', Unpublished', Backed', PickedUp'
    PROVE  Tidy'
<1>1. Sole' /\ \A t \in ShiftCall \ {s} : shiftCall'[t].step = "idle"
  BY OneShiftCall
<1>2. \A t \in ShiftCall \ {s} : Knows(t)'
  BY <1>1 DEF Knows
<1>3. QED
  BY <1>1, <1>2 DEF Tidy

\* With no call that is about to approve a request, or to refuse others, the rows tell.
LEMMA RowsTell ==
    ASSUME Tidy, NEW s \in ShiftCall,
           \A t \in ShiftCall \ {s} : shiftCall[t].step = "idle"
    PROVE  /\ assigned # "manager" /\ shiftCall[s].step # "approve" =>
                 \E r \in DOMAIN wish : wish[r].status = "approved" /\ Given(r)
           /\ assigned = "pickup" /\ shiftCall[s].step \notin {"approve", "others"} =>
                 \A r \in DOMAIN wish : wish[r].type = "pickup" => ~Awaited(r)
<1>1. \A t \in ShiftCall : shiftCall[t].step \in {"approve", "others"} => t = s
  OBVIOUS
<1>2. QED
  BY <1>1 DEF Tidy, Backed, PickedUp

\* The planner's form.
LEMMA UpsertTidy == ASSUME ShiftTypeOK, Tidy, UpsertShift PROVE Tidy'
<1>1. /\ UNCHANGED <<wish, shiftCall>> /\ assigned' = "manager"
      /\ shift'.status = shift.status
  BY DEF UpsertShift, ShiftTypeOK, Shift
<1>2. Sole' /\ PendingOnce' /\ Unpublished' /\ Backed' /\ PickedUp'
  BY <1>1 DEF Tidy, Sole, PendingOnce, Awaited, Unpublished, Backed, PickedUp
<1>3. \A s \in ShiftCall : Knows(s)'
  BY <1>1 DEF Tidy, Knows, Awaited
<1>4. QED
  BY <1>2, <1>3 DEF Tidy

\* A call begins when no other runs.
LEMMA BeginTidy ==
    ASSUME ShiftTypeOK, Tidy, NEW s \in ShiftCall, ~entangled', NEW call, BeginShiftCall(s, call),
           call.step \in {"check", "assign", "reject", "cancel", "publish", "delete"}, Knows(s)'
    PROVE  Tidy'
<1>1. ShiftCalm /\ UNCHANGED <<shift, wish, assigned>> /\ shiftCall' = [shiftCall EXCEPT ![s] = call]
  BY DEF BeginShiftCall
<1>2. \A t \in ShiftCall : shiftCall[t].step = "idle"
  BY <1>1 DEF ShiftCalm
<1>3. /\ assigned # "manager" => \E r \in DOMAIN wish : wish[r].status = "approved" /\ Given(r)
      /\ assigned = "pickup" => \A r \in DOMAIN wish : wish[r].type = "pickup" => ~Awaited(r)
  BY <1>2, RowsTell
<1>4. PendingOnce' /\ Unpublished' /\ Backed' /\ PickedUp'
  BY <1>1, <1>3 DEF Tidy, PendingOnce, Unpublished, Backed, PickedUp, Awaited, Given, Receiver
<1>5. QED
  BY <1>1, <1>4, StepOfShiftCall DEF Tidy

\* What it has read is so.
LEMMA BeginsTidy ==
    ASSUME ShiftTypeOK, Tidy, NEW s \in ShiftCall, ~entangled',
           RequestSwap(s) \/ RequestPickup(s) \/ BeginDecision(s) \/ BeginPlanning(s)
    PROVE  Tidy'
<1>1. ASSUME NEW call, BeginShiftCall(s, call)
      PROVE  /\ shiftCall'[s] = call /\ UNCHANGED <<shift, wish, assigned>>
             /\ assigned # "manager" => shift.holder # Nobody
  <2>1. /\ ShiftCalm /\ UNCHANGED <<shift, wish, assigned>>
        /\ shiftCall' = [shiftCall EXCEPT ![s] = call]
    BY <1>1 DEF BeginShiftCall
  <2>2. shiftCall'[s] = call
    BY <2>1, OneShiftCall DEF Tidy
  <2>3. assigned # "manager" => shift.holder # Nobody
    BY DEF Tidy, Backed, Given
  <2>4. QED
    BY <2>1, <2>2, <2>3
<1>2. ASSUME NEW type \in {"swap", "pickup"}, NEW by, NEW target, NEW which,
             Ask(s, type, by, target, which), shift.status = "published", type \in which,
             type = "pickup" => shift.holder = Nobody
      PROVE  Tidy'
  <2> DEFINE w == [type |-> type, by |-> by, target |-> target, status |-> "pending"]
             call == [step |-> "check", which |-> which, wish |-> w]
  <2>1. BeginShiftCall(s, call)
    BY <1>2 DEF Ask
  <2>2. /\ call.step = "check" /\ call.wish.status = "pending" /\ call.wish.type = type
        /\ call.which = which
    OBVIOUS
  <2> HIDE DEF w, call
  <2>3. Knows(s)'
    BY <1>1, <1>2, <2>1, <2>2 DEF Knows
  <2>4. QED
    BY <2>1, <2>2, <2>3, BeginTidy
<1>3. CASE RequestSwap(s)
  BY <1>2, <1>3 DEF RequestSwap
<1>4. CASE RequestPickup(s)
  <2>1. PICK by \in Worker, which \in {{"pickup"}, {"swap", "pickup"}} :
            Ask(s, "pickup", by, Nobody, which)
    BY <1>4 DEF RequestPickup
  <2>2. shift.status = "published" /\ shift.holder = Nobody
    BY <1>4 DEF RequestPickup
  <2>3. "pickup" \in which
    BY <2>1
  <2>4. QED
    BY <1>2, <2>1, <2>2, <2>3
<1>5. CASE BeginDecision(s)
  <2>1. PICK r \in DOMAIN wish, step \in {"assign", "reject", "cancel"} :
            wish[r].status = "pending" /\ BeginShiftCall(s, [step |-> step, r |-> r])
    BY <1>5 DEF BeginDecision
  <2> DEFINE call == [step |-> step, r |-> r]
  <2>2. BeginShiftCall(s, call) /\ call.step \in {"assign", "reject", "cancel"} /\ call.r = r
    BY <2>1
  <2>3. shift.status = "published"
    BY <2>1 DEF Tidy, Unpublished
  <2> HIDE DEF call
  <2>4. Knows(s)'
    BY <1>1, <2>1, <2>2, <2>3 DEF Knows, Awaited
  <2>5. QED
    BY <2>2, <2>4, BeginTidy
<1>6. CASE BeginPlanning(s)
  <2>1. PICK step \in {"publish", "delete"} :
            shift.status = "draft" /\ BeginShiftCall(s, [step |-> step])
    BY <1>6 DEF BeginPlanning
  <2> DEFINE call == [step |-> step]
  <2>2. BeginShiftCall(s, call) /\ call.step \in {"publish", "delete"}
    BY <2>1
  <2> HIDE DEF call
  <2>3. Knows(s)'
    BY <1>1, <2>1, <2>2 DEF Knows
  <2>4. QED
    BY <2>2, <2>3, BeginTidy
<1>7. QED
  BY <1>3, <1>4, <1>5, <1>6

\* Each step is taken by the call that runs, and the others are idle.
LEMMA RunningCall ==
    ASSUME ShiftTypeOK, Tidy, NEW s \in ShiftCall, shiftCall[s].step # "idle",
           NEW step, CallEnds(s) \/ CallGoes(s, step)
    PROVE  /\ \A t \in ShiftCall \ {s} : shiftCall[t].step = "idle" /\ shiftCall'[t].step = "idle"
           /\ CallEnds(s) => shiftCall'[s].step = "idle"
           /\ CallGoes(s, step) =>
                 shiftCall'[s] = [shiftCall[s] EXCEPT !.step = step]
           /\ Knows(s)' /\ PendingOnce' /\ Unpublished' /\ Backed' /\ PickedUp' => Tidy'
<1>1. Sole
  BY DEF Tidy
<1>2. CASE CallEnds(s)
  <2>1. shiftCall' = [shiftCall EXCEPT ![s] = NoCall] /\ NoCall.step = "idle"
    BY <1>2 DEF CallEnds, NoCall
  <2> HIDE DEF NoCall
  <2>2. /\ shiftCall'[s] = NoCall
        /\ \A t \in ShiftCall \ {s} : shiftCall[t].step = "idle" /\ shiftCall'[t].step = "idle"
    BY <1>1, <2>1, OneShiftCall
  <2>3. Knows(s)' /\ PendingOnce' /\ Unpublished' /\ Backed' /\ PickedUp' => Tidy'
    BY <1>1, <2>1, StepOfShiftCall
  <2>4. CallGoes(s, step) => shiftCall'[s] = [shiftCall[s] EXCEPT !.step = step]
    BY DEF CallGoes, ShiftTypeOK
  <2>5. QED
    BY <2>1, <2>2, <2>3, <2>4
<1>3. CASE CallGoes(s, step)
  <2> DEFINE next == [shiftCall[s] EXCEPT !.step = step]
  <2>1. shiftCall' = [shiftCall EXCEPT ![s] = next]
    BY <1>3 DEF CallGoes
  <2> HIDE DEF next
  <2>2. /\ shiftCall'[s] = next
        /\ \A t \in ShiftCall \ {s} : shiftCall[t].step = "idle" /\ shiftCall'[t].step = "idle"
    BY <1>1, <2>1, OneShiftCall
  <2>3. Knows(s)' /\ PendingOnce' /\ Unpublished' /\ Backed' /\ PickedUp' => Tidy'
    BY <1>1, <2>1, StepOfShiftCall
  <2>4. CallEnds(s) => shiftCall'[s].step = "idle"
    BY DEF CallEnds, NoCall, ShiftTypeOK
  <2>5. QED
    BY <2>2, <2>3, <2>4 DEF next
<1>4. QED
  BY <1>2, <1>3


\* A call that ends knows nothing.
LEMMA EndedKnows ==
    ASSUME NEW s \in ShiftCall, shiftCall'[s].step \in {"idle", "others"}
    PROVE  Knows(s)'
BY DEF Knows

\* Asking: no request of the same kind waits when the new one is inserted.
LEMMA AskingTidy ==
    ASSUME ShiftTypeOK, Tidy, NEW s \in ShiftCall, CheckExisting(s) \/ InsertRequest(s)
    PROVE  Tidy'
<1> DEFINE c == shiftCall[s]
<1>1. c.step \in {"check", "insert"} /\ c \in Asking /\ UNCHANGED <<shift, assigned>>
  BY ShiftCallKinds DEF CheckExisting, InsertRequest
<1>2. Knows(s) /\ c.step # "idle"
  BY <1>1 DEF Tidy
<1>3. CallEnds(s) \/ CallGoes(s, "insert")
  BY DEF CheckExisting, InsertRequest
<1>4. /\ \A t \in ShiftCall \ {s} : shiftCall[t].step = "idle"
      /\ CallEnds(s) => shiftCall'[s].step = "idle"
      /\ CallGoes(s, "insert") => shiftCall'[s] = [c EXCEPT !.step = "insert"]
      /\ Knows(s)' /\ PendingOnce' /\ Unpublished' /\ Backed' /\ PickedUp' => Tidy'
  BY <1>2, <1>3, RunningCall
<1>5. /\ assigned # "manager" => \E r \in DOMAIN wish : wish[r].status = "approved" /\ Given(r)
      /\ assigned = "pickup" => \A r \in DOMAIN wish : wish[r].type = "pickup" => ~Awaited(r)
  BY <1>1, <1>4, RowsTell
<1>6. shift.status = "published"
  BY <1>1, <1>2 DEF Knows
<1>7. CASE CheckExisting(s)
  <2>1. wish' = wish
    BY <1>7 DEF CheckExisting
  <2>2. PendingOnce' /\ Unpublished' /\ Backed' /\ PickedUp'
    BY <1>1, <1>5, <2>1 DEF Tidy, PendingOnce, Unpublished, Backed, PickedUp, Awaited, Given, Receiver
  <2>3. Knows(s)'
    <3>1. CASE CallEnds(s)
      BY <1>4, <3>1, EndedKnows
    <3>2. CASE ~CallEnds(s)
      <4>1. shiftCall'[s] = [c EXCEPT !.step = "insert"] /\ PendingOf(c.wish.by, c.which) = {}
        BY <1>4, <1>7, <3>2 DEF CheckExisting
      <4>2. /\ shiftCall'[s].step = "insert" /\ shiftCall'[s].wish = c.wish
            /\ shiftCall'[s].which = c.which
        BY <1>1, <4>1 DEF Asking
      <4>3. /\ c.wish.status = "pending" /\ c.wish.type \in c.which
            /\ c.wish.type = "pickup" => assigned = "manager"
        BY <1>1, <1>2 DEF Knows
      <4>4. \A r \in DOMAIN wish : ~(Awaited(r) /\ wish[r].by = c.wish.by /\ wish[r].type = c.wish.type)
        BY <4>1, <4>3 DEF PendingOf, Awaited
      <4>5. QED
        BY <1>1, <1>6, <2>1, <4>2, <4>3, <4>4 DEF Knows, Awaited
    <3>3. QED
      BY <3>1, <3>2
  <2>4. QED
    BY <1>4, <2>2, <2>3
<1>8. CASE InsertRequest(s)
  <2> DEFINE n == Len(wish) + 1
  <2>1. /\ DOMAIN wish' = DOMAIN wish \cup {n} /\ n \notin DOMAIN wish /\ wish'[n] = c.wish
        /\ \A q \in DOMAIN wish : wish'[q] = wish[q]
    BY <1>6, <1>8, InsertTyped
  <2> HIDE DEF n
  <2>2. /\ \A r \in DOMAIN wish :
              ~(Awaited(r) /\ wish[r].by = c.wish.by /\ wish[r].type = c.wish.type)
        /\ c.wish.type = "pickup" => assigned = "manager"
    BY <1>2, <1>8 DEF Knows, InsertRequest
  <2>3. PendingOnce'
    BY <2>1, <2>2 DEF Tidy, PendingOnce, Awaited
  <2>4. Unpublished'
    BY <1>1, <1>6 DEF Unpublished
  <2>5. Backed'
    BY <1>1, <1>5, <2>1 DEF Backed, Given, Receiver
  <2>6. PickedUp'
    BY <1>1, <1>5, <2>1, <2>2 DEF PickedUp, Awaited
  <2>7. Knows(s)'
    BY <1>4, <1>8, EndedKnows DEF InsertRequest
  <2>8. QED
    BY <1>4, <2>3, <2>4, <2>5, <2>6, <2>7
<1>9. QED
  BY <1>7, <1>8

\* Giving the shift away: its request waits, and is approved next.
LEMMA AssignTidy ==
    ASSUME ShiftTypeOK, Tidy, NEW s \in ShiftCall, AssignShift(s)
    PROVE  Tidy'
<1> DEFINE r == shiftCall[s].r
<1>1. /\ shiftCall[s].step = "assign" /\ shiftCall[s] \in Deciding /\ r \in DOMAIN wish
      /\ wish' = wish /\ CallGoes(s, "approve")
  BY ShiftCallKinds DEF AssignShift
<1>2. shift.status = "published" /\ Awaited(r)
  BY <1>1 DEF Tidy, Knows
<1>3. /\ \A t \in ShiftCall \ {s} : shiftCall[t].step = "idle"
      /\ shiftCall'[s] = [shiftCall[s] EXCEPT !.step = "approve"]
      /\ Knows(s)' /\ PendingOnce' /\ Unpublished' /\ Backed' /\ PickedUp' => Tidy'
  BY <1>1, RunningCall
<1>4. shiftCall'[s].step = "approve" /\ shiftCall'[s].r = r
  BY <1>1, <1>3 DEF Deciding
<1>5. /\ assigned # "manager" => \E q \in DOMAIN wish : wish[q].status = "approved" /\ Given(q)
      /\ assigned = "pickup" => \A q \in DOMAIN wish : wish[q].type = "pickup" => ~Awaited(q)
  BY <1>1, <1>3, RowsTell
<1>6. \/ UNCHANGED <<shift, assigned>>
      \/ /\ shift' = [shift EXCEPT !.holder = Receiver(r)] /\ assigned' = wish[r].type
         /\ Receiver(r) # Nobody
  BY DEF AssignShift, Receiver
<1>7. /\ shift'.status = "published"
      /\ ~UNCHANGED <<shift, assigned>> =>
             shift'.holder = Receiver(r) /\ assigned' = wish[r].type /\ Receiver(r) # Nobody
  BY <1>2, <1>6 DEF ShiftTypeOK, Shift
<1> HIDE DEF r
<1>8. PendingOnce' /\ Unpublished'
  BY <1>1, <1>7 DEF Tidy, PendingOnce, Unpublished, Awaited
<1>9. Backed'
  <2>1. CASE UNCHANGED <<shift, assigned>>
    BY <1>1, <1>5, <2>1 DEF Backed, Given, Receiver
  <2>2. CASE ~UNCHANGED <<shift, assigned>>
    BY <1>1, <1>4, <1>7, <2>2 DEF Backed, Given, Receiver
  <2>3. QED
    BY <2>1, <2>2
<1>10. PickedUp'
  <2>1. CASE UNCHANGED <<shift, assigned>>
    BY <1>1, <1>5, <2>1 DEF PickedUp, Awaited
  <2>2. CASE ~UNCHANGED <<shift, assigned>>
    BY <1>1, <1>4, <1>7, <2>2 DEF PickedUp
  <2>3. QED
    BY <2>1, <2>2
<1>11. Knows(s)'
  BY <1>1, <1>2, <1>4, <1>7 DEF Knows, Awaited
<1>12. QED
  BY <1>3, <1>8, <1>9, <1>10, <1>11

\* Deciding the request that waits.
LEMMA DecidedTidy ==
    ASSUME ShiftTypeOK, Tidy, NEW s \in ShiftCall, MarkApproved(s) \/ MarkRejected(s) \/ DeleteRequest(s)
    PROVE  Tidy'
<1> DEFINE r == shiftCall[s].r
<1>1. /\ shiftCall[s].step \in {"approve", "reject", "cancel"} /\ shiftCall[s] \in Deciding
      /\ r \in DOMAIN wish /\ UNCHANGED <<shift, assigned>>
  BY ShiftCallKinds DEF MarkApproved, MarkRejected, DeleteRequest
<1>2. shift.status = "published" /\ Awaited(r)
  BY <1>1 DEF Tidy, Knows
<1>3. PICK status \in {"approved", "rejected", "deleted"} :
          /\ Write(r, status)
          /\ status = "approved" <=> shiftCall[s].step = "approve"
          /\ \/ CallEnds(s) /\ (status = "approved" => wish[r].type # "pickup")
             \/ status = "approved" /\ CallGoes(s, "others")
  BY DEF MarkApproved, MarkRejected, DeleteRequest
<1>4. /\ DOMAIN wish' = DOMAIN wish
      /\ \A q \in DOMAIN wish \ {r} : wish'[q] = wish[q]
      /\ wish'[r].type = wish[r].type /\ wish'[r].by = wish[r].by /\ wish'[r].target = wish[r].target
      /\ wish'[r].status = status
  BY <1>1, <1>2, <1>3, WriteFields DEF Awaited
<1>5. /\ \A t \in ShiftCall \ {s} : shiftCall[t].step = "idle"
      /\ CallEnds(s) => shiftCall'[s].step = "idle"
      /\ CallGoes(s, "others") => shiftCall'[s] = [shiftCall[s] EXCEPT !.step = "others"]
      /\ Knows(s)' /\ PendingOnce' /\ Unpublished' /\ Backed' /\ PickedUp' => Tidy'
  BY <1>1, <1>3, RunningCall
<1>6. /\ CallGoes(s, "others") => shiftCall'[s].step = "others"
      /\ shiftCall'[s].step \in {"idle", "others"}
  BY <1>1, <1>3, <1>5 DEF Deciding
<1>7. status # "approved" =>
        /\ assigned # "manager" => \E q \in DOMAIN wish : wish[q].status = "approved" /\ Given(q)
        /\ assigned = "pickup" => \A q \in DOMAIN wish : wish[q].type = "pickup" => ~Awaited(q)
  <2> SUFFICES ASSUME status # "approved"
               PROVE  shiftCall[s].step \notin {"approve", "others"}
    BY <1>5, RowsTell
  <2>1. QED
    BY <1>1, <1>3
<1>8. \A t \in ShiftCall : shiftCall[t].step = "approve" => shiftCall[t].r = r
  BY <1>5
<1> HIDE DEF r
<1>9. PendingOnce'
  BY <1>4 DEF Tidy, PendingOnce, Awaited
<1>10. Unpublished'
  BY <1>1, <1>2 DEF Unpublished
<1>11. Backed'
  <2> SUFFICES ASSUME assigned # "manager"
               PROVE  \E q \in DOMAIN wish' : wish'[q].status = "approved" /\ Given(q)'
    BY <1>1 DEF Backed
  <2>1. \A q \in DOMAIN wish : Given(q) => Given(q)'
    BY <1>1, <1>4 DEF Given, Receiver
  <2>2. \A q \in DOMAIN wish : wish[q].status = "approved" => wish'[q].status = "approved"
    BY <1>2, <1>4 DEF Awaited
  <2>3. CASE \E q \in DOMAIN wish : wish[q].status = "approved" /\ Given(q)
    BY <1>4, <2>1, <2>2, <2>3
  <2>4. CASE status = "approved" /\ Given(r)
    BY <1>1, <1>4, <2>1, <2>4
  <2>5. QED
    BY <1>7, <1>8, <2>3, <2>4 DEF Tidy, Backed
<1>12. PickedUp'
  <2> SUFFICES ASSUME assigned = "pickup", shiftCall'[s].step # "others"
               PROVE  \A q \in DOMAIN wish : wish[q].type = "pickup" => wish'[q].status # "pending"
    BY <1>1, <1>4 DEF PickedUp, Awaited
  <2>1. CallEnds(s) /\ (status = "approved" => wish[r].type # "pickup")
    BY <1>3, <1>6
  <2>2. \A q \in DOMAIN wish : wish[q].type = "pickup" => ~Awaited(q)
    <3>1. CASE status # "approved"
      BY <1>7, <3>1
    <3>2. CASE status = "approved"
      <4>1. \A t \in ShiftCall : shiftCall[t].step # "others"
        BY <1>3, <1>5, <3>2
      <4>2. QED
        BY <1>8, <2>1, <3>2, <4>1 DEF Tidy, PickedUp
    <3>3. QED
      BY <3>1, <3>2
  <2>3. QED
    BY <1>3, <1>4, <2>2 DEF Awaited
<1>13. Knows(s)'
  BY <1>6, EndedKnows
<1>14. QED
  BY <1>5, <1>9, <1>10, <1>11, <1>12, <1>13


\* Refusing the others leaves nobody waiting to pick the shift up.
LEMMA OthersTidy ==
    ASSUME ShiftTypeOK, Tidy, NEW s \in ShiftCall, RejectOthers(s)
    PROVE  Tidy'
<1>1. /\ shiftCall[s].step = "others" /\ UNCHANGED <<shift, assigned>> /\ CallEnds(s)
      /\ wish' = OthersRejected
  BY DEF RejectOthers
<1>2. /\ DOMAIN wish' = DOMAIN wish
      /\ \A q \in DOMAIN wish :
            /\ wish'[q].type = wish[q].type /\ wish'[q].by = wish[q].by
            /\ wish'[q].target = wish[q].target
            /\ wish'[q].status = IF wish[q].type = "pickup" /\ wish[q].status = "pending"
                                 THEN "rejected" ELSE wish[q].status
  BY <1>1, OthersFields
<1>3. /\ \A t \in ShiftCall \ {s} : shiftCall[t].step = "idle"
      /\ shiftCall'[s].step = "idle"
      /\ Knows(s)' /\ PendingOnce' /\ Unpublished' /\ Backed' /\ PickedUp' => Tidy'
  BY <1>1, RunningCall
<1>4. assigned # "manager" => \E q \in DOMAIN wish : wish[q].status = "approved" /\ Given(q)
  BY <1>1, <1>3, RowsTell
<1>5. PendingOnce' /\ Unpublished'
  BY <1>1, <1>2 DEF Tidy, PendingOnce, Unpublished, Awaited
<1>6. Backed'
  BY <1>1, <1>2, <1>4 DEF Backed, Given, Receiver
<1>7. PickedUp'
  BY <1>2 DEF PickedUp, Awaited
<1>8. Knows(s)'
  BY <1>3, EndedKnows
<1>9. QED
  BY <1>3, <1>5, <1>6, <1>7, <1>8

\* A draft has no request to lose when it is published or deleted.
LEMMA PlanningTidy ==
    ASSUME ShiftTypeOK, Tidy, NEW s \in ShiftCall, PublishShift(s) \/ DeleteShift(s)
    PROVE  Tidy'
<1>1. /\ shiftCall[s].step \in {"publish", "delete"} /\ UNCHANGED assigned /\ CallEnds(s)
  BY DEF PublishShift, DeleteShift
<1>2. shift.status = "draft" /\ \A q \in DOMAIN wish : wish[q].status = "deleted"
  BY <1>1 DEF Tidy, Knows, Unpublished
<1>3. /\ \A t \in ShiftCall \ {s} : shiftCall[t].step = "idle"
      /\ shiftCall'[s].step = "idle"
      /\ Knows(s)' /\ PendingOnce' /\ Unpublished' /\ Backed' /\ PickedUp' => Tidy'
  BY <1>1, RunningCall
<1>4. assigned = "manager"
  BY <1>1, <1>2, <1>3, RowsTell
<1>5. DOMAIN wish' = DOMAIN wish /\ \A q \in DOMAIN wish : wish'[q] = wish[q]
  BY <1>2, DeletedFields DEF PublishShift, DeleteShift
<1>6. PendingOnce' /\ Unpublished'
  BY <1>2, <1>5 DEF Tidy, PendingOnce, Unpublished, Awaited
<1>7. Backed' /\ PickedUp'
  BY <1>1, <1>4 DEF Backed, PickedUp
<1>8. Knows(s)'
  BY <1>3, EndedKnows
<1>9. QED
  BY <1>3, <1>6, <1>7, <1>8

\* While nothing is entangled the shift is tidy ...
LEMMA TidyStep == ASSUME ShiftTypeOK, TidyInv, [ShiftNext]_shiftVars PROVE TidyInv'
<1> SUFFICES ASSUME ~entangled' PROVE Tidy'
  BY DEF TidyInv
<1>1. CASE UNCHANGED shiftVars
  <2>1. UNCHANGED <<shift, wish, shiftCall, assigned, entangled>>
    BY <1>1 DEF shiftVars
  <2>2. Tidy
    BY <2>1 DEF TidyInv
  <2>3. QED
    BY <2>1, <2>2 DEF Tidy, Sole, PendingOnce, Unpublished, Backed, PickedUp, Knows, Awaited, Given,
       Receiver
<1>2. CASE ShiftNext
  <2>1. \A s \in ShiftCall : ~ShiftCallDies(s)
    BY DEF ShiftCallDies
  <2>2. Tidy
    <3>1. ~entangled
      <4>1. ASSUME NEW s \in ShiftCall,
                   \/ RequestSwap(s) \/ RequestPickup(s) \/ BeginDecision(s) \/ BeginPlanning(s)
            PROVE  ~entangled
        BY <4>1 DEF RequestSwap, RequestPickup, Ask, BeginDecision, BeginPlanning, BeginShiftCall
      <4>2. ASSUME NEW s \in ShiftCall,
                   \/ CheckExisting(s) \/ InsertRequest(s) \/ AssignShift(s) \/ MarkApproved(s)
                   \/ RejectOthers(s) \/ MarkRejected(s) \/ DeleteRequest(s)
                   \/ PublishShift(s) \/ DeleteShift(s)
            PROVE  ~entangled
        BY <4>2 DEF CheckExisting, InsertRequest, AssignShift, MarkApproved, RejectOthers, MarkRejected,
           DeleteRequest, PublishShift, DeleteShift
      <4>3. UpsertShift => ~entangled
        BY DEF UpsertShift
      <4>4. QED
        BY <1>2, <2>1, <4>1, <4>2, <4>3 DEF ShiftNext
    <3>2. QED
      BY <3>1 DEF TidyInv
  <2>3. QED
    BY <1>2, <2>1, <2>2, UpsertTidy, BeginsTidy, AskingTidy, AssignTidy, DecidedTidy, OthersTidy,
       PlanningTidy DEF ShiftNext
<1>3. QED
  BY <1>1, <1>2

\* ... as it is at first.
LEMMA TidyStart == ASSUME ShiftInit PROVE TidyInv
<1>1. wish = <<>> /\ assigned = "manager" /\ \A s \in ShiftCall : shiftCall[s].step = "idle"
  BY DEF ShiftInit, NoCall
<1>2. DOMAIN wish = {}
  BY <1>1
<1>3. QED
  BY <1>1, <1>2 DEF TidyInv, Tidy, Sole, PendingOnce, Unpublished, Backed, PickedUp, Knows

\* At most one request waits of each employee and type.
LEMMA OnePending ==
    ASSUME ShiftTypeOK, Tidy, NEW w \in Worker, NEW type \in {"swap", "pickup"}
    PROVE  Cardinality(PendingOf(w, {type})) <= 1
<1> DEFINE S == PendingOf(w, {type})
<1>1. \A q, r \in S : q = r
  BY DEF PendingOf, Tidy, PendingOnce, Awaited
<1> HIDE DEF S
<1>2. CASE S = {}
  BY <1>2, FS_EmptySet DEF S
<1>3. CASE S # {}
  <2>1. PICK r : S = {r}
    BY <1>1, <1>3
  <2>2. Cardinality({r}) = 1
    BY FS_Singleton, Zenon
  <2>3. QED
    BY <2>1, <2>2 DEF S
<1>4. QED
  BY <1>2, <1>3

\* Calls that come one after the other, and end, agree: whoever got the shift by a request
\* has an approved one, nobody still waits to pick it up then, nobody waits twice for the
\* same, and a shift that is not published has no request.
THEOREM SettledShiftsAgreeCorrect == ShiftSpec => []SettledShiftsAgree
<1>1. ShiftTypeOK /\ TidyInv => SettledShiftsAgree
  <2> SUFFICES ASSUME ShiftTypeOK, Tidy, ShiftCalm
               PROVE  /\ assigned = "pickup" => Approved("pickup", [r \in DOMAIN wish |-> wish[r].by])
                      /\ assigned = "swap" => Approved("swap", [r \in DOMAIN wish |-> wish[r].target])
                      /\ assigned = "pickup" => \A w \in Worker : PendingOf(w, {"pickup"}) = {}
                      /\ \A w \in Worker, type \in {"swap", "pickup"} :
                             Cardinality(PendingOf(w, {type})) <= 1
                      /\ shift.status # "published" => \A r \in DOMAIN wish : wish[r].status = "deleted"
    BY DEF TidyInv, SettledShiftsAgree
  <2>1. \A s \in ShiftCall : shiftCall[s].step = "idle"
    BY DEF ShiftCalm
  <2>2. assigned # "manager" => \E r \in DOMAIN wish : wish[r].status = "approved" /\ Given(r)
    BY <2>1 DEF Tidy, Backed
  <2>3. assigned = "pickup" => Approved("pickup", [r \in DOMAIN wish |-> wish[r].by])
    BY <2>2 DEF Approved, Given, Receiver
  <2>4. assigned = "swap" => Approved("swap", [r \in DOMAIN wish |-> wish[r].target])
    BY <2>2 DEF Approved, Given, Receiver
  <2>5. assigned = "pickup" => \A w \in Worker : PendingOf(w, {"pickup"}) = {}
    BY <2>1 DEF Tidy, PickedUp, PendingOf, Awaited
  <2>6. shift.status # "published" => \A r \in DOMAIN wish : wish[r].status = "deleted"
    BY DEF Tidy, Unpublished
  <2>7. QED
    BY <2>3, <2>4, <2>5, <2>6, OnePending
<1>2. ShiftTypeOK /\ TidyInv /\ [ShiftNext]_shiftVars => TidyInv'
  BY TidyStep
<1>3. ShiftInit => TidyInv
  BY TidyStart
<1>4. QED
  BY <1>1, <1>2, <1>3, ShiftTypeCorrect, PTL DEF ShiftSpec

-----------------------------------------------------------------------------
\* Both together: what the calls of users, admins, employees and managers leave behind when
\* they have ended, as far as calls that overlap or die allow it (SettledMembersAgree and
\* SettledShiftsAgree say how far).
THEOREM SettledAgreeCorrect == MembersAndShiftsSpec => []SettledAgree
<1>1. SettledMembersAgree /\ SettledShiftsAgree => SettledAgree
  BY DEF SettledAgree
<1>2. QED
  BY <1>1, SettledMembersAgreeCorrect, SettledShiftsAgreeCorrect, PTL DEF MembersAndShiftsSpec
=============================================================================
