------------------------ MODULE ReviewPipelineProofs ------------------------
(***************************************************************************)
(* Proofs about the expert pass (ReviewPipeline) and the rate limiter it   *)
(* runs through (RateLimiter).                                             *)
(***************************************************************************)
EXTENDS ReviewPipeline, TLAPS, FiniteSetTheorems, SequenceTheorems

-----------------------------------------------------------------------------
(* Operators of the libraries and of the limiter.                          *)

(* A nonempty set of natural numbers has a least element.                  *)
LEMMA MinOfNaturals ==
  ASSUME NEW S \in SUBSET Nat, S # {}
  PROVE  Min(S) \in S /\ \A y \in S : Min(S) <= y
<1> DEFINE below == {ss \in Nat \X Nat : ss[1] < ss[2]}
<1>1. IsWellFoundedOn(below, Nat)
  BY NatLessThanWellFounded DEF OpToRel
<1>2. PICK x \in S : \A y \in S : <<y, x>> \notin below
  <2> HIDE DEF below
  <2> QED
    BY <1>1, WFMin
<1>3. ASSUME NEW y \in S
      PROVE  x <= y
  <2>1. y < x => <<y, x>> \in below
    OBVIOUS
  <2> QED
    BY <1>2, <2>1
<1> QED
  BY <1>3 DEF Min

(* The larger and the smaller one of two integers.                         *)
LEMMA ExtremesOfTwo ==
  ASSUME NEW a \in Int, NEW b \in Int
  PROVE  /\ Max({a, b}) = IF a >= b THEN a ELSE b
         /\ Min({a, b}) = IF a <= b THEN a ELSE b
  BY DEF Max, Min

(* One tick makes an entry one tick older, up to the age where it is       *)
(* expired.                                                                *)
LEMMA OlderIs ==
  ASSUME NEW age \in Ages
  PROVE  /\ Older(age) \in Ages
         /\ Older(age) = IF age <= Window THEN age + 1 ELSE age
  BY LimiterAssumption, ExtremesOfTwo DEF Older, Ages

-----------------------------------------------------------------------------
(* The limiter's window.                                                   *)

TokenEntry == [age : Ages, tokens : Nat]

\* The place of the oldest entry that has not expired.
FirstLive ==
  LET live == {k \in DOMAIN request_times : ~Expired(request_times[k])}
  IN  IF live = {} THEN Len(request_times) + 1 ELSE Min(live)

\* The two queues record the same requests.
QueuesAgree ==
  /\ limits \in Limits
  /\ ticked \in BOOLEAN
  /\ request_times \in Seq(Ages)
  /\ token_entries \in Seq(TokenEntry)
  /\ Len(token_entries) = Len(request_times)
  /\ \A k \in 1 .. Len(request_times) : token_entries[k].age = request_times[k]

\* Counted from the newest one, the entry k is the (Len - k + 1)-th: the ones
\* inside the window are among the last max_rpm; and once the clock has moved
\* on, also those that leave it at this very tick.
\*
\* This is stronger than a bound on how many entries the window holds, and it
\* needs no order among the ages.
NewestCount(k) == Len(request_times) - k + 1

WithinLimit ==
  limits.rpm > 0 =>
    \A k \in 1 .. Len(request_times) :
      /\ request_times[k] < Window => NewestCount(k) <= limits.rpm
      /\ ticked /\ request_times[k] <= Window => NewestCount(k) <= limits.rpm

LimiterInv == QueuesAgree /\ WithinLimit

(* What pruning keeps is the tail of both queues from the same place on.   *)
LEMMA PrunedTails ==
  ASSUME QueuesAgree
  PROVE  /\ FirstLive \in 1 .. (Len(request_times) + 1)
         /\ FirstLive <= Len(request_times) => request_times[FirstLive] <= Window
         /\ LiveRequests = SubSeq(request_times, FirstLive, Len(request_times))
         /\ LiveTokens = SubSeq(token_entries, FirstLive, Len(request_times))
<1> DEFINE n == Len(request_times)
           live == {k \in DOMAIN request_times : ~Expired(request_times[k])}
           tages == [k \in DOMAIN token_entries |-> token_entries[k].age]
<1>1. /\ n \in Nat
      /\ DOMAIN request_times = 1 .. n
      /\ DOMAIN token_entries = 1 .. n
      /\ \A k \in 1 .. n : request_times[k] \in Ages
      /\ Len(token_entries) = n
  BY DEF QueuesAgree
<1>2. {k \in DOMAIN token_entries : ~Expired(tages[k])} = live
  BY <1>1 DEF QueuesAgree
<1>3. live \in SUBSET Nat
  BY <1>1
<1>4. CASE live = {}
  <2>1. FirstLive = n + 1
    BY <1>4 DEF FirstLive
  <2>2. LiveRequests = <<>> /\ LiveTokens = <<>>
    BY <1>2, <1>4 DEF LiveRequests, LiveTokens, Pruned
  <2>3. /\ SubSeq(request_times, n + 1, n) = <<>>
        /\ SubSeq(token_entries, n + 1, n) = <<>>
    BY <1>1, SubSeqEmpty
  <2> QED
    BY <1>1, <2>1, <2>2, <2>3
<1>5. CASE live # {}
  <2>1. FirstLive = Min(live)
    BY <1>5 DEF FirstLive
  <2>2. FirstLive \in live
    BY <1>3, <1>5, <2>1, MinOfNaturals
  <2>3. /\ LiveRequests = SubSeq(request_times, Min(live), n)
        /\ LiveTokens = SubSeq(token_entries, Min(live), n)
    BY <1>1, <1>2, <1>5 DEF LiveRequests, LiveTokens, Pruned
  <2> QED
    BY <1>1, <2>1, <2>2, <2>3, LimiterAssumption DEF Expired, Ages
<1> QED
  BY <1>4, <1>5

(* Each live entry is the one FirstLive - 1 places further back.           *)
LEMMA PrunedEntries ==
  ASSUME QueuesAgree
  PROVE  /\ LiveRequests \in Seq(Ages)
         /\ LiveTokens \in Seq(TokenEntry)
         /\ Len(LiveRequests) = Len(request_times) - FirstLive + 1
         /\ Len(LiveTokens) = Len(LiveRequests)
         /\ \A k \in 1 .. Len(LiveRequests) :
              /\ LiveRequests[k] = request_times[FirstLive + k - 1]
              /\ LiveTokens[k].age = LiveRequests[k]
<1> DEFINE n == Len(request_times)
<1>1. PICK m \in 1 .. (n + 1) : m = FirstLive
  BY PrunedTails
<1>2. n \in Nat /\ m \in Int
  BY DEF QueuesAgree
<1>3. /\ LiveRequests = SubSeq(request_times, m, n)
      /\ LiveTokens = SubSeq(token_entries, m, n)
  BY <1>1, PrunedTails
<1>4. \A i \in m .. n : request_times[i] \in Ages /\ token_entries[i] \in TokenEntry
  BY <1>2 DEF QueuesAgree
<1>5. /\ LiveRequests \in Seq(Ages)
      /\ Len(LiveRequests) = IF m <= n THEN n - m + 1 ELSE 0
      /\ \A i \in 1 .. n - m + 1 : LiveRequests[i] = request_times[m + i - 1]
  BY <1>2, <1>3, <1>4, SubSeqProperties
<1>6. /\ LiveTokens \in Seq(TokenEntry)
      /\ Len(LiveTokens) = IF m <= n THEN n - m + 1 ELSE 0
      /\ \A i \in 1 .. n - m + 1 : LiveTokens[i] = token_entries[m + i - 1]
  BY <1>2, <1>3, <1>4, SubSeqProperties
<1>7. Len(LiveRequests) = n - m + 1
  BY <1>2, <1>5
<1>8. \A k \in 1 .. n - m + 1 : token_entries[m + k - 1].age = request_times[m + k - 1]
  BY <1>2 DEF QueuesAgree
<1>9. Len(LiveTokens) = n - m + 1
  BY <1>2, <1>6
<1>10. ASSUME NEW k \in 1 .. Len(LiveRequests)
       PROVE  /\ LiveRequests[k] = request_times[m + k - 1]
              /\ LiveTokens[k].age = LiveRequests[k]
  <2>1. k \in 1 .. n - m + 1
    BY <1>7
  <2> QED
    BY <1>5, <1>6, <1>8, <2>1
<1> QED
  BY <1>1, <1>5, <1>6, <1>7, <1>9, <1>10

(* A caller never sleeps longer than the window, and it goes on only when  *)
(* neither limit asks it to wait.                                          *)
LEMMA WaitIs ==
  ASSUME QueuesAgree, NEW count
  PROVE  /\ RpmWait \in 0 .. Window
         /\ LimiterWait(count) \in 0 .. Window
         /\ LimiterWait(count) = 0 => RpmWait = 0
<1>1. \A age \in Ages : WaitFor(age) \in 0 .. Window
  BY LimiterAssumption DEF WaitFor, Ages
<1>2. RpmWait \in 0 .. Window
  <2>1. LiveRequests # <<>> => LiveRequests[1] \in Ages
    BY PrunedEntries
  <2> QED
    BY <1>1, <2>1, LimiterAssumption DEF RpmWait
<1>3. TpmWait(count) \in 0 .. Window
  <2>1. LiveTokens # <<>> => LiveTokens[1] \in TokenEntry
    BY PrunedEntries
  <2> QED
    BY <1>1, <2>1, LimiterAssumption DEF TpmWait, TokenEntry
<1>4. LimiterWait(count) = IF RpmWait >= TpmWait(count) THEN RpmWait ELSE TpmWait(count)
  BY <1>2, <1>3, ExtremesOfTwo DEF LimiterWait
<1> QED
  BY <1>2, <1>3, <1>4, LimiterAssumption

(* The round that records a request.                                       *)
LEMMA AdmitStep ==
  ASSUME LimiterInv, NEW count \in Nat, LimiterAdmits(count)
  PROVE  LimiterInv'
<1> DEFINE n == Len(request_times)
<1>1. PICK m \in 1 .. (n + 1) : m = FirstLive
  BY PrunedTails DEF LimiterInv
<1>2. PICK len \in Nat : len = Len(LiveRequests)
  BY PrunedEntries DEF LimiterInv
<1>3. n \in Nat /\ len = n - m + 1
  BY <1>1, <1>2, PrunedEntries DEF LimiterInv, QueuesAgree
<1>4. PICK r \in Nat : r = limits.rpm
  BY LimiterAssumption DEF LimiterInv, QueuesAgree
<1>5. 0 \in Ages /\ [age |-> 0, tokens |-> count] \in TokenEntry
  BY LimiterAssumption DEF Ages, TokenEntry
<1>6. /\ request_times' \in Seq(Ages)
      /\ Len(request_times') = len + 1
      /\ \A k \in 1 .. len : request_times'[k] = request_times[m + k - 1]
      /\ request_times'[len + 1] = 0
  <2>1. LiveRequests \in Seq(Ages) /\ request_times' = Append(LiveRequests, 0)
    BY PrunedEntries DEF LimiterInv, LimiterAdmits
  <2>2. \A k \in 1 .. len : LiveRequests[k] = request_times[m + k - 1]
    BY <1>1, <1>2, PrunedEntries DEF LimiterInv
  <2> QED
    BY <1>2, <1>5, <2>1, <2>2, AppendProperties
<1>7. /\ token_entries' \in Seq(TokenEntry)
      /\ Len(token_entries') = len + 1
      /\ \A k \in 1 .. len : token_entries'[k].age = request_times'[k]
      /\ token_entries'[len + 1].age = 0
  <2>1. /\ LiveTokens \in Seq(TokenEntry)
        /\ token_entries' = Append(LiveTokens, [age |-> 0, tokens |-> count])
        /\ Len(LiveTokens) = len
    BY <1>2, PrunedEntries DEF LimiterInv, LimiterAdmits
  <2>2. \A k \in 1 .. len : LiveTokens[k].age = request_times[m + k - 1]
    BY <1>1, <1>2, PrunedEntries DEF LimiterInv
  <2> QED
    BY <1>5, <1>6, <2>1, <2>2, AppendProperties
<1>8. QueuesAgree'
  <2>1. limits' \in Limits /\ ticked' \in BOOLEAN
    BY DEF LimiterInv, QueuesAgree, LimiterAdmits
  <2>2. \A k \in 1 .. len + 1 : token_entries'[k].age = request_times'[k]
    BY <1>6, <1>7
  <2> QED
    BY <1>6, <1>7, <2>1, <2>2 DEF QueuesAgree
<1>9. len < r \/ len = 0 \/ request_times[m] >= Window
  <2>1. RpmWait = 0
    BY WaitIs DEF LimiterInv, LimiterAdmits
  <2>2. CASE len >= r /\ len # 0
    <3>1. LiveRequests # <<>> /\ LiveRequests[1] = request_times[m] /\ request_times[m] \in Ages
      <4>1. m \in 1 .. n /\ 1 \in 1 .. len
        BY <1>2, <1>3, <2>2
      <4>2. LiveRequests[1] = request_times[m + 1 - 1]
        BY <1>1, <1>2, <4>1, PrunedEntries DEF LimiterInv
      <4>3. LiveRequests # <<>>
        BY <1>2, <2>2
      <4> QED
        BY <4>1, <4>2, <4>3 DEF LimiterInv, QueuesAgree
    <3>2. WaitFor(request_times[m]) = 0
      BY <1>2, <1>4, <2>1, <2>2, <3>1 DEF RpmWait
    <3> QED
      BY <3>1, <3>2, LimiterAssumption DEF WaitFor, Ages
  <2> QED
    BY <2>2
<1>10. ASSUME NEW k \in 1 .. len + 1, request_times'[k] < Window, r > 0
       PROVE  len + 1 - k + 1 <= r
  <2>1. CASE k = len + 1
    BY <2>1, <1>10
  <2>2. CASE k < len + 1 /\ len < r
    BY <2>2, <1>10
  <2>3. CASE k < len + 1 /\ len >= r
    <3>1. request_times[m] >= Window /\ request_times[m] <= Window
      BY <1>1, <1>3, <1>9, <1>10, <2>3, PrunedTails DEF LimiterInv
    <3>2. n - m + 1 <= r
      <4>1. ticked
        BY DEF LimiterAdmits
      <4> QED
        BY <1>3, <1>4, <1>10, <2>3, <3>1, <4>1 DEF LimiterInv, WithinLimit, NewestCount
    <3>3. k # 1
      <4>1. request_times'[1] = request_times[m]
        BY <1>3, <1>6, <2>3
      <4>2. request_times[m] \in Ages /\ request_times[m] >= Window
        BY <1>3, <2>3, <3>1 DEF LimiterInv, QueuesAgree
      <4> QED
        BY <1>10, <4>1, <4>2, LimiterAssumption DEF Ages
    <3> QED
      BY <1>3, <3>2, <3>3
  <2> QED
    BY <2>1, <2>2, <2>3, <1>3
<1>11. WithinLimit'
  <2>1. limits' = limits /\ ticked' = FALSE
    BY DEF LimiterAdmits
  <2> QED
    BY <1>4, <1>6, <1>10, <2>1 DEF WithinLimit, NewestCount
<1> QED
  BY <1>8, <1>11 DEF LimiterInv

(* The round that ends in a sleep only drops expired entries.              *)
LEMMA DeferStep ==
  ASSUME LimiterInv, NEW count, LimiterDefers(count)
  PROVE  LimiterInv'
<1> DEFINE n == Len(request_times)
<1>1. PICK m \in 1 .. (n + 1) : m = FirstLive
  BY PrunedTails DEF LimiterInv
<1>2. PICK len \in Nat : len = Len(LiveRequests)
  BY PrunedEntries DEF LimiterInv
<1>3. n \in Nat /\ len = n - m + 1
  BY <1>1, <1>2, PrunedEntries DEF LimiterInv, QueuesAgree
<1>4. /\ request_times' \in Seq(Ages)
      /\ Len(request_times') = len
      /\ \A k \in 1 .. len : request_times'[k] = request_times[m + k - 1]
  BY <1>1, <1>2, PrunedEntries DEF LimiterInv, LimiterDefers
<1>5. /\ token_entries' \in Seq(TokenEntry)
      /\ Len(token_entries') = len
      /\ \A k \in 1 .. len : token_entries'[k].age = request_times'[k]
  BY <1>2, PrunedEntries DEF LimiterInv, LimiterDefers
<1>6. limits' = limits /\ ticked' = FALSE
  BY DEF LimiterDefers
<1>7. QueuesAgree'
  BY <1>4, <1>5, <1>6 DEF LimiterInv, QueuesAgree
<1>8. ASSUME NEW k \in 1 .. len, request_times'[k] < Window, limits.rpm > 0
      PROVE  len - k + 1 <= limits.rpm
  <2>1. m + k - 1 \in 1 .. n /\ request_times[m + k - 1] < Window
    BY <1>3, <1>4, <1>8
  <2>2. n - (m + k - 1) + 1 <= limits.rpm
    BY <1>8, <2>1 DEF LimiterInv, WithinLimit, NewestCount
  <2> QED
    BY <1>3, <2>2
<1>9. WithinLimit'
  BY <1>4, <1>6, <1>8 DEF WithinLimit, NewestCount
<1> QED
  BY <1>7, <1>9 DEF LimiterInv

(* The clock: what is in the window after the tick, its far end included,  *)
(* was strictly inside before.                                             *)
LEMMA TickStep ==
  ASSUME LimiterInv, LimiterTick
  PROVE  LimiterInv'
<1> DEFINE n == Len(request_times)
<1>1. /\ n \in Nat
      /\ DOMAIN request_times = 1 .. n
      /\ DOMAIN token_entries = 1 .. n
  BY DEF LimiterInv, QueuesAgree
<1>2. \A k \in 1 .. n : /\ request_times[k] \in Ages
                        /\ token_entries[k] \in TokenEntry
                        /\ token_entries[k].age = request_times[k]
  BY DEF LimiterInv, QueuesAgree
<1>3. request_times' = [k \in 1 .. n |-> Older(request_times[k])]
  BY <1>1 DEF LimiterTick
<1>4. token_entries' = [k \in 1 .. n |-> [token_entries[k] EXCEPT !.age = Older(@)]]
  BY <1>1 DEF LimiterTick
<1>5. \A k \in 1 .. n : Older(request_times[k]) \in Ages
  BY <1>2, OlderIs
<1>6. request_times' \in Seq(Ages) /\ Len(request_times') = n
  BY <1>1, <1>3, <1>5
<1>7. ASSUME NEW k \in 1 .. n
      PROVE  /\ token_entries'[k] \in TokenEntry
             /\ token_entries'[k].age = Older(request_times[k])
  BY <1>2, <1>4, <1>5 DEF TokenEntry
<1>8. token_entries' \in Seq(TokenEntry) /\ Len(token_entries') = n
  <2>1. DOMAIN token_entries' = 1 .. n /\ token_entries' = [k \in 1 .. n |-> token_entries'[k]]
    BY <1>4
  <2>2. token_entries' \in [1 .. n -> TokenEntry]
    BY <1>7, <2>1
  <2> QED
    BY <1>1, <2>2
<1>9. limits' = limits /\ ticked' = TRUE
  BY DEF LimiterTick
<1>10. QueuesAgree'
  BY <1>3, <1>6, <1>7, <1>8, <1>9 DEF LimiterInv, QueuesAgree
<1>11. ASSUME NEW k \in 1 .. n, request_times'[k] <= Window, limits.rpm > 0
       PROVE  n - k + 1 <= limits.rpm
  <2>1. PICK age \in Ages : age = request_times[k]
    BY <1>2
  <2>2. Older(age) <= Window
    BY <1>3, <1>11, <2>1
  <2>3. age < Window
    <3>1. Older(age) = IF age <= Window THEN age + 1 ELSE age
      BY OlderIs
    <3> QED
      BY <2>2, <3>1, LimiterAssumption DEF Ages
  <2> QED
    BY <1>11, <2>1, <2>3 DEF LimiterInv, WithinLimit, NewestCount
<1>12. ASSUME NEW k \in 1 .. n, request_times'[k] < Window
       PROVE  request_times'[k] <= Window
  BY <1>12, <1>2, <1>3, <1>5, LimiterAssumption DEF Ages
<1>13. WithinLimit'
  BY <1>6, <1>9, <1>11, <1>12 DEF WithinLimit, NewestCount
<1> QED
  BY <1>10, <1>13 DEF LimiterInv

(* The invariant is what the limiter promises.                             *)
LEMMA LimiterCorrect ==
  ASSUME LimiterInv
  PROVE  LimiterTypeOK /\ RpmWithinWindow
<1> DEFINE n == Len(request_times)
           inside == {k \in DOMAIN request_times : request_times[k] < Window}
<1>1. /\ n \in Nat
      /\ DOMAIN request_times = 1 .. n
      /\ DOMAIN token_entries = 1 .. n
      /\ limits.rpm \in Nat
  BY LimiterAssumption DEF LimiterInv, QueuesAgree
<1>2. LimiterTypeOK
  <2>1. request_times = [k \in DOMAIN token_entries |-> token_entries[k].age]
    BY <1>1 DEF LimiterInv, QueuesAgree
  <2> QED
    BY <2>1 DEF LimiterTypeOK, LimiterInv, QueuesAgree
<1>3. ASSUME limits.rpm > 0
      PROVE  Cardinality(inside) <= limits.rpm
  <2> DEFINE newest == (n - limits.rpm + 1) .. n
  <2>1. inside \in SUBSET newest
    BY <1>1, <1>3 DEF LimiterInv, WithinLimit, NewestCount
  <2>2. n - limits.rpm + 1 \in Int /\ n \in Int
    BY <1>1
  <2>3. /\ IsFiniteSet(newest)
        /\ Cardinality(newest) = IF n - limits.rpm + 1 > n THEN 0
                                 ELSE n - (n - limits.rpm + 1) + 1
    BY <2>2, FS_Interval
  <2>4. Cardinality(newest) = limits.rpm
    BY <1>1, <1>3, <2>3
  <2>5. Cardinality(inside) <= Cardinality(newest)
    <3> HIDE DEF inside, newest
    <3> QED
      BY <2>1, <2>3, FS_Subset
  <2> QED
    BY <2>4, <2>5
<1> QED
  BY <1>2, <1>3 DEF RpmWithinWindow

-----------------------------------------------------------------------------
(* The expert pass.                                                        *)

\* Before the diff is assessed there is a plan and nothing was recorded.
Fresh == stage = "assess" => plan \in Plans /\ unreviewed = {}

\* The types of the pass itself; those of the limiter are in LimiterInv.
PassTypes ==
  /\ stage \in {"assess", "overview", "experts", "succeeded", "failed"}
  /\ plan \in Plans \cup {NoPlan}
  /\ cap \in Nat
  /\ TaskIds \subseteq 1 .. Team
  /\ state \in [TaskIds -> {"waiting", "limiting", "sleeping", "calling", "report", "error"}]
  /\ tokens \in [TaskIds -> TokenCounts]
  /\ sleeping \in [TaskIds -> 0 .. Window]
  /\ unreviewed \subseteq Files

PipelineInv ==
  /\ PassTypes
  /\ Fresh
  /\ HonestOutcome
  /\ LimiterInv

(* The pass starts with an empty window and no task.                       *)
LEMMA PipelineInit ==
  ASSUME Init
  PROVE  PipelineInv
<1>1. LimiterInv
  BY DEF Init, LimiterInit, LimiterInv, QueuesAgree, WithinLimit
<1>2. cap \in Nat
  BY PipelineAssumption DEF Init, ConcurrentCalls
<1>3. TaskIds = {}
  BY DEF Init, TaskIds
<1>4. PassTypes
  BY <1>2, <1>3 DEF Init, PassTypes, Files
<1> QED
  BY <1>1, <1>4 DEF Init, PipelineInv, Fresh, HonestOutcome

(* The tasks of a plan belong to experts of the team.                      *)
LEMMA AssignmentsAreOfTheTeam ==
  ASSUME plan \in Plans
  PROVE  DOMAIN Assignments \subseteq 1 .. Team
<1>1. 1 .. plan.reviewers \subseteq 1 .. Team
  BY PipelineAssumption
<1> QED
  BY <1>1 DEF Assignments, RouteChunks

(* Every step of the limiter keeps its invariant.                          *)
LEMMA LimiterStep ==
  ASSUME PipelineInv, Next
  PROVE  LimiterInv'
<1>1. CASE UNCHANGED limiterVars
  BY <1>1 DEF PipelineInv, limiterVars, LimiterInv, QueuesAgree, WithinLimit, NewestCount
<1>2. ASSUME NEW t \in TaskIds, LimiterAdmits(tokens[t])
      PROVE  LimiterInv'
  <2>1. tokens[t] \in Nat
    BY PipelineAssumption DEF PipelineInv, PassTypes
  <2> QED
    BY <1>2, <2>1, AdmitStep DEF PipelineInv
<1>3. ASSUME NEW t \in TaskIds, ExpertStep(t)
      PROVE  LimiterInv'
  <2>1. CASE PassLimiter(t)
    BY <1>1, <1>2, <2>1 DEF PassLimiter, LimiterRefuses
  <2>2. CASE SleepInLimiter(t)
    BY <2>2, DeferStep DEF SleepInLimiter, PipelineInv
  <2>3. CASE TakePermit(t) \/ Wake(t) \/ ExpertReports(t) \/ ExpertFails(t)
    BY <1>1, <2>3 DEF TakePermit, Wake, ExpertReports, ExpertFails
  <2> QED
    BY <1>3, <2>1, <2>2, <2>3 DEF ExpertStep
<1>4. CASE Tick
  BY <1>4, TickStep DEF Tick, PipelineInv
<1>5. CASE AssessAndChunkDiff \/ LeadOverview \/ CollectResults \/ Ended
  BY <1>1, <1>5 DEF AssessAndChunkDiff, LeadOverview, CollectResults, Ended, vars
<1> QED
  BY <1>3, <1>4, <1>5 DEF Next

(* A step of one expert changes its own task only, while no verdict is in. *)
LEMMA ExpertStepKeepsTypes ==
  ASSUME PipelineInv, NEW t \in TaskIds, stage = "experts", ExpertStep(t)
  PROVE  PassTypes' /\ stage' = "experts"
<1> DEFINE TaskState == {"waiting", "limiting", "sleeping", "calling", "report", "error"}
<1>1. /\ UNCHANGED <<stage, plan, chunks, cap, tasks, tokens, unreviewed>>
      /\ \E s \in TaskState : state' = [state EXCEPT ![t] = s]
  BY DEF ExpertStep, TakePermit, PassLimiter, SleepInLimiter, Wake, ExpertReports, ExpertFails
<1>2. sleeping' \in [TaskIds -> 0 .. Window]
  <2>1. CASE SleepInLimiter(t)
    <3>1. LimiterWait(tokens[t]) \in 0 .. Window
      BY WaitIs DEF PipelineInv, LimiterInv
    <3> QED
      BY <2>1, <3>1 DEF SleepInLimiter, PipelineInv, PassTypes
  <2>2. CASE UNCHANGED sleeping
    BY <2>2 DEF PipelineInv, PassTypes
  <2> QED
    BY <2>1, <2>2 DEF ExpertStep, TakePermit, PassLimiter, Wake, ExpertReports, ExpertFails
<1>3. state' \in [TaskIds -> TaskState]
  BY <1>1 DEF PipelineInv, PassTypes
<1>4. UNCHANGED <<TaskIds, Files>>
  BY <1>1 DEF TaskIds, Files
<1> QED
  BY <1>1, <1>2, <1>3, <1>4 DEF PipelineInv, PassTypes

(* The routing builds one task for each busy expert.                       *)
LEMMA AssessKeepsTypes ==
  ASSUME PipelineInv, AssessAndChunkDiff
  PROVE  PassTypes' /\ stage' = "overview"
<1>1. plan \in Plans /\ unreviewed' = {}
  BY DEF AssessAndChunkDiff, PipelineInv, Fresh
<1>2. TaskIds' = DOMAIN Assignments
  BY DEF AssessAndChunkDiff, TaskIds
<1>3. /\ state' \in [TaskIds' -> {"waiting", "limiting", "sleeping", "calling", "report", "error"}]
      /\ tokens' \in [TaskIds' -> TokenCounts]
      /\ sleeping' \in [TaskIds' -> 0 .. Window]
  BY <1>2, LimiterAssumption DEF AssessAndChunkDiff
<1> QED
  BY <1>1, <1>2, <1>3, AssignmentsAreOfTheTeam
     DEF AssessAndChunkDiff, PipelineInv, PassTypes

(* The clock shortens every sleep.                                         *)
LEMMA TickKeepsTypes ==
  ASSUME PipelineInv, Tick
  PROVE  PassTypes' /\ stage' = "experts"
<1>1. \A left \in 0 .. Window : Max({0, left - 1}) \in 0 .. Window
  BY LimiterAssumption, ExtremesOfTwo
<1>2. sleeping' \in [TaskIds -> 0 .. Window]
  BY <1>1 DEF Tick, PipelineInv, PassTypes
<1>3. UNCHANGED <<TaskIds, Files>>
  BY DEF Tick, TaskIds, Files
<1> QED
  BY <1>2, <1>3 DEF Tick, PipelineInv, PassTypes

(* join_all is over: what is recorded is true of the tasks.                *)
LEMMA CollectIsHonest ==
  ASSUME PipelineInv, CollectResults
  PROVE  PassTypes' /\ HonestOutcome' /\ stage' \in {"succeeded", "failed"}
<1>1. /\ UNCHANGED <<TaskIds, Files, tasks, state>>
      /\ unreviewed' = Files \ UNION {tasks[t].files : t \in Reports}
  BY DEF CollectResults, TaskIds, Files, Unreviewed
<1>2. stage' \in {"succeeded", "failed"}
  BY DEF CollectResults
<1>3. PassTypes'
  BY <1>1, <1>2 DEF CollectResults, PipelineInv, PassTypes
<1>4. \A f \in Files \ unreviewed' :
        \E t \in TaskIds : state[t] = "report" /\ f \in tasks[t].files
  BY <1>1 DEF Reports
<1>5. stage' = "succeeded" /\ TaskIds # {} => \E t \in TaskIds : state[t] = "report"
  BY DEF CollectResults, Joined, AllExpertsFailed, Reports, ErrorsOf
<1>6. stage' = "failed" => unreviewed' = Files
  BY <1>1 DEF CollectResults, AllExpertsFailed
<1> QED
  BY <1>1, <1>2, <1>3, <1>4, <1>5, <1>6 DEF HonestOutcome

LEMMA PipelineStep ==
  ASSUME PipelineInv, [Next]_vars
  PROVE  PipelineInv'
<1>1. CASE AssessAndChunkDiff
  BY <1>1, AssessKeepsTypes, LimiterStep DEF Next, PipelineInv, Fresh, HonestOutcome
<1>2. CASE LeadOverview
  <2>1. PassTypes'
    BY <1>2 DEF LeadOverview, PipelineInv, PassTypes, TaskIds, Files
  <2>2. Fresh' /\ HonestOutcome'
    BY <1>2 DEF LeadOverview, Fresh, HonestOutcome
  <2> QED
    BY <1>2, <2>1, <2>2, LimiterStep DEF Next, PipelineInv
<1>3. ASSUME NEW t \in TaskIds, stage = "experts", ExpertStep(t)
      PROVE  PipelineInv'
  BY <1>3, ExpertStepKeepsTypes, LimiterStep DEF Next, PipelineInv, Fresh, HonestOutcome
<1>4. CASE Tick
  BY <1>4, TickKeepsTypes, LimiterStep DEF Next, PipelineInv, Fresh, HonestOutcome
<1>5. CASE CollectResults
  BY <1>5, CollectIsHonest, LimiterStep DEF Next, PipelineInv, Fresh
<1>6. CASE UNCHANGED vars
  <2>1. LimiterInv'
    BY <1>6 DEF PipelineInv, vars, limiterVars, LimiterInv, QueuesAgree, WithinLimit, NewestCount
  <2>2. PassTypes' /\ Fresh' /\ HonestOutcome'
    BY <1>6 DEF PipelineInv, vars, pipelineVars, PassTypes, Fresh, HonestOutcome, TaskIds, Files
  <2> QED
    BY <2>1, <2>2 DEF PipelineInv
<1> QED
  BY <1>1, <1>2, <1>3, <1>4, <1>5, <1>6 DEF Next, Ended

LEMMA PipelineAlways == Spec => []PipelineInv
<1>1. Init => PipelineInv
  BY PipelineInit
<1>2. PipelineInv /\ [Next]_vars => PipelineInv'
  BY PipelineStep
<1> QED
  BY <1>1, <1>2, PTL DEF Spec

(* In no window are more requests let through than max_rpm, whatever the   *)
(* window, the limits, the team and the order in which the experts come    *)
(* (RateLimiter::acquire).                                                 *)
THEOREM RpmLimitHolds == Spec => []RpmWithinWindow
<1>1. PipelineInv => RpmWithinWindow
  BY LimiterCorrect DEF PipelineInv
<1> QED
  BY <1>1, PipelineAlways, PTL

(* The outcome of the expert pass is well formed and honest, whatever the  *)
(* plan, the team and the limits (run_experts): a file that is not listed  *)
(* as unreviewed has a report, a success has one, and a failure none.      *)
THEOREM OutcomeCorrect == Spec => []OutcomeIsSound
<1>1. PipelineInv => OutcomeIsSound
  BY LimiterCorrect DEF PipelineInv, PassTypes, OutcomeIsSound, TypeOK
<1> QED
  BY <1>1, PipelineAlways, PTL
=============================================================================
