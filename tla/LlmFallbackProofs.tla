------------------------- MODULE LlmFallbackProofs -------------------------
(***************************************************************************)
(* What one completion call may cost, for chains of every length.          *)
(***************************************************************************)
EXTENDS LlmFallback, TLAPS

(* The requests made so far, in terms of where the walk is: four for every *)
(* entry that was left, and at the current entry one for every attempt     *)
(* made, with one more for an answer to a request without thinking.        *)
SpentSoFar ==
  /\ phase = "request" => Len(samples) <= 4 * (entry - 1) + attempt - 1
  /\ phase \in {"backoff", "resend"} => Len(samples) <= 4 * (entry - 1) + attempt
  /\ phase = "answered" => Len(samples) <= 4 * (entry - 1) + attempt + 1
  /\ phase = "failed" => Len(samples) <= 4 * (entry - 1)

\* A backoff is only ever begun with an attempt left.
BackoffHasAttemptLeft == phase = "backoff" => attempt < MaxRetries

\* The inductive invariant.
CostInv == TypeOK /\ BackoffHasAttemptLeft /\ SpentSoFar

-----------------------------------------------------------------------------
(* Giving an entry up leaves a well-formed walk behind.                    *)
LEMMA NextEntryKeepsType ==
  ASSUME TypeOK, NEW error \in Errors, phase \in {"request", "resend"},
         Attempt(error), NextEntry(error)
  PROVE  TypeOK' /\ samples' \in Seq(Samples) /\ Len(samples') = Len(samples) + 1
<1>1. Sample(error) \in Samples
  BY DEF TypeOK, Sample, Samples, Errors
<1>2. samples' \in Seq(Samples) /\ Len(samples') = Len(samples) + 1
  BY <1>1 DEF Attempt, TypeOK
<1>3. QED
  BY <1>2 DEF NextEntry, TypeOK, MaxRetries

(* An attempt that does not leave the entry records one sample.            *)
LEMMA AttemptRecordsOne ==
  ASSUME TypeOK, NEW reply \in Replies, Attempt(reply)
  PROVE  samples' \in Seq(Samples) /\ Len(samples') = Len(samples) + 1
<1>1. Sample(reply) \in Samples
  BY DEF TypeOK, Sample, Samples
<1>2. QED
  BY <1>1 DEF Attempt, TypeOK

LEMMA CostInit == Init => CostInv
<1> SUFFICES ASSUME Init PROVE CostInv
  OBVIOUS
<1>1. chain \in Seq(BOOLEAN)
  BY DEF Init
<1>2. PICK n \in 0..MaxChain : chain \in [1..n -> BOOLEAN]
  BY DEF Init
<1>3. Len(chain) = n /\ n \in Nat
  BY <1>2, ChainAssumption
<1>4. samples \in Seq(Samples) /\ Len(samples) = 0
  BY DEF Init
<1>5. phase # "failed" => 1 <= Len(chain)
  BY <1>1, <1>3 DEF Init
<1>6. TypeOK
  BY <1>1, <1>3, <1>4, <1>5 DEF Init, TypeOK, MaxRetries
<1>7. QED
  BY <1>4, <1>6 DEF CostInv, Init, BackoffHasAttemptLeft, SpentSoFar

LEMMA CostStep == CostInv /\ [Next]_vars => CostInv'
<1> SUFFICES ASSUME CostInv, [Next]_vars PROVE CostInv'
  OBVIOUS
<1> USE DEF CostInv
<1>1. CASE Answered
  <2>1. samples' \in Seq(Samples) /\ Len(samples') = Len(samples) + 1
    BY <1>1, AttemptRecordsOne DEF Answered, Replies
  <2>2. TypeOK'
    BY <1>1, <2>1 DEF Answered, Attempt, TypeOK
  <2>3. QED
    BY <1>1, <2>1, <2>2 DEF Answered, Attempt, TypeOK, BackoffHasAttemptLeft, SpentSoFar
<1>2. CASE AskWithoutThinking
  <2>1. samples' \in Seq(Samples) /\ Len(samples') = Len(samples) + 1
    BY <1>2, AttemptRecordsOne DEF AskWithoutThinking, Replies
  <2>2. TypeOK'
    BY <1>2, <2>1 DEF AskWithoutThinking, TypeOK
  <2>3. QED
    BY <1>2, <2>1, <2>2 DEF AskWithoutThinking, TypeOK, BackoffHasAttemptLeft, SpentSoFar
<1>3. ASSUME NEW error \in Errors, ResendFails(error) PROVE CostInv'
  <2>1. TypeOK' /\ Len(samples') = Len(samples) + 1
    BY <1>3, NextEntryKeepsType DEF ResendFails
  <2>2. QED
    BY <1>3, <2>1 DEF ResendFails, NextEntry, TypeOK, MaxRetries, BackoffHasAttemptLeft, SpentSoFar
<1>4. ASSUME NEW error \in Errors, BackOff(error) PROVE CostInv'
  <2>1. samples' \in Seq(Samples) /\ Len(samples') = Len(samples) + 1
    BY <1>4, AttemptRecordsOne DEF BackOff, Errors
  <2>2. TypeOK'
    BY <1>4, <2>1 DEF BackOff, TypeOK
  <2>3. QED
    BY <1>4, <2>1, <2>2 DEF BackOff, TypeOK, BackoffHasAttemptLeft, SpentSoFar
<1>5. CASE Wake
  BY <1>5 DEF Wake, TypeOK, MaxRetries, BackoffHasAttemptLeft, SpentSoFar
<1>6. ASSUME NEW error \in Errors, GiveUp(error) PROVE CostInv'
  <2>1. TypeOK' /\ Len(samples') = Len(samples) + 1
    BY <1>6, NextEntryKeepsType DEF GiveUp
  <2>2. QED
    BY <1>6, <2>1 DEF GiveUp, NextEntry, TypeOK, MaxRetries, BackoffHasAttemptLeft, SpentSoFar
<1>7. CASE UNCHANGED vars
  BY <1>7 DEF vars, TypeOK, BackoffHasAttemptLeft, SpentSoFar
<1>8. QED
  BY <1>1, <1>2, <1>3, <1>4, <1>5, <1>6, <1>7 DEF Next, Done

LEMMA CostAlways == Spec => []CostInv
  BY CostInit, CostStep, PTL DEF Spec

(* The variables of the walk keep their types, for chains of every length. *)
THEOREM FallbackTypeCorrect == Spec => []TypeOK
<1>1. CostInv => TypeOK
  BY DEF CostInv
<1>2. QED
  BY <1>1, CostAlways, PTL

(* complete_with_fallback makes at most four requests per provider,        *)
(* however long the chain and whatever the providers reply.                *)
THEOREM CallCostBounded == Spec => []RequestsBounded
<1>1. CostInv => RequestsBounded
  BY DEF CostInv, TypeOK, MaxRetries, SpentSoFar, RequestsBounded
<1>2. QED
  BY <1>1, CostAlways, PTL

-----------------------------------------------------------------------------
(* As long as no provider has answered, no sample holds text and no entry  *)
(* is credited; and the failure to report is that of the last sample.      *)
NothingServedYet ==
  phase # "answered" =>
    /\ served = 0
    /\ \A k \in 1..Len(samples) : samples[k].reply # "text"

FailureIsLast ==
  phase = "failed" /\ chain # <<>> =>
    /\ samples # <<>>
    /\ samples[Len(samples)].reply = last_error
    /\ samples[Len(samples)].entry = Len(chain)

\* The inductive invariant.
OutcomeInv == TypeOK /\ NothingServedYet /\ FailureIsLast /\ OutcomeMatchesSamples

(* What recording an attempt does to the samples.                          *)
LEMMA AttemptAppends ==
  ASSUME TypeOK, NEW reply \in Replies, Attempt(reply)
  PROVE  /\ Len(samples') = Len(samples) + 1
         /\ samples' # <<>>
         /\ \A k \in 1..Len(samples) : samples'[k] = samples[k]
         /\ samples'[Len(samples')].reply = reply
         /\ samples'[Len(samples')].entry = entry
<1>1. Sample(reply) \in Samples /\ samples \in Seq(Samples)
  BY DEF TypeOK, Sample, Samples
<1>2. samples' = Append(samples, Sample(reply))
  BY DEF Attempt
<1>3. Sample(reply).reply = reply /\ Sample(reply).entry = entry
  BY DEF Sample
<1>4. QED
  BY <1>1, <1>2, <1>3

LEMMA OutcomeInit == Init => OutcomeInv
<1> SUFFICES ASSUME Init PROVE OutcomeInv
  OBVIOUS
<1>1. TypeOK
  BY CostInit DEF CostInv
<1>2. samples = <<>> /\ Len(samples) = 0 /\ served = 0 /\ phase # "answered"
  BY DEF Init
<1>3. phase = "failed" => chain = <<>>
  BY DEF Init
<1>4. QED
  BY <1>1, <1>2, <1>3 DEF OutcomeInv, NothingServedYet, FailureIsLast, OutcomeMatchesSamples

(* The entry given up was the last one when the call fails.                *)
LEMMA FailureKeepsOutcome ==
  ASSUME OutcomeInv, TypeOK', NEW error \in Errors, phase \in {"request", "resend"},
         Attempt(error), NextEntry(error)
  PROVE  OutcomeInv'
<1>1. /\ Len(samples') = Len(samples) + 1
      /\ samples' # <<>>
      /\ \A k \in 1..Len(samples) : samples'[k] = samples[k]
      /\ samples'[Len(samples')].reply = error
      /\ samples'[Len(samples')].entry = entry
  BY AttemptAppends DEF OutcomeInv, Errors
<1>2. Len(samples) \in Nat /\ error # "text"
  BY DEF OutcomeInv, TypeOK, Errors
<1>3. served' = 0 /\ \A k \in 1..Len(samples') : samples'[k].reply # "text"
  BY <1>1, <1>2 DEF OutcomeInv, NothingServedYet, NextEntry
<1>4. phase' # "answered" /\ last_error' = error /\ chain' = chain
  BY DEF NextEntry
<1>5. phase' = "failed" => entry = Len(chain)
  BY DEF NextEntry
<1>6. QED
  BY <1>1, <1>2, <1>3, <1>4, <1>5 DEF OutcomeInv, NothingServedYet, FailureIsLast, OutcomeMatchesSamples

(* Neither an answer nor the end of the chain.                             *)
LEMMA AttemptKeepsOutcome ==
  ASSUME OutcomeInv, TypeOK', NEW error \in Errors, Attempt(error),
         phase' \in {"resend", "backoff"}, served' = served
  PROVE  OutcomeInv'
<1>1. /\ Len(samples') = Len(samples) + 1
      /\ \A k \in 1..Len(samples) : samples'[k] = samples[k]
      /\ samples'[Len(samples')].reply = error
  BY AttemptAppends DEF OutcomeInv, Errors
<1>2. Len(samples) \in Nat /\ error # "text" /\ phase # "answered"
  BY DEF OutcomeInv, TypeOK, Errors, Attempt
<1>3. served' = 0 /\ \A k \in 1..Len(samples') : samples'[k].reply # "text"
  BY <1>1, <1>2 DEF OutcomeInv, NothingServedYet
<1>4. QED
  BY <1>1, <1>2, <1>3 DEF OutcomeInv, NothingServedYet, FailureIsLast, OutcomeMatchesSamples

LEMMA OutcomeStep == OutcomeInv /\ TypeOK' /\ [Next]_vars => OutcomeInv'
<1> SUFFICES ASSUME OutcomeInv, TypeOK', [Next]_vars PROVE OutcomeInv'
  OBVIOUS
<1>1. CASE Answered
  <2>1. /\ Len(samples') = Len(samples) + 1
        /\ samples' # <<>>
        /\ \A k \in 1..Len(samples) : samples'[k] = samples[k]
        /\ samples'[Len(samples')].reply = "text"
        /\ samples'[Len(samples')].entry = entry
    BY <1>1, AttemptAppends DEF OutcomeInv, Answered, Replies
  <2>2. Len(samples) \in Nat /\ phase # "answered" /\ phase' = "answered" /\ served' = entry
    BY <1>1 DEF OutcomeInv, TypeOK, Answered, Attempt
  <2>3. \A k \in 1..(Len(samples') - 1) : samples'[k].reply # "text"
    BY <2>1, <2>2 DEF OutcomeInv, NothingServedYet
  <2>4. QED
    BY <2>1, <2>2, <2>3 DEF OutcomeInv, NothingServedYet, FailureIsLast, OutcomeMatchesSamples
<1>2. CASE AskWithoutThinking
  BY <1>2, AttemptKeepsOutcome DEF AskWithoutThinking, Errors, Replies
<1>3. ASSUME NEW error \in Errors, ResendFails(error) PROVE OutcomeInv'
  BY <1>3, FailureKeepsOutcome DEF ResendFails
<1>4. ASSUME NEW error \in Errors, BackOff(error) PROVE OutcomeInv'
  BY <1>4, AttemptKeepsOutcome DEF BackOff
<1>5. CASE Wake
  BY <1>5 DEF Wake, OutcomeInv, NothingServedYet, FailureIsLast, OutcomeMatchesSamples
<1>6. ASSUME NEW error \in Errors, GiveUp(error) PROVE OutcomeInv'
  BY <1>6, FailureKeepsOutcome DEF GiveUp
<1>7. CASE UNCHANGED vars
  BY <1>7 DEF vars, OutcomeInv, NothingServedYet, FailureIsLast, OutcomeMatchesSamples
<1>8. QED
  BY <1>1, <1>2, <1>3, <1>4, <1>5, <1>6, <1>7 DEF Next, Done

(* The outcome of a call agrees with the samples it recorded: no blank or  *)
(* failed completion is ever returned as an answer, the answer is credited *)
(* to the provider that gave it, and a call fails only after the last      *)
(* entry of the chain failed.                                              *)
THEOREM OutcomeCorrect == Spec => []OutcomeMatchesSamples
<1>1. OutcomeInv => OutcomeMatchesSamples
  BY DEF OutcomeInv
<1>2. Spec => []TypeOK
  BY FallbackTypeCorrect
<1>3. QED
  BY <1>1, <1>2, OutcomeInit, OutcomeStep, PTL DEF Spec

-----------------------------------------------------------------------------
(* Verdicts.  The samples go through the chain in step with the walk, the  *)
(* last sample of an entry that was left is its reason, and the samples of *)
(* the entry the walk is at all ask for another request.                   *)

Count == Len(samples)

InStep ==
  /\ \A k \in 1..Count : samples[k].entry <= entry
  /\ Count # 0 => samples[Count].entry \in {entry - 1, entry}
  /\ \A k \in 1..(Count - 1) :
       samples[k + 1].entry \in {samples[k].entry, samples[k].entry + 1}
  /\ phase = "failed" => entry = Len(chain) + 1

\* Why a provider may be given up on after a sample.
Reason(sample, quiet) ==
  /\ sample.reply # "text"
  /\ \/ sample.resent
     \/ RetryVerdict(sample.reply) = "Permanent"
     \/ RetryVerdict(sample.reply) = "Empty" /\ quiet
     \/ IsRetriable(sample.reply) /\ sample.attempt = MaxRetries

LeftWithReason ==
  \A e \in 1..(entry - 1) :
    \E k \in 1..Count : /\ samples[k].entry = e
                        /\ \A l \in 1..Count : samples[l].entry = e => l <= k
                        /\ Reason(samples[k], chain[e])

MayAskAgain(sample) == IsRetriable(sample.reply) /\ ~sample.resent

AskedForMore ==
  \A k \in 1..Count : samples[k].entry = entry =>
    /\ phase \in {"request", "backoff"} => MayAskAgain(samples[k])
    /\ phase = "resend" => \/ MayAskAgain(samples[k])
                           \/ samples[k].reply = "blank" /\ ~chain[entry]

VerdictInv == InStep /\ LeftWithReason /\ AskedForMore /\ NotAskedAgain

\* What an attempt adds: one sample, of the entry and attempt the walk is at.
LEMMA AttemptAdds ==
  ASSUME TypeOK, NEW reply \in Replies, Attempt(reply), NEW n, n = Count
  PROVE  /\ n \in Nat /\ Count' = n + 1
         /\ DOMAIN samples = 1..n /\ DOMAIN samples' = 1..(n + 1)
         /\ \A k \in 1..n : samples'[k] = samples[k] /\ samples[k].entry \in Nat
         /\ samples'[n + 1] = Sample(reply)
<1>1. Sample(reply) \in Samples /\ samples \in Seq(Samples)
  BY DEF TypeOK, Sample, Samples
<1>2. samples' = Append(samples, Sample(reply))
  BY DEF Attempt
<1>3. \A k \in 1..n : samples[k] \in Samples
  BY <1>1 DEF Count
<1>4. QED BY <1>1, <1>2, <1>3 DEF Count, Samples

\* An attempt at the entry keeps NotAskedAgain: every earlier sample of this
\* entry asked for it.
LEMMA AttemptAllowed ==
  ASSUME TypeOK, VerdictInv, NEW reply \in Replies, Attempt(reply), chain' = chain
  PROVE  NotAskedAgain'
<1>0. PICK n : n = Count
  OBVIOUS
<1>1. /\ n \in Nat /\ Count' = n + 1
      /\ DOMAIN samples = 1..n /\ DOMAIN samples' = 1..(n + 1)
      /\ \A k \in 1..n : samples'[k] = samples[k] /\ samples[k].entry \in Nat
      /\ samples'[n + 1] = Sample(reply)
  BY <1>0, AttemptAdds
<1> SUFFICES ASSUME NEW k \in 1..(n + 1), NEW l \in 1..(n + 1), k < l,
                    samples'[k].entry = samples'[l].entry
             PROVE  \/ IsRetriable(samples'[k].reply) /\ ~samples'[k].resent
                    \/ samples'[k].reply = "blank" /\ ~chain[samples'[k].entry]
                       /\ samples'[l].resent
  BY <1>1 DEF NotAskedAgain
<1>2. k \in 1..n /\ samples'[k] = samples[k]
  BY <1>1
<1>3. CASE l \in 1..n
  BY <1>1, <1>2, <1>3 DEF VerdictInv, NotAskedAgain
<1>4. CASE l = n + 1
  <2>1. samples[k].entry = entry /\ samples'[l].resent = (phase = "resend")
    BY <1>1, <1>2, <1>4 DEF Sample
  <2>2. phase \in {"request", "resend"}
    BY DEF Attempt
  <2>3. CASE phase = "request"
    BY <1>0, <1>2, <2>1, <2>3 DEF VerdictInv, AskedForMore, MayAskAgain
  <2>4. CASE phase = "resend"
    BY <1>0, <1>2, <2>1, <2>4 DEF VerdictInv, AskedForMore, MayAskAgain
  <2>5. QED BY <2>2, <2>3, <2>4
<1>5. QED BY <1>1, <1>3, <1>4

\* One more sample, of the entry the walk is at, continues the order.
LEMMA OrderContinues ==
  ASSUME InStep, NEW n \in Nat, n = Count, NEW at \in Nat, at = entry,
         \A k \in 1..n : samples'[k] = samples[k] /\ samples[k].entry \in Nat,
         samples'[n + 1].entry = at
  PROVE  /\ \A k \in 1..(n + 1) : samples'[k].entry <= at
         /\ \A k \in 1..n : samples'[k + 1].entry \in {samples'[k].entry, samples'[k].entry + 1}
<1>1. \A k \in 1..n : samples[k].entry <= at
  BY DEF InStep
<1>2. ASSUME NEW k \in 1..n
      PROVE  samples'[k + 1].entry \in {samples'[k].entry, samples'[k].entry + 1}
  <2>1. CASE k = n
    <3>1. samples[n].entry \in {at - 1, at}
      BY <2>1 DEF InStep
    <3>2. QED BY <2>1, <3>1
  <2>2. CASE k # n
    <3>1. k \in 1..(Count - 1) /\ k + 1 \in 1..n
      BY <2>2
    <3>2. QED BY <3>1 DEF InStep
  <2>3. QED BY <2>1, <2>2
<1>3. QED BY <1>1, <1>2

\* An attempt that stays at the entry.
LEMMA AttemptStays ==
  ASSUME TypeOK, VerdictInv, NEW reply \in Replies, Attempt(reply),
         chain' = chain, entry' = entry, phase' \in {"answered", "resend", "backoff"}
  PROVE  InStep' /\ LeftWithReason' /\ NotAskedAgain'
<1>0. PICK n : n = Count
  OBVIOUS
<1>1. /\ n \in Nat /\ Count' = n + 1
      /\ \A k \in 1..n : samples'[k] = samples[k] /\ samples[k].entry \in Nat
      /\ samples'[n + 1] = Sample(reply)
  BY <1>0, AttemptAdds
<1>2. samples'[n + 1].entry = entry /\ entry \in Nat
  BY <1>1 DEF Sample, TypeOK
<1>3. InStep'
  <2>1. InStep
    BY DEF VerdictInv
  <2>2. /\ \A k \in 1..(n + 1) : samples'[k].entry <= entry
        /\ \A k \in 1..n : samples'[k + 1].entry \in {samples'[k].entry, samples'[k].entry + 1}
    BY <1>0, <1>1, <1>2, <2>1, OrderContinues
  <2>3. QED BY <1>1, <1>2, <2>2 DEF InStep
<1>4. LeftWithReason'
  <2> SUFFICES ASSUME NEW e \in 1..(entry - 1)
               PROVE  \E k \in 1..(n + 1) :
                        /\ samples'[k].entry = e
                        /\ \A l \in 1..(n + 1) : samples'[l].entry = e => l <= k
                        /\ Reason(samples'[k], chain[e])
    BY <1>1 DEF LeftWithReason
  <2>1. PICK k \in 1..n : /\ samples[k].entry = e
                          /\ \A l \in 1..n : samples[l].entry = e => l <= k
                          /\ Reason(samples[k], chain[e])
    BY <1>0 DEF VerdictInv, LeftWithReason
  <2>2. \A l \in 1..(n + 1) : samples'[l].entry = e => l <= k
    BY <1>1, <1>2, <2>1
  <2>3. k \in 1..(n + 1) /\ samples'[k] = samples[k]
    BY <1>1
  <2>4. QED BY <2>1, <2>2, <2>3
<1>5. QED BY <1>3, <1>4, AttemptAllowed

\* Giving the entry up: the sample just recorded is the reason.
LEMMA GivenUpWithReason ==
  ASSUME TypeOK, VerdictInv, NEW error \in Errors, Attempt(error), NextEntry(error),
         \/ phase = "resend"
         \/ RetryVerdict(error) = "Permanent"
         \/ RetryVerdict(error) = "Empty" /\ chain[entry]
         \/ IsRetriable(error) /\ attempt = MaxRetries
  PROVE  VerdictInv'
<1>r. error \in Replies /\ error # "text"
  BY DEF Errors
<1>0. PICK n, at : n = Count /\ at = entry
  OBVIOUS
<1>1. /\ n \in Nat /\ Count' = n + 1
      /\ \A k \in 1..n : samples'[k] = samples[k] /\ samples[k].entry \in Nat
      /\ samples'[n + 1] = Sample(error)
  BY <1>r, <1>0, AttemptAdds
<1>2. /\ samples'[n + 1].entry = at /\ samples'[n + 1].reply = error
      /\ samples'[n + 1].attempt = attempt /\ samples'[n + 1].resent = (phase = "resend")
      /\ at \in Nat /\ Len(chain) \in Nat
  BY <1>0, <1>1 DEF Sample, TypeOK
<1>3. /\ chain' = chain /\ entry' = at + 1 /\ phase' \in {"request", "failed"}
      /\ phase' = "failed" => at = Len(chain)
  BY <1>0 DEF NextEntry
<1>4. InStep'
  <2>1. InStep
    BY DEF VerdictInv
  <2>2. /\ \A k \in 1..(n + 1) : samples'[k].entry <= at
        /\ \A k \in 1..n : samples'[k + 1].entry \in {samples'[k].entry, samples'[k].entry + 1}
    BY <1>0, <1>1, <1>2, <2>1, OrderContinues
  <2>3. \A k \in 1..(n + 1) : samples'[k].entry <= at + 1
    BY <1>1, <1>2, <2>2
  <2>4. QED BY <1>1, <1>2, <1>3, <2>2, <2>3 DEF InStep
<1>5. LeftWithReason'
  <2> SUFFICES ASSUME NEW e \in 1..at
               PROVE  \E k \in 1..(n + 1) :
                        /\ samples'[k].entry = e
                        /\ \A l \in 1..(n + 1) : samples'[l].entry = e => l <= k
                        /\ Reason(samples'[k], chain[e])
    BY <1>1, <1>2, <1>3 DEF LeftWithReason
  <2>1. CASE e = at
    <3>1. Reason(samples'[n + 1], chain[at])
      BY <1>r, <1>0, <1>2 DEF Reason
    <3>2. QED BY <1>1, <1>2, <2>1, <3>1
  <2>2. CASE e # at
    <3>1. e \in 1..(entry - 1)
      BY <1>0, <1>2, <2>2
    <3>2. PICK k \in 1..n : /\ samples[k].entry = e
                            /\ \A l \in 1..n : samples[l].entry = e => l <= k
                            /\ Reason(samples[k], chain[e])
      BY <1>0, <3>1 DEF VerdictInv, LeftWithReason
    <3>3. \A l \in 1..(n + 1) : samples'[l].entry = e => l <= k
      BY <1>1, <1>2, <2>2, <3>2
    <3>4. k \in 1..(n + 1) /\ samples'[k] = samples[k]
      BY <1>1
    <3>5. QED BY <3>2, <3>3, <3>4
  <2>3. QED BY <2>1, <2>2
<1>6. AskedForMore'
  <2>1. \A k \in 1..(n + 1) : samples'[k].entry < at + 1
    BY <1>0, <1>1, <1>2 DEF VerdictInv, InStep
  <2>2. QED BY <1>1, <1>2, <1>3, <2>1 DEF AskedForMore
<1>7. QED BY <1>r, <1>3, <1>4, <1>5, <1>6, AttemptAllowed DEF VerdictInv

LEMMA VerdictStep ==
  ASSUME TypeOK, VerdictInv, [Next]_vars
  PROVE  VerdictInv'
<1>1. CASE Answered
  <2>1. Attempt("text") /\ chain' = chain /\ entry' = entry /\ phase' = "answered"
    BY <1>1 DEF Answered
  <2>2. InStep' /\ LeftWithReason' /\ NotAskedAgain'
    BY <2>1, AttemptStays DEF Replies
  <2>3. QED BY <2>1, <2>2 DEF VerdictInv, AskedForMore
<1>2. CASE AskWithoutThinking
  <2>1. /\ Attempt("blank") /\ chain' = chain /\ entry' = entry
        /\ phase = "request" /\ phase' = "resend" /\ ~chain[entry]
    BY <1>2 DEF AskWithoutThinking
  <2>2. InStep' /\ LeftWithReason' /\ NotAskedAgain'
    BY <2>1, AttemptStays DEF Replies
  <2>3. AskedForMore'
    <3>0. PICK n : n = Count
      OBVIOUS
    <3>1. /\ n \in Nat /\ Count' = n + 1
          /\ \A k \in 1..n : samples'[k] = samples[k]
          /\ samples'[n + 1] = Sample("blank")
      BY <2>1, <3>0, AttemptAdds DEF Replies
    <3>2. samples'[n + 1].reply = "blank"
      BY <3>1 DEF Sample
    <3>3. QED BY <2>1, <3>0, <3>1, <3>2 DEF VerdictInv, AskedForMore
  <2>4. QED BY <2>2, <2>3 DEF VerdictInv
<1>3. ASSUME NEW error \in Errors, ResendFails(error) PROVE VerdictInv'
  BY <1>3, GivenUpWithReason DEF ResendFails
<1>4. ASSUME NEW error \in Errors, BackOff(error) PROVE VerdictInv'
  <2>1. /\ Attempt(error) /\ chain' = chain /\ entry' = entry /\ error \in Replies
        /\ phase = "request" /\ phase' = "backoff" /\ IsRetriable(error)
    BY <1>4 DEF BackOff, Errors
  <2>2. InStep' /\ LeftWithReason' /\ NotAskedAgain'
    BY <2>1, AttemptStays
  <2>3. AskedForMore'
    <3>0. PICK n : n = Count
      OBVIOUS
    <3>1. /\ n \in Nat /\ Count' = n + 1
          /\ \A k \in 1..n : samples'[k] = samples[k]
          /\ samples'[n + 1] = Sample(error)
      BY <2>1, <3>0, AttemptAdds
    <3>2. samples'[n + 1].reply = error /\ samples'[n + 1].resent = (phase = "resend")
      BY <3>1 DEF Sample
    <3>3. ~samples'[n + 1].resent
      BY <2>1, <3>2
    <3>4. QED BY <2>1, <3>0, <3>1, <3>2, <3>3 DEF VerdictInv, AskedForMore, MayAskAgain
  <2>4. QED BY <2>2, <2>3 DEF VerdictInv
<1>5. CASE Wake
  <2>1. /\ UNCHANGED <<chain, entry, samples>> /\ Count' = Count
        /\ phase = "backoff" /\ phase' = "request"
    BY <1>5 DEF Wake, Count
  <2>2. QED
    BY <2>1 DEF VerdictInv, InStep, LeftWithReason, AskedForMore, NotAskedAgain
<1>6. ASSUME NEW error \in Errors, GiveUp(error) PROVE VerdictInv'
  <2>1. \/ RetryVerdict(error) = "Permanent"
        \/ RetryVerdict(error) = "Empty" /\ chain[entry]
        \/ IsRetriable(error) /\ attempt = MaxRetries
    <3>1. RetryVerdict(error) \in {"Empty", "Unknown", "Retryable", "Permanent"}
      BY DEF RetryVerdict
    <3>2. QED BY <1>6, <3>1 DEF GiveUp, IsRetriable
  <2>2. Attempt(error) /\ NextEntry(error)
    BY <1>6 DEF GiveUp
  <2>3. QED BY <2>1, <2>2, GivenUpWithReason
<1>7. CASE UNCHANGED vars
  <2>1. UNCHANGED <<chain, entry, samples, phase>> /\ Count' = Count
    BY <1>7 DEF vars, Count
  <2>2. QED
    BY <2>1 DEF VerdictInv, InStep, LeftWithReason, AskedForMore, NotAskedAgain
<1>8. QED
  BY <1>1, <1>2, <1>3, <1>4, <1>5, <1>6, <1>7 DEF Next, Done

LEMMA VerdictInit == Init => VerdictInv
<1> SUFFICES ASSUME Init PROVE VerdictInv
  OBVIOUS
<1>1. samples = <<>> /\ Count = 0 /\ entry = 1
  BY DEF Init, Count
<1>2. phase = "failed" => Len(chain) = 0
  BY DEF Init
<1>3. QED
  BY <1>1, <1>2 DEF VerdictInv, InStep, LeftWithReason, AskedForMore, NotAskedAgain

(* What retry_verdict says of a reply is what the walk does, for chains of *)
(* every length and whatever the providers reply: none is skipped, none is *)
(* left before its retries are spent, and none is asked again after it     *)
(* refused for good.                                                       *)
THEOREM VerdictsCorrect == Spec => []VerdictsAreFollowed
<1>1. TypeOK /\ VerdictInv => VerdictsAreFollowed
  <2> SUFFICES ASSUME TypeOK, VerdictInv PROVE LeftForAReason
    BY DEF VerdictsAreFollowed, VerdictInv
  <2>1. DOMAIN samples = 1..Count /\ DOMAIN chain = 1..Len(chain) /\ Len(chain) \in Nat
    BY DEF TypeOK, Count
  <2>2. \A e \in 1..(entry - 1) :
          \E k \in {j \in DOMAIN samples : samples[j].entry = e} :
            /\ \A l \in {j \in DOMAIN samples : samples[j].entry = e} : l <= k
            /\ Reason(samples[k], chain[e])
    BY <2>1 DEF VerdictInv, LeftWithReason
  <2>3. (IF phase = "failed" THEN DOMAIN chain ELSE 1..(entry - 1)) = 1..(entry - 1)
    BY <2>1 DEF VerdictInv, InStep, TypeOK
  <2>4. QED BY <2>2, <2>3 DEF LeftForAReason, Reason, VerdictInv, InStep, Count
<1>2. TypeOK /\ VerdictInv /\ [Next]_vars => VerdictInv'
  BY VerdictStep
<1>3. QED
  BY <1>1, <1>2, VerdictInit, FallbackTypeCorrect, PTL DEF Spec
=============================================================================
