---------------------------- MODULE LlmFallback ----------------------------
(***************************************************************************)
(* One LLMClient::complete_with_fallback call (llm/client/mod.rs): it      *)
(* walks the chain of configured providers, retries a provider whose       *)
(* failure may pass, sends an empty answer's request once more without     *)
(* thinking, and records a sample for every attempt it makes.              *)
(*                                                                         *)
(* The call shares nothing with other calls, so each request to a          *)
(* provider, with what the loop does about the reply, is one action; the   *)
(* provider chooses the reply (LlmAdapters says which class it falls in).  *)
(***************************************************************************)
EXTENDS LlmAdapters

CONSTANTS MaxChain   \* bound: entries of the chain in the initial states

ASSUME ChainAssumption == MaxChain \in Nat

\* Fault: the retries are counted apart from the first attempt.
MaxRetriesAndFirst == 4

\* max_retries
MaxRetries == 3

VARIABLES
  chain,       \* configs: whether each entry already disables thinking
  entry,       \* i + 1, the entry the walk is at
  attempt,     \* attempt + 1 at that entry
  phase,       \* "request", "resend" (without thinking), "backoff", or done
  last_error,  \* the failure to report, "unset" before the first
  samples,     \* what record_sample gave the sink, in order
  served       \* the entry that attribute_provider names, 0 if none

vars == <<chain, entry, attempt, phase, last_error, samples, served>>

\* The sample that record_sample writes for an attempt.
Sample(reply) ==
  [entry |-> entry, attempt |-> attempt, resent |-> phase = "resend", reply |-> reply]

Samples ==
  [entry : Nat, attempt : 1..MaxRetries, resent : BOOLEAN, reply : Replies]

-----------------------------------------------------------------------------
Init ==
  /\ chain \in UNION {[1..n -> BOOLEAN] : n \in 0..MaxChain}
  /\ entry = 1
  /\ attempt = 1
  /\ phase = IF chain = <<>> THEN "failed" ELSE "request"
  /\ last_error = "unset"
  /\ samples = <<>>
  /\ served = 0

\* complete_attempt: the provider replies and the sample is recorded.
Attempt(reply) ==
  /\ phase \in {"request", "resend"}
  /\ samples' = Append(samples, Sample(reply))

\* Fault: the first error of the chain is reported, not the last.
NextEntryKeepsFirstError(error) ==
  /\ last_error' = IF last_error = "unset" THEN error ELSE last_error
  /\ entry' = entry + 1
  /\ attempt' = 1
  /\ phase' = IF entry < Len(chain) THEN "request" ELSE "failed"
  /\ UNCHANGED <<chain, served>>

\* break: the entry is given up, and after the last one the call fails.
NextEntry(error) ==
  /\ last_error' = error
  /\ entry' = entry + 1
  /\ attempt' = 1
  /\ \/ entry < Len(chain) /\ phase' = "request"
     \/ entry = Len(chain) /\ phase' = "failed"
  /\ UNCHANGED <<chain, served>>

Answered ==
  /\ Attempt("text")
  /\ phase' = "answered"
  /\ served' = entry
  /\ UNCHANGED <<chain, entry, attempt, last_error>>

\* An empty answer from an entry that thinks: the same request, once more.
AskWithoutThinking ==
  /\ phase = "request"
  /\ ~chain[entry]
  /\ Attempt("blank")
  /\ phase' = "resend"
  /\ UNCHANGED <<chain, entry, attempt, last_error, served>>

\* The request without thinking fails too, for whatever reason.
ResendFails(error) ==
  /\ phase = "resend"
  /\ Attempt(error)
  /\ NextEntry(error)

BackOff(error) ==
  /\ phase = "request"
  /\ IsRetriable(error)
  /\ attempt < MaxRetries
  /\ Attempt(error)
  /\ phase' = "backoff"
  /\ last_error' = error
  /\ UNCHANGED <<chain, entry, attempt, served>>

Wake ==
  /\ phase = "backoff"
  /\ phase' = "request"
  /\ attempt' = attempt + 1
  /\ UNCHANGED <<chain, entry, last_error, samples, served>>

\* Fault: the last retry is not made.
GiveUpEarly(error) ==
  /\ phase = "request"
  /\ IsRetriable(error) => attempt + 1 >= MaxRetries
  /\ RetryVerdict(error) = "Empty" => chain[entry]
  /\ Attempt(error)
  /\ NextEntry(error)

\* A permanent failure, the last retry, or an empty answer that thinking
\* cannot explain.
GiveUp(error) ==
  /\ phase = "request"
  /\ IsRetriable(error) => attempt = MaxRetries
  /\ RetryVerdict(error) = "Empty" => chain[entry]
  /\ Attempt(error)
  /\ NextEntry(error)

Done == phase \in {"answered", "failed"} /\ UNCHANGED vars

Next ==
  \/ Answered
  \/ AskWithoutThinking
  \/ \E error \in Errors : ResendFails(error)
  \/ \E error \in Errors : BackOff(error)
  \/ Wake
  \/ \E error \in Errors : GiveUp(error)
  \/ Done

Spec == Init /\ [][Next]_vars

-----------------------------------------------------------------------------
(* The type invariant.                                                     *)
TypeOK ==
  /\ chain \in Seq(BOOLEAN)
  /\ entry \in Nat \ {0}
  /\ entry <= Len(chain) + 1
  /\ attempt \in 1..MaxRetries
  /\ phase \in {"request", "resend", "backoff", "answered", "failed"}
  /\ phase \notin {"failed"} => entry <= Len(chain)
  /\ last_error \in Errors \cup {"unset"}
  /\ samples \in Seq(Samples)
  /\ served \in Nat

(* What a call may cost (complete_with_fallback): at most four requests to *)
(* each provider, the three attempts and the one without thinking.         *)
RequestsBounded == Len(samples) <= 4 * Len(chain)

(* No provider is left too early and none is skipped: the samples go       *)
(* through the chain in order, and the last sample of every entry that was *)
(* left shows why (a permanent failure, the third retriable one, an empty  *)
(* answer without thinking, or a failed request without thinking).         *)
LeftForAReason ==
  LET Of(e) == {k \in DOMAIN samples : samples[k].entry = e}
      Left == IF phase = "failed" THEN DOMAIN chain ELSE 1..(entry - 1)
  IN /\ \A k \in 1..(Len(samples) - 1) :
          samples[k + 1].entry \in {samples[k].entry, samples[k].entry + 1}
     /\ \A e \in Left : \E k \in Of(e) :
          /\ \A l \in Of(e) : l <= k
          /\ samples[k].reply # "text"
          /\ \/ samples[k].resent
             \/ RetryVerdict(samples[k].reply) = "Permanent"
             \/ RetryVerdict(samples[k].reply) = "Empty" /\ chain[e]
             \/ IsRetriable(samples[k].reply) /\ samples[k].attempt = MaxRetries

(* A provider that refused the request for good, or answered without       *)
(* content while not thinking, is not asked again (retry_verdict:          *)
(* Permanent and Empty).                                                   *)
NotAskedAgain ==
  \A k, l \in DOMAIN samples :
    (k < l /\ samples[k].entry = samples[l].entry)
      => \/ IsRetriable(samples[k].reply) /\ ~samples[k].resent
         \/ samples[k].reply = "blank" /\ ~chain[samples[k].entry] /\ samples[l].resent

(* No request is wasted and no provider is given up on too early: what     *)
(* retry_verdict says of a reply is what the loop over the chain does.     *)
VerdictsAreFollowed == LeftForAReason /\ NotAskedAgain

(* The outcome agrees with the samples: an answer is text, comes from the  *)
(* last attempt and is credited to the entry that gave it; a failure names *)
(* the last error, and comes after every entry of the chain was asked.     *)
OutcomeMatchesSamples ==
  /\ phase = "answered" =>
       /\ samples # <<>>
       /\ samples[Len(samples)].reply = "text"
       /\ served = samples[Len(samples)].entry
  /\ phase = "failed" =>
       /\ served = 0
       /\ chain # <<>> => /\ samples[Len(samples)].reply = last_error
                          /\ samples[Len(samples)].entry = Len(chain)
  /\ \A k \in 1..(Len(samples) - 1) : samples[k].reply # "text"
=============================================================================
