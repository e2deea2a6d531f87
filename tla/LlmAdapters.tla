---------------------------- MODULE LlmAdapters -----------------------------
(***************************************************************************)
(* One request to a provider and what the client makes of the answer: the  *)
(* bodies, addresses and keys of the adapters (llm/provider.rs), the       *)
(* registry that picks one, the direct path, the chain of causes that a    *)
(* failure leaves and the verdict read from it (llm/client/mod.rs).        *)
(*                                                                         *)
(* A configuration is [provider, model, base, key, thinking]; a base is    *)
(* [scheme, segs], its path split at the slashes.  A failure is a chain of *)
(* causes, the outermost first, each with the words a status is looked for *)
(* in: 0 for " returned ", another number for itself.  An optional value   *)
(* is a set of at most one.                                                *)
(***************************************************************************)
EXTENDS Integers, Sequences, SequencesExt

-----------------------------------------------------------------------------
(* The classes of replies that the retry loop tells apart: text, a blank   *)
(* completion, an HTTP status (401 for any 4xx but 408 and 429, 500 for    *)
(* any 5xx, 302 for the rest), a 2xx body that is not JSON, and every      *)
(* failure without a status (no api_base, DNS, TLS, timeout, a body        *)
(* without content).                                                       *)
Statuses == {"302", "401", "408", "429", "500"}

Replies == {"text", "blank", "badjson", "nostatus"} \cup Statuses

Errors == Replies \ {"text"}

RetryVerdict(error) ==
  CASE error = "blank"                -> "Empty"
    [] error = "badjson"              -> "Unknown"
    [] error \in {"408", "429", "500"} -> "Retryable"
    [] error = "401"                  -> "Permanent"
    [] OTHER                          -> "Unknown"

IsRetriable(error) == RetryVerdict(error) \in {"Retryable", "Unknown"}

-----------------------------------------------------------------------------
(* Requests.                                                               *)

\* eq_ignore_ascii_case, on the names of the model.
Folded(name) ==
  CASE name = "OpenAI" -> "openai" [] name = "Anthropic" -> "anthropic" [] name = "DeepSeek" -> "deepseek" [] OTHER -> name

ProviderKind(name) == IF Folded(name) \in {"anthropic", "openai"} THEN Folded(name) ELSE "compatible"

\* trim_end_matches('/')
TrimSlashes(segs) == SubSeq(segs, 1, CHOOSE n \in 0 .. Len(segs) :
                              /\ n > 0 => segs[n] # ""
                              /\ \A i \in n + 1 .. Len(segs) : segs[i] = "")

\* anthropic_api_base: a base that names its version keeps it.
AnthropicApiBase(base) ==
  LET segs == TrimSlashes(base.segs)
  IN  [base EXCEPT !.segs = IF segs # <<>> /\ Last(segs) \in {"v1", "v1beta"} THEN segs ELSE Append(segs, "v1")]

Under(base, tail) == [base EXCEPT !.segs = TrimSlashes(@) \o tail]

Message(role, content) == [role |-> role, content |-> content]
BuildMessages(system, user) == <<Message("system", system), Message("user", user)>>

\* Fault: the switch is passed on whenever it is set.
ThinkingWheneverSet(config, messages) ==
  [model |-> config.model, messages |-> messages, system |-> <<>>, thinking |-> config.thinking # {}]

\* build_chat_request_body and build_openai_compatible_body: thinking is switched off only
\* by an explicit true.
ChatBody(config, messages) ==
  [model |-> config.model, messages |-> messages, system |-> <<>>, thinking |-> config.thinking = {TRUE}]

Request(base, header, key, body) == {[url |-> base, header |-> header, key |-> key, body |-> body]}

\* AnthropicProvider::complete: the system messages leave the conversation, which must not
\* be empty then; the switch for thinking is not passed on.
AnthropicRequest(provider, config, messages) ==
  LET system == SelectSeq(messages, LAMBDA m : m.role = "system")
      rest == SelectSeq(messages, LAMBDA m : m.role # "system")
      body == [model |-> config.model, messages |-> rest, system |-> [i \in DOMAIN system |-> system[i].content], thinking |-> FALSE]
  IN  IF rest = <<>> THEN {} ELSE Request(Under(AnthropicApiBase(provider.base), <<"messages">>), "x-api-key", provider.key, body)

OpenAIRequest(provider, config, messages) ==
  Request(Under(provider.base, <<"chat", "completions">>), "Authorization", provider.key, ChatBody(config, messages))

\* complete_direct: nothing is sent without an address.
DirectRequest(config, messages) == IF config.base.scheme # "http" THEN {} ELSE OpenAIRequest(config, config, messages)

-----------------------------------------------------------------------------
(* The registry.                                                           *)

DefaultBase(kind) ==
  CASE kind = "anthropic" -> [scheme |-> "http", segs |-> <<"api.anthropic.com">>]
    [] OTHER -> [scheme |-> "http", segs |-> <<"api.openai.com", "v1">>]

\* The adapter of a configuration: its own name, except for the two built-in ones.
Adapter(config) ==
  LET kind == ProviderKind(config.provider)
      unset == config.base.scheme = "" /\ config.base.segs = <<>>
  IN  [name |-> CASE kind # "compatible" -> kind [] config.provider = "" -> "openai-compatible" [] OTHER -> config.provider,
       kind |-> kind, key |-> config.key,
       base |-> IF kind # "compatible" /\ unset THEN DefaultBase(kind) ELSE config.base]

\* ProviderRegistry::from_configs: by name, the last one registered stays.
FromConfigs(configs) ==
  LET all == [i \in DOMAIN configs |-> Adapter(configs[i])]
      names == {all[i].name : i \in DOMAIN all}
  IN  [n \in names |-> all[CHOOSE i \in DOMAIN all : all[i].name = n /\ \A j \in DOMAIN all : j > i => all[j].name # n]]

\* ProviderRegistry::get: the exact name, else any that differs only in case.
GetAdapter(registry, name) ==
  IF name \in DOMAIN registry THEN {registry[name]} ELSE {registry[n] : n \in {m \in DOMAIN registry : Folded(m) = Folded(name)}}

-----------------------------------------------------------------------------
(* Answers.                                                                *)

Returned == 0
Cause(kind, words) == [kind |-> kind, words |-> words]
Failed(causes) == [ok |-> FALSE, causes |-> causes]
Completed(value, provider, model) ==
  [ok |-> TRUE, content |-> value.content, provider |-> provider, fp |-> {},
   model |-> IF value.model = {} THEN model ELSE CHOOSE m \in value.model : TRUE]

\* What both paths make of an answer.  A body that is not JSON is marked on the direct path
\* only; the adapters wrap the error of the transport.
ReadAnswer(answer, provider, model, direct) ==
  CASE answer.got = "down" -> Failed(IF direct THEN <<Cause("down", <<>>)>> ELSE <<Cause("context", <<>>), Cause("transport", <<>>)>>)
    [] answer.status \notin 200 .. 299 -> Failed(<<Cause("status", <<Returned, answer.status>> \o answer.text)>>)
    [] ~answer.json -> Failed(<<Cause("context", <<>>), Cause(IF direct THEN "JsonDecodeError" ELSE "transport", <<>>)>>)
    [] answer.content = <<>> -> Failed(<<Cause("no content", <<>>)>>)
    [] OTHER -> Completed([content |-> answer.content[1], model |-> answer.model], provider, model)

\* attribute_provider: the card that was asked, whatever the provider calls itself.
AttributeProvider(result, config) ==
  IF ~result.ok THEN result
  ELSE [result EXCEPT !.provider = IF config.provider # "" THEN config.provider ELSE @, !.model = config.model,
                      !.fp = {<<config.provider, config.base, config.model, config.key>>}]

\* dispatch: the adapter of that name when there is a registry, else the direct path.
SentOf(config, registry, messages) ==
  LET found == UNION {GetAdapter(r, config.provider) : r \in registry}
  IN  IF found = {} THEN {[path |-> "direct", name |-> config.provider, request |-> DirectRequest(config, messages)]}
      ELSE {[path |-> p.kind, name |-> p.name,
             request |-> IF p.kind = "anthropic" THEN AnthropicRequest(p, config, messages) ELSE OpenAIRequest(p, config, messages)] : p \in found}

Dispatch(config, sent, answer) ==
  AttributeProvider(IF sent.request = {} THEN Failed(<<Cause("not sent", <<>>)>>)
                    ELSE ReadAnswer(answer, sent.name, config.model, sent.path = "direct"), config)

\* Fault: whatever a provider completes is an answer.
BlankIsAnAnswer(config, sent, answer) == Dispatch(config, sent, answer)

\* complete_attempt: a blank completion is a failure.
CompleteAttempt(config, sent, answer) ==
  LET r == Dispatch(config, sent, answer)
  IN  IF r.ok /\ r.content = "blank" THEN Failed(<<Cause("EmptyCompletion", <<>>)>>) ELSE r

\* Fault: the last status in the text is taken.
LastStatus(causes) ==
  LET status(c) == {c.words[i] : i \in {k \in 2 .. Len(c.words) : c.words[k - 1] = Returned /\ \A j \in k + 1 .. Len(c.words) : c.words[j - 1] # Returned}}
  IN  UNION {status(causes[i]) : i \in DOMAIN causes}

\* http_status_code: in the first cause where three digits follow the first " returned ".
HttpStatusOf(causes) ==
  LET first(c) == {i \in DOMAIN c.words : c.words[i] = Returned /\ \A j \in 1 .. i - 1 : c.words[j] # Returned}
      status(c) == {c.words[i + 1] : i \in {k \in first(c) : k < Len(c.words)}} \cap 100 .. 999
      hits == {i \in DOMAIN causes : status(causes[i]) # {}}
  IN  UNION {status(causes[i]) : i \in {h \in hits : \A j \in hits : h <= j}}

\* retry_verdict: the two markers first, the status then.
VerdictOf(causes) ==
  LET kinds == {causes[i].kind : i \in DOMAIN causes}
      status == HttpStatusOf(causes)
  IN  CASE "EmptyCompletion" \in kinds -> "Empty"
        [] "JsonDecodeError" \in kinds -> "Unknown"
        [] \E s \in status : s \in {408, 429} \cup 500 .. 599 -> "Retryable"
        [] \E s \in status : s \in 400 .. 499 -> "Permanent"
        [] OTHER -> "Unknown"

-----------------------------------------------------------------------------
(* What a call may rely on.                                                *)

\* The class of an answer to a request that was sent.
ReplyClass(answer) ==
  CASE answer.got = "down" -> "nostatus"
    [] answer.status \in {408, 429} -> IF answer.status = 408 THEN "408" ELSE "429"
    [] answer.status \in 400 .. 499 -> "401"
    [] answer.status \in 500 .. 599 -> "500"
    [] answer.status \notin 200 .. 299 -> "302"
    [] ~answer.json -> "badjson"
    [] answer.content = <<>> -> "nostatus"
    [] answer.content = <<"blank">> -> "blank"
    [] OTHER -> "text"

\* The verdict on a failure is the one of what the provider answered, on both paths and
\* whatever words its answer quotes; only text is an answer, and it is credited to the card
\* that was asked.  The request holds both prompts and goes to the address of the card with
\* its key, unless another card of the same name was registered later; thinking is switched
\* off only on request.
WireIsFaithful(c) ==
  LET config == c.configs[1]
      messages == BuildMessages("s", "u")
      others == {Adapter(c.configs[i]).name : i \in 2 .. Len(c.configs)}
  IN  \A sent \in SentOf(config, c.registry, messages) :
        LET got == CompleteAttempt(config, sent, c.answer)
            class == IF sent.request = {} THEN "nostatus" ELSE ReplyClass(c.answer)
        IN  /\ class \in Replies
            /\ got.ok <=> class = "text"
            /\ ~got.ok => VerdictOf(got.causes) = RetryVerdict(class)
            /\ got.ok => /\ got.model = config.model /\ got.fp = {<<config.provider, config.base, config.model, config.key>>}
                         /\ config.provider # "" => got.provider = config.provider
            /\ \A r \in sent.request :
                 /\ r.body.thinking => config.thinking = {TRUE}
                 /\ sent.path # "anthropic" /\ config.thinking = {TRUE} => r.body.thinking
                 /\ \/ r.body.messages = messages
                    \/ r.body.system = <<"s">> /\ r.body.messages = <<Message("user", "u")>>
                 /\ Adapter(config).name \notin others => r.key = config.key
                 /\ \A i \in DOMAIN r.url.segs : i > 1 /\ r.url.segs[i] = "v1" => r.url.segs[i - 1] # "v1"
=============================================================================
