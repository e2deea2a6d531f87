--------------------------- MODULE ProviderHealth ---------------------------
(***************************************************************************)
(* The LLM page of the server: the cached reachability of every account    *)
(* (server/api/llm_health.rs, llm_probe.rs over llm/probe.rs), the edits   *)
(* of the provider list (server/api/llm.rs) and the figures on the cards   *)
(* (llm_latency.rs, llm_usage.rs, store/llm_samples.rs).                   *)
(*                                                                         *)
(* An account is [provider, base, model, key, disabled].  Its fingerprint  *)
(* is a digest of the first four and stands for them.  Positions in the    *)
(* list count from one here and from zero in the code.                     *)
(***************************************************************************)
EXTENDS Integers, Sequences, SequencesExt, FiniteSets, FiniteSetsExt, Bags

CONSTANTS
  FirstAccounts,      \* the list of accounts at start
  NewAccount,         \* bodies of POST /providers
  AccountPatch,       \* bodies of PUT /providers/{id}: [model, key, base], "" = not stated
  Reader,             \* requests that read the health, and the loop that forces it
  ProbeLoop,          \* the member of Reader that is the loop
  AccountEditor,
  StoredCalls,        \* rows of llm_call_samples and of reviews the cards may find
  HealthTtl, MaxTick, MaxAccountEdits, MaxReports,
  Window, Retention, Buckets

ASSUME RetentionCoversWindow == Window <= Retention /\ Buckets > 0

VARIABLES
  accounts,      \* AppState::llm_configs
  appLlm,        \* AppConfig::llm
  health,        \* LlmHealthStore::entries: fingerprint -> [ok, at, of]
  jobs,          \* probes under way
  reader,        \* reader -> the report it waits for
  accountEdit,   \* editor -> the edit between its two critical sections
  probeRows,     \* llm_probe_samples: rows of before this start, and a bag of those since
  failing,       \* FailureLog
  tick,          \* the clock
  healthHistory  \* fingerprints shown stale and not refreshed since, counters, edits that met

healthVars == <<accounts, appLlm, health, jobs, reader, accountEdit, probeRows, failing, tick, healthHistory>>

\* Fault: the digest leaves the key out.
KeylessFingerprint(cfg) == <<cfg.provider, cfg.base, cfg.model>>

\* entry_fp of llm/identity.rs.
EntryFp(cfg) == <<cfg.provider, cfg.base, cfg.model, cfg.key>>

\* LlmHealthStore::fingerprint.
HealthKey(cfg) == EntryFp(cfg)

NoDatabase == [there |-> FALSE, answers |-> FALSE, calls |-> <<>>, probes |-> <<>>, reviews |-> <<>>]
NoReport == [pc |-> "idle", cfgs |-> <<>>, out |-> <<>>]
NoAccountEdit == [pc |-> "idle", kind |-> "add", cfg |-> {}, idx |-> 0]

HealthInit ==
  /\ accounts = FirstAccounts /\ appLlm = FirstAccounts
  /\ health = <<>> /\ jobs = {} /\ failing = {}
  /\ reader = [r \in Reader |-> NoReport]
  /\ accountEdit = [e \in AccountEditor |-> NoAccountEdit]
  /\ probeRows = [old |-> 1, rows |-> EmptyBag, swept |-> FALSE]
  /\ tick = 0
  /\ healthHistory = [owed |-> {}, edits |-> 0, reports |-> 0, overlap |-> FALSE]

-----------------------------------------------------------------------------
(* LlmHealthStore.                                                         *)

IsFresh(entry) == tick - entry.at < HealthTtl
Keep(f, keys) == [k \in DOMAIN f \cap keys |-> f[k]]
With(f, key, value) == [k \in DOMAIN f \cup {key} |-> IF k = key THEN value ELSE f[k]]

\* flight: a probe of the store holds its account's lock while it runs; a test does not.
Locked(key) == \E j \in jobs : j.pc \in {"ask", "keep"} /\ j.by # "test" /\ HealthKey(j.cfg) = key

Job(by, i, cfg, force) == [by |-> by, i |-> i, cfg |-> cfg, force |-> force, pc |-> "wait", got |-> {}]

\* spawn_refresh: not while a probe of the account runs.
SpawnRefresh(cfg) == IF Locked(HealthKey(cfg)) THEN {} ELSE {Job("refresh", 0, cfg, FALSE)}

\* retain_live: entries of accounts no longer in the list go.
RetainLive(list) == Keep(health, {HealthKey(c) : c \in {d \in ToSet(list) : d.key # ""}})

\* What resolve answers without a probe: {} for a cold account.
Known(cfg, force) ==
  CASE cfg.disabled -> {[status |-> "disabled", of |-> {}, at |-> tick]}
    [] cfg.key = "" -> {[status |-> "offline", of |-> {}, at |-> tick]}
    [] ~force /\ HealthKey(cfg) \in DOMAIN health ->
         LET e == health[HealthKey(cfg)] IN
         {[status |-> IF e.ok THEN "healthy" ELSE "error", of |-> {e.of}, at |-> e.at]}
    [] OTHER -> {}

\* report (a page) and probe_all (the loop, which forces): cached entries are answered at
\* once, with a refresh spawned behind a stale one unless a probe of it runs; the cold
\* ones are probed together.  An empty list gives the loop nothing to do.
ResolveHealth(r) ==
  /\ reader[r].pc = "idle" /\ healthHistory.reports < MaxReports
  /\ r = ProbeLoop => accounts # <<>>
  /\ LET force == r = ProbeLoop
         out == [i \in DOMAIN accounts |-> Known(accounts[i], force)]
         cold == {i \in DOMAIN accounts : out[i] = {}}
         stale == {i \in DOMAIN accounts : /\ out[i] # {} /\ ~accounts[i].disabled /\ accounts[i].key # ""
                                           /\ ~IsFresh(health[HealthKey(accounts[i])])}
     IN  /\ reader' = [reader EXCEPT ![r] = [pc |-> "wait", cfgs |-> accounts, out |-> out]]
         /\ jobs' = jobs \cup {Job(r, i, accounts[i], force) : i \in cold}
                         \cup UNION {SpawnRefresh(accounts[i]) : i \in stale}
         /\ healthHistory' = [healthHistory EXCEPT !.reports = @ + 1,
              !.owed = @ \cup {HealthKey(accounts[i]) : i \in stale}]
  /\ UNCHANGED <<accounts, appLlm, health, accountEdit, probeRows, failing, tick>>

Entry(got) == [status |-> IF got.ok THEN "healthy" ELSE "error", of |-> {got.of}, at |-> got.at]
Deliver(j, got) ==
  IF j.by \in Reader THEN reader' = [reader EXCEPT ![j.by].out[j.i] = {Entry(got)}] ELSE UNCHANGED reader

\* Fault: a refresh settles for the cached entry, fresh or not.
ProbeAnyCached(j) ==
  /\ j.pc = "wait" /\ ~Locked(HealthKey(j.cfg))
  /\ IF ~j.force /\ HealthKey(j.cfg) \in DOMAIN health
     THEN jobs' = jobs \ {j} /\ Deliver(j, health[HealthKey(j.cfg)])
     ELSE jobs' = (jobs \ {j}) \cup {[j EXCEPT !.pc = "ask"]} /\ UNCHANGED reader
  /\ UNCHANGED <<accounts, appLlm, health, accountEdit, probeRows, failing, tick, healthHistory>>

\* probe, once it has the lock: a fresh entry another probe left meanwhile is enough
\* unless the probe is forced.
StartProbe(j) ==
  /\ j.pc = "wait" /\ ~Locked(HealthKey(j.cfg))
  /\ IF ~j.force /\ HealthKey(j.cfg) \in DOMAIN health /\ IsFresh(health[HealthKey(j.cfg)])
     THEN jobs' = jobs \ {j} /\ Deliver(j, health[HealthKey(j.cfg)])
     ELSE jobs' = (jobs \ {j}) \cup {[j EXCEPT !.pc = "ask"]} /\ UNCHANGED reader
  /\ UNCHANGED <<accounts, appLlm, health, accountEdit, probeRows, failing, tick, healthHistory>>

\* resolve_api_base: providers without a well-known address need one.
ResolveApiBase(cfg) == cfg.base # "" \/ cfg.provider \in {"openai", "anthropic", "ollama"}

\* from_status: the class of an answer that is no success.
FromStatus(status) ==
  CASE status \in {401, 403} -> "Auth"
    [] status = 429 -> "ProviderError"
    [] status \in 400 .. 499 -> "BadEndpoint"
    [] OTHER -> "ProviderError"

\* probe_llm_connectivity: no request at all without a base; else the endpoint answers,
\* or does not within the timeout.
ProbeOutcomes(cfg) ==
  IF ~ResolveApiBase(cfg) THEN {[ok |-> FALSE, kind |-> "no_base"]}
  ELSE {[ok |-> TRUE, kind |-> "none"], [ok |-> FALSE, kind |-> "Unreachable"]}
       \cup {[ok |-> FALSE, kind |-> FromStatus(s)] : s \in {401, 404, 429, 503}}

\* The answer; checked_at is read here, before the sample is saved.
Answer(j) ==
  /\ j.pc = "ask"
  /\ \E ok \in {o.ok : o \in ProbeOutcomes(j.cfg)} :
       jobs' = (jobs \ {j}) \cup {[j EXCEPT !.pc = "keep", !.got = {[ok |-> ok, at |-> tick, of |-> EntryFp(j.cfg)]}]}
  /\ UNCHANGED <<accounts, appLlm, health, reader, accountEdit, probeRows, failing, tick, healthHistory>>

\* StoreProbeSampleSink: rows past their retention go once per start; an insert that fails is logged.
RecordSample(saved, cfg) ==
  [old |-> 0, swept |-> TRUE, rows |-> IF saved THEN probeRows.rows (+) SetToBag({EntryFp(cfg)}) ELSE probeRows.rows]

\* record_sample through the sink, then the entry.  Only rows of probes that succeeded are counted.
\* The entry comes last; record, of a test, writes the entry only.
KeepAnswer(j) ==
  /\ j.pc = "keep"
  /\ LET got == CHOOSE g \in j.got : TRUE IN
     /\ health' = With(health, HealthKey(j.cfg), got)
     /\ Deliver(j, got)
     /\ IF j.by = "test" THEN UNCHANGED probeRows
        ELSE \E saved \in {got.ok, FALSE} :
               probeRows' = RecordSample(saved, j.cfg)
  /\ jobs' = jobs \ {j}
  /\ healthHistory' = [healthHistory EXCEPT !.owed = @ \ {HealthKey(j.cfg)}]
  /\ UNCHANGED <<accounts, appLlm, accountEdit, failing, tick>>

\* log_round over FailureLog::observe: an account that has no verdict keeps its state.
LogRound(cfgs, out) ==
  LET fps(status) == {EntryFp(cfgs[i]) : i \in {k \in DOMAIN cfgs : \A o \in out[k] : o.status = status}} IN
  (failing \cup fps("error")) \ fps("healthy")

\* The report is complete.
FinishReport(r) ==
  /\ reader[r].pc = "wait" /\ \A j \in jobs : j.by # r
  /\ reader' = [reader EXCEPT ![r] = NoReport]
  /\ failing' = IF r = ProbeLoop THEN LogRound(reader[r].cfgs, reader[r].out) ELSE failing
  /\ UNCHANGED <<accounts, appLlm, health, jobs, accountEdit, probeRows, tick, healthHistory>>

\* test_provider: the account of the id, probed outside the store.
TestProvider(i) ==
  /\ i \in DOMAIN accounts /\ accounts[i].key # ""
  /\ healthHistory.reports < MaxReports
  /\ jobs' = jobs \cup {[Job("test", healthHistory.reports, accounts[i], TRUE) EXCEPT !.pc = "ask"]}
  /\ healthHistory' = [healthHistory EXCEPT !.reports = @ + 1]
  /\ UNCHANGED <<accounts, appLlm, health, reader, accountEdit, probeRows, failing, tick>>

Tick ==
  /\ tick < MaxTick /\ tick' = tick + 1
  /\ UNCHANGED <<accounts, appLlm, health, jobs, reader, accountEdit, probeRows, failing, healthHistory>>

-----------------------------------------------------------------------------
(* Edits of the list: llm_configs and the health first, AppConfig after.   *)

SharesKey(list) ==
  \E i, k \in DOMAIN list : i # k /\ list[i].provider = list[k].provider /\ list[i].key = list[k].key

BeginsEdit(e, list, kind, cfg, idx) ==
  /\ accountEdit[e].pc = "idle" /\ healthHistory.edits < MaxAccountEdits
  /\ accounts' = list
  /\ health' = RetainLive(list)
  /\ accountEdit' = [accountEdit EXCEPT ![e] = [pc |-> "app", kind |-> kind, cfg |-> {cfg}, idx |-> idx]]
  /\ healthHistory' = [healthHistory EXCEPT !.edits = @ + 1,
       !.overlap = @ \/ SharesKey(list) \/ \E f \in AccountEditor : accountEdit[f].pc # "idle"]
  /\ UNCHANGED <<appLlm, jobs, reader, probeRows, failing, tick>>

\* add_provider: a provider and a key are required; nothing keeps a duplicate out.
AddProvider(e, cfg) ==
  /\ cfg.provider # "" /\ cfg.key # ""
  /\ BeginsEdit(e, Append(accounts, cfg), "add", cfg, 0)

\* delete_provider: the id is the provider and the position it had when it was shown.
DeleteProvider(e, provider, idx) ==
  /\ idx \in DOMAIN accounts /\ accounts[idx].provider = provider
  /\ BeginsEdit(e, RemoveAt(accounts, idx), "delete", accounts[idx], idx)

\* update_provider: fields that are stated replace the old ones.
UpdateProvider(e, provider, idx, patch) ==
  /\ idx \in DOMAIN accounts /\ accounts[idx].provider = provider
  /\ LET old == accounts[idx]
         new == [old EXCEPT !.model = IF patch.model = "" THEN @ ELSE patch.model,
                            !.key = IF patch.key = "" THEN @ ELSE patch.key,
                            !.base = IF patch.base = "" THEN @ ELSE patch.base]
     IN  BeginsEdit(e, ReplaceAt(accounts, idx, new), "update", new, idx)

\* AppConfig follows: a deletion takes every entry with the provider and key of the
\* removed one, an update writes at the position it had in the other list.
EditApp(e) ==
  /\ accountEdit[e].pc = "app"
  /\ LET cfg == CHOOSE c \in accountEdit[e].cfg : TRUE IN
     appLlm' = CASE accountEdit[e].kind = "add" -> Append(appLlm, cfg)
                 [] accountEdit[e].kind = "delete" -> SelectSeq(appLlm, LAMBDA c : c.provider # cfg.provider \/ c.key # cfg.key)
                 [] OTHER -> IF accountEdit[e].idx \in DOMAIN appLlm THEN ReplaceAt(appLlm, accountEdit[e].idx, cfg) ELSE appLlm
  /\ accountEdit' = [accountEdit EXCEPT ![e] = NoAccountEdit]
  /\ UNCHANGED <<accounts, health, jobs, reader, probeRows, failing, tick, healthHistory>>

ProviderName == {c.provider : c \in ToSet(FirstAccounts) \cup NewAccount}

HealthNext ==
  \/ \E r \in Reader : ResolveHealth(r) \/ FinishReport(r)
  \/ \E j \in jobs : StartProbe(j) \/ Answer(j) \/ KeepAnswer(j)
  \/ \E i \in DOMAIN accounts : TestProvider(i)
  \/ \E e \in AccountEditor :
       \/ \E cfg \in NewAccount : AddProvider(e, cfg)
       \/ \E p \in ProviderName, idx \in 1 .. 3 :
            DeleteProvider(e, p, idx) \/ \E patch \in AccountPatch : UpdateProvider(e, p, idx, patch)
       \/ EditApp(e)
  \/ Tick

\* Probes time out, spawned tasks run, handlers go on.
HealthFairness ==
  /\ \A r \in Reader : WF_healthVars(FinishReport(r))
  /\ WF_healthVars(\E j \in jobs : Answer(j) \/ KeepAnswer(j))
  /\ WF_healthVars(\E j \in jobs : StartProbe(j))

-----------------------------------------------------------------------------
(* The cards.  A sample of a call or a probe is [provider, model, fp (an
   option), success, latency, ttfb (an option), at, readable]; at counts back
   from now, readable is whether its time can be.  A review is [state, at,
   readable, json, usages].  The database is [there, answers, calls, probes,
   reviews].                                                               *)

\* Fault: the sweep takes what the window still needs.
PruneEarly(rows) == SelectSeq(rows, LAMBDA x : x.at < Window)
\* prune_llm_samples and prune_probe_samples.
PruneSamples(rows) == SelectSeq(rows, LAMBDA x : x.at <= Retention)

\* insert_llm_sample: a time to the first byte that was not taken stays unknown.
InsertSample(rows, s) == Append(rows, [s EXCEPT !.ttfb = {t \in @ : t >= 0}])

\* StoreLlmCallSink::record: what is past its retention goes with the first sample of a review;
\* neither a failing sweep nor a failing insert is seen by the review.
RecordCall(table, s, sweeps, saves) ==
  LET rows == IF ~table.pruned /\ sweeps THEN PruneSamples(table.rows) ELSE table.rows IN
  [pruned |-> TRUE, rows |-> IF saves THEN InsertSample(rows, s) ELSE rows]
RecordCalls(rows, samples, sweeps, saves) ==
  FoldLeft(LAMBDA table, s : RecordCall(table, s, sweeps, saves), [pruned |-> FALSE, rows |-> rows], samples).rows

\* llm_samples_since and probe_samples_since: one row whose time cannot be read fails them all.
SamplesSince(rows) ==
  LET window == SelectSeq(rows, LAMBDA x : x.at <= Window) IN
  IF \A i \in DOMAIN window : window[i].readable THEN {window} ELSE {}

\* snapshot of latency and of probes: unknown without a database, or when it fails.
Snapshot(db, rows) == IF db.there /\ db.answers THEN SamplesSince(rows) ELSE {}

\* aggregate_llm_usage: a review counts once for a provider, model and fingerprint; one whose
\* summary cannot be read names none, one whose time cannot be read was used at no time.
UsagesOf(review) == IF review.json THEN {u \in ToSet(review.usages) : u.provider # ""} ELSE {}
AggregateLlmUsage(reviews) ==
  [u \in UNION {UsagesOf(r) : r \in ToSet(reviews)} |->
     LET mine == SelectSeq(reviews, LAMBDA r : u \in UsagesOf(r))
         ended(state) == Len(SelectSeq(mine, LAMBDA r : r.state = state))
         known == {r.at : r \in {q \in ToSet(mine) : q.readable}}
     IN  [usage |-> Len(mine), completed |-> ended("completed"), failed |-> ended("failed"), last |-> {a \in known : a = Min(known)}]]

\* llm_usage_since, and snapshot of the usage.
UsageSnapshot(db) ==
  IF db.there /\ db.answers THEN {AggregateLlmUsage(SelectSeq(db.reviews, LAMBDA r : r.at <= Window))} ELSE {}

\* bucket_of: rows older than the window count to its first part, newer ones to the last.
BucketOf(at) ==
  LET i == ((Window - at) * Buckets) \div Window IN
  IF at >= Window THEN 0 ELSE IF i < Buckets THEN i ELSE Buckets - 1

\* Fold over one key.
FoldOf(rows) ==
  LET good == SelectSeq(rows, LAMBDA x : x.success)
      timed == SelectSeq(good, LAMBDA x : x.ttfb # {} /\ \A t \in x.ttfb : t >= 0)
      clip(v) == IF v > 0 THEN v ELSE 0
      sum(s, F(_)) == FoldLeft(LAMBDA acc, x : acc + F(x), 0, s)
  IN  [success_sum |-> sum(good, LAMBDA x : clip(x.latency)), success_count |-> Len(good),
       ttfb_sum |-> sum(timed, LAMBDA x : CHOOSE t \in x.ttfb : TRUE), ttfb_count |-> Len(timed),
       failure_count |-> Len(rows) - Len(good),
       last |-> {Min({x.at : x \in ToSet(rows)}) : k \in {1} \cap DOMAIN rows},
       buckets |-> [b \in 0 .. Buckets - 1 |->
                      LET in == SelectSeq(good, LAMBDA x : BucketOf(x.at) = b) IN
                      <<sum(in, LAMBDA x : clip(x.latency)), Len(in)>>]]

\* Fault: rows without an entry fingerprint go to every card of the model.
MergeAlways(list, cfg) == ~cfg.disabled

\* may_merge_unmarked: rows without a fingerprint belong to the only enabled account of
\* their provider and model, if there is just one.
MayMergeUnmarked(list, cfg) ==
  /\ ~cfg.disabled
  /\ Cardinality({i \in DOMAIN list : ~list[i].disabled /\ list[i].provider = cfg.provider /\ list[i].model = cfg.model}) = 1

\* The keys of a card: its own fingerprint, and none at all where that may be merged.
CardKeys(list, cfg) ==
  {[provider |-> cfg.provider, model |-> cfg.model, fp |-> fp] : fp \in {{EntryFp(cfg)}} \cup (IF MayMergeUnmarked(list, cfg) THEN {{}} ELSE {})}

\* LatencySnapshot::new and for_card: the samples under the keys of a card.
CardRows(rows, list, cfg) ==
  SelectSeq(rows, LAMBDA x : [provider |-> x.provider, model |-> x.model, fp |-> x.fp] \in CardKeys(list, cfg))

Average(sum, count) == IF count = 0 THEN {} ELSE {(2 * sum + count) \div (2 * count)}

\* finish and untouched: no figures without rows, and an average only over calls that succeeded.
ForCard(rows, list, cfg) ==
  LET f == FoldOf(CardRows(rows, list, cfg)) IN
  [avg |-> Average(f.success_sum, f.success_count), ttfb |-> Average(f.ttfb_sum, f.ttfb_count),
   sample_count |-> f.success_count, failure_count |-> f.failure_count, last |-> f.last,
   sparkline |-> IF f.success_count + f.failure_count = 0 THEN <<>>
                 ELSE [b \in DOMAIN f.buckets |-> Average(f.buckets[b][1], f.buckets[b][2])]]

\* UsageSnapshot::for_card: requests, share and success rate in hundredths; the share is of all
\* that was used in the window, whether it is still in the list or not.
ForUsage(stats, list, cfg) ==
  LET mine == DOMAIN stats \cap CardKeys(list, cfg)
      sum(F(_), keys) == MapThenSumSet(F, keys)
      total == sum(LAMBDA u : stats[u].usage, DOMAIN stats)
      used == sum(LAMBDA u : stats[u].usage, mine)
      completed == sum(LAMBDA u : stats[u].completed, mine)
      decided == completed + sum(LAMBDA u : stats[u].failed, mine)
      last == UNION {stats[u].last : u \in mine}
  IN  [request_count |-> used, usage_share |-> IF total = 0 THEN {} ELSE {(200 * used + total) \div (2 * total)},
       success_rate |-> IF decided = 0 THEN {} ELSE {(200 * completed + decided) \div (2 * decided)}, last |-> {a \in last : a = Min(last)}]

\* ProbeSnapshot: over the probes that succeeded and were measured, by fingerprint.  A probe of
\* this run takes one unit.
ForProbe(rows, cfg) ==
  LET good == SelectSeq(rows, LAMBDA x : x.success /\ x.latency >= 0 /\ x.provider = cfg.provider /\ x.fp = {EntryFp(cfg)})
      now == CopiesIn(EntryFp(cfg), probeRows.rows)
      count == Len(good) + now
  IN  [avg |-> Average(FoldLeft(LAMBDA n, x : n + x.latency, now, good), count), count |-> count]

\* chain_order_indices and chain_positions: the enabled ones, the first of the primary provider
\* before the rest; a disabled one has no rank.
ChainOrder(primary, list) ==
  LET on == SelectSeq([i \in DOMAIN list |-> i], LAMBDA i : ~list[i].disabled)
      first == {i \in ToSet(on) : list[i].provider = primary}
  IN  IF primary = "" \/ first = {} THEN on ELSE <<Min(first)>> \o SelectSeq(on, LAMBDA i : i # Min(first))
ChainPositions(primary, list) ==
  [i \in DOMAIN list |-> {k \in DOMAIN ChainOrder(primary, list) : ChainOrder(primary, list)[k] = i}]

\* provider_items: one card per account, in list order, with the health of the same position;
\* what could not be read is null, not zero.
ProviderItems(primary, list, out, db) ==
  LET report(i) == IF i \in DOMAIN out THEN out[i] ELSE {} IN
  [i \in DOMAIN list |->
     [position |-> i, rank |-> ChainPositions(primary, list)[i], disabled |-> list[i].disabled, configured |-> list[i].key # "",
      status |-> IF report(i) # {} THEN (CHOOSE o \in report(i) : TRUE).status ELSE "offline",
      checked |-> {o.at : o \in {p \in report(i) : p.status \in {"healthy", "error"}}},
      latency |-> {ForCard(rows, list, list[i]) : rows \in Snapshot(db, db.calls)},
      usage |-> {ForUsage(stats, list, list[i]) : stats \in UsageSnapshot(db)},
      probes |-> {ForProbe(rows, list[i]) : rows \in Snapshot(db, db.probes)}]]

\* get_providers: the cards of the list the report was made of.
GetProviders(r, db) == ProviderItems("", reader[r].cfgs, reader[r].out, db)

-----------------------------------------------------------------------------
(* What the page promises.                                                 *)

\* A status is shown only for the account that was probed, key included, wherever it was
\* cached; a disabled account is never shown as reachable.
StatusIsOfThisAccount ==
  /\ \A k \in DOMAIN health : health[k].of = k
  /\ \A r \in Reader : \A i \in DOMAIN reader[r].cfgs : \A o \in reader[r].out[i] :
       /\ o.of \subseteq {EntryFp(reader[r].cfgs[i])}
       /\ reader[r].cfgs[i].disabled <=> o.status = "disabled"
  /\ \A r \in Reader : \A card \in ToSet(GetProviders(r, NoDatabase)) :
       card.status \in {"healthy", "error"} => ~card.disabled /\ card.configured

\* Whatever was shown stale is being probed again.
StaleIsRefreshed == \A k \in healthHistory.owed : \E j \in jobs : HealthKey(j.cfg) = k

\* Edits that did not overlap, of lists in which no two accounts ever shared provider and
\* key, leave the list of the page and the list of AppConfig equal.
ListsAgree ==
  ~healthHistory.overlap /\ (\A e \in AccountEditor : accountEdit[e].pc = "idle") => accounts = appLlm

\* The page and nobody else is at work: its report is complete, and its cards are drawn.  They
\* depend on no job.
Drawing(r) == r # ProbeLoop /\ reader[r].pc = "wait" /\ jobs = {}

\* No call and no review is on two cards unless two accounts are the same in everything; shares
\* never exceed the whole; every good call of a card is in one bucket; a figure is shown exactly
\* when its rows could be read; the ranks of the enabled accounts are 1 to their number.
CardsAddUp ==
  \A r \in {x \in Reader : Drawing(x)}, db \in StoredCalls :
    LET list == reader[r].cfgs
        items == GetProviders(r, db)
        twins == \E i, k \in DOMAIN list : i # k /\ EntryFp(list[i]) = EntryFp(list[k])
        sum(F(_)) == FoldLeft(LAMBDA acc, x : acc + F(x), 0, items)
        counted(x) == x.sample_count + x.failure_count
        enabled == {i \in DOMAIN list : ~list[i].disabled}
    IN  /\ \A stats \in UsageSnapshot(db) : ~twins =>
             sum(LAMBDA x : MapThenSumSet(LAMBDA u : u.request_count, x.usage)) <= MapThenSumSet(LAMBDA u : stats[u].usage, DOMAIN stats)
        /\ ~twins => sum(LAMBDA x : MapThenSumSet(counted, x.latency)) <= Len(SelectSeq(db.calls, LAMBDA x : x.at <= Window))
        /\ \A i \in DOMAIN items :
             /\ items[i].latency = {} <=> Snapshot(db, db.calls) = {}
             /\ items[i].usage = {} <=> ~(db.there /\ db.answers)
             /\ \A rows \in Snapshot(db, db.calls) :
                  LET f == FoldOf(CardRows(rows, list, list[i])) IN
                  /\ MapThenSumSet(LAMBDA b : f.buckets[b][2], DOMAIN f.buckets) = f.success_count
                  /\ MapThenSumSet(LAMBDA b : f.buckets[b][1], DOMAIN f.buckets) = f.success_sum
             /\ \A used \in items[i].usage : \A s \in used.usage_share \cup used.success_rate : s \in 0 .. 100
             /\ \A p \in items[i].probes : p.avg = {} <=> p.count = 0
             /\ items[i].checked # {} => items[i].status \in {"healthy", "error"}
             /\ items[i].rank = {} <=> list[i].disabled
        /\ UNION {items[i].rank : i \in DOMAIN items} = 1 .. Cardinality(enabled)
        /\ \A primary \in ProviderName \cup {""} : \A i \in enabled : ChainPositions(primary, list)[i] = {1} =>
             list[i].provider = primary \/ \A k \in enabled : list[k].provider # primary /\ i <= k

\* What the page needs outlives a sweep: recording the calls of a review loses no sample of the
\* window, whichever of its statements fail, and leaves nothing past its retention when they work.
SamplesAreKept ==
  (\E r \in Reader : Drawing(r)) => \A db \in StoredCalls : \A sweeps, saves \in BOOLEAN :
    LET new == SelectSeq(db.calls, LAMBDA x : x.at = 0)
        rows == RecordCalls(db.calls, new, sweeps, saves)
    IN  /\ \A x \in ToSet(db.calls) : x.at <= Window => x \in ToSet(rows)
        /\ new # <<>> /\ sweeps => \A x \in ToSet(rows) : x.at <= Retention
        /\ saves => Len(rows) >= Len(new) + Cardinality({i \in DOMAIN db.calls : db.calls[i].at <= Retention})
=============================================================================
