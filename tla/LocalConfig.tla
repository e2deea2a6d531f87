---------------------------- MODULE LocalConfig -----------------------------
(***************************************************************************)
(* The settings of one call of the command line: where the state lies      *)
(* (paths.rs), which files, variables and rows give the settings           *)
(* (config/defaults.rs, config/resolver/, cli/db_config.rs), the           *)
(* `config provider` commands that edit the files                          *)
(* (cli/handlers/config/provider.rs), `init`, which writes one             *)
(* (actions/init.rs), and the types of models/config.rs and                *)
(* models/expert.rs; the key that encrypts the stored secrets              *)
(* (config/secrets.rs) and the scan that redacts them (models/secrets.rs). *)
(*                                                                         *)
(* A document is [exists, readable, toml, big, llm, commands, experts,     *)
(* report, compliance, caps]; a section is an option of [ok, value], ok FALSE    *)
(* when it is of the wrong shape.  Results are options, empty for an       *)
(* error.                                                                  *)
(***************************************************************************)
EXTENDS Integers, Sequences, SequencesExt, FiniteSets, FiniteSetsExt, TLC

CONSTANTS
  DefaultExperts,    \* the experts of DEFAULT_TOML: name -> [enabled, weight, role]
  MinValueLen        \* MIN_VALUE_LEN

The(option) == CHOOSE x \in option : TRUE
OrElse(option, other) == IF option = {} THEN other ELSE The(option)

-----------------------------------------------------------------------------
(* Where the state lies.  "" is unset.                                     *)

\* apply_data_dir, set_data_dir and data_dir: the flag (an option) before the variable; a
\* directory that cannot be made is an error and not the next choice.
ApplyDataDir(flag, env, creatable) ==
  LET candidate == IF flag # {} THEN flag ELSE {env} \ {""} IN
  [ok |-> candidate \subseteq creatable, root |-> candidate \cap creatable]

\* state_dir_from: the root, the former variable, the home.
StateDirFrom(root, configDir, home) == IF root # {} THEN root ELSE IF configDir # "" THEN {configDir} ELSE home

\* STATE_FILES: what lies there, with the variable that moves it.
StateFiles ==
  {<<"ui-state.toml", "REVIEW_UI_STATE_FILE">>, <<"auth.toml", "REVIEW_AUTH_FILE">>,
   <<"dispatcher-state.json", "REVIEW_DISPATCH_STATE">>, <<"feedback.json", "REVIEW_FEEDBACK_PATH">>,
   <<"models-dev-cache.json", "REVIEW_MODELS_DEV_CACHE">>, <<"logs.ndjson", "">>, <<"review.db", "DATABASE_URL">>,
   <<"secrets.key", "">>, <<".code-audit-config.toml", "">>, <<"reports", "">>}

\* resolve_artifact_at; env maps a variable to its value, "" is unset.
ResolveArtifactAt(file, env, root) ==
  IF file[2] # "" /\ env[file[2]] # "" THEN {<<env[file[2]], "">>} ELSE {<<r, file[1]>> : r \in root}

\* escaping_overrides: the files that leave the root.
EscapingOverrides(env) == {f \in StateFiles : f[2] # "" /\ env[f[2]] # ""}

-----------------------------------------------------------------------------
(* The types and their defaults.                                           *)

\* ReportConfig, DiffConfig, RateLimitConfig, ScoringConfig, ComplianceConfig: defaults.
DefaultReport ==
  [aggregated |-> FALSE, max_findings |-> 5, min_confidence |-> 6, drop_low |-> FALSE, verify |-> FALSE,
   file_bytes |-> 20000, adjudicate |-> TRUE, min_severity |-> "high", feedback |-> TRUE, agents_md |-> TRUE]
DefaultDiff ==
  [input |-> 120000, chunk |-> 30000, files |-> 21, lines |-> 1000, compression |-> "auto",
   chunking |-> "adaptive", chunks |-> 3, context |-> 60000]
DefaultRate == [rpm |-> 60, tpm |-> 200000, window |-> 60]
DefaultScoring == [enabled |-> TRUE, individual |-> TRUE, weighted |-> TRUE, consensus |-> 70, samples |-> 1]

\* LLMConfig: an entry of [[llm]].
Entry(provider, model, key, base, tokens) ==
  [provider |-> provider, model |-> model, key |-> key, base |-> base, tokens |-> tokens, thinking |-> TRUE]
\* default_max_tokens.
DefaultMaxTokens == 4096

\* AppConfig, and default_config.
DefaultConfig ==
  [llm |-> <<>>, report |-> DefaultReport, diff |-> DefaultDiff, rate |-> DefaultRate, scoring |-> DefaultScoring,
   compliance |-> FALSE, experts |-> DefaultExperts, calls |-> {}, team |-> {},
   commands |-> [c \in {"review", "describe", "improve", "ask", "repo_review", "update_changelog"} |-> c = "review"]]

\* ExpertTrigger, written as a word or a table with one key.
Trigger(kind, value) == [kind |-> kind, value |-> value]
TriggerKeys == <<"patterns", "languages", "max_files">>
TriggerOf(key) == CASE key = "patterns" -> "file_patterns" [] key = "languages" -> "languages" [] OTHER -> "diff_size"
SerializeTrigger(t) ==
  IF t.kind \in {"always", "on_demand"} THEN [word |-> {t.kind}, table |-> <<>>]
  ELSE [word |-> {}, table |-> [k \in {k \in ToSet(TriggerKeys) : TriggerOf(k) = t.kind} |-> t.value]]

\* Reading goes by the shape: the word in any case, else the first of the keys that is there.
DeserializeTrigger(r) ==
  LET there == SelectSeq(TriggerKeys, LAMBDA k : k \in DOMAIN r.table) IN
  IF r.word # {} THEN {Trigger(w, {}) : w \in r.word \cap {"always", "on_demand"}}
  ELSE IF there = <<>> THEN {} ELSE {Trigger(TriggerOf(there[1]), r.table[there[1]])}

\* to_perspective, and ExpertDef::from: the prompt of an expert, its own (even an empty one)
\* before what its trigger says.
ToPerspective(t) == IF t.kind = "always" THEN "" ELSE t.kind
ExpertDef(e) ==
  [trigger |-> IF e.trigger = {} THEN Trigger("always", {}) ELSE The(e.trigger),
   prompt |-> IF e.prompt # {} THEN The(e.prompt) ELSE IF e.trigger = {} THEN "" ELSE ToPerspective(The(e.trigger))]

\* build_expert_defs and ExpertTomlDef::validate: an enabled expert without a role is passed over.
BuildExpertDefs(experts) ==
  [n \in {n \in DOMAIN experts : experts[n].enabled /\ experts[n].role # ""} |-> ExpertDef(experts[n])]

-----------------------------------------------------------------------------
(* The settings.                                                           *)

Sections(doc) == <<doc.llm, doc.commands, doc.experts, doc.report, doc.compliance>>
Wrong(section) == \E s \in section : ~s.ok
Given(section, other) == IF section = {} THEN other ELSE The(section).value

\* parse_toml and merge_default: a table of experts or commands is laid over the default one
\* entry by entry, any other section replaces the default as a whole.
ParseToml(doc) == doc.toml /\ ~doc.big /\ \A i \in 1 .. 5 : ~Wrong(Sections(doc)[i])
MergeDefault(doc) ==
  [DefaultConfig EXCEPT !.llm = Given(doc.llm, @), !.report = Given(doc.report, @),
                        !.compliance = Given(doc.compliance, @), !.calls = doc.caps, !.team = doc.caps,
                        !.commands = Given(doc.commands, @) @@ @, !.experts = Given(doc.experts, @) @@ @]

\* apply_env_overrides: env is [commands, scoring, compliance, llm].
ApplyEnvOverrides(config, env) ==
  LET on(value) == The(value) \in {"true", "1"} IN
  [config EXCEPT !.commands = IF env.commands = {} \/ Wrong(env.commands) THEN @ ELSE The(env.commands).value @@ @,
                 !.scoring.enabled = IF env.scoring = {} THEN @ ELSE on(env.scoring),
                 !.compliance = IF env.compliance = {} THEN @ ELSE on(env.compliance)]

\* validate_experts: the weights of those enabled make 100, or 0.
ValidateExperts(config) ==
  LET enabled == {n \in DOMAIN config.experts : config.experts[n].enabled}
      total == FoldSet(LAMBDA n, sum : sum + config.experts[n].weight, 0, enabled)
  IN  total \in {0, 100}

\* load_and_apply.
LoadAndApply(doc, env) ==
  LET config == ApplyEnvOverrides(MergeDefault(doc), env) IN
  IF ParseToml(doc) /\ ValidateExperts(config) THEN {config} ELSE {}

\* take_llm: a list that cannot be read is an empty one.
TakeLlm(section) == IF section = {} \/ Wrong(section) THEN <<>> ELSE The(section).value
\* load_user_llm_fallback and load_user_report_fallback.
Readable(doc) == doc.exists /\ doc.readable /\ doc.toml
LoadUserLlmFallback(user) == IF Readable(user) THEN TakeLlm(user.llm) ELSE <<>>
LoadUserReportFallback(user) ==
  IF Readable(user) /\ ~Wrong(user.report) THEN {s.value : s \in user.report} ELSE {}

\* load_config_without_llm: the list is taken out first, so a wrong one is no error.
LoadConfigWithoutLlm(doc, env) == LoadAndApply([doc EXCEPT !.llm = {}], env)

\* Whose list of models is used: the project's if it has a usable one, else the user's.
ResolveLlm(project, user) == IF TakeLlm(project.llm) # <<>> THEN TakeLlm(project.llm) ELSE LoadUserLlmFallback(user)

\* resolve_config for a file that was named.
ResolveNamed(project, user, env) ==
  IF ~project.exists \/ ~project.readable THEN {}
  ELSE {[c EXCEPT !.llm = ResolveLlm(project, user)] : c \in LoadConfigWithoutLlm(project, env)}

\* resolve_config for the file of the working directory: section by section, a wrong one is
\* passed over, and only these five are read; nobody checks the weights.
ResolveDiscovered(project, user, env) ==
  LET taken(section, other) == IF section = {} \/ Wrong(section) THEN other ELSE The(section).value
      base == [DefaultConfig EXCEPT !.llm = LoadUserLlmFallback(user), !.report = OrElse(LoadUserReportFallback(user), @)]
      config == IF ~Readable(project) THEN base
                ELSE [base EXCEPT !.llm = ResolveLlm(project, user), !.report = taken(project.report, @),
                                  !.compliance = taken(project.compliance, @),
                                  !.commands = taken(project.commands, @) @@ @, !.experts = taken(project.experts, @) @@ @]
  IN  {ApplyEnvOverrides(config, env)}

\* llm_configs_from_env and apply_llm_env_fallback.
LlmConfigsFromEnv(env) == IF env.llm = {} \/ Wrong(env.llm) THEN <<>> ELSE The(env.llm).value
ApplyLlmEnvFallback(config, env) == [config EXCEPT !.llm = IF @ = <<>> THEN LlmConfigsFromEnv(env) ELSE @]

\* clear_unusable_caps: a limit of 0 would let no expert run.
ClearUnusableCaps(config) == [config EXCEPT !.calls = @ \ {0}, !.team = @ \ {0}]

\* overlay_database: the rows of the database lie over the files; nothing of them is taken
\* when the database is switched off, missing or cannot be read as a whole.
OverlayDatabase(config, db) ==
  IF ~db.root \/ db.disabled \/ ~db.file \/ ~db.opens \/ ~db.rows THEN [config |-> config, applied |-> FALSE]
  ELSE LET usable == SelectSeq(db.llm, LAMBDA e : e.key \notin {"", "***"})
           capped == [config EXCEPT !.calls = IF db.cap > 0 THEN {db.cap} ELSE @, !.team = IF db.cap > 0 THEN {db.cap} ELSE @]
       IN  [config |-> [capped EXCEPT !.llm = IF usable = <<>> THEN @ ELSE usable], applied |-> TRUE]

\* resolve_cli_config_at; source is "discovered" or "named".
ResolveCliConfig(source, project, user, env, db) ==
  LET files == IF source = "named" THEN ResolveNamed(project, user, env) ELSE ResolveDiscovered(project, user, env) IN
  {OverlayDatabase(ClearUnusableCaps(c), db).config : c \in files}

-----------------------------------------------------------------------------
(***************************************************************************)
(* The commands that write a settings file: `config provider`              *)
(* (cli/handlers/config/provider.rs) and `init` (actions/init.rs).  Files  *)
(* are the documents of LocalConfig.                                       *)
(***************************************************************************)

-----------------------------------------------------------------------------
(* Reading.  Sources: "project", "user", "env".                            *)

\* read_llm_entries and parse_llm_entries: a file that cannot be opened is an error, one that
\* cannot be parsed an empty list.
ReadLlmEntries(doc) ==
  CASE ~doc.exists -> {<<>>} [] doc.exists /\ ~doc.readable -> {}
    [] OTHER -> {IF doc.toml THEN TakeLlm(doc.llm) ELSE <<>>}

\* scope_from_flags, scope_path and Scope::source.
ScopeFromFlags(global, project) == IF global THEN {"user"} ELSE IF project THEN {"project"} ELSE {}
FileOf(files, source) == IF source = "user" THEN files.user ELSE files.project

\* resolved_providers: the first source with any entry, as the review resolves them.
Annotate(entries, source) == [i \in DOMAIN entries |-> [entry |-> entries[i], source |-> source]]
ResolvedProviders(files, env) ==
  LET project == ReadLlmEntries(files.project)
      user == ReadLlmEntries(files.user)
  IN  CASE project = {} -> {}
        [] project # {} /\ The(project) # <<>> -> {Annotate(The(project), "project")}
        [] project = {<<>>} /\ user = {} -> {}
        [] project = {<<>>} /\ user # {} /\ The(user) # <<>> -> {Annotate(The(user), "user")}
        [] OTHER -> {Annotate(LlmConfigsFromEnv(env), "env")}

\* find_provider: in one file, or through all three one after the other.
Named(entries, name) == SelectSeq(entries, LAMBDA e : e.provider = name)
FindProvider(name, scope, files, env) ==
  LET in(source) == IF source = "env" THEN {LlmConfigsFromEnv(env)} ELSE ReadLlmEntries(FileOf(files, source))
      hit(source) == IF in(source) = {} THEN <<>> ELSE Named(The(in(source)), name)
      order == IF scope # {} THEN <<The(scope)>> ELSE <<"project", "user", "env">>
      found == {i \in DOMAIN order : hit(order[i]) # <<>> /\ \A k \in 1 .. i : in(order[k]) # {}}
  IN  IF found = {} THEN {} ELSE {[entry |-> hit(order[Min(found)])[1], source |-> order[Min(found)]]}

\* render_provider_table, dash_if_empty and key_cell: a key is shown as set or not, never itself.
RenderProviderTable(list) ==
  LET dash(s) == IF s = "" THEN "-" ELSE s IN
  [i \in DOMAIN list |-> <<list[i].entry.provider, dash(list[i].entry.model), dash(list[i].entry.base),
                           IF list[i].entry.key = "" THEN "-" ELSE "***", list[i].source>>]
RunList(global, project, files, env) ==
  LET scope == ScopeFromFlags(global, project)
      list == IF scope = {} THEN ResolvedProviders(files, env)
              ELSE {Annotate(e, The(scope)) : e \in ReadLlmEntries(FileOf(files, The(scope)))}
  IN  {RenderProviderTable(l) : l \in list}

-----------------------------------------------------------------------------
(* Writing.  A patch has an option for each field.                         *)

\* upsert_in_document: only the first entry of the name, only the fields that were given; an
\* unknown name is appended with the defaults.
UpsertInDocument(entries, name, patch) ==
  LET at == {i \in DOMAIN entries : entries[i].provider = name}
      patched(e) == [e EXCEPT !.model = OrElse(patch.model, @), !.base = OrElse(patch.base, @),
                              !.key = OrElse(patch.key, @), !.tokens = OrElse(patch.tokens, @),
                              !.thinking = @ /\ ~patch.disable_thinking]
      blank == Entry(name, "", "", "", DefaultMaxTokens)
  IN  IF at = {} THEN Append(entries, patched(blank)) ELSE [entries EXCEPT ![Min(at)] = patched(@)]

\* upsert_provider and run_set: the key "" is no key; a file that is no TOML, or whose llm is
\* no list of tables, is left alone.  The scope is the project unless --global was given.
RunSet(name, patch, global, files) ==
  LET scope == IF global THEN "user" ELSE "project"
      doc == FileOf(files, scope)
      given == [patch EXCEPT !.key = @ \ {""}]
      old == IF doc.exists THEN Given(doc.llm, <<>>) ELSE <<>>
  IN  IF doc.exists /\ (~doc.readable \/ ~doc.toml \/ Wrong(doc.llm)) THEN {}
      ELSE {[doc EXCEPT !.exists = TRUE, !.readable = TRUE, !.toml = TRUE,
                        !.llm = {[ok |-> TRUE, value |-> UpsertInDocument(old, name, given)]}]}

\* remove_from_document, remove_provider and run_remove: the first entry of the name.
RunRemove(name, global, files) ==
  LET doc == FileOf(files, IF global THEN "user" ELSE "project")
      old == Given(doc.llm, <<>>)
      at == {i \in DOMAIN old : old[i].provider = name}
  IN  IF ~doc.exists \/ ~doc.readable \/ ~doc.toml \/ Wrong(doc.llm) \/ (doc.toml /\ at = {}) THEN {}
      ELSE {[doc EXCEPT !.llm = {[ok |-> TRUE, value |-> RemoveAt(old, Min(at))]}]}

\* cleartext_key_warning: the key goes to another host unencrypted.
CleartextKeyWarning(base) == base.scheme = "http" /\ base.host \notin {"localhost", "a.localhost", "127.", "::1"}
\* run_test: the answer of the probe for the entry that was found, after the warning; hosts
\* tells where a base leads.
RunTest(name, global, project, files, env, hosts, reachable) ==
  LET cfg == FindProvider(name, ScopeFromFlags(global, project), files, env) IN
  IF cfg = {} THEN [found |-> {}, ok |-> FALSE, warned |-> FALSE]
  ELSE [found |-> {The(cfg).entry}, ok |-> The(cfg).entry \in reachable, warned |-> CleartextKeyWarning(hosts[The(cfg).entry.base])]

-----------------------------------------------------------------------------
(* init.  answers is what the user chose: [commands, experts, auto,        *)
(* manual, llm, key]; experts and commands are sequences of names.         *)

\* AVAILABLE_EXPERTS: the experts of the default file, with their weights.
AvailableExperts == DefaultExperts

\* compute_weights: rounded shares, the rest to the (last) heaviest; or the numbers typed in,
\* 10 for one that is none.
ComputeWeights(answers) ==
  LET chosen == answers.experts
      weight(i) == AvailableExperts[chosen[i]].weight
      total == FoldSet(LAMBDA i, sum : sum + weight(i), 0, DOMAIN chosen)
      share == [i \in DOMAIN chosen |-> (200 * weight(i) + total) \div (2 * total)]
      sum == FoldSet(LAMBDA i, acc : acc + share[i], 0, DOMAIN chosen)
      heaviest == Max({i \in DOMAIN chosen : \A k \in DOMAIN chosen : share[i] >= share[k]})
  IN  IF answers.auto THEN [share EXCEPT ![heaviest] = Max({0, @ + 100 - sum})]
      ELSE [i \in DOMAIN chosen |-> OrElse(answers.manual[i], 10)]

\* prompt_llm, fetch_catalog, prompt_llm_from_catalog, prompt_llm_fallback and
\* prompt_api_key: which entry is written, and whether its key is in it.  catalog is an
\* option of the usable providers; env the keys that are set.
PromptApiKey(answers, env) ==
  IF answers.useEnv /\ answers.provider \in DOMAIN env /\ env[answers.provider] # "" THEN env[answers.provider] ELSE answers.key
PromptLlm(answers, catalog, env) ==
  CASE ~answers.llm -> <<>>
    [] answers.llm /\ catalog # {} /\ The(catalog) # {} ->
         IF answers.model = "" THEN <<>>
         ELSE <<Entry(answers.provider, answers.model, PromptApiKey(answers, env), "", DefaultMaxTokens)>>
    [] OTHER -> IF env["deepseek"] # "" /\ answers.useEnv
                THEN <<Entry("openai", "deepseek-chat", env["deepseek"], "", DefaultMaxTokens)>> ELSE <<>>

\* generate_toml and run_interactive: the file that is written, or nothing without an expert
\* (or a model).
RunInteractive(answers, catalog, env) ==
  LET weights == ComputeWeights(answers)
      named == {answers.experts[i] : i \in DOMAIN answers.experts}
      at(n) == Min({i \in DOMAIN answers.experts : answers.experts[i] = n})
      entries == PromptLlm(answers, catalog, env)
      cancelled == answers.experts = <<>> \/ (answers.llm /\ catalog # {} /\ The(catalog) # {} /\ answers.model = "")
  IN  IF cancelled THEN {}
      ELSE {[exists |-> TRUE, readable |-> TRUE, toml |-> TRUE, big |-> FALSE, caps |-> {}, compliance |-> {},
             llm |-> IF entries = <<>> THEN {} ELSE {[ok |-> TRUE, value |-> entries]},
             commands |-> {[ok |-> TRUE, value |-> [c \in DOMAIN DefaultConfig.commands |-> c \in ToSet(answers.commands)]]},
             report |-> {[ok |-> TRUE, value |-> DefaultReport]},
             experts |-> {[ok |-> TRUE, value |-> [n \in named |-> [enabled |-> TRUE, weight |-> weights[at(n)], role |-> "r"]]]}]}

-----------------------------------------------------------------------------
(* What the commands promise.                                              *)

\* The settings come from where they should: the models from one source, the project's, then
\* the user's; a variable has the last word; the database is taken as a whole or not at all;
\* no limit is 0; and a file that --config accepts gives what it gives when it is found in
\* the working directory, apart from the user's [report] and the limits.
SettingsComeInOrder(c) ==
  LET named == ResolveNamed(c.project, c.user, c.env)
      found == ResolveDiscovered(c.project, c.user, c.env)
  IN  /\ \A r \in named \cup found :
           /\ r.llm \in {TakeLlm(c.project.llm), TakeLlm(c.user.llm), <<>>}
           /\ Readable(c.project) /\ TakeLlm(c.project.llm) # <<>> => r.llm = TakeLlm(c.project.llm)
           /\ c.env.compliance # {} => r.compliance = (The(c.env.compliance) = "true")
           /\ ApplyLlmEnvFallback(r, c.env).llm = <<>> => r.llm = <<>> /\ LlmConfigsFromEnv(c.env) = <<>>
      /\ \A r \in named : ValidateExperts(r) /\ \A f \in found :
           f.llm = r.llm /\ f.commands = r.commands /\ f.experts = r.experts /\ f.compliance = r.compliance
      /\ \A source \in {"named", "found"} : \A r \in ResolveCliConfig(source, c.project, c.user, c.env, c.db) :
           /\ 0 \notin r.calls \cup r.team /\ r.calls = r.team
           /\ ~c.db.rows \/ c.db.disabled => r \in {ClearUnusableCaps(x) : x \in named \cup found}

\* What `set` writes, `test` and the table find in the same file, and every other entry stays;
\* `remove` takes one entry and nothing else; no table shows a key; and `test` warns before a
\* key that is not empty goes to another host in clear text.
EditsAreLocal(c) ==
  LET in(doc) == TakeLlm(doc.llm)
      others(list) == SelectSeq(list, LAMBDA e : e.provider # c.name)
      scope == IF c.global THEN "user" ELSE "project"
      files(doc) == IF c.global THEN [c.files EXCEPT !.user = doc] ELSE [c.files EXCEPT !.project = doc]
  IN  /\ \A doc \in RunSet(c.name, c.patch, c.global, c.files) :
           LET hit == FindProvider(c.name, {scope}, files(doc), c.env) IN
           /\ hit # {} /\ c.patch.model # {} => The(hit).entry.model = The(c.patch.model)
           /\ LET test == RunTest(c.name, c.global, ~c.global, files(doc), c.env, c.hosts, ToSet(in(doc)))
              IN  /\ test.ok /\ \A b \in c.patch.base : \A e \in test.found : e.base = b
                  /\ test.warned <=> \E e \in test.found : c.hosts[e.base] = [scheme |-> "http", host |-> "far"]
           /\ others(in(doc)) = (IF FileOf(c.files, scope).exists THEN others(in(FileOf(c.files, scope))) ELSE <<>>)
           /\ c.patch.key = {""} => \A e \in ToSet(in(doc)) : e.key = "" \/ e \in ToSet(in(FileOf(c.files, scope)))
                                     \/ \E o \in ToSet(in(FileOf(c.files, scope))) : o.provider = e.provider /\ o.key = e.key
      /\ \A doc \in RunRemove(c.name, c.global, c.files) :
           Len(in(doc)) = Len(in(FileOf(c.files, scope))) - 1 /\ others(in(doc)) = others(in(FileOf(c.files, scope)))
      /\ \A table \in RunList(c.global, FALSE, c.files, c.env) : \A i \in DOMAIN table : table[i][4] \in {"-", "***"}

\* The weights init computes make 100, none is negative, and a team of everybody is accepted
\* by --config as it stands.
InitIsUsable(c) ==
  \A doc \in RunInteractive(c.answers, c.catalog, c.env) :
    LET team == The(doc.experts).value
        total == FoldSet(LAMBDA n, sum : sum + team[n].weight, 0, DOMAIN team)
    IN  /\ c.answers.auto => total = 100
        /\ c.answers.auto /\ DOMAIN team = {n \in DOMAIN DefaultExperts : DefaultExperts[n].enabled} =>
             LoadAndApply(doc, [commands |-> {}, scoring |-> {}, compliance |-> {}, llm |-> {}]) # {}

-----------------------------------------------------------------------------
(***************************************************************************)
(* `reng doctor` (doctor.rs): the self-check of the SQLite store and its   *)
(* one repair, deleting the sidecar files a former owner left behind.      *)
(*                                                                         *)
(* A file is [exists, writable, size, owner]; the store is [dir, db, wal,  *)
(* shm, works, me], works whether a write to the database succeeds, after      *)
(* whether it does once the sidecars are gone (SQLite makes new ones), and *)
(* removable whether they can be deleted.                                  *)
(***************************************************************************)

Check(id, ok, skipped) == [id |-> id, ok |-> ok, skipped |-> skipped, cause |-> ""]
Tag(check) == IF check.skipped THEN "SKIP" ELSE IF check.ok THEN "PASS" ELSE "FAIL"

Sidecars(store) == {s \in {"wal", "shm"} : store[s].exists}

\* write_cause: who is to blame for a file that cannot be written; owner and process as far
\* as the platform tells them.
WriteCause(file, me) ==
  IF file.owner = {} THEN "permission" ELSE IF me = {} THEN "process" ELSE IF file.owner = me THEN "mode" ELSE "owner"
FileCheck(id, file, me) == [Check(id, file.writable, FALSE) EXCEPT !.cause = IF file.writable THEN "" ELSE WriteCause(file, me)]

\* inspect: the directory, the database, each sidecar there is, and a write that changes
\* nothing.
Inspect(store) ==
  <<Check("config-dir", store.dir, FALSE), IF store.db.exists THEN FileCheck("review.db", store.db, store.me) ELSE Check("review.db", FALSE, FALSE)>>
  \o (IF store.wal.exists THEN <<FileCheck("wal", store.wal, store.me)>> ELSE <<>>)
  \o (IF store.shm.exists THEN <<FileCheck("shm", store.shm, store.me)>> ELSE <<>>)
  \o <<Check("write-test", store.db.exists /\ store.works, ~store.db.exists)>>
\* Diagnosis::healthy.
Healthy(checks) == \A i \in DOMAIN checks : checks[i].ok \/ checks[i].skipped

\* plan_fix.
PlanFix(store) ==
  CASE ~store.db.exists \/ store.works -> "Nothing"
    [] store.db.exists /\ ~store.works /\ ~store.dir -> "NeedsPrivileges"
    [] store.db.exists /\ ~store.works /\ store.dir /\ (\A s \in Sidecars(store) : store[s].writable) -> "Nothing"
    [] store.db.exists /\ ~store.works /\ store.dir /\ (\E s \in Sidecars(store) : ~store[s].writable) ->
         IF store.wal.exists /\ store.wal.size > 0 THEN "RefuseNonEmptyWal" ELSE "DeleteSidecars"

\* delete_sidecars: all of them, then the write test again.
DeleteSidecars(store) ==
  LET gone == [exists |-> FALSE, writable |-> FALSE, size |-> 0, owner |-> {}] IN
  IF store.removable THEN [store EXCEPT !.wal = gone, !.shm = gone, !.works = store.after] ELSE store

\* run: the exit code, what is printed and the store that is left.
RunDoctor(store, fix, quiet) ==
  LET checks == Inspect(store)
      healthy == Healthy(checks)
      plan == PlanFix(store)
      left == IF fix /\ plan = "DeleteSidecars" THEN DeleteSidecars(store) ELSE store
      repaired == fix /\ plan = "DeleteSidecars" /\ store.removable /\ left.works
      code == IF repaired THEN 0 ELSE IF healthy THEN 0 ELSE 1
      failed == {i \in DOMAIN checks : Tag(checks[i]) = "FAIL"}
  IN  [code |-> code, store |-> left, lines |-> IF quiet THEN failed ELSE DOMAIN checks,
       verdict |-> ~quiet \/ ~healthy \/ repaired]

\* sqlite_path_from_url and sqlite_db_path: only a database in a file can be looked at; the one
\* of the state when the variable is not set.  An address is <<scheme, path>>.
SqliteDbPath(url, root) ==
  IF url = <<"", "">> THEN {<<r, "review.db">> : r \in root}
  ELSE IF url[1] = "sqlite" /\ url[2] \notin {"", ":memory:"} THEN {<<url[2], "">>} ELSE {}

\* unwritable_cause: the database before its sidecars.
UnwritableCause(store) ==
  LET blocked == {s \in Sidecars(store) : ~store[s].writable} IN
  CASE ~store.db.exists -> {} [] store.db.exists /\ ~store.db.writable -> {"db"}
    [] OTHER -> IF "wal" \in blocked THEN {"wal"} ELSE blocked

-----------------------------------------------------------------------------

\* Every file of an instance lies under its root: only a file whose variable is set lies
\* elsewhere, and all of those are named as escaping; so two instances with different roots and
\* no variable share no file.  A flag that cannot be honoured is an error, not another root.
\* The database that is looked at is the one that is opened.
InstancesAreApart(c) ==
  LET applied == ApplyDataDir(c.flag, c.env, c.creatable)
      root == StateDirFrom(applied.root, c.config, c.home)
      other == StateDirFrom({"elsewhere"}, c.config, c.home)
      at(f, r) == ResolveArtifactAt(f, c.vars, r)
      db == c.vars["DATABASE_URL"]
  IN  /\ c.flag # {} /\ applied.ok => root = c.flag
      /\ \A f \in StateFiles \ EscapingOverrides(c.vars) : at(f, root) = {<<r, f[1]>> : r \in root} /\ at(f, root) \cap at(f, other) = {}
      /\ \A f \in EscapingOverrides(c.vars) : at(f, root) = at(f, other)
      /\ root = {} => \A f \in StateFiles : at(f, root) # {} => f \in EscapingOverrides(c.vars)
      /\ \A d \in SqliteDbPath(IF db = "" THEN <<"", "">> ELSE <<"sqlite", db>>, root) : d \in at(<<"review.db", "DATABASE_URL">>, root)

\* A trigger is read back as it was written; an expert that runs is enabled and has a role, and
\* follows its own prompt, if it has one, and else its trigger.
TeamIsBuilt(c) ==
  LET defs == BuildExpertDefs(c.experts) IN
  /\ \A n \in DOMAIN c.experts : \A t \in c.experts[n].trigger :
       t.kind \in {"file_patterns", "languages", "diff_size"} \/ t.value = {} => DeserializeTrigger(SerializeTrigger(t)) = {t}
  /\ \A t \in DeserializeTrigger(c.written) : DeserializeTrigger(SerializeTrigger(t)) = {t}
  /\ \A n \in DOMAIN defs :
       /\ c.experts[n].enabled /\ c.experts[n].role # "" /\ c.experts[n].prompt \subseteq {defs[n].prompt}
       /\ c.experts[n].prompt = {} => (defs[n].prompt = "" <=> defs[n].trigger.kind = "always")
  /\ \A n \in DOMAIN c.experts \ DOMAIN defs : c.experts[n].enabled => c.experts[n].role = ""

\* No committed transaction is deleted, nothing is touched without --fix or when writes
\* work, exit code 0 means writes work now, a failure is printed even when quiet, and another
\* owner is blamed only by a process that knows who it is.
DoctorIsSafe(c) ==
  \A r \in {RunDoctor(c.store, c.fix, c.quiet)} :
  /\ c.store.wal.size > 0 => r.store.wal = c.store.wal
  /\ ~c.fix \/ c.store.works => r.store = c.store
  /\ r.code = 0 => r.store.db.exists /\ r.store.works
  /\ r.code = 1 => r.verdict /\ r.lines # {}
  /\ r.store # c.store => UnwritableCause(c.store) # {}
  /\ \A k \in ToSet(Inspect(c.store)) : k.cause = "owner" => c.store.me # {} /\ ~k.ok

-----------------------------------------------------------------------------
(* The scan for credentials.  A text is a sequence of characters: "\\" and *)
(* "q" (a double quote) are what the scan looks at itself.  What the       *)
(* regular expressions find is given: candidates [lo, hi, kind] over the   *)
(* normalized text, positions lo .. hi - 1 counted from 1, kind the place  *)
(* of the detector in the list; and the spans of earlier redaction markers. *)

\* SecretKind, in the order in which detectors() lists them: first those with a key.
Detectors ==
  <<"password", "secret", "token", "api_key", "private_key", "llm_api_key", "private_key block",
    "auth_header", "basic_auth_url", "aws_credential", "gitlab_token", "github_token", "llm_api_key value">>
HasKey(kind) == kind <= 6

\* unescape_quotes_for_scan: \" becomes ", and where each character came from.
UnescapeQuotes(text) ==
  LET step(s, i) ==
        CASE s.skip -> [s EXCEPT !.skip = FALSE]
          [] ~s.skip /\ text[i] = "\\" /\ i < Len(text) /\ text[i + 1] = "q" ->
               [chars |-> Append(s.chars, "q"), from |-> Append(s.from, i), skip |-> TRUE]
          [] OTHER -> [chars |-> Append(s.chars, text[i]), from |-> Append(s.from, i), skip |-> FALSE]
      end == FoldLeft(step, [chars |-> <<>>, from |-> <<>>, skip |-> FALSE], [i \in DOMAIN text |-> i])
  IN  [chars |-> end.chars, from |-> Append(end.from, Len(text) + 1)]

\* marker_spans: what was redacted before is not looked into.
InMarker(c, markers) == \E m \in markers : m[1] <= c.lo /\ c.lo < m[2]

\* scan_secrets: candidates long enough and outside markers, by their place (then by the
\* order of the detectors), each only where the last one has ended; places in the text given.
ScanSecrets(text, candidates, markers) ==
  LET map == UnescapeQuotes(text).from
      fit == {c \in candidates : c.lo < c.hi /\ ~InMarker(c, markers) /\ c.hi - c.lo >= MinValueLen}
      before(a, b) == a.lo < b.lo \/ (a.lo = b.lo /\ (a.hi < b.hi \/ (a.hi = b.hi /\ a.kind < b.kind)))
      take(s, c) == IF c.lo < s.end THEN s ELSE [end |-> c.hi, hits |-> Append(s.hits, c)]
      kept == FoldLeft(take, [end |-> 0, hits |-> <<>>], SetToSortSeq(fit, before)).hits
  IN  [i \in DOMAIN kept |-> [kept[i] EXCEPT !.lo = map[@], !.hi = map[@]]]

\* placeholder: kind, length and fingerprint of the value; for an assignment its key.
Placeholder(hit) == [kind |-> Detectors[hit.kind], len |-> hit.hi - hit.lo, key |-> HasKey(hit.kind)]

\* redact_text: the text between the hits, and a marker for each.
RedactText(text, hits) ==
  LET step(s, h) == [out |-> s.out \o SubSeq(text, s.cursor, h.lo - 1) \o <<"marker">>, cursor |-> h.hi]
      end == FoldLeft(step, [out |-> <<>>, cursor |-> 1], hits)
  IN  end.out \o SubSeq(text, end.cursor, Len(text))

\* scan_for_publish: refused with the first hits; 5 is PUBLISH_REFUSAL_HITS.
ScanForPublish(hits) == IF hits = <<>> THEN {} ELSE {SubSeq(hits, 1, Min({5, Len(hits)}))}

-----------------------------------------------------------------------------
(* The key file: its content is an option of [whole, key]; tmp likewise.   *)

\* load_key: none, a key of 32 bytes, or an error.
LoadKey(file) == IF file = {} THEN [ok |-> TRUE, key |-> {}]
                 ELSE IF (CHOOSE f \in file : TRUE).whole THEN [ok |-> TRUE, key |-> {(CHOOSE f \in file : TRUE).key}]
                 ELSE [ok |-> FALSE, key |-> {}]
\* write_key_atomically: beside the file, then renamed; a failure leaves the file alone.
WriteKeyAtomically(file, key, writable) == IF writable THEN {[whole |-> TRUE, key |-> key]} ELSE file
\* load_or_create_key: a corrupt file is an error, never replaced.
LoadOrCreateKey(file, fresh, writable) ==
  LET old == LoadKey(file)
      new == WriteKeyAtomically(file, fresh, writable)
  IN  IF ~old.ok \/ old.key # {} THEN [ok |-> old.ok, key |-> old.key, file |-> file]
      ELSE [ok |-> writable, key |-> LoadKey(new).key, file |-> new]

\* encrypt_secret and decrypt_secret: a value without the prefix is its own plain text.
EncryptSecret(plain, key) == [enc |-> TRUE, key |-> key, plain |-> plain, sound |-> TRUE]
DecryptSecret(value, key) ==
  CASE ~value.enc -> {value.plain} [] value.enc /\ value.sound /\ value.key = key -> {value.plain} [] OTHER -> {}

-----------------------------------------------------------------------------

\* A redacted text keeps every character outside the hits, in order, and none inside; the
\* hits lie in the text, apart and in order; every credential long enough and not redacted
\* before begins inside one; a text that was redacted is not refused for its markers; and a
\* text with a hit is never published.
RedactionIsExact(c) ==
  \A hits \in {ScanSecrets(c.text, c.candidates, c.markers)} :
  LET inside(i) == \E h \in ToSet(hits) : h.lo <= i /\ i < h.hi
      norm == UnescapeQuotes(c.text)
      rest == SelectSeq([i \in DOMAIN c.text |-> i], LAMBDA i : ~inside(i))
  IN  /\ SelectSeq(RedactText(c.text, hits), LAMBDA ch : ch # "marker") = [k \in DOMAIN rest |-> c.text[rest[k]]]
      /\ Len(SelectSeq(RedactText(c.text, hits), LAMBDA ch : ch = "marker")) = Len(hits)
      /\ \A i \in DOMAIN hits : /\ 1 <= hits[i].lo /\ hits[i].lo < hits[i].hi /\ hits[i].hi <= Len(c.text) + 1
                                /\ i < Len(hits) => hits[i].hi <= hits[i + 1].lo
                                /\ Placeholder(hits[i]).len >= MinValueLen
      /\ \A x \in c.candidates : x.hi - x.lo >= MinValueLen /\ ~InMarker(x, c.markers) => inside(norm.from[x.lo])
      /\ (\A x \in c.candidates : InMarker(x, c.markers)) => ScanForPublish(hits) = {}
      /\ (ScanForPublish(hits) = {}) = (RedactText(c.text, hits) = c.text)

\* A key that was handed out is the one on disk, a corrupt file is kept for repair, and what
\* was encrypted is read back with the same key only.
KeyIsKept(c) ==
  LET r == LoadOrCreateKey(c.file, c.fresh, c.writable) IN
  /\ r.ok => r.key # {} /\ LoadKey(r.file).key = r.key
  /\ c.file # {} => r.file = c.file
  /\ \A k \in r.key : /\ DecryptSecret(EncryptSecret("s", k), k) = {"s"}
                      /\ LoadOrCreateKey(r.file, "other", TRUE).key = {k}
                      /\ DecryptSecret(EncryptSecret("s", k), "other") = {}
=============================================================================
