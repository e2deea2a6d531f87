---------------------------- MODULE ConfigStore -----------------------------
(***************************************************************************)
(* PUT /api/v1/config, where it is stored, and how a restart reads it back *)
(* (server/api/config/put.rs and persist.rs, store/sqlx.rs, the serve arm  *)
(* of cli/app.rs).                                                         *)
(*                                                                         *)
(* A PUT copies what it needs under one read lock after another, resolves  *)
(* the request against the copies, publishes the results under one write   *)
(* lock after another and only then awaits the transaction that stores     *)
(* them: each lock is an action of its own.  A restart rebuilds the memory *)
(* from the configuration file, the environment and what was stored.       *)
(***************************************************************************)
EXTENDS LlmSection

CONSTANTS
  Client,      \* PUT requests in flight
  Deployment,  \* what a server may be started with, see below
  FileCap,     \* max_concurrent_llm_calls of .code-audit-config.toml
  MaxPuts,     \* bound: requests sent
  MaxCrashes,  \* bound: restarts
  MaxFaults    \* bound: file or database operations that fail

\* A deployment: the requests its clients send, [[llm]] of the configuration file,
\* LLM_CONFIG and GITLAB_TOKEN of the environment, what ui-state.toml may hold
\* before the first start, and whether there is a database (REVIEW_DISABLE_DB).
LegacyScalars == [skey : Text, at : Text, tag : Nat]

\* Partial<UiConfig>: every section may be left out.
Request == [providers : Option(Seq(ProviderCard)), scalars : Option(LegacyScalars),
            primary : Option(Text), token : Option(Text), cap : Option(Nat)]

\* UiStateFile, in a file or in the rows of the three tables.
UiStateFile == [ui : Option(UiConfig), llm : Seq(Entry), token : Text]

Masked(u) == /\ u.skey \in {Blank, Mask} /\ u.token \in {Blank, Mask}
             /\ ~Some(u.providers, LAMBDA p : ~IsBlankOrMasked(p.key))

\* What an earlier version saved is masked where it is a projection, and not elsewhere.
ASSUME ConfigAssumption ==
  /\ FileCap \in Nat \ {0}
  /\ MaxPuts \in Nat /\ MaxCrashes \in Nat /\ MaxFaults \in Nat
  /\ \A d \in Deployment :
       /\ d.fileLlm \in Seq(Entry) /\ d.envLlm \in Seq(Entry)
       /\ d.envToken \in Text /\ d.db \in BOOLEAN
       /\ d.requests \subseteq Request /\ d.uiStates \subseteq UiStateFile
       /\ \A s \in d.uiStates : s.token # Mask /\ \A u \in s.ui : Masked(u)

VARIABLES
  deployment,
  app,      \* AppState::app_config: the provider list and the concurrency cap
  llm,      \* AppState::llm_configs
  ui,       \* AppState::ui_config, the projection GET /config serves
  gl,       \* the token of the global GitLab runtime
  db,       \* the rows of the three configuration tables, none or one set
  file,     \* ui-state.toml
  put,      \* the PUT handlers
  phase,    \* where the start-up is, "up" when it serves
  unsaved,  \* a client was told that its change is in memory only
  puts, crashes, faults

configVars == <<deployment, app, llm, ui, gl, db, file, put, phase, unsaved, puts, crashes, faults>>

\* LLM_CONFIG counts only when no configuration file names a provider.
EnvEntries == IF deployment.fileLlm = <<>> THEN deployment.envLlm ELSE <<>>
ConfigLlm == IF deployment.fileLlm = <<>> THEN deployment.envLlm ELSE deployment.fileLlm

NoRequest == [providers |-> {}, scalars |-> {}, primary |-> {}, token |-> {}, cap |-> {}]
NoState == [ui |-> {}, llm |-> <<>>, token |-> Blank]
IdlePut == [pc |-> "idle", req |-> NoRequest, body |-> FromAppConfig(<<>>, 0),
            new |-> <<>>, same |-> FALSE, snapshot |-> NoState]

PutHandler == [pc : {"idle", "resolve", "config", "llm", "ui", "compare", "save"}, req : Request, body : UiConfig,
               new : Seq(Entry), same : BOOLEAN, snapshot : UiStateFile]

States(req) == req.providers # {} \/ req.scalars # {}

Stored == IF deployment.db /\ db # {} THEN db ELSE file
Chain == OrderedLlmConfigs(ui.primary, llm)
StoredChain(s) ==
  OrderedLlmConfigs(OrElse({u.primary : u \in s.ui}, Blank), s.llm)

(***************************************************************************)
(* Applying a request.                                                     *)
(***************************************************************************)
\* merge_json: what the request leaves out keeps its stored value.
Merged(u, req) ==
  [u EXCEPT !.providers = OrElse(req.providers, @),
            !.skey      = OrElse({s.skey : s \in req.scalars}, @),
            !.at        = OrElse({s.at : s \in req.scalars}, @),
            !.tag       = OrElse({s.tag : s \in req.scalars}, @),
            !.primary   = OrElse(req.primary, @),
            !.token     = OrElse(req.token, @),
            !.cap       = OrElse(req.cap, @)]

\* The provider set is derived again only when the request states it.
Resolve(u, existing, req) ==
  LET body == Merged(u, req)
      legacy == req.scalars # {}
  IN  IF States(req)
      THEN [body |-> WriteBack(body, existing, legacy), new |-> NewLlmConfigs(body, existing, legacy)]
      ELSE [body |-> body, new |-> existing]

\* Fault: an empty list is published where it configures and not where reviews take it.
WithWhateverIsNew(a, new, body) ==
  [llm |-> new, cap |-> IF body.cap > 0 THEN body.cap ELSE a.cap]

\* An empty list is not published, though it will be stored.
WithConfig(a, new, body) ==
  [llm |-> IF new # <<>> THEN new ELSE a.llm,
   cap |-> IF body.cap > 0 THEN body.cap ELSE a.cap]

\* Fault: a cap of zero is shown as it was sent.
CapAsSent(a, body) == body

ShownCap(a, body) == [body EXCEPT !.cap = IF @ > 0 THEN @ ELSE a.cap]

\* apply_gitlab_runtime_config: empty clears, the mask keeps, a value replaces.
GitlabToken(current, submitted) ==
  IF submitted = Mask THEN current ELSE submitted

\* UiStateFile::from_applied: what the environment supplied is left out.
FromApplied(new, token, u) ==
  LET saved == DropEnvEntries(new, EnvEntries)
      kept  == IF token = deployment.envToken THEN Blank ELSE token
  IN  [ui    |-> {[SyncLlmProjection(u, saved) EXCEPT !.token = MaskOrEmpty(kept)]},
       llm   |-> saved,
       token |-> kept]

(***************************************************************************)
(* The handler.                                                            *)
(***************************************************************************)
Goto(c, pc) == put' = [put EXCEPT ![c].pc = pc]

\* A request arrives, and the projection it is merged over is copied.
PutRead(c, req) ==
  /\ phase = "up" /\ put[c].pc = "idle" /\ puts < MaxPuts
  /\ put' = [put EXCEPT ![c] = [@ EXCEPT !.pc = "resolve", !.req = req, !.body = ui]]
  /\ puts' = puts + 1
  /\ UNCHANGED <<deployment, app, llm, ui, gl, db, file, phase, unsaved, crashes, faults>>

\* The provider list it resolves against is read after the projection's lock is released.
PutResolve(c) ==
  /\ put[c].pc = "resolve"
  /\ LET r == Resolve(put[c].body, app.llm, put[c].req)
     IN  put' = [put EXCEPT ![c] = [@ EXCEPT !.pc = "config", !.body = r.body, !.new = r.new]]
  /\ UNCHANGED <<deployment, app, llm, ui, gl, db, file, phase, unsaved, puts, crashes, faults>>

PutConfig(c) ==
  /\ put[c].pc = "config"
  /\ app' = WithConfig(app, put[c].new, put[c].body)
  /\ put' = [put EXCEPT ![c].pc = "llm", ![c].body = ShownCap(app, @)]
  /\ UNCHANGED <<deployment, llm, ui, gl, db, file, phase, unsaved, puts, crashes, faults>>

PutLlm(c) ==
  /\ put[c].pc = "llm"
  /\ llm' = IF put[c].new # <<>> THEN put[c].new ELSE llm
  /\ Goto(c, "ui")
  /\ UNCHANGED <<deployment, app, ui, gl, db, file, phase, unsaved, puts, crashes, faults>>

\* The projection and, under the same lock, the GitLab runtime.
PutUi(c) ==
  /\ put[c].pc = "ui"
  /\ gl' = GitlabToken(gl, put[c].body.token)
  /\ ui' = [put[c].body EXCEPT !.token = MaskOrEmpty(gl')]
  /\ put' = [put EXCEPT ![c].pc = IF deployment.db THEN "compare" ELSE "save",
                        ![c].snapshot = FromApplied(put[c].new, gl', ui')]
  /\ UNCHANGED <<deployment, app, llm, db, file, phase, unsaved, puts, crashes, faults>>

\* llm_providers_already_stored, read before the transaction begins.
PutCompare(c) ==
  /\ put[c].pc = "compare"
  /\ put' = [put EXCEPT ![c].pc = "save",
                        ![c].same = OrElse({s.llm : s \in db}, <<>>) = put[c].snapshot.llm]
  /\ UNCHANGED <<deployment, app, llm, ui, gl, db, file, phase, unsaved, puts, crashes, faults>>

\* Fault: nothing is stored.
SaveNothing(c) ==
  put[c].pc = "save" /\ UNCHANGED <<db, file, unsaved, faults>>

\* save_ui_state, one transaction or one rename; an error is a 500 to the client.
Save(c) ==
  LET s    == put[c].snapshot
      rows == IF put[c].same /\ db # {} THEN [s EXCEPT !.llm = OrElse(db, s).llm] ELSE s
  IN  /\ put[c].pc = "save"
      /\ \/ /\ IF deployment.db THEN db' = {rows} /\ UNCHANGED file
                       ELSE file' = {s} /\ UNCHANGED db
            /\ UNCHANGED <<unsaved, faults>>
         \/ /\ faults < MaxFaults
            /\ faults' = faults + 1
            /\ unsaved' = TRUE
            /\ UNCHANGED <<db, file>>

PutSave(c) ==
  /\ Save(c)
  /\ put' = [put EXCEPT ![c] = IdlePut]
  /\ UNCHANGED <<deployment, app, llm, ui, gl, phase, puts, crashes>>

(***************************************************************************)
(* The start-up.                                                           *)
(***************************************************************************)
\* apply_db_overrides: the database over the configuration file, key by key.
ApplyDbOverrides(a) ==
  LET rows   == OrElse(db, NoState)
      usable == Subsequence(rows.llm, {i \in DOMAIN rows.llm : ~IsBlankOrMasked(rows.llm[i].key)})
      cap    == OrElse({u.cap : u \in rows.ui}, 0)
  IN  [llm |-> IF EnvEntries = <<>> /\ usable # <<>>
               THEN StoredChain([rows EXCEPT !.llm = usable]) ELSE a.llm,
       cap |-> IF cap > 0 THEN cap ELSE a.cap]

Crash ==
  /\ crashes < MaxCrashes /\ crashes' = crashes + 1
  /\ put' = [c \in Client |-> IdlePut]
  /\ phase' = IF deployment.db THEN "import" ELSE "runtime"
  /\ app' = LET base == [llm |-> ConfigLlm, cap |-> FileCap]
            IN  IF deployment.db THEN ApplyDbOverrides(base) ELSE base
  /\ llm' = ConfigLlm
  /\ ui' = FromAppConfig(ConfigLlm, FileCap)
  /\ gl' = Blank
  /\ unsaved' = FALSE
  /\ UNCHANGED <<deployment, db, file, puts, faults>>

\* import_ui_state_into_db: one transaction, and only into empty tables.
ImportUiState ==
  /\ phase = "import"
  /\ \/ /\ db = {} /\ file # {}
        /\ db' = file /\ phase' = "rename"
        /\ UNCHANGED faults
     \/ /\ db = {} /\ file # {}
        /\ faults < MaxFaults /\ faults' = faults + 1
        /\ phase' = "replay" /\ UNCHANGED db
     \/ /\ db # {} \/ file = {}
        /\ phase' = "replay" /\ UNCHANGED <<db, faults>>
  /\ UNCHANGED <<deployment, app, llm, ui, gl, file, put, unsaved, puts, crashes>>

RenameImported ==
  /\ phase = "rename"
  /\ \/ file' = {} /\ UNCHANGED faults
     \/ faults < MaxFaults /\ faults' = faults + 1 /\ UNCHANGED file
  /\ phase' = "replay"
  /\ UNCHANGED <<deployment, app, llm, ui, gl, db, put, unsaved, puts, crashes>>

\* replay_payload: the request that a stored state stands for.
ReplayPayload(s) ==
  LET u     == OrElse(s.ui, FromAppConfig(<<>>, 0))
      llmOf == ReplayLlm(u, s.llm)
      says  == EnvEntries = <<>> /\ s.llm # <<>>
      token == IF s.token # Blank THEN s.token ELSE deployment.envToken
  IN  [providers |-> IF says THEN {llmOf.providers} ELSE {},
       scalars   |-> IF says THEN {[skey |-> llmOf.skey, at |-> llmOf.at, tag |-> llmOf.tag]} ELSE {},
       primary   |-> IF says THEN {llmOf.primary} ELSE {},
       token     |-> IF token # Blank THEN {token} ELSE {},
       cap       |-> {v.cap : v \in s.ui}]

\* apply_ui_config with nobody else running, over the runtime token rt.
Replay(s, rt) ==
  LET r == Resolve(ui, app.llm, ReplayPayload(s))
  IN  /\ app' = WithConfig(app, r.new, r.body)
      /\ llm' = IF r.new # <<>> THEN r.new ELSE llm
      /\ gl' = GitlabToken(rt, r.body.token)
      /\ ui' = [ShownCap(app, r.body) EXCEPT !.token = MaskOrEmpty(gl')]

ReplayDb ==
  /\ phase = "replay"
  /\ IF db # {} THEN Replay(OrElse(db, NoState), gl)
                ELSE UNCHANGED <<app, llm, ui, gl>>
  /\ phase' = "runtime"
  /\ UNCHANGED <<deployment, db, file, put, unsaved, puts, crashes, faults>>

\* Fault: the environment's token is written over what the file says.
RuntimeFromEnv ==
  /\ phase = "runtime"
  /\ gl' = deployment.envToken /\ UNCHANGED <<app, llm, ui>>

\* init_gitlab_runtime, then the file unless the database spoke.
InitRuntime ==
  /\ phase = "runtime"
  /\ IF ~(deployment.db /\ db # {}) /\ file # {}
     THEN Replay(OrElse(file, NoState), deployment.envToken)
     ELSE gl' = deployment.envToken /\ UNCHANGED <<app, llm, ui>>

StartServing ==
  /\ InitRuntime
  /\ phase' = "up"
  /\ UNCHANGED <<deployment, db, file, put, unsaved, puts, crashes, faults>>

\* A first start, with whatever ui-state.toml an earlier version left.
ConfigInit ==
  /\ deployment \in Deployment
  /\ db = {}
  /\ file \in {{}} \cup {{s} : s \in deployment.uiStates}
  /\ app = [llm |-> ConfigLlm, cap |-> FileCap]
  /\ llm = ConfigLlm
  /\ ui = FromAppConfig(ConfigLlm, FileCap)
  /\ gl = Blank
  /\ put = [c \in Client |-> IdlePut]
  /\ phase = IF deployment.db THEN "import" ELSE "runtime"
  /\ unsaved = FALSE
  /\ puts = 0 /\ crashes = 0 /\ faults = 0

ConfigNext ==
  \/ \E c \in Client : \/ \E req \in deployment.requests : PutRead(c, req)
                       \/ PutResolve(c) \/ PutConfig(c) \/ PutLlm(c)
                       \/ PutUi(c) \/ PutCompare(c) \/ PutSave(c)
  \/ Crash \/ ImportUiState \/ RenameImported \/ ReplayDb \/ StartServing

ConfigSpec == ConfigInit /\ [][ConfigNext]_configVars

-----------------------------------------------------------------------------
\* Type invariant.
ConfigTypeOK ==
  /\ deployment \in Deployment
  /\ phase \in {"up", "import", "rename", "replay", "runtime"}
  /\ unsaved \in BOOLEAN
  /\ app \in [llm : Seq(Entry), cap : Nat]
  /\ llm \in Seq(Entry) /\ ui \in UiConfig /\ gl \in Text
  /\ db \in Option(UiStateFile) /\ file \in Option(UiStateFile)
  /\ put \in [Client -> PutHandler]

AtRest == phase = "up" /\ \A c \in Client : put[c].pc = "idle"

\* When no PUT is in flight and none was answered with an error, a stored list of providers
\* is the one that runs: the chain that reviews walk is what a restart would read back
\* (put_config writes through).  Two cases are not promised.  A list that was emptied is
\* stored, while the providers it had go on running until a restart (put.rs publishes a
\* list only if it has entries); and the providers of the environment lead the chain and
\* are stored nowhere.
StoredProvidersRun ==
  AtRest /\ ~unsaved /\ EnvEntries = <<>> =>
    \A s \in Stored : s.llm # <<>> => StoredChain(s) = Chain /\ app.llm = llm

(***************************************************************************)
(* Where the keys of a deployment come from.                               *)
(***************************************************************************)
SubmittedCards == UNION {Range(cards) : cards \in UNION {r.providers : r \in deployment.requests}}
SubmittedScalars == UNION {r.scalars : r \in deployment.requests}
SavedBefore == UNION {Range(s.llm) : s \in deployment.uiStates}
Listed == SubmittedCards \cup SavedBefore \cup Range(deployment.fileLlm) \cup Range(deployment.envLlm)
OpenAiKeys == {p.key : p \in {q \in Listed : q.provider = "openai"}} \cup {x.skey : x \in SubmittedScalars}

\* The secrets that only the environment knows.
EnteredKeys == {p.key : p \in SubmittedCards \cup SavedBefore} \cup {x.skey : x \in SubmittedScalars}
EnvSecrets == {e.key : e \in Range(EnvEntries)} \ ({Blank, Mask} \cup EnteredKeys)

Running == Range(app.llm) \cup Range(llm)
Written == UNION {Range(s.llm) : s \in db \cup file}

\* The projections, in memory and stored, hold masks and never a key: GET /config and the
\* rows of ui_settings cannot give one away.
ProjectionsAreMasked == Masked(ui) /\ \A s \in db \cup file : \A u \in s.ui : Masked(u)

\* A provider's key never runs, and is never stored, with a provider or an endpoint it was
\* not entered for (the keep rules of resolve_llm_section, through saves and restarts);
\* the openai account, which the scalar fields may move, keeps to openai's keys.
KnownAccount(e) ==
  IF e.provider = "openai" THEN e.key \in OpenAiKeys
  ELSE \E p \in Listed : <<e.provider, e.at, e.key>> = <<p.provider, p.at, p.key>>
KeysStayWithTheirAccount == \A e \in Running \cup Written : KnownAccount(e)

\* What the environment supplied at startup is never written down (from_applied).
EnvSecretStaysOut ==
  /\ \A e \in Written : e.key \notin EnvSecrets
  /\ \A s \in db \cup file : s \notin deployment.uiStates /\ deployment.envToken # Blank =>
       s.token # deployment.envToken

\* A secret stays where it was entered: with its account, out of the projections, and the
\* environment's in the environment.
SecretsStayPut == ProjectionsAreMasked /\ KeysStayWithTheirAccount /\ EnvSecretStaysOut

\* The caps the pipeline builds its semaphores from are never zero, and the Configuration
\* page shows the cap in force (RENG-107).
CapInForce == app.cap > 0 /\ (AtRest => ui.cap = app.cap)

\* The list that configures the providers and the one that reviews take are written under
\* locks of their own, by saves, by the overlay of the database and by the replay: at rest
\* they agree, whatever was saved, refused or read back at a start, while PUTs come one at
\* a time.
ListsAgree == AtRest => app.llm = llm

\* The configuration in memory, in the stores and in the PUTs in flight has its types, and
\* its two copies of the providers are one list.
ConfigIsSound == ConfigTypeOK /\ ListsAgree

BootEnds == phase # "up" /\ phase' = "up"

\* A restart runs the providers that were stored, if any were and the environment names
\* none, in the order that was stored.
RestartKeepsChain ==
  [][BootEnds /\ EnvEntries = <<>> =>
       \A s \in Stored : s.llm # <<>> => Chain' = StoredChain(s)]_configVars

\* A restart uses the stored GitLab token, and the environment's only when none is stored.
RestartKeepsToken ==
  [][BootEnds => \A s \in Stored :
       gl' = IF s.token # Blank THEN s.token ELSE deployment.envToken]_configVars

\* Without a database it does: the file is replayed after init_gitlab_runtime has put the
\* environment's token in place.
FileKeepsToken ==
  [][BootEnds /\ ~deployment.db => \A s \in file :
       gl' = IF s.token # Blank THEN s.token ELSE deployment.envToken]_configVars
=============================================================================
