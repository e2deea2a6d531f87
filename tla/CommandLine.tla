---------------------------- MODULE CommandLine -----------------------------
(***************************************************************************)
(* The command line (cli/app.rs, cli/commands.rs, cli/handlers, actions)   *)
(* and the release check behind `upgrade` (upgrade/).                      *)
(*                                                                         *)
(* A command is [command, inputs, publish, output, format, aggregated]:    *)
(* inputs is the set of the input flags given.  What a command leaves      *)
(* behind is a sequence of effects ("asked", "printed", "written",         *)
(* "saved", "published") and how it ended.                                 *)
(***************************************************************************)
EXTENDS Integers, Sequences, SequencesExt, FiniteSets, FiniteSetsExt

-----------------------------------------------------------------------------
(* The flags.                                                              *)

\* The declarations of the commands: what may be reviewed, whether --publish is there, the format when none is
\* named.  "range" stands for --base, --head, --since, --until and --staged.
Flags(inputs, publish, format) == [inputs |-> inputs, publish |-> publish, format |-> format]
ReviewFlags == Flags({"path", "mr", "diff", "local", "stdin", "range"}, TRUE, "json")
ImproveFlags == Flags({"mr", "diff", "local", "range"}, TRUE, "json")
DescribeFlags == Flags({"mr", "diff", "local", "range"}, TRUE, "json")
AskFlags == Flags({"mr", "diff", "local", "stdin"}, FALSE, "json")
ChangelogFlags == Flags({"local", "range"}, FALSE, "json")
RepoReviewFlags == Flags({"local"}, FALSE, "markdown")
FlagsOf(command) ==
  CASE command = "review" -> ReviewFlags [] command = "improve" -> ImproveFlags [] command = "describe" -> DescribeFlags
    [] command = "ask" -> AskFlags [] command = "changelog" -> ChangelogFlags [] OTHER -> RepoReviewFlags

\* --path needs --local-path and goes with no other input.
PathRule(inputs) == "path" \in inputs => "local" \in inputs /\ inputs \cap {"mr", "diff", "stdin", "range"} = {}

\* parse_cli: a flag the command does not have is refused, too.
ClapAccepts(cmd) ==
  /\ cmd.inputs \subseteq FlagsOf(cmd.command).inputs
  /\ cmd.publish => FlagsOf(cmd.command).publish
  /\ cmd.command = "review" => PathRule(cmd.inputs)

\* run: the handler a command reaches; the first flag that fits decides, none is an error.
ReviewArm(inputs) ==
  CASE "path" \in inputs -> IF "local" \in inputs THEN "run_local_path" ELSE "refuse"
    [] "path" \notin inputs /\ "mr" \in inputs -> "run_mr"
    [] inputs \cap {"path", "mr"} = {} /\ "diff" \in inputs -> "run_local"
    [] inputs \cap {"path", "mr", "diff"} = {} /\ "local" \in inputs -> "run_local_repo"
    [] inputs \cap {"path", "mr", "diff", "local"} = {} /\ "stdin" \in inputs -> "run_stdin"
    [] OTHER -> "refuse"
ImproveArm(inputs) ==
  IF "mr" \in inputs THEN "run_improve" ELSE IF "diff" \in inputs THEN "run_improve_local_diff"
  ELSE IF "local" \in inputs THEN "run_improve_local_repo" ELSE "refuse"
DescribeArm(inputs) ==
  IF "mr" \in inputs THEN "run_describe" ELSE IF "diff" \in inputs THEN "run_describe_local_diff"
  ELSE IF "local" \in inputs THEN "run_describe_local_repo" ELSE "refuse"
AskArm(inputs) ==
  IF "mr" \in inputs THEN "run_ask" ELSE IF "diff" \in inputs THEN "run_ask_local_diff"
  ELSE IF "local" \in inputs THEN "run_ask_local_repo" ELSE IF "stdin" \in inputs THEN "run_ask_stdin" ELSE "refuse"
ChangelogArm(inputs) == IF "local" \in inputs THEN "run_update_changelog" ELSE "refuse"
RepoReviewArm(inputs) == IF "local" \in inputs THEN "run_repo_review" ELSE "refuse"
Handler(cmd) ==
  CASE cmd.command = "review" -> ReviewArm(cmd.inputs) [] cmd.command = "improve" -> ImproveArm(cmd.inputs)
    [] cmd.command = "describe" -> DescribeArm(cmd.inputs) [] cmd.command = "ask" -> AskArm(cmd.inputs)
    [] cmd.command = "changelog" -> ChangelogArm(cmd.inputs) [] OTHER -> RepoReviewArm(cmd.inputs)

-----------------------------------------------------------------------------
(* What the handlers share.                                                *)

\* resolve_llm_configs: the arguments, the environment, the settings; an argument that does not parse is an error.
ResolveLlmConfigs(w) ==
  IF w.args # <<>> THEN (IF \E i \in DOMAIN w.args : ~w.args[i].parses THEN {} ELSE {w.args})
  ELSE IF w.env # <<>> THEN {w.env} ELSE {w.settings}
HasUsableLlm(llms) == \E i \in DOMAIN llms : llms[i].base # ""
EnsureUsableLlm(w) == \E llms \in ResolveLlmConfigs(w) : HasUsableLlm(llms)

\* A way to leave: nothing to do ends well.
Fail == "error"
Nothing == "nothing"
Good == "ok"

\* write_report_text: the text goes to the file or to the terminal, then a copy to the output
\* directory, and any of these fails the command.
WriteReportText(output, dir, w) ==
  LET shown == CASE output = "none" -> [effects |-> <<"printed">>, end |-> Good]
                 [] output = "up" -> [effects |-> <<>>, end |-> Fail]
                 [] OTHER -> IF w.writable THEN [effects |-> <<"written">>, end |-> Good] ELSE [effects |-> <<>>, end |-> Fail]
      saved == CASE dir = "none" -> shown
                 [] dir = "up" -> [shown EXCEPT !.end = Fail]
                 [] OTHER -> IF w.saves THEN [shown EXCEPT !.effects = Append(@, "saved")] ELSE [shown EXCEPT !.end = Fail]
  IN  IF shown.end = Fail THEN shown ELSE saved

\* single_expert_review_output: one report without findings.
SingleExpertOutput(name) == [reports |-> <<[name |-> name, findings |-> 0, paths |-> <<>>, text |-> TRUE]>>, aggregated |-> {}, consolidated |-> FALSE,
                             compliance |-> FALSE, dropped |-> 0, errors |-> 0]

\* format_output: the sections of the text; there always is one.
FormatOutput(r, format, verification) ==
  CASE format = "markdown" ->
         (IF \A i \in DOMAIN r.reports : ~r.reports[i].text THEN <<"no content">> ELSE [i \in DOMAIN r.reports |-> r.reports[i].name])
           \o (IF r.consolidated THEN <<"summary">> ELSE <<>>) \o (IF r.compliance THEN <<"compliance">> ELSE <<>>)
           \o (IF r.dropped > 0 \/ verification THEN <<"dropped">> ELSE <<>>)
    [] format = "aggregated-markdown" -> IF r.aggregated = {} THEN <<"No aggregated report">> ELSE <<"aggregated">>
    [] OTHER -> <<"json">>

-----------------------------------------------------------------------------
(* The handlers, each the steps it takes in order; any step may end it.    *)
(* "require" is require_llm_configs, "resolve" and "usable" its two halves *)
(* where a handler does something in between.                              *)

\* run_review: the settings, the merge request, what its repository says, the experts, the aggregator, the tickets.
RunReview == <<"settings", "forge", "repository", "ask", "aggregate", "tickets", "complete">>

\* Fault: the note goes out before the text is written.
PublishFirst == <<"config", "require">> \o RunReview \o <<"publish", "write">>
RunStdin == <<"input", "request">> \o RunReview \o <<"show">>
RunMr == <<"config", "require">> \o RunReview \o <<"write", "publish">>
RunLocal == <<"input", "config", "require", "prepare", "ask", "finish", "write", "complete">>
RunLocalRepo == <<"input", "empty", "config", "resolve", "usable", "prepare", "ask", "finish", "normalise", "write", "complete">>
RunLocalPath == <<"config", "resolve", "input", "usable", "prepare", "ask", "finish", "note", "write", "complete">>
RunImprove == <<"config", "require", "forge", "ask", "write", "publish">>
RunImproveLocalDiff == <<"input", "config", "require", "ask", "write">>
RunImproveLocalRepo == <<"input", "empty", "config", "require", "ask", "write">>
RunDescribe == <<"config", "require", "forge", "ask", "write", "publish">>
RunDescribeLocalDiff == <<"input", "config", "require", "ask", "write">>
RunDescribeLocalRepo == <<"input", "empty", "config", "require", "ask", "write">>
\* A question is answered and shown, never published.
RunAsk == <<"config", "require", "forge", "ask", "write">>
RunAskWithDiff == <<"config", "require", "ask", "write">>
RunAskLocalDiff == <<"input">> \o RunAskWithDiff
\* Fault: a question about a local change looks at its settings only when it needs them.
AskUnchecked == <<"input", "empty", "config", "resolve", "ask", "write">>
RunAskLocalRepo == <<"input", "empty", "config", "require", "ask", "write">>
RunAskStdin == <<"input", "empty">> \o RunAskWithDiff
RunUpdateChangelog == <<"input", "empty", "config", "require", "ask", "write">>
\* Without a model the repository is counted and not asked about.
RunRepoReviewLocalOrEnhanced == <<"config", "resolve", "input", "look", "write">>

StepsOf(handler) ==
  CASE handler = "run_stdin" -> RunStdin [] handler = "run_mr" -> RunMr [] handler = "run_local" -> RunLocal
    [] handler = "run_local_repo" -> RunLocalRepo [] handler = "run_local_path" -> RunLocalPath
    [] handler = "run_improve" -> RunImprove [] handler = "run_improve_local_diff" -> RunImproveLocalDiff
    [] handler = "run_improve_local_repo" -> RunImproveLocalRepo
    [] handler = "run_describe" -> RunDescribe [] handler = "run_describe_local_diff" -> RunDescribeLocalDiff
    [] handler = "run_describe_local_repo" -> RunDescribeLocalRepo
    [] handler = "run_ask" -> RunAsk [] handler = "run_ask_local_diff" -> RunAskLocalDiff
    [] handler = "run_ask_local_repo" -> RunAskLocalRepo [] handler = "run_ask_stdin" -> RunAskStdin
    [] handler = "run_update_changelog" -> RunUpdateChangelog [] handler = "run_repo_review" -> RunRepoReviewLocalOrEnhanced
    [] OTHER -> <<"refuse">>

\* What the repository's own settings do: they count for a GitLab request reviewed without settings of the caller; those
\* that cannot be read are passed over, those that cannot be parsed are an error.
RepositorySettings(github, explicit, toml) ==
  IF github \/ explicit \/ toml \in {"none", "unread"} THEN {"caller"} ELSE IF toml = "broken" THEN {} ELSE {"repository"}

\* prepare_review: what AGENTS.md says goes along when the settings want it and it can be read.
PrepareReview(inject, file) == IF inject THEN file ELSE {}

\* aggregator_expert, and finish_output for a local review: the aggregated report when it is wanted, there is an aggregator
\* and it answered.
AggregatorExpert(wanted, experts) == wanted /\ "aggregator" \in experts
FinishOutput(wanted, experts, answers) == AggregatorExpert(wanted, experts) /\ answers

\* The state of a command: what it has done, and how it stands.
Started == [effects |-> <<>>, end |-> Good, team |-> "caller", agents |-> {}, aggregated |-> FALSE, complete |-> FALSE, normalised |-> FALSE]

\* One step.
StepOn(cmd, w, s, step) ==
  LET stop(how) == [s EXCEPT !.end = how]
      unless(ok) == IF ok THEN s ELSE stop(Fail)
      adds(effect) == [s EXCEPT !.effects = Append(@, effect)]
      write(dir) == LET out == WriteReportText(cmd.output, dir, w) IN [s EXCEPT !.effects = @ \o out.effects, !.end = out.end]
  IN  IF s.end # Good THEN s
      ELSE CASE step = "refuse" -> stop(Fail)
        [] step = "input" -> unless(w.input)
        [] step = "request" -> unless(\A i \in DOMAIN w.args : w.args[i].parses)
        [] step = "empty" -> IF w.empty THEN stop(Nothing) ELSE s
        [] step \in {"config", "settings"} -> unless(w.config)
        [] step = "resolve" -> unless(ResolveLlmConfigs(w) # {})
        [] step \in {"usable", "require"} -> unless(EnsureUsableLlm(w))
        [] step = "forge" -> unless(w.forge)
        [] step = "repository" ->
             LET teams == RepositorySettings(w.github, w.explicit, w.toml) IN
             IF teams = {} THEN stop(Fail) ELSE [s EXCEPT !.team = CHOOSE x \in teams : TRUE]
        [] step = "prepare" -> [s EXCEPT !.agents = PrepareReview(w.inject, w.agents)]
        [] step = "ask" -> [adds("asked") EXCEPT !.end = IF w.answers THEN Good ELSE Fail]
        [] step = "look" ->
             IF ResolveLlmConfigs(w) = {<<>>} THEN s ELSE [adds("asked") EXCEPT !.end = IF w.answers THEN Good ELSE Fail]
        [] step = "aggregate" ->
             IF ~AggregatorExpert(w.aggregator # "off", {"aggregator"}) THEN s
             ELSE IF w.aggregator = "fails" THEN stop(Fail) ELSE [s EXCEPT !.aggregated = TRUE]
        [] step = "finish" -> [s EXCEPT !.aggregated = FinishOutput(w.aggregator # "off", {"aggregator"}, w.aggregator # "fails")]
        [] step = "normalise" -> [s EXCEPT !.normalised = w.canonical]
        [] step \in {"tickets", "note"} -> s
        [] step = "complete" -> [s EXCEPT !.complete = TRUE]
        [] step = "show" -> write("none")
        [] step = "write" -> write(w.dir)
        [] OTHER -> IF ~cmd.publish THEN s ELSE IF w.publishes THEN adds("published") ELSE stop(Fail)

RunCommand(cmd, w) ==
  IF ~ClapAccepts(cmd) THEN [Started EXCEPT !.end = Fail]
  ELSE FoldLeft(LAMBDA s, step : StepOn(cmd, w, s, step), Started, StepsOf(Handler(cmd)))

\* normalize_path: an absolute path below the root loses the root, another one a leading "./"; a path is [lead, segs].
NormalizePath(path, root) ==
  IF path.lead = "/" /\ \E r \in root : IsPrefix(r, path.segs)
  THEN [lead |-> "", segs |-> SubSeq(path.segs, Len(CHOOSE r \in root : TRUE) + 1, Len(path.segs))]
  ELSE IF path.lead \in {"./", ".\\"} THEN [path EXCEPT !.lead = ""] ELSE path

\* normalize_all_findings: the paths of the findings become paths of the repository and every report is rendered anew.
NormalizeAllFindings(reports, root) ==
  [i \in DOMAIN reports |-> [reports[i] EXCEPT !.text = TRUE, !.paths = [j \in DOMAIN @ |-> NormalizePath(@[j], root)]]]

\* The result of a local review; without findings a review of a path says what it read.
PathNote(reports, mode) ==
  IF mode = "path" /\ \A i \in DOMAIN reports : reports[i].findings = 0
  THEN Append(reports, [name |-> "path_review", findings |-> 0, paths |-> <<>>, text |-> TRUE]) ELSE reports

-----------------------------------------------------------------------------
(* The other actions' answers.                                             *)

\* CommandRegistry::select_experts_for_command.
SelectExperts(commands, command, experts) ==
  IF command \notin DOMAIN commands \/ ~commands[command] THEN [kind |-> "disabled", experts |-> <<>>]
  ELSE LET chosen == SelectSeq(experts, LAMBDA e : e.enabled /\ ~e.on_demand /\ (e.commands = {} \/ command \in e.commands))
       IN  [kind |-> IF chosen = <<>> THEN "none" ELSE "selected", experts |-> chosen]

\* parse_improve_response: a score is cut to a byte, a line to four; an answer that does not parse gives none.
ParseImprove(a, lineBits) ==
  IF ~a.parses THEN <<>>
  ELSE [i \in DOMAIN a.list |-> [line |-> Max(a.list[i].line \cup {0}) % 2 ^ lineBits,
                                 score |-> (IF a.list[i].score = {} THEN 5 ELSE Max(a.list[i].score)) % 256]]
\* parse_describe_response: an answer that does not parse becomes the description.
ParseDescribe(a) ==
  IF ~a.parses THEN [title |-> "", description |-> a.text, kind |-> "refactor"]
  ELSE [title |-> a.title, description |-> a.description, kind |-> IF a.kind = "" THEN "refactor" ELSE a.kind]
\* parse_changelog_response.
ParseChangelog(a) == IF ~a.parses THEN <<>> ELSE [i \in DOMAIN a.list |-> IF a.list[i].kind = "" THEN "changed" ELSE a.list[i].kind]

-----------------------------------------------------------------------------
(* `serve`, up to the listening.                                           *)

\* A flag, then the environment; an empty value is none.
FlagOrEnv(flag, env) == LET v == IF flag # {} THEN flag ELSE env IN {x \in v : x # ""}

\* The GitHub hook is there with a token and a secret that is not empty, the GitLab one always.
HooksOf(flags, env) ==
  LET token == IF flags.github_token # {} THEN flags.github_token ELSE env.github_token
      secret == IF flags.github_webhook_secret # {} THEN flags.github_webhook_secret ELSE env.github_webhook_secret
  IN  {"gitlab"} \cup {h \in {"github"} : token # {} /\ secret \notin {{}, {""}}}

\* The settings before the database: the files, and the environment's models when the files name none.
FirstSettings(w) == [llm |-> IF w.llm THEN "file" ELSE IF w.env_llm THEN "environment" ELSE "none", experts |-> "file", ui |-> "none"]

\* apply_db_overrides over them; what cannot be read leaves them as they are.
DbOverlay(c, db) == IF db = "full" THEN [c EXCEPT !.llm = "database", !.experts = "database"] ELSE c

\* import_ui_state_into_db: empty tables take the saved file in, which is then out of the way.
ImportUiState(s) ==
  IF s.db = "empty" /\ s.saved = "good" THEN [s EXCEPT !.db = "full", !.saved = "migrated"] ELSE s

\* The replay of what the page saved: from the database, and from the file when nothing came from there.
ReplayDb(s) == IF s.db = "full" THEN [s EXCEPT !.config.ui = "database", !.config.llm = "database"] ELSE s
ReplayFile(s) == IF s.config.ui = "none" /\ s.saved = "good" THEN [s EXCEPT !.config.ui = "file", !.config.llm = "saved"] ELSE s

\* load_and_apply_expert_overrides, over the team of the files.
ExpertOverrides(s) == IF s.db = "full" THEN [s EXCEPT !.config.experts = "database"] ELSE s

\* The key pair comes whole or not at all; the token and the key to the first start are judged by AuthConfig::resolve.
TlsPair(flags) == IF (flags.tls_cert # {}) # (flags.tls_key # {}) THEN {} ELSE {flags.tls_cert # {}}

\* watch_config_file for every settings file there is.
WatchedFiles(files) == {f \in {"project", "user"} : f \in files}

\* One step of the start.  db is what bootstrap_database found: "off" by request, "down" an error.
ServeStep(flags, env, w, s, step) ==
  LET stop == [s EXCEPT !.end = Fail]
      there == s.db \notin {"off", "down"}
  IN  IF s.end = Fail THEN s
      ELSE CASE step = "tls" -> IF TlsPair(flags) = {} THEN stop ELSE [s EXCEPT !.tls = TRUE \in TlsPair(flags)]
        [] step = "auth" -> IF w.auth THEN s ELSE stop
        [] step = "config" -> IF w.config THEN [s EXCEPT !.config = FirstSettings(w)] ELSE stop
        [] step = "credentials" -> [s EXCEPT !.gitlab = FlagOrEnv(flags.gitlab_token, env.gitlab_token)]
        [] step = "database" -> IF w.db = "down" THEN stop ELSE [s EXCEPT !.db = w.db]
        [] step = "overlay" -> [s EXCEPT !.config = DbOverlay(@, s.db)]
        [] step = "sweep" -> IF there THEN [s EXCEPT !.swept = w.sweeps, !.write_through = TRUE] ELSE s
        [] step = "import" -> ImportUiState(s)
        [] step = "replay" -> ReplayDb(s)
        [] step = "runtime" -> [s EXCEPT !.runtime = {s.gitlab}]
        [] step = "replay file" -> ReplayFile(s)
        [] step = "experts" -> ExpertOverrides(s)
        [] step = "hooks" -> [s EXCEPT !.hooks = HooksOf(flags, env)]
        [] step = "watch" -> [s EXCEPT !.watched = WatchedFiles(w.files)]
        [] OTHER -> IF w.binds THEN [s EXCEPT !.end = "serving"] ELSE stop
\* Fault: the settings files are watched before the database is there.
WatchEarly ==
  <<"tls", "auth", "config", "credentials", "watch", "database", "overlay", "sweep", "import", "replay", "runtime", "replay file", "experts", "hooks", "serve">>
ServeSteps ==
  <<"tls", "auth", "config", "credentials", "database", "overlay", "sweep", "import", "replay", "runtime", "replay file", "experts", "hooks", "watch", "serve">>
ServeStart(flags, env, w) ==
  FoldLeft(LAMBDA s, step : ServeStep(flags, env, w, s, step),
           [end |-> Good, tls |-> FALSE, config |-> [llm |-> "none", experts |-> "none", ui |-> "none"], gitlab |-> {}, db |-> "off", saved |-> w.saved,
            swept |-> FALSE, write_through |-> FALSE, runtime |-> {}, hooks |-> {}, watched |-> {}], ServeSteps)

-----------------------------------------------------------------------------
(* Releases.                                                               *)

\* parse_parts and parse_release_tag: three numbers and no more; a v in front is dropped.
ParseParts(parts) == IF Len(parts) # 3 \/ \E i \in DOMAIN parts : ~parts[i].number THEN {} ELSE {[i \in 1 .. 3 |-> parts[i].n]}
Newer(a, b) == \E i \in 1 .. 3 : a[i] > b[i] /\ \A j \in 1 .. i - 1 : a[j] = b[j]

\* InstallMethod::detect_from.
DetectFrom(exe, docker) ==
  IF docker THEN "Docker" ELSE IF exe = {} THEN "Unknown"
  ELSE IF exe \cap {"Cellar", "homebrew"} # {} THEN "Brew" ELSE IF "cargo" \in exe THEN "Cargo"
  ELSE IF exe \cap {"local", "usr"} # {} THEN "Plain" ELSE "Unknown"

\* asset_spec_for, find_asset, find_checksum_asset: the archive of this platform and its checksum.
AssetSpecFor(os, arch) ==
  IF os \notin {"macos", "linux", "windows"} \/ arch \notin {"x86_64", "aarch64", "arm64"} THEN {}
  ELSE {<<os, IF arch = "x86_64" THEN arch ELSE "aarch64", IF os = "windows" THEN "zip" ELSE "tar.gz">>}
FindAsset(release, spec) == {a \in spec : a \in release.assets}
FindChecksumAsset(release, asset) == {<<a[1], a[2], "sha256">> : a \in asset} \cap release.assets

\* latest_release and latest_stable_release: an answer that is no success is an error, a tag that is not stable no release.
LatestStableRelease(release) == IF release.ok THEN ParseParts(release.tag) ELSE {}

\* check_for_updates_with_version: no stable release is an error.
CheckForUpdates(current, release, os, arch, method) ==
  LET latest == LatestStableRelease(release)
      asset == FindAsset(release, AssetSpecFor(os, arch))
  IN  {[current |-> current, latest |-> v, has_update |-> Newer(v, current), asset |-> asset,
        checksum |-> FindChecksumAsset(release, asset), method |-> method] : v \in latest}

\* run_upgrade: what is done to the installation, or nothing.
RunUpgrade(check, args) ==
  LET asked == UNION {ParseParts(t) : t \in args.version} IN
  CASE args.rollback -> "rollback"
    [] ~args.rollback /\ check = {} -> Fail
    [] OTHER ->
         LET c == CHOOSE x \in check : TRUE IN
         IF args.version # {} /\ asked = {} THEN Fail
         ELSE IF \E v \in asked : ~Newer(v, c.current) THEN Nothing
         ELSE IF \E v \in asked : v # c.latest THEN Fail
         ELSE IF ~c.has_update \/ args.check THEN Nothing
         ELSE IF c.method = "Plain" THEN (IF args.yes \/ args.confirms THEN "install" ELSE Nothing)
         ELSE IF c.method = "Brew" /\ args.yes THEN "brew" ELSE Nothing

\* extract_zip: every entry is judged before the first is written.
ExtractZip(entries) ==
  IF entries = <<>> \/ \E i \in DOMAIN entries : entries[i].outside \/ entries[i].symlink \/ entries[i].big THEN [end |-> Fail, files |-> {}]
  ELSE [end |-> Good, files |-> {entries[i].name : i \in DOMAIN entries}]

-----------------------------------------------------------------------------
(* Correctness.                                                            *)

\* A command does all it was asked or says that it failed (the handlers of cli/handlers): when it ends well its
\* text was shown and kept, and published where that was asked; nothing is published that was not written
\* first; no model is asked without one that can be, except by a review from stdin, which brings its own and
\* is not checked; what ends before the model was asked leaves nothing behind; progress is complete only for a review
\* whose experts were asked; the settings of the reviewed repository never count against the caller's.
CommandKeepsItsPromise(c) ==
  \A r \in {RunCommand(c.cmd, c.w)} :
  LET did(e) == e \in ToSet(r.effects)
      handler == Handler(c.cmd)
      stdin == handler = "run_stdin"
      remote == handler \in {"run_stdin", "run_mr"}
  IN  /\ r.end = Good =>
           /\ did("printed") \/ did("written")
           /\ did("saved") \/ stdin \/ c.w.dir = "none"
           /\ did("published") <=> c.cmd.publish /\ "mr" \in c.cmd.inputs
           /\ did("asked") \/ handler = "run_repo_review"
           /\ c.cmd.command = "review" => r.complete /\ (r.aggregated <=> c.w.aggregator = "on")
      /\ did("published") => r.end = Good /\ Last(r.effects) = "published" /\ (did("printed") \/ did("written"))
      /\ did("asked") /\ ~stdin /\ handler # "run_repo_review" => EnsureUsableLlm(c.w)
      /\ (did("printed") \/ did("written") \/ did("saved")) /\ handler # "run_repo_review" => did("asked")
      /\ r.end = Nothing => r.effects = <<>> /\ c.w.empty
      /\ Cardinality(ToSet(r.effects)) = Len(r.effects)
      /\ ~did("written") \/ ~did("printed")
      /\ r.complete => did("asked") /\ c.w.answers
      /\ r.team = "repository" => remote /\ ~c.w.explicit
      /\ remote /\ c.w.aggregator = "fails" => r.end # Good

\* The text shown leaves out nothing the review has (format_output): every expert's section, the summary, the
\* tickets and the dropped findings; it is never empty.
TextIsComplete(c) ==
  LET noted == PathNote(c.result.reports, c.mode)
      reports == IF c.mode = "local" THEN NormalizeAllFindings(noted, {c.root}) ELSE noted
      text == FormatOutput([c.result EXCEPT !.reports = reports], c.format, c.verification)
  IN  /\ text # <<>>
      /\ c.format = "markdown" =>
           /\ \A i \in DOMAIN reports : reports[i].text => reports[i].name \in ToSet(text)
           /\ c.result.dropped > 0 => "dropped" \in ToSet(text)
           /\ c.result.compliance => "compliance" \in ToSet(text)
           /\ "no content" \in ToSet(text) <=> \A i \in DOMAIN reports : ~reports[i].text
      /\ c.mode = "path" => \E i \in DOMAIN reports : reports[i].findings > 0 \/ reports[i].name = "path_review"
      /\ \A i \in DOMAIN reports : Len(reports[i].paths) = reports[i].findings
      /\ c.mode = "local" => \A i \in DOMAIN reports : \A p \in ToSet(reports[i].paths) : p.lead = "/" => ~IsPrefix(c.root, p.segs)

\* A server that starts is guarded and has what was saved (Commands::Serve): no hook is open without a secret, no half of a
\* key pair is passed over, settings the page saved are in force wherever they are and the environment's models only where
\* nothing else names one, and nothing watches a file for a start that failed before it was to listen.
ServerStartsGuarded(c) ==
  \A s \in {ServeStart(c.flags, c.env, c.w)} :
  /\ "github" \in s.hooks => ("" \notin c.flags.github_webhook_secret) /\ (c.flags.github_webhook_secret # {} \/ c.env.github_webhook_secret # {})
  /\ s.tls => c.flags.tls_cert # {} /\ c.flags.tls_key # {}
  /\ s.end = "serving" =>
       /\ (c.flags.tls_cert # {}) <=> (c.flags.tls_key # {})
       /\ s.runtime = {s.gitlab} /\ "" \notin s.gitlab /\ "gitlab" \in s.hooks
       /\ c.w.db = "full" => s.config.ui = "database" /\ s.config.experts = "database"
       /\ c.w.saved = "good" => s.config.ui \in {"database", "file"}
       /\ s.config.llm = "environment" => ~c.w.llm /\ s.config.ui = "none"
       /\ s.write_through <=> c.w.db # "off"
  /\ s.watched # {} => c.w.auth /\ c.w.config /\ c.w.db # "down"
  /\ s.saved = "migrated" => s.config.ui = "database" /\ c.w.db = "empty"

\* The installation is only ever replaced by a newer release, the one asked for if one was, with consent
\* (run_upgrade); an archive is taken or refused as a whole.
UpgradeIsWanted(c) ==
  LET check == CheckForUpdates(c.current, c.release, c.os, c.arch, DetectFrom(c.exe, c.docker))
      done == RunUpgrade(check, c.args)
  IN  /\ done \in {"install", "brew"} =>
           /\ ~c.args.check /\ (c.args.yes \/ c.args.confirms)
           /\ \E k \in check : Newer(k.latest, c.current) /\ \A t \in c.args.version : ParseParts(t) = {k.latest}
      /\ done = "brew" => c.args.yes
      /\ done = "rollback" <=> c.args.rollback
      /\ c.docker => done \notin {"install", "brew"}
      /\ \A k \in check : k.checksum # {} => k.asset # {}
      /\ LET z == ExtractZip(c.zip) IN z.files # {} => z.end = Good /\ \A i \in DOMAIN c.zip : ~c.zip[i].outside

\* What a model answered is not lost (actions): a description that does not parse is shown as it is, every entry of a
\* list that does is kept, with a score of a byte; an expert that is off or only on demand is never asked by a command.
AnswersAreRead(c) ==
  /\ ParseDescribe(c.answer).description = IF c.answer.parses THEN c.answer.description ELSE c.answer.text
  /\ c.answer.parses => Len(ParseImprove(c.answer, 8)) = Len(c.answer.list) /\ Len(ParseChangelog(c.answer)) = Len(c.answer.list)
  /\ \A i \in DOMAIN ParseImprove(c.answer, 8) : ParseImprove(c.answer, 8)[i].score \in 0 .. 255
  /\ LET chosen == SelectExperts(c.commands, "review", c.experts) IN
       /\ chosen.kind = "selected" <=> chosen.experts # <<>>
       /\ \A i \in DOMAIN chosen.experts : chosen.experts[i].enabled /\ ~chosen.experts[i].on_demand
=============================================================================
