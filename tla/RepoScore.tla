----------------------------- MODULE RepoScore ------------------------------
(***************************************************************************)
(* The scores of a repository review: the experts that count               *)
(* (repo/experts/static_experts, test_coverage.rs), the two that ask a     *)
(* model (repo/experts/llm_experts), their aggregation                     *)
(* (repo/experts/aggregator.rs) and the report (actions/repo_review).      *)
(*                                                                         *)
(* A finding is a ScoreItem [severity, message, file, evidence, impact,    *)
(* advice, effort, confidence]: the message <<words, spelling>>, file and  *)
(* confidence options, evidence, impact and advice (the recommendation)    *)
(* lines of text, no line for none.  A score is [name, weight, score,      *)
(* summary, details, fallback, loc, samples, reason].  A file is [name,    *)
(* words, readable, language, generated, lines, test]: what it contains,   *)
(* and of a Rust file its lines.                                           *)
(***************************************************************************)
EXTENDS Integers, Sequences, SequencesExt, FiniteSets, FiniteSetsExt

Rules == INSTANCE FindingPasses WITH
  Penalty <- [s \in 0 .. 4 |-> 0], Consensus <- 1, VerifyBatch <- 1, AdjudicateBatch <- 1, LineSpan <- 1,
  Threshold <- [critical |-> 40, high |-> 60, medium |-> 80, low |-> 95, healthy |-> 90]

DefaultWeights ==
  [code_organization |-> 15, test_coverage |-> 20, security |-> 15, documentation |-> 10, dependency |-> 10, code_style |-> 5,
   architecture |-> 15, code_quality |-> 10]
LlmFallbackScore == 70
Item(severity, message) ==
  [severity |-> severity, message |-> message, file |-> {}, evidence |-> <<>>, impact |-> <<>>, advice |-> <<>>, effort |-> "",
   confidence |-> {}]
Score(name, score, details) ==
  [name |-> name, weight |-> DefaultWeights[name], score |-> Max({0, Min({score, 100})}), summary |-> <<"counts">>, details |-> details,
   fallback |-> FALSE, loc |-> {}, samples |-> {}, reason |-> {}]
Note(severity, text) == <<Item(severity, <<text, 0>>)>>
Advised(severity, text, advice, effort) == <<[Item(severity, <<text, 0>>) EXCEPT !.advice = advice, !.effort = effort]>>
Unless(condition, items) == IF condition THEN <<>> ELSE items
Hygiene == "hygiene"

-----------------------------------------------------------------------------
(* The experts that count, over what they counted.                         *)

\* The lines of an inline test module: from the attribute until the braces balance, at most one
\* of each kind counted a line ("tests" opens the module, "both" has one of each).
InlineTestLines(lines) ==
  LET step(s, l) ==
        CASE l = "cfg" -> [s EXCEPT !.in = TRUE]
          [] l # "cfg" /\ s.in ->
               LET depth == s.depth + (CASE l \in {"{", "tests"} -> 1 [] l = "}" -> 0 - 1 [] OTHER -> 0)
               IN  [in |-> depth > 0, depth |-> Max({0, depth}), n |-> s.n + 1]
          [] OTHER -> s
  IN  FoldLeft(step, [in |-> FALSE, depth |-> 0, n |-> 0], lines).n

\* A test framework is configured: always in a Go module, else by the words of the manifest.
DevDeps(f) ==
  \/ f.name = "go.mod"
  \/ /\ f.name \in {"pom.xml", "build.gradle", "build.gradle.kts"} /\ f.readable
     /\ f.words \cap {"junit", "testng", "surefire", "testimplementation", "testcompile", "src/test/"} # {}
  \/ /\ f.name \in {"Cargo.toml", "pyproject.toml", "setup.py", "package.json", "Package.swift"} /\ f.readable
     /\ f.words \cap {"[dev-dependencies]", "[tool.pytest", "devDependencies", "testTarget", "pytest", "unittest"} # {}

\* is_ci_test_file: a pipeline by its name, or a YAML file that scripts tests; it must say "test".
IsCiTestFile(f) ==
  /\ f.readable /\ "test" \in f.words
  /\ f.name \in {".gitlab-ci.yml", "workflows", "Jenkinsfile"} \/ (f.name = "x.yaml" /\ "script" \in f.words)

\* A Rust file with a test module counts with its lines and not as a test file; any other by its name.
HasInlineTests(f) == f.language = "Rust" /\ ToSet(f.lines) \cap {"cfg", "tests"} # {}
TestLoc(f) == IF ~f.readable THEN 0 ELSE IF HasInlineTests(f) THEN InlineTestLines(f.lines) ELSE IF f.test THEN Len(f.lines) ELSE 0

\* TestCoverage::evaluate.
TestCoverage(files) ==
  LET own == SelectSeq(files, LAMBDA f : ~f.generated)
      seen == SelectSeq(own, LAMBDA f : f.readable)
      test_loc == FoldLeft(LAMBDA n, f : n + TestLoc(f), 0, own)
      source_loc == FoldLeft(LAMBDA n, f : n + Len(f.lines), 0, own)
      above(percent) == source_loc > 0 /\ test_loc * 100 > percent * source_loc
      inline == \E i \in DOMAIN seen : HasInlineTests(seen[i])
      test_files == Len(SelectSeq(seen, LAMBDA f : HasInlineTests(f) \/ f.test))
      dev_deps == \E i \in DOMAIN files : DevDeps(files[i])
      ci == \E i \in DOMAIN files : IsCiTestFile(files[i])
  IN  Score("test_coverage",
        (IF dev_deps THEN 10 ELSE 0) + (IF inline \/ test_files > 0 THEN 10 ELSE 0)
          + (IF above(30) THEN 50 ELSE IF above(10) THEN 30 ELSE IF above(0) THEN 15 ELSE 0) + (IF ci THEN 30 ELSE 0),
        Unless(test_files > 0, IF inline THEN Note("medium", "inline only") ELSE Note("high", "no tests"))
          \o Unless(dev_deps, Note("medium", "no framework")) \o Unless(ci, Note("note", "no ci step")))

\* is_logic_language, vue_script_loc and scoped_logic_loc: what counts against a large file.
IsLogicLanguage(language) == language \notin {"Documentation", "Config", "Web", "Other"}
ScopedLogicLoc(f) ==
  IF f.is_generated \/ f.test \/ ~IsLogicLanguage(f.language) THEN 0 ELSE IF f.language = "Vue" THEN f.script ELSE f.loc

\* CodeOrganization::evaluate.
CodeOrganization(c) ==
  LET over == [i \in DOMAIN c.files |-> Max({0, ScopedLogicLoc(c.files[i]) - 500})]
      cut == Min({40, FoldLeft(+, 0, over) \div 100})
      few == c.source_count <= 3 /\ c.source_loc > 1000
      deep == c.depth > 4
  IN  Score("code_organization", 100 - (IF deep THEN 10 ELSE 0) - (IF few THEN 20 ELSE 0) - cut,
        Unless(~deep, Note("medium", "deep")) \o Unless(~few, Note("high", "few files")) \o Unless(cut = 0, Note("medium", "large files")))

\* Documentation::evaluate.
Documentation(c) ==
  LET above(percent) == c.lines > 0 /\ c.comments * 100 > percent * c.lines
  IN  Score("documentation",
        (IF c.readme THEN 30 ELSE 0) + (IF c.changelog THEN 20 ELSE 0) + (IF c.license THEN 20 ELSE 0)
          + (IF above(10) THEN 30 ELSE IF above(5) THEN 15 ELSE 0),
        Unless(c.readme, Note("medium", "no readme")) \o Unless(c.changelog, Note("note", "no changelog"))
          \o Unless(c.license, Note("medium", "no license")) \o Unless(above(5), Note("note", "few comments")))

\* security_recommendation: a private key is to be removed whatever it is, the rest looked at first.
SecurityRecommendation(pattern) ==
  CASE pattern = "Private key" -> <<"remove", "rotate">> [] pattern = "Hardcoded password" -> <<"confirm", "password">>
    [] OTHER -> <<"confirm", "credential">>

\* Security::evaluate: 4 points a mechanical hit, 12 a semantic one, at most eight of each; one item a hit.
Security(hits) ==
  LET of(kind) == Min({8, Len(SelectSeq(hits, LAMBDA h : h.kind = kind))})
  IN  Score("security", 100 - 4 * of("mechanical") - 12 * of("semantic"),
        [i \in DOMAIN hits |->
           [Item(hits[i].severity, <<hits[i].pattern, i>>) EXCEPT
              !.file = {hits[i].file}, !.evidence = <<"line">>, !.advice = SecurityRecommendation(hits[i].pattern), !.effort = "small"]])

\* count_go_dependencies: single lines and the lines of a block that say something.
CountGo(lines) ==
  LET step(s, l) ==
        CASE l = "require (" -> [s EXCEPT !.in = TRUE]
          [] l = "require x" -> [s EXCEPT !.n = @ + 1]
          [] l = ")" -> [s EXCEPT !.in = FALSE]
          [] OTHER -> IF s.in /\ l \notin {"", "//"} THEN [s EXCEPT !.n = @ + 1] ELSE s
  IN  FoldLeft(step, [in |-> FALSE, n |-> 0], lines).n

\* count_cargo_lock and its kin: nothing for an npm lockfile without a map, zero for a Swift one that does not parse.
CountDependencies(lock) ==
  CASE lock.kind = "Go" -> {CountGo(lock.lines)}
    [] lock.kind = "npm" -> IF ~lock.parses \/ lock.map = "none" THEN {} ELSE {IF lock.map = "packages" THEN lock.n - 1 ELSE lock.n}
    [] lock.kind = "SwiftPM" -> {IF lock.parses THEN lock.n ELSE 0}
    [] OTHER -> {lock.n}

\* coalesce_ecosystem_counts: the counts of one ecosystem together.
Coalesce(locks) == [k \in {locks[i].kind : i \in {j \in DOMAIN locks : CountDependencies(locks[j]) # {}}} |->
  MapThenSumSet(LAMBDA i : IF locks[i].kind = k THEN Max(CountDependencies(locks[i]) \cup {0}) ELSE 0, DOMAIN locks)]

\* The tool for each ecosystem, in the order of their names; without a lockfile, what to commit for the
\* first kind of file there is.
AuditRecommendation(kinds) ==
  LET tools == <<<<"Cargo", "cargo audit">>, <<"Go", "govulncheck">>, <<"Poetry", "pip-audit">>, <<"SwiftPM", "swift package audit">>, <<"npm", "npm audit">>>>
      named == SelectSeq(tools, LAMBDA t : t[1] \in kinds)
  IN  [i \in DOMAIN named |-> named[i][2]]
NoLockfileHint(looks) ==
  LET order == SelectSeq(<<"go", "rs", "npm", "py">>, LAMBDA k : k \in looks) IN IF order = <<>> THEN <<"any">> ELSE <<order[1]>>

\* Dependency::evaluate: without a lockfile a placeholder.
Dependency(locks, looks) ==
  LET counts == Coalesce(locks)
      total == MapThenSumSet(LAMBDA k : counts[k], DOMAIN counts)
  IN  IF DOMAIN counts = {} THEN [Score("dependency", 70, Advised("note", Hygiene, NoLockfileHint(looks), "small")) EXCEPT !.fallback = TRUE]
      ELSE Score("dependency", IF total > 200 THEN 60 ELSE IF total > 100 THEN 75 ELSE IF total > 50 THEN 85 ELSE 95,
             Unless(total <= 200, Advised("medium", "many dependencies", AuditRecommendation(DOMAIN counts), "medium")))

\* CodeStyle::evaluate: what is missing is a note that costs nothing.
CodeStyle(c) ==
  LET missing == {g \in DOMAIN c.groups : c.groups[g] \cap c.present = {}}
  IN  Score("code_style", 100,
        Unless(".editorconfig" \in c.present, Note("note", Hygiene)) \o FlattenSeq([i \in 1 .. Cardinality(missing) |-> Note("note", Hygiene)]))

-----------------------------------------------------------------------------
(* The experts that ask a model.  An answer is [ok, shape, score, summary, *)
(* items]: shape is "empty", "keys", "fenced", "legacy", "mapping"         *)
(* (without the keys) or "prose"; score an option, summary lines.          *)

\* classify_expert_yaml: the value, or why there is none.
ClassifyExpertYaml(a) ==
  CASE a.shape = "empty" -> [value |-> FALSE, reason |-> {"empty_response"}]
    [] a.shape \in {"keys", "fenced", "legacy"} -> [value |-> TRUE, reason |-> {}]
    [] a.shape = "mapping" -> [value |-> FALSE, reason |-> {"missing_expected_keys"}]
    [] OTHER -> [value |-> FALSE, reason |-> {"unparseable_yaml"}]
ScoreOf(a) == IF ClassifyExpertYaml(a).value THEN {Min({s, 100}) : s \in a.score} ELSE {}

\* median_score: of an even number the mean of the middle two, rounded up.
MedianScore(samples) ==
  LET sorted == SortSeq(samples, <)
      mid == Len(samples) \div 2
  IN  IF Len(samples) % 2 = 1 THEN sorted[mid + 1] ELSE (sorted[mid] + sorted[mid + 1] + 1) \div 2

ScoringSampleCount(n) == Max({1, n})
Call(content, median, samples, failed, reason) ==
  {[content |-> content, median |-> median, samples |-> samples, failed |-> failed, reason |-> reason]}

\* clarifying_retry: asked once more, and only an answer with the keys replaces the first.
ClarifyingRetry(first, again) ==
  IF again.ok /\ ClassifyExpertYaml(again).reason = {} THEN Call(again, {}, {}, 0, {})
  ELSE Call(first, {}, {}, 0, ClassifyExpertYaml(first).reason)

\* call_scoring: one answer and its retry, or n answers of which those without a score are left out.
CallScoring(n, answers) ==
  IF n <= 1
  THEN IF ~answers[1].ok THEN {}
       ELSE IF ClassifyExpertYaml(answers[1]).reason \cap {"missing_expected_keys", "unparseable_yaml"} = {}
            THEN Call(answers[1], {}, {}, 0, {}) ELSE ClarifyingRetry(answers[1], answers[2])
  ELSE LET good == SelectSeq(SubSeq(answers, 1, n), LAMBDA a : a.ok /\ ScoreOf(a) # {})
           samples == [i \in DOMAIN good |-> Max(ScoreOf(good[i]))]
           sorted == SortSeq(good, LAMBDA a, b : Max(ScoreOf(a)) < Max(ScoreOf(b)))
       IN  IF good = <<>> THEN {}
           ELSE Call(sorted[((Len(good) - 1) \div 2) + 1], {MedianScore(samples)}, {samples}, n - Len(good), {})

\* What evaluate makes of the call: the median, the score, or a placeholder.
EvaluateLlm(name, loc, n, answers) ==
  {LET score == call.median \cup (IF call.median = {} THEN ScoreOf(call.content) ELSE {})
       value == ClassifyExpertYaml(call.content).value
   IN  [Score(name, Max(score \cup (IF score = {} THEN {LlmFallbackScore} ELSE {})), IF value THEN call.content.items ELSE <<>>)
        EXCEPT !.fallback = (score = {}), !.summary = IF value /\ call.content.summary # <<>> THEN call.content.summary ELSE <<"completed">>,
               !.loc = {loc}, !.samples = call.samples, !.reason = call.reason] :
     call \in CallScoring(ScoringSampleCount(n), answers)}

\* The two of them: over one chunk, and over the whole repository.
CodeQuality(chunk, n) == EvaluateLlm("code_quality", chunk.loc, n, chunk.answers)
ArchitectureLead(c) == EvaluateLlm("architecture", c.loc, c.n, c.lead)

-----------------------------------------------------------------------------
(* Aggregation.                                                            *)

SeverityRank(s) == CASE s = "critical" -> 5 [] s = "high" -> 4 [] s = "medium" -> 3 [] s = "low" -> 2 [] s \in {"note", "info"} -> 1 [] OTHER -> 0
EffortRank(e) == CASE e = "large" -> 4 [] e = "medium" -> 3 [] e = "small" -> 2 [] e = "trivial" -> 1 [] OTHER -> 0
MaxFindings == 20

\* filter_noise: an empty message, or a message or evidence that says there was no code to look at.
IsNoise(d) == d.message[1] \in {"", "noise"} \/ "noise" \in ToSet(d.evidence)
IsNoiseSummary(text) == "no code" \in ToSet(text)
FilterNoise(details) == SelectSeq(details, LAMBDA d : ~IsNoise(d))
EstimateLoc(details) == Max({100, 200 * Len(details)})

\* score_item_to_finding and back; an unknown severity becomes medium.
ScoreItemToFinding(d) ==
  [file |-> IF d.file = {} THEN "" ELSE CHOOSE f \in d.file : TRUE, line |-> 0, title |-> d.message,
   severity |-> IF SeverityRank(d.severity) = 0 THEN 2 ELSE SeverityRank(d.severity) - 1,
   confidence |-> IF d.confidence = {} THEN 5 ELSE Max(d.confidence), expert |-> "code_quality", agrees |-> <<>>,
   evidence |-> d.evidence, impact |-> d.impact, effort |-> IF d.effort \in {"trivial", "medium", "large"} THEN d.effort ELSE "small", advice |-> d.advice]
FindingToScoreItem(f) ==
  [severity |-> Rules!Label[f.severity + 1], message |-> f.title, file |-> IF f.file = "" THEN {} ELSE {f.file},
   evidence |-> f.evidence, impact |-> f.impact, advice |-> f.advice, effort |-> f.effort, confidence |-> {f.confidence}]
BySeverity(items) == FlattenSeq([n \in 1 .. 6 |-> SelectSeq(items, LAMBDA d : SeverityRank(d.severity) = 6 - n)])

\* consolidate_chunk_findings: the rules of a review over the findings of one expert.
ConsolidateChunkFindings(details, report) ==
  LET findings == [i \in DOMAIN details |-> ScoreItemToFinding(details[i])]
      kept == Rules!DeduplicateFindings(Rules!FilterByConfidence(findings, report))
  IN  BySeverity([i \in DOMAIN kept |-> FindingToScoreItem(kept[i])])

\* merge_deduplicate: one item for a message and a file, with the worst severity and the longest texts.
MergeDeduplicate(items) ==
  LET step(out, d) ==
        LET same == {i \in DOMAIN out : out[i].message[1] = d.message[1] /\ out[i].file = d.file}
            worse(a, b) == IF SeverityRank(b) > SeverityRank(a) THEN b ELSE a
            longer(a, b) == IF Len(b) > Len(a) THEN b ELSE a
        IN  IF same = {} THEN Append(out, d)
            ELSE [out EXCEPT ![Max(same)] =
                   [@ EXCEPT !.severity = worse(@, d.severity), !.evidence = longer(@, d.evidence),
                             !.impact = longer(@, d.impact), !.advice = longer(@, d.advice),
                             !.effort = IF EffortRank(d.effort) > EffortRank(@) THEN d.effort ELSE @]]
  IN  BySeverity(FoldLeft(step, <<>>, items))

Truncated(s, n) == SubSeq(s, 1, Min({n, Len(s)}))

\* The scores of one expert's chunks as one: weighted by lines, a placeholder only if all are, with the
\* summary of the best of them.
MergeGroup(group, report) ==
  IF Len(group) = 1 THEN [group[1] EXCEPT !.details = FilterNoise(@)]
  ELSE LET loc(s) == IF s.loc = {} THEN EstimateLoc(s.details) ELSE Max(s.loc)
           total == FoldLeft(LAMBDA n, s : n + loc(s), 0, group)
           mean == IF total = 0 THEN FoldLeft(LAMBDA n, s : n + s.score, 0, group) \div Len(group)
                   ELSE FoldLeft(LAMBDA n, s : n + s.score * loc(s), 0, group) \div total
           locs == SelectSeq(group, LAMBDA s : s.loc # {})
           sampled == SelectSeq(group, LAMBDA s : s.samples # {})
           told == SelectSeq(group, LAMBDA s : ~IsNoiseSummary(s.summary))
           best == Max({told[i].score : i \in DOMAIN told} \cup {0})
       IN  [group[1] EXCEPT
              !.score = mean,
              !.summary = IF told = <<>> THEN <<"chunks evaluated">> ELSE Last(SelectSeq(told, LAMBDA s : s.score = best)).summary,
              !.details = Truncated(ConsolidateChunkFindings(FlattenSeq([i \in DOMAIN group |-> FilterNoise(group[i].details)]), report), MaxFindings),
              !.fallback = \A i \in DOMAIN group : group[i].fallback,
              !.loc = IF locs = <<>> THEN {} ELSE {FoldLeft(LAMBDA n, s : n + Max(s.loc), 0, locs)},
              !.samples = IF sampled = <<>> THEN {} ELSE {FlattenSeq([i \in DOMAIN sampled |-> CHOOSE x \in sampled[i].samples : TRUE])},
              !.reason = {}]

\* Fault: a placeholder counts.
CountsPlaceholders(scores) == Rules!ComputeWeighted([i \in DOMAIN scores |-> <<scores[i].score, scores[i].weight>>])

\* weighted_total: placeholders do not count.
WeightedTotal(scores) ==
  LET real == SelectSeq(scores, LAMBDA s : ~s.fallback)
  IN  Rules!ComputeWeighted([i \in DOMAIN real |-> <<real[i].score, real[i].weight>>])
RepoRiskLevel(score) == Rules!RiskLevel(score)

\* aggregate: one score an expert, in the order of a hash map (given).
Aggregate(scores, order, report) ==
  LET groups == SelectSeq([i \in DOMAIN order |-> SelectSeq(scores, LAMBDA s : s.name = order[i])], LAMBDA g : g # <<>>)
      merged == [i \in DOMAIN groups |-> MergeGroup(groups[i], report)]
  IN  [scores |-> merged, total |-> WeightedTotal(merged),
       findings |-> Truncated(MergeDeduplicate(FlattenSeq([i \in DOMAIN merged |-> merged[i].details])), MaxFindings)]

-----------------------------------------------------------------------------
(* The report.                                                             *)

IsHygieneFinding(d) == d.message[1] = Hygiene
ExpertIsHygieneOnly(details) == details # <<>> /\ \A i \in DOMAIN details : IsHygieneFinding(details[i])

\* convert_scores: the samples' range; the lead's summary.
SampleRange(s) == {<<Min(ToSet(x)), Max(ToSet(x))>> : x \in {y \in s.samples : y # <<>>}}
LeadSummary(scores) == {scores[i].summary : i \in {j \in DOMAIN scores : scores[j].name = "architecture"}}
TotalWeight(scores) == Max({1, FoldLeft(LAMBDA n, s : n + (IF s.fallback THEN 0 ELSE s.weight), 0, scores)})

\* build_score_breakdown, build_risk_categories, build_action_items, pick_top_risks.
ScoreBreakdown(scores) ==
  LET real == SelectSeq(scores, LAMBDA s : ~s.fallback)
  IN  [i \in DOMAIN real |-> [area |-> real[i].name, parts |-> real[i].score * real[i].weight, risk |-> RepoRiskLevel(real[i].score)]]
RiskCategories(scores) == SelectSeq(scores, LAMBDA s : s.details # <<>> /\ ~ExpertIsHygieneOnly(s.details))
ActionItems(scores) ==
  FlattenSeq([i \in DOMAIN scores |->
    LET grave == SelectSeq(scores[i].details, LAMBDA d : d.severity \in {"high", "critical"})
    IN  [k \in DOMAIN grave |-> [area |-> scores[i].name, item |-> grave[k]]]])
PickTopRisks(categories) ==
  Truncated(SortSeq([i \in DOMAIN categories |-> <<categories[i].name, categories[i].score>>], LAMBDA a, b : a[2] < b[2]), 5)
Recommendation(top) == IF top = <<>> THEN <<"nothing significant">> ELSE <<"prioritize">> \o [i \in DOMAIN top |-> top[i][1]]
\* build_languages: the three with the most files, equals as the hash map has them (here: any order).
BuildLanguages(languages) == Truncated(SortSeq(SetToSeq(DOMAIN languages), LAMBDA a, b : languages[a] > languages[b]), 3)

\* build_metadata: what the report was made from.  The tree hash is over the files in the order of their
\* names, so it is that set.
BuildMetadata(c) ==
  [head |-> c.head, tree |-> {<<f.name, Len(f.lines)>> : f \in ToSet(c.files)}, model |-> IF c.llm THEN "configured" ELSE "local-only",
   score_samples |-> ScoringSampleCount(c.n)]

\* strip_dropped_from_scores: as many of each (file, message, severity) stay as the verifier kept.
StripDropped(scores, kept) ==
  LET key(d) == LET f == ScoreItemToFinding(d) IN <<f.file, f.title, f.severity>>
      strip(acc, s) ==
        LET one(a, d) ==
              LET at == {i \in DOMAIN a.left : key(a.left[i]) = key(d)}
              IN  IF at = {} THEN a ELSE [left |-> RemoveAt(a.left, Min(at)), out |-> Append(a.out, d)]
            end == FoldLeft(one, [left |-> acc.left, out |-> <<>>], s.details)
        IN  IF s.name # "code_quality" THEN [acc EXCEPT !.scores = Append(@, s)]
            ELSE [left |-> end.left, scores |-> Append(acc.scores, [s EXCEPT !.details = end.out])]
  IN  FoldLeft(strip, [left |-> kept, scores |-> <<>>], scores).scores

-----------------------------------------------------------------------------
(* A review, pass by pass: [scores, total, reviewed, failures, dropped,    *)
(* verified].                                                              *)

\* run_static_experts: the six in their order; one that fails is a placeholder of 50.
FailedExpert(s, failing) == IF s.name \in failing THEN [Score(s.name, 50, <<>>) EXCEPT !.summary = <<"failed">>, !.fallback = TRUE] ELSE s
RunStaticExperts(c) ==
  FoldLeft(LAMBDA out, s : Append(out, FailedExpert(s, c.failing)), <<>>,
           <<CodeOrganization(c.organization), TestCoverage(c.files), Security(c.hits), Documentation(c.documentation),
             Dependency(c.locks, c.looks), CodeStyle(c.style)>>)
StaticPass(c) ==
  [scores |-> RunStaticExperts(c), total |-> 0, reviewed |-> 0, failures |-> <<>>, dropped |-> <<>>, verified |-> FALSE]

\* Pass 1, the architecture lead: a placeholder when the call failed.
Unavailable(name, loc, summary) ==
  [Score(name, LlmFallbackScore, <<>>) EXCEPT !.summary = summary, !.fallback = TRUE, !.loc = {loc}]
LeadPass(c, r) ==
  LET got == ArchitectureLead(c)
  IN  [r EXCEPT !.scores = Append(@, IF got = {} THEN Unavailable("architecture", c.loc, <<"unavailable">>) ELSE CHOOSE s \in got : TRUE)]

\* One chunk of pass 2: reviewed, or a failure that says why.  A chunk whose answer held no score keeps its
\* findings and says in its summary that it was not reviewed, once.
NotReviewed == "chunk not reviewed"
Prefixed(summary) == IF summary # <<>> /\ summary[1] = NotReviewed THEN summary ELSE <<NotReviewed>> \o summary
ChunkFailure(chunk, reason, code) == {[module |-> chunk.module, loc |-> chunk.loc, reason |-> reason, code |-> code]}
ReviewChunk(chunk, n) ==
  LET got == CodeQuality(chunk, n) IN
  IF got = {} THEN [score |-> Unavailable("code_quality", chunk.loc, <<NotReviewed, "unavailable">>), failure |-> ChunkFailure(chunk, "unavailable", {})]
  ELSE LET s == CHOOSE x \in got : TRUE
       IN  IF s.fallback THEN [score |-> [s EXCEPT !.summary = Prefixed(@)], failure |-> ChunkFailure(chunk, "not actionable", s.reason)]
           ELSE [score |-> s, failure |-> {}]

\* Fault: the failures stay in the order the chunks ended in.
FailuresAsTheyEnded(failures) == failures

\* Sorted by module, equals in the order they were recorded.
SortFailures(failures) ==
  LET before(i, j) == failures[i].module < failures[j].module \/ (failures[i].module = failures[j].module /\ i < j)
      order == SetToSortSeq(DOMAIN failures, before)
  IN  [k \in DOMAIN order |-> failures[order[k]]]

\* Pass 2: the chunks run at the same time and end in the order c.finish; the scores keep the order of the
\* chunks, a failure is recorded when its chunk ends.
ChunkPass(c, r) ==
  LET done == [i \in DOMAIN c.chunks |-> ReviewChunk(c.chunks[i], c.n)]
      recorded == FlattenSeq([k \in DOMAIN c.finish |-> SetToSeq(done[c.finish[k]].failure)])
  IN  [r EXCEPT !.scores = @ \o [i \in DOMAIN done |-> done[i].score], !.total = Len(c.chunks),
                !.reviewed = Len(c.chunks) - Len(recorded), !.failures = SortFailures(recorded)]

\* The verification of what the chunks found, if it is on and there is something: what the verifier refutes is
\* dropped with its reason and taken out of the scores.
VerifyPass(c, r) ==
  LET quality == SelectSeq(r.scores, LAMBDA s : s.name = "code_quality")
      sent == FlattenSeq([i \in DOMAIN quality |-> FilterNoise(quality[i].details)])
      part(in) == FlattenSeq([i \in DOMAIN sent |-> IF (i \in c.refuted) = in THEN <<sent[i]>> ELSE <<>>])
  IN  IF ~c.verify \/ sent = <<>> THEN r
      ELSE [r EXCEPT !.verified = TRUE, !.dropped = [i \in DOMAIN part(TRUE) |-> [item |-> part(TRUE)[i], reason |-> c.why]],
                     !.scores = IF part(TRUE) = <<>> THEN @ ELSE StripDropped(@, part(FALSE))]

\* build_output and build_output_from_aggregated.
BuildOutput(c, r, recommendation) ==
  LET health == WeightedTotal(r.scores)
      categories == RiskCategories(r.scores)
  IN  [overview |-> [health |-> health, risk |-> RepoRiskLevel(health), experts |-> Len(r.scores), languages |-> BuildLanguages(c.languages),
                     lead |-> LeadSummary(r.scores), breakdown |-> ScoreBreakdown(r.scores)],
       scores |-> r.scores, categories |-> categories, actions |-> ActionItems(r.scores),
       conclusion |-> [score |-> health, top |-> PickTopRisks(categories), recommendation |-> recommendation],
       dropped |-> r.dropped, verified |-> r.verified,
       chunks |-> [total |-> r.total, reviewed |-> r.reviewed, not_reviewed |-> Len(r.failures), failures |-> r.failures],
       metadata |-> BuildMetadata(c)]

\* run_local_repo_review: without a model, and without aggregating.
RunLocalRepoReview(c) == BuildOutput(c, StaticPass(c), <<"local analysis complete">>)

\* A repository review: run_repo_review when there is a model, run_local_repo_review otherwise; both its
\* callers choose so.
Aggregated(c, r) == [r EXCEPT !.scores = Aggregate(@, c.order, c.report).scores]
Concluded(c, r) == BuildOutput(c, r, Recommendation(PickTopRisks(RiskCategories(r.scores))))
RunRepoReview(c) ==
  IF c.llm THEN Concluded(c, Aggregated(c, VerifyPass(c, ChunkPass(c, LeadPass(c, StaticPass(c)))))) ELSE RunLocalRepoReview(c)

-----------------------------------------------------------------------------
(* Properties.                                                             *)

(* evaluate of the six: a finding that is not about hygiene costs points;   *)
(* the lines of tests are never more than the lines there are, and a        *)
(* repository that never says "test" gets nothing for them; each credential *)
(* is named with its file and what to do; a repository that is not audited  *)
(* is a placeholder and is told how to be, one with too much to audit is    *)
(* told a tool for each of its ecosystems.                                  *)
FindingsCost(c) ==
  LET tests == TestCoverage(c.files)
      deps == Dependency(c.locks, c.looks)
      security == Security(c.hits)
  IN  /\ \A s \in ToSet(RunStaticExperts(c)) : (\E d \in ToSet(s.details) : ~IsHygieneFinding(d)) => s.score < 100
      /\ \A f \in ToSet(c.files) : TestLoc(f) <= Len(f.lines)
      /\ (\A f \in ToSet(c.files) : f.words = {} /\ f.name # "go.mod" /\ ~f.test /\ ToSet(f.lines) \cap {"cfg", "tests"} = {}) => tests.score = 0
      /\ Len(security.details) = Len(c.hits)
      /\ \A i \in DOMAIN c.hits :
           /\ c.hits[i].file \in security.details[i].file
           /\ c.hits[i].pattern = "Private key" <=> "remove" \in ToSet(security.details[i].advice)
      /\ deps.fallback <=> \A l \in ToSet(c.locks) : CountDependencies(l) = {}
      /\ deps.fallback => \A d \in ToSet(deps.details) : ToSet(d.advice) \subseteq c.looks \cup {"any"}
      /\ ~deps.fallback => \A d \in ToSet(deps.details) : Len(d.advice) = Cardinality({l.kind : l \in {k \in ToSet(c.locks) : CountDependencies(k) # {}}})

(* run_repo_review: the health score is within the scores that were really  *)
(* given, and so is what its rows add up to; each chunk is either reviewed  *)
(* or listed, with its module, and an expert is a placeholder only when all *)
(* its chunks are; a severe finding is an action item; a median lies within *)
(* its samples; the risks named are the lowest; nothing in the report       *)
(* depends on the order in which the chunks ended; and no finding that the  *)
(* verifier dropped is left among those of the chunks unless it was found   *)
(* more often.                                                              *)
ReportIsHonest(c) ==
  \A out \in {RunRepoReview(c)} :
  LET real == {s \in ToSet(out.scores) : ~s.fallback}
      asked == {i \in DOMAIN c.chunks : c.llm}
      answered(i) == \E s \in CodeQuality(c.chunks[i], c.n) : ~s.fallback
      rows == FoldLeft(LAMBDA n, r : n + r.parts, 0, out.overview.breakdown)
      top == ToSet(out.conclusion.top)
      found(d) == Cardinality({p \in asked \X (1 .. 2) :
        \E s \in CodeQuality(c.chunks[p[1]], c.n) : p[2] \in DOMAIN s.details /\ ScoreItemToFinding(s.details[p[2]]).title = d.message})
  IN  /\ IF real = {} THEN out.overview.health = 0
         ELSE /\ Min({s.score : s \in real}) <= out.overview.health /\ out.overview.health <= Max({s.score : s \in real})
              /\ 2 * rows <= (2 * out.overview.health + 1) * TotalWeight(out.scores)
              /\ (2 * out.overview.health - 1) * TotalWeight(out.scores) <= 2 * rows
      /\ out.chunks.reviewed = Cardinality({i \in asked : answered(i)})
      /\ {f.module : f \in ToSet(out.chunks.failures)} = {c.chunks[i].module : i \in {k \in asked : ~answered(k)}}
      /\ \A s \in ToSet(out.scores) : s.name = "code_quality" => (s.fallback <=> \A i \in asked : ~answered(i))
      /\ \A s \in ToSet(out.scores) : \A d \in ToSet(s.details) :
           d.severity \in {"high", "critical"} => [area |-> s.name, item |-> d] \in ToSet(out.actions)
      /\ \A s \in ToSet(out.scores) : Len(s.details) <= Max({MaxFindings, Len(c.hits)})
      /\ \A s \in ToSet(out.scores) : s.name = "architecture" /\ s.samples # {} => \A r \in SampleRange(s) : r[1] <= s.score /\ s.score <= r[2]
      /\ \A t \in top, s \in ToSet(out.categories) : <<s.name, s.score>> \notin top => t[2] <= s.score
      /\ out = RunRepoReview([c EXCEPT !.finish = [i \in DOMAIN c.chunks |-> i]])
      /\ out.verified => c.verify
      /\ \A x \in ToSet(out.dropped) : found(x.item) > Cardinality({y \in DOMAIN out.dropped : out.dropped[y].item.message = x.item.message})
           \/ \A s \in ToSet(out.scores) : s.name = "code_quality" => \A d \in ToSet(s.details) : d.message # x.item.message

(* strip_dropped_from_scores: exactly what the verifier kept stays, however  *)
(* often the same finding was reported.                                      *)
StripIsExact(c) ==
  LET sent == FlattenSeq([i \in DOMAIN c.scores |-> c.scores[i].details])
      kept == FlattenSeq([i \in DOMAIN sent |-> IF i \in c.refuted THEN <<>> ELSE <<sent[i]>>])
      left == FlattenSeq([i \in DOMAIN c.scores |-> StripDropped(c.scores, kept)[i].details])
      times(s, d) == Cardinality({i \in DOMAIN s : ScoreItemToFinding(s[i]) = ScoreItemToFinding(d)})
  IN  \A d \in ToSet(sent) : times(left, d) = times(kept, d)
=============================================================================
