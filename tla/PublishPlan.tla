---------------------------- MODULE PublishPlan -----------------------------
(***************************************************************************)
(* Which findings become inline notes, and where (publisher/policy.rs and  *)
(* publisher/mod.rs): the delivery policy, the lines of the diff a note    *)
(* can be anchored to, and the plan of one round.                          *)
(*                                                                         *)
(* Files, experts and titles are compared when candidates are ranked: they *)
(* are numbers, in alphabetical order (a title is a pair of them).         *)
(***************************************************************************)
EXTENDS FindingPasses

CONSTANTS
  PathOf         \* file -> its path, [lead, dirs, name]; a name is in words and separators

-----------------------------------------------------------------------------
(* The policy.                                                             *)

DefaultPolicy == [min_severity |-> 3, min_confidence |-> 8, require_advice |-> TRUE, cap |-> 2, docs |-> FALSE]

\* apply_overrides: a variable of the environment that cannot be read is ignored.
ApplyOverrides(env) ==
  [min_severity |-> OrElse(UNION {ParseSeverityLabel(s) : s \in env.severity}, DefaultPolicy.min_severity),
   min_confidence |-> OrElse({c \in env.confidence : c \in 0 .. 10}, DefaultPolicy.min_confidence),
   require_advice |-> DefaultPolicy.require_advice,
   cap |-> OrElse({n \in env.cap : n >= 0}, DefaultPolicy.cap),
   docs |-> OrElse({b \in env.docs : b \in BOOLEAN}, DefaultPolicy.docs)]

Admits(policy, f) ==
  /\ f.severity >= policy.min_severity
  /\ f.confidence >= policy.min_confidence
  /\ policy.require_advice => f.advice # 0

AllowsInlineFor(policy, docsOnly) == ~docsOnly \/ policy.docs

DocExtension == {"md", "mdx", "rst", "adoc", "asciidoc"}
DocDir == {"docs", "doc", "documentation", "man"}
CiDir == {".github", ".gitlab", ".circleci", ".buildkite", ".woodpecker", ".travis", ".ci", "ci"}
CiFileName ==
  {<<name, ".", ext>> : name \in {".gitlab-ci", ".travis", "azure-pipelines", "appveyor", ".woodpecker"}, ext \in {"yml", "yaml"}}
    \cup {<<name, ".", "yml">> : name \in {".drone", "buildkite", "codecov", ".codecov"}} \cup {<<"jenkinsfile">>}
LegalFileName == {"license", "licence", "copying", "notice", "authors", "contributors"}

\* is_docs_or_ci_path, of a path in lower case.  A leading "./" is ignored, a leading "/" is
\* not: it hides the directory that marks continuous integration.
IsDocsOrCiPath(path) ==
  LET name == path.name IN
  /\ name # <<>>
  /\ \/ Len(name) > 1 /\ name[Len(name) - 1] = "." /\ Last(name) \in DocExtension
     \/ ToSet(path.dirs) \cap DocDir # {}
     \/ name[1] \in LegalFileName /\ (Len(name) = 1 \/ name[2] \in {"-", "."})
     \/ path.lead \in {"", "./"} /\ path.dirs # <<>> /\ path.dirs[1] \in CiDir
     \/ name \in CiFileName

IsDocsOrCiOnly(files) == files # {} /\ \A f \in files : IsDocsOrCiPath(PathOf[f])

\* is_safe_inline_path: nothing outside the repository.
IsSafeInlinePath(path) == path.lead \notin {"/", "~"} /\ ".." \notin ToSet(path.dirs) \cup ToSet(path.name)

\* PublishPolicy::describe: the rules the board names.
Describe(policy) ==
  [severity |-> policy.min_severity, cap |-> policy.cap,
   confidence |-> IF policy.min_confidence > 0 THEN {policy.min_confidence} ELSE {},
   says |-> (IF policy.require_advice THEN {"advice"} ELSE {}) \cup (IF policy.docs THEN {} ELSE {"docs are summary only"})]

-----------------------------------------------------------------------------
(* DiffIndex.                                                              *)

\* push_run: a line joins the run before it when it follows it with the same shift.
PushRun(runs, line, shift) ==
  IF line < 1 THEN runs
  ELSE IF runs # <<>> /\ Last(runs).last + 1 = line /\ Last(runs).shift = shift
  THEN [runs EXCEPT ![Len(runs)].last = line]
  ELSE Append(runs, [first |-> line, last |-> line, shift |-> shift])

\* Fault: a removed line does not move the old side on.
LineRunsNoRemoved(file) ==
  LET step(w, mark) ==
        CASE mark = "+" -> [w EXCEPT !.new = @ + 1, !.runs = PushRun(@, w.new, {})]
          [] mark \in {"-", "\\"} -> w
          [] OTHER -> [old |-> w.old + 1, new |-> w.new + 1, runs |-> PushRun(w.runs, w.new, {w.old - w.new})]
      hunkRuns(runs, h) == FoldLeft(step, [old |-> h.old_start, new |-> h.new_start, runs |-> runs], h.lines).runs
  IN  FoldLeft(hunkRuns, <<>>, file.hunks)

\* line_runs: the lines of the new side, with the distance to their line on the old side
\* when they have one.
LineRuns(file) ==
  LET step(w, mark) ==
        CASE mark = "+" -> [w EXCEPT !.new = @ + 1, !.runs = PushRun(@, w.new, {})]
          [] mark = "-" -> [w EXCEPT !.old = @ + 1]
          [] mark = "\\" -> w
          [] OTHER -> [old |-> w.old + 1, new |-> w.new + 1, runs |-> PushRun(w.runs, w.new, {w.old - w.new})]
      hunkRuns(runs, h) == FoldLeft(step, [old |-> h.old_start, new |-> h.new_start, runs |-> runs], h.lines).runs
  IN  FoldLeft(hunkRuns, <<>>, file.hunks)

\* DiffIndex::from_diff, the runs of the files that have any.
FromDiff(diff) ==
  [f \in {diff[i].path : i \in {j \in DOMAIN diff : LineRuns(diff[j]) # <<>>}} |->
     LineRuns(diff[CHOOSE i \in DOMAIN diff : diff[i].path = f])]

RunFor(index, file, line) ==
  IF file \notin DOMAIN index THEN {}
  ELSE {r \in ToSet(index[file]) : Within(line, <<r.first, r.last>>)}

\* DiffIndex::anchor_for: the old line goes with it when the line is context.
AnchorFor(index, file, line) ==
  {[file |-> file, line |-> line,
    old |-> {line + s : s \in {x \in r.shift : line + x >= 1}}] : r \in RunFor(index, file, line)}

-----------------------------------------------------------------------------
(* The plan.                                                               *)

NoIndex == {}

\* rank_inline_candidates_cmp, made total by the position.
Outranks(f, g) ==
  LET key(x) == <<-x.severity, -x.confidence, x.file, OrElse(x.line, LineSpan - 1), x.title[1], x.title[2], x.expert>>
      first == {i \in 1 .. 7 : key(f)[i] # key(g)[i]}
  IN  first # {} /\ key(f)[Min(first)] < key(g)[Min(first)]

\* plan_inline_notes: `index` is a set with the DiffIndex, or empty without one.
PlanInlineNotes(findings, index, docsOnly, policy) ==
  LET all == DOMAIN findings
      admitted == {i \in all : Admits(policy, findings[i])}
      lined == {i \in admitted : findings[i].line # {}}
      anchored(i) == \A x \in index : RunFor(x, findings[i].file, OrElse(findings[i].line, 0)) # {}
      candidates == {i \in lined : IsSafeInlinePath(PathOf[findings[i].file]) /\ anchored(i)}
      before(i, j) == \/ Outranks(findings[i], findings[j])
                      \/ ~Outranks(findings[j], findings[i]) /\ i < j
      ranked == SetToSortSeq(candidates, before)
      found == Cardinality(candidates)
      room == IF ~AllowsInlineFor(policy, docsOnly) THEN 0 ELSE IF found < policy.cap THEN found ELSE policy.cap
  IN  [considered |-> Len(findings), docs_only |-> docsOnly,
       excluded |-> Cardinality(all \ admitted),
       not_eligible |-> Cardinality(admitted \ lined),
       skipped |-> Cardinality(lined \ candidates),
       selected |-> LET chosen == SetToSortSeq({ranked[i] : i \in 1 .. room}, <)
                    IN  [i \in 1 .. room |-> findings[chosen[i]]],
       rolled_up |-> [i \in 1 .. (found - room) |-> findings[ranked[room + i]]],
       index |-> index]

\* has_inline_candidates: whether it is worth fetching the diff.
HasInlineCandidates(findings, policy) ==
  \E f \in ToSet(findings) : Admits(policy, f) /\ f.line # {}

\* inline_anchor: the range when it ends after it starts.
InlineAnchor(f) == <<f.file, f.line, IF \E l \in f.line, e \in f.end : e > l THEN f.end ELSE {}>>

\* format_inline_body: the place is in the words too, so that two notes that differ in the
\* file only can be told apart.
FormatInlineBody(f) == <<f.expert, f.title, f.confidence, InlineAnchor(f), f.advice>>

\* InlinePlan::board_section: what the board says of the delivery.
BoardSection(plan, policy) ==
  IF plan.rolled_up = <<>> /\ ~plan.docs_only THEN {}
  ELSE {[policy |-> Describe(policy), summary_only |-> plan.docs_only,
         why |-> IF plan.docs_only THEN "withheld" ELSE "over the cap",
         listed |-> [i \in DOMAIN plan.rolled_up |-> <<plan.rolled_up[i].severity, InlineAnchor(plan.rolled_up[i]), plan.rolled_up[i].title>>]]}

-----------------------------------------------------------------------------
(* A note the forge did not take.  An error is the sequence of its causes; *)
(* a cause is [typed, status, says, marker]: whether it is the forge's own *)
(* verdict and its status, the status its text names, and whether the text *)
(* has one of the phrases of a broken connection.                          *)

\* http_status_code: three digits after the word "returned".
HttpStatusCode(cause) == {n \in cause.says : n \in 100 .. 999}

\* http_status_verdict: the status of a verdict before one that is only in the text.
HttpStatusVerdict(err) ==
  LET typed == {i \in DOMAIN err : err[i].typed /\ err[i].status # {}}
      said == {i \in DOMAIN err : HttpStatusCode(err[i]) # {}}
  IN  IF typed # {} THEN err[Min(typed)].status ELSE IF said # {} THEN HttpStatusCode(err[Min(said)]) ELSE {}

\* Fault: the text of the answer decides, whatever its status.
RetryByMarker(err) == \E c \in ToSet(err) : c.marker

\* is_transient_error: 408, 429 and 5xx; the text counts only without a verdict.
IsTransientError(err) ==
  LET verdict == HttpStatusVerdict(err) IN
  IF verdict # {} THEN verdict \subseteq {408, 429} \cup 500 .. 599 ELSE \E c \in ToSet(err) : c.marker

\* inline_note_failure_detail: the first cause that is a verdict (with or without a status)
\* or names a status.
FailureStatus(err) ==
  LET telling == {i \in DOMAIN err : err[i].typed \/ HttpStatusCode(err[i]) # {}} IN
  IF telling = {} THEN {}
  ELSE LET c == err[Min(telling)] IN IF c.typed THEN c.status ELSE HttpStatusCode(c)

\* The failure of the note at a place of the plan.
InlineNoteFailure(at, f, err) == [at |-> at, anchor |-> InlineAnchor(f), status |-> FailureStatus(err)]

\* render_inline_failure_section: one line for each failure, or nothing.
RenderInlineFailureSection(failures) ==
  [i \in DOMAIN failures |-> [anchor |-> failures[i].anchor,
                              verdict |-> IF failures[i].status = {} THEN "no HTTP verdict" ELSE "HTTP"]]
=============================================================================
