------------------------------ MODULE Reports -------------------------------
(***************************************************************************)
(* What a reader of a review is shown: the sections of the experts, the    *)
(* summary of the lead, the aggregated report and the appendix of dropped  *)
(* findings (output/), and the board they make up (publisher/board.rs).    *)
(*                                                                         *)
(* A text is a sequence of lines: "word", "secret" (a line that quotes a   *)
(* credential), "masked", "fence" (three backticks), "fence x" (and the    *)
(* name of a language), "fence 4" (four of them), and for answers of a     *)
(* model "map" (a mapping with the findings) and "bad" (what YAML          *)
(* refuses).  A document is a sequence of pieces [kind, about, text].  An  *)
(* optional value is a set of at most one.                                 *)
(***************************************************************************)
EXTENDS Integers, Sequences, FiniteSets, SequencesExt, FiniteSetsExt

CONSTANTS
  RawExcerpt,     \* RAW_RESPONSE_EXCERPT_CHARS, in lines
  RangesShown,    \* UNCOVERED_RANGES_SHOWN
  MaxYaml         \* MAX_YAML_SIZE, in lines

Piece(kind, about, text) == [kind |-> kind, about |-> about, text |-> text]
Say(cond, piece) == IF cond THEN <<piece>> ELSE <<>>

-----------------------------------------------------------------------------
(* Markdown.                                                               *)

FenceMarker(line) == CASE line \in {"fence", "fence x"} -> {"fence"} [] line = "fence 4" -> {line} [] OTHER -> {}

\* The fence that is still open at the end: one of the same length closes it, whatever
\* language it names.
OpenFence(text) ==
  LET step(open, line) ==
        CASE FenceMarker(line) = {} -> open
          [] open = {} -> FenceMarker(line)
          [] open = FenceMarker(line) -> {}
          [] OTHER -> open
  IN  FoldLeft(step, {}, text)

CloseUnclosedCodeFences(text) == text \o SetToSeq(OpenFence(text))

\* The outer fence goes when the text both begins and ends with one.
StripOuterFence(text) ==
  IF Len(text) >= 2 /\ FenceMarker(text[1]) # {} /\ Last(text) = "fence" THEN SubSeq(text, 2, Len(text) - 1) ELSE text

\* redact_text, line by line.
Masked(text) == [i \in DOMAIN text |-> IF text[i] = "secret" THEN "masked" ELSE text[i]]
Prose(text) == CloseUnclosedCodeFences(Masked(text))

-----------------------------------------------------------------------------
(* The report of one expert.                                               *)

RenderExpertMarkdown(name, findings) ==
  <<Piece("heading", name, <<>>)>> \o
  (IF findings = <<>> THEN <<Piece("no issues", name, <<>>)>>
   ELSE FlattenSeq([i \in DOMAIN findings |->
          <<Piece("finding", <<findings[i].id, findings[i].severity>>, Masked(findings[i].title)),
            Piece("summary", findings[i].id, Prose(findings[i].summary))>>]))

\* Fault: the prepared section is shown although the answer could not be parsed.
SectionAsPrepared(report) == report.markdown

\* render_expert_section: an answer that could not be parsed never reads as "no issues".
\* The answer itself is cut first and masked then, inside a fence of its own.
RenderExpertSection(report) ==
  LET failed == report.parse_error # {}
      raw == report.raw
      cut == Len(raw) > RawExcerpt
  IN  (IF failed /\ report.findings = <<>>
       THEN <<Piece("heading", report.name, <<>>), Piece("parse failed", report.name, <<>>)>>
       ELSE report.markdown)
      \o Say(failed /\ report.findings # <<>>, Piece("parse failed in part", report.name, <<>>))
      \o Say(failed \/ report.dump # {},
             Piece("raw answer", [cut |-> cut, full |-> report.dump], Masked(IF cut THEN SubSeq(raw, 1, RawExcerpt) ELSE raw)))

\* render_aggregated_markdown: the graver first; below medium, as they come.
RenderAggregatedMarkdown(findings) ==
  LET order(i) == IF findings[i].severity >= 2 THEN 4 - findings[i].severity ELSE 3
      sorted == SetToSortSeq(DOMAIN findings, LAMBDA i, j : order(i) < order(j) \/ (order(i) = order(j) /\ i < j))
  IN  <<Piece("heading", "report", <<>>)>>
      \o [k \in DOMAIN sorted |-> Piece("finding", <<findings[sorted[k]].id, findings[sorted[k]].severity>>, Masked(findings[sorted[k]].title))]
      \o Say(findings = <<>>, Piece("no issues", "report", <<>>))

-----------------------------------------------------------------------------
(* The answer of the aggregator.                                           *)

\* clean_yaml: what is inside the fences, or all of it when there is nothing inside.
CleanYaml(text) ==
  LET fence(l) == l \in {"fence", "fence x"}
      inside(i) == ~fence(text[i]) /\ Cardinality({j \in 1 .. i : fence(text[j])}) % 2 = 1
      kept == SelectSeq([i \in DOMAIN text |-> i], inside)
  IN  IF kept = <<>> THEN text ELSE [k \in DOMAIN kept |-> text[kept[k]]]

\* extract_first_fenced_yaml: the first block that is closed, with a line in it.
FirstFenced(text) ==
  LET blocks == {p \in (DOMAIN text) \X (DOMAIN text) : FenceMarker(text[p[1]]) # {} /\ FenceMarker(text[p[2]]) # {} /\ p[2] >= p[1] + 2}
      first == Min({p[1] : p \in blocks})
      last == Min({p[2] : p \in {q \in blocks : q[1] = first}})
  IN  IF blocks = {} THEN {} ELSE {SubSeq(text, first + 1, last - 1)}

\* What YAML makes of a text: a mapping, a scalar, or an error.
Yaml(text) ==
  LET has == ToSet(text) IN
  IF "bad" \in has \/ {"map", "word"} \subseteq has \/ \E l \in has : FenceMarker(l) # {} THEN "error"
  ELSE IF "map" \in has THEN "mapping" ELSE "scalar"

UnparsedAggregate(text) == [findings |-> <<>>, markdown |-> <<>>, parse_error |-> {"unreviewed"}, raw |-> text]
ParsedAggregate(text, findings) ==
  [findings |-> findings, markdown |-> RenderAggregatedMarkdown(findings), parse_error |-> {}, raw |-> text]

\* Fault: a block that is no mapping is an empty list of findings.
AggregateAnything(text, findings) ==
  ParsedAggregate(text, IF Yaml(CleanYaml(text)) = "mapping" THEN findings ELSE <<>>)

\* parse_aggregator_response: the text without its fences, else its first block; whatever
\* cannot be read is an empty report that says so.  Only the first reading insists on a
\* mapping: a block that is a scalar passes for a report without findings.
ParseAggregatorResponse(text, findings) ==
  LET listed(y) == IF y = "mapping" THEN findings ELSE <<>>
      first == Yaml(CleanYaml(text))
  IN  IF Len(text) > MaxYaml \/ first = "scalar" THEN UnparsedAggregate(text)
      ELSE IF first = "mapping" THEN ParsedAggregate(text, findings)
      ELSE LET block == FirstFenced(text) IN
           IF \A b \in block : Yaml(b) = "error" THEN UnparsedAggregate(text)
           ELSE ParsedAggregate(text, listed(Yaml(CHOOSE b \in block : TRUE)))

-----------------------------------------------------------------------------
(* The summary of the lead.                                                *)

\* The three reasons for which a result is called unverified, in the order they are tried.
Reason(c) ==
  IF c.assessment.coverage_insufficient THEN "insufficient coverage"
  ELSE IF c.adjudicated # <<>> THEN "all findings adjudicated away"
  ELSE "zero findings"

RiskLabel(c) == IF c.assessment.unverified THEN Reason(c) ELSE c.assessment.risk
UnverifiedNote(c) == Say(c.assessment.unverified, Piece("unverified", Reason(c), <<>>))

\* The pass is named when it did anything.
VerificationLine(c) ==
  FlattenSeq([i \in DOMAIN SetToSeq(c.stats) |->
    LET s == SetToSeq(c.stats)[i] IN Say(s.checked > 0 \/ s.skipped > 0 \/ s.dropped > 0, Piece("verification", s, <<>>))])

\* A report, not an expert, fails to parse: the names are listed once, the reports counted.
ParseFailures(c) ==
  LET names == ToSet(c.parse_status) IN
  Say(names # {}, Piece("parse failures",
        [reports |-> Len(c.parse_status), names |-> names,
         experts |-> IF Cardinality(names) = Len(c.parse_status) THEN {} ELSE {Cardinality(names)}], <<>>))

FileRouting(c) ==
  Say(c.total_files > 0, Piece("routing", [reviewed |-> c.reviewed_files, total |-> c.total_files, unassigned |-> c.unreviewed], <<>>))

\* debt_preview: the first spans and how many were left out; a limit of 0 is none.
DebtPreview(debt, most) ==
  IF most = 0 \/ Len(debt) <= most THEN [shown |-> debt, withheld |-> 0]
  ELSE [shown |-> SubSeq(debt, 1, most), withheld |-> Len(debt) - most]

\* TruncationSummary::from_reports: the reports that reached the cap, and what they declared.
AtCap(report, cap) == cap > 0 /\ report.listed >= cap
TruncationSummary(reports, cap) ==
  LET capped == SelectSeq(reports, LAMBDA r : AtCap(r, cap))
      declaring == {i \in DOMAIN capped : capped[i].omitted # {}}
  IN  [cap |-> cap, experts |-> capped, declaring |-> Cardinality(declaring),
       total |-> MapThenFoldSet(+, 0, LAMBDA i : CHOOSE n \in capped[i].omitted : TRUE, LAMBDA T : CHOOSE i \in T : TRUE, declaring)]

\* Fault: silence is reported as nothing omitted.
WarnWithZero(t) ==
  Say(t.experts # <<>>, Piece("truncated", [experts |-> t.experts, declared |-> {<<t.declaring, t.total>>}], <<>>))

\* render_truncation_warning: a sum of 0 is not shown, it may be silence.
TruncationWarning(t) ==
  Say(t.experts # <<>>,
      Piece("truncated", [experts |-> t.experts, declared |-> IF t.total > 0 THEN {<<t.declaring, t.total>>} ELSE {}], <<>>))

CoverageDetail(c) ==
  FlattenSeq([i \in DOMAIN SetToSeq(c.coverage) |->
    LET k == SetToSeq(c.coverage)[i]
        uncovered == IF k.total > k.covered THEN k.total - k.covered ELSE 0
    IN  <<Piece("coverage", [covered |-> k.covered, total |-> k.total, sufficient |-> 10 * k.covered >= 7 * k.total,
                             uncovered |-> uncovered, spans |-> Len(k.debt)], <<>>)>>
        \o Say(k.debt # <<>>, Piece("uncovered", DebtPreview(k.debt, RangesShown), <<>>))
        \o TruncationWarning(TruncationSummary(k.reports, k.cap))])

RenderRow(entry) ==
  Piece("injected", [source |-> entry.source,
                     status |-> IF entry.original = 0 THEN "stat failed" ELSE IF entry.truncated THEN "truncated" ELSE "full"], <<>>)

\* The severity an expert gave to the place of a conflict: of its first finding there.
SeverityOf(c, conflict, expert) ==
  LET its == SelectSeq(c.findings, LAMBDA f : f.expert = expert /\ f.file = conflict.file /\ f.line = conflict.line) IN
  IF its = <<>> THEN {} ELSE {its[1].severity}
RankOf(c, conflict, i) == LET s == SeverityOf(c, conflict, conflict.experts[i]) IN IF s = {} THEN 0 ELSE CHOOSE r \in s : TRUE

\* Fault: the last of the strictly graver positions is not compared with the best so far.
WinnerAboveFirst(c, conflict) ==
  FoldLeft(LAMBDA w, i : IF RankOf(c, conflict, i) > RankOf(c, conflict, 1) THEN i ELSE w, 1, [i \in DOMAIN conflict.experts |-> i])

\* The position at the highest severity, the first of equals; a note and no severity count
\* the same.
Winner(c, conflict) ==
  FoldLeft(LAMBDA w, i : IF RankOf(c, conflict, i) > RankOf(c, conflict, w) THEN i ELSE w, 1, [i \in DOMAIN conflict.experts |-> i])

Discussion(c, conflict) ==
  <<Piece("conflict", <<conflict.file, conflict.line>>, Masked(conflict.issue))>>
  \o [i \in DOMAIN conflict.experts |->
        Piece("position", <<conflict.experts[i], SeverityOf(c, conflict, conflict.experts[i])>>, Prose(conflict.resolutions[i]))]
  \o Say(conflict.experts # <<>>,
         LET w == Winner(c, conflict)
         IN  Piece("resolution", <<conflict.experts[w], SeverityOf(c, conflict, conflict.experts[w])>>, Prose(conflict.resolutions[w])))

AdjudicatedAway(c) ==
  FlattenSeq([i \in DOMAIN c.adjudicated |->
    LET f == c.adjudicated[i].finding
    IN  <<Piece("adjudicated", <<f.id, f.severity>>, Prose(f.title)), Piece("reason", f.id, Prose(c.adjudicated[i].reason))>>])

RenderLeadSummary(c) ==
  <<Piece("assessment", [score |-> c.assessment.score, risk |-> RiskLabel(c)], <<>>)>>
  \o UnverifiedNote(c) \o VerificationLine(c) \o ParseFailures(c) \o FileRouting(c) \o CoverageDetail(c)
  \o [i \in DOMAIN c.injected |-> RenderRow(c.injected[i])]
  \o <<Piece("tl_dr", "", Prose(c.assessment.tl_dr))>>
  \o FlattenSeq([i \in DOMAIN c.conflicts |-> Discussion(c, c.conflicts[i])])
  \o AdjudicatedAway(c)

-----------------------------------------------------------------------------
(* The appendix, the board and the report of a team.                       *)

\* render_dropped_findings_appendix_with_state: the list, and a word on the pass when it is
\* enabled; a pass that did not run is not said to have run.
DroppedAppendix(dropped, enabled, ran, checked) ==
  (IF enabled \/ dropped # <<>> THEN <<Piece("heading", "dropped", <<>>)>> ELSE <<>>)
  \o Say(enabled /\ ~ran /\ dropped = <<>>, Piece("pass skipped", "", <<>>))
  \o FlattenSeq([i \in DOMAIN dropped |->
       <<Piece("dropped", dropped[i].finding.id, Masked(dropped[i].finding.title)), Piece("reason", dropped[i].finding.id, Masked(dropped[i].reason))>>])
  \o Say(enabled /\ ran, Piece("pass ran", [checked |-> checked, dropped |-> Len(dropped)], <<>>))

\* render_board: every section that has something to say, in this order; the aggregated
\* report only when its text is not empty, so one that could not be parsed is not named.
RenderBoardOf(output, section) ==
  FlattenSeq([i \in DOMAIN output.reports |-> RenderExpertSection(output.reports[i])])
  \o FlattenSeq([i \in DOMAIN SetToSeq(output.consolidated) |-> RenderLeadSummary(SetToSeq(output.consolidated)[i])])
  \o FlattenSeq([i \in DOMAIN SetToSeq(output.aggregated) |-> SetToSeq(output.aggregated)[i].markdown])
  \o output.compliance \o section
  \o DroppedAppendix(output.dropped, FALSE, FALSE, 0)

\* generate_tldr of the team: the counts of the grave, or the unverified words.
TeamTlDr(findings) ==
  LET of(s) == Cardinality({i \in DOMAIN findings : findings[i].severity = s}) IN
  IF findings = <<>> THEN <<"nothing">>
  ELSE IF of(4) + of(3) + of(2) = 0 THEN <<"minor", Len(findings)>> ELSE <<"grave", of(4), of(3), of(2)>>

\* The weight of a report: the configured one, else an equal share in eight bits.
WeightOf(weights, name, reviewers) ==
  IF name \in DOMAIN weights THEN weights[name] ELSE 100 \div (Max({reviewers, 1}) % 256)

\* render_team_report_with_scoring: `metrics` counts the reviewers, `score` is what the
\* scoring makes of a report.
RenderTeamReport(reports, metrics, errors, weights, score) ==
  LET all == FlattenSeq([i \in DOMAIN reports |-> reports[i].findings])
      n == Len(metrics)
      total == FoldLeft(LAMBDA t, m : t + m.latency, 0, metrics)
      metric(name) == SelectSeq(metrics, LAMBDA m : m.name = name)
      one(f) == <<Piece("finding", <<f.id, f.severity>>, Masked(f.title))>>
                \o Say(f.evidence # <<>>, Piece("evidence", f.id, Masked(CloseUnclosedCodeFences(StripOuterFence(f.evidence)))))
                \o Say(f.impact # <<>>, Piece("impact", f.id, Prose(f.impact)))
                \o Say(f.advice # <<>>, Piece("recommendation", f.id, Prose(f.advice)))
      under(s) == FlattenSeq([i \in DOMAIN SelectSeq(all, LAMBDA f : f.severity = s) |-> one(SelectSeq(all, LAMBDA f : f.severity = s)[i])])
  IN  <<Piece("team", [reviewers |-> n, average |-> IF n > 0 THEN total \div n ELSE 0], <<>>), Piece("tl_dr", TeamTlDr(all), <<>>)>>
      \o [i \in DOMAIN reports |->
            Piece("reviewer", [name |-> reports[i].name, findings |-> Len(reports[i].findings),
                               latency |-> {metric(reports[i].name)[k].latency : k \in DOMAIN metric(reports[i].name) \cap {1}}], <<>>)]
      \o [i \in DOMAIN reports |->
            LET w == WeightOf(weights, reports[i].name, n)
            IN  Piece("score", [name |-> reports[i].name, weight |-> w, contribution |-> (2 * score[i] * w + 100) \div 200], <<>>)]
      \o under(4) \o under(3) \o under(2) \o under(1) \o under(0)
      \o [i \in DOMAIN errors |-> Piece("error", errors[i], <<>>)]
      \o <<Piece("footer", [findings |-> Len(all), errors |-> Len(errors)], <<>>)>>

-----------------------------------------------------------------------------
(* The report of a repository review (actions/repo_review/render.rs).      *)

\* Fault: the advice is shown as the model gave it.
DetailUnmasked(d) ==
  Say(d.message[1] # "", Piece("detail", d.message, Masked(<<d.message[1]>>))) \o Say(d.advice # <<>>, Piece("recommendation", d.message, d.advice))

\* render_detail: nothing for an empty message.
RenderDetail(d) ==
  LET evidence == CloseUnclosedCodeFences(Masked(StripOuterFence(d.evidence))) IN
  IF d.message[1] = "" THEN <<>>
  ELSE <<Piece("detail", d.message, Masked(<<d.message[1]>>))>> \o Say(d.file # {}, Piece("file", d.file, <<>>))
       \o Say(StripOuterFence(d.evidence) # <<>>, Piece("evidence", d.message, evidence))
       \o Say(d.impact # <<>>, Piece("impact", d.message, Masked(d.impact))) \o Say(d.advice # <<>>, Piece("recommendation", d.message, Masked(d.advice)))
       \o Say(d.effort # "", Piece("effort", d.effort, <<>>))

\* The scope, the provenance, the overview with its rows, the summary of the lead.
RenderRepoHead(out) ==
  <<Piece("scope", "", <<>>), Piece("provenance", out.metadata, <<>>), Piece("overview", out.overview.health, <<>>)>>
  \o [i \in DOMAIN out.overview.breakdown |-> Piece("row", out.overview.breakdown[i].area, <<>>)]
  \o <<Piece("total", out.overview.health, <<>>)>>
  \o [i \in DOMAIN SetToSeq(out.overview.lead) |-> Piece("lead", "", Masked(SetToSeq(out.overview.lead)[i]))]

\* render_repo_review_output in Markdown: a placeholder says so, and the pass that verifies says whether it ran.
\* What it calls checked is what is left of the chunks' findings and what was dropped.  The reasons of the
\* failures are kinds of text the engine wrote.
RenderRepoReport(out, enabled) ==
  LET quality == SelectSeq(out.scores, LAMBDA s : s.name = "code_quality")
      checked == FoldLeft(LAMBDA n, s : n + Len(s.details), Len(out.dropped), quality)
  IN  RenderRepoHead(out)
      \o FlattenSeq([i \in DOMAIN out.scores |->
           LET s == out.scores[i]
           IN  <<Piece("expert", [name |-> s.name, score |-> s.score, fallback |-> s.fallback, findings |-> Len(s.details)], Masked(s.summary))>>
               \o FlattenSeq([k \in DOMAIN s.details |-> RenderDetail(s.details[k])])])
      \o [i \in DOMAIN out.categories |-> Piece("risk", out.categories[i].name, <<>>)]
      \o [i \in DOMAIN out.actions |->
            Piece("action", out.actions[i].item.message, Masked(<<out.actions[i].item.message[1]>> \o out.actions[i].item.advice))]
      \o <<Piece("conclusion", out.conclusion.score, Masked(out.conclusion.recommendation))>>
      \o [i \in DOMAIN out.conclusion.top |-> Piece("top", out.conclusion.top[i], <<>>)]
      \o Say(out.chunks.total > 0, Piece("chunks", [total |-> out.chunks.total, reviewed |-> out.chunks.reviewed, not_reviewed |-> out.chunks.not_reviewed], <<>>))
      \o [i \in DOMAIN out.chunks.failures |-> Piece("failure", <<out.chunks.failures[i].module, out.chunks.failures[i].code>>, <<out.chunks.failures[i].reason>>)]
      \o DroppedAppendix([i \in DOMAIN out.dropped |->
                           [finding |-> [id |-> out.dropped[i].item.message, title |-> <<out.dropped[i].item.message[1]>>], reason |-> out.dropped[i].reason]],
                         enabled, out.verified, checked)

-----------------------------------------------------------------------------
(* What a reader may rely on.                                              *)

Pieces(doc, kind) == {doc[i] : i \in {j \in DOMAIN doc : doc[j].kind = kind}}
About(doc, kind) == {p.about : p \in Pieces(doc, kind)}
NoSecret(doc) == \A p \in ToSet(doc) : "secret" \notin ToSet(p.text)
FencesClosed(doc) == \A p \in ToSet(doc) : p.kind # "raw answer" => OpenFence(p.text) = {}
Ids1(findings) == {findings[i].id : i \in DOMAIN findings}

\* No credential that the model quoted and no open fence reaches the board; every finding of
\* an expert, every dropped and every adjudicated one is on it; an expert whose answer could
\* not be read is named as failed and never as having found nothing.
BoardIsHonest(c) ==
  LET board == RenderBoardOf(c.output, <<>>)
      reports == ToSet(c.output.reports)
  IN  /\ NoSecret(board) /\ FencesClosed(board)
      /\ \A r \in reports : Ids1(r.findings) \subseteq {a[1] : a \in About(board, "finding")}
      /\ \A r \in reports : r.parse_error # {} => r.name \in About(board, "parse failed") \cup About(board, "parse failed in part")
      /\ About(board, "no issues") \subseteq {r.name : r \in {x \in reports : x.findings = <<>> /\ x.parse_error = {}}} \cup {"report"}
      /\ {d.finding.id : d \in ToSet(c.output.dropped)} = About(board, "dropped")
      /\ \A k \in c.output.consolidated : {a.finding.id : a \in ToSet(k.adjudicated)} = {a[1] : a \in About(board, "adjudicated")}

\* The report of a repository: no credential that a model quoted and no open fence is in it; every expert
\* is there with its score, and a placeholder is marked and is in no row of the breakdown; every finding,
\* every action, every chunk that was not reviewed and every dropped finding is there; and the pass that
\* verifies is said to have run only if it did, over no more than the chunks had found.
RepoReportIsWhole(out, enabled, sent) ==
  LET doc == RenderRepoReport(out, enabled) IN
  /\ NoSecret(doc) /\ FencesClosed(doc)
  /\ \A s \in ToSet(out.scores) :
       /\ [name |-> s.name, score |-> s.score, fallback |-> s.fallback, findings |-> Len(s.details)] \in About(doc, "expert")
       /\ s.fallback <=> s.name \notin About(doc, "row")
       /\ \A d \in ToSet(s.details) : d.message \in About(doc, "detail") /\ (d.severity \in {"high", "critical"} => d.message \in About(doc, "action"))
  /\ \A a \in About(doc, "chunks") : a.reviewed + a.not_reviewed = a.total /\ a.not_reviewed = Cardinality(About(doc, "failure"))
  /\ {d.item.message : d \in ToSet(out.dropped)} = About(doc, "dropped")
  /\ Pieces(doc, "pass ran") # {} <=> enabled /\ out.verified
  /\ \A a \in About(doc, "pass ran") : a.checked <= sent /\ a.dropped = Len(out.dropped)

\* The summary of the lead never shows an unverified result as a level of risk and names the
\* reason; it counts the reports that could not be read and names their experts; spans shown
\* and spans withheld are the whole debt; nobody's silence is a number; the position that is
\* adopted in a conflict is of the highest severity anyone gave to the place.
SummaryIsHonest(c) ==
  LET doc == RenderLeadSummary(c)
      label == CHOOSE a \in About(doc, "assessment") : TRUE
      insufficient == \E k \in c.coverage : 10 * k.covered < 7 * k.total
  IN  /\ NoSecret(doc) /\ FencesClosed(doc)
      /\ label.risk \in {"low", "high"} <=> ~c.assessment.unverified
      /\ c.assessment.unverified => label.risk \in About(doc, "unverified")
      /\ label.risk = "zero findings" => c.adjudicated = <<>>
      /\ \A a \in About(doc, "parse failures") : a.reports = Len(c.parse_status) /\ a.names = ToSet(c.parse_status)
      /\ c.parse_status # <<>> => About(doc, "parse failures") # {}
      /\ \A a \in About(doc, "coverage") : ~a.sufficient <=> insufficient
      /\ \A k \in c.coverage :
           /\ k.debt # <<>> => \E a \in About(doc, "uncovered") : IsPrefix(a.shown, k.debt) /\ Len(a.shown) + a.withheld = Len(k.debt)
           /\ \A r \in ToSet(k.reports) : k.cap > 0 /\ r.listed >= k.cap => \E a \in About(doc, "truncated") : r \in ToSet(a.experts)
           /\ \A a \in About(doc, "truncated") : \A d \in a.declared : \E r \in ToSet(a.experts) : \E n \in r.omitted : n > 0
      /\ \A k \in ToSet(c.conflicts) :
           \E a \in About(doc, "resolution") :
             /\ a[1] \in ToSet(k.experts)
             /\ \A f \in ToSet(c.findings) :
                  f.expert \in ToSet(k.experts) /\ f.file = k.file /\ f.line = k.line /\ f.severity > 0
                    /\ f = SelectSeq(c.findings, LAMBDA g : g.expert = f.expert /\ g.file = f.file /\ g.line = f.line)[1]
                  => \E s \in a[2] : s >= f.severity

\* An answer of the aggregator is read as it was meant or is reported as not read: findings
\* are shown only from a mapping, the graver first; an answer that is a mapping, bare or in its
\* first fence, is never lost; prose without a block, and what YAML cannot read at all, is never
\* a report without findings.
AggregateIsHonest(c) ==
  LET got == ParseAggregatorResponse(c.text, c.findings)
      shown == SelectSeq(got.markdown, LAMBDA p : p.kind = "finding")
  IN  /\ got.findings # <<>> => "map" \in ToSet(c.text) /\ got.parse_error = {}
      /\ got.parse_error = {} <=> got.markdown # <<>>
      /\ (ToSet(c.text) = {"map"} /\ Len(c.text) <= MaxYaml) \/ (ToSet(c.text) \subseteq {"map", "fence"} /\ Len(c.text) = 3 /\ c.text[2] = "map" /\ c.text[1] = "fence")
           => got.findings = c.findings
      /\ {"map", "word"} \cap ToSet(c.text) = {} \/ ToSet(c.text) \subseteq {"word", "bad"} => got.parse_error # {}
      /\ NoSecret(got.markdown)
      /\ {p.about[1] : p \in ToSet(shown)} = Ids1(got.findings)
      /\ \A i, j \in DOMAIN shown : i < j /\ shown[j].about[2] >= 2 => shown[i].about[2] >= shown[j].about[2]

\* The report of a team shows each finding once, under its severity, without credentials and
\* open fences, and its counts are those of the reports; equal shares never exceed the whole.
TeamReportAddsUp(c) ==
  LET doc == RenderTeamReport(c.reports, c.metrics, c.errors, c.weights, c.score)
      found == SelectSeq(doc, LAMBDA p : p.kind = "finding")
      count == FoldLeft(LAMBDA n, r : n + Len(r.findings), 0, c.reports)
  IN  /\ NoSecret(doc) /\ FencesClosed(doc)
      /\ Len(found) = count
      /\ UNION {Ids1(r.findings) : r \in ToSet(c.reports)} = {p.about[1] : p \in ToSet(found)}
      /\ \A i, j \in DOMAIN found : i < j => found[i].about[2] >= found[j].about[2]
      /\ About(doc, "footer") = {[findings |-> count, errors |-> Len(c.errors)]}
      /\ c.weights = <<>> /\ Len(c.reports) <= Len(c.metrics) =>
           FoldLeft(LAMBDA n, p : n + (IF p.kind = "score" THEN p.about.weight ELSE 0), 0, doc) <= 100
=============================================================================
