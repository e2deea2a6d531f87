--------------------------- MODULE FindingPasses ----------------------------
(***************************************************************************)
(* What happens to a finding between the answer of an expert and the list  *)
(* that is published: parsing (output/parser.rs), validation against the   *)
(* diff, the verification pass (team/verifier.rs), the feedback filter     *)
(* (team/orchestrator/validation.rs), the consolidation                    *)
(* (team/lead_consolidator.rs) and the adjudication (team/adjudicator.rs); *)
(* then which changed lines the review demonstrably looked at              *)
(* (coverage/mod.rs) and the score that goes with its findings             *)
(* (scoring/review.rs), in integer arithmetic.                             *)
(* The passes are pure once the answers of the model are given; the order  *)
(* in which a review runs them is that of ReviewRound.                     *)
(*                                                                         *)
(* A severity is its rank, 0 (note) to 4 (critical).  An optional value is *)
(* a set of at most one element.  A title is <<words, spelling>>.          *)
(***************************************************************************)
EXTENDS Subsequences, SequencesExt, FiniteSetsExt

CONSTANTS
  VerifyBatch,       \* MAX_FINDINGS_PER_BATCH of the verifier
  AdjudicateBatch,   \* MAX_FINDINGS_PER_BATCH of the adjudicator
  LineSpan,          \* how many numbers a line number can be (2^32 in the code)
  Penalty,           \* PenaltyConfig: severity -> points
  Threshold,         \* RiskThresholdConfig: [critical, high, medium, low, healthy]
  Consensus          \* ScoringConfig::consensus_threshold

ASSUME BatchAssumption == {VerifyBatch, AdjudicateBatch, LineSpan} \subseteq Nat \ {0}

Severity == 0 .. 4
Label == <<"note", "low", "medium", "high", "critical">>

OrElse(option, default) == IF option = {} THEN default ELSE CHOOSE x \in option : TRUE

\* parse_severity_label: a known label, or nothing.
ParseSeverityLabel(label) == {rank \in Severity : Label[rank + 1] = label}

\* parse_min_severity: an unknown floor is read as high.
ParseMinSeverity(value) == OrElse(ParseSeverityLabel(value), 3)

-----------------------------------------------------------------------------
(* Answers of the experts.                                                 *)

\* extract_findings: a missing or unknown severity is medium, a missing confidence 5; the
\* numbers keep the width of the fields they are cast to.
ExtractFinding(issue, expert) ==
  [id |-> issue.id, expert |-> expert, file |-> issue.file,
   line |-> {l % LineSpan : l \in issue.line}, end |-> {l % LineSpan : l \in issue.end},
   severity |-> OrElse(UNION {ParseSeverityLabel(s) : s \in issue.severity}, 2),
   confidence |-> OrElse({c % 256 : c \in issue.confidence}, 5),
   title |-> issue.title, advice |-> issue.advice, leak |-> issue.leak,
   outside |-> FALSE, agrees |-> <<>>]

\* parse_llm_response: an answer that is YAML, as a whole or in its first fenced block, is
\* a report, even when it is no mapping at all; anything else is a report without findings
\* that carries the error.
ParseLlmResponse(expert, answer) ==
  LET issues == IF answer.shape \in {"mapping", "fenced"} THEN answer.issues ELSE <<>> IN
  [expert |-> expert,
   findings |-> [i \in DOMAIN issues |-> ExtractFinding(issues[i], expert)],
   omitted |-> answer.omitted,
   unparsed |-> answer.shape \in {"garbage", "oversized"}]

\* hunk_new_range: the new side of a hunk, unless it only removes lines.
HunkNewRange(hunk) ==
  IF hunk.new_lines = 0 THEN {} ELSE {<<hunk.new_start, hunk.new_start + hunk.new_lines - 1>>}

Within(line, range) == range[1] <= line /\ line <= range[2]

\* validate_findings: a finding about a file that is not in the diff goes; one outside
\* every hunk stays and is marked.
ValidateFindings(findings, diff) ==
  LET hunks(f) == UNION {ToSet(diff[i].hunks) : i \in {j \in DOMAIN diff : diff[j].path = f.file}}
      inHunk(f) == \A l \in f.line : \E h \in hunks(f) : \E r \in HunkNewRange(h) : Within(l, r)
      known == Subsequence(findings, {k \in DOMAIN findings : \E i \in DOMAIN diff : diff[i].path = findings[k].file})
  IN  [i \in DOMAIN known |-> [known[i] EXCEPT !.outside = ~inHunk(known[i])]]

-----------------------------------------------------------------------------
(* Batches.  A position is <<report, finding>> in the verifier and an index*)
(* of the consolidated list in the adjudicator.                            *)

\* The positions of `items` grouped by file, files in the order they are first seen.
GroupByFile(items, fileOf) ==
  LET of(i) == {j \in DOMAIN items : fileOf[items[j]] = fileOf[items[i]]}
      groups == [i \in DOMAIN items |-> Subsequence(items, of(i))]
  IN  Subsequence(groups, {i \in DOMAIN items : \A j \in of(i) : i <= j})

\* slice::chunks.
Chunks(s, n) == [b \in 1 .. ((Len(s) + n - 1) \div n) |->
                   Subsequence(s, {i \in DOMAIN s : (i - 1) \div n = b - 1})]

Positions(reports) ==
  FlattenSeq([r \in DOMAIN reports |-> [f \in DOMAIN reports[r].findings |-> <<r, f>>]])

\* verify_with_llm: the batches, in the order they are sent.
VerifierBatches(reports) ==
  LET all == Positions(reports)
      groups == GroupByFile(all, [p \in ToSet(all) |-> reports[p[1]].findings[p[2]].file])
  IN  FlattenSeq([g \in DOMAIN groups |-> Chunks(groups[g], VerifyBatch)])

\* parse_verdict_entries: entries without an index are left out.
ParseVerdictEntries(answer) ==
  Subsequence(answer.entries, {i \in DOMAIN answer.entries : answer.entries[i].index # {}})

TheIndex(entry) == OrElse(entry.index, 0)

\* Fault: the indices of the answer count from one.
NamedFromOne(batch, entries, verdicts) ==
  {batch[TheIndex(e)] : e \in {x \in ToSet(entries) :
     x.verdict \in verdicts /\ TheIndex(x) \in DOMAIN batch}}

\* The positions of the batch an answer speaks of (indices count from zero; others are
\* ignored).
Named(batch, entries, verdicts) ==
  {batch[TheIndex(e) + 1] : e \in {x \in ToSet(entries) :
     x.verdict \in verdicts /\ TheIndex(x) < Len(batch)}}

\* One batch of verify_with_llm: only an explicit "drop" marks a finding, and a batch that
\* fails, cannot be parsed or decides nothing is counted as skipped.
VerifierMarks(batch, answer) ==
  IF answer.kind = "list" THEN Named(batch, ParseVerdictEntries(answer), {"drop"}) ELSE {}
VerifierSkips(answer) == answer.kind # "list" \/ ParseVerdictEntries(answer) = <<>>

\* The findings at marked positions leave their reports; the others keep their order.
WithoutMarked(reports, marks) ==
  [r \in DOMAIN reports |->
     [reports[r] EXCEPT !.findings = Subsequence(@, {f \in DOMAIN @ : <<r, f>> \notin marks})]]

Marked(reports, marks) ==
  LET all == Positions(reports)
      gone == Subsequence(all, {k \in DOMAIN all : all[k] \in marks})
  IN  [i \in DOMAIN gone |-> reports[gone[i][1]].findings[gone[i][2]]]

-----------------------------------------------------------------------------
(* Feedback.                                                               *)

\* Finding::fingerprint: where it is and what it is called (the category, which is part of
\* it too, goes with the title here).
Fingerprint(f) == <<f.file, f.line, f.title>>

\* load_false_positive_fingerprints_from: the latest verdict on a fingerprint counts, the
\* later entry of the file when two are equally old.
FalsePositives(entries) ==
  LET newest(i) == \A j \in DOMAIN entries : entries[j].print = entries[i].print =>
        \/ entries[j].at < entries[i].at
        \/ entries[j].at = entries[i].at /\ j <= i
  IN  {entries[i].print : i \in {k \in DOMAIN entries : newest(k) /\ entries[k].verdict = "false_positive"}}

\* filter_feedback_false_positives, as marks.
FeedbackMarks(reports, prints) ==
  {p \in ToSet(Positions(reports)) : Fingerprint(reports[p[1]].findings[p[2]]) \in prints}

-----------------------------------------------------------------------------
(* Consolidation.                                                          *)

AllFindings(reports) == FlattenSeq([r \in DOMAIN reports |-> reports[r].findings])

\* filter_by_confidence: one step down, or out.
FilterByConfidence(findings, report) ==
  LET low(f) == f.confidence < report.min_confidence
      kept == IF report.drop_low THEN Subsequence(findings, {i \in DOMAIN findings : ~low(findings[i])})
              ELSE findings
  IN  [i \in DOMAIN kept |->
         [kept[i] EXCEPT !.severity = IF low(kept[i]) /\ @ > 0 THEN @ - 1 ELSE @]]

\* normalize_title: case, surrounding blanks and punctuation do not matter.
NormalizeTitle(title) == title[1]
DedupKey(f) == <<f.file, f.line, NormalizeTitle(f.title)>>

\* deduplicate_findings: the first of its key stays, and notes who agrees with it.
DeduplicateFindings(findings) ==
  LET same(i) == {j \in DOMAIN findings : DedupKey(findings[j]) = DedupKey(findings[i])}
      agreeing(i) == {j \in same(i) \ {i} : /\ findings[j].expert \notin ToSet(findings[i].agrees)
                                           /\ \A k \in same(i) \ {i} : k < j => findings[k].expert # findings[j].expert}
      experts == [i \in DOMAIN findings |-> findings[i].expert]
      merged == [i \in DOMAIN findings |-> [findings[i] EXCEPT !.agrees = @ \o Subsequence(experts, agreeing(i))]]
  IN  Subsequence(merged, {i \in DOMAIN findings : \A j \in same(i) : i <= j})

\* detect_conflicts: places about which the remaining findings advise different things.
DetectConflicts(findings) ==
  {<<f.file, f.line>> : f \in {g \in ToSet(findings) : \E h \in ToSet(findings) :
     h.file = g.file /\ h.line = g.line /\ h.advice # g.advice}}

-----------------------------------------------------------------------------
(* Adjudication.                                                           *)

\* The groups of adjudicate_with_llm: indices of the findings at or above the floor.
AdjudicationGroups(findings, floor) ==
  LET candidates == Subsequence([i \in DOMAIN findings |-> i], {i \in DOMAIN findings : findings[i].severity >= floor})
  IN  GroupByFile(candidates, [i \in DOMAIN findings |-> findings[i].file])

\* A group is adjudicated only when the content of its file was read.
AdjudicationBatches(findings, floor, readable) ==
  LET groups == AdjudicationGroups(findings, floor)
      read == Subsequence(groups, {g \in DOMAIN groups : findings[groups[g][1]].file \in readable})
  IN  FlattenSeq([g \in DOMAIN read |-> Chunks(read[g], AdjudicateBatch)])

\* parse_verdicts of the adjudicator: the spellings of a false positive; an unknown verdict
\* confirms.
FalsePositiveVerdict == {"false_positive", "false-positive", "drop"}

AdjudicatorMarks(batch, answer) ==
  IF answer.kind = "list" THEN Named(batch, ParseVerdictEntries(answer), FalsePositiveVerdict) ELSE {}

\* The downgrades of one batch, in the order of the answer: only to a strictly lower
\* severity than the finding came with.
Downgrades(batch, answer, findings) ==
  LET entries == IF answer.kind = "list" THEN ParseVerdictEntries(answer) ELSE <<>>
      rank(e) == OrElse(UNION {ParseSeverityLabel(l) : l \in e.severity}, 4)
      lowers(e) == /\ e.verdict = "downgrade" /\ TheIndex(e) < Len(batch)
                   /\ rank(e) < findings[batch[TheIndex(e) + 1]].severity
      downs == Subsequence(entries, {i \in DOMAIN entries : lowers(entries[i])})
  IN  [i \in DOMAIN downs |-> <<batch[TheIndex(downs[i]) + 1], rank(downs[i])>>]

\* The last ruling on a finding counts.
ApplyDowngrades(findings, downs) ==
  [i \in DOMAIN findings |->
     LET on == {k \in DOMAIN downs : downs[k][1] = i} IN
     IF on = {} THEN findings[i] ELSE [findings[i] EXCEPT !.severity = downs[Max(on)][2]]]

WithoutIndices(findings, marks) == Subsequence(findings, DOMAIN findings \ marks)

-----------------------------------------------------------------------------
(* The coverage of a review and its score.                                 *)

\* The defaults of PenaltyConfig and RiskThresholdConfig; severities run from 0 (note) to 4.
DefaultPenalty == [s \in 0 .. 4 |-> <<0, 1, 5, 15, 30>>[s + 1]]
DefaultThreshold == [critical |-> 40, high |-> 60, medium |-> 80, low |-> 95, healthy |-> 90]

-----------------------------------------------------------------------------
(* Ranges of lines: sequences of <<first, last>>.                          *)

Lexicographic(p, q) == p[1] < q[1] \/ (p[1] = q[1] /\ p[2] < q[2])

\* union_push: sort, then join the ranges that touch.
UnionPush(ranges, new) ==
  LET join(out, r) ==
        IF out # <<>> /\ r[1] <= Last(out)[2] + 1
        THEN IF r[2] > Last(out)[2] THEN [out EXCEPT ![Len(out)][2] = r[2]] ELSE out
        ELSE Append(out, r)
      sorted == SetToSortSeq(ToSet(ranges) \cup {new}, Lexicographic)
  IN  FoldLeft(join, <<>>, sorted)

\* overlap_len.
OverlapLen(r, s) ==
  LET lo == Max({r[1], s[1]})
      hi == Min({r[2], s[2]})
  IN  IF lo > hi THEN 0 ELSE hi - lo + 1

\* uncovered_within for one changed range: walk the touched ranges with a cursor.
Gaps(changed, touched) ==
  LET walk(w, t) ==
        IF w.closed \/ t[1] > changed[2] \/ t[2] < w.cursor THEN w
        ELSE [cursor |-> t[2] + 1, closed |-> t[2] >= changed[2],
              out |-> IF t[1] > w.cursor THEN Append(w.out, <<w.cursor, t[1] - 1>>) ELSE w.out]
      end == FoldLeft(walk, [cursor |-> changed[1], closed |-> FALSE, out |-> <<>>], touched)
  IN  IF end.closed THEN end.out ELSE Append(end.out, <<end.cursor, changed[2]>>)

\* CoverageLedger::from_diff_files: a target per file with lines on the new side.
FromDiffFiles(diff) ==
  LET ranges(file) == LET rs == SelectSeq(file.hunks, LAMBDA h : HunkNewRange(h) # {})
                      IN  [i \in DOMAIN rs |-> OrElse(HunkNewRange(rs[i]), <<>>)]
      targets == [i \in DOMAIN diff |->
                    [file |-> diff[i].path, changed |-> ranges(diff[i]), touched |-> <<>>]]
  IN  SelectSeq(targets, LAMBDA t : t.changed # <<>>)

\* mark_touched, on the first target of the file.
MarkTouched(targets, file, range) ==
  LET hit == {i \in DOMAIN targets : targets[i].file = file} IN
  IF hit = {} THEN targets
  ELSE [targets EXCEPT ![Min(hit)].touched = UnionPush(@, range)]

\* build_coverage_ledger: a finding touches the lines it names, or all of its file.
BuildCoverageLedger(diff, reports) ==
  LET touch(targets, f) ==
        IF f.line # {}
        THEN LET l == OrElse(f.line, 0) IN
             MarkTouched(targets, f.file, <<l, Max({l} \cup f.end)>>)
        ELSE LET mine == SelectSeq(targets, LAMBDA t : t.file = f.file)
                 all == IF mine = <<>> THEN <<>> ELSE mine[1].changed
             IN  FoldLeft(LAMBDA ts, r : MarkTouched(ts, f.file, r), targets, all)
  IN  FoldLeft(touch, FromDiffFiles(diff), AllFindings(reports))

SumOver(s, Value(_)) == FoldLeft(LAMBDA sum, x : sum + Value(x), 0, s)

\* CoverageLedger::summary; sufficient when covered/total reaches 0.7, or nothing changed.
CoverageSummary(targets) ==
  LET debtOf(t) == FoldLeft(UnionPush, <<>>, FlattenSeq([i \in DOMAIN t.changed |-> Gaps(t.changed[i], t.touched)]))
      total == SumOver(targets, LAMBDA t : SumOver(t.changed, LAMBDA c : c[2] - c[1] + 1))
      covered == SumOver(targets, LAMBDA t : SumOver(t.changed, LAMBDA c :
                   SumOver(t.touched, LAMBDA s : OverlapLen(s, c))))
  IN  [total |-> total, covered |-> covered,
       debt |-> [i \in DOMAIN targets |-> [file |-> targets[i].file, ranges |-> debtOf(targets[i])]],
       sufficient |-> total = 0 \/ 10 * covered >= 7 * total]

\* TruncationSummary::from_reports: the experts whose list is as long as it may be.
TruncatedExperts(reports, cap) ==
  LET full == SelectSeq(reports, LAMBDA r : cap > 0 /\ Len(r.findings) >= cap)
  IN  [i \in DOMAIN full |-> [expert |-> full[i].expert, omitted |-> full[i].omitted]]

-----------------------------------------------------------------------------
(* Scores.                                                                 *)

Round(num, den) == (2 * num + den) \div (2 * den)

\* expert_score_with_config: (100 - penalties) * (0.8 + 0.02 * mean confidence); a finding
\* somebody agrees with weighs half as much again.
ExpertScore(findings) ==
  IF findings = <<>> THEN 100
  ELSE LET n == Len(findings)
           twice == SumOver(findings, LAMBDA f : Penalty[f.severity] * IF f.agrees = <<>> THEN 2 ELSE 3)
           left == Max({0, 200 - twice})
           confidence == Min({SumOver(findings, LAMBDA f : f.confidence), 10 * n})
       IN  Round(left * (40 * n + confidence), 100 * n)

\* compute_weighted.
ComputeWeighted(scores) ==
  LET weight == SumOver(scores, LAMBDA s : s[2]) IN
  IF weight = 0 THEN 0 ELSE Round(SumOver(scores, LAMBDA s : s[1] * s[2]), weight)

\* compute_score: configured weights above zero, or an equal share.
ComputeScore(reports, weights) ==
  IF reports = <<>> THEN 100
  ELSE ComputeWeighted([i \in DOMAIN reports |->
         <<ExpertScore(reports[i].findings),
           IF reports[i].expert \in DOMAIN weights /\ weights[reports[i].expert] > 0
           THEN weights[reports[i].expert] ELSE 100 \div Len(reports)>>])

\* The score cap of consolidate_with_coverage: files nobody was assigned.
CapByFiles(score, reviewed, total) ==
  IF total > 0 /\ reviewed < total THEN Round(score * reviewed, total) ELSE score

\* score_to_risk_level_with_config.
RiskLevel(score) ==
  CASE score > Threshold.healthy -> "healthy"
    [] score <= Threshold.critical -> "critical"
    [] score <= Threshold.high -> "high"
    [] score <= Threshold.medium -> "medium"
    [] score <= Threshold.low -> "low_medium"
    [] OTHER -> "low"
=============================================================================
