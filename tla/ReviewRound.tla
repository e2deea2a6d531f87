---------------------------- MODULE ReviewRound -----------------------------
(***************************************************************************)
(* One round of review from the experts' answers to the merge request: the *)
(* passes over the findings in the order run_experts_inner runs them       *)
(* (team/orchestrator/pipeline.rs), then publish_review_with_diff (lib.rs) *)
(* against a forge whose calls can fail, or succeed without saying so      *)
(* (git_provider/).                                                        *)
(***************************************************************************)
EXTENDS PublishPlan

CONSTANTS
  Rounds,        \* the rounds that may be asked for
  PageSize,      \* how many discussions a listing shows
  MaxAttempts,   \* INLINE_POST_MAX_ATTEMPTS
  MaxPublish     \* how often the result may be published

\* What an expert may answer, and a model asked about a batch.
ReportedIssue ==
  [id : Nat, file : Nat, line : SUBSET Nat, end : SUBSET Nat, severity : SUBSET STRING, confidence : SUBSET Nat,
   title : Nat \X Nat, advice : Nat, leak : STRING]
ExpertAnswer == [shape : STRING, issues : Seq(ReportedIssue), omitted : SUBSET Nat]
VerdictEntry == [index : SUBSET Nat, verdict : STRING, severity : SUBSET STRING]
ModelAnswer == [kind : STRING, entries : Seq(VerdictEntry)]

ASSUME RoundAssumption ==
  /\ {PageSize, MaxAttempts, MaxPublish} \subseteq Nat \ {0}
  /\ \A r \in Rounds : /\ r.answers \in Seq(ExpertAnswer)
                        /\ r.verdicts \cup r.rulings \subseteq ModelAnswer
                        /\ r.env.cap \subseteq Int /\ r.crowd \in Nat
                        /\ \A k \in DOMAIN r.feedback : r.feedback[k].at \in Nat

VARIABLES
  input,         \* the round: answers, diff, configuration, what the forge does
  pc,
  reports,       \* Vec<ExpertReport>
  batches,       \* batches of the current pass that are still to be asked about
  marks,         \* drop_marks
  downs,         \* downgrades
  stats,         \* batches skipped by the verifier
  dropped,       \* ReviewOutput::dropped_findings
  result,        \* ConsolidatedReport
  asked,         \* the findings of each batch and the answer to it (history)
  forge,         \* what is on the merge request
  plan,          \* InlinePlan
  note,          \* the inline note at hand and the attempts spent on it
  summary        \* PublishSummary and the errors of the publication

roundVars == <<input, pc, reports, batches, marks, downs, stats, dropped, result, asked,
               forge, plan, note, summary>>
passVars == <<reports, batches, marks, downs, stats, dropped, result, asked>>
publishVars == <<forge, plan, note, summary>>

NoPlan == [considered |-> 0, docs_only |-> FALSE, excluded |-> 0, not_eligible |-> 0,
           skipped |-> 0, selected |-> <<>>, rolled_up |-> <<>>, index |-> {}]
NoSummary == [posted |-> 0, failed |-> <<>>, errors |-> 0, outcome |-> "none", board |-> 0]

\* The merge request before the round: other people's discussions ({}), no board, no notes.
EmptyForge(crowd) == [discussions |-> [i \in 1 .. crowd |-> {}], notes |-> <<>>, lost |-> 0, refused |-> <<>>, rounds |-> 0]

RoundInit ==
  /\ input \in Rounds
  /\ pc = "collect"
  /\ reports = <<>> /\ batches = <<>> /\ marks = {} /\ downs = <<>> /\ stats = 0
  /\ dropped = <<>> /\ result = <<>> /\ asked = <<>>
  /\ forge = EmptyForge(input.crowd)
  /\ plan = NoPlan /\ note = [at |-> 0, attempt |-> 0] /\ summary = NoSummary

-----------------------------------------------------------------------------
(* The passes of run_experts_inner.                                        *)

\* The reports of the successful experts are parsed and validated; whether their lists were
\* cut is read before the validation.
Collect ==
  /\ pc = "collect"
  /\ LET parsed == [i \in DOMAIN input.answers |-> ParseLlmResponse(i, input.answers[i])] IN
     /\ reports' = [i \in DOMAIN parsed |->
          [parsed[i] EXCEPT !.findings = ValidateFindings(@, input.diff)]]
     /\ result' = [truncated |-> TruncatedExperts(parsed, input.report.max_findings)]
  /\ pc' = IF input.report.verify /\ input.models THEN "verify" ELSE "feedback"
  /\ batches' = IF input.report.verify /\ input.models THEN VerifierBatches(reports') ELSE <<>>
  /\ UNCHANGED <<input, marks, downs, stats, dropped, asked, publishVars>>

\* One batch of verify_with_llm.  A batch that fails, whatever the reason, drops nothing.
VerifyOneBatch ==
  /\ pc = "verify" /\ batches # <<>>
  /\ \E answer \in input.verdicts :
       /\ marks' = marks \cup VerifierMarks(Head(batches), answer)
       /\ stats' = stats + IF VerifierSkips(answer) THEN 1 ELSE 0
       /\ asked' = Append(asked, [pass |-> "verify", answer |-> answer,
            ids |-> [i \in DOMAIN Head(batches) |-> reports[Head(batches)[i][1]].findings[Head(batches)[i][2]].id]])
  /\ batches' = Tail(batches)
  /\ UNCHANGED <<input, pc, reports, downs, dropped, result, publishVars>>

\* What was marked leaves the reports once all the batches were asked about.
DropMarked ==
  /\ pc = "verify" /\ batches = <<>>
  /\ reports' = WithoutMarked(reports, marks)
  /\ dropped' = Marked(reports, marks)
  /\ marks' = {}
  /\ pc' = "feedback"
  /\ UNCHANGED <<input, batches, downs, stats, result, asked, publishVars>>

\* apply_feedback_filter.
ApplyFeedbackFilter ==
  /\ pc = "feedback"
  /\ LET gone == IF input.report.feedback THEN FeedbackMarks(reports, FalsePositives(input.feedback)) ELSE {} IN
     /\ reports' = WithoutMarked(reports, gone)
     /\ dropped' = dropped \o Marked(reports, gone)
  /\ pc' = "consolidate"
  /\ UNCHANGED <<input, batches, marks, downs, stats, result, asked, publishVars>>

Count(findings, rank) == Cardinality({i \in DOMAIN findings : findings[i].severity = rank})

\* generate_tldr and append_coverage_banners, as what they say.
TlDr(findings, experts, adjudicated, r) ==
  [says |-> IF findings = <<>> THEN IF adjudicated # <<>> THEN "all removed" ELSE "nothing reported"
            ELSE "issues",
   critical |-> Count(findings, 4), high |-> Count(findings, 3),
   other |-> Len(findings) - Count(findings, 4) - Count(findings, 3),
   experts |-> experts,
   capped |-> r.total > 0 /\ r.reviewed < r.total,
   uncovered |-> ~r.coverage.sufficient,
   downgraded |-> r.downgraded]

\* build_consolidated_report over build_coverage_ledger, and attach_findings_truncation.
Consolidated(rs, truncated) ==
  LET all == AllFindings(rs)
      kept == FilterByConfidence(all, input.report)
      final == DeduplicateFindings(kept)
      coverage == CoverageSummary(BuildCoverageLedger(input.diff, rs))
      score == CapByFiles(ComputeScore(rs, input.weights), input.reviewed, Len(input.diff))
      facts == [total |-> Len(input.diff), reviewed |-> input.reviewed, coverage |-> coverage,
                downgraded |-> Cardinality({i \in DOMAIN kept : kept[i].confidence < input.report.min_confidence})]
  IN  [findings |-> final,
       low_removed |-> Len(all) - Len(kept), merged |-> Len(kept) - Len(final),
       conflicts |-> DetectConflicts(final),
       score |-> score, risk |-> RiskLevel(score), consensus |-> score >= Consensus,
       facts |-> facts, truncated |-> truncated,
       tl_dr |-> TlDr(final, Len(rs), <<>>, facts),
       unverified |-> final = <<>> \/ ~coverage.sufficient,
       unparsed |-> {rs[i].expert : i \in {j \in DOMAIN rs : rs[j].unparsed}},
       adjudicated |-> <<>>]

\* Without a model, or with the pass switched off, the adjudication is left out and the
\* assessment refreshed at once.
Adjudicates == input.report.adjudicate /\ input.models

Consolidate ==
  /\ pc = "consolidate"
  /\ result' = Consolidated(reports, result.truncated)
  /\ pc' = IF Adjudicates THEN "prefetch" ELSE "refresh"
  /\ UNCHANGED <<input, reports, batches, marks, downs, stats, dropped, asked, publishVars>>

\* prefetch_ground_truth: every file of a group was read, or was not (an error, 30 s
\* without an answer, the end of the 120 s).  format_full_file cannot show the region
\* around a line beyond the end of a large file: the review dies.
PrefetchGroundTruth ==
  /\ pc = "prefetch"
  /\ LET floor == ParseMinSeverity(input.report.floor)
         groups == AdjudicationGroups(result.findings, floor)
         files == {result.findings[groups[g][1]].file : g \in DOMAIN groups}
     IN  IF files = {} \/ ~input.source
         THEN pc' = "refresh" /\ UNCHANGED batches
         ELSE \E readable \in SUBSET files :
                /\ batches' = AdjudicationBatches(result.findings, floor, readable)
                /\ pc' = IF readable \cap input.cut_short # {} THEN "panicked" ELSE "adjudicate"
  /\ UNCHANGED <<input, reports, marks, downs, stats, dropped, result, asked, publishVars>>

\* One batch of adjudicate_with_llm.
AdjudicateOneBatch ==
  /\ pc = "adjudicate" /\ batches # <<>>
  /\ \E answer \in input.rulings :
       /\ marks' = marks \cup AdjudicatorMarks(Head(batches), answer)
       /\ downs' = downs \o Downgrades(Head(batches), answer, result.findings)
       /\ asked' = Append(asked, [pass |-> "adjudicate", answer |-> answer,
            ids |-> [i \in DOMAIN Head(batches) |-> result.findings[Head(batches)[i]].id]])
  /\ batches' = Tail(batches)
  /\ UNCHANGED <<input, pc, reports, stats, dropped, result, publishVars>>

\* Downgrades first, then the false positives leave.
ApplyRulings ==
  /\ pc = "adjudicate" /\ batches = <<>>
  /\ LET lowered == ApplyDowngrades(result.findings, downs) IN
     result' = [result EXCEPT !.findings = WithoutIndices(lowered, marks),
                              !.adjudicated = WithoutIndices(lowered, DOMAIN lowered \ marks)]
  /\ marks' = {} /\ downs' = <<>>
  /\ pc' = "refresh"
  /\ UNCHANGED <<input, reports, batches, stats, dropped, asked, publishVars>>

\* Fault: the assessment of the consolidation is kept.
KeepAssessment ==
  /\ pc = "refresh" /\ pc' = "plan"
  /\ UNCHANGED <<input, passVars, publishVars>>

\* refresh_assessment: the words and the unverified mark follow the list; the score stays.
RefreshAssessment ==
  /\ pc = "refresh"
  /\ result' = [result EXCEPT
       !.tl_dr = TlDr(result.findings, Len(reports), result.adjudicated, result.facts),
       !.unverified = result.findings = <<>> \/ ~result.facts.coverage.sufficient]
  /\ pc' = "plan"
  /\ UNCHANGED <<input, reports, batches, marks, downs, stats, dropped, asked, publishVars>>

Passes == Collect \/ VerifyOneBatch \/ DropMarked \/ ApplyFeedbackFilter \/ Consolidate
          \/ PrefetchGroundTruth \/ AdjudicateOneBatch \/ ApplyRulings \/ RefreshAssessment

-----------------------------------------------------------------------------
(* publish_review_with_diff.                                               *)

Policy == ApplyOverrides(input.env)

\* render_board: the sections of the experts are the validated findings, in the wording
\* of that time; the others are what the passes left.
RenderBoard(p) ==
  [round |-> forge.rounds, findings |-> result.findings, tl_dr |-> result.tl_dr,
   dropped |-> dropped, section |-> BoardSection(p, Policy), failures |-> <<>>]

Ids(findings) == {findings[i].id : i \in DOMAIN findings}
Rendered == UNION {Ids(ValidateFindings(ParseLlmResponse(i, input.answers[i]).findings, input.diff)) :
                     i \in DOMAIN input.answers}
LeaksOn(surface) == {id \in Rendered : \E i \in DOMAIN input.answers : \E j \in DOMAIN input.answers[i].issues :
                       input.answers[i].issues[j].id = id /\ input.answers[i].issues[j].leak = surface}

\* The plan, then the scan of the board and of every note before anything is sent.  The
\* diff is fetched only when a note is possible; without one the findings go unfiltered.
PlanAndScan ==
  /\ pc = "plan" /\ forge.rounds < MaxPublish
  /\ \E index \in {FromDiff(input.diff)} \cup (IF input.diff_fails THEN {<<>>} ELSE {}) :
       LET known == HasInlineCandidates(result.findings, Policy) /\ index # <<>>
           docsOnly == known /\ IsDocsOrCiOnly({input.diff[i].path : i \in DOMAIN input.diff})
           p == PlanInlineNotes(result.findings, IF known THEN {index} ELSE NoIndex, docsOnly, Policy)
           refused == LeaksOn("board") # {} \/ Ids(p.selected) \cap LeaksOn("note") # {}
       IN  /\ plan' = p
           /\ summary' = [NoSummary EXCEPT !.outcome = IF refused THEN "refused" ELSE "none"]
           /\ pc' = IF refused THEN "done" ELSE "board"
  /\ note' = [at |-> 0, attempt |-> 0]
  /\ forge' = [forge EXCEPT !.rounds = @ + 1, !.lost = 0, !.refused = <<>>]
  /\ UNCHANGED <<input, passVars>>

\* The board of ours among the discussions a listing shows.
BoardsIn(discussions) == {i \in DOMAIN discussions : discussions[i] # {}}
ListedBoards == {i \in BoardsIn(forge.discussions) : i <= PageSize}

\* find_or_update_discussion: who we are and the listing (either may fail), then an update
\* of the first board listed, or a new one.
FindOrUpdateDiscussion ==
  /\ pc = "board"
  /\ \E did \in {"ok", "lost", "refused"} \cap input.calls :
       LET md == RenderBoard(plan)
           at == IF ListedBoards = {} THEN Len(forge.discussions) + 1 ELSE Min(ListedBoards)
       IN  /\ forge' = IF did = "refused" THEN forge
                       ELSE [forge EXCEPT !.discussions =
                               IF at > Len(@) THEN Append(@, {md}) ELSE [@ EXCEPT ![at] = {md}]]
           /\ summary' = IF did = "ok" THEN [summary EXCEPT !.board = at]
                         ELSE [summary EXCEPT !.errors = @ + 1]
  /\ pc' = "inline" /\ note' = [at |-> 1, attempt |-> 1]
  /\ UNCHANGED <<input, passVars, plan>>

\* InlinePlan::anchor_for: without a diff, the bare line.
Anchor(f) ==
  LET l == OrElse(f.line, 0) IN
  IF plan.index = {} THEN {[file |-> f.file, line |-> l, old |-> {}]}
  ELSE UNION {AnchorFor(x, f.file, l) : x \in plan.index}

\* What the client makes of each way a call can fail: a lost connection, a busy forge, a
\* refusal whose text echoes a proxy, an answer that could not be read.
Failure(typed, status, says, marker) == [typed |-> typed, status |-> status, says |-> says, marker |-> marker]
ErrorOf(did) ==
  CASE did = "lost" -> <<Failure(FALSE, {}, {}, FALSE), Failure(FALSE, {}, {}, TRUE)>>
    [] did = "down" -> <<Failure(TRUE, {503}, {503}, FALSE)>>
    [] did = "refused" -> <<Failure(FALSE, {}, {}, FALSE), Failure(TRUE, {400}, {400}, TRUE)>>
    [] OTHER -> <<Failure(TRUE, {}, {}, FALSE)>>

\* One attempt of post_inline_with_retry.  "lost" is a note that was posted although the
\* answer did not arrive, "garbled" one whose answer could not be read.
PostInlineOnce ==
  /\ pc = "inline" /\ note.at \in DOMAIN plan.selected
  /\ LET f == plan.selected[note.at] IN
     \E did \in input.calls :
       LET again == did # "ok" /\ IsTransientError(ErrorOf(did)) /\ note.attempt < MaxAttempts IN
       /\ forge' = [forge EXCEPT
            !.notes = IF did \in {"ok", "lost", "garbled"}
                      THEN Append(@, [id |-> f.id, at |-> note.at, round |-> forge.rounds, anchor |-> Anchor(f),
                                      body |-> FormatInlineBody(f)]) ELSE @,
            !.lost = @ + IF did = "lost" THEN 1 ELSE 0,
            !.refused = IF did = "refused" THEN Append(@, note.at) ELSE @]
       /\ note' = IF again THEN [note EXCEPT !.attempt = @ + 1] ELSE [at |-> note.at + 1, attempt |-> 1]
       /\ summary' = CASE did = "ok" -> [summary EXCEPT !.posted = @ + 1]
                       [] again -> summary
                       [] OTHER -> [summary EXCEPT !.failed = Append(@, InlineNoteFailure(note.at, f, ErrorOf(did)))]
  /\ UNCHANGED <<input, pc, passVars, plan>>

\* Notes that failed are named on the board, when it was written; a failure of that is
\* only logged.  Any error makes the publication an error.
FinishPublication ==
  /\ pc = "inline" /\ note.at \notin DOMAIN plan.selected
  /\ LET at == summary.board
         touch == summary.failed # <<>> /\ at # 0
     IN  \E did \in IF touch THEN {"ok", "lost", "refused"} \cap input.calls ELSE {"refused"} :
           forge' = IF did = "refused" THEN forge
                    ELSE [forge EXCEPT !.discussions[at] = {[b EXCEPT !.failures = RenderInlineFailureSection(summary.failed)] : b \in @}]
  /\ summary' = [summary EXCEPT !.outcome = IF summary.errors > 0 \/ summary.failed # <<>> THEN "error" ELSE "ok"]
  /\ pc' = "done"
  /\ UNCHANGED <<input, passVars, plan, note>>

\* The result is published again (a second request, or the same round reviewed anew).
PublishAgain ==
  /\ pc = "done" /\ forge.rounds < MaxPublish
  /\ pc' = "plan"
  /\ UNCHANGED <<input, passVars, publishVars>>

RoundNext == Passes \/ PlanAndScan \/ FindOrUpdateDiscussion \/ PostInlineOnce
             \/ FinishPublication \/ PublishAgain

RoundSpec == RoundInit /\ [][RoundNext]_roundVars

-----------------------------------------------------------------------------
(* What a round promises.                                                  *)

Judged == pc \in {"plan", "board", "inline", "done"}

\* The findings the experts reported about files of the diff.
Reported ==
  {f \in UNION {ToSet(ParseLlmResponse(i, input.answers[i]).findings) : i \in DOMAIN input.answers} :
     \E i \in DOMAIN input.diff : input.diff[i].path = f.file}

\* Every finding about the diff ends in one place: dropped with a reason, removed by the
\* adjudication, on the list, merged into one that names its expert, or left out for its
\* confidence; and the counters of the report add up.
EveryFindingEndsOnce ==
  Judged =>
    LET ends == Ids(dropped) \cup Ids(result.adjudicated) \cup Ids(result.findings)
        shown == ToSet(result.findings) \cup ToSet(result.adjudicated)
        low(f) == input.report.drop_low /\ f.confidence < input.report.min_confidence
    IN  /\ ends \subseteq {f.id : f \in Reported}
        /\ Cardinality(ends) = Len(dropped) + Len(result.adjudicated) + Len(result.findings)
        /\ \A f \in Reported : f.id \notin ends =>
             low(f) \/ \E g \in shown : DedupKey(f) = DedupKey(g) /\ f.expert \in ToSet(g.agrees)
        /\ Cardinality(Reported) = Cardinality(ends) + result.low_removed + result.merged

\* The passes fail open: a finding goes only when an answer named it, at its own place in
\* the batch, or when the last word of the users on it is "false positive".
Said(pass, f, verdicts) ==
  \E a \in ToSet(asked) : /\ a.pass = pass /\ a.answer.kind = "list"
    /\ \E e \in ToSet(a.answer.entries) : \E k \in e.index :
         e.verdict \in verdicts /\ k < Len(a.ids) /\ a.ids[k + 1] = f.id
DroppedForAReason ==
  Judged =>
    /\ \A f \in ToSet(dropped) :
         \/ Said("verify", f, {"drop"})
         \/ \E i \in DOMAIN input.feedback :
              /\ input.feedback[i].print = Fingerprint(f) /\ input.feedback[i].verdict = "false_positive"
              /\ \A j \in DOMAIN input.feedback : input.feedback[j].print = Fingerprint(f) =>
                   input.feedback[j].at <= input.feedback[i].at
    /\ \A f \in ToSet(result.adjudicated) : Said("adjudicate", f, FalsePositiveVerdict)

\* No pass makes a finding graver, and one that kept its confidence is only lowered by a
\* ruling on it.
SeverityNeverRises ==
  Judged => \A f \in ToSet(result.findings) \cup ToSet(result.adjudicated) : \E g \in Reported :
    /\ g.id = f.id /\ f.severity <= g.severity
    /\ f.severity < g.severity => \/ g.confidence < input.report.min_confidence
                                  \/ Said("adjudicate", f, {"downgrade"})

PassesFailOpen == DroppedForAReason /\ SeverityNeverRises

\* Reference for the ledger: lines instead of ranges.
ChangedLines ==
  UNION {{<<file.path, l>> : l \in UNION {r[1] .. r[2] : r \in UNION {HunkNewRange(h) : h \in ToSet(file.hunks)}}} :
           file \in ToSet(input.diff)}
LooksAt(f, p) ==
  /\ p[1] = f.file
  /\ \A l \in f.line : l <= p[2] /\ p[2] <= Max({l} \cup f.end)

\* The assessment goes with the list that is published and with the lines the remaining
\* findings are about: the words, the counts, the unverified mark, the coverage and its
\* debt; the score stays within the share of the files that were assigned.
AssessmentFits ==
  pc \in {"board", "inline", "done"} =>
    LET fs == result.findings
        c == result.facts.coverage
        seen == {p \in ChangedLines : \E f \in ToSet(AllFindings(reports)) : LooksAt(f, p)}
        owed == UNION {{<<c.debt[i].file, l>> : l \in UNION {r[1] .. r[2] : r \in ToSet(c.debt[i].ranges)}} : i \in DOMAIN c.debt}
    IN  /\ result.tl_dr.critical + result.tl_dr.high + result.tl_dr.other = Len(fs)
        /\ result.tl_dr.critical = Cardinality({i \in DOMAIN fs : fs[i].severity = 4})
        /\ result.tl_dr.says = "issues" <=> fs # <<>>
        /\ result.tl_dr.says = "nothing reported" => result.adjudicated = <<>>
        /\ fs = <<>> => result.unverified
        /\ c.total = Cardinality(ChangedLines) /\ c.covered = Cardinality(seen)
        /\ owed = ChangedLines \ seen
        /\ ~c.sufficient => result.unverified /\ result.tl_dr.uncovered
        /\ result.score \in 0 .. 100
        /\ result.score * Len(input.diff) <= 100 * input.reviewed + Len(input.diff)

\* The report adds up: no finding is lost or counted twice on the way to it, and what it
\* says of them and of the change is true of the list it comes with.
ReportAddsUp == EveryFindingEndsOnce /\ AssessmentFits

\* Reference for the anchors: count the lines of the hunk before the one at hand.
OldLineOf(h, k) == h.old_start + Cardinality({j \in 1 .. (k - 1) : h.lines[j] \in {"-", " "}})
NewLineOf(h, k) == h.new_start + Cardinality({j \in 1 .. (k - 1) : h.lines[j] \in {"+", " "}})
AnchorsAt(file, line) ==
  LET hunks == UNION {ToSet(input.diff[i].hunks) : i \in {j \in DOMAIN input.diff : input.diff[j].path = file}}
      here == {x \in hunks \X (1 .. 8) : /\ x[2] \in DOMAIN x[1].lines /\ x[1].lines[x[2]] \in {"+", " "}
                                         /\ NewLineOf(x[1], x[2]) = line}
  IN  {[file |-> file, line |-> line, old |-> IF x[1].lines[x[2]] = " " THEN {OldLineOf(x[1], x[2])} ELSE {}] : x \in here}

\* The notes are the ones the policy chose: no more than the cap, none outside the diff or
\* on a change of documentation only, none in place of a graver one; each at the line of
\* the old and the new side the forge expects.  Only a change of documentation and
\* continuous integration is taken for one.
PublishedAsPlanned ==
  /\ pc \in {"board", "inline", "done"} =>
       /\ Len(plan.selected) <= Policy.cap
       /\ plan.docs_only => input.prose
       /\ input.prose /\ ~Policy.docs /\ ~input.diff_fails => plan.selected = <<>>
       /\ \A f \in ToSet(plan.selected) : /\ Admits(Policy, f) /\ IsSafeInlinePath(PathOf[f.file])
                                          /\ \A g \in ToSet(plan.rolled_up) : g.severity <= f.severity
  /\ \A n \in ToSet(forge.notes) : \A f \in ToSet(result.findings) :
       n.id = f.id => \/ n.anchor = AnchorsAt(f.file, OrElse(f.line, 0)) /\ n.anchor # {}
                      \/ \A a \in n.anchor : a.old = {} /\ input.diff_fails

\* The notes of this round, by their place in the list of notes, and the places of the plan
\* that are on the merge request.
Mine == {i \in DOMAIN forge.notes : forge.notes[i].round = forge.rounds}
Placed == {forge.notes[i].at : i \in Mine}

\* A note is there twice only when an answer of the forge was lost, and one the forge
\* refused is not sent again.
NoNeedlessRepeat == Cardinality(Mine) <= Cardinality(Placed) + forge.lost /\ IsInjective(forge.refused)

\* A merge request keeps one board, as long as the listing shows it.
OneBoard == input.crowd < PageSize => Cardinality(BoardsIn(forge.discussions)) <= 1

\* A scan that refuses the text keeps all of it off the merge request.
RefusedSendsNothing ==
  pc = "done" /\ summary.outcome = "refused" =>
    /\ \A n \in ToSet(forge.notes) : n.round < forge.rounds
    /\ \A b \in UNION ToSet(forge.discussions) : b.round < forge.rounds

\* A publication that reports success left its board and every note of the plan on the
\* merge request.
SuccessIsComplete ==
  pc = "done" /\ summary.outcome = "ok" =>
    /\ Placed = DOMAIN plan.selected
    /\ \E b \in UNION ToSet(forge.discussions) : b.round = forge.rounds /\ b.findings = result.findings

\* One that reports an error had one, and names every note that is missing.
FailureIsNamed ==
  pc = "done" /\ summary.outcome = "error" =>
    /\ \A p \in DOMAIN plan.selected : p \in Placed \/ \E k \in DOMAIN summary.failed : summary.failed[k].at = p
    /\ summary.errors > 0 \/ summary.failed # <<>>

\* The counters of the summary account for every finding on the list.
CountersAddUp ==
  pc = "done" /\ summary.outcome # "refused" =>
    plan.considered = plan.excluded + plan.not_eligible + plan.skipped + Len(plan.rolled_up)
                        + summary.posted + Len(summary.failed)

\* What the publication says of itself is what the merge request shows.
PublicationIsTruthful ==
  NoNeedlessRepeat /\ OneBoard /\ RefusedSendsNothing /\ SuccessIsComplete /\ FailureIsNamed /\ CountersAddUp
=============================================================================
