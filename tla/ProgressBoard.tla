---------------------------- MODULE ProgressBoard ---------------------------
(***************************************************************************)
(* The progress of a review (progress/mod.rs) as its tasks and its stages  *)
(* report it, and the log the server keeps of itself                       *)
(* (server/log_collector.rs, server/api/logs.rs).                          *)
(***************************************************************************)
EXTENDS Integers, Sequences, SequencesExt, FiniteSets, FiniteSetsExt

CONSTANTS
  ReviewKind,      \* "small", "large", "repo"
  ExpertTask,      \* the tasks of the expert stage
  LogLine,         \* complete lines a writer may produce: [json, level, text]
  MaxLog, MaxPieces, LogCap, BufferCap, Subscribers

VARIABLES
  kind,
  progress,        \* ReviewProgress: status and stages, in thousandths
  taskDone,        \* tasks whose update was applied
  logBuffer,       \* LogCollector::buffer: pieces of the line that is not complete
  log,             \* LogCollector::entries
  logFile,         \* the file behind it
  stream,          \* subscriber -> entries sent to it since it subscribed
  logHistory       \* every entry recorded, and where each subscriber joined

progressVars == <<kind, progress, taskDone, logBuffer, log, logFile, stream, logHistory>>

-----------------------------------------------------------------------------
(* Stages.                                                                 *)

\* small_pr, large_pr and repo_review, in thousandths.
StageWeights(k) ==
  IF k = "repo"
  THEN <<[name |-> "scan", weight |-> 50], [name |-> "local_analysis", weight |-> 50],
         [name |-> "llm_enhance", weight |-> 850], [name |-> "report", weight |-> 50]>>
  ELSE <<[name |-> "parse", weight |-> 50], [name |-> "lead_overview", weight |-> 150],
         [name |-> "expert_review", weight |-> 660], [name |-> "adjudicate", weight |-> 40],
         [name |-> "aggregate", weight |-> 80], [name |-> "report", weight |-> 20]>>

\* recalc_overall.
Recalc(stages) ==
  LET total == FoldLeft(LAMBDA acc, s : acc + s.weight * s.percent, 0, stages) \div 1000 IN
  IF total < 0 THEN 0 ELSE IF total > 1000 THEN 1000 ELSE total

\* ReviewProgress::new.
NewProgress(k) ==
  [status |-> "running", overall |-> 0, error |-> FALSE,
   stages |-> [i \in DOMAIN StageWeights(k) |->
                 [name |-> StageWeights(k)[i].name, weight |-> StageWeights(k)[i].weight, percent |-> 0, status |-> "pending"]]]

WithStages(p, stages) == [p EXCEPT !.stages = stages, !.overall = Recalc(stages)]
At(p, name, percent, status) ==
  WithStages(p, [i \in DOMAIN p.stages |->
    IF p.stages[i].name = name THEN [p.stages[i] EXCEPT !.percent = percent, !.status = status] ELSE p.stages[i]])

\* set_stage clamps the share; a name the review does not have changes nothing.
SetStage(p, name, percent) ==
  At(p, name, IF percent > 1000 THEN 1000 ELSE IF percent < 0 THEN 0 ELSE percent, "running")
CompleteStage(p, name) == At(p, name, 1000, "completed")
MarkCompleted(p) ==
  [p EXCEPT !.status = "completed", !.overall = 1000,
            !.stages = [i \in DOMAIN p.stages |-> [p.stages[i] EXCEPT !.percent = 1000, !.status = "completed"]]]
MarkFailed(p) == [p EXCEPT !.status = "failed", !.error = TRUE]

\* update_expert_progress: the count and the stage change under one lock, so the tasks
\* may end in any order.
TaskEnds(t) ==
  /\ kind # "repo" /\ progress.status = "running" /\ t \notin taskDone
  /\ taskDone' = taskDone \cup {t}
  /\ progress' = SetStage(progress, "expert_review", (1000 * Cardinality(taskDone')) \div Cardinality(ExpertTask))
  /\ UNCHANGED <<kind, logBuffer, log, logFile, stream, logHistory>>

\* mark_aggregate_complete, mark_report_complete and the stages before the experts.
StageEnds(name) ==
  /\ progress.status = "running" /\ name # "expert_review"
  /\ \E i \in DOMAIN progress.stages : progress.stages[i].name = name /\ progress.stages[i].status # "completed"
  /\ progress' = CompleteStage(progress, name)
  /\ UNCHANGED <<kind, taskDone, logBuffer, log, logFile, stream, logHistory>>

\* complete_progress and complete_repo_progress, or mark_failed.
ReviewStops ==
  /\ progress.status = "running"
  /\ \/ /\ taskDone = ExpertTask \/ kind = "repo"
        /\ progress' = MarkCompleted(CompleteStage(progress, "report"))
     \/ progress' = MarkFailed(progress)
  /\ UNCHANGED <<kind, taskDone, logBuffer, log, logFile, stream, logHistory>>

-----------------------------------------------------------------------------
(* The log.                                                                *)

LastN(s, n) == IF Len(s) > n THEN SubSeq(s, Len(s) - n + 1, Len(s)) ELSE s

\* parse_line: a line of JSON says its level, another is searched for one.
ParseLine(line) == [level |-> IF line.json THEN line.level ELSE line.inferred, text |-> line.text]

\* record_entry: list, subscribers, file; the list keeps the last entries.
RecordEntry(entry, fileOk) ==
  /\ log' = LastN(Append(log, entry), LogCap)
  /\ stream' = [s \in DOMAIN stream |-> Append(stream[s], entry)]
  /\ logFile' = IF fileOk THEN Append(logFile, entry) ELSE logFile
  /\ logHistory' = [logHistory EXCEPT !.all = Append(@, entry)]

\* Fault: what follows the line in the same write is dropped.
AddBytesDropping(pieces) ==
  LET all == logBuffer \o pieces
      ends == {i \in DOMAIN all : all[i] = "nl"}
  IN  [lines |-> IF ends = {} THEN 0 ELSE 1, rest |-> IF ends = {} THEN all ELSE <<>>]

\* add_bytes: every complete line is taken out; a rest that grows too long is dropped.
AddBytes(pieces) ==
  LET all == logBuffer \o pieces
      ends == {i \in DOMAIN all : all[i] = "nl"}
      rest == IF ends = {} THEN all ELSE SubSeq(all, Max(ends) + 1, Len(all))
  IN  [lines |-> Cardinality(ends), rest |-> IF Len(rest) > BufferCap THEN <<>> ELSE rest]

\* A write of the tracing layer: pieces of lines and line ends ("nl").
WriteLog(pieces, line) ==
  /\ Len(logHistory.all) < MaxLog
  /\ logHistory.writes < MaxPieces
  /\ LET read == AddBytes(pieces)
         fresh == [k \in 1 .. read.lines |-> ParseLine(line)]
     IN  /\ logBuffer' = read.rest
         /\ log' = LastN(log \o fresh, LogCap)
         /\ stream' = [s \in DOMAIN stream |-> stream[s] \o fresh]
         /\ logFile' = logFile \o fresh
         /\ logHistory' = [logHistory EXCEPT !.all = @ \o fresh, !.writes = @ + 1, !.lines = @ + read.lines,
              !.ends = @ + Len(SelectSeq(pieces, LAMBDA x : x = "nl"))]
  /\ UNCHANGED <<kind, progress, taskDone>>

\* push_entry, from any part of the server; the file may fail.
PushEntry(line, fileOk) ==
  /\ Len(logHistory.all) < MaxLog
  /\ RecordEntry([level |-> line.level, text |-> line.text], fileOk)
  /\ UNCHANGED <<kind, progress, taskDone, logBuffer>>

Subscribe(s) ==
  /\ s \notin DOMAIN stream
  /\ stream' = [x \in DOMAIN stream \cup {s} |-> IF x = s THEN <<>> ELSE stream[x]]
  /\ logHistory' = [logHistory EXCEPT !.joined = [x \in DOMAIN @ \cup {s} |-> IF x = s THEN Len(logHistory.all) ELSE @[x]]]
  /\ UNCHANGED <<kind, progress, taskDone, logBuffer, log, logFile>>

\* new_with_path and load_from_file after a restart; streams end with the process.
RestartLog ==
  /\ logHistory.boots < 1
  /\ log' = LastN(logFile, LogCap) /\ logBuffer' = <<>> /\ stream' = <<>>
  /\ logHistory' = [logHistory EXCEPT !.boots = @ + 1, !.joined = <<>>]
  /\ UNCHANGED <<kind, progress, taskDone, logFile>>

ProgressInit ==
  /\ kind \in ReviewKind /\ progress = NewProgress(kind) /\ taskDone = {}
  /\ logBuffer = <<>> /\ log = <<>> /\ logFile = <<>> /\ stream = <<>>
  /\ logHistory = [all |-> <<>>, joined |-> <<>>, writes |-> 0, ends |-> 0, lines |-> 0, boots |-> 0]

ProgressNext ==
  \/ \E t \in ExpertTask : TaskEnds(t)
  \/ \E i \in DOMAIN progress.stages : StageEnds(progress.stages[i].name)
  \/ ReviewStops

LogNext ==
  \/ \E line \in LogLine : \/ \E pieces \in {<<"a">>, <<"nl">>, <<"a", "nl", "b">>, <<"nl", "a", "nl">>} : WriteLog(pieces, line)
                           \/ \E ok \in BOOLEAN : PushEntry(line, ok)
  \/ \E s \in Subscribers : Subscribe(s)
  \/ RestartLog

-----------------------------------------------------------------------------
(* What they promise.                                                      *)

\* The bar of a running review never runs back and never reaches the end before the
\* review has ended, whatever order its tasks and stages end in.
ProgressRisesStep ==
  /\ progress'.overall >= progress.overall
  /\ progress.status # "running" => progress' = progress

\* The parts of the bar add up, and only a finished review shows the end of it.
ProgressIsHonest ==
  /\ FoldLeft(LAMBDA acc, s : acc + s.weight, 0, StageWeights(kind)) = 1000
  /\ progress.overall \in 0 .. 1000
  /\ progress.overall = 1000 /\ progress.status = "running" =>
       \A i \in DOMAIN progress.stages : progress.stages[i].percent = 1000
  /\ progress.status = "completed" => progress.overall = 1000

\* The log page shows the newest entries in order, a subscriber gets every entry since it
\* joined, and no complete line is lost.
LogIsComplete ==
  /\ logHistory.boots = 0 => log = LastN(logHistory.all, LogCap)
  /\ \A s \in DOMAIN stream : stream[s] = SubSeq(logHistory.all, logHistory.joined[s] + 1, Len(logHistory.all))
  /\ Len(log) <= LogCap /\ Len(logBuffer) <= BufferCap
  /\ "nl" \notin ToSet(logBuffer) /\ logHistory.lines = logHistory.ends
  /\ ToSet(logFile) \subseteq ToSet(logHistory.all)
=============================================================================
