--------------------------- MODULE MCReviewRound ----------------------------
(* What is made of the model's answers: rounds of two experts over a diff   *)
(* of two or three files, with the answers to each batch left open, and the *)
(* calls that fetch an answer, over every chain of up to two providers.  A  *)
(* behaviour is one or the other; the rest of the state stays as it was.    *)
EXTENDS ReviewRound, LlmFallback

VARIABLE part

ModelInit ==
  \/ part = "round" /\ RoundInit /\ Init /\ chain = <<>>
  \/ part = "call" /\ Init /\ RoundInit /\ input = CHOOSE r \in Rounds : TRUE

ModelNext ==
  /\ UNCHANGED part
  /\ \/ part = "round" /\ RoundNext /\ UNCHANGED vars
     \/ part = "call" /\ Next /\ UNCHANGED roundVars

ModelSpec == ModelInit /\ [][ModelNext]_<<part, roundVars, vars>>

\* File 1 has two hunks (the second starts after a removed and an added line), file 2 one
\* with a line more on the old side, file 3 is documentation, file 4 only loses lines.
Hunk(old, new, lines) ==
  [old_start |-> old, new_start |-> new, lines |-> lines,
   new_lines |-> Len(SelectSeq(lines, LAMBDA l : l \in {"+", " "}))]
File1 == [path |-> 1, hunks |-> <<Hunk(1, 1, <<"-", "+", "+", " ">>), Hunk(9, 10, <<" ", "+">>)>>]
File2 == [path |-> 2, hunks |-> <<Hunk(4, 4, <<"-", " ", "+", "\\">>)>>]
File3 == [path |-> 3, hunks |-> <<Hunk(0, 1, <<"+", "+">>)>>]
File4 == [path |-> 4, hunks |-> <<Hunk(7, 6, <<"-", "-">>)>>]

Issue(id, file, line, severity, confidence, title) ==
  [id |-> id, file |-> file, line |-> line, end |-> {}, severity |-> severity,
   confidence |-> confidence, title |-> title, advice |-> 1, leak |-> ""]

Answer(shape, issues) == [shape |-> shape, issues |-> issues, omitted |-> {}]

E(index, verdict, severity) == [index |-> index, verdict |-> verdict, severity |-> severity]
Said1(entries) == [kind |-> "list", entries |-> entries]
NoList(kind) == [kind |-> kind, entries |-> <<>>]

Verdicts == {Said1(<<E({0}, "drop", {})>>), Said1(<<E({1}, "drop", {}), E({0}, "keep", {})>>),
             Said1(<<E({}, "drop", {}), E({7}, "drop", {})>>), NoList("error"), NoList("garbage")}
Rulings == {Said1(<<E({0}, "false_positive", {}), E({1}, "downgrade", {"low"})>>),
            Said1(<<E({0}, "downgrade", {"critical"}), E({1}, "confirm", {})>>),
            Said1(<<E({0}, "downgrade", {"medium"}), E({0}, "downgrade", {"note"})>>),
            Said1(<<E({1}, "drop", {}), E({5}, "drop", {})>>), NoList("error")}

Report == [max_findings |-> 3, verify |-> TRUE, feedback |-> TRUE, min_confidence |-> 5,
           drop_low |-> FALSE, adjudicate |-> TRUE, floor |-> "medium"]
NoEnv == [severity |-> {}, confidence |-> {}, cap |-> {}, docs |-> {}]

\* Two experts agree on one finding, disagree on the advice at a place, and repeat one that
\* users called a false positive before they took it back.
Usual ==
  [answers |-> <<Answer("mapping", <<Issue(1, 1, {2}, {"critical"}, {9}, <<1, 1>>),
                                     Issue(2, 1, {10}, {"high"}, {8}, <<2, 1>>),
                                     Issue(3, 2, {5}, {"nonsense"}, {3}, <<3, 1>>)>>),
                 Answer("fenced", <<Issue(4, 1, {2}, {"high"}, {9}, <<1, 2>>),
                                    Issue(5, 2, {4}, {"high"}, {10}, <<4, 1>>)>>)>>,
   diff |-> <<File1, File2>>, report |-> Report, models |-> TRUE,
   verdicts |-> Verdicts, rulings |-> Rulings,
   feedback |-> <<[print |-> <<2, {4}, <<4, 1>>>>, at |-> 1, verdict |-> "false_positive"],
                  [print |-> <<1, {10}, <<2, 1>>>>, at |-> 1, verdict |-> "false_positive"],
                  [print |-> <<1, {10}, <<2, 1>>>>, at |-> 2, verdict |-> "accepted"]>>,
   weights |-> [e \in {1} |-> 60], reviewed |-> 2, prose |-> FALSE, source |-> TRUE, cut_short |-> {},
   env |-> NoEnv, crowd |-> 1, diff_fails |-> FALSE, calls |-> {"ok"}]

\* Low confidence is dropped; the diff cannot be fetched again; findings without a line,
\* over several lines, outside the hunks, in an unknown file; a file that only loses lines.
Sparse ==
  [Usual EXCEPT !.answers =
     <<Answer("mapping", <<[Issue(1, 1, {1}, {"high"}, {9}, <<1, 1>>) EXCEPT !.end = {3}],
                           Issue(2, 2, {}, {"critical"}, {8}, <<2, 1>>),
                           Issue(3, 4, {6}, {"high"}, {9}, <<3, 1>>)>>),
       Answer("prose", <<>>), Answer("garbage", <<>>),
       Answer("mapping", <<Issue(4, 1, {40}, {"high"}, {}, <<4, 1>>),
                           Issue(6, 1, {66}, {"high"}, {264}, <<6, 1>>),
                           Issue(5, 9, {2}, {"high"}, {9}, <<5, 1>>)>>)>>,
     !.diff = <<File1, File2, File4>>, !.feedback = <<>>, !.reviewed = 2,
     !.report.drop_low = TRUE, !.report.min_confidence = 6, !.report.verify = FALSE,
     !.report.adjudicate = FALSE, !.diff_fails = TRUE, !.calls = {"ok", "lost", "refused"}]

\* A forge whose calls fail in every way, and more findings than notes may be posted.
Stormy ==
  [Usual EXCEPT !.answers =
     <<Answer("mapping", <<Issue(1, 1, {2}, {"high"}, {9}, <<1, 1>>),
                           Issue(2, 1, {11}, {"critical"}, {8}, <<2, 1>>),
                           Issue(3, 2, {4}, {"high"}, {10}, <<3, 1>>)>>)>>,
     !.models = FALSE, !.feedback = <<>>, !.crowd = 2, !.calls = {"ok", "lost", "refused", "down", "garbled"}]

\* Documentation only, with and without the switch that allows notes there.
Docs == [Stormy EXCEPT !.answers = <<Answer("mapping", <<Issue(1, 3, {1}, {"critical"}, {9}, <<1, 1>>)>>)>>,
                       !.diff = <<File3>> \o [i \in 1 .. 4 |-> [File3 EXCEPT !.path = 4 + i]], !.reviewed = 5, !.prose = TRUE]
DocsAllowed == [Docs EXCEPT !.env.docs = {TRUE}, !.env.cap = {1}, !.env.severity = {"low"}, !.calls = {"ok", "down"}]

\* Paths that only look like documentation: a name that begins like one, an absolute path.
NearDocs(file) ==
  [Stormy EXCEPT !.answers = <<Answer("mapping", <<Issue(1, file, {1}, {"critical"}, {9}, <<1, 1>>)>>)>>,
                 !.diff = <<[File3 EXCEPT !.path = file]>>, !.reviewed = 1, !.calls = {"ok"}]

\* A secret in a finding: on the board, or in a note only.
Leaking(surface) ==
  [Stormy EXCEPT !.answers[1].issues[2].leak = surface, !.calls = {"ok"}]

\* The reader of a large file is asked for a line beyond its end.
BeyondTheEnd == [Usual EXCEPT !.verdicts = {NoList("error")}, !.cut_short = {2}, !.rulings = {NoList("garbage")}]

MCRounds == {Usual, Sparse, Stormy, Docs, DocsAllowed, NearDocs(10), NearDocs(11), Leaking("board"), Leaking("note"), BeyondTheEnd}

Path(dirs, name) == [lead |-> "", dirs |-> dirs, name |-> name]
MCPathOf ==
  [f \in 1 .. 11 |-> CASE f = 3 -> Path(<<"src", "docs">>, <<"guide", ".", "txt">>)
                      [] f = 5 -> [Path(<<".github", "workflows">>, <<"ci", ".", "yaml">>) EXCEPT !.lead = "./"]
                      [] f = 6 -> Path(<<>>, <<"license", "-", "mit">>)
                      [] f = 7 -> Path(<<>>, <<".gitlab-ci", ".", "yml">>)
                      [] f = 8 -> Path(<<"src">>, <<"readme", ".", "md">>)
                      [] f = 9 -> Path(<<"..">>, <<"x", ".", "rs">>)
                      [] f = 10 -> Path(<<>>, <<"license", "_", "check", ".", "rs">>)
                      [] f = 11 -> [Path(<<".github">>, <<"x", ".", "sh">>) EXCEPT !.lead = "/"]
                      [] OTHER -> Path(<<"src">>, <<"f", ".", "rs">>)]
=============================================================================
