------------------------------ MODULE RepoScan ------------------------------
(***************************************************************************)
(* The files of a repository review (repo/mod.rs, repo/filter.rs), their   *)
(* chunks (experts/chunk.rs), the search for credentials in them           *)
(* (repo/analysis.rs) and the counted facts (experts/facts.rs).            *)
(*                                                                         *)
(* A file on disk is [path, dot, ext, there, dir, readable, marked, loc]:  *)
(* the components of its path, whether its name starts with a dot, its     *)
(* extension, what is at the path, whether its text carries a mark of      *)
(* generated code and its lines.  A line of Rust is [kind, toks]: kind is  *)
(* "cfg" (the bare attribute), "attr" (another line that starts with #),   *)
(* "mod" (opens a module) or "code"; the tokens are those the brace        *)
(* counter tells apart.                                                    *)
(***************************************************************************)
EXTENDS Integers, Sequences, SequencesExt, FiniteSets, FiniteSetsExt, TLC

IgnorePatterns ==
  {".git", "node_modules", "target", "__pycache__", ".mypy_cache", ".ruff_cache", ".pytest_cache", ".venv", "venv",
   "vendor", ".generated", "generated", "dist", "build"}
KeptDotFiles == {".gitignore", ".editorconfig", ".rustfmt.toml", ".clippy.toml", ".gitlab-ci.yml", ".travis.yml"}
LockFiles == {"Cargo.lock", "package-lock.json", "yarn.lock", "Gemfile.lock"}
BinaryExts == {"png", "jpg", "svg", "woff", "pdf", "doc", "xls", "zip", "tar", "gz", "exe", "so", "wasm", "mp3", "pyc", "class", "o"}
LanguageExts ==
  [Rust |-> {"rs"}, Python |-> {"py"}, JavaScript |-> {"js"}, TypeScript |-> {"ts", "tsx"}, Go |-> {"go"}, Java |-> {"java"},
   C |-> {"c", "h"}, Config |-> {"toml", "yaml", "yml", "json"}, Documentation |-> {"md", "rst", "txt"},
   Web |-> {"html", "css", "scss", "less"}, Vue |-> {"vue"}, Shell |-> {"sh", "bash", "zsh"}, SQL |-> {"sql"}]
DetectLanguage(ext) ==
  IF \E l \in DOMAIN LanguageExts : ext \in LanguageExts[l] THEN CHOOSE l \in DOMAIN LanguageExts : ext \in LanguageExts[l] ELSE "Other"

\* is_ignored: only the last component is looked at.
IsIgnored(path, submodules) == Last(path) \in IgnorePatterns \/ <<Last(path)>> \in submodules

\* classify_file: dropped are dot files but six, binaries and what is not text.
ClassifyFile(f) ==
  IF (f.dot /\ Last(f.path) \notin KeptDotFiles) \/ f.ext \in BinaryExts \/ ~f.readable THEN <<>>
  ELSE <<[path |-> f.path, language |-> DetectLanguage(f.ext), loc |-> f.loc,
          is_generated |-> \/ Last(f.path) \in LockFiles \/ f.marked
                           \/ \E i \in 1 .. Len(f.path) - 1 : f.path[i] \in {"generated", "review_reports"}]>>

\* scan of a git checkout: what git lists, outside the submodules, that is a file today.
ScanGit(files, listed, submodules) ==
  FlattenSeq([i \in DOMAIN files |->
    LET f == files[i]
    IN  IF i \in listed /\ ~(\E s \in submodules : IsPrefix(s, f.path)) /\ f.there /\ ~f.dir /\ ~IsIgnored(f.path, submodules)
        THEN ClassifyFile(f) ELSE <<>>])

\* scan_dir: an ignored directory, or one that cannot be read, is left out with all below it.
ScanDir(files, unreadable) ==
  FlattenSeq([i \in DOMAIN files |->
    LET f == files[i]
        above == {SubSeq(f.path, 1, n) : n \in 1 .. Len(f.path)}
    IN  IF f.there /\ ~f.dir /\ (\A p \in above : ~IsIgnored(p, {})) /\ (\A p \in unreadable : p \notin above \ {f.path})
        THEN ClassifyFile(f) ELSE <<>>])

\* scan: a missing root is an error, a failing git too.
Scan(repo) ==
  IF repo.git THEN IF repo.lists THEN {ScanGit(repo.files, repo.listed, repo.submodules)} ELSE {}
  ELSE IF repo.exists THEN {ScanDir(repo.files, repo.unreadable)} ELSE {}

LocOf(entries) == FoldLeft(LAMBDA n, e : n + e.loc, 0, entries)

\* compute_stats; 500 lines make a large file.
ComputeStats(entries) ==
  LET of(l) == SelectSeq(entries, LAMBDA e : e.language = l)
  IN  [total_files |-> Len(entries), total_loc |-> LocOf(entries),
       generated_files |-> Len(SelectSeq(entries, LAMBDA e : e.is_generated)),
       languages |-> [l \in {entries[i].language : i \in DOMAIN entries} |-> [files |-> Len(of(l)), loc |-> LocOf(of(l))]],
       large_files |-> SelectSeq(entries, LAMBDA e : e.loc > 500)]

\* should_exclude.
ShouldExclude(e) == e.is_generated

-----------------------------------------------------------------------------
(* Chunks.                                                                 *)

MinFilesPerChunk == 3

\* Fault: what is too small for a chunk is left out.
SmallGroupsLost(large, small) == large

\* Each small group goes to the chunk with the most files (the last of several), or becomes the first chunk.
MergeSmall(large, small) ==
  LET most(cs) == CHOOSE i \in DOMAIN cs : \A k \in DOMAIN cs : Len(cs[k].files) < Len(cs[i].files) \/ (Len(cs[k].files) = Len(cs[i].files) /\ k <= i)
      put(cs, g) == IF cs = <<>> THEN <<g>> ELSE [cs EXCEPT ![most(cs)].files = @ \o g.files]
  IN  FoldLeft(put, large, small)

\* chunk_by_module: by the first two components below the root, in the order of their names.
ChunkByModule(entries, order) ==
  LET module(e) == IF Len(e.path) >= 2 THEN <<e.path[1], e.path[2]>> ELSE <<"other">>
      mine(m) == SelectSeq(entries, LAMBDA e : ~ShouldExclude(e) /\ module(e) = m)
      groups == SelectSeq([i \in DOMAIN order |-> [module |-> order[i], files |-> mine(order[i])]], LAMBDA g : g.files # <<>>)
      big(g) == g.module = <<"other">> \/ Len(g.files) >= MinFilesPerChunk
      chunks == MergeSmall(SelectSeq(groups, big), SelectSeq(groups, LAMBDA g : ~big(g)))
  IN  [i \in DOMAIN chunks |-> [module |-> chunks[i].module, files |-> chunks[i].files, total_loc |-> LocOf(chunks[i].files)]]

-----------------------------------------------------------------------------
(* Inline test modules.  Tokens: the braces, bs (a backslash), q (a double *)
(* quote), two slashes, bo and bc (a block comment opens, closes), raw and *)
(* end (a raw string's with a hash), raw0 (one without opens), lit (a      *)
(* literal that holds a brace), x.                                         *)

\* A raw string ends at the first quote with as many hashes as it began with; whatever holds a
\* quote ends one that has none.  Without such an end on the line the rest counts as a string.
RawEnds(open) == IF open = "raw" THEN {"end"} ELSE {"q", "end", "raw", "raw0"}
RawCloses(toks, i) == \E k \in i + 1 .. Len(toks) : toks[k] \in RawEnds(toks[i])

\* count_code_braces: the braces outside strings, literals and comments; where the line ends.
CountCodeBraces(toks, mode) ==
  LET step(s, i) ==
        LET t == toks[i]
        IN  CASE s.mode = "stop" \/ s.mode = "stop in string" -> s
              [] s.mode = "block" -> IF t = "bc" THEN [s EXCEPT !.mode = "code"] ELSE s
              [] s.mode \in {"raw", "raw0"} -> IF t \in RawEnds(s.mode) THEN [s EXCEPT !.mode = "code"] ELSE s
              [] s.mode = "string" /\ s.esc -> [s EXCEPT !.esc = FALSE]
              [] s.mode = "string" /\ ~s.esc ->
                   CASE t = "bs" -> [s EXCEPT !.esc = i < Len(toks)] [] t \in {"q", "end", "raw", "raw0"} -> [s EXCEPT !.mode = "code"] [] OTHER -> s
              [] OTHER ->
                   CASE t = "//" -> [s EXCEPT !.mode = "stop"]
                     [] t = "bo" -> [s EXCEPT !.mode = "block"]
                     [] t = "q" \/ t = "end" -> [s EXCEPT !.mode = "string"]
                     [] t \in {"raw", "raw0"} -> [s EXCEPT !.mode = IF RawCloses(toks, i) THEN t ELSE "stop in string"]
                     [] t = "{" -> [s EXCEPT !.delta = @ + 1]
                     [] t = "}" -> [s EXCEPT !.delta = @ - 1]
                     [] OTHER -> s
      last == FoldLeft(step, [mode |-> mode, delta |-> 0, esc |-> FALSE], [i \in DOMAIN toks |-> i])
  IN  [delta |-> last.delta, mode |-> CASE last.mode = "stop" -> "code" [] last.mode = "stop in string" -> "string" [] OTHER -> last.mode]

\* cfg_test_line_spans: from the attribute over further attributes to the line on which
\* the module's braces balance.  Attributes and an item that is no module are not counted.
SpanStep(s, l, i, c, depth) ==
  LET body == IF depth <= 0 THEN [s EXCEPT !.mode = c.mode, !.phase = "out", !.depth = 0, !.spans = Append(@, <<s.start, i>>)]
              ELSE [s EXCEPT !.mode = c.mode, !.phase = "body", !.depth = depth]
  IN  CASE s.phase = "out" -> [s EXCEPT !.mode = c.mode, !.phase = IF l.kind = "cfg" /\ c.delta = 0 THEN "attr" ELSE "out", !.start = i]
        [] s.phase = "attr" -> CASE l.kind \in {"cfg", "attr"} -> s [] l.kind = "mod" -> body [] OTHER -> [s EXCEPT !.phase = "out"]
        [] OTHER -> body
CountedStep(s, l, i, c) == SpanStep(s, l, i, c, s.depth + c.delta)
CfgTestLineSpans(lines) ==
  LET step(s, i) == CountedStep(s, lines[i], i, CountCodeBraces(lines[i].toks, s.mode))
      close(last) == last.spans \o (IF last.phase = "body" THEN <<<<last.start, Len(lines) + 1>>>> ELSE <<>>)
  IN  close(FoldLeft(step, [mode |-> "code", phase |-> "out", start |-> 0, depth |-> 0, spans |-> <<>>], [i \in DOMAIN lines |-> i]))

-----------------------------------------------------------------------------
(* The search for credentials.  A line also has comment (it begins with    *)
(* //) and hits: per pattern the matches, each [dummy, bracket, binding,   *)
(* colon, quoted].                                                         *)

SecurityPatterns == <<"Possible API key", "Possible secret key", "Hardcoded password", "Possible token", "Private key">>

\* is_test_file: by name or by a directory of tests.
IsTestFile(path, testName) == testName \/ \E i \in 1 .. Len(path) - 1 : path[i] \in {"tests", "Tests", "__tests__", "test", "spec"}

\* The exceptions: placeholders, a Vue binding, and for an API key in Rust a type annotation.
IsRealMatch(m, pattern, file) ==
  /\ ~m.dummy /\ ~m.bracket
  /\ ~(file.ext = "vue" /\ m.binding)
  /\ ~(pattern = 1 /\ file.ext = "rs" /\ m.colon /\ ~m.quoted)

\* scan_security_patterns_in_text: one finding for a line and a pattern.
ScanSecurityPatterns(file) ==
  LET spans == CfgTestLineSpans(file.lines)
      skipped(i) == file.lines[i].comment \/ \E k \in DOMAIN spans : spans[k][1] <= i /\ i <= spans[k][2]
      found(i, p) == \E m \in file.lines[i].hits : m.pattern = p /\ IsRealMatch(m, p, file)
  IN  IF file.is_generated \/ IsTestFile(file.path, file.testName) \/ file.ext = "md" THEN {}
      ELSE {[line |-> i, pattern |-> SecurityPatterns[p], kind |-> "mechanical"] :
              <<i, p>> \in {x \in (DOMAIN file.lines) \X (DOMAIN SecurityPatterns) : ~skipped(x[1]) /\ found(x[1], x[2])}}

-----------------------------------------------------------------------------
(* Facts.                                                                  *)

\* is_ci_config: by name, or below the directory of a service.
IsCiConfig(path) ==
  \/ Last(path) \in {".gitlab-ci.yml", ".gitlab-ci.yaml", "Jenkinsfile", ".travis.yml", "azure-pipelines.yml", "appveyor.yml", ".drone.yml"}
  \/ \E i \in 1 .. Len(path) - 2 : path[i] = ".github" /\ path[i + 1] = "workflows"
  \/ \E i \in 1 .. Len(path) - 1 : path[i] \in {".circleci", ".buildkite"}

\* split_top_level_commas over characters; "a" and "d" are the two quotes, "bs" the backslash.
SplitTopLevelCommas(params) ==
  LET step(s, ch) ==
        LET more == Append(s.current, ch)
        IN  CASE s.escaped -> [s EXCEPT !.current = more, !.escaped = FALSE]
              [] ~s.escaped /\ ch = "bs" /\ s.quote # "" -> [s EXCEPT !.current = more, !.escaped = TRUE]
              [] ~s.escaped /\ ch \in {"a", "d"} ->
                   [s EXCEPT !.current = more, !.quote = IF s.quote = ch THEN "" ELSE IF s.quote = "" THEN ch ELSE @]
              [] ~s.escaped /\ s.quote = "" /\ ch = "(" -> [s EXCEPT !.current = more, !.depth = @ + 1]
              [] ~s.escaped /\ s.quote = "" /\ ch = ")" -> [s EXCEPT !.current = more, !.depth = @ - 1]
              [] ~s.escaped /\ s.quote = "" /\ ch = "," /\ s.depth = 0 -> [s EXCEPT !.parts = Append(@, s.current), !.current = <<>>]
              [] OTHER -> [s EXCEPT !.current = more]
      last == FoldLeft(step, [parts |-> <<>>, depth |-> 0, quote |-> "", escaped |-> FALSE, current |-> <<>>], params)
  IN  IF \A i \in DOMAIN last.current : last.current[i] = " " THEN last.parts ELSE Append(last.parts, last.current)

\* record_signature: an arrow after the last parenthesis; a colon before the "=" of every parameter.
RecordSignature(sig) ==
  LET opens == {i \in DOMAIN sig : sig[i] = "("}
      closes == {i \in DOMAIN sig : sig[i] = ")"}
      params == IF opens # {} /\ closes # {} /\ Min(opens) < Max(closes) THEN SubSeq(sig, Min(opens) + 1, Max(closes) - 1) ELSE <<>>
      shown(t) == SelectSeq(t, LAMBDA ch : ch \notin {" ", "*"})
      head(t) == LET at == {i \in DOMAIN t : t[i] = "="} IN IF at = {} THEN t ELSE SubSeq(t, 1, Min(at) - 1)
      plain(t) == shown(t) = <<>> \/ shown(t) = <<"/">> \/ shown(head(t)) = <<"self">> \/ ":" \in ToSet(head(t))
      parts == SplitTopLevelCommas(params)
  IN  [return_annotated |-> closes # {} /\ "->" \in ToSet(SubSeq(sig, Max(closes) + 1, Len(sig))),
       fully_param_annotated |-> \A i \in DOMAIN parts : plain(parts[i])]

MaxSignatureLines == 64

\* analyse_python_defs: a signature is joined up to the line that ends with a colon, or 64 lines.
AnalysePythonDefs(lines) ==
  LET step(s, l) ==
        LET joined == s.sig \o <<" ">> \o l.toks
            ends == l.toks # <<>> /\ Last(l.toks) = ":"
        IN  IF s.lines > 0
            THEN IF ends \/ s.lines + 1 >= MaxSignatureLines THEN [sigs |-> Append(s.sigs, joined), sig |-> <<>>, lines |-> 0]
                 ELSE [s EXCEPT !.sig = joined, !.lines = @ + 1]
            ELSE IF ~l.def THEN s
                 ELSE IF ends THEN [s EXCEPT !.sigs = Append(@, l.toks)] ELSE [s EXCEPT !.sig = l.toks, !.lines = 1]
      last == FoldLeft(step, [sigs |-> <<>>, sig |-> <<>>, lines |-> 0], lines)
      sigs == IF last.lines > 0 THEN Append(last.sigs, last.sig) ELSE last.sigs
  IN  [total |-> Len(sigs), return_annotated |-> Len(SelectSeq(sigs, LAMBDA s : RecordSignature(s).return_annotated)),
       fully_param_annotated |-> Len(SelectSeq(sigs, LAMBDA s : RecordSignature(s).fully_param_annotated))]

\* compute: counts over what is not generated; coverage only where there is a definition (in percent).
ComputeFacts(entries, python) ==
  LET own == SelectSeq(entries, LAMBDA e : ~ShouldExclude(e))
      tests == SelectSeq(own, LAMBDA e : IsTestFile(e.path, FALSE))
  IN  [python |-> python, coverage |-> IF python.total > 0 THEN {(100 * python.return_annotated) \div python.total} ELSE {},
       ci_configs |-> {own[i].path : i \in {k \in DOMAIN own : IsCiConfig(own[k].path)}},
       test_files |-> Len(tests), source_files |-> Len(own) - Len(tests)]

\* to_prompt_block: null rather than zero when nothing was counted.
ToPromptBlock(facts) == [python |-> IF facts.coverage = {} THEN "null" ELSE "counts", ci |-> Cardinality(facts.ci_configs)]

-----------------------------------------------------------------------------
(* Properties.                                                             *)

(* The scan, the statistics and chunk_by_module: nothing below an ignored   *)
(* directory is seen outside git; the languages add up to the totals; every *)
(* file that is not generated is in one chunk, once, and a chunk of fewer   *)
(* than three files is the top level's or the only one; the tests and the   *)
(* sources of the facts are those files again.                              *)
RepoIsPartitioned(c) ==
  \A entries \in Scan(c.repo) :
  \A stats \in {ComputeStats(entries)}, chunks \in {ChunkByModule(entries, c.order)} :
    LET placed == FlattenSeq([i \in DOMAIN chunks |-> chunks[i].files])
        own == {e \in ToSet(entries) : ~e.is_generated}
        facts == ComputeFacts(entries, AnalysePythonDefs(<<>>))
    IN  /\ ToSet(placed) = own /\ Len(placed) = Cardinality(own)
        /\ \A i \in DOMAIN chunks : Len(chunks[i].files) >= MinFilesPerChunk \/ chunks[i].module = <<"other">> \/ Len(chunks) = 1
        /\ MapThenSumSet(LAMBDA l : stats.languages[l].files, DOMAIN stats.languages) = stats.total_files
        /\ MapThenSumSet(LAMBDA l : stats.languages[l].loc, DOMAIN stats.languages) = stats.total_loc
        /\ facts.test_files + facts.source_files = Len(placed)
        /\ ToPromptBlock(facts).python = "null"
        /\ ~c.repo.git => \A e \in own : \A n \in DOMAIN e.path : e.path[n] \notin IgnorePatterns

(* cfg_test_line_spans and the search for credentials: the spans do not     *)
(* overlap, and when attributes sit in code and skipped lines are complete  *)
(* in themselves, they are exactly the modules a reading of the whole text  *)
(* finds; nothing is reported inside them and every real match outside is.  *)
SweepIsExact(file) ==
  \A spans \in {CfgTestLineSpans(file.lines)}, found \in {ScanSecurityPatterns(file)} :
  \A modes \in {FoldLeft(LAMBDA ms, l : Append(ms, CountCodeBraces(l.toks, Last(ms)).mode), <<"code">>, file.lines)} :
  LET lines == file.lines
      n == Len(lines)
      delta(i) == CountCodeBraces(lines[i].toks, modes[i]).delta
      depth(a, b) == MapThenSumSet(delta, a .. b)
      item(i) == Min({k \in i + 1 .. n + 1 : k = n + 1 \/ lines[k].kind \notin {"cfg", "attr"}})
      regular == \A i \in 1 .. n : lines[i].kind = "cfg" => modes[i] = "code" /\ \A k \in i .. Min({item(i), n}) : lines[k].kind # "mod" => modes[k + 1] = "code"
      end(m) == Min({k \in m .. n + 1 : k = n + 1 \/ depth(m, k) <= 0})
      modules == {<<i, end(item(i))>> : i \in {k \in 1 .. n : lines[k].kind = "cfg" /\ item(k) <= n /\ lines[item(k)].kind = "mod"}}
  IN  /\ \A i \in 2 .. Len(spans) : spans[i - 1][2] < spans[i][1]
      /\ regular => ToSet(spans) = {m \in modules : ~\E o \in modules : o[1] < m[1] /\ m[1] <= o[2]}
      /\ \A f \in found : \A i \in DOMAIN spans : ~(spans[i][1] <= f.line /\ f.line <= spans[i][2])
      /\ (file.ext = "rs" /\ file.path = <<"src", "f">>) =>
           \A i \in 1 .. n : (~lines[i].comment /\ lines[i].hits # {} /\ \A m \in lines[i].hits : IsRealMatch(m, m.pattern, file))
              => (\E f \in found : f.line = i) \/ \E k \in DOMAIN spans : spans[k][1] <= i /\ i <= spans[k][2]

(* split_top_level_commas: joined with commas the parts give back the text  *)
(* up to a blank end, and no part ends inside a quote.                      *)
SplitLosesNothing(params) ==
  LET parts == SplitTopLevelCommas(params)
      joined == FoldLeft(LAMBDA s, p : s \o <<",">> \o p, <<>>, parts)
      quotes(p, ch) == Cardinality({i \in DOMAIN p : p[i] = ch})
  IN  /\ parts = <<>> \/ IsPrefix(Tail(joined), params)
      /\ \A i \in Max({1, Len(joined)}) .. Len(params) : params[i] \in {" ", ","}
      /\ "bs" \notin ToSet(params) /\ "d" \notin ToSet(params) => \A i \in 1 .. Len(parts) - 1 : quotes(parts[i], "a") % 2 = 0
=============================================================================
