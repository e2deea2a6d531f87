---------------------------- MODULE ReviewContext ----------------------------
(***************************************************************************)
(* What an expert is given to read.  First the diff (src/diff/,            *)
(* src/input/full_path.rs, src/git/local.rs): it is parsed into files and  *)
(* hunks, files nobody should review are filtered out, a large change is   *)
(* compressed and cut into chunks; the second source of a diff is          *)
(* `review --path`, which renders a directory as one diff of new files.    *)
(* Then what is told besides it (src/context/, src/prompt/, src/language/) *)
(* and where the passes after it read the reviewed files from              *)
(* (src/team/file_source.rs).                                              *)
(*                                                                         *)
(* A path is the sequence of its components ("/" first when it is          *)
(* absolute); a line of a diff is a record with its leading marker, its    *)
(* length and, for header lines, what the header carries.  Tokens are      *)
(* counted as lengths: count_tokens is external and only compared with     *)
(* limits.                                                                 *)
(*                                                                         *)
(* A text is the sequence of its characters, each given by its bytes: 1, 2 *)
(* or 3 for an ordinary one, Blank for a trailing newline, Broken for a    *)
(* byte that is not UTF-8 and Replaced for the U+FFFD that stands for it.  *)
(***************************************************************************)
EXTENDS Integers, Sequences, SequencesExt, FiniteSets, FiniteSetsExt, TLC

CONSTANTS MaxDiffSize,      \* MAX_DIFF_SIZE
          MediumLine,       \* 200, the line length of medium compression
          AggressiveLine,   \* 120, that of aggressive compression
          AggressiveTokens  \* 40000, its token budget

-----------------------------------------------------------------------------
(* Names and what the code reads off them.                                 *)

\* The component names the model knows, in their alphabetical order.
NameOrder == <<"..", "LICENSE", "a", "b", "c.c", "c:d", "mytarget", "p", "s", "s p", "src", "target", "tests", "x.rs", "x_test.rs", "y.lock", "z.md", "~">>
NameRank(n) == CHOOSE i \in DOMAIN NameOrder : NameOrder[i] = n
UnsafeNames == {"c:d"}
SpacedNames == {"s p"}
\* A name in a header line, as the words it is split into: a blank in a name makes two.
HeaderWords(prefix, path) == IF Last(path) = "s p" THEN <<<<prefix>> \o Front(path) \o <<"s">>, <<"p">>>> ELSE <<<<prefix>> \o path>>
DevNull == <<"/", "dev", "null">>
ExtOf(n) == CASE n \in {"x.rs", "x_test.rs"} -> "rs" [] n = "c.c" -> "c" [] n = "y.lock" -> "lock" [] n = "z.md" -> "md" [] OTHER -> ""
SumOf(s) == FoldLeft(LAMBDA n, m : n + m, 0, s)
MapSeq(s, op(_)) == [i \in DOMAIN s |-> op(s[i])]

-----------------------------------------------------------------------------
(* parse_unified_diff.                                                     *)

DiffLineOf(marker, words, numbers, len) == [marker |-> marker, words |-> words, numbers |-> numbers, len |-> len]
Body(marker, len) == DiffLineOf(marker, <<>>, <<>>, len)
DiffFile(old, new, path, hunks) == [old_path |-> old, new_path |-> new, path |-> path, additions |-> 0, deletions |-> 0, hunks |-> hunks]

TrimStart(p, name) ==
  LET k == Max({i \in 0 .. Len(p) - 1 : \A j \in 1 .. i : p[j] = name}) IN SubSeq(p, k + 1, Len(p))
HasParentDir(p) == \E i \in DOMAIN p : p[i] = ".."
ParsePathFromDiffHeader(words) ==
  LET a == TrimStart(words[3], "a")  b == TrimStart(words[4], "b")  path == IF b = DevNull THEN a ELSE b IN
  IF Len(words) < 4 THEN <<"unknown">> ELSE IF HasParentDir(path) \/ path[1] = "/" THEN <<>> ELSE path
IsSafeDiffPath(p) == p # <<>> /\ p[1] \notin {"/", "~"} /\ ~HasParentDir(p) /\ \A i \in DOMAIN p : p[i] \notin UnsafeNames

\* A range "start,count" of a hunk header: a missing range is 0,0, a missing or unreadable count 1.
ParseHunkHeader(ranges) ==
  LET range(i) == IF i \in DOMAIN ranges THEN ranges[i] ELSE <<0, 0>>
      number(r, j, default) == IF j \in DOMAIN r /\ r[j] >= 0 THEN r[j] ELSE default
  IN <<number(range(1), 1, 0), number(range(1), 2, 1), number(range(2), 1, 0), number(range(2), 2, 1)>>

KindOf(marker) == CASE marker \in {"+", "+++"} -> "add" [] marker \in {"-", "---"} -> "delete" [] OTHER -> "context"
\* Fault: a removed line that begins with two dashes is taken for the old name again.
DashesAreNames(file, line) ==
  CASE line.marker = "---" -> [file EXCEPT !.old_path = TrimStart(line.words[1], "a")]
    [] line.marker = "+++" /\ file.new_path = <<>> -> [file EXCEPT !.new_path = TrimStart(line.words[1], "b")]
    [] line.marker = "@@" -> [file EXCEPT !.hunks = Append(@, [numbers |-> ParseHunkHeader(line.numbers), lines |-> <<>>])]
    [] OTHER -> IF file.hunks = <<>> THEN file ELSE
         [file EXCEPT !.hunks[Len(file.hunks)].lines = Append(@, [kind |-> KindOf(line.marker), len |-> line.len]),
                      !.additions = @ + IF KindOf(line.marker) = "add" THEN 1 ELSE 0,
                      !.deletions = @ + IF KindOf(line.marker) = "delete" THEN 1 ELSE 0]
\* A line of a file's section: the names are read once, what follows in a hunk is content.
SectionLine(file, line) ==
  CASE line.marker = "---" /\ file.old_path = <<>> -> [file EXCEPT !.old_path = TrimStart(line.words[1], "a")]
    [] line.marker = "+++" /\ file.new_path = <<>> -> [file EXCEPT !.new_path = TrimStart(line.words[1], "b")]
    [] line.marker = "@@" -> [file EXCEPT !.hunks = Append(@, [numbers |-> ParseHunkHeader(line.numbers), lines |-> <<>>])]
    [] OTHER -> IF file.hunks = <<>> THEN file ELSE
         [file EXCEPT !.hunks[Len(file.hunks)].lines = Append(@, [kind |-> KindOf(line.marker), len |-> line.len]),
                      !.additions = @ + IF KindOf(line.marker) = "add" THEN 1 ELSE 0,
                      !.deletions = @ + IF KindOf(line.marker) = "delete" THEN 1 ELSE 0]
ParseUnifiedDiff(text) ==
  LET step(s, line) ==
        IF line.marker = "diff"
        THEN LET path == ParsePathFromDiffHeader(line.words) IN
             [files |-> s.files \o s.current, current |-> IF IsSafeDiffPath(path) THEN <<DiffFile(<<>>, <<>>, path, <<>>)>> ELSE <<>>]
        ELSE IF s.current = <<>> THEN s ELSE [s EXCEPT !.current = <<SectionLine(s.current[1], line)>>]
      end == FoldLeft(step, [files |-> <<>>, current |-> <<>>], text)
  IN IF SumOf([i \in DOMAIN text |-> text[i].len]) > MaxDiffSize THEN <<>> ELSE end.files \o end.current

-----------------------------------------------------------------------------
(* Which files are left out, and how a change is described.                *)

\* IGNORED_PATHS are looked for anywhere in the path, so a directory whose name only ends in one counts.
IgnoredPaths == {"target", "mytarget"}
IgnoredExtensions == {"y.lock"}
IgnoredFilenames == {"LICENSE"}
ShouldIgnore(path) ==
  /\ path # <<>>
  /\ \/ \E i \in 1 .. Len(path) - 1 : path[i] \in IgnoredPaths
     \/ Last(path) \in IgnoredExtensions \cup IgnoredFilenames
ParseAndFilterDiff(text) == SelectSeq(ParseUnifiedDiff(text), LAMBDA f : ~ShouldIgnore(f.new_path))

\* detect_language: the last language of the table with the most files of its extension.
ExtLangs == <<<<"rs", "Rust">>, <<"c", "C">>>>
DetectDiffLanguage(files) ==
  LET count(i) == Cardinality({j \in DOMAIN files : ExtOf(Last(files[j].path)) = ExtLangs[i][1]})
      best == Max({i \in DOMAIN ExtLangs : \A j \in DOMAIN ExtLangs : count(j) <= count(i)})
  IN IF count(best) = 0 THEN "Unknown" ELSE ExtLangs[best][2]
\* detect_language_from_diff_path, as its rank in the order of the language names.
LanguageRank(path) == CASE path = <<>> -> 2 [] ExtOf(Last(path)) = "c" -> 1 [] ExtOf(Last(path)) = "rs" -> 3 [] OTHER -> 2

RenderHunk(h) == 1 + SumOf([i \in DOMAIN h.lines |-> h.lines[i].len])
RenderFileDiff(f) == 1 + SumOf([i \in DOMAIN f.hunks |-> RenderHunk(f.hunks[i])])
RenderDiffText(files) == SumOf([i \in DOMAIN files |-> RenderFileDiff(files[i])])
Changes(f) == f.additions + f.deletions

-----------------------------------------------------------------------------
(* Compression of a large change.                                          *)

\* key[i] < key[j], integer sequences compared lexicographically.
LexBefore(a, b) ==
  \/ \E k \in 1 .. Min({Len(a), Len(b)}) : a[k] < b[k] /\ \A j \in 1 .. k - 1 : a[j] = b[j]
  \/ Len(a) < Len(b) /\ \A j \in DOMAIN a : a[j] = b[j]
StableSorted(s, key) ==
  [i \in DOMAIN s |-> s[SetToSortSeq(DOMAIN s, LAMBDA x, y : LexBefore(key[x], key[y]) \/ (key[x] = key[y] /\ x < y))[i]]]

LargePrThresholds(files, changes, tokens) == [max_files |-> files, max_total_changes |-> changes, max_tokens |-> tokens]
LevelRank(level) == CASE level = "none" -> 0 [] level = "light" -> 1 [] level = "medium" -> 2 [] level = "aggressive" -> 3
\* The severity is the number of thresholds passed and half the ratio of files (at least 1; a threshold of 0
\* makes it infinite): RatioOver(n, max, k) is "max(n / max, 1) > k".
RatioOver(n, max, k) == 1 > k \/ (IF max = 0 THEN n > 0 ELSE n > k * max)
AssessLargePr(files, t) ==
  LET changes == SumOf([i \in DOMAIN files |-> Changes(files[i])])
      details == Cardinality({x \in {"files", "changes", "tokens"} :
                    CASE x = "files" -> Len(files) > t.max_files [] x = "changes" -> changes > t.max_total_changes
                      [] x = "tokens" -> RenderDiffText(files) > t.max_tokens})
  IN IF details = 0 THEN "none" ELSE IF RatioOver(Len(files), t.max_files, 8 - 2 * details) THEN "aggressive"
     ELSE IF RatioOver(Len(files), t.max_files, 5 - 2 * details) THEN "medium" ELSE "light"

DeletionOnly(f) == f.hunks # <<>> /\ \A i \in DOMAIN f.hunks : \A j \in DOMAIN f.hunks[i].lines : f.hunks[i].lines[j].kind = "delete"
CompressDeletions(files) == SelectSeq(files, LAMBDA f : ~DeletionOnly(f))
SortFilesByLanguageAndSize(files) ==
  StableSorted(files, [i \in DOMAIN files |-> <<LanguageRank(files[i].new_path), 0 - Changes(files[i])>>])
TruncateLongLines(files, max) ==
  LET line(l) == IF l.len > max THEN [l EXCEPT !.len = max + 3] ELSE l
      hunk(h) == [h EXCEPT !.lines = MapSeq(h.lines, line)]
  IN MapSeq(files, LAMBDA f : [f EXCEPT !.hunks = MapSeq(f.hunks, hunk)])
\* The files from the first one on that does not fit any more are cut off.
ApplyTokenBudget(files, max) ==
  LET fits(n) == SumOf([i \in 1 .. n |-> RenderFileDiff(files[i])]) <= max IN
  IF max = 0 THEN files ELSE SubSeq(files, 1, Max({n \in 0 .. Len(files) : \A m \in 0 .. n : fits(m)}))

\* Fault: a deletion is told from a rename by the missing additions.
DropsWithoutAdditions(files, level) ==
  IF level = "none" THEN files ELSE SelectSeq(files, LAMBDA f : f.additions > 0 /\ ~ShouldIgnore(f.new_path))
ApplyCompression(files, level) ==
  LET kept == SelectSeq(files, LAMBDA f : ~ShouldIgnore(f.new_path))
      sorted == SortFilesByLanguageAndSize(CompressDeletions(kept))
  IN CASE level = "none" -> files
       [] level = "light" -> kept
       [] level = "medium" -> TruncateLongLines(sorted, MediumLine)
       [] level = "aggressive" -> ApplyTokenBudget(TruncateLongLines(sorted, AggressiveLine), AggressiveTokens)
ApplyConfiguredCompression(files, configured, assessed) ==
  CASE configured = "none" -> files
    [] configured = "light" -> CompressDeletions(files)
    [] configured \in {"medium", "aggressive"} -> ApplyCompression(files, configured)
    [] OTHER -> ApplyCompression(files, assessed)

-----------------------------------------------------------------------------
(* Chunking.                                                               *)

Chunking(chunks, current, tokens) == [chunks |-> chunks, current |-> current, tokens |-> tokens]
FinishChunk(s) == IF s.current = <<>> THEN s ELSE Chunking(Append(s.chunks, s.current), <<>>, 0)
TryFlushCurrent(s, tokens, max) == IF s.tokens + tokens > max THEN FinishChunk(s) ELSE s
AddFile(s, f, tokens) == Chunking(s.chunks, Append(s.current, f), s.tokens + tokens)
FillTotalChunks(chunks) == [i \in DOMAIN chunks |-> [files |-> chunks[i], chunk_index |-> i - 1, total_chunks |-> Len(chunks)]]
OversizedFile(files, max) == \E i \in DOMAIN files : RenderFileDiff(files[i]) > max

ChunkByFiles(files, max) ==
  LET add(s, f) == AddFile(TryFlushCurrent(s, RenderFileDiff(f), max), f, RenderFileDiff(f))
  IN FillTotalChunks(FinishChunk(FoldLeft(add, Chunking(<<>>, <<>>, 0), files)).chunks)

MakePartialFile(f, hunks) == [f EXCEPT !.hunks = hunks]
\* Fault: the hunks collected before an oversized one are not closed off first.
OversizedGoesFirst(f, max) ==
  LET add(s, h) == IF RenderHunk(h) > max THEN Chunking(Append(s.chunks, <<h>>), <<>>, 0) ELSE AddFile(TryFlushCurrent(s, RenderHunk(h), max), h, RenderHunk(h))
      groups == FinishChunk(FoldLeft(add, Chunking(<<>>, <<>>, 0), f.hunks)).chunks
  IN [i \in DOMAIN groups |-> <<MakePartialFile(f, groups[i])>>]
\* The chunks of one file too large for a chunk: groups of its hunks, an oversized hunk on its own.
SplitFileByHunks(f, max) ==
  LET alone(s, h) == LET closed == FinishChunk(s) IN Chunking(Append(closed.chunks, <<h>>), <<>>, 0)
      add(s, h) == IF RenderHunk(h) > max THEN alone(s, h) ELSE AddFile(TryFlushCurrent(s, RenderHunk(h), max), h, RenderHunk(h))
      groups == FinishChunk(FoldLeft(add, Chunking(<<>>, <<>>, 0), f.hunks)).chunks
  IN [i \in DOMAIN groups |-> <<MakePartialFile(f, groups[i])>>]
ChunkByHunks(files, max) ==
  LET split(s, f) == LET closed == FinishChunk(s) IN Chunking(closed.chunks \o SplitFileByHunks(f, max), <<>>, closed.tokens)
      add(s, f) == IF RenderFileDiff(f) <= max THEN AddFile(TryFlushCurrent(s, RenderFileDiff(f), max), f, RenderFileDiff(f)) ELSE split(s, f)
  IN FillTotalChunks(FinishChunk(FoldLeft(add, Chunking(<<>>, <<>>, 0), files)).chunks)
AdaptiveChunk(files, max) == IF OversizedFile(files, max) THEN ChunkByHunks(files, max) ELSE ChunkByFiles(files, max)
\* (directory, extension): the directory's components, a separator below every name, the extension.
SemanticKey(path) ==
  IF path = <<>> THEN <<0, 0>> ELSE
  MapSeq(Front(path), LAMBDA n : IF n \in ToSet(NameOrder) THEN NameRank(n) + 1 ELSE 1)
    \o <<0, CHOOSE i \in 1 .. 5 : <<"", "c", "lock", "md", "rs">>[i] = ExtOf(Last(path))>>
SemanticOrder(files) == StableSorted(files, [i \in DOMAIN files |-> SemanticKey(files[i].new_path)])
SemanticChunk(files, max) == ChunkByHunks(SemanticOrder(files), max)
ChunkDiff(files, strategy, max) ==
  CASE strategy = "files" -> ChunkByFiles(files, max) [] strategy = "hunks" -> ChunkByHunks(files, max)
    [] strategy = "semantic" -> SemanticChunk(files, max) [] OTHER -> AdaptiveChunk(files, max)

-----------------------------------------------------------------------------
(* review --path and the local git browser.                                *)

RepoEntry(path, symlink, readable, utf8, lines) == [path |-> path, symlink |-> symlink, readable |-> readable, utf8 |-> utf8, lines |-> lines]
\* walk_files: git's own listing where there is one, otherwise the tree without symbolic links and ignored directories.
IgnoredDirs == {"target"}
ListControlledFiles(entries, git) ==
  IF git THEN entries
  ELSE {e \in entries : ~e.symlink /\ \A i \in 1 .. Len(e.path) - 1 : e.path[i] \notin IgnoredDirs}
IsParserSafePath(path) == IsSafeDiffPath(path) /\ \A i \in DOMAIN path : path[i] \notin SpacedNames
SkipReason(e) ==
  CASE e.symlink -> "symlink" [] ~e.symlink /\ ~IsParserSafePath(e.path) -> "unsafe path"
    [] ~e.symlink /\ IsParserSafePath(e.path) /\ ShouldIgnore(e.path) -> "ignored file kind"
    [] ~e.symlink /\ IsParserSafePath(e.path) /\ ~ShouldIgnore(e.path) /\ ~e.readable -> "unreadable"
    [] ~e.symlink /\ IsParserSafePath(e.path) /\ ~ShouldIgnore(e.path) /\ e.readable /\ ~e.utf8 -> "non-UTF-8 content"
    [] OTHER -> "none"
RenderNewFileDiff(e) ==
  <<DiffLineOf("diff", <<<<"diff">>, <<"--git">>>> \o HeaderWords("a", e.path) \o HeaderWords("b", e.path), <<>>, 1),
    DiffLineOf("---", <<DevNull>>, <<>>, 1), DiffLineOf("+++", <<<<"b">> \o e.path>>, <<>>, 1),
    DiffLineOf("@@", <<>>, <<<<0, 0>>, <<IF e.lines = 0 THEN 0 ELSE 1, e.lines>>>>, 1)>>
    \o [i \in 1 .. e.lines |-> Body("+", 1)]
PathKey(p) == MapSeq(p, NameRank)
ReviewedPaths(files) == {e \in files : SkipReason(e) = "none"}
\* build_path_review_diff: refused (no text) or the diff, in the order of the paths, and the files in it.
BuildPathReviewDiff(repo, dir, entries, git) ==
  LET reviewed == SetToSortSeq(ReviewedPaths(ListControlledFiles(entries, git)), LAMBDA e, g : LexBefore(PathKey(e.path), PathKey(g.path))) IN
  IF repo # "directory" \/ dir.path = <<>> \/ dir.path[1] = "/" \/ HasParentDir(dir.path) \/ dir.is # "directory" \/ reviewed = <<>>
  THEN [refused |-> TRUE, diff |-> <<>>, files |-> <<>>]
  ELSE [refused |-> FALSE, diff |-> FlattenSeq(MapSeq(reviewed, RenderNewFileDiff)), files |-> reviewed]

GitRef(name, dash, odd) == [name |-> name, dash |-> dash, odd |-> odd]
ValidateRef(r) == r.name # "" /\ ~r.dash /\ ~r.odd
ValidatePath(p) == p # <<>> /\ p[1] # "/" /\ ~HasParentDir(p)
\* get_diff: the arguments after `git diff -U10`, or {} when a reference is refused.  since and until win over base and head.
GetDiff(base, head, staged, since, until) ==
  LET cached == IF staged THEN <<"--cached">> ELSE <<>>
      refs == IF since # {} THEN since \cup until ELSE {base} \cup head
      name(set) == (CHOOSE r \in set : TRUE).name
      range == IF since # {} THEN <<name(since), "..", IF until = {} THEN "HEAD" ELSE name(until)>>
               ELSE <<base.name>> \o IF head = {} THEN <<>> ELSE <<name(head)>>
  IN IF \A r \in refs : ValidateRef(r) THEN {cached \o range \o <<"--">>} ELSE {}

\* get_related_tests: beside the file and in the tests tree that mirrors src, those that exist.
RelatedTests(path, testOf, exists) ==
  LET beside == {Append(Front(path), t) : t \in testOf}
      mirrored == <<"tests">> \o Tail(path)
      mirror == IF path[1] = "src" /\ Len(path) > 1 THEN {mirrored} \cup {Append(Front(mirrored), t) : t \in testOf} ELSE {}
  IN (beside \cup mirror) \cap exists

-----------------------------------------------------------------------------
(* What handling a diff promises.                                          *)

\* External: the text git writes for a change - names split at blanks in the header line, no names for a rename
\* without content.  A file is [path, how, hunks] with hunks of body markers.
GitDiff(change) ==
  LET section(f) ==
        <<DiffLineOf("diff", <<<<"diff">>, <<"--git">>>> \o HeaderWords("a", f.path) \o HeaderWords("b", f.path), <<>>, 1)>>
        \o (IF f.hunks = <<>> THEN <<>> ELSE <<DiffLineOf("---", <<IF f.how = "added" THEN DevNull ELSE <<"a">> \o f.path>>, <<>>, 1),
                                               DiffLineOf("+++", <<IF f.how = "deleted" THEN DevNull ELSE <<"b">> \o f.path>>, <<>>, 1)>>)
        \o FlattenSeq(MapSeq(f.hunks, LAMBDA h : <<DiffLineOf("@@", <<>>, <<<<1, Len(h)>>, <<1>>>>, 1)>>
                                                    \o MapSeq(h, LAMBDA m : IF m = "---" THEN DiffLineOf(m, <<<<"a", "z.md">>>>, <<>>, 1) ELSE Body(m, 1))))
  IN FlattenSeq(MapSeq(change, section))
CountKind(hunks, kind) == SumOf(MapSeq(hunks, LAMBDA h : Cardinality({i \in DOMAIN h : KindOf(h[i]) = kind})))
SafeInHeader(f) == IsSafeDiffPath(f.path)

\* Reading back the text git writes loses nothing: every file whose path is safe is there with each of its hunks and
\* lines and its counts, a removed line that looks like a file header is still content, and the lines of a refused
\* file go to no other file.  Names are kept as they are except in a top-level directory a or b and for names
\* with a blank, a text over the limit yields no file at all, and the language named is one of the change's
\* (parse_unified_diff, detect_language).
ParseIsFaithful(change) ==
  LET text == GitDiff(change)  got == ParseUnifiedDiff(text)  kept == SelectSeq(change, SafeInHeader) IN
  IF Len(text) > MaxDiffSize THEN got = <<>> ELSE
  /\ Len(got) = Len(kept)
  /\ \A i \in DOMAIN got :
       /\ Last(kept[i].path) \notin SpacedNames /\ kept[i].path[1] \notin {"a", "b"} => got[i].path = kept[i].path
       /\ kept[i].path[1] \notin {"a", "b"} /\ kept[i].hunks # <<>> =>
            got[i].old_path = (IF kept[i].how = "added" THEN DevNull ELSE kept[i].path) /\ got[i].new_path = IF kept[i].how = "deleted" THEN DevNull ELSE kept[i].path
       /\ got[i].additions = CountKind(kept[i].hunks, "add") /\ got[i].deletions = CountKind(kept[i].hunks, "delete")
       /\ MapSeq(got[i].hunks, LAMBDA h : MapSeq(h.lines, LAMBDA l : l.kind)) = MapSeq(kept[i].hunks, LAMBDA h : MapSeq(h, KindOf))
  /\ DetectDiffLanguage(got) \in {"Unknown"} \cup {ExtLangs[i][2] : i \in {j \in DOMAIN ExtLangs : \E f \in ToSet(got) : ExtOf(Last(f.path)) = ExtLangs[j][1]}}

\* A large change is cut down only in the ways its level allows, and what is left is handed out whole: each hunk of
\* the compressed change is in exactly one chunk, under its own file, in order; a chunk is over the limit only
\* when it holds a single hunk or file or exceeds it by the header of a split file; the chunks are numbered
\* through; and a change with one more file is never assessed as less severe (assess_large_pr,
\* apply_configured_compression, the four chunking strategies).
ChunkingIsWhole(d) ==
  \A level \in {AssessLargePr(d.files, d.limits)} :
  \A left \in {ApplyConfiguredCompression(d.files, d.configured, level)} :
  \A chunks \in {ChunkDiff(left, d.strategy, d.max)}, order \in {IF d.strategy = "semantic" THEN SemanticOrder(left) ELSE left} :
  LET hunks(files) == FlattenSeq(MapSeq(files, LAMBDA f : MapSeq(f.hunks, LAMBDA h : <<f.path, h>>)))
      all == FlattenSeq(MapSeq(chunks, LAMBDA c : c.files))
      ofLevel == IF d.configured = "auto" THEN level ELSE d.configured
  IN /\ hunks(all) = hunks(order)
     /\ \A i \in DOMAIN order : (d.strategy = "files" \/ RenderFileDiff(order[i]) <= d.max) => \E j \in DOMAIN all : all[j] = order[i]
     /\ \A i \in DOMAIN chunks :
          /\ chunks[i].chunk_index = i - 1 /\ chunks[i].total_chunks = Len(chunks) /\ chunks[i].files # <<>>
          /\ \/ RenderDiffText(chunks[i].files) <= d.max
             \/ Len(chunks[i].files) = 1 /\ (d.strategy = "files" \/ Len(chunks[i].files[1].hunks) <= 1 \/ RenderFileDiff(chunks[i].files[1]) <= d.max + 1)
     /\ ofLevel = "none" => left = d.files
     /\ \A i \in DOMAIN d.files : (\A j \in DOMAIN left : left[j].path # d.files[i].path) =>
          \/ DeletionOnly(d.files[i]) /\ (ofLevel # "light" \/ d.configured = "light")
          \/ ShouldIgnore(d.files[i].new_path) /\ d.configured # "light"
          \/ ofLevel = "aggressive"
     /\ ofLevel = "aggressive" => RenderDiffText(left) <= AggressiveTokens
     /\ \A i \in DOMAIN d.files : LevelRank(AssessLargePr(RemoveAt(d.files, i), d.limits)) <= LevelRank(level)

\* review --path shows the parser every file it says it reviews and nothing else: reading back the rendered text gives
\* those files, each once, with as many added lines as the file has, and every listed file is either in it or has
\* a reason to be left out (build_path_review_diff).
PathReviewIsWhole(d) ==
  \A r \in {BuildPathReviewDiff(d.repo, d.dir, d.entries, d.git)} :
  \A got \in {ParseAndFilterDiff(r.diff)} :
  LET listed == ListControlledFiles(d.entries, d.git)
      plain == \A e \in d.entries : e.path[1] \notin {"a", "b"}
  IN /\ ~r.refused /\ plain => /\ MapSeq(got, LAMBDA f : f.path) = MapSeq(r.files, LAMBDA e : e.path)
                              /\ \A i \in DOMAIN got : got[i].additions = r.files[i].lines /\ got[i].new_path = got[i].path
     /\ ~r.refused => ToSet(r.files) = {e \in listed : SkipReason(e) = "none"}
     /\ ~r.refused /\ d.git => \A e \in d.entries : e \in ToSet(r.files) \/ SkipReason(e) # "none"
     /\ r.refused => r.files = <<>> /\ r.diff = <<>>

\* What git is asked holds only references that were checked, in front of the separator; a file's related tests
\* exist and never include the file itself (local.rs).
BrowserIsCareful(d) ==
  LET args == GetDiff(d.base, d.head, d.staged, d.since, d.until) IN
  /\ \A a \in args : /\ Last(a) = "--" /\ \A i \in 1 .. Len(a) - 1 : a[i] # "--"
                     /\ \A r \in {d.base} \cup d.head \cup d.since \cup d.until : ~ValidateRef(r) => r.name \notin ToSet(a)
                     /\ d.since = {} => ToSet(a) \cap {r.name : r \in d.until} \subseteq {r.name : r \in {d.base} \cup d.head}
  /\ RelatedTests(d.path, d.tests, d.exists) \subseteq d.exists \ {d.path}
  /\ ValidatePath(d.path) => ~HasParentDir(d.path)

-----------------------------------------------------------------------------
(* What the experts are told besides the diff.                             *)

CONSTANTS MaxTree,        \* 200 paths in a file tree
          MaxExcerpt,     \* 2000 bytes of README or manifest
          MaxSingleFile,  \* MAX_SINGLE_FILE_BYTES
          MaxAgents,      \* DEFAULT_MAX_FILE_BYTES
          NoteBytes       \* the bytes of "... (file truncated ...)"

Blank == 9
Broken == 0
Replaced == 7
BytesOf(c) == CASE c \in {Blank, Broken} -> 1 [] c = Replaced -> 3 [] OTHER -> c
TextBytes(s) == SumOf(MapSeq(s, BytesOf))
FromUtf8Lossy(s) == MapSeq(s, LAMBDA c : IF c = Broken THEN Replaced ELSE c)
IsUtf8(s) == \A i \in DOMAIN s : s[i] # Broken

-----------------------------------------------------------------------------
(* Excerpts.                                                               *)

\* truncate_string: the longest prefix of whole characters within the limit.
\* Fault: the limit counts characters.
TruncatesByCharacters(s, max) == SubSeq(s, 1, Min({Len(s), max}))
TruncateString(s, max) == SubSeq(s, 1, Max({n \in 0 .. Len(s) : TextBytes(SubSeq(s, 1, n)) <= max}))
\* &bytes[..max] read leniently: the character the cut goes through becomes one replacement character.
CutBytes(s, max) ==
  LET whole == TruncateString(s, max) IN
  FromUtf8Lossy(whole) \o IF TextBytes(whole) < max /\ Len(whole) < Len(s) THEN <<Replaced>> ELSE <<>>

\* A file of the repository as committed and as it lies on disk, {} when it is not there.
RepoFile(head, disk) == [head |-> head, disk |-> disk]
ReadGitOrFile(f, max) ==
  IF f.head # {} THEN TruncateString(FromUtf8Lossy(CHOOSE s \in f.head : TRUE), max)
  ELSE IF f.disk = {} THEN <<>>
  ELSE LET s == CHOOSE s \in f.disk : TRUE IN IF TextBytes(s) > max THEN CutBytes(s, max) ELSE FromUtf8Lossy(s)
FirstManifestExcerpt(files, max) ==
  LET found == {i \in DOMAIN files : ReadGitOrFile(files[i], max) # <<>>} IN
  IF found = {} THEN <<>> ELSE ReadGitOrFile(files[Min(found)], max)

-----------------------------------------------------------------------------
(* gather_project_context.                                                 *)

ProjectContext(tree, recent, branch, readme, manifest) ==
  [file_tree |-> tree, recent_commits |-> recent, branch_commits |-> branch, readme_excerpt |-> readme, manifest_excerpt |-> manifest]
RefName(plain, dots) == [plain |-> plain, dots |-> dots]
IsValidRefName(r) == r.plain /\ ~r.dots
SortedPaths(set) == SetToSortSeq(set, LAMBDA p, q : LexBefore(PathKey(p), PathKey(q)))
FromDiffPaths(files) ==
  LET paths == SortedPaths({files[i].path : i \in DOMAIN files}) IN
  ProjectContext(SubSeq(paths, 1, Min({Len(paths), MaxTree})), <<>>, <<>>, <<>>, <<>>)
\* git_ls_files: the first paths of git's list, without those that begin with .git, sorted.
DotGit == {"~"}
GitLsFiles(listed) ==
  LET kept == SelectSeq(listed, LAMBDA p : p[1] \notin DotGit) IN SortedPaths(ToSet(SubSeq(kept, 1, Min({Len(kept), MaxTree}))))
\* git_log_oneline: an argument that is not a plain reference name is left out, the log is still taken.
GitLogOneline(log, args, of) == IF log = {} THEN {} ELSE IF args # {} /\ (\A a \in args : IsValidRefName(a)) THEN {of} ELSE log
RangeName(base, head) == RefName(TRUE, TRUE)
OrEmpty(set) == IF set = {} THEN <<>> ELSE CHOOSE x \in set : TRUE
BranchCommits(base, head, log, between) ==
  IF base = {} \/ head = {} \/ \E r \in base \cup head : ~IsValidRefName(r) THEN <<>>
  ELSE OrEmpty(GitLogOneline(log, {RangeName(base, head)}, between))
GatherFromGit(repo) ==
  ProjectContext(IF repo.listed = {} THEN <<>> ELSE GitLsFiles(CHOOSE l \in repo.listed : TRUE), OrEmpty(GitLogOneline(repo.log, {}, <<>>)),
                 BranchCommits(repo.base, repo.head, repo.log, repo.between), ReadGitOrFile(repo.readme, MaxExcerpt), FirstManifestExcerpt(repo.manifests, MaxExcerpt))
\* list_files_from_fs: in the order the directory is read, so any so many of them.
BinaryNames == {"p"}
ListFilesFromFs(entries) ==
  LET kept == {e.path : e \in {e \in entries : ~e.symlink /\ Last(e.path) \notin BinaryNames /\ \A i \in DOMAIN e.path : e.path[i] \notin IgnoredDirs}} IN
  {SortedPaths(set) : set \in kSubset(Min({Cardinality(kept), MaxTree}), kept)}
GatherLeadProjectContext(repo, files) ==
  IF repo.is # "directory" THEN {FromDiffPaths(files)}
  ELSE IF repo.git THEN {GatherFromGit(repo)} ELSE {ProjectContext(tree, <<>>, <<>>, <<>>, <<>>) : tree \in ListFilesFromFs(repo.entries)}

-----------------------------------------------------------------------------
(* AGENTS.md and the full contents of changed files.                       *)

InjectedContextEntry(source, original, injected, truncated, text) ==
  [source |-> source, original_bytes |-> original, injected_bytes |-> injected, truncated |-> truncated, sha256 |-> text]
ReadLocalAgentsMd(is, raw) ==
  LET content == FromUtf8Lossy(raw)  injected == TruncateString(content, MaxAgents) IN
  IF is # "file" THEN {}
  ELSE {InjectedContextEntry(<<"AGENTS.md">>, TextBytes(raw), TextBytes(injected), TextBytes(content) > MaxAgents, injected)}

\* A changed file: its text on disk ({} when it cannot be read) and the size found when it is looked at again.
ChangedFile(path, changes, disk, stat) == [path |-> path, changes |-> changes, disk |-> disk, stat |-> stat]
TruncationNote == [i \in 1 .. NoteBytes |-> 1]
ReadChangedFile(f) ==
  IF f.path[1] = "/" \/ HasParentDir(f.path) THEN {}
  ELSE {IF TextBytes(s) > MaxSingleFile THEN TruncateString(s, MaxSingleFile) \o TruncationNote ELSE s : s \in {s \in f.disk : IsUtf8(s)}}
TrimEnd(s) == SubSeq(s, 1, Max({0} \cup {i \in DOMAIN s : s[i] # Blank}))
ByChangeSize(files) == StableSorted(files, [i \in DOMAIN files |-> <<0 - files[i].changes>> \o PathKey(files[i].path)])
\* Fault: the row is written before the budget is looked at.
RowBeforeBudget(s, f, max) ==
  LET text == CHOOSE t \in ReadChangedFile(f) : TRUE  displayed == TrimEnd(text)
      row == InjectedContextEntry(f.path, f.stat, TextBytes(displayed), TextBytes(text) < f.stat \/ f.stat > MaxSingleFile, displayed)
  IN IF ReadChangedFile(f) = {} THEN s
     ELSE IF s.used + TextBytes(displayed) > max THEN [s EXCEPT !.omitted = Append(@, f.path), !.entries = Append(@, row)]
     ELSE [used |-> s.used + TextBytes(displayed), omitted |-> s.omitted, entries |-> Append(s.entries, row)]
InjectFile(s, f, max) ==
  LET text == CHOOSE t \in ReadChangedFile(f) : TRUE  displayed == TrimEnd(text)
      row == InjectedContextEntry(f.path, f.stat, TextBytes(displayed), TextBytes(text) < f.stat \/ f.stat > MaxSingleFile, displayed)
  IN IF ReadChangedFile(f) = {} THEN s
     ELSE IF s.used + TextBytes(displayed) > max THEN [s EXCEPT !.omitted = Append(@, f.path)]
     ELSE [used |-> s.used + TextBytes(displayed), omitted |-> s.omitted, entries |-> Append(s.entries, row)]
FileContentsReport == [used |-> 0, omitted |-> <<>>, entries |-> <<>>]
BuildFileContents(files, local, max) ==
  IF max = 0 \/ ~local THEN FileContentsReport ELSE FoldLeft(LAMBDA s, f : InjectFile(s, f, max), FileContentsReport, ByChangeSize(files))
\* dedup_injected_entries over the tasks of a chunked review: the first row of each source.
DedupInjectedEntries(rows) ==
  FoldLeft(LAMBDA kept, r : IF \E i \in DOMAIN kept : kept[i].source = r.source THEN kept ELSE Append(kept, r), <<>>, rows)

-----------------------------------------------------------------------------
(* Where reviewed files are read from.                                     *)

ValidateRelativePath(p) == p # <<>> /\ p[1] # "/" /\ ~HasParentDir(p)
ReadFile(source, path, disk, status) ==
  IF ~ValidateRelativePath(path) THEN "other"
  ELSE IF source = "local" THEN IF \E s \in disk : IsUtf8(s) THEN "text" ELSE "other"
  ELSE CASE status = 200 -> "text" [] status = 404 -> "not found" [] status \in {401, 403} -> "unauthorized" [] OTHER -> "other"
ProviderSource(url, token, revision) ==
  IF url = "" \/ token = "" \/ revision = "" THEN {} ELSE {IF url = "github" THEN "github" ELSE "gitlab"}
ProviderSourceFromClient(revision) == IF revision = "" THEN {} ELSE {"gitlab"}
ResolveGroundTruth(local, remote) == IF local THEN {"local"} ELSE remote

-----------------------------------------------------------------------------
(* Language profiles.                                                      *)

ProfileFields == {"comment_prefixes", "doc_prefixes", "test_patterns", "style_configs", "naming_hint", "error_hint"}
BuiltinFamily(name) == CASE name = "CPlusPlus" -> "C++" [] name = "TypeScript" -> "JavaScript" [] OTHER -> name
BuiltinDefault(name) == [f \in ProfileFields |-> <<BuiltinFamily(name)>>]
GetProfile(name, overrides) == [f \in ProfileFields |-> IF overrides # {} /\ (\A o \in overrides : o[f] # <<>>) THEN (CHOOSE o \in overrides : TRUE)[f] ELSE BuiltinDefault(name)[f]]

-----------------------------------------------------------------------------
(* Prompts: what each template reads, and what its builder hands it.  An   *)
(* undefined variable renders as nothing, without an error.                *)

ProjectVars == {"project_type", "os", "arch", "domain", "constraints"}
ReviewVars == {"perspective", "language", "max_findings", "title", "branch", "description", "lead_context", "discussion_context", "agents_md", "diff", "file_contents"} \cup ProjectVars
AggregatorVars == {"has_pr_context", "mr_title", "mr_description", "source_branch", "target_branch", "pr_author", "global_context", "reports"}
OverviewVars == {"title", "branch", "description", "project_context", "diff"} \cup ProjectVars
DescribeVars == {"title", "branch", "commit_messages", "diff"}
ImproveVars == {"title", "branch", "description", "diff"}
AskVars == {"title", "branch", "question", "diff"}
AskLineVars == {"file", "line", "extension", "file_content", "question"}
ChangelogVars == {"title", "branch", "commit_messages", "diff"}
TemplateVars(kind) ==
  CASE kind = "review" -> ReviewVars [] kind = "aggregator" -> AggregatorVars [] kind = "overview" -> OverviewVars [] kind = "describe" -> DescribeVars
    [] kind = "improve" -> ImproveVars [] kind = "ask" -> AskVars [] kind = "ask_line" -> AskLineVars [] kind = "changelog" -> ChangelogVars
OptionalVars == {"lead_context", "file_contents", "discussion_context", "agents_md", "global_context"} \cup ProjectVars
\* A builder's context: the merge request's fields, its arguments, and the optional sections that are there.
BuildReviewPrompt(there) ==
  {"perspective", "language", "max_findings", "title", "branch", "description", "diff"} \cup (there \cap ({"lead_context", "file_contents", "discussion_context", "agents_md"} \cup ProjectVars))
BuildAggregatorPrompt(there) ==
  {"reports", "language", "mr_title", "mr_description", "source_branch", "target_branch", "pr_author", "has_pr_context"} \cup (there \cap {"global_context"})
BuildOverviewPrompt(there) == {"title", "branch", "description", "diff", "project_context"} \cup (there \cap ProjectVars)
BuildDescribePrompt == {"title", "branch", "commit_messages", "diff"}
BuildImprovePrompt == {"title", "branch", "description", "diff"}
BuildAskPrompt == {"title", "branch", "question", "diff"}
BuildAskLinePrompt == {"file", "line", "extension", "file_content", "question"}
BuildChangelogPrompt == {"title", "branch", "commit_messages", "diff"}
BuildPrompt(kind, there) ==
  CASE kind = "review" -> BuildReviewPrompt(there) [] kind = "aggregator" -> BuildAggregatorPrompt(there) [] kind = "overview" -> BuildOverviewPrompt(there)
    [] kind = "describe" -> BuildDescribePrompt [] kind = "improve" -> BuildImprovePrompt [] kind = "ask" -> BuildAskPrompt
    [] kind = "ask_line" -> BuildAskLinePrompt [] kind = "changelog" -> BuildChangelogPrompt

-----------------------------------------------------------------------------
(* What the context promises.                                              *)

\* At most the first MaxExcerpt bytes of a file, read leniently: nothing, or its beginning up to
\* a character, with a replacement character for one that the limit cuts through.
ExcerptOf(s, f) ==
  \/ s = <<>>
  \/ \E t \in f.head \cup f.disk : \E n \in DOMAIN t :
       LET first == SubSeq(t, 1, n) IN
       \/ TextBytes(first) <= MaxExcerpt /\ s = FromUtf8Lossy(first)
       \/ TextBytes(Front(first)) < MaxExcerpt /\ s = Append(FromUtf8Lossy(Front(first)), Replaced)

\* The lead always gets a context, with or without a checkout, and it is bounded: at most MaxTree sorted, distinct paths
\* that were listed or changed, and excerpts of the README and of one manifest that begin where the file does and show
\* nothing beyond its first MaxExcerpt bytes, whichever bytes are no text or cut a character in two
\* (gather_lead_project_context, gather_from_git, read_git_or_file).
ContextIsBounded(d) ==
  LET contexts == GatherLeadProjectContext(d.repo, d.files)
  IN /\ contexts # {}
     /\ \A c \in contexts :
          /\ Len(c.file_tree) <= MaxTree /\ \A i, j \in DOMAIN c.file_tree : i < j => LexBefore(PathKey(c.file_tree[i]), PathKey(c.file_tree[j]))
          /\ ExcerptOf(c.readme_excerpt, d.repo.readme)
          /\ c.manifest_excerpt = <<>> \/ \E i \in DOMAIN d.repo.manifests : ExcerptOf(c.manifest_excerpt, d.repo.manifests[i])
          /\ c.file_tree = <<>> => \/ d.repo.is # "directory" /\ d.files = <<>>
                                   \/ d.repo.git /\ \A l \in d.repo.listed : \A i \in DOMAIN l : l[i][1] \in DotGit
                                   \/ d.repo.is = "directory" /\ ~d.repo.git

\* The table of injected context tells what the model was shown: the contents together stay in the budget, every
\* readable changed file is shown or named as omitted but never both, the most changed first, a file is omitted only when
\* it did not fit then, no source has two rows, and a row says truncated exactly when text was cut, as long as the file
\* did not change between reading it and asking for its size (build_file_contents_section_with_meta, AGENTS.md).
InjectionIsHonest(d) ==
  \A r \in {BuildFileContents(d.files, d.local, d.max)} :
  LET file(p) == CHOOSE f \in ToSet(d.files) : f.path = p
      readable == {f.path : f \in {f \in ToSet(d.files) : ReadChangedFile(f) # {}}}
      shown == MapSeq(r.entries, LAMBDA e : e.source)
      rows == DedupInjectedEntries(r.entries \o r.entries \o SetToSeq(ReadLocalAgentsMd(d.agents, d.guide)))
      row(e) == LET f == file(e.source) IN \A s \in f.disk : f.stat = TextBytes(s) => (e.truncated <=> e.sha256 # TrimEnd(s))
  IN /\ SumOf(MapSeq(r.entries, LAMBDA e : e.injected_bytes)) <= d.max
     /\ d.local /\ d.max > 0 => ToSet(shown) \cup ToSet(r.omitted) = readable
     /\ ToSet(shown) \cap ToSet(r.omitted) = {}
     /\ \A i, j \in DOMAIN shown : i < j => file(shown[i]).changes >= file(shown[j]).changes
     /\ \A p \in ToSet(r.omitted) :
          LET before == SelectSeq(r.entries, LAMBDA e : file(e.source).changes >= file(p).changes) IN
          SumOf(MapSeq(before, LAMBDA e : e.injected_bytes)) + (CHOOSE n \in {TextBytes(TrimEnd(s)) : s \in ReadChangedFile(file(p))} : TRUE) > d.max
     /\ \A i \in DOMAIN r.entries : row(r.entries[i]) /\ r.entries[i].injected_bytes = TextBytes(r.entries[i].sha256)
     /\ \A i, j \in DOMAIN rows : rows[i].source = rows[j].source => i = j
     /\ \A e \in ReadLocalAgentsMd(d.agents, d.guide) : e.injected_bytes <= MaxAgents /\ (e.truncated <=> e.sha256 # FromUtf8Lossy(d.guide))

\* A pass that looks something up in the reviewed files is told the truth about them: "not found" only when the forge
\* said so, "unauthorized" only when it refused the token, no file outside the project is asked for, a checkout is
\* preferred to the forge, and there is no forge source without a revision.  A profile never has an empty field
\* (file_source.rs, get_profile).
SourcesAreTruthful(d) ==
  LET remote == ProviderSource(d.url, d.token, d.revision)
      source == ResolveGroundTruth(d.local, remote)
      got == IF source = {} THEN "none" ELSE ReadFile(CHOOSE s \in source : TRUE, d.path, d.disk, d.status)
  IN /\ got = "not found" => ~d.local /\ d.status = 404 /\ d.revision # ""
     /\ got = "unauthorized" => ~d.local /\ d.status \in {401, 403}
     /\ got = "text" => ~HasParentDir(d.path) /\ d.path # <<>> /\ d.path[1] # "/" /\ (d.local => d.disk # {})
     /\ d.local => source = {"local"}
     /\ ProviderSourceFromClient(d.revision) = {} => remote = {}
     /\ \A f \in ProfileFields : GetProfile(d.language, d.overrides)[f] # <<>>
     /\ d.overrides = {} => GetProfile("TypeScript", {}) = GetProfile("JavaScript", {})

\* No template reads a variable its builder does not supply, except the optional sections that are not there
\* (PromptEngine: an undefined variable would silently leave its part of the prompt empty).
PromptsAreFilled(d) ==
  LET given1 == BuildPrompt(d.kind, d.there) IN
  /\ TemplateVars(d.kind) \ given1 \subseteq OptionalVars \ d.there
  /\ d.there \cap TemplateVars(d.kind) \subseteq given1
=============================================================================
