------------------------------ MODULE MCTools ------------------------------
(* The tools around a review, one per behaviour: each takes an input and     *)
(* what it makes of it is compared with what it promises.                    *)
EXTENDS ForgeClients, LocalConfig, RepoScan, RepoScore, Compliance, CommandLine, ReviewContext, Reports, LlmAdapters

CONSTANTS Parts

VARIABLES part, given

-----------------------------------------------------------------------------
(* Inputs: the forge.                                                      *)

Answer(got, code, value) == [got |-> got, code |-> code, value |-> value]
Value(v) == Answer("value", 200, v)
Answers(v) == {Answer("down", 0, v), Answer("status", 404, v), Answer("status", 403, v), Answer("garbled", 200, v), Value(v)}
User(id, name, username) == [id |-> id, name |-> name, username |-> username, avatar |-> {"a"}, bot |-> FALSE]
People ==
  {Person({1}, "ann", "ann", {}, 0, FALSE), Person({}, "ann", "", {""}, 2, FALSE), Person({2}, "ann", "project_bot", {"a"}, 0, FALSE),
   Person({}, "", "project_bot", {}, 1, FALSE), Person({}, "", "", {}, 2, FALSE)}
PeopleInputs(p) == UNION {[1 .. n -> People] : n \in 0 .. 3}
Rev(id, board) == [id |-> id, board |-> board, review |-> id, name |-> "", username |-> "rev", avatar |-> {}, bot |-> FALSE]
ReviewPages(first) ==
  <<[answer |-> first, next |-> TRUE], [answer |-> Value(<<Rev({7}, FALSE)>>), next |-> TRUE],
    [answer |-> Value(<<Rev({9}, TRUE)>>), next |-> FALSE]>>
MrValue(head, base) == [head |-> head, base |-> base, start |-> base, opener |-> {User({1}, "", "ann")}]
ApiInputs(p) ==
  {[info |-> info, people |-> Value(<<User({1}, "ann", "ann")>>), commit |-> Value([name |-> "ann", email |-> ""]),
    raw |-> raw, changes |-> Value(<<"h">>), toml |-> toml, path |-> path, file |-> file, issue |-> issue,
    user |-> user, reviews |-> ReviewPages(first), comments |-> ReviewPages(first), post |-> post,
    discussions |-> [first EXCEPT !.value = <<first.value, <<Rev({9}, TRUE)>>>>]] :
     info \in {Value(MrValue("h1", {"b"})), Value(MrValue("", {})), Answer("down", 0, MrValue("h1", {}))},
     raw \in {Value(<<"h">>), Answer("status", 404, <<>>), Answer("down", 0, <<>>)},
     toml \in Answers("t"), path \in {"f", ""}, file \in {Value("x"), Answer("status", 404, ""), Answer("status", 401, "")},
     issue \in {Value([title |-> "t", body |-> 4]), Answer("garbled", 200, [title |-> "", body |-> 0])},
     user \in {Value({7}), Value({9}), Answer("down", 0, {9})},
     first \in {Value(<<Rev({7}, FALSE)>>), Value(<<Rev({7}, TRUE), Rev({7}, TRUE)>>), Value(<<>>), Answer("status", 403, <<>>)},
     post \in {Value(3), Answer("status", 403, 3), Answer("garbled", 200, 3)}}
Host(name, user, colons, port) == [user |-> user, bracket |-> FALSE, colons |-> colons, name |-> name, port |-> port]
MCGithub == Host("github.com", FALSE, 0, {})
AddressInputs(p) ==
  {[scheme |-> scheme, host |-> host, segs |-> segs] :
     scheme \in {"https", "ssh"},
     host \in {MCGithub, Host("g", FALSE, 1, {8929}), Host("g", FALSE, 1, {65536}), Host("g", TRUE, 0, {}), Host("", FALSE, 0, {}), Host("g", FALSE, 2, {})},
     segs \in {s[1] \o s[2] : s \in UNION {[1 .. n -> {"o", "..", "", "a:b", "7"}] \X {<<"pull", "7">>, <<"pull", "7", "files", "">>, <<"-", "merge_requests", "7">>,
                        <<"-", "merge_requests", "-", "merge_requests", "40">>, <<"-", "merge_requests", "o">>, <<"pull", "40", "-", "merge_requests", "7">>} : n \in 0 .. 2}}}
SearchInputs(p) ==
  {[thread |-> thread, answer |-> answer] : thread \in {"ran", "panicked"},
     answer \in UNION {Answers([list |-> list, items |-> items]) : list \in BOOLEAN, items \in UNION {[1 .. n -> {"a", "b", "c", ""}] : n \in 0 .. 4}}}

-----------------------------------------------------------------------------
(* Inputs: settings.                                                       *)

MCExperts ==
  [n \in {"lead", "docs", "ux"} |->
     [enabled |-> TRUE, role |-> "r", weight |-> CASE n = "lead" -> 57 [] n = "docs" -> 35 [] OTHER -> 8]]
Sec(ok, value) == {[ok |-> ok, value |-> value]}
E(provider, key) == Entry(provider, "m", key, "", DefaultMaxTokens)
Doc(llm) ==
  [exists |-> TRUE, readable |-> TRUE, toml |-> TRUE, big |-> FALSE, llm |-> llm, commands |-> {}, experts |-> {},
   report |-> {}, compliance |-> {}, caps |-> {}]
Missing == [Doc({}) EXCEPT !.exists = FALSE]
Llms == {{}, Sec(FALSE, <<>>), Sec(TRUE, <<>>), Sec(TRUE, <<E("a", "k"), E("b", "")>>)}
Env(compliance, llm) == [commands |-> {}, scoring |-> {}, compliance |-> compliance, llm |-> llm]
NewTeam(weight) == Sec(TRUE, [n \in {"docs"} |-> [enabled |-> TRUE, role |-> "r", weight |-> weight]])
SettingsInputs(p) ==
  {[project |-> project, user |-> user, env |-> Env(on, llm), db |-> db] :
     project \in {Missing, [Doc({}) EXCEPT !.toml = FALSE]}
       \cup {[Doc(l) EXCEPT !.experts = e, !.commands = m, !.caps = caps, !.compliance = k] :
              l \in Llms, e \in {{}, NewTeam(35), NewTeam(34), Sec(FALSE, <<>>)},
              m \in {{}, Sec(TRUE, [x \in {"ask"} |-> TRUE])}, caps \in {{}, {0}, {2}}, k \in {{}, Sec(TRUE, TRUE)}},
     user \in {Missing, Doc(Sec(TRUE, <<E("u", "k")>>)), [Doc({}) EXCEPT !.report = Sec(TRUE, DefaultReport)]},
     on \in {{}, {"true"}, {"no"}}, llm \in {{}, Sec(TRUE, <<E("e", "k")>>)},
     db \in {[root |-> TRUE, disabled |-> off, file |-> TRUE, opens |-> TRUE, rows |-> rows, cap |-> cap,
              llm |-> <<E("d", "***"), E("d", "k")>>] : off, rows \in BOOLEAN, cap \in {0, 3}}}
EditInputs(p) ==
  {[name |-> name, global |-> global, files |-> [project |-> project, user |-> user], env |-> Env({}, Sec(TRUE, <<E("e", "k")>>)),
    hosts |-> [b \in {"", "far", "near"} |-> [scheme |-> IF b = "" THEN "https" ELSE "http", host |-> IF b = "near" THEN "127." ELSE b]],
    patch |-> [model |-> model, base |-> base, key |-> key, tokens |-> {}, disable_thinking |-> FALSE]] :
     base \in {{}, {"far"}, {"near"}},
     name \in {"a", "b", "e"}, global \in BOOLEAN,
     project \in {Missing, [Doc({}) EXCEPT !.toml = FALSE]} \cup {Doc(l) : l \in Llms},
     user \in {Missing, [Doc({}) EXCEPT !.readable = FALSE], Doc(Sec(TRUE, <<E("b", "k"), E("a", "k"), E("b", "x")>>))},
     model \in {{}, {"n"}}, key \in {{}, {""}, {"new"}}}
Movable == {f[2] : f \in StateFiles} \ {""}
PlaceInputs(p) ==
  {[flag |-> flag, env |-> env, config |-> config, home |-> home, creatable |-> creatable, vars |-> [v \in Movable |-> IF v \in moved THEN "moved" ELSE ""]] :
     flag \in {{}, {"a"}}, env \in {"", "b"}, config \in {"", "c"}, home \in {{}, {"d"}}, creatable \in SUBSET {"a", "b"}, moved \in SUBSET Movable}
ExpertInputs(p) ==
  {[experts |-> [n \in {"ux", "docs"} |-> [enabled |-> on[n], role |-> IF blank THEN "" ELSE "r", prompt |-> IF n = "ux" THEN own ELSE {},
                                          trigger |-> IF n = "ux" THEN trigger ELSE {}]],
    written |-> written] :
     on \in [{"ux", "docs"} -> BOOLEAN], blank \in BOOLEAN, own \in {{}, {"own"}, {""}},
     trigger \in {{}} \cup {{Trigger(k, {})} : k \in {"always", "on_demand"}} \cup {{Trigger(k, v)} : k \in {"file_patterns", "languages", "diff_size"}, v \in {{}, {"x"}}},
     written \in {[word |-> {w}, table |-> <<>>] : w \in {"always", "on_demand", "odd"}} \cup {[word |-> {}, table |-> [k \in ks |-> {"x"}]] : ks \in SUBSET ToSet(TriggerKeys)}}
InitInputs(p) ==
  {[answers |-> [commands |-> <<"review">>, experts |-> team, auto |-> auto, manual |-> <<{50}, {}, {1}>>, llm |-> llm,
                 model |-> model, provider |-> "p", useEnv |-> useEnv, key |-> ""],
    catalog |-> catalog, env |-> [p |-> "k", deepseek |-> "d"]] :
     team \in {<<>>, <<"ux">>, <<"docs", "ux">>, <<"lead", "docs">>, <<"lead", "docs", "ux">>}, auto, llm, useEnv \in BOOLEAN,
     model \in {"", "m"}, catalog \in {{}, {{}}, {{"p"}}}}

-----------------------------------------------------------------------------
(* Inputs: credentials and the store.                                      *)

Cand(lo, hi, kind) == [lo |-> lo, hi |-> hi, kind |-> kind]
ScanInputs(p) ==
  {[text |-> text, candidates |-> cands, markers |-> markers] :
     text \in {<<"a", "\\", "q", "b", "c", "\\", "q", "d">>, <<"\\", "\\", "q", "a", "b", "c", "d">>},
     cands \in {s \in SUBSET {Cand(lo, hi, kind) : lo \in 1 .. 4, hi \in {4, 6}, kind \in {1, 11}} : Cardinality(s) <= 3},
     markers \in {{}, {<<1, 3>>}, {<<3, 5>>}}}
KeyInputs(p) ==
  {[file |-> file, fresh |-> "new", writable |-> w] :
     file \in {{}, {[whole |-> TRUE, key |-> "old"]}, {[whole |-> FALSE, key |-> "old"]}}, w \in BOOLEAN}
F(exists, writable, size) == [exists |-> exists, writable |-> writable, size |-> size, owner |-> {0}]
DoctorInputs(p) ==
  {[store |-> [dir |-> dir, db |-> F(db, TRUE, 1), wal |-> wal, shm |-> shm, works |-> works, after |-> after, removable |-> dir, me |-> me],
    fix |-> fix, quiet |-> quiet] :
     me \in {{}, {0}, {1}}, dir, db, after, fix, quiet \in BOOLEAN, works \in BOOLEAN,
     wal \in {F(FALSE, FALSE, 0), F(TRUE, FALSE, 0), F(TRUE, FALSE, 4), F(TRUE, TRUE, 4)},
     shm \in {F(FALSE, FALSE, 0), F(TRUE, FALSE, 1), F(TRUE, TRUE, 1)}}

-----------------------------------------------------------------------------
(* Inputs: a repository.                                                   *)

OnDisk(path, ext) ==
  [path |-> path, dot |-> FALSE, ext |-> ext, there |-> TRUE, dir |-> FALSE, readable |-> TRUE, marked |-> FALSE, loc |-> Len(path)]
DiskFiles ==
  <<OnDisk(<<"src", "a", "x">>, "rs"), OnDisk(<<"src", "a", "y">>, "py"), [OnDisk(<<"src", "a", "z">>, "rs") EXCEPT !.loc = 1001],
    OnDisk(<<"src", "b", "x">>, "rs"), [OnDisk(<<"src", "b", "target", "y">>, "rs") EXCEPT !.marked = TRUE], OnDisk(<<"top">>, "md"),
    [OnDisk(<<".gitlab-ci.yml">>, "yml") EXCEPT !.dot = TRUE], [OnDisk(<<".env">>, "") EXCEPT !.dot = TRUE],
    OnDisk(<<"dist", "x">>, "rs"), OnDisk(<<"tests", "t">>, "rs"), OnDisk(<<"sub", "m", "x">>, "rs"), OnDisk(<<"pic">>, "png")>>
RepoInputs(p) ==
  {[repo |-> [git |-> git, lists |-> TRUE, exists |-> exists, files |-> SelectSeq(DiskFiles, LAMBDA f : f \notin gone),
              listed |-> 1 .. Len(DiskFiles), submodules |-> {<<"sub">>}, unreadable |-> unreadable],
    order |-> <<<<"dist", "x">>, <<"other">>, <<"src", "a">>, <<"src", "b">>, <<"sub", "m">>, <<"tests", "t">>>>] :
     git, exists \in BOOLEAN, gone \in {g \in SUBSET ToSet(DiskFiles) : Cardinality(g) <= 4}, unreadable \in {{}, {<<"src">>}}}
L(kind, toks) == [kind |-> kind, toks |-> toks, comment |-> FALSE, hits |-> {}]
Hit(pattern, dummy, colon) == [pattern |-> pattern, dummy |-> dummy, bracket |-> FALSE, binding |-> FALSE, colon |-> colon, quoted |-> FALSE]
RustLines ==
  {L("cfg", <<>>), L("attr", <<>>), L("mod", <<"{">>), L("mod", <<"{", "q", "{", "bs", "q", "q", "}">>),
   L("code", <<"}">>), L("code", <<"{">>), L("code", <<"bo", "}">>), L("code", <<"bc", "}">>), L("code", <<"raw", "}", "q", "{", "end">>), L("code", <<"raw0", "}", "end", "{">>), L("code", <<"raw0", "}">>),
   [L("code", <<"q">>) EXCEPT !.hits = {Hit(1, FALSE, TRUE)}], [L("code", <<"lit">>) EXCEPT !.hits = {Hit(2, FALSE, FALSE), Hit(2, TRUE, FALSE)}],
   [L("code", <<"//", "}">>) EXCEPT !.comment = TRUE, !.hits = {Hit(3, FALSE, FALSE)}]}
SweepInputs(p) ==
  {[lines |-> lines, ext |-> "rs", is_generated |-> FALSE, path |-> <<"src", "f">>, testName |-> FALSE] :
     lines \in UNION {[1 .. n -> RustLines] : n \in 0 .. 3}
       \cup {<<L("cfg", <<>>), L("mod", <<"{">>)>> \o s : s \in [1 .. 3 -> RustLines]}}
SplitInputs(p) == UNION {[1 .. n -> {"x", ",", "(", ")", "a", "d", "bs", " "}] : n \in 0 .. 4}
Reply(shape, score, items) == [ok |-> TRUE, shape |-> shape, score |-> score, summary |-> <<"secret">>, items |-> items]
Refusal == [Reply("empty", {}, <<>>) EXCEPT !.ok = FALSE]
Named1(words, severity) ==
  [Item(severity, <<words, 0>>) EXCEPT !.file = {"f"}, !.confidence = {8}, !.evidence = <<"fence", "secret", "fence 4">>, !.advice = <<"secret">>]
Source(name, words, lines) ==
  [name |-> name, words |-> words, readable |-> TRUE, language |-> "Rust", generated |-> FALSE, lines |-> lines, test |-> FALSE]
Credential(pattern, kind) == [pattern |-> pattern, kind |-> kind, severity |-> "medium", file |-> "f"]
Plain ==
  [organization |-> [files |-> <<[is_generated |-> FALSE, test |-> FALSE, language |-> "Rust", script |-> 0, loc |-> 700]>>, source_count |-> 9,
                     source_loc |-> 1200, depth |-> 2],
   files |-> <<Source("a.rs", {}, <<"x", "cfg", "tests", "x", "}">>), Source("Cargo.toml", {"[dev-dependencies]"}, <<>>)>>, looks |-> {"rs"},
   hits |-> <<>>, head |-> {"sha"}, languages |-> [l \in {"Rust", "Go", "C", "Vue"} |-> IF l = "Rust" THEN 9 ELSE 1], why |-> <<"secret">>, finish |-> <<>>,
   documentation |-> [readme |-> TRUE, changelog |-> FALSE, license |-> TRUE, lines |-> 100, comments |-> 7],
   locks |-> <<[kind |-> "Cargo", n |-> 120], [kind |-> "Go", lines |-> <<"require (", "x", "//", ")", "require x">>]>>,
   style |-> [present |-> {}, groups |-> [rustfmt |-> {"rustfmt.toml"}]], failing |-> {}, llm |-> TRUE, loc |-> 1200, n |-> 1, verify |-> FALSE,
   refuted |-> {}, lead |-> <<Reply("keys", {80}, <<>>), Refusal, Refusal>>, chunks |-> <<>>, report |-> [min_confidence |-> 7, drop_low |-> FALSE],
   order |-> <<"code_quality", "architecture", "code_organization", "test_coverage", "security", "documentation", "dependency", "code_style">>]
Chunk(module, answers) == [module |-> module, loc |-> 100, answers |-> answers]
ExpertReplies ==
  {<<Reply("keys", {90}, <<Named1("secret", "high"), Item("odd", <<"noise", 0>>)>>), Refusal, Refusal>>, <<Refusal, Refusal, Refusal>>,
   <<Reply("prose", {}, <<>>), Reply("fenced", {250}, <<Named1("secret", "low")>>), Reply("keys", {10}, <<>>)>>,
   <<Reply("mapping", {}, <<>>), Reply("mapping", {}, <<>>), Reply("legacy", {20}, <<>>)>>, <<Reply("empty", {}, <<>>), Reply("keys", {}, <<>>), Refusal>>}
ReportInputs(p) ==
  {[Plain EXCEPT !.llm = llm, !.n = n, !.lead = lead, !.verify = verify, !.refuted = {1}, !.failing = failing, !.locks = locks,
                 !.chunks = [i \in 1 .. k |-> Chunk(i, two[i])], !.finish = IF late THEN [i \in 1 .. k |-> k + 1 - i] ELSE [i \in 1 .. k |-> i],
                 !.hits = SubSeq(<<Credential("Private key", "mechanical")>>, 1, IF verify THEN 1 ELSE 0)] :
     late \in BOOLEAN,
     llm, verify \in BOOLEAN, n \in {1, 3}, lead \in ExpertReplies, failing \in {{}, {"security"}}, k \in 0 .. 2, two \in [1 .. 2 -> ExpertReplies],
     locks \in {<<>>, Plain.locks}}
  \cup {[Plain EXCEPT !.llm = FALSE, !.failing = DOMAIN DefaultWeights]}
Manifests ==
  {<<>>, <<Source("go.mod", {}, <<>>)>>, <<Source("pom.xml", {"junit"}, <<>>)>>, <<Source("Cargo.toml", {"x"}, <<>>), [Source("setup.py", {"pytest"}, <<>>) EXCEPT !.readable = FALSE]>>}
Pipelines == {<<>>, <<Source("Jenkinsfile", {"test"}, <<>>)>>, <<Source("x.yaml", {"test"}, <<>>)>>, <<Source("x.yaml", {"test", "script"}, <<>>)>>}
StaticInputs(p) ==
  {[Plain EXCEPT !.organization = [@ EXCEPT !.depth = d, !.source_count = few, !.files[1].loc = big], !.documentation = [@ EXCEPT !.comments = d, !.changelog = few = 3],
                 !.locks = locks] :
     d \in {3, 6, 11}, few \in {3, 4}, big \in {500, 599, 600, 9000},
     locks \in {<<[kind |-> "npm", parses |-> parses, map |-> map, n |-> n]>> \o go : parses \in BOOLEAN, map \in {"packages", "none"}, n \in {50, 51, 52, 202},
                  go \in {<<>>, <<[kind |-> "Go", lines |-> <<"require x">>]>>}}}
  \cup {[Plain EXCEPT !.files = <<[Source("a.rs", {}, lines) EXCEPT !.readable = seen, !.test = test]>> \o manifest \o pipeline, !.locks = <<>>, !.looks = looks,
                      !.hits = hits] :
          lines \in UNION {[1 .. n -> {"cfg", "tests", "{", "}", "x"}] : n \in 0 .. 3}, seen, test \in BOOLEAN, manifest \in Manifests, pipeline \in Pipelines,
          looks \in {{}, {"py", "rs"}}, hits \in {<<>>, <<Credential("Private key", "mechanical"), Credential("Token", "semantic")>>}}
  \cup {[Plain EXCEPT !.hits = [i \in 1 .. n |-> Credential("Token", kind)]] : n \in {8, 9, 30}, kind \in {"mechanical", "semantic"}}
StripInputs(p) ==
  {[scores |-> [i \in 1 .. 2 |-> Score("code_quality", 50, two[i])], refuted |-> refuted] :
     two \in [1 .. 2 -> UNION {[1 .. m -> {Named1("leak", "high"), Named1("leak", "odd"), Named1("leak", "medium")}] : m \in 0 .. 2}],
     refuted \in SUBSET (1 .. 4)}

-----------------------------------------------------------------------------
(* Inputs: tickets.                                                        *)

Mr(scheme, auth, path) == [scheme |-> scheme, auth |-> auth, path |-> path]
Hash(project, alnum, iid, digits) == [kind |-> "hash", project |-> project, alnum |-> alnum, iid |-> iid, digits |-> digits]
Linked(scheme, host, segs) == [kind |-> "url", link |-> Link(scheme, <<host>>, segs), digits |-> 1]
Mentions(host) ==
  {Hash(<<>>, FALSE, "5", 1), Hash(<<>>, FALSE, "77", 7), Hash(<<"x", "y">>, TRUE, "5", 1), Hash(<<"x", "y", "z">>, TRUE, "5", 1),
   Linked("https", host, <<"x", "y", "-", "issues", "5">>), Linked("https", "other", <<"x", "y", "-", "issues", "5">>),
   Linked("https", host, <<"x", "y", "issues", "5">>), Linked("https", host, <<"x", "issues", "-", "work_items", "6", "-", "issues", "1">>)}
Descriptions(host) == UNION {[1 .. n -> Mentions(host)] : n \in 0 .. 2}
  \cup {<<Hash(<<>>, FALSE, "5", 1), Hash(<<"x", "y">>, TRUE, "5", 1), Hash(<<"x", "y">>, TRUE, "6", 1)>>}
Said(ok, status, truncated, object, entries) ==
  [ok |-> ok, status |-> status, truncated |-> truncated, object |-> object, entries |-> entries]
NoEntries == [k \in {} |-> {}]
TicketReplies ==
  {Said(TRUE, 0, cut, object, entries) : cut, object \in BOOLEAN,
     entries \in {[k \in {Word(<<"5">>)} |-> {"five"}], [k \in {Word(<<"x", "y", "#", "5">>), Word(<<"!", "5">>)} |-> IF Len(k.segs) = 2 THEN {} ELSE {"xy5"}]}}
  \cup {Said(FALSE, status, FALSE, FALSE, NoEntries) : status \in {0, 401, 429, 503}}
TicketInputs(p) ==
  {[enabled |-> enabled, mentions |-> mentions, mr |-> Mr("https", <<"h">>, "merge_requests"), own |-> <<"o", "p">>,
    answers |-> [i \in 1 .. 2 |-> [ok |-> oks[i], title |-> <<"t1", "t2">>[i]]], bases |-> bases, reply |-> reply,
    replies |-> <<own, Said(TRUE, 0, FALSE, TRUE, [k \in {Word(<<"5">>)} |-> {"five"}])>>] :
     enabled \in BOOLEAN, mentions \in Descriptions("h"), oks \in [1 .. 2 -> BOOLEAN], bases \in {<<>>, <<"", "b">>}, reply \in TicketReplies,
     own \in {Said(FALSE, 500, FALSE, FALSE, NoEntries), Said(TRUE, 0, FALSE, TRUE, [k \in {Word(<<"!", "5">>)} |-> {"own"}])}}
LinkInputs(p) ==
  UNION {{[mentions |-> mentions, mr |-> Mr(scheme, auth, path), own |-> own] :
            mentions \in Descriptions(Last(auth)), scheme \in {"https", "http"}, path \in {"pull", "merge_requests", "odd"}, own \in {<<"o", "p">>, <<"g", "o", "p">>}} :
         auth \in {<<"h">>, <<"u", "h">>, <<"github.com">>}}
Simple == {<<"{">> \o s \o <<"}">> : s \in {<<>>, <<"x">>, <<"q", "}", "q">>, <<"q", "bs", "q", "{", "q">>}}
JsonInputs(p) ==
  {[lines |-> <<a, <<"fence", "{">>, b>>, objects |-> Simple \cup {<<"{">> \o o \o <<"}">> : o \in Simple}] :
     a \in UNION {[1 .. n -> {"{", "}", "q", "bs", "x"}] : n \in 0 .. 3}, b \in UNION {[1 .. n -> {"{", "}", "q", "bs", "x"}] : n \in 0 .. 3}
       \cup Simple \cup {<<"x">> \o o : o \in Simple} \cup {o \o <<"}", "x">> : o \in Simple}}

-----------------------------------------------------------------------------
(* Inputs: diffs and what goes with them.                                  *)

BodyMarkers == {"+", "-", " ", "---"}
ChangeOf(path, how, hunks) == [path |-> path, how |-> how, hunks |-> hunks]
Changed ==
  {ChangeOf(path, how, hunks) :
     path \in {<<"x.rs">>, <<"src", "c.c">>, <<"b", "x.rs">>, <<"..", "x.rs">>, <<"c:d">>, <<"src", "s p">>, <<"a">>},
     how \in {"modified", "added", "deleted"}, hunks \in {<<>>, <<<<"+">>>>, <<<<"-", "---">>, <<" ", "+">>>>}}
DiffInputs(p) == UNION {[1 .. n -> Changed] : n \in 0 .. 2} \cup [1 .. 3 -> {c \in Changed : c.how = "added" /\ Len(c.path) = 1}]
  \cup {<<ChangeOf(<<"x.rs">>, "modified", <<h>>)>> : h \in [1 .. 4 -> BodyMarkers]}
FileFrom(path, new, kinds, len) ==
  [DiffFile(path, new, path, [i \in DOMAIN kinds |-> [numbers |-> <<0, 0, 0, 0>>, lines |-> [j \in DOMAIN kinds[i] |-> [kind |-> kinds[i][j], len |-> len]]]])
     EXCEPT !.additions = CountKind(kinds, "context"), !.deletions = 1]
FilesFor(path, new, lens) ==
  {FileFrom(path, new, kinds, len) : len \in lens, kinds \in {<<>>, <<<<"delete">>>>, <<<<"add">>, <<"add", "delete">>>>, <<<<"add">>, <<"add", "add", "add">>, <<"add">>>>}}
ChunkInputs(p) ==
  {[files |-> files, limits |-> how[1], configured |-> how[2], strategy |-> strategy, max |-> max] :
     files \in {<<>>} \cup {<<f>> : f \in FilesFor(<<"x.rs">>, <<"x.rs">>, {1, 4})}
       \cup {<<f, g, h>> : f \in FilesFor(<<"src", "x.rs">>, <<"src", "x.rs">>, {1}), g \in FilesFor(<<"c.c">>, <<"c.c">>, {4}),
                          h \in FilesFor(<<"target", "z.md">>, <<"target", "z.md">>, {4}) \cup FilesFor(<<"z.md">>, DevNull, {1})},
     how \in ({LargePrThresholds(0, 99, 99), LargePrThresholds(1, 0, 4), LargePrThresholds(2, 9, 3)} \X {"auto"})
       \cup ({LargePrThresholds(2, 9, 3)} \X {"none", "light", "medium", "aggressive"}), strategy \in {"files", "hunks", "semantic", "auto"}, max \in {3, 6, 14}}
Listed(path) == {RepoEntry(path, FALSE, TRUE, TRUE, 0), RepoEntry(path, FALSE, TRUE, TRUE, 2), RepoEntry(path, TRUE, TRUE, TRUE, 1), RepoEntry(path, FALSE, FALSE, TRUE, 1), RepoEntry(path, FALSE, TRUE, FALSE, 1)}
PathInputs(p) ==
  {[repo |-> repo, dir |-> dir, entries |-> {x, y} \cup more, git |-> git] :
     repo \in {"directory", "file"}, dir \in {[path |-> <<"src">>, is |-> "directory"], [path |-> <<>>, is |-> "directory"], [path |-> <<"src">>, is |-> "file"], [path |-> <<"..", "src">>, is |-> "directory"]},
     x \in Listed(<<"src", "x.rs">>), y \in Listed(<<"z.md">>) \cup Listed(<<"s p">>) \cup Listed(<<"target", "c.c">>) \cup Listed(<<"src", "y.lock">>),
     more \in {{}, {RepoEntry(<<"src", "c.c">>, FALSE, TRUE, TRUE, 1)}, {RepoEntry(<<"b", "x.rs">>, FALSE, TRUE, TRUE, 1)}}, git \in BOOLEAN}
Refs == {GitRef("m", FALSE, FALSE), GitRef("-x", TRUE, FALSE), GitRef("m;", FALSE, TRUE), GitRef("", FALSE, FALSE)}
MaybeRef == {{}} \cup {{r} : r \in Refs}
BrowserInputs(p) ==
  {[base |-> base, head |-> head, staged |-> staged, since |-> since, until |-> until, path |-> path, tests |-> {"x_test.rs"}, exists |-> exists] :
     base \in Refs, head \in MaybeRef, staged \in BOOLEAN, since \in MaybeRef, until \in MaybeRef, path \in {<<"src", "x.rs">>, <<"x.rs">>, <<"..", "x.rs">>},
     exists \in {{}, {<<"src", "x.rs">>, <<"tests", "x.rs">>, <<"src", "x_test.rs">>}}}
Texts == UNION {[1 .. n -> {1, 3, Broken, Blank}] : n \in 0 .. 3}
CommittedFile == {RepoFile({}, {}), RepoFile({}, {<<1, 3, 3>>}), RepoFile({}, {<<Broken, Broken>>}), RepoFile({<<3, 3>>}, {}), RepoFile({<<>>}, {})}
ContextInputs(p) ==
  {[repo |-> [is |-> is, git |-> git, listed |-> listed, log |-> log, base |-> refs[1], head |-> refs[2], between |-> <<"c1">>, readme |-> readme, manifests |-> manifests,
              entries |-> entries],
    files |-> files] :
     is \in {"directory", "absent"}, git \in BOOLEAN, listed \in {{}, {<<<<"x.rs">>, <<"~">>, <<"c.c">>, <<"z.md">>>>}}, log \in {{}, {<<"c1", "c2">>}},
     refs \in {<<{}, {}>>, <<{RefName(TRUE, FALSE)}, {RefName(TRUE, FALSE)}>>, <<{RefName(FALSE, FALSE)}, {RefName(TRUE, FALSE)}>>, <<{RefName(TRUE, FALSE)}, {RefName(TRUE, TRUE)}>>},
     readme \in CommittedFile \cup {RepoFile({}, {t}) : t \in {t \in Texts : Len(t) = 3 /\ Broken \in ToSet(t)}},
     manifests \in {<<RepoFile({}, {}), RepoFile({}, {<<1, 3, 3>>})>>, <<RepoFile({<<>>}, {}), RepoFile({<<3, 3>>}, {})>>},
     entries \in {{}, {RepoEntry(<<"x.rs">>, FALSE, TRUE, TRUE, 1), RepoEntry(<<"src", "c.c">>, FALSE, TRUE, TRUE, 1), RepoEntry(<<"target", "c.c">>, FALSE, TRUE, TRUE, 1), RepoEntry(<<"p">>, FALSE, TRUE, TRUE, 1)}},
     files \in {<<>>, <<FileFrom(<<"x.rs">>, <<"x.rs">>, <<>>, 1), FileFrom(<<"c.c">>, <<"c.c">>, <<>>, 1), FileFrom(<<"x.rs">>, <<"x.rs">>, <<>>, 1)>>}}
Disk == {{}} \cup {{t} : t \in {<<>>, <<Blank, Blank>>, <<1, Blank>>, <<3, 3>>, <<1, Broken>>, <<3, 3, 1>>, <<3, 3, 3, 1>>}}
ChangedFiles(path) ==
  {ChangedFile(path, n, disk, IF disk = {} THEN 0 ELSE TextBytes(CHOOSE t \in disk : TRUE)) : n \in {1, 2}, disk \in Disk} \cup {ChangedFile(path, 1, {<<3, 3, 3, 1>>}, 2)}
InjectInputs(p) ==
  {[files |-> files, local |-> TRUE, max |-> max, agents |-> "file", guide |-> <<1, 3>>] :
     files \in {<<f, g>> : f \in ChangedFiles(<<"x.rs">>), g \in ChangedFiles(<<"c.c">>)}, max \in {5, 9}}
  \cup {[files |-> <<f, ChangedFile(<<"..", "x.rs">>, 1, {<<1>>}, 1)>>, local |-> local, max |-> max, agents |-> agents, guide |-> guide] :
          f \in ChangedFiles(<<"x.rs">>), local \in BOOLEAN, max \in {0, 5}, agents \in {"file", "symlink"}, guide \in Texts}
SourceInputs(p) ==
  {[url |-> url, token |-> token, revision |-> revision, local |-> local, path |-> path, disk |-> disk, status |-> status, language |-> language, overrides |-> overrides] :
     url \in {"", "github", "gitlab"}, token \in {"", "t"}, revision \in {"", "sha"}, local \in BOOLEAN, path \in {<<>>, <<"x.rs">>, <<"..", "x.rs">>, <<"/", "x.rs">>},
     disk \in {{}, {<<1>>}, {<<Broken>>}}, status \in {0, 200, 401, 403, 404, 500}, language \in {"Rust", "TypeScript", "CPlusPlus"},
     overrides \in {{}, {[f \in ProfileFields |-> IF f = "test_patterns" THEN <<"own">> ELSE <<>>]}}}
PromptInputs(p) ==
  {[kind |-> kind, there |-> there] : kind \in {"review", "aggregator", "overview", "describe", "improve", "ask", "ask_line", "changelog"}, there \in SUBSET OptionalVars}

-----------------------------------------------------------------------------
(* Inputs: the command line.                                               *)

Llm(parses, base) == [parses |-> parses, base |-> base]
World ==
  [args |-> <<>>, env |-> <<>>, settings |-> <<Llm(TRUE, "b")>>, config |-> TRUE, input |-> TRUE, empty |-> FALSE, forge |-> TRUE, answers |-> TRUE,
   aggregator |-> "off", writable |-> TRUE, saves |-> TRUE, dir |-> "here", publishes |-> TRUE, github |-> FALSE, explicit |-> FALSE, toml |-> "none",
   inject |-> TRUE, agents |-> {"guide"}, canonical |-> TRUE]
CommandInputs(p) ==
  {[cmd |-> [command |-> command, inputs |-> inputs, publish |-> publish, output |-> output],
    w |-> [World EXCEPT !.args = llm[1], !.env = llm[2], !.settings = llm[3], !.config = w[1], !.input = w[2], !.empty = ~w[3], !.forge = w[4],
                        !.answers = w[5], !.saves = w[6], !.publishes = w[7], !.aggregator = settings[1], !.toml = settings[2], !.explicit = settings[3], !.dir = dir]] :
     settings \in {<<"off", "good", FALSE>>, <<"fails", "good", TRUE>>, <<"on", "broken", FALSE>>, <<"on", "unread", FALSE>>},
     command \in {"review", "improve", "describe", "ask", "changelog", "repo-review"},
     inputs \in {{}, {"mr"}, {"diff"}, {"local"}, {"stdin"}, {"path"}, {"path", "local"}, {"mr", "local"}, {"diff", "stdin"}, {"local", "range"}},
     publish \in BOOLEAN, output \in {"none", "up", "file"}, dir \in {"here", "up"},
     llm \in {<<<<>>, <<>>, <<>>>>, <<<<Llm(FALSE, "b")>>, <<>>, <<>>>>, <<<<>>, <<Llm(TRUE, "")>>, <<Llm(TRUE, "b")>>>>, <<<<>>, <<>>, <<Llm(TRUE, ""), Llm(TRUE, "b")>>>>},
     w \in {f \in [1 .. 7 -> BOOLEAN] : Cardinality({i \in 1 .. 7 : ~f[i]}) <= 1}}
Located == <<[lead |-> "/", segs |-> <<"r", "f">>], [lead |-> "./", segs |-> <<"f">>], [lead |-> "/", segs |-> <<"x", "r">>]>>
Report(name, findings, text) == [name |-> name, findings |-> findings, paths |-> SubSeq(Located, 1, findings), text |-> text]
TextInputs(p) ==
  {[result |-> [SingleExpertOutput("ask") EXCEPT !.reports = reports, !.aggregated = agg, !.compliance = tickets, !.dropped = dropped],
    mode |-> mode, format |-> format, verification |-> verification, root |-> <<"r">>] :
     reports \in {<<>>, <<Report("lead", 0, TRUE)>>, <<Report("lead", 0, FALSE)>>, <<Report("lead", 0, FALSE), Report("ux", 3, TRUE)>>},
     agg \in {{}, {"text"}}, tickets, verification \in BOOLEAN, dropped \in {0, 1}, mode \in {"path", "mr", "local"}, format \in {"markdown", "aggregated-markdown", "json"}}
ServeInputs(p) ==
  {[flags |-> [f \in {"tls_cert", "tls_key", "github_token", "github_webhook_secret", "gitlab_token"} |-> IF f \in given1 THEN {value} ELSE {}],
    env |-> [f \in {"github_token", "github_webhook_secret", "gitlab_token"} |-> IF f \in given2 THEN {"e"} ELSE {}],
    w |-> [auth |-> w[1], config |-> w[2], llm |-> w[3], env_llm |-> w[4], sweeps |-> w[5], binds |-> w[6], db |-> db, saved |-> saved, files |-> {"project"}]] :
     given1 \in SUBSET {"tls_cert", "tls_key", "github_webhook_secret", "gitlab_token"}, value \in {"", "v"},
     given2 \in SUBSET {"github_token", "github_webhook_secret"}, w \in {f \in [1 .. 6 -> BOOLEAN] : Cardinality({i \in 1 .. 6 : ~f[i]}) <= 2},
     db \in {"off", "down", "empty", "full", "unread"}, saved \in {"none", "good", "broken"}}
Num(n) == [number |-> TRUE, n |-> n]
Release(a, b, c) == <<Num(a), Num(b), Num(c)>>
UpgradeInputs(p) ==
  {[current |-> <<1, 2, 3>>, release |-> [ok |-> ok, tag |-> tag, assets |-> assets], os |-> "linux", arch |-> "arm64", exe |-> exe, docker |-> docker,
    zip |-> SubSeq(<<[name |-> "a", outside |-> FALSE, symlink |-> FALSE, big |-> FALSE], [name |-> "b", outside |-> b[1], symlink |-> FALSE, big |-> back]>>, 1, n),
    args |-> [rollback |-> back, check |-> b[1], yes |-> b[2], confirms |-> b[3], version |-> version]] :
     ok, docker, back \in BOOLEAN, b \in [1 .. 3 -> BOOLEAN], exe \in {{}, {"usr"}, {"Cellar", "usr"}, {"cargo"}},
     n \in 0 .. 2,
     tag \in {Release(1, 3, 0), Release(1, 2, 3), Release(0, 9, 9), <<Num(1), Num(2)>>, <<Num(1), Num(3), [Num(0) EXCEPT !.number = FALSE]>>},
     version \in {{}, {Release(1, 3, 0)}, {Release(1, 2, 4)}, {Release(1, 2, 2)}, {<<Num(1)>>}},
     assets \in {{}, {<<"linux", "aarch64", "tar.gz">>}, {<<"linux", "aarch64", "tar.gz">>, <<"linux", "aarch64", "sha256">>}}}
AnswerInputs(p) ==
  {[answer |-> [parses |-> parses, text |-> "raw", title |-> "t", description |-> "d", kind |-> kind, list |-> list], commands |-> commands, experts |-> experts] :
     parses \in BOOLEAN, kind \in {"", "fix"}, list \in {<<>>, <<[line |-> {300}, score |-> {261}, kind |-> ""], [line |-> {}, score |-> {}, kind |-> "x"]>>},
     commands \in {[x \in {} |-> TRUE], [x \in {"review"} |-> TRUE], [x \in {"review"} |-> FALSE]},
     experts \in UNION {[1 .. n -> [enabled : BOOLEAN, on_demand : BOOLEAN, commands : {{}, {"ask"}, {"review"}}]] : n \in 0 .. 2}}

-----------------------------------------------------------------------------
(* Inputs: reports.                                                        *)

Fields == {<<"word">>, <<"secret", "fence x">>, <<"fence", "fence x", "fence 4">>, <<"fence", "secret", "fence">>}
Found(id, expert, line, severity, body) ==
  [id |-> id, expert |-> expert, file |-> "f", line |-> {line}, severity |-> severity, title |-> <<"secret">>, summary |-> body, evidence |-> body,
   impact |-> body, advice |-> body]
Section(name, findings, error, dump, raw) ==
  [name |-> name, findings |-> findings, parse_error |-> error, dump |-> dump, raw |-> raw, markdown |-> RenderExpertMarkdown(name, findings)]
Gone(id, body) == [finding |-> Found(id, "ux", 1, 3, body), reason |-> body]
Summary(unverified, insufficient, body) ==
  [assessment |-> [score |-> 70, risk |-> "low", unverified |-> unverified, coverage_insufficient |-> insufficient, tl_dr |-> body],
   adjudicated |-> <<>>, stats |-> {}, parse_status |-> <<>>, total_files |-> 0, reviewed_files |-> 0, unreviewed |-> <<>>, coverage |-> {},
   injected |-> <<>>, conflicts |-> <<>>, findings |-> <<>>]
BoardInputs(p) ==
  {[output |-> [reports |-> <<Section("ux", found, error, dump, raw), Section("lead", <<>>, {}, dump, raw)>>,
                consolidated |-> IF lead THEN {[Summary(FALSE, FALSE, body) EXCEPT !.adjudicated = <<Gone(5, body)>>]} ELSE {},
                aggregated |-> IF lead THEN {UnparsedAggregate(raw)} ELSE {ParsedAggregate(raw, found)}, compliance |-> <<>>,
                dropped |-> SubSeq(<<Gone(7, <<"secret">>), Gone(8, <<"word">>)>>, 1, n)]] :
     found \in {<<>>} \cup {<<Found(1, "ux", 1, 3, body), Found(2, "ux", 2, 0, <<"word">>)>> : body \in Fields},
     error \in {{}, {"yaml"}}, dump \in {{}, {"file"}}, raw \in {<<"secret">>, <<"word", "secret", "fence", "secret">>}, lead \in BOOLEAN, body \in Fields, n \in 0 .. 2}
Spans == <<<<1, 2>>, <<4, 4>>, <<6, 9>>>>
Capped(listed, omitted) == [expert |-> "ux", listed |-> listed, omitted |-> omitted]
SummaryInputs(p) ==
  {[Summary(how[1], how[2], body) EXCEPT !.adjudicated = IF away THEN <<Gone(5, body)>> ELSE <<>>, !.stats = stats, !.parse_status = failed,
      !.total_files = 2, !.reviewed_files = 2 - Len(left), !.unreviewed = left, !.injected = <<[source |-> "f", original |-> 2, truncated |-> away]>>,
      !.coverage = IF how = <<FALSE, FALSE>> THEN {} ELSE
        {[covered |-> IF how[2] THEN 6 ELSE 7, total |-> 10, debt |-> SubSeq(Spans, 1, spans), cap |-> 2, reports |-> <<Capped(1, {4}), capped, Capped(3, {})>>]}] :
     how \in {<<FALSE, FALSE>>, <<TRUE, FALSE>>, <<TRUE, TRUE>>}, away \in BOOLEAN, body \in Fields,
     stats \in {{}, {[checked |-> 0, skipped |-> 0, dropped |-> 0]}, {[checked |-> 0, skipped |-> 1, dropped |-> 0]}},
     failed \in {<<>>, <<"ux">>, <<"ux", "lead", "ux">>}, left \in {<<>>, <<"g">>}, spans \in 0 .. 3, capped \in {Capped(2, {}), Capped(2, {0}), Capped(5, {3})}}
  \cup {[Summary(FALSE, FALSE, <<"word">>) EXCEPT !.findings = fs,
           !.conflicts = <<[file |-> "f", line |-> {1}, issue |-> <<"secret">>, experts |-> <<"ux", "lead", "docs">>, resolutions |-> <<<<"secret">>, <<"fence">>, <<"word">>>>]>>] :
         fs \in UNION {[1 .. n -> {Found(1, e, l, s, <<"word">>) : e \in {"ux", "lead", "docs"}, l \in {1, 2}, s \in {0, 2, 4}}] : n \in 0 .. 3}}
AggregateInputs(p) ==
  {[text |-> text, findings |-> found] : text \in UNION {[1 .. n -> {"map", "word", "bad", "fence", "fence x", "fence 4"}] : n \in 0 .. 4} \cup {<<"map", "map", "map", "map", "map", "map">>},
     found \in UNION {[1 .. n -> {Found(1, "a", 1, 0, <<"word">>), Found(2, "a", 1, 2, <<"word">>), Found(3, "a", 1, 4, <<"word">>)}] : n \in {1, 3}}}
TeamInputs(p) ==
  {[reports |-> reports, metrics |-> metrics, errors |-> errors, weights |-> weights, score |-> <<100, 55, 0>>] :
     reports \in {<<>>} \cup {<<Section("ux", <<Found(1, "ux", 1, s, body), Found(2, "ux", 2, t, <<>>)>>, {}, {}, <<>>), Section("lead", other, {}, {}, <<>>)>> :
                               s, t \in 0 .. 4, body \in Fields, other \in {<<>>, <<Found(3, "lead", 1, 3, <<"word">>)>>}},
     metrics \in {<<>>, <<[name |-> "ux", latency |-> 3], [name |-> "lead", latency |-> 4], [name |-> "docs", latency |-> 9]>>}, errors \in {<<>>, <<"e">>},
     weights \in {<<>>, [n \in {"ux"} |-> 57]}}

-----------------------------------------------------------------------------
(* Inputs: requests to providers.                                          *)

Card(provider, segs, key, thinking) ==
  [provider |-> provider, model |-> "m", base |-> [scheme |-> IF segs = <<>> THEN "" ELSE "http", segs |-> segs], key |-> key, thinking |-> thinking]
Cards ==
  {Card(n, segs, "k1", t) : n \in {"", "openai", "Anthropic", "DeepSeek"}, segs \in {<<>>, <<"h">>, <<"h", "v1", "">>, <<"h", "", "">>},
     t \in {{}, {FALSE}, {TRUE}}}
Http(status, text, json, content, name) ==
  [got |-> "http", status |-> status, text |-> text, json |-> json, content |-> content, model |-> name]
ProviderAnswers ==
  {[Http(0, <<>>, FALSE, <<>>, {}) EXCEPT !.got = "down"]}
  \cup {Http(s, text, FALSE, <<>>, {}) : s \in {302, 400, 401, 408, 429, 500, 529}, text \in {<<>>, <<Returned, 404>>, <<Returned, 5>>}}
  \cup {Http(200, <<>>, j, content, name) : j \in BOOLEAN, content \in {<<>>, <<"blank">>, <<"text">>}, name \in {{}, {"other"}}}
WireInputs(p) ==
  {[configs |-> <<card>> \o rest, registry |-> IF r THEN {FromConfigs(<<card>> \o rest)} ELSE {}, answer |-> answer] :
     card \in Cards, rest \in {<<>>, <<Card("OpenAI", <<"g">>, "k2", {})>>, <<Card("deepseek", <<"g">>, "k2", {})>>},
     r \in BOOLEAN, answer \in ProviderAnswers}

Inputs(p) ==
  CASE p = "people" -> PeopleInputs(p)
    [] p = "api" -> ApiInputs(p)
    [] p = "address" -> AddressInputs(p)
    [] p = "search" -> SearchInputs(p)
    [] p = "settings" -> SettingsInputs(p)
    [] p = "edit" -> EditInputs(p)
    [] p = "init" -> InitInputs(p)
    [] p = "places" -> PlaceInputs(p)
    [] p = "experts" -> ExpertInputs(p)
    [] p = "scan" -> ScanInputs(p)
    [] p = "key" -> KeyInputs(p)
    [] p = "doctor" -> DoctorInputs(p)
    [] p = "repo" -> RepoInputs(p)
    [] p = "sweep" -> SweepInputs(p)
    [] p = "split" -> SplitInputs(p)
    [] p = "report" -> ReportInputs(p)
    [] p = "static" -> StaticInputs(p)
    [] p = "strip" -> StripInputs(p)
    [] p = "tickets" -> TicketInputs(p)
    [] p = "links" -> LinkInputs(p)
    [] p = "json" -> JsonInputs(p)
    [] p = "command" -> CommandInputs(p)
    [] p = "text" -> TextInputs(p)
    [] p = "serve" -> ServeInputs(p)
    [] p = "release" -> UpgradeInputs(p)
    [] p = "answers" -> AnswerInputs(p)
    [] p = "board" -> BoardInputs(p)
    [] p = "summary" -> SummaryInputs(p)
    [] p = "aggregate" -> AggregateInputs(p)
    [] p = "team" -> TeamInputs(p)
    [] p = "wire" -> WireInputs(p)
    [] p = "parse" -> DiffInputs(p)
    [] p = "chunks" -> ChunkInputs(p)
    [] p = "path" -> PathInputs(p)
    [] p = "browser" -> BrowserInputs(p)
    [] p = "context" -> ContextInputs(p)
    [] p = "inject" -> InjectInputs(p)
    [] p = "source" -> SourceInputs(p)
    [] p = "prompt" -> PromptInputs(p)
    [] OTHER -> {}

-----------------------------------------------------------------------------
(* The parts.                                                              *)

Init == part \in Parts /\ given = {}
Ask == given = {} /\ UNCHANGED part /\ \E c \in Inputs(part) : given' = {c}
Next == Ask
Spec == Init /\ [][Next]_<<part, given>>

-----------------------------------------------------------------------------
\* The tools around a review do what they say: people and answers of a forge are kept as they are, settings come from
\* where the resolver says and edits touch nothing else, redaction covers every hit, no key and no transaction is lost,
\* a repository is partitioned and its report honest, every ticket is accounted for, a command checks before it asks,
\* asks before it publishes and fails when a step of it failed, and what a reader is shown hides no failure, no finding
\* and no doubt and shows no credential.
ToolsAreFaithful ==
  \A c \in given :
    CASE part = "people" -> PeopleAreKept(c)
      [] part = "api" -> FailureIsNotAbsence(c) /\ NotesArePinned(c)
      [] part = "address" -> AddressesAreExact(c)
      [] part = "search" -> SearchIsComplete(c)
      [] part = "settings" -> SettingsComeInOrder(c)
      [] part = "edit" -> EditsAreLocal(c)
      [] part = "init" -> InitIsUsable(c)
      [] part = "scan" -> RedactionIsExact(c)
      [] part = "key" -> KeyIsKept(c)
      [] part = "doctor" -> DoctorIsSafe(c)
      [] part = "places" -> InstancesAreApart(c)
      [] part = "experts" -> TeamIsBuilt(c)
      [] part = "repo" -> RepoIsPartitioned(c)
      [] part = "sweep" -> SweepIsExact(c)
      [] part = "split" -> SplitLosesNothing(c)
      [] part = "report" -> ReportIsHonest(c) /\ RepoReportIsWhole(RunRepoReview(c), c.verify, 2 * Len(c.chunks))
      [] part = "static" -> FindingsCost(c)
      [] part = "strip" -> StripIsExact(c)
      [] part = "tickets" -> TicketsAreAccountedFor(c)
      [] part = "links" -> ObedientAnswerIsRead(c)
      [] part = "json" -> ObjectIsFound(c)
      [] part = "command" -> CommandKeepsItsPromise(c)
      [] part = "text" -> TextIsComplete(c)
      [] part = "serve" -> ServerStartsGuarded(c)
      [] part = "release" -> UpgradeIsWanted(c)
      [] part = "answers" -> AnswersAreRead(c)
      [] part = "board" -> BoardIsHonest(c)
      [] part = "summary" -> SummaryIsHonest(c)
      [] part = "aggregate" -> AggregateIsHonest(c)
      [] part = "team" -> TeamReportAddsUp(c)
      [] part = "wire" -> WireIsFaithful(c)
      [] OTHER -> TRUE

\* What is reviewed and what the experts are told about it is whole: parsing, filtering, compressing and chunking a diff
\* lose nothing they may not lose, and the context, the file contents and the prompts say what they hold (the diff
\* handling, the project context, the file sources, the prompt builders).
ReviewInputIsWhole ==
  \A c \in given :
    CASE part = "parse" -> ParseIsFaithful(c)
      [] part = "chunks" -> ChunkingIsWhole(c)
      [] part = "path" -> PathReviewIsWhole(c)
      [] part = "browser" -> BrowserIsCareful(c)
      [] part = "context" -> ContextIsBounded(c)
      [] part = "inject" -> InjectionIsHonest(c)
      [] part = "source" -> SourcesAreTruthful(c)
      [] part = "prompt" -> PromptsAreFilled(c)
      [] OTHER -> TRUE
=============================================================================
