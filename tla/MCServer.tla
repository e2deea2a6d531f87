------------------------------ MODULE MCServer ------------------------------
(* The services behind the pages of the server, one per behaviour: part      *)
(* says which one runs, the variables of the others are off.                 *)
EXTENDS ProviderHealth, Functions

CONSTANTS
  Door, ApiRequest, AuthClient, MaxTokenPuts, MaxAuthBoots,
  FileExperts, Slug, RoleWords, ExpertPatch, StoredRow, MaxWeight, Editor, MaxEdits, MaxEditBoots,
  FeedbackBody, MaxFeedback, MaxFeedbackFaults,
  FirstPlatforms, PlatformLists, PlatformTest, BadTarget, StorageTarget, StorageTtl, MaxPlatformSteps,
  MaxStorageTick, ReviewRows, Today, WeekDay, DayLength, TrendDays, RecentLimit,
  ReviewKind, ExpertTask, LogLine, MaxLog, MaxPieces, LogCap, BufferCap, Subscribers,
  CatalogReader, CatalogTtl, MaxCatalogClock, MaxCatalogReads, FirstDisk,
  IntakeLists, Runtime, Started, GithubSecret, Delivery, Tolerance, MaxBody, MaxIntakeSaves,
  ReqLists, Accounts, ReviewRequest, RequestHeader, RequestClient, LocalHost, RuntimeToken, KeyHome,
  Courses, DiffCap, OldRows, MaxRequests, MaxReqSaves,
  NoteKind, Author, MaxNotes, MaxVersions, MaxContext, MaxLookupFails, MaxRotations,
  History, ListQuery, NewReview, MaxNewReviews, PageBits, PerPageCap, DefaultPage, Unreadable, Recent,
  Parts

VARIABLES
  part,
  door, gate, token, authFile, authTmp, putter, authHistory,
  overrides, experts, flag, ui, rows, edit, editHistory,
  entries, feedbackFile, feedbackHistory,
  platforms, gitHealth, platformProbe, target, storage, writable, storageTick, systemHistory,
  kind, progress, taskDone, logBuffer, log, logFile, stream, logHistory,
  catalogClock, catalogCache, catalogDisk, fetchLock, catalogRead, catalogHistory,
  intakeList, intake,
  reqList, reqAccounts, reqClient, reqRows, reqJobs, reqCalls, reqSaves,
  forgeNotes, noteHooks, noteRows, account, selfUserId, section, notesPast,
  listing

Auth == INSTANCE ApiAuth
Experts == INSTANCE ExpertSettings
System == INSTANCE SystemHealth
Board == INSTANCE ProgressBoard
Intake == INSTANCE WebhookIntake WITH PlatformLists <- IntakeLists
Requests == INSTANCE ReviewRequests
Notes == INSTANCE DiscussionNotes

-----------------------------------------------------------------------------
(* Instances.                                                              *)

\* Accounts and tokens: a deployment on the loopback or public address, with or without a
\* token of the command line, a bootstrap key and a stored token.
MCDoor ==
  [loopback : BOOLEAN, explicit : {{}}, bootkey : {{}, {"boot"}}, stored : {{}, {"old"}, {"bad"}}]
  \cup {[loopback |-> FALSE, explicit |-> {"cli"}, bootkey |-> {}, stored |-> {"old"}]}
Ask(path, bearer, header, query, boot, body) ==
  [path |-> path, bearer |-> bearer, header |-> header, query |-> query, boot |-> boot, body |-> body]
MCApiRequest ==
  {Ask("token", bearer, {}, {}, boot, {new}) :
     bearer \in {{}, {"old"}, {"cli"}, {"new"}}, boot \in {{}, {"boot"}}, new \in {"new", "next"}}
  \cup {Ask("token", {}, {"cli"}, {}, {}, {"new"}), Ask("token", {""}, {}, {}, {}, {}),
        Ask("status", {}, {}, {}, {}, {}), Ask("logs", {}, {}, {"new"}, {}, {}),
        Ask("reviews", {}, {}, {"new"}, {}, {}), Ask("reviews", {"wrong"}, {"new"}, {}, {}, {}),
        Ask("reviews", {}, {"old"}, {}, {}, {}), Ask("reviews", {}, {}, {}, {"boot"}, {})}

\* Three experts, two of them with one id; a row a newer version, or nobody, could have written.
MCFileExperts == [n \in 1 .. 3 |-> [enabled |-> n # 2, weight |-> n, prompt |-> IF n = 1 THEN {"own"} ELSE {}]]
MCSlug == [n \in 1 .. 3 |-> IF n = 3 THEN "b" ELSE <<"a", "b">>[n]]
MCRoleWords == <<{"security", "quality"}, {}, {"maintainability", "documentation"}>>
Patch(enabled, weight, prompt) == [enabled |-> enabled, weight |-> weight, prompt |-> prompt]
MCExpertPatch ==
  {Patch({TRUE}, {}, {}), Patch({}, {4}, {}), Patch({}, {12}, {}), Patch({}, {}, {"mine"}),
   Patch({FALSE}, {0}, {""}), Patch({}, {}, {"long"})}
MCStoredRow ==
  {{}, {[kind |-> "text", entries |-> <<>>]},
   {[kind |-> "map", entries |-> [n \in {1, 7} |-> Patch({n = 7}, {9}, {"kept"})]]},
   {[kind |-> "map", entries |-> [n \in {2} |-> Patch({}, {12}, {""})]]}}

MCFeedbackBody ==
  [print : {{}, {1}}, place : {{}, {2}}, verdict : {{}, {"useful"}, {"false_positive"}}, category : {{}, {"bug"}}]

\* Two accounts of a provider, one of them disabled, and others that join them.
Account(provider, base, model, key, disabled) ==
  [provider |-> provider, base |-> base, model |-> model, key |-> key, disabled |-> disabled]
MCFirstAccounts == <<Account("openai", "", "m", "k1", FALSE), Account("openai", "", "m", "k2", TRUE)>>
MCNewAccount == {Account("local", "", "m", "k3", FALSE), Account("openai", "", "m", "k3", FALSE)}
MCAccountPatch == {[model |-> "", key |-> "k4", base |-> ""], [model |-> "n", key |-> "", base |-> "b"]}
Call(model, fp, success, latency, ttfb, at) ==
  [provider |-> "openai", model |-> model, fp |-> fp, success |-> success, latency |-> latency,
   ttfb |-> ttfb, at |-> at, readable |-> TRUE]
Used(fp) == [provider |-> "openai", model |-> "m", fp |-> fp]
Past(state, at, usages) == [state |-> state, at |-> at, readable |-> at # 3, json |-> at # 2, usages |-> usages]
Key1 == {<<"openai", "", "m", "k1">>}
MCCalls ==
  <<Call("m", {}, TRUE, 5, {}, 0), Call("m", Key1, TRUE, -3, {2}, 4), Call("m", {<<"openai", "", "m", "k2">>}, FALSE, 9, {}, 7),
    Call("m", {}, TRUE, 4, {-1}, 8), Call("n", {<<"openai", "b", "n", "k1">>}, TRUE, 1, {1}, 9), Call("m", Key1, TRUE, 7, {}, 10)>>
MCReviews ==
  <<Past("completed", 0, <<Used({}), Used(Key1), Used(Key1)>>), Past("failed", 3, <<Used(Key1), [Used({}) EXCEPT !.provider = ""]>>),
    Past("completed", 2, <<Used({})>>), Past("cancelled", 8, <<Used({})>>), Past("completed", 9, <<Used(Key1)>>)>>
Database(there, answers, calls) == [there |-> there, answers |-> answers, calls |-> calls, probes |-> calls, reviews |-> MCReviews]
MCStoredCalls ==
  {NoDatabase, Database(TRUE, FALSE, MCCalls), Database(TRUE, TRUE, MCCalls), Database(TRUE, TRUE, [MCCalls EXCEPT ![4].readable = FALSE])}

\* Two GitLab entries and one GitHub entry, edited to another token or another address.
Platform(id, type, base, internal, secret) ==
  [id |-> id, type |-> type, base |-> base, internal |-> internal, token |-> secret]
MCFirstPlatforms == <<Platform("1", "gitlab", "a", "", "t1"), Platform("2", "gitlab", "b", "in", "t2"), Platform("3", "github", "c", "", "t3")>>
MCPlatformLists ==
  {MCFirstPlatforms, <<Platform("1", "gitlab", "a", "", "t9"), Platform("2", "gitlab", "a", "", "t2")>>,
   <<Platform("2", "gitlab", "b", "bad", "t2")>>}
MCPlatformTest ==
  {[id |-> id, base |-> base, internal |-> internal, token |-> sent] :
     id \in {"", "1", "2"}, base \in {"", "a", "b"}, internal \in {"", "bad"}, sent \in {"", "t9"}}
Review(created, state, duration) == [created |-> created, state |-> state, duration |-> duration]
MCReviewRows ==
  {<<>>,
   <<Review(120, "completed", {5}), Review(119, "failed", {}), Review(110, "completed", {3}), Review(90, "completed", {}),
     Review(89, "failed", {2}), Review(20, "completed", {8}), Review(19, "completed", {1}), Review(131, "running", {})>>,
   <<Review(-10, "failed", {}), Review(90, "cancelled", {7}), Review(119, "completed", {4}), Review(119, "failed", {4})>>}

MCLogLine == {[json |-> TRUE, level |-> "warn", inferred |-> "info", text |-> 1], [json |-> FALSE, level |-> "", inferred |-> "error", text |-> 2]}

\* No file of the catalogue, one that cannot be read, an old one.
MCFirstDisk == {{}, {-1}, {0}}

\* One instance behind two addresses, another on the same host with a port of its own, and
\* one without any secret.
Url(host, port, path) == [scheme |-> "https", host |-> host, port |-> port, path |-> path]
Forge(name, base, internal, secret, signing, projects) ==
  [name |-> name, base |-> base, internal |-> internal, token |-> name, secret |-> secret,
   signing |-> signing, projects |-> projects]
Main == Forge("main", Url("git", {}, <<>>), {[Url("inner", {8080}, <<>>) EXCEPT !.scheme = "http"]}, "s1", "", {"p"})
Ported == Forge("ported", Url("git", {8443}, <<>>), {}, "", "key", {})
Silent == Forge("silent", Url("other", {443}, <<>>), {}, "", "", {})
MCIntakeLists == {<<>>, <<Main>>, <<Main, Ported>>, <<Silent, Ported>>, <<Silent>>, <<Silent, Main, Ported>>}
MCRuntime == [secret |-> "server", signing |-> "malformed", token |-> "server"]
MCStarted == [secret |-> "", signing |-> "", token |-> "first"]

Person(name, avatar) == [name |-> {name}, avatar |-> avatar]
Body(urls, action) ==
  [json |-> TRUE, kind |-> "merge_request", action |-> action, web_url |-> urls, homepage |-> {}, repo_homepage |-> {},
   url |-> {}, iid |-> "1", project |-> "p", sha |-> "sha", commit_author |-> {"ann"},
   author |-> Person("bob", "bob.png"), user |-> Person("ann", "ann.png")]
Project(host, port) == {Url(host, port, <<"p">>)}
Bodies ==
  {Body(Project("git", {}), "open"), Body(Project("git", {8443}), "update"), Body(Project("git", {9}), "open"),
   Body(Project("other", {}), "reopen"), Body({}, "open"), [Body(Project("git", {}), "open") EXCEPT !.project = "q"],
   [Body(Project("git", {443}), "open") EXCEPT !.sha = ""], Body(Project("git", {}), "close"),
   [Body(Project("git", {}), "open") EXCEPT !.url = {Url("git", {}, <<"p", "-/merge_requests", "2">>)}],
   [Body(Project("git", {}), "open") EXCEPT !.commit_author = {""}], [Body(Project("git", {}), "open") EXCEPT !.commit_author = {}],
   [Body(Project("git", {}), "open") EXCEPT !.json = FALSE], [Body({}, "open") EXCEPT !.homepage = Project("other", {443})]}
Delivered(body) ==
  [forge |-> "gitlab", event |-> "merge_request", size |-> 1, clock |-> 10, signed |-> FALSE, signature |-> {},
   id |-> "", at |-> {}, token |-> "s1", hub |-> {}, body |-> body]
Signs(body, key, at) ==
  [Delivered(body) EXCEPT !.signed = TRUE, !.signature = {<<key, "id", at, body>>}, !.id = "id", !.at = {at}, !.token = ""]
Pull(body, hub) == [Delivered(body) EXCEPT !.forge = "github", !.event = "pull_request", !.hub = hub]
MCDelivery ==
  UNION {{Delivered(b), [Delivered(b) EXCEPT !.token = ""], [Delivered(b) EXCEPT !.token = "server"],
          Signs(b, "key", 10), Signs(b, "key", 20), [Signs(b, "key", 12) EXCEPT !.body.sha = "other"],
          Signs(b, "malformed", 10), [Delivered(b) EXCEPT !.event = "System Hook"],
          Pull(b, {<<"hub", b>>}), Pull(b, {<<"", b>>}), Pull(b, {})} : b \in Bodies}
  \cup {[Delivered(Body({}, "open")) EXCEPT !.size = 9], [Delivered(Body({}, "open")) EXCEPT !.event = "push"]}

\* Requests over the API: routed to the inner address, local, without an account that works,
\* and with keys of their own.
Model(base, key) == [provider |-> "openai", base |-> base, model |-> "m", key |-> key]
ServerModel(base, key, disabled) == [provider |-> "openai", base |-> base, model |-> "m", key |-> key, disabled |-> disabled]
MCAccounts == {<<ServerModel("b1", "k1", FALSE), ServerModel("b2", "k2", TRUE)>>, <<ServerModel("b2", "k2", TRUE)>>,
               <<ServerModel("b1", "k1", FALSE), ServerModel("b1", "k9", FALSE)>>}
MCKeyHome == [k \in {"k1", "k2", "k9", "mine", "yours"} |-> CASE k \in {"k1", "k9", "mine"} -> "b1" [] OTHER -> "b2"]
MrUrl(host, port) == {Url(host, port, <<"p", "-/merge_requests", "1">>)}
Wanted(url, llm, webhook) ==
  [kind |-> "gitlab_mr", url |-> url, llm |-> llm, webhook |-> webhook, token |-> FALSE, valid |-> TRUE, large |-> FALSE]
Hook(scheme, answers) == [scheme |-> scheme, answers |-> answers]
MCReviewRequest ==
  {Wanted(MrUrl("git", {}), <<>>, {}),
   Wanted(MrUrl("git", {8443}), <<Model("b1", "mine"), Model("b2", "yours")>>, {Hook("https", {{"public"}, {"link_local"}})}),
   Wanted(MrUrl("localhost", {}), <<>>, {}), Wanted({Url("git", {}, <<"p">>)}, <<>>, {}),
   [Wanted(MrUrl("git", {}), <<>>, {}) EXCEPT !.token = TRUE],
   [Wanted({}, <<Model("", "mine")>>, {}) EXCEPT !.kind = "diff"],
   [Wanted({}, <<>>, {Hook("http", {{"private"}, {"public"}})}) EXCEPT !.kind = "diff", !.large = TRUE],
   [Wanted({}, <<>>, {Hook("ftp", {{"public"}})}) EXCEPT !.kind = "diff"]}
MCReqLists == {<<Main, Ported>>, <<>>}
MCOldRows == <<[url |-> MrUrl("git", {}), request |-> {}],
               [url |-> {Url("git", {}, <<"p">>)}, request |-> {}],
               [url |-> {}, request |-> {[Wanted({}, <<Model("b1", "mask")>>, {}) EXCEPT !.kind = "diff"]}]>>

\* Four reviews, two of them of one moment.
Kept(id, state, at, title, project, model) ==
  [id |-> id, state |-> state, at |-> at, meta |-> [title |-> title, project |-> project, branch |-> "", author |-> "ann", sha |-> "",
   url |-> "x"], summary |-> model, result |-> {"late"}, progress |-> 0]
MCHistory == {{Kept(1, "completed", 1, "", "p", {"m"}), Kept(2, "failed", 1, "fix", "q", {"m", "n"}),
               Kept(3, "running", 2, "", "p", {}), Kept(4, "pending", 3, "fix", "p", {"n"})}, {}}
Query(status, text, project, from, page, per_page) ==
  [status |-> status, text |-> text, project |-> project, from |-> from, to |-> {}, page |-> {page}, per_page |-> {per_page}]
MCListQuery == {Query({}, {}, {}, {}, 1, 1), Query({}, {}, {}, {}, 0, 2), Query({}, {}, {"p"}, {}, 1, 2),
                Query({"failed"}, {}, {}, {1}, 1, 9), Query({}, {"fix"}, {}, {2}, 1, 1), Query({}, {"url"}, {}, {}, 1, 3),
                [Query({"done"}, {}, {}, {9}, 1, 1) EXCEPT !.page = {}, !.per_page = {}, !.to = {9}]}
\* A review may go wrong at its source, in its configuration, in the run and at each later step.
Report(name, findings, markdown) == [name |-> name, findings |-> findings, markdown |-> markdown, raw |-> markdown]
Src(of, size) ==
  [kind |-> of, there |-> TRUE, directory |-> TRUE, refs |-> {}, readable |-> TRUE, size |-> size, agents |-> {"rules"}]
Course(src, run, rest) ==
  [source |-> src, inject |-> TRUE, config |-> run[1], experts |-> run[2], team |-> {"ux", "aggregator"}, saved |-> run[3], reports |-> rest[1],
   failures |-> rest[2], consolidated |-> rest[3], aggregates |-> rest[4], dropped |-> <<>>, compliance |-> {"tickets"}, published |-> rest[5]]
GoodRun == <<"plain", "done", {TRUE}>>
GoodRest == <<<<Report("ux", <<"f">>, "text")>>, <<>>, {"line"}, {}, TRUE>>
MCCourses ==
  {Course(src, GoodRun, GoodRest) :
     src \in {Src("static", 1), Src("static", 3), Src("gitlab_mr", 1), [Src("gitlab_mr", 1) EXCEPT !.readable = FALSE], Src("local_repo", 1),
              [Src("local_repo", 1) EXCEPT !.there = FALSE], [Src("local_repo", 1) EXCEPT !.directory = FALSE],
              [Src("local_repo", 1) EXCEPT !.refs = {"--output"}], [Src("local_repo", 1) EXCEPT !.agents = {}]}}
  \cup {[Course(Src("gitlab_mr", 1), run, GoodRest) EXCEPT !.inject = FALSE] :
          run \in {"plain", "aggregated", "unreadable"} \X {"done", "error", "timeout"} \X {{}, {FALSE}}}
  \cup {Course(Src("gitlab_mr", 1), <<"plain", "done", {TRUE}>>, <<reports, failures, lead, merged, published>>) :
          reports \in {<<>>, <<Report("ux", <<>>, ""), Report("docs", <<"f", "g">>, "text")>>}, failures \in {<<>>, <<"sec">>, <<"sec", "qa">>},
          lead \in {{}, {"line"}}, merged \in {{}, {""}, {"board"}}, published \in BOOLEAN}
MCNewReview == Kept(5, "pending", 4, "", "p", {"m"})

-----------------------------------------------------------------------------
(* The parts.                                                              *)

Off == "off"
Init ==
  /\ part \in Parts
  /\ IF part = "health" THEN HealthInit
     ELSE accounts = Off /\ appLlm = Off /\ health = Off /\ jobs = Off /\ reader = Off /\ accountEdit = Off /\ probeRows = Off /\ failing = Off /\ tick = Off /\ healthHistory = Off
  /\ IF part = "auth" THEN Auth!AuthInit
     ELSE door = Off /\ gate = Off /\ token = Off /\ authFile = Off /\ authTmp = Off /\ putter = Off /\ authHistory = Off
  /\ IF part = "experts" THEN Experts!ExpertInit
     ELSE overrides = Off /\ experts = Off /\ flag = Off /\ ui = Off /\ rows = Off /\ edit = Off /\ editHistory = Off
  /\ IF part = "feedback" THEN Notes!FeedbackInit
     ELSE entries = Off /\ feedbackFile = Off /\ feedbackHistory = Off
  /\ IF part = "system" THEN System!SystemInit
     ELSE platforms = Off /\ gitHealth = Off /\ platformProbe = Off /\ target = Off /\ storage = Off /\ writable = Off /\ storageTick = Off /\ systemHistory = Off
  /\ IF part \in {"board", "log"} THEN Board!ProgressInit /\ (part = "log" => kind = "small")
     ELSE kind = Off /\ progress = Off /\ taskDone = Off /\ logBuffer = Off /\ log = Off /\ logFile = Off /\ stream = Off /\ logHistory = Off
  /\ IF part = "catalog" THEN System!CatalogInit
     ELSE catalogClock = Off /\ catalogCache = Off /\ catalogDisk = Off /\ fetchLock = Off /\ catalogRead = Off /\ catalogHistory = Off
  /\ IF part = "intake" THEN Intake!IntakeInit
     ELSE intakeList = Off /\ intake = Off
  /\ IF part = "requests" THEN Requests!RequestInit
     ELSE reqList = Off /\ reqAccounts = Off /\ reqClient = Off /\ reqRows = Off /\ reqJobs = Off /\ reqCalls = Off /\ reqSaves = Off
  /\ IF part = "notes" THEN Notes!NotesInit
     ELSE forgeNotes = Off /\ noteHooks = Off /\ noteRows = Off /\ account = Off /\ selfUserId = Off /\ section = Off /\ notesPast = Off
  /\ IF part = "listing" THEN Requests!ListingInit
     ELSE listing = Off

Next ==
  /\ UNCHANGED part
  /\ IF part = "health" THEN HealthNext ELSE UNCHANGED <<accounts, appLlm, health, jobs, reader, accountEdit, probeRows, failing, tick, healthHistory>>
  /\ IF part = "auth" THEN Auth!AuthNext ELSE UNCHANGED <<door, gate, token, authFile, authTmp, putter, authHistory>>
  /\ IF part = "experts" THEN Experts!ExpertNext ELSE UNCHANGED <<overrides, experts, flag, ui, rows, edit, editHistory>>
  /\ IF part = "feedback" THEN Notes!FeedbackNext ELSE UNCHANGED <<entries, feedbackFile, feedbackHistory>>
  /\ IF part = "system" THEN System!SystemNext ELSE UNCHANGED <<platforms, gitHealth, platformProbe, target, storage, writable, storageTick, systemHistory>>
  /\ IF part = "board" THEN Board!ProgressNext ELSE IF part = "log" THEN Board!LogNext ELSE UNCHANGED <<kind, progress, taskDone, logBuffer, log, logFile, stream, logHistory>>
  /\ IF part = "catalog" THEN System!CatalogNext ELSE UNCHANGED <<catalogClock, catalogCache, catalogDisk, fetchLock, catalogRead, catalogHistory>>
  /\ IF part = "intake" THEN Intake!IntakeNext ELSE UNCHANGED <<intakeList, intake>>
  /\ IF part = "requests" THEN Requests!RequestNext ELSE UNCHANGED <<reqList, reqAccounts, reqClient, reqRows, reqJobs, reqCalls, reqSaves>>
  /\ IF part = "notes" THEN Notes!NotesNext ELSE UNCHANGED <<forgeNotes, noteHooks, noteRows, account, selfUserId, section, notesPast>>
  /\ IF part = "listing" THEN Requests!ListingNext ELSE UNCHANGED <<listing>>

vars == <<part, healthVars, Auth!authVars, Experts!expertVars, Notes!feedbackVars, System!systemVars, Board!progressVars, System!catalogVars, Intake!intakeVars, Requests!requestVars, Notes!notesVars, Requests!listingVars>>

Spec == Init /\ [][Next]_vars

-----------------------------------------------------------------------------
(* What the services promise.                                              *)

\* Who gets in, and with whose credentials: the middleware locks nobody out who holds a
\* valid key and lets nobody else in; a delivery that is handled was proved by a secret
\* that is set, and is reviewed with the token and the address of one platform; no stored
\* request holds a key, and every key goes to the endpoint it was made for.
AccessIsSound ==
  CASE part = "auth" -> Auth!NobodyIsLockedOut
    [] part = "intake" -> Intake!AcceptedWithProof /\ Intake!CredentialsFitTheAddress
    [] part = "requests" -> Requests!RequestsAreSound
    [] OTHER -> TRUE

\* What was acknowledged stays, across failures and restarts: the API token, the settings of
\* the experts, the verdicts of users, the notes of a discussion without the engine's own,
\* and every review of the history on some page.
SettingsAreDurable ==
  CASE part = "auth" -> Auth!AcknowledgedTokenHolds
    [] part = "experts" -> Experts!EffectiveIsLayered /\ Experts!AcceptedEditsHold
    [] part = "feedback" -> Notes!FeedbackIsKept
    [] part = "notes" -> Notes!DiscussionIsClean
    [] part = "listing" -> Requests!HistoryIsSound
    [] OTHER -> TRUE

\* What the pages show is of the thing they show it for and of the time they say: the health
\* of an account, a platform and the storage, the cards, the dashboard, the errors and the
\* progress of a review, the log and the catalogue.
ReportsAreHonest ==
  CASE part = "health" -> StatusIsOfThisAccount /\ StaleIsRefreshed /\ ListsAgree /\ CardsAddUp /\ SamplesAreKept
    [] part = "system" -> System!HealthIsOfNow
    [] part = "listing" -> System!DashboardAddsUp /\ Requests!DetailsAreTrue
    [] part \in {"board", "log"} -> Board!ProgressIsHonest /\ Board!LogIsComplete
    [] part = "catalog" -> System!CatalogIsDated
    [] OTHER -> TRUE

\* A progress bar, a verdict on the storage and the catalogue never run back.
NothingRunsBack ==
  [][CASE part = "board" -> Board!ProgressRisesStep
       [] part = "system" -> System!FreshWhenShownStep
       [] part = "catalog" -> System!CatalogNeverRunsBackStep
       [] OTHER -> TRUE]_vars
=============================================================================
