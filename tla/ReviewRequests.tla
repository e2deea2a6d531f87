--------------------------- MODULE ReviewRequests ---------------------------
(* Reviews asked for over the API: a submission or a re-run is checked, its  *)
(* URL routed, its credentials resolved, its request stored without keys and *)
(* a worker started, with the settings open to be saved at every await in    *)
(* between; the worker reviews, publishes, records and calls back.           *)
(* The queue itself is the subject of TaskQueue.                             *)
EXTENDS GitRouting, Integers, SequencesExt

CONSTANTS ReqLists,      \* the platform lists the configuration page may save
          Accounts,      \* the account lists: sequences of [provider, base, model, key, disabled]
          ReviewRequest, \* [kind, url, llm, webhook, token, valid, large]
          RequestHeader, \* values of the token header, "" for none
          RequestClient, \* concurrent callers
          LocalHost,     \* host names of the server itself
          RuntimeToken,  \* the token of the running server
          KeyHome,       \* the endpoint each key was made for
          Courses,       \* how a review may go: see ResolveSource and RunReview
          DiffCap,       \* the most a diff in a request may hold
          OldRows,       \* rows of earlier versions and of webhooks: [url, request]
          MaxRequests,   \* bound: requests admitted
          MaxReqSaves    \* bound: saves of the settings

Mask == "mask"

VARIABLES reqList, reqAccounts, reqClient, reqRows, reqJobs, reqCalls, reqSaves
requestVars == <<reqList, reqAccounts, reqClient, reqRows, reqJobs, reqCalls, reqSaves>>

(* ------------------------------- the checks -------------------------------- *)
IsMr(r) == r.kind = "gitlab_mr"
RejectBodyToken(r) == IsMr(r) /\ r.token
InvalidUrl(r) == IsMr(r) /\ \A u \in r.url : ~IsMrUrl(u)

PlanRoute(r, list) ==
  IF IsMr(r) THEN RouteMrUrl(list, CHOOSE u \in r.url : TRUE, LocalHost) ELSE RouteUnchanged

\* An account of the request needs an address; one of the server must be in use as well.
RequireUsableLlm(r, accounts) ==
  IF r.llm # <<>> THEN \E i \in DOMAIN r.llm : r.llm[i].base # ""
  ELSE \E i \in DOMAIN accounts : accounts[i].base # "" /\ ~accounts[i].disabled

\* A callback may go to any address that is not of the machine's own network neighbourhood;
\* without encryption only to a private one.
BlockedAddress == {"link_local", "unspecified", "multicast"}
PrivateAddress == {"loopback", "private"}
ValidateCallback(cb, ips) ==
  /\ cb.scheme \in {"http", "https"} /\ ips # {} /\ ips \cap BlockedAddress = {}
  /\ cb.scheme = "http" => ips \subseteq PrivateAddress

(* ------------------------------ stored requests ---------------------------- *)
\* Every key of a request is replaced before it is stored; an empty one stays empty.
\* Fault: only the first account of the request is masked.
MaskFirst(r) == [r EXCEPT !.llm = [i \in DOMAIN r.llm |->
  [r.llm[i] EXCEPT !.key = IF @ = "" \/ i > 1 THEN @ ELSE Mask]]]
MaskRequest(r) == [r EXCEPT !.llm = [i \in DOMAIN r.llm |->
  [r.llm[i] EXCEPT !.key = IF @ = "" THEN "" ELSE Mask]]]

\* A masked key comes back from the one account of the server with the same endpoint.
SameEndpoint(a, b) == a.provider = b.provider /\ a.base = b.base /\ a.model = b.model
ResolveMaskedKeys(llm, accounts) ==
  [i \in DOMAIN llm |->
     LET same == SelectSeq(accounts, LAMBDA a : SameEndpoint(a, llm[i]))
     IN [llm[i] EXCEPT !.key = IF @ = Mask /\ Len(same) = 1 THEN same[1].key ELSE @]]

InUse(accounts) == SelectSeq(accounts, LAMBDA a : ~a.disabled)

\* The request of a webhook row, and of a row without one: its URL when it is GitLab's.
MrUrlRequest(urls) ==
  {[kind |-> "gitlab_mr", url |-> {u}, llm |-> <<>>, webhook |-> {}, token |-> FALSE,
    valid |-> TRUE, large |-> FALSE] : u \in {v \in urls : IsMrUrl(v)}}

NoClient == [pc |-> "idle"]
NewRow(r, urls) == [state |-> "pending", request |-> {r}, url |-> urls]
RequestInit ==
  /\ reqList \in ReqLists /\ reqAccounts \in Accounts
  /\ reqClient = [c \in RequestClient |-> NoClient]
  /\ reqRows = [i \in DOMAIN OldRows |-> [state |-> "completed", request |-> OldRows[i].request,
                                          url |-> OldRows[i].url]]
  /\ reqJobs = {} /\ reqCalls = <<>> /\ reqSaves = 0

Answer(c, status) == reqClient' = [reqClient EXCEPT ![c] = [pc |-> "idle", status |-> status]]

\* Everything up to the first await: the checks of the text and the plan of the route.
Checked(c, r, header, origin) ==
  LET route == PlanRoute(r, reqList)
  IN CASE RejectBodyToken(r) -> Answer(c, 400)
       [] ~RejectBodyToken(r) /\ (~r.valid \/ InvalidUrl(r)) -> Answer(c, 422)
       [] ~RejectBodyToken(r) /\ r.valid /\ ~InvalidUrl(r) /\ route.kind = "refused" -> Answer(c, 400)
       [] OTHER -> reqClient' = [reqClient EXCEPT ![c] =
                     [pc |-> "callback", r |-> r, header |-> header, route |-> route, of |-> origin,
                      saves |-> reqSaves, list |-> reqList]]

Idle(c) == reqClient[c].pc = "idle" /\ Len(reqRows) < Len(OldRows) + MaxRequests
SubmitReview(c) ==
  /\ Idle(c)
  /\ \E r \in ReviewRequest, header \in RequestHeader : Checked(c, r, header, {})
  /\ UNCHANGED <<reqList, reqAccounts, reqRows, reqJobs, reqCalls, reqSaves>>

RerunReview(c) ==
  /\ Idle(c)
  /\ \E t \in DOMAIN reqRows, header \in RequestHeader :
       LET row == reqRows[t]
           stored == IF row.request # {} THEN row.request ELSE MrUrlRequest(row.url)
       IN IF row.state \in {"pending", "running"} \/ stored = {} THEN Answer(c, 409)
          ELSE Checked(c, CHOOSE r \in stored : TRUE, header, {t})
  /\ UNCHANGED <<reqList, reqAccounts, reqRows, reqJobs, reqCalls, reqSaves>>

\* The name of the callback is resolved; then the token, the models and the route are taken
\* from the settings of this moment.
AdmitRequest(c) ==
  /\ reqClient[c].pc = "callback"
  /\ LET q == reqClient[c]
         token == IF IsMr(q.r) THEN ResolveGitlabToken(q.header, reqList, CHOOSE u \in q.r.url : TRUE, RuntimeToken)
                  ELSE ""
         routed == IF q.route.kind = "rewritten" THEN [q.r EXCEPT !.url = q.route.url] ELSE q.r
     IN \/ \E cb \in q.r.webhook : \E ips \in cb.answers :
             ~ValidateCallback(cb, ips) /\ Answer(c, 400)
        \/ /\ \A cb \in q.r.webhook : \E ips \in cb.answers : ValidateCallback(cb, ips)
           /\ IF IsMr(q.r) /\ token = "" THEN Answer(c, 400)
              ELSE IF ~RequireUsableLlm(q.r, reqAccounts) THEN Answer(c, 422)
              ELSE reqClient' = [reqClient EXCEPT ![c] =
                     [pc |-> "create", r |-> routed, token |-> token, header |-> q.header, of |-> q.of,
                      display |-> q.route.display, saves |-> q.saves, list |-> q.list]]
  /\ UNCHANGED <<reqList, reqAccounts, reqRows, reqJobs, reqCalls, reqSaves>>

\* The row is created with the masked request and the URL a user can open.
CreateRow(c) ==
  /\ reqClient[c].pc = "create"
  /\ LET q == reqClient[c]
     IN /\ reqRows' = Append(reqRows, NewRow(MaskRequest(q.r),
                        IF q.display # {} THEN q.display ELSE IF IsMr(q.r) THEN q.r.url ELSE {}))
        /\ reqClient' = [reqClient EXCEPT ![c] = [q EXCEPT !.pc = "spawn", !.of = {<<Len(reqRows) + 1, q.of>>}]]
  /\ UNCHANGED <<reqList, reqAccounts, reqJobs, reqCalls, reqSaves>>

\* The worker takes its models, and the platform whose discussion it reads, from the settings.
SpawnWorker(c) ==
  /\ reqClient[c].pc = "spawn"
  /\ LET q == reqClient[c]
         id == CHOOSE x \in q.of : TRUE
         mr == IF IsMr(q.r) THEN q.r.url ELSE {}
         tap == UNION {FindForReviewUrl(reqList, u) : u \in mr}
     IN /\ reqJobs' = reqJobs \cup
             {[task |-> id[1], of |-> id[2], pc |-> "queued", url |-> mr, token |-> q.token,
               header |-> q.header, large |-> q.r.large, webhook |-> q.r.webhook, tap |-> tap,
               llm |-> IF q.r.llm # <<>> THEN ResolveMaskedKeys(q.r.llm, reqAccounts) ELSE InUse(reqAccounts),
               quiet |-> q.saves = reqSaves, list |-> q.list, status |-> ""]}
        /\ Answer(c, 202)
  /\ UNCHANGED <<reqList, reqAccounts, reqRows, reqCalls, reqSaves>>

(* -------------------------------- the worker ------------------------------- *)
Step(job, pc) == reqJobs' = (reqJobs \ {job}) \cup {[job EXCEPT !.pc = pc]}
Settle(t, state) ==
  reqRows' = [reqRows EXCEPT ![t].state = IF @ = "cancelled" THEN @ ELSE state]

StartJob(job) ==
  /\ job.pc = "queued" /\ Step(job, "running") /\ Settle(job.task, "running")
  /\ UNCHANGED <<reqList, reqAccounts, reqClient, reqCalls, reqSaves>>

\* resolve_source: a merge request is read with the caller's token; of a repository the place and
\* the names of the branches are checked; a diff may have DiffCap units.  No text for the experts
\* when the setting is off, or none is there.
ResolveSource(src, token, inject) ==
  LET agents == IF inject THEN src.agents ELSE {}
      ok == CASE src.kind = "gitlab_mr" -> token /\ src.readable
              [] src.kind = "local_repo" -> src.there /\ src.directory /\ src.refs \subseteq {"main", "topic"} /\ src.readable
              [] OTHER -> src.size <= DiffCap
  IN  IF ~ok THEN {}
      ELSE {[info |-> src.kind = "gitlab_mr", agents |-> IF src.kind = "static" THEN {} ELSE agents, files |-> src.kind # "static"]}

\* select_aggregator_expert, under the setting of the page when it was saved, else of the request.
SelectAggregator(how) ==
  (IF how.saved # {} THEN TRUE \in how.saved ELSE how.config = "aggregated") /\ "aggregator" \in how.team

\* run_review: a configuration that cannot be read, a run that fails and one that takes longer than
\* its limit are errors; an aggregator that fails only leaves the reports without it.
RunReview(how, mr, token) ==
  IF how.config = "unreadable" \/ how.experts # "done" THEN {}
  ELSE LET merged == {a \in how.aggregates : SelectAggregator(how)} IN
       {[output |-> [reports |-> how.reports, aggregated |-> merged, consolidated |-> how.consolidated, dropped |-> how.dropped,
                     errors |-> how.failures, compliance |-> {x \in how.compliance : mr /\ token}],
         summary |-> [reports |-> Len(how.reports), failed |-> Len(how.failures),
                      findings |-> FoldLeft(LAMBDA n, r : n + Len(r.findings), 0, how.reports)]]}

\* Fault: the list of errors is replaced.
ReplaceErrors(output, message) == [output EXCEPT !.errors = <<message>>]
\* push_review_error
PushReviewError(output, message) == [output EXCEPT !.errors = Append(@, message)]

\* What the worker of enqueue_review makes of a source: the outcome of the review, with the error
\* of a board that could not be published, or a failure.
Worked(how, token) ==
  LET mr == how.source.kind = "gitlab_mr" IN
  UNION {{[r EXCEPT !.output = IF mr /\ token /\ ~how.published THEN PushReviewError(@, "publish") ELSE @] : r \in RunReview(how, mr, token)} :
           resolved \in ResolveSource(how.source, token, how.inject)}

\* How it ends: see JobOutcomesAgree.
JobOutcomes(job) == IF job.large THEN {"failed"} ELSE {"failed", "completed"}
FinishJob(job) ==
  /\ job.pc = "running"
  /\ \E status \in JobOutcomes(job) :
       /\ Settle(job.task, status)
       /\ reqJobs' = (reqJobs \ {job}) \cup {[job EXCEPT !.status = status, !.pc = IF job.webhook = {} THEN "done" ELSE "call"]}
  /\ UNCHANGED <<reqList, reqAccounts, reqClient, reqCalls, reqSaves>>

\* The callback is validated again against what its name means now, sent once, not repeated.
SendCallback(job) ==
  /\ job.pc = "call" /\ Step(job, "done")
  /\ \E cb \in job.webhook : \E ips \in cb.answers :
       reqCalls' = IF ValidateCallback(cb, ips)
                     THEN Append(reqCalls, [task |-> job.task, status |-> job.status, ips |-> ips, scheme |-> cb.scheme])
                     ELSE reqCalls
  /\ UNCHANGED <<reqList, reqAccounts, reqClient, reqRows, reqSaves>>

CancelReview(t) ==
  /\ reqRows[t].state \in {"pending", "running"}
  /\ reqRows' = [reqRows EXCEPT ![t].state = "cancelled"]
  /\ UNCHANGED <<reqList, reqAccounts, reqClient, reqJobs, reqCalls, reqSaves>>

SaveSettings ==
  /\ reqSaves < MaxReqSaves /\ reqSaves' = reqSaves + 1
  /\ \/ reqList' \in ReqLists \ {reqList} /\ UNCHANGED reqAccounts
     \/ reqAccounts' \in Accounts \ {reqAccounts} /\ UNCHANGED reqList
  /\ UNCHANGED <<reqClient, reqRows, reqJobs, reqCalls>>

RequestNext ==
  \/ \E c \in RequestClient : SubmitReview(c) \/ RerunReview(c) \/ AdmitRequest(c) \/ CreateRow(c) \/ SpawnWorker(c)
  \/ \E job \in reqJobs : StartJob(job) \/ FinishJob(job) \/ SendCallback(job)
  \/ \E t \in DOMAIN reqRows : CancelReview(t)
  \/ SaveSettings

(* ------------------------------- properties -------------------------------- *)
\* No stored request holds a key, and a key a worker sends was made for that endpoint,
\* the ones a re-run recovers from the accounts of the server included.
KeysStayHome ==
  /\ \A t \in DOMAIN reqRows : \A r \in reqRows[t].request :
       \A i \in DOMAIN r.llm : r.llm[i].key \in {"", Mask}
  /\ \A job \in reqJobs : \A i \in DOMAIN job.llm :
       job.llm[i].key \in DOMAIN KeyHome => KeyHome[job.llm[i].key] = job.llm[i].base

\* Without a token of the caller, and when nobody saved the settings meanwhile, the token of
\* a worker is the one its own URL calls for, its discussion is read from the same platform,
\* and a re-run of its row goes to the same place.
ReviewsGoHome ==
  \A job \in reqJobs : job.url # {} /\ job.quiet =>
    /\ job.header = "" => \A u \in job.url : job.token = ResolveGitlabToken("", job.list, u, RuntimeToken)
    /\ \A u \in job.url : job.tap = FindForReviewUrl(job.list, u)
    /\ \A first \in reqJobs : {first.task} = job.of /\ first.list = job.list /\ first.quiet => job.url = first.url

\* A callback goes out once, to an address it may go to, with the state the row settled in
\* unless the review was cancelled meanwhile.
CallbacksAreTrue ==
  \A i \in DOMAIN reqCalls :
    /\ reqRows[reqCalls[i].task].state \in {reqCalls[i].status, "cancelled"}
    /\ reqCalls[i].ips \cap BlockedAddress = {}
    /\ \A k \in DOMAIN reqCalls : reqCalls[k].task = reqCalls[i].task => k = i
RequestsAreSound == KeysStayHome /\ ReviewsGoHome /\ CallbacksAreTrue

-----------------------------------------------------------------------------
(* The pages of the review history: the same request answered from the table *)
(* of the database and from the memory of a server without one, the row a    *)
(* review is kept in, and the figures made from the rows.                    *)

CONSTANTS History,    \* sets of reviews: see ReviewRow
          ListQuery,  \* [status, text, project, from, to, page, per_page]
          NewReview,  \* a review created meanwhile; its id grows with every copy
          MaxNewReviews, \* bound: reviews created while pages are read
          PageBits,   \* width of a page number
          PerPageCap, \* the most a page may hold
          DefaultPage, \* what it holds when nobody asks
          Unreadable, \* a moment that cannot be read
          Recent      \* age below which a review counts as of the last day

VARIABLE listing
listingVars == <<listing>>

MaxPage == 2 ^ PageBits - 1
Saturated(n) == IF n > MaxPage THEN MaxPage ELSE n
\* A number of PageBits bits read as a signed one.
Signed(n) == IF n >= 2 ^ (PageBits - 1) THEN n - 2 ^ PageBits ELSE n
AtLeast(n, low) == IF n < low THEN low ELSE n
AtMost(n, high) == IF n > high THEN high ELSE n

\* What a caller asked for: a state nobody knows and a moment that cannot be read filter nothing,
\* pages count from one, and a page holds no more than PerPageCap.
TaskStates == {"pending", "running", "completed", "failed", "cancelled"}
Normal(q) ==
  [q EXCEPT !.status = @ \cap TaskStates, !.from = @ \ {Unreadable}, !.to = @ \ {Unreadable},
            !.page = IF @ = {} THEN 1 ELSE AtLeast(CHOOSE n \in @ : TRUE, 1),
            !.per_page = IF @ = {} THEN AtMost(DefaultPage, PerPageCap) ELSE AtMost(CHOOSE n \in @ : TRUE, PerPageCap)]

(* ------------------------------ rows and entries --------------------------- *)
\* The row repeats the project beside the whole of what is known about the source.
ReviewRow(e) ==
  [id |-> e.id, state |-> e.state, at |-> e.at, meta |-> e.meta, project |-> e.meta.project,
   summary |-> IF e.summary # {} THEN e.summary ELSE e.result, progress |-> e.progress]
EntryOf(row) ==
  [id |-> row.id, state |-> row.state, at |-> row.at,
   meta |-> [row.meta EXCEPT !.project = IF @ = "" THEN row.project ELSE @],
   summary |-> row.summary, progress |-> row.progress]

\* fill_source_meta: only what is blank is filled, in memory first, then the row.
Filled(e, candidate) ==
  [e EXCEPT !.meta = [f \in DOMAIN e.meta |->
     IF e.meta[f] = "" /\ f \in DOMAIN candidate THEN candidate[f] ELSE e.meta[f]]]

\* The row of the database, with the progress of the worker that is still running.
GetReview(row, live) ==
  IF row = {} THEN live
  ELSE {[EntryOf(r) EXCEPT !.progress = IF live = {} THEN @ ELSE (CHOOSE e \in live : TRUE).progress] : r \in row}

(* -------------------------------- the filters ------------------------------ *)
SearchedFields == {"title", "project", "branch", "author", "sha"}
InPeriod(e, q) == (\A t \in q.from : e.at >= t) /\ (\A t \in q.to : e.at <= t)
SharedFilters(e, q) ==
  /\ \A s \in q.status : e.state = s
  /\ \A p \in q.project : e.meta.project = p
  /\ InPeriod(e, q)
MemoryMatches(e, q) ==
  SharedFilters(e, q) /\ \A t \in q.text : \E f \in SearchedFields \cap DOMAIN e.meta : e.meta[f] = t
\* The table searches the text of the whole record, the address of the request included.
ReviewWhere(e, q) ==
  SharedFilters(e, q) /\ \A t \in q.text : \E f \in DOMAIN e.meta : e.meta[f] = t \/ f = t

(* -------------------------------- the pages -------------------------------- *)
\* Newest first, and the later identity first among reviews of one moment.
NewestFirst(a, b) == a.at > b.at \/ (a.at = b.at /\ a.id > b.id)
\* Fault: the first page is skipped.
OffsetByPage(q) == Signed(Saturated(q.page * q.per_page))
\* The product saturates and is then read as a signed number; below zero means the start.
Offset(q) == Signed(Saturated((q.page - 1) * q.per_page))
DbPage(all, q) ==
  LET rows == SetToSortSeq({e \in all : ReviewWhere(e, q)}, NewestFirst)
      from == AtLeast(Offset(q), 0)
  IN SubSeq(rows, from + 1, AtMost(from + q.per_page, Len(rows)))
\* In memory the reviews of one moment come in the order of a hash table, and the product
\* of the page and its size is taken without a limit.
MemoryOrders(all, q) ==
  {s \in SetToSeqs({e \in all : MemoryMatches(e, q)}) : \A i, k \in DOMAIN s : i < k => s[i].at >= s[k].at}
MemoryPages(all, q) == {SubSeq(s, (q.page - 1) * q.per_page + 1, AtMost(q.page * q.per_page, Len(s))) : s \in MemoryOrders(all, q)}

\* list_reviews: from the table when there is one, from memory otherwise; a table that cannot be
\* read is an error and never a shorter history.
ListReviews(store, table, all, params) ==
  LET q == Normal(params) IN
  CASE ~store -> {[status |-> 503, items |-> <<>>]}
    [] store /\ table = "fails" -> {[status |-> 500, items |-> <<>>]}
    [] store /\ table = "answers" -> {[status |-> 200, items |-> DbPage(all, q)]}
    [] OTHER -> {[status |-> 200, items |-> page] : page \in MemoryPages(all, q)}

(* ------------------------------ one review --------------------------------- *)
\* resolve_history_entry and get_review: the table first, the memory for what it does not have.
HistoryEntry(table, row, live) ==
  CASE table = "fails" -> [status |-> 500, entry |-> {}]
    [] table = "answers" /\ row # {} -> [status |-> 200, entry |-> GetReview(row, live)]
    [] OTHER -> [status |-> IF live = {} THEN 404 ELSE 200, entry |-> live]

\* build_review_detail: the reports with what they say, the errors of the run, and the text that
\* was posted: the merged one, else the line of the lead; an empty one is none.  A failure has none
\* of them.
ReviewDetail(result) ==
  LET raw(o) == IF o.aggregated # {} THEN o.aggregated ELSE o.consolidated
  IN  [experts |-> UNION {{[name |-> r.name, says |-> IF r.markdown = "" THEN <<"findings", Len(r.findings)>> ELSE <<r.markdown>>,
                            details |-> {r.raw} \ {""}] : r \in ToSet(o.output.reports)} : o \in result},
       errors |-> UNION {ToSet(o.output.errors) : o \in result},
       raw_comment |-> UNION {raw(o.output) \ {""} : o \in result}]

(* -------------------------------- the figures ------------------------------ *)
QueueStats(all, now) ==
  LET In(state) == {e \in all : e.state = state}
      recent == {e \in all : e.at >= now - Recent}
  IN [active |-> Cardinality(In("running")), queued |-> Cardinality(In("pending")),
      failed |-> Cardinality(In("failed")), depth |-> Cardinality(In("running")) + Cardinality(In("pending")),
      recent |-> Cardinality(recent), recent_failed |-> Cardinality(recent \cap In("failed"))]

\* One count per review and account, whatever number of experts used the account.
AggregateUsage(rows) ==
  LET used == UNION {r.summary : r \in rows}
      Of(u) == {r \in rows : u \in r.summary}
  IN [u \in used |-> [uses |-> Cardinality(Of(u)),
                      completed |-> Cardinality({r \in Of(u) : r.state = "completed"}),
                      failed |-> Cardinality({r \in Of(u) : r.state = "failed"}),
                      last |-> CHOOSE t \in {r.at : r \in Of(u)} : \A r \in Of(u) : r.at <= t]]

\* A reader asks for page after page until one is not full, while reviews are added and
\* settle.
ListingInit == \E all \in History, q \in ListQuery :
  listing = [pc |-> "reading", all |-> all, before |-> all, q |-> Normal(q), shown |-> {}, new |-> 0]
ReadPage ==
  /\ listing.pc = "reading" /\ listing.q.per_page > 0
  /\ LET page == DbPage(listing.all, listing.q)
         full == Len(page) = listing.q.per_page
     IN listing' = [listing EXCEPT !.shown = @ \cup {page[i].id : i \in DOMAIN page},
                                   !.pc = IF full THEN "reading" ELSE "done",
                                   !.q.page = IF full THEN @ + 1 ELSE @]
AddReview ==
  /\ listing.pc = "reading" /\ listing.new < MaxNewReviews
  /\ listing' = [listing EXCEPT !.new = @ + 1, !.all = @ \cup {[NewReview EXCEPT !.id = @ + listing.new]}]
FillMeta(e) ==
  /\ listing.pc = "reading" /\ e.meta.title = ""
  /\ listing' = [listing EXCEPT !.all = (@ \ {e}) \cup {Filled(e, [title |-> "fetched"])}]
ListingNext == ReadPage \/ AddReview \/ \E e \in listing.all : FillMeta(e)

(* ------------------------------- properties -------------------------------- *)
\* A reader who turns page after page from the first one misses no review that was there
\* when it began, whatever is added meanwhile: the order of the table is total and new rows
\* only come in front.  (A text that is filled in meanwhile may enter or leave a search.)
PagesCoverTheHistory ==
  listing.pc = "done" /\ listing.q.text = {} =>
    \A e \in listing.before : ReviewWhere(e, listing.q) => e.id \in listing.shown

\* A search answered from memory finds nothing the table would not, a row gives back the
\* review it was made from, and the figures of a day count every review once.
RowsAgreeWithMemory ==
  LET rows == {ReviewRow(e) : e \in listing.all}
      usage == AggregateUsage(rows)
      stats == QueueStats(listing.all, 3)
  IN /\ \A e \in listing.all : MemoryMatches(e, listing.q) => ReviewWhere(e, listing.q)
     /\ \A e \in listing.all : \A got \in GetReview({ReviewRow(e)}, {e}) : got.meta = e.meta /\ got.state = e.state
     /\ stats.depth + stats.failed <= Cardinality(listing.all) /\ stats.recent_failed <= stats.recent
     /\ \A u \in DOMAIN usage : usage[u].completed + usage[u].failed <= usage[u].uses
     /\ \A page \in MemoryPages(listing.all, listing.q) : Len(page) <= listing.q.per_page

\* What went wrong in a review reaches whoever looks at it: every expert that failed and a board
\* that could not be posted are errors of the page, beside all reports there are; only a source
\* or a run that fails as a whole is a failure, and a table that cannot be read is no empty history.
\* The tickets are asked about only with a token.
JobOutcomesAgree ==
  \A large \in BOOLEAN :
    {IF Worked(how, TRUE) = {} THEN "failed" ELSE "completed" : how \in {h \in Courses : large = (h.source.kind = "static" /\ h.source.size > DiffCap)}}
      = JobOutcomes([large |-> large])
DetailsAreTrue ==
  listing.pc = "reading" /\ listing.new = 0 /\ listing.shown = {} /\ listing.all = listing.before =>
    /\ JobOutcomesAgree
    /\ \A how \in Courses, token \in BOOLEAN :
         LET result == Worked(how, token)
             page == ReviewDetail(result)
         IN  /\ how.experts = "done" /\ how.config # "unreadable" /\ ResolveSource(how.source, token, how.inject) # {} => result # {}
             /\ how.source.kind = "gitlab_mr" /\ ~token => result = {}
             /\ \A r \in result :
                  /\ ToSet(how.failures) \subseteq page.errors /\ r.summary.failed = Cardinality(ToSet(how.failures))
                  /\ "publish" \in page.errors <=> how.source.kind = "gitlab_mr" /\ ~how.published
                  /\ {x.name : x \in page.experts} = {x.name : x \in ToSet(how.reports)}
                  /\ r.output.compliance # {} => token
                  /\ page.raw_comment # {} => page.raw_comment \in {how.aggregates, how.consolidated}
             /\ result = {} => page.experts = {} /\ page.raw_comment = {}
             /\ \A resolved \in ResolveSource(how.source, token, how.inject) : resolved.agents # {} => how.inject /\ how.source.agents # {}
    /\ \A table \in {"none", "answers", "fails"}, e \in listing.all :
         LET got == HistoryEntry(table, IF e.state = "failed" THEN {} ELSE {ReviewRow(e)}, IF e.state = "completed" THEN {} ELSE {e}) IN
         /\ got.status = 200 <=> got.entry # {}
         /\ got.status = 404 => table = "none" /\ e.state = "completed"
    /\ \A asked \in ListQuery, store \in BOOLEAN, table \in {"none", "answers", "fails"} :
         \A answer \in ListReviews(store, table, listing.all, asked) :
           /\ answer.status = 200 <=> store /\ table # "fails"
           /\ Len(answer.items) <= PerPageCap
           /\ answer.status = 200 /\ answer.items = <<>> /\ asked.page \in {{}, {0}, {1}} /\ asked.per_page # {0} =>
                \A e \in listing.all : ~MemoryMatches(e, Normal(asked))

HistoryIsSound == PagesCoverTheHistory /\ RowsAgreeWithMemory

=============================================================================
