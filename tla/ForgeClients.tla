---------------------------- MODULE ForgeClients ----------------------------
(***************************************************************************)
(* The clients of GitLab and GitHub (git_provider/): what each call makes  *)
(* of the answers of the forge, and who took part in a merge request       *)
(* (models/mod.rs).                                                        *)
(*                                                                         *)
(* An answer is [got, code, value]: nothing came ("down"), a status that   *)
(* is no success ("status"), a body that cannot be read ("garbled") or a   *)
(* value.  A result is an option, empty for an error.                      *)
(***************************************************************************)
EXTENDS Integers, Sequences, SequencesExt, FiniteSets, FiniteSetsExt

CONSTANTS
  BadPath,        \* paths a client refuses: empty, absolute, of home, with ".."
  BodyBudget,     \* TICKET_BODY_BUDGET, in characters
  MaxPages,       \* pages of a list GitHub is asked for
  SearchLimit,    \* SEARCH_RESULTS_LIMIT
  GithubHost      \* github.com

Some(option) == CHOOSE x \in option : TRUE
Success(a) == a.got \in {"garbled", "value"}

\* get_json, post_json and every call that reads an answer: a value or an error.
GetJson(a) == IF a.got = "value" THEN {a.value} ELSE {}

\* update_note: the status decides, the body is not read.
Sent(a) == IF Success(a) THEN {TRUE} ELSE {}

-----------------------------------------------------------------------------
(* Addresses.                                                              *)

\* A URL is [scheme, host, segs], the host [user, bracket, colons, name, port] (the port an
\* option of what stands behind the colon) and the segments what lies between the slashes.
Numbers == [s \in {"7", "40"} |-> IF s = "7" THEN 7 ELSE 40]
Dotted == {"..", "a..b"}

\* Fault: a host may carry a user.
HostWithUser(host) == ~host.bracket /\ host.colons <= 1 /\ host.name \notin {""} \cup Dotted
\* validate_gitlab_host.
ValidateGitlabHost(host) ==
  /\ ~host.user /\ ~host.bracket /\ host.colons <= 1
  /\ host.colons = 1 => \E p \in host.port : p \in 1 .. 65535
  /\ host.name \notin {""} \cup Dotted

\* parse_mr_url: the last "/-/merge_requests/" divides the path; all behind it is the number.
ParseMrUrl(url) ==
  LET seps == {i \in 1 .. Len(url.segs) - 2 : url.segs[i] = "-" /\ url.segs[i + 1] = "merge_requests"}
      at == Max(seps)
      project == SubSeq(url.segs, 1, at - 1)
  IN  IF /\ url.scheme \in {"http", "https"} /\ seps # {} /\ at > 1
         /\ ValidateGitlabHost(url.host) /\ ToSet(project) \cap Dotted = {}
         /\ project[1] # "" /\ Last(project) # ""
         /\ Len(url.segs) = at + 2 /\ Last(url.segs) \in DOMAIN Numbers
      THEN {[base |-> <<url.scheme, url.host>>, project |-> project, iid |-> Numbers[Last(url.segs)]]} ELSE {}

\* validate_owner_repo.
ValidateOwnerRepo(owner, repo) == {owner, repo} \cap ({"", "a:b"} \cup Dotted) = {}

\* Client::new of GitHub: what follows the number is ignored, slashes at the end too.
GithubClient(url) ==
  LET kept == {i \in DOMAIN url.segs : url.segs[i] # ""}
      parts == SubSeq(url.segs, 1, Max(kept \cup {0}))
  IN  IF /\ url.scheme \in {"http", "https"} /\ url.host = GithubHost
         /\ Len(parts) >= 4 /\ parts[3] = "pull" /\ parts[4] \in DOMAIN Numbers /\ ValidateOwnerRepo(parts[1], parts[2])
      THEN {[owner |-> parts[1], repo |-> parts[2], number |-> Numbers[parts[4]]]} ELSE {}

\* Client::for_issue: owner and the rest, which may hold no further slash.
ForIssue(segs) == IF Len(segs) = 2 /\ ValidateOwnerRepo(segs[1], segs[2]) THEN {[owner |-> segs[1], repo |-> segs[2], number |-> 0]} ELSE {}

-----------------------------------------------------------------------------
(* Who took part: [id, name, username, avatar, role, bot], "" is blank,    *)
(* roles 2 author, 1 creator, 0 participant.                               *)

\* ParticipantInput: a user name that ends in "_bot" marks a robot.
RobotNames == {"project_bot", "group_bot"}
Person(id, name, username, avatar, role, bot) ==
  [id |-> id, name |-> name, username |-> username, avatar |-> avatar \ {""}, role |-> role,
   bot |-> bot \/ username \in RobotNames]

\* GlUser::into_input, CommitAuthor::as_input and participant_from_pr_user.
GlUser(u, role) == Person(u.id, IF u.name = "" THEN u.username ELSE u.name, u.username, u.avatar, role, u.bot)
AuthorInput(a) == Person({}, a.name, a.username, a.avatar, 2, FALSE)
PrUser(u, role) == Person(u.id, IF u.username = "" THEN "user#" ELSE u.username, u.username, u.avatar, role, u.bot)

\* is_same_person: two ids decide; else the user names, else the display names.
IsSamePerson(a, b) ==
  IF a.id # {} /\ b.id # {} THEN a.id = b.id
  ELSE (a.username # "" /\ a.username = b.username) \/ (a.name # "" /\ a.name = b.name)

\* Fault: the first role of a person stays.
KeepFirstRole(old, new) ==
  [old EXCEPT !.name = IF @ = "" THEN new.name ELSE @, !.username = IF @ = "" THEN new.username ELSE @,
              !.avatar = IF @ = {} THEN new.avatar ELSE @, !.id = IF @ = {} THEN new.id ELSE @,
              !.bot = @ \/ new.bot]
\* What a second record of a person adds.
BackFill(old, new) ==
  [old EXCEPT !.role = IF new.role > @ THEN new.role ELSE @,
              !.name = IF @ = "" THEN new.name ELSE @, !.username = IF @ = "" THEN new.username ELSE @,
              !.avatar = IF @ = {} THEN new.avatar ELSE @, !.id = IF @ = {} THEN new.id ELSE @,
              !.bot = @ \/ new.bot]

\* aggregate_participants: one record per person, authors first.
AggregateParticipants(inputs) ==
  LET add(merged, p) ==
        LET same == {i \in DOMAIN merged : IsSamePerson(merged[i], p)} IN
        IF p.name = "" /\ p.username = "" THEN merged
        ELSE IF same = {} THEN Append(merged, p)
        ELSE [merged EXCEPT ![Min(same)] = BackFill(@, p)]
      all == FoldLeft(add, <<>>, inputs)
      ofRole(role) == SelectSeq(all, LAMBDA p : p.role = role)
      ordered == ofRole(2) \o ofRole(1) \o ofRole(0)
  IN  [i \in DOMAIN ordered |-> [ordered[i] EXCEPT !.name = IF @ = "" THEN ordered[i].username ELSE @]]

\* merge_participants: a persisted list has no ids.
MergeParticipants(base, incoming) ==
  LET bare(list) == [i \in DOMAIN list |-> [list[i] EXCEPT !.id = {}]] IN
  AggregateParticipants(bare(base) \o bare(incoming))

-----------------------------------------------------------------------------
(* Reading.                                                                *)

\* fetch_participants: best effort.
FetchParticipants(a) ==
  IF GetJson(a) = {} THEN <<>> ELSE [i \in DOMAIN a.value |-> GlUser(a.value[i], 0)]

\* fetch_commit_author: a name, and the handle and picture of a participant who bears the
\* name or the address of the commit.
FetchCommitAuthor(a, participants) ==
  IF GetJson(a) = {} \/ (GetJson(a) # {} /\ a.value.name = "") THEN {}
  ELSE LET fits(p) == {p.username, p.name} \cap ({a.value.name, a.value.email} \ {""}) # {}
           found == {i \in DOMAIN participants : fits(participants[i])}
           match == IF found = {} THEN {} ELSE {participants[Min(found)]}
       IN  {[name |-> a.value.name, username |-> IF match = {} THEN "" ELSE Some(match).username,
             avatar |-> UNION {p.avatar : p \in match}]}

\* fetch_mr_info of GitLab.  The commit is asked for only when the head is known.
FetchMrInfo(api) ==
  IF GetJson(api.info) = {} THEN {}
  ELSE LET gl == api.info.value
           fetched == FetchParticipants(api.people)
           author == IF gl.head = "" THEN {} ELSE FetchCommitAuthor(api.commit, fetched)
           seeds == SetToSeq({AuthorInput(a) : a \in author}) \o SetToSeq({GlUser(u, 1) : u \in gl.opener}) \o fetched
       IN  {[head |-> gl.head, base |-> gl.base, start |-> gl.start,
             opener |-> {IF u.username # "" THEN u.username ELSE u.name : u \in gl.opener},
             commit_author |-> {a.name : a \in author}, participants |-> AggregateParticipants(seeds)]}

\* get_all_paginated: until no page follows, or after so many; an error of one page is an
\* error of the whole.  A page is [answer, next]; the answer's value its items.
GetAllPaginated(pages) ==
  LET asked(n) == n = 1 \/ (\A k \in 1 .. n - 1 : GetJson(pages[k].answer) # {} /\ pages[k].next /\ pages[k].answer.value # <<>>)
      read == {n \in 1 .. Min({Len(pages), MaxPages}) : asked(n)}
  IN  IF \E n \in read : GetJson(pages[n].answer) = {} THEN {}
      ELSE {FlattenSeq([n \in 1 .. Cardinality(read) |-> pages[n].answer.value])}

\* fetch_pr_info of GitHub: the commenters and reviewers as far as they can be listed; the
\* head is remembered for the notes (commit_sha).
FetchPrInfo(api) ==
  IF GetJson(api.info) = {} THEN {}
  ELSE LET pr == api.info.value
           listed(pages) == IF GetAllPaginated(pages) = {} THEN <<>> ELSE Some(GetAllPaginated(pages))
           users == listed(api.comments) \o listed(api.reviews)
           seeds == <<PrUser(Some(pr.opener), 1)>> \o [i \in DOMAIN users |-> PrUser(users[i], 0)]
       IN  {[head |-> pr.head, base |-> pr.base, start |-> {}, opener |-> {Some(pr.opener).username},
             commit_author |-> {}, participants |-> AggregateParticipants(seeds), commit_sha |-> {pr.head}]}

\* fetch_diff of GitLab: an answer that is no success sends it to /changes, whose fragments
\* have no headers; a call that fails does not.
FetchDiffViaChanges(a) == IF GetJson(a) = {} THEN {} ELSE {[headers |-> FALSE, hunks |-> a.value]}
FetchDiff(raw, changes) ==
  CASE raw.got = "value" -> {[headers |-> TRUE, hunks |-> raw.value]}
    [] raw.got = "status" -> FetchDiffViaChanges(changes)
    [] OTHER -> {}
\* fetch_diff of GitHub has no second way.
FetchPrDiff(raw) == IF GetJson(raw) = {} THEN {} ELSE {[headers |-> TRUE, hunks |-> raw.value]}

\* fetch_config_toml: no file and an empty file are no settings.  GitHub has none at all.
FetchConfigToml(a) ==
  CASE a.got = "status" /\ a.code = 404 -> {{}}
    [] a.got = "value" -> {IF a.value = "" THEN {} ELSE {a.value}}
    [] OTHER -> {}

\* fetch_file_raw_checked of both: the text, or an error with the status, if there was one.
FetchFileRawChecked(path, a) ==
  CASE path \in BadPath -> [text |-> {}, status |-> {}, asked |-> FALSE]
    [] path \notin BadPath /\ a.got = "value" -> [text |-> {a.value}, status |-> {}, asked |-> TRUE]
    [] path \notin BadPath /\ a.got = "status" -> [text |-> {}, status |-> {a.code}, asked |-> TRUE]
    [] OTHER -> [text |-> {}, status |-> {}, asked |-> TRUE]
\* FileFetchError.
IsNotFound(r) == 404 \in r.status
IsUnauthorized(r) == {401, 403} \cap r.status # {}

\* Fault: a path is taken as often as it is found.
PathsAsFound(items) == SubSeq(SelectSeq(items, LAMBDA p : p # ""), 1, Min({SearchLimit, Len(SelectSeq(items, LAMBDA p : p # ""))}))
\* parse_blob_search_paths and parse_code_search_paths: the first distinct paths; an entry
\* without one is skipped.
SearchPaths(items) ==
  FoldLeft(LAMBDA out, p : IF Len(out) >= SearchLimit \/ p = "" \/ p \in ToSet(out) THEN out ELSE Append(out, p), <<>>, items)

\* search_code_paths of both: an answer of another shape holds no paths, a failing one is an error.
SearchCodePaths(a) == IF GetJson(a) = {} THEN {} ELSE {IF a.value.list THEN SearchPaths(a.value.items) ELSE <<>>}

\* block_on_remote: get_file and search_code of both providers run on a thread of their own; a
\* thread that cannot start its runtime or panics is an error here.
BlockOnRemote(thread, result) == IF thread = "ran" THEN result ELSE {}
GetFile(thread, path, a) == BlockOnRemote(thread, FetchFileRawChecked(path, a).text)
SearchCode(thread, a) == BlockOnRemote(thread, SearchCodePaths(a))

\* fetch_issue of GitLab: never an error of its own; what went wrong is in the ticket.
BlankTicket(where, error) == [project |-> where, title |-> "", body |-> 0, cut |-> FALSE, error |-> {error}]
FetchIssue(where, a) ==
  CASE a.got = "down" -> BlankTicket(where, "transport")
    [] a.got = "status" -> BlankTicket(where, "http")
    [] a.got = "garbled" -> BlankTicket(where, "parse")
    [] OTHER -> [project |-> where, title |-> a.value.title, body |-> Min({a.value.body, BodyBudget}), cut |-> a.value.body > BodyBudget, error |-> {}]

\* fetch_issue of GitHub: of the repository named, or of its own; the former is asked for only
\* when it has an owner and a name.
FetchPrIssue(own, other, a) ==
  LET where == IF other = <<>> THEN own ELSE other IN
  IF Len(where) < 2 \/ "" \in {where[1], where[2]} THEN BlankTicket(where, "missing") ELSE FetchIssue(where, a)

-----------------------------------------------------------------------------
(* Writing.                                                                *)

\* post_note, create_pr_review, award_emoji: a note that was made but whose answer cannot
\* be read is an error.
PostNote(a) == GetJson(a)

\* The errors of a note: an InlineNoteError with the verdict of the forge, or any other.
InlineVerdict(a) == IF a.got = "status" THEN {a.code} ELSE {}

\* post_inline_note_at of GitLab, which lets an empty path pass: the three commits of the position come from the merge
\* request as it is now; the old line is sent for an unchanged line only.
PostInlineNoteAt(path, oldLine, api) ==
  LET info == FetchMrInfo(api) IN
  IF path \in BadPath \ {""} \/ info = {} \/ (info # {} /\ (Some(info).base = {} \/ Some(info).start = {}))
  THEN [sent |-> {}, ok |-> FALSE, status |-> {}]
  ELSE [sent |-> {[head |-> Some(info).head, base |-> Some(info).base, start |-> Some(info).start, old |-> oldLine]},
        ok |-> GetJson(api.post) # {}, status |-> InlineVerdict(api.post)]

\* create_review_comment of GitHub: pinned to the head that fetch_pr_info saw, if it ran.
CreateReviewComment(path, commit_sha, a) ==
  IF path \in BadPath \ {""} THEN [sent |-> {}, ok |-> FALSE, status |-> {}]
  ELSE [sent |-> {[head |-> commit_sha]}, ok |-> Success(a), status |-> InlineVerdict(a)]

\* find_or_update_discussion of GitHub: the first review of this account that is a board.
FindOrUpdateReview(api) ==
  LET reviews == GetAllPaginated(api.reviews)
      own(list) == {i \in DOMAIN list : list[i].id = api.user.value /\ list[i].board}
  IN  IF GetJson(api.user) = {} \/ reviews = {} THEN [updated |-> {}, posted |-> FALSE, ok |-> FALSE]
      ELSE IF own(Some(reviews)) # {}
      THEN [updated |-> {Some(reviews)[Min(own(Some(reviews)))].review}, posted |-> FALSE, ok |-> Sent(api.post) # {}]
      ELSE [updated |-> {}, posted |-> TRUE, ok |-> PostNote(api.post) # {}]

\* find_or_update_discussion of GitLab: the first note of this account that is a board, in any
\* discussion of the one page that is asked for.
FindOrUpdateDiscussion(api) ==
  LET notes == FlattenSeq(api.discussions.value)
      own == {i \in DOMAIN notes : notes[i].id = api.user.value /\ notes[i].board}
  IN  IF GetJson(api.user) = {} \/ GetJson(api.discussions) = {} THEN [updated |-> {}, posted |-> FALSE, ok |-> FALSE]
      ELSE IF own # {} THEN [updated |-> {notes[Min(own)].review}, posted |-> FALSE, ok |-> Sent(api.post) # {}]
      ELSE [updated |-> {}, posted |-> TRUE, ok |-> PostNote(api.post) # {}]

\* update_discussion of both: the number of a board is read back from its text.
UpdateDiscussion(id, a) == IF id \in DOMAIN Numbers THEN Sent(a) ELSE {}

-----------------------------------------------------------------------------
(* What the clients promise.                                               *)

\* Nobody who took part is lost with the role he had, a robot stays one, and authors come
\* before creators and participants.
PeopleAreKept(inputs) ==
  LET out == AggregateParticipants(inputs) IN
  /\ \A p \in ToSet(inputs) : p.name # "" \/ p.username # "" =>
       \E q \in ToSet(out) : IsSamePerson(p, q) /\ q.role >= p.role /\ (p.bot => q.bot)
  /\ \A i, k \in DOMAIN out : i < k => out[i].role >= out[k].role
  /\ \A i \in DOMAIN out : out[i].name # ""
  /\ Len(MergeParticipants(out, <<>>)) <= Len(out)

\* A forge that fails is not taken for one that has nothing: no settings, no file and no
\* board are concluded from an answer that says so, and what a list leaves out lies
\* beyond the last page that may be asked for.
FailureIsNotAbsence(api) ==
  /\ {} \in FetchConfigToml(api.toml) => (api.toml.code = 404 \/ api.toml.got = "value")
  /\ LET file == FetchFileRawChecked(api.path, api.file) IN
     /\ file.text = {} /\ ~IsNotFound(file) => api.file.code # 404 \/ api.file.got # "status" \/ api.path \in BadPath
     /\ ~(IsNotFound(file) /\ IsUnauthorized(file))
     /\ file.text # {} => file.asked
  /\ FetchIssue(<<"o", "p">>, api.issue).error = {} <=> GetJson(api.issue) # {}
  /\ LET other == FetchPrIssue(<<"o", "p">>, <<"q", api.path>>, api.issue) IN
     /\ other.error = {} => api.path # "" /\ other.project = <<"q", api.path>>
     /\ other.cut => other.body = BodyBudget
  /\ GetFile("ran", api.path, api.file) = {} <=> (api.path \in BadPath \/ api.file.got # "value")
  /\ LET board == FindOrUpdateDiscussion(api)
         boards(notes) == {i \in DOMAIN notes : notes[i].board /\ notes[i].id = api.user.value}
     IN  /\ board.posted => GetJson(api.user) # {} /\ \A k \in DOMAIN api.discussions.value : boards(api.discussions.value[k]) = {}
         /\ board.ok => Cardinality(board.updated) + (IF board.posted THEN 1 ELSE 0) = 1
         /\ \A id \in board.updated : \E n \in UNION {ToSet(d) : d \in ToSet(api.discussions.value)} : n.review = id /\ n.board /\ n.id = api.user.value
  /\ LET board == FindOrUpdateReview(api)
         full == FlattenSeq([n \in DOMAIN api.reviews |-> api.reviews[n].answer.value])
     IN  /\ board.posted => /\ GetJson(api.user) # {} /\ GetJson(api.reviews[1].answer) # {}
                            /\ \A i \in DOMAIN api.reviews[1].answer.value :
                                 LET r == api.reviews[1].answer.value[i] IN ~(r.board /\ r.id = api.user.value)
         /\ \A all \in GetAllPaginated(api.reviews) : IsPrefix(all, full)
         /\ Cardinality(board.updated) + (IF board.posted THEN 1 ELSE 0) <= 1

\* A note is sent with the three commits of one answer, or not at all; a note reported as
\* posted was sent; GitHub's is pinned to the head the review has read.
NotesArePinned(api) ==
  /\ \A note \in {PostInlineNoteAt(api.path, {}, api)} :
     /\ note.ok => note.sent # {}
     /\ \A n \in note.sent : /\ n.head = api.info.value.head /\ n.base = api.info.value.base /\ n.start # {}
                             /\ api.path \notin BadPath \ {""}
     /\ note.status # {} => ~note.ok
  /\ \A info \in FetchPrInfo(api) :
       \A n \in CreateReviewComment(api.path, info.commit_sha, api.post).sent : n.head = {api.info.value.head}
  /\ \A d \in FetchDiff(api.raw, api.changes) : d.headers <=> api.raw.got = "value"
  /\ FetchPrDiff(api.raw) \subseteq FetchDiff(api.raw, api.changes)
  /\ UpdateDiscussion("7", api.post) = Sent(api.post)

\* An address that is taken says all it says: GitLab's is rebuilt from what was read of it, on the
\* host it names and no other, GitHub's from its first four segments; nothing climbs out of its place.
AddressesAreExact(url) ==
  /\ \A p \in ParseMrUrl(url) :
       /\ p.base = <<url.scheme, url.host>> /\ ~url.host.user
       /\ \E n \in DOMAIN Numbers : Numbers[n] = p.iid /\ p.project \o <<"-", "merge_requests", n>> = url.segs
       /\ Dotted \cap ToSet(p.project) = {}
  /\ \A c \in GithubClient(url) :
       /\ url.host = GithubHost
       /\ \E n \in DOMAIN Numbers : Numbers[n] = c.number /\ IsPrefix(<<c.owner, c.repo, "pull", n>>, url.segs)
       /\ ForIssue(<<c.owner, c.repo>>) # {}

\* A search finds every path once, as many as there may be, and no path that was not in the answer;
\* a search that fails is not one without results.
SearchIsComplete(c) ==
  LET found == SearchCode(c.thread, c.answer) IN
  /\ found = {} <=> c.thread # "ran" \/ c.answer.got # "value"
  /\ \A paths \in found :
       /\ IsInjective(paths) /\ Len(paths) <= SearchLimit
       /\ LET there == ToSet(c.answer.value.items) \ {""} IN
          /\ ToSet(paths) \subseteq there
          /\ c.answer.value.list /\ Len(paths) < SearchLimit => ToSet(paths) = there
=============================================================================
