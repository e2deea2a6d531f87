----------------------------- MODULE Compliance -----------------------------
(***************************************************************************)
(* The ticket compliance check (compliance/): the tickets a description    *)
(* names, their text, one question to a model about all of them, a         *)
(* question per ticket when that one failed, and the section written.      *)
(*                                                                         *)
(* A link is [scheme, auth, segs]: the scheme ("" for what is no link),    *)
(* the authority (user information first, if any, the host last) and the   *)
(* segments.  A ticket is [provider, project, iid, url, source].           *)
(***************************************************************************)
EXTENDS Integers, Sequences, SequencesExt, FiniteSets, FiniteSetsExt

CONSTANTS
  MaxTickets,      \* MAX_TICKETS_PER_REVIEW
  MaxShortDigits   \* MAX_SHORTHAND_ISSUE_DIGITS

ASSUME TicketBounds == MaxTickets \in Nat \ {0} /\ MaxShortDigits \in 1 .. 9

Link(scheme, auth, segs) == [scheme |-> scheme, auth |-> auth, segs |-> segs]
Word(segs) == Link("", <<>>, segs)
NoLink == Word(<<>>)
TicketRef(provider, project, iid, url, source) ==
  [provider |-> provider, project |-> project, iid |-> iid, url |-> url, source |-> source]
Markers == {"work_items", "issues"}

-----------------------------------------------------------------------------
(* The tickets a description names.  It is a sequence of mentions, a link  *)
(* [kind "url", link, digits] or a number [kind "hash", project, alnum,    *)
(* iid, digits]: the word in front of the sign, whether its last letter is *)
(* one, and how long the number is.                                        *)

\* parse::<u32> of a number so long.
Fits(digits) == digits <= 10

\* gitlab_patterns, github_patterns: the shortest piece of a link that ends in a number behind a marker.
UrlMatch(provider, link) ==
  LET s == link.segs
      ends == IF provider = "gitlab" THEN {i \in 3 .. Len(s) : s[i - 2] = "-" /\ s[i - 1] \in Markers}
              ELSE {i \in 2 .. Len(s) : s[i - 1] = "issues"}
  IN  {[link EXCEPT !.segs = SubSeq(s, 1, Min(ends))] : x \in {e \in {1} : ends # {}}}

UrlHostMatches(link, host) == host = "" \/ Last(link.auth) = host

\* parse_url_into: the project and the number; the first marker counts, even one that is a project's name.
ParseUrlInto(link, provider) ==
  LET s == link.segs
      marks == {i \in DOMAIN s : s[i] \in Markers}
      at == Min(marks)
  IN  CASE provider = "gitlab" ->
             IF marks = {} \/ at < 4 \/ at = Len(s) THEN {} ELSE {[project |-> SubSeq(s, 1, at - 2), iid |-> s[at + 1]]}
        [] OTHER -> IF Len(s) < 4 \/ s[3] # "issues" THEN {} ELSE {[project |-> SubSeq(s, 1, 2), iid |-> s[4]]}

BuildShortUrl(provider, host, project, iid) ==
  IF host = "" THEN NoLink
  ELSE Link("https", <<host>>, project \o (IF provider = "gitlab" THEN <<"-", "work_items", iid>> ELSE <<"issues", iid>>))

\* Of equal tickets the first is kept.
DedupeRefs(refs) ==
  FoldLeft(LAMBDA out, r : IF \E i \in DOMAIN out : [out[i] EXCEPT !.source = r.source] = r THEN out ELSE Append(out, r), <<>>, refs)

\* extract_ticket_refs: the links, then the numbers with a project, then those without.
ExtractTicketRefs(mentions, provider, own, host) ==
  LET links == SelectSeq(mentions, LAMBDA m : m.kind = "url")
      hashes == SelectSeq(mentions, LAMBDA m : m.kind = "hash")
      ofLink(m) ==
        LET cut == UrlMatch(provider, m.link)
            read == UNION {ParseUrlInto(u, provider) : u \in {v \in cut : UrlHostMatches(v, host) /\ Fits(m.digits)}}
        IN  SetToSeq({TicketRef(provider, p.project, p.iid, u, u) : p \in read, u \in cut})
      ofProject(m) ==
        IF Len(m.project) # 2 \/ ~Fits(m.digits) THEN <<>>
        ELSE <<TicketRef(provider, m.project, m.iid, BuildShortUrl(provider, host, m.project, m.iid), Word(m.project \o <<"#", m.iid>>))>>
      ofNumber(m) ==
        IF m.alnum \/ m.digits > MaxShortDigits THEN <<>>
        ELSE <<TicketRef(provider, own, m.iid, BuildShortUrl(provider, host, own, m.iid), Word(<<"#", m.iid>>))>>
  IN  DedupeRefs(FlattenSeq([i \in DOMAIN links |-> ofLink(links[i])] \o [i \in DOMAIN hashes |-> ofProject(hashes[i])]
                              \o [i \in DOMAIN hashes |-> ofNumber(hashes[i])]))

\* Fault: the cap keeps one ticket too many.
PlanOneOver(enabled, mentions, provider, host, own) ==
  LET refs == DedupeRefs(ExtractTicketRefs(mentions, provider, own, host))
  IN  [refs |-> SubSeq(refs, 1, Min({Len(refs), MaxTickets + 1})), notes |-> <<>>]

\* plan and gate: nothing when switched off; more tickets than the cap are said to be left out.
Plan(enabled, mentions, provider, host, own) ==
  LET refs == IF enabled THEN DedupeRefs(ExtractTicketRefs(mentions, provider, own, host)) ELSE <<>>
  IN  [refs |-> SubSeq(refs, 1, Min({Len(refs), MaxTickets})),
       notes |-> IF Len(refs) > MaxTickets THEN <<"capped">> ELSE <<>>]

\* provider_from_mr_url and host_from_mr_url.
ProviderFromMrUrl(mr) ==
  CASE mr.path = "pull" -> "github"
    [] mr.path = "merge_requests" -> "gitlab"
    [] OTHER -> IF Last(mr.auth) = "github.com" THEN "github" ELSE "gitlab"
HostFromMrUrl(mr) == Last(mr.auth)

-----------------------------------------------------------------------------
(* The text of a ticket.                                                   *)

\* github_api_base_from_mr_url, gitlab_api_base_from_mr_url and for_instance: user information stays in.
ApiBase(provider, mr) ==
  CASE provider = "github" /\ mr.auth = <<"github.com">> -> Link("https", <<"api.github.com">>, <<>>)
    [] provider = "github" /\ mr.auth # <<"github.com">> -> Link(mr.scheme, mr.auth, <<"api", "v3">>)
    [] OTHER -> Link(mr.scheme, mr.auth, <<"api", "v4">>)

\* encode_project_path: one segment however many the project has.
Encoded(project) == <<"%">> \o project \o <<"%">>

\* github_issue_url, gitlab_issue_url.
IssueUrl(provider, base, project, iid) ==
  [base EXCEPT !.segs = @ \o (IF provider = "github" THEN <<"repos">> \o project ELSE <<"projects">> \o Encoded(project)) \o <<"issues", iid>>]

\* fetch_ticket_via_provider: a ticket that was read carries the link it was read from, and no
\* longer the one the description has.
FetchTicket(mr, r, answer) ==
  LET whole == IF r.provider = "github" THEN Len(r.project) = 2 ELSE r.project # <<>>
      read == [r EXCEPT !.url = IssueUrl(r.provider, ApiBase(r.provider, mr), r.project, r.iid),
                        !.source = Word(<<IF r.provider = "github" THEN "#" ELSE "!", r.iid>>)]
  IN  IF ~whole THEN [ref |-> r, title |-> "", error |-> TRUE]
      ELSE [ref |-> read, title |-> IF answer.ok THEN answer.title ELSE "", error |-> ~answer.ok]

-----------------------------------------------------------------------------
(* The answer of the model.                                                *)

\* gitlab_api_url_for_ref, github_api_url_for_ref: the other shape of the ticket's link.
OtherShape(r) ==
  CASE r.provider = "gitlab" /\ r.url.scheme # "" ->
         {Link(r.url.scheme, r.url.auth,
            IF IsPrefix(<<"api", "v4", "projects">>, r.url.segs) THEN r.project \o <<"-", "work_items", r.iid>>
            ELSE <<"api", "v4", "projects">> \o Encoded(r.project) \o <<"issues", r.iid>>)}
    [] r.provider = "github" /\ r.url.auth # <<>> ->
         {Link("https", IF r.url.auth \in {<<"github.com">>, <<"api.github.com">>} THEN <<"api.github.com">> ELSE r.url.auth,
               <<"repos">> \o r.project \o <<"issues", r.iid>>)}
    [] OTHER -> {}

\* gitlab_opposite_scheme_work_items_url.
OppositeScheme(r) ==
  IF r.provider # "gitlab" \/ r.url.scheme = "" THEN {}
  ELSE {Link(IF r.url.scheme = "https" THEN "http" ELSE "https", r.url.auth, r.project \o <<"-", "work_items", r.iid>>)}

\* url_key_variants: the link, with or without its slash, its other shape, its other scheme.
UrlKeyVariants(r) ==
  LET slash == IF r.url.segs # <<>> /\ Last(r.url.segs) = "" THEN [r.url EXCEPT !.segs = Front(@)] ELSE [r.url EXCEPT !.segs = Append(@, "")]
  IN  (IF r.url = NoLink THEN <<>> ELSE <<r.url, slash>>) \o SetToSeq(OtherShape(r)) \o SetToSeq(OppositeScheme(r))

\* candidate_keys_for_ref: the keys an entry about the ticket may have, the most exact first.
CandidateKeys(r) ==
  UrlKeyVariants(r) \o <<r.source>> \o (IF r.provider = "gitlab" THEN <<Word(<<"!", r.iid>>)>> ELSE <<>>) \o <<Word(<<r.iid>>)>>

\* TicketCheck; what the model said is an option.
TicketCheck(r, said) == [ref |-> r, title |-> "", said |-> said]
ParseErrorCheck(f) == [TicketCheck(f.ref, {}) EXCEPT !.title = f.title]

\* parse_compliance_response over a text that holds an object or not: the entry under the first key
\* present; a null or anything that is no object says nothing.
ParseComplianceResponse(reply, refs) ==
  LET entry(r) ==
        LET keys == CandidateKeys(r)
            present == {i \in DOMAIN keys : keys[i] \in DOMAIN reply.entries}
        IN  IF present = {} THEN {} ELSE reply.entries[keys[Min(present)]]
  IN  [i \in DOMAIN refs |-> TicketCheck(refs[i], IF reply.object THEN entry(refs[i]) ELSE {})]

\* is_fence_line and strip_markdown_fences: a line that opens or closes a fence is dropped whole.
StripMarkdownFences(lines) == FlattenSeq(SelectSeq(lines, LAMBDA l : l = <<>> \/ Head(l) # "fence"))

\* The end of the braces opened at i, quotes and escapes read from there.
BalancedEnd(text, i) ==
  LET step(s, j) ==
        CASE s.end # 0 -> s
          [] s.end = 0 /\ s.escape -> [s EXCEPT !.escape = FALSE]
          [] OTHER ->
               CASE text[j] = "bs" /\ s.quoted -> [s EXCEPT !.escape = TRUE]
                 [] text[j] = "q" -> [s EXCEPT !.quoted = ~@]
                 [] text[j] = "{" /\ ~s.quoted -> [s EXCEPT !.depth = @ + 1]
                 [] text[j] = "}" /\ ~s.quoted -> [s EXCEPT !.depth = @ - 1, !.end = IF s.depth = 1 THEN j ELSE 0]
                 [] OTHER -> s
  IN  FoldLeft(step, [depth |-> 0, quoted |-> FALSE, escape |-> FALSE, end |-> 0],
               [k \in 1 .. Len(text) - i + 1 |-> i + k - 1]).end

\* extract_json_object: the whole text, or the first balanced piece of it that is an object.
ExtractJsonObject(lines, objects) ==
  LET text == StripMarkdownFences(lines)
      piece(i) == SubSeq(text, i, BalancedEnd(text, i))
      starts == {i \in DOMAIN text : text[i] = "{" /\ BalancedEnd(text, i) # 0 /\ piece(i) \in objects}
  IN  IF text \in objects THEN {text} ELSE IF starts = {} THEN {} ELSE {piece(Min(starts))}

-----------------------------------------------------------------------------
(* The check.                                                              *)

SelectLlmConfig(bases) == LET usable == {i \in DOMAIN bases : bases[i] # ""} IN IF usable = {} THEN {} ELSE {Min(usable)}

\* Which failures of the question are worth a question per ticket; status 0 is none.
Retryable(status) == status \in {0, 408, 429} \/ status \notin 400 .. 499

Output(checks, failures, unanalysed, notes, model) ==
  [checks |-> checks, failures |-> failures, unanalysed |-> unanalysed, notes |-> notes, model |-> model]

\* Fault: a ticket whose own question failed is skipped.
FallbackSkipsFailed(fetched, replies, out) ==
  LET done == SelectSeq([i \in DOMAIN fetched |-> ParseErrorCheck(fetched[i])], LAMBDA k : replies[1].ok)
  IN  [out EXCEPT !.checks = done, !.unanalysed = <<>>]

\* run_per_ticket_fallback: every ticket that was read gets a check, if only one that says what failed.
RunPerTicketFallback(fetched, replies, out) ==
  LET check(i) ==
        IF ~replies[i].ok THEN ParseErrorCheck(fetched[i])
        ELSE [ParseComplianceResponse(replies[i], <<fetched[i].ref>>)[1] EXCEPT !.title = fetched[i].title]
      checks == [i \in DOMAIN fetched |-> check(i)]
      failed == Len(SelectSeq(replies, LAMBDA a : ~a.ok))
  IN  [out EXCEPT !.checks = checks, !.unanalysed = <<>>, !.notes = @ \o [i \in 1 .. failed |-> "call failed"] \o <<"fallback">>,
                  !.model = IF \E i \in DOMAIN checks : checks[i].said # {} THEN {"model"} ELSE {}]

\* run_for_review.  The checks are made for every ticket planned, the titles given in the order of the
\* tickets read: the two differ when one before them could not be read.
RunFetched(plan, all, checks, bases, reply, replies) ==
  LET failures == SelectSeq(all, LAMBDA t : t.error)
      fetched == SelectSeq(all, LAMBDA t : ~t.error)
      blank == Output(<<>>, failures, <<>>, plan.notes, {})
      valid == Cardinality({i \in DOMAIN checks : checks[i].said # {}})
      noted(note) == [blank EXCEPT !.notes = Append(@, note)]
      alone(note) == [noted(note) EXCEPT !.unanalysed = fetched]
      own == [i \in DOMAIN fetched |-> replies[i]]
  IN  IF plan.refs = <<>> THEN {blank : x \in {n \in {1} : plan.notes # <<>>}}
      ELSE IF fetched = <<>> THEN {blank}
      ELSE IF SelectLlmConfig(bases) = {} THEN {alone("no model")}
      ELSE IF reply.ok /\ reply.truncated /\ (valid = 0 \/ valid < Len(fetched)) THEN {RunPerTicketFallback(fetched, own, noted("truncated"))}
      ELSE IF reply.ok THEN
        {[blank EXCEPT !.checks = [i \in DOMAIN checks |-> [checks[i] EXCEPT !.title = IF i <= Len(fetched) THEN fetched[i].title ELSE ""]],
                       !.model = {"model"}]}
      ELSE IF Retryable(reply.status) THEN {RunPerTicketFallback(fetched, own, noted("failed"))}
      ELSE {alone("failed")}
RunForReview(plan, mr, answers, bases, reply, replies) ==
  RunFetched(plan, [i \in DOMAIN plan.refs |-> FetchTicket(mr, plan.refs[i], answers[i])],
             ParseComplianceResponse(reply, plan.refs), bases, reply, replies)

\* render_compliance_section: the entries, in the order written.
RenderSection(out) ==
  IF out.checks = <<>> /\ out.failures = <<>> /\ out.unanalysed = <<>> /\ out.notes = <<>> THEN <<>>
  ELSE <<"heading">> \o [i \in DOMAIN out.failures |-> "fetch failed"]
         \o (IF out.unanalysed = <<>> THEN <<>> ELSE <<"fetched only">>) \o [i \in DOMAIN out.unanalysed |-> "no analysis"]
         \o (IF out.checks = <<>> THEN <<>> ELSE <<"analysed">>)
         \o [i \in DOMAIN out.checks |-> IF out.checks[i].said = {} THEN "parse failure" ELSE "verdict"]
         \o [i \in DOMAIN out.notes |-> "note"]

-----------------------------------------------------------------------------
(* Correctness.                                                            *)

Same(r, s) == r.provider = s.provider /\ r.project = s.project /\ r.iid = s.iid

\* No ticket is lost on the way (run_for_review, run_per_ticket_fallback): each one planned is a failed
\* fetch, a check or a ticket without analysis, and one that was read is one of the last two; a verdict
\* is an entry of an answer; a title is its ticket's when every ticket was read or each was asked about
\* alone; the section is there whenever something happened.
TicketsAreAccountedFor(c) ==
  \A plan \in {Plan(c.enabled, c.mentions, ProviderFromMrUrl(c.mr), HostFromMrUrl(c.mr), c.own)} : Len(plan.refs) <= MaxTickets /\
  \A out \in {RunForReview(plan, c.mr, c.answers, c.bases, c.reply, c.replies)} :
  LET in(list, r) == \E i \in DOMAIN list : Same(list[i].ref, r)
      replies == {c.reply} \cup {c.replies[i] : i \in DOMAIN c.replies}
  IN  /\ out = {} => plan.refs = <<>> /\ plan.notes = <<>>
      /\ \A o \in out :
           /\ RenderSection(o) # <<>>
           /\ \A i \in DOMAIN plan.refs :
                \/ in(o.failures, plan.refs[i])
                \/ in(o.checks, plan.refs[i]) /\ o.unanalysed = <<>>
                \/ in(o.unanalysed, plan.refs[i]) /\ o.checks = <<>> /\ o.model = {}
           /\ \A i \in DOMAIN o.checks : o.checks[i].said # {} =>
                \E a \in replies : a.ok /\ a.object /\ o.checks[i].said \in {a.entries[k] : k \in DOMAIN a.entries}
           /\ o.model # {} => o.checks # <<>>
           /\ o.failures = <<>> => \A i \in DOMAIN o.checks : c.answers[i].ok /\ o.checks[i].title = c.answers[i].title
           /\ "fallback" \in ToSet(o.notes) =>
                \A i \in DOMAIN o.checks : \E j \in DOMAIN plan.refs : Same(o.checks[i].ref, plan.refs[j]) /\ o.checks[i].title = c.answers[j].title

\* Whether the answer is found under the link shown in the prompt, which is the one the ticket was read
\* from: on github.com and on instances reached by https without user information.
Understood(mr) == mr.scheme = "https" /\ Len(mr.auth) = 1 /\ (ProviderFromMrUrl(mr) = "github" => mr.auth = <<"github.com">>)

\* A model that keys its answer by the link the prompt shows is understood (candidate_keys_for_ref): each
\* ticket read gets its own entry, whichever numbers they share.
ObedientAnswerIsRead(c) ==
  \A plan \in {Plan(TRUE, c.mentions, ProviderFromMrUrl(c.mr), HostFromMrUrl(c.mr), c.own)} :
  LET shown(r) == FetchTicket(c.mr, r, [ok |-> TRUE, title |-> "t"]).ref.url
      entries == [k \in {shown(plan.refs[i]) : i \in DOMAIN plan.refs} |-> {k}]
      checks == ParseComplianceResponse([object |-> TRUE, entries |-> entries], plan.refs)
  IN  /\ Understood(c.mr) /\ (\A i \in DOMAIN plan.refs : plan.refs[i].url.scheme # "http") =>
           \A i \in DOMAIN checks : checks[i].said = {shown(plan.refs[i])}
      /\ \A i, j \in DOMAIN plan.refs : i # j => plan.refs[i] # plan.refs[j]
      /\ \A i \in DOMAIN plan.refs : plan.refs[i].project # <<>>

\* An object is found in any answer that holds one (extract_json_object), whatever stands around it and
\* whatever braces its strings hold; nothing that is no object is taken for one.
ObjectIsFound(c) ==
  LET found == ExtractJsonObject(c.lines, c.objects)
      text == StripMarkdownFences(c.lines)
      there == {i \in DOMAIN text : \E j \in DOMAIN text : SubSeq(text, i, j) \in c.objects}
  IN  /\ found \subseteq c.objects
      /\ found = {} <=> there = {}
      /\ text \notin c.objects => \A o \in found : SubSeq(text, Min(there), Min(there) + Len(o) - 1) = o
=============================================================================
