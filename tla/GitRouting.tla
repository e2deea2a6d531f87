----------------------------- MODULE GitRouting -----------------------------
(* Which configured platform a URL belongs to, and the URL the server then   *)
(* uses.  A URL is a record [scheme, host, port, path]: port is {} when the  *)
(* text names none, path is a sequence of segments, and the host "" stands   *)
(* for a text that does not parse.  A platform is a record [name, base,      *)
(* internal, token, secret, signing, projects]; internal is a set of at      *)
(* most one URL, token "" means none is stored.                              *)
EXTENDS Naturals, Sequences, FiniteSets

Parses(url) == url.host # ""

\* The host and the port that distinguish two instances: a port that the scheme implies is
\* left out, no port is compared when the text does not parse.
HostPort(url) ==
  LET implied == CASE url.scheme = "http" -> {80} [] url.scheme = "https" -> {443} [] OTHER -> {}
  IN IF ~Parses(url) THEN {} ELSE {<<url.host, url.port \ implied>>}

SameInstance(base, url) == HostPort(base) # {} /\ HostPort(base) = HostPort(url)
SameHost(base, url) == Parses(base) /\ Parses(url) /\ base.host = url.host

MatchesUrl(p, url) == SameInstance(p.base, url)
\* Fault: the internal address is not compared.
MatchesBaseOnly(p, url) == SameInstance(p.base, url)
MatchesReviewUrl(p, url) ==
  SameInstance(p.base, url) \/ \E internal \in p.internal : SameInstance(internal, url)

HasVerification(p) == p.secret # "" \/ p.signing # ""
AllowsProject(p, project) == p.projects = {} \/ project \in p.projects

\* The first entry of a list that satisfies a test, as a set of at most one entry.
FirstOf(found) == IF found = <<>> THEN {} ELSE {found[1]}
\* The only entry of a list, as a set of at most one entry.
OnlyOf(found) == IF Len(found) = 1 THEN {found[1]} ELSE {}

\* A webhook payload: the exact instance first, then the only verifying entry on the host.
FindForUrl(list, url) ==
  LET strict == SelectSeq(list, LAMBDA p : MatchesUrl(p, url))
      onHost == SelectSeq(list, LAMBDA p : HasVerification(p) /\ SameHost(p.base, url))
  IN IF strict # <<>> THEN FirstOf(strict) ELSE OnlyOf(onHost)

\* A review URL: either address of the instance counts, then the only entry on the host.
FindForReviewUrl(list, url) ==
  LET strict == SelectSeq(list, LAMBDA p : MatchesReviewUrl(p, url))
      onHost == SelectSeq(list, LAMBDA p : SameHost(p.base, url)
                                             \/ \E i \in p.internal : SameHost(i, url))
  IN IF strict # <<>> THEN FirstOf(strict) ELSE OnlyOf(onHost)

\* The path of one URL on the address of another.  The path of the address stays in front.
RewriteUrl(url, base) ==
  IF Parses(url) /\ Parses(base)
    THEN [base EXCEPT !.path = base.path \o url.path] ELSE url

ReviewBase(p) == IF p.internal = {} THEN p.base ELSE CHOOSE i \in p.internal : TRUE

\* Hosts that name the server itself are only useful through a platform entry.
RouteUnchanged == [kind |-> "unchanged", url |-> {}, display |-> {}]
RouteMrUrl(list, url, localHosts) ==
  LET found == FindForReviewUrl(list, url)
  IN CASE found # {} ->
            LET p == CHOOSE q \in found : TRUE
            IN [kind |-> "rewritten", url |-> {RewriteUrl(url, ReviewBase(p))},
                display |-> {RewriteUrl(url, p.base)}]
       [] found = {} /\ url.host \in localHosts -> [RouteUnchanged EXCEPT !.kind = "refused"]
       [] OTHER -> RouteUnchanged

\* The header, then the token of the platform, then the token of the running server.
ResolveGitlabToken(header, list, url, runtimeToken) ==
  LET found == {p \in FindForReviewUrl(list, url) : p.token # ""}
  IN CASE header # "" -> header
       [] header = "" /\ found # {} -> (CHOOSE p \in found : TRUE).token
       [] OTHER -> runtimeToken

\* The client takes a URL with a project path, the separator and a number at the end; a
\* query after the number is not a number.
MrNumber == {"1", "2"}
MrPart(number) == <<"-/merge_requests", number>>
IsMrUrl(url) ==
  /\ Parses(url) /\ url.scheme \in {"http", "https"} /\ Len(url.path) >= 3
  /\ \E n \in MrNumber : SubSeq(url.path, Len(url.path) - 1, Len(url.path)) = MrPart(n)
=============================================================================
