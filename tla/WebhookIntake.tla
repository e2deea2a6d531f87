--------------------------- MODULE WebhookIntake ----------------------------
(* A delivery of a forge: which settings verify it, which credentials and    *)
(* which platform its review uses, and what it asks for.  The list of        *)
(* platforms may be saved between the verification and the handling, and     *)
(* between the two reads the handling makes.                                 *)
EXTENDS GitRouting

CONSTANTS PlatformLists,   \* the lists the configuration page may save
          Runtime,         \* the settings of the running server: [secret, signing, token]
          Started,         \* the settings the handler was built with
          GithubSecret,    \* the secret of the GitHub handler, which is not mounted without one
          Delivery,        \* the deliveries: see Received
          Tolerance,       \* seconds a signature may be away from the clock
          MaxBody,         \* bytes of a body
          MaxIntakeSaves   \* bound: saves of the list during one delivery

VARIABLES intakeList,   \* the platforms
          intake        \* the delivery and what was read for it so far
intakeVars == <<intakeList, intake>>

\* The first of several places of a payload that holds a text.
PayloadInstance(body) ==
  LET places == SelectSeq(<<body.web_url, body.homepage, body.repo_homepage, body.url>>,
                          LAMBDA u : u # {})
  IN IF ~body.json \/ places = <<>> THEN {} ELSE places[1]

UniqueVerification(list) == OnlyOf(SelectSeq(list, HasVerification))

FromPlatform(p) == [secret |-> p.secret, signing |-> p.signing, token |-> p.token]

\* The running settings unless they are all empty.
EffectiveConfig ==
  IF Runtime.secret = "" /\ Runtime.signing = "" /\ Runtime.token = "" THEN Started ELSE Runtime

MatchedPlatform(list, body) ==
  LET found == IF PayloadInstance(body) = {} THEN {}
               ELSE FindForUrl(list, CHOOSE u \in PayloadInstance(body) : TRUE)
  IN IF found # {} THEN {p \in found : HasVerification(p)} ELSE UniqueVerification(list)

EffectiveConfigForBody(list, body) ==
  LET found == IF PayloadInstance(body) = {} THEN {}
               ELSE FindForUrl(list, CHOOSE u \in PayloadInstance(body) : TRUE)
      one == UniqueVerification(list)
  IN CASE found # {} /\ (\A p \in found : HasVerification(p)) -> FromPlatform(CHOOSE p \in found : TRUE)
       [] found = {} /\ one # {} -> FromPlatform(CHOOSE p \in one : TRUE)
       [] OTHER -> EffectiveConfig

\* A signing secret is usable when it is the encoding of a key; a signature is the key, the
\* id, the time and the body it was made from.
UsableKey(signing) == signing \notin {"", "malformed"}
VerifySigning(cfg, d, now) ==
  /\ UsableKey(cfg.signing)
  /\ d.signature # {} /\ d.id # "" /\ d.at # {}
  /\ \A at \in d.at : at \in now - Tolerance .. now + Tolerance
  /\ \E at \in d.at : <<cfg.signing, d.id, at, d.body>> \in d.signature

\* Fault: an unset secret is compared all the same.
VerifyLoosely(list, d) ==
  LET cfg == EffectiveConfigForBody(list, d.body)
  IN IF cfg.signing # "" /\ d.signed THEN VerifySigning(cfg, d, d.clock) ELSE d.token = cfg.secret
VerifyGitlab(list, d) ==
  LET cfg == EffectiveConfigForBody(list, d.body)
  IN CASE cfg.signing # "" /\ d.signed -> VerifySigning(cfg, d, d.clock)
       [] ~(cfg.signing # "" /\ d.signed) /\ cfg.secret # "" -> d.token = cfg.secret
       [] OTHER -> FALSE

\* A signature in the header of the other forge: absent, not in its format, or made from a
\* secret and the body.
VerifyGithub(d) ==
  /\ d.hub # {}
  /\ \E s \in d.hub : s = <<GithubSecret, d.body>>

Verified(list, d) == IF d.forge = "gitlab" THEN VerifyGitlab(list, d) ELSE VerifyGithub(d)

\* The parts of a merge request hook: the URL is the one of the request itself or made from
\* the project and the number.
MrUrlOf(body) ==
  CASE body.url # {} -> body.url
    [] body.url = {} /\ body.web_url # {} /\ body.iid # "" ->
         {[u EXCEPT !.path = @ \o MrPart(body.iid)] : u \in body.web_url}
    [] OTHER -> {}
\* The commit author, then the author of the request, then the user of the event: the first
\* that is there, though it may be blank; the picture only of a block that names the same
\* person.
AuthorOf(body) ==
  LET there == SelectSeq(<<body.commit_author, body.author.name, body.user.name>>, LAMBDA n : n # {})
      name == IF there = <<>> THEN {""} ELSE there[1]
      blocks == SelectSeq(<<body.author, body.user>>, LAMBDA b : b.name = name /\ b.avatar # "")
  IN [name |-> name, avatar |-> IF blocks = <<>> THEN "" ELSE blocks[1].avatar]
PullUrlOf(body) ==
  IF body.project # "" /\ body.iid # ""
    THEN {[scheme |-> "https", host |-> "github.com", port |-> {}, path |-> <<body.project, "pull", body.iid>>]}
    ELSE {}

\* What is stored about the review: blank texts are left out.
SourceMetaOf(forge, body, url) ==
  LET author == IF forge = "gitlab" THEN AuthorOf(body) ELSE body.user
  IN [project |-> {body.project} \ {""}, url |-> url, sha |-> {body.sha} \ {""},
      author |-> author.name \ {""}, avatar |-> {author.avatar} \ {""}]

\* A system hook names its event in the body.
EventOf(d) == IF d.event = "System Hook" THEN (IF d.body.json THEN d.body.kind ELSE "") ELSE d.event

Reviews(d) == EventOf(d) \in {"merge_request", "pull_request"} /\ d.body.action \in {"open", "reopen", "update"}

Said(status) == [pc |-> "answered", status |-> status]

(* ------------------------------ the delivery ------------------------------- *)
Received(d) == [pc |-> "received", d |-> d, saves |-> 0, list |-> <<>>]
IntakeInit == \E list \in PlatformLists, d \in Delivery :
  /\ intakeList = list
  /\ intake = Received(d)

\* The body is measured, then the delivery is verified against the list of this moment.
Receive ==
  /\ intake.pc = "received"
  /\ intake' = IF intake.d.size > MaxBody THEN Said(413)
               ELSE IF ~Verified(intakeList, intake.d) THEN Said(403)
               ELSE [intake EXCEPT !.pc = "verified", !.list = intakeList]
  /\ UNCHANGED intakeList

\* handle_event reads the credentials first.
ReadToken ==
  /\ intake.pc = "verified"
  /\ intake' = [pc |-> "token", d |-> intake.d, saves |-> intake.saves, list |-> intake.list,
                token |-> IF intake.d.forge = "gitlab"
                            THEN EffectiveConfigForBody(intakeList, intake.d.body).token
                            ELSE Started.token]
  /\ UNCHANGED intakeList

\* The address a request of this platform is reviewed at.
ReviewUrlOf(platform, url) ==
  {IF platform = {} THEN u ELSE RewriteUrl(u, ReviewBase(CHOOSE p \in platform : TRUE)) : u \in url}

\* Then the platform, and it answers: ignored, skipped for what is missing, or a review.
HandleEvent ==
  /\ intake.pc = "token"
  /\ LET d == intake.d
         platform == IF d.forge = "gitlab" THEN MatchedPlatform(intakeList, d.body) ELSE {}
         url == IF d.forge = "gitlab" THEN MrUrlOf(d.body) ELSE PullUrlOf(d.body)
         outcome ==
           CASE EventOf(d) \notin {"merge_request", "pull_request"} -> "ignored"
             [] EventOf(d) \in {"merge_request", "pull_request"} /\ ~d.body.json -> "bad request"
             [] Reviews(d) /\ (\E p \in platform : ~AllowsProject(p, d.body.project)) -> "not allowed"
             [] Reviews(d) /\ (\A p \in platform : AllowsProject(p, d.body.project))
                  /\ (url = {} \/ intake.token = "" \/ d.body.sha = "") -> "skipped"
             [] ~Reviews(d) -> "received"
             [] OTHER -> "review"
     IN intake' = [pc |-> "handled", d |-> d, token |-> intake.token, platform |-> platform,
                   list |-> intake.list, now |-> intakeList, outcome |-> outcome,
                   url |-> IF outcome = "review" THEN ReviewUrlOf(platform, url) ELSE {},
                   meta |-> IF outcome = "review" THEN {SourceMetaOf(d.forge, d.body, url)} ELSE {}]
  /\ UNCHANGED intakeList

SaveList ==
  /\ intake.pc \in {"received", "verified", "token"} /\ intake.saves < MaxIntakeSaves
  /\ \E list \in PlatformLists : intakeList' = list
  /\ intake' = [intake EXCEPT !.saves = @ + 1]

IntakeNext == Receive \/ ReadToken \/ HandleEvent \/ SaveList

(* ------------------------------- properties -------------------------------- *)
\* A delivery that is handled was verified by a secret that is set: nothing is accepted
\* because there was nothing to compare it with.
AcceptedWithProof ==
  intake.pc = "handled" /\ intake.d.forge = "gitlab" =>
    LET cfg == EffectiveConfigForBody(intake.list, intake.d.body)
    IN \/ cfg.secret # "" /\ intake.d.token = cfg.secret
       \/ UsableKey(cfg.signing) /\ \E s \in intake.d.signature : s[1] = cfg.signing /\ s[4] = intake.d.body

\* The token and the address of a review come from one platform: effective_config_for_body
\* and matched_platform agree on who answers for a body, and a platform that verified the
\* delivery is the one whose address is used, when the list was not saved in between.
CredentialsFitTheAddress ==
  intake.pc = "handled" /\ intake.outcome = "review" /\ intake.d.forge = "gitlab"
    /\ intake.now = intake.list =>
      IF intake.platform = {} THEN intake.token = EffectiveConfig.token
      ELSE \A p \in intake.platform :
             /\ intake.token = p.token
             /\ EffectiveConfigForBody(intake.list, intake.d.body) = FromPlatform(p)
             /\ \A u \in intake.url : MatchesReviewUrl(p, u)
=============================================================================
