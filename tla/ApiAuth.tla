------------------------------ MODULE ApiAuth -------------------------------
(***************************************************************************)
(* The API token of the server (server/auth.rs, put_token and auth_status  *)
(* of server/api/system.rs): what starts it, who passes the middleware,    *)
(* and how PUT /system/token replaces it while other requests run.         *)
(*                                                                         *)
(* Hashes stand for their tokens.  An optional value is a set of at most   *)
(* one element.                                                            *)
(***************************************************************************)
EXTENDS Integers, FiniteSets

CONSTANTS
  Door,           \* [loopback, explicit, bootkey, stored] of the deployments
  ApiRequest,     \* [path, bearer, header, query, boot, body]
  AuthClient,
  MaxTokenPuts, MaxAuthBoots

VARIABLES
  door,           \* the deployment: command line, environment, auth file at first
  gate,           \* "down", "up" or "refused" (resolve failed)
  token,          \* AuthConfig::token_hash
  authFile,       \* api_token_sha256 in the auth file, or {"bad"}
  authTmp,        \* the temporary file beside it
  putter,         \* client -> the PUT it has in flight
  authHistory     \* last token acknowledged, tokens of puts a crash cut off, puts, boots, overlaps

authVars == <<door, gate, token, authFile, authTmp, putter, authHistory>>

Bad == "bad"
IdlePutter == [pc |-> "idle", new |-> {}, by |-> {}]

AuthInit ==
  /\ door \in Door
  /\ gate = "down" /\ token = {} /\ authFile = door.stored /\ authTmp = {}
  /\ putter = [c \in AuthClient |-> IdlePutter]
  /\ authHistory = [acked |-> {}, died |-> {}, puts |-> 0, boots |-> 0, overlap |-> FALSE]

-----------------------------------------------------------------------------
(* Start-up.                                                               *)

\* load_auth_file: a file that cannot be read or parsed is no missing file.
LoadAuthFile == [ok |-> authFile # {Bad}, token |-> authFile \ {Bad}]

\* AuthConfig::resolve over load_auth_file: the token of the command line, else the
\* stored one; a file that cannot be read or parsed, or a public address with neither a
\* token nor a bootstrap key, stops the server.
Resolve ==
  /\ gate = "down" /\ authHistory.boots < MaxAuthBoots
  /\ LET found == IF door.explicit # {} THEN door.explicit ELSE LoadAuthFile.token
         stops == \/ door.explicit = {} /\ ~LoadAuthFile.ok
                  \/ found = {} /\ ~door.loopback /\ door.bootkey = {}
     IN  /\ gate' = IF stops THEN "refused" ELSE "up"
         /\ token' = IF stops THEN {} ELSE found
  /\ authHistory' = [authHistory EXCEPT !.boots = @ + 1]
  /\ UNCHANGED <<door, authFile, authTmp, putter>>

Crash ==
  /\ gate = "up" /\ authHistory.boots < MaxAuthBoots
  /\ gate' = "down" /\ token' = {}
  /\ putter' = [c \in AuthClient |-> IdlePutter]
  /\ authHistory' = [authHistory EXCEPT
       !.died = @ \cup UNION {putter[c].new : c \in {d \in AuthClient : putter[d].pc = "set"}}]
  /\ UNCHANGED <<door, authFile, authTmp>>

-----------------------------------------------------------------------------
(* The middleware.                                                         *)

\* query_token_for_sse: only the event streams, which cannot send headers.
QueryToken(req) == IF req.path = "logs" THEN req.query ELSE {}

\* The bearer token, else X-API-Key, else the query.
Provided(req) ==
  CASE req.bearer # {} -> req.bearer
    [] req.header # {} -> req.header
    [] OTHER -> QueryToken(req)

\* AuthConfig::check, for a server with a token; an empty token opens nothing.
Check(req) == Provided(req) \subseteq token /\ Provided(req) \notin {{}, {""}}

\* check_explicit_token reads the headers only.
CheckExplicitToken(req) ==
  LET given == IF req.bearer # {} THEN req.bearer ELSE req.header IN
  given = door.explicit /\ given \notin {{}, {""}}

ValidBootstrapKey(req) == req.boot = door.bootkey /\ req.boot # {}

\* Fault: the rescue by the bootstrap key or the explicit token is gone once a token is set.
NoRescue(req) ==
  CASE req.path = "status" -> "pass"
    [] token = {} /\ req.path = "token" /\ (door.loopback \/ ValidBootstrapKey(req)) -> "pass"
    [] token # {} /\ Check(req) -> "pass"
    [] OTHER -> "unauthorized"

\* auth_middleware.
AuthMiddleware(req) ==
  LET put == req.path = "token" IN
  CASE req.path = "status" -> "pass"
    [] token = {} -> IF put THEN IF door.loopback \/ ValidBootstrapKey(req) THEN "pass" ELSE "bootstrap_key_required"
                     ELSE "auth_required"
    [] Check(req) -> "pass"
    [] put /\ (ValidBootstrapKey(req) \/ CheckExplicitToken(req)) -> "pass"
    [] OTHER -> "unauthorized"

-----------------------------------------------------------------------------
(* PUT /system/token.                                                      *)

Replace(c, pc) == putter' = [putter EXCEPT ![c].pc = pc]

\* The request passed and its body holds a token: update_token begins.
PutToken(c, req) ==
  /\ gate = "up" /\ putter[c].pc = "idle" /\ authHistory.puts < MaxTokenPuts
  /\ req.path = "token" /\ req.body \notin {{}, {""}}
  /\ AuthMiddleware(req) = "pass"
  /\ putter' = [putter EXCEPT ![c] = [pc |-> "write", new |-> req.body, by |-> {req}]]
  /\ authHistory' = [authHistory EXCEPT !.puts = @ + 1,
       !.overlap = @ \/ \E d \in AuthClient : putter[d].pc # "idle"]
  /\ UNCHANGED <<door, gate, token, authFile, authTmp>>

\* save_auth_file writes the temporary file (every put the same one), or fails.
WriteTmp(c) ==
  /\ putter[c].pc = "write"
  /\ \/ authTmp' = putter[c].new /\ Replace(c, "rename")
     \/ UNCHANGED authTmp /\ putter' = [putter EXCEPT ![c] = IdlePutter]
  /\ UNCHANGED <<door, gate, token, authFile, authHistory>>

\* The rename takes whatever is there; it fails when another put took it first.
RenameTmp(c) ==
  /\ putter[c].pc = "rename"
  /\ IF authTmp # {}
     THEN authFile' = authTmp /\ authTmp' = {} /\ Replace(c, "set")
     ELSE UNCHANGED <<authFile, authTmp>> /\ putter' = [putter EXCEPT ![c] = IdlePutter]
  /\ UNCHANGED <<door, gate, token, authHistory>>

\* Only then the running server takes the new token, and answers.
SetToken(c) ==
  /\ putter[c].pc = "set"
  /\ token' = putter[c].new
  /\ authHistory' = [authHistory EXCEPT !.acked = putter[c].new]
  /\ putter' = [putter EXCEPT ![c] = IdlePutter]
  /\ UNCHANGED <<door, gate, authFile, authTmp>>

AuthNext ==
  \/ Resolve \/ Crash
  \/ \E c \in AuthClient : \/ \E req \in ApiRequest : PutToken(c, req)
                           \/ WriteTmp(c) \/ RenameTmp(c) \/ SetToken(c)

-----------------------------------------------------------------------------
(* What the token promises.                                                *)

\* Nobody is locked out for good: in every state of a running server somebody with the
\* token in force, the bootstrap key or the token of the command line may replace it; and
\* nothing but the status is served without one of them once a token is set.
NobodyIsLockedOut ==
  gate = "up" =>
    /\ \A req \in ApiRequest : req.path = "token" =>
         ((\/ ValidBootstrapKey(req) \/ CheckExplicitToken(req)
           \/ token # {} /\ req.bearer = token) => AuthMiddleware(req) = "pass")
    /\ \A req \in ApiRequest : AuthMiddleware(req) = "pass" /\ req.path # "status" =>
         \/ \E t \in token : t \in req.bearer \cup req.header \cup req.query
         \/ req.path = "token" /\ (ValidBootstrapKey(req) \/ CheckExplicitToken(req) \/ (door.loopback /\ token = {}))

\* A token that was acknowledged is in force now and after a restart, unless the command
\* line names another, a later put was cut off by a crash, or two replacements
\* overlapped; memory and file agree whenever nothing is in flight.
AcknowledgedTokenHolds ==
  /\ gate = "up" /\ ~authHistory.overlap /\ (\A c \in AuthClient : putter[c].pc = "idle")
       /\ authHistory.acked # {} /\ door.explicit = {} =>
       /\ token = authFile
       /\ token = authHistory.acked \/ token \subseteq authHistory.died
  /\ authFile = {Bad} => door.stored = {Bad}
=============================================================================
