------------------------------ MODULE MCConfig ------------------------------
(* Instances of the configuration: a behaviour is one of the settings and   *)
(* providers, or one of the git platforms, which PUT /config resolves and   *)
(* stores on their own.                                                     *)
EXTENDS ConfigStore, GitPlatforms

VARIABLE part

Card(p, at, key, off, tag) == [provider |-> p, at |-> at, key |-> key, off |-> off, tag |-> tag]
Req(providers, scalars, primary, token, cap) ==
  [providers |-> providers, scalars |-> scalars, primary |-> primary, token |-> token, cap |-> cap]
SaveCards(cards) == Req({cards}, {}, {}, {}, {})
SaveScalars(key, at) == Req({}, {[skey |-> key, at |-> at, tag |-> 1]}, {}, {}, {})
SavePrimary(p) == Req({}, {}, {p}, {}, {})
SaveToken(token) == Req({}, {}, {}, {token}, {})
SaveCap(n) == Req({}, {}, {}, {}, {n})

OpenAi(key) == Card("openai", "o", key, {}, 1)
DeepSeek(key, off) == Card("deepseek", "d", key, off, 1)
Moved(key) == Card("deepseek", "e", key, {}, 1)

\* The Configuration page (no llm section) and the providers page: two accounts, which may
\* be switched off, one or both, moved, saved with their keys masked, or deleted.
PageRequests ==
  {SaveCards(<<OpenAi("k1"), DeepSeek("k2", {})>>),
   SaveCards(<<DeepSeek(Mask, {}), OpenAi(Mask)>>),
   SaveCards(<<DeepSeek(Mask, {TRUE}), OpenAi(Mask)>>),
   SaveCards(<<DeepSeek(Mask, {TRUE}), Card("openai", "o", Mask, {TRUE}, 1)>>),
   SaveCards(<<OpenAi("k3"), Moved(Mask)>>), SaveCards(<<>>),
   SaveCap(0), SaveCap(7), SavePrimary("deepseek"), SavePrimary("openai")}

TokenRequests ==
  {SaveCards(<<OpenAi("k1"), DeepSeek("k2", {})>>), SaveCards(<<DeepSeek(Mask, {TRUE}), OpenAi(Mask)>>),
   SavePrimary("deepseek"), SaveToken("t1"), SaveToken(Blank), SaveToken(Mask)}

\* An older client sends the scalar fields.
EnvRequests ==
  {SaveCards(<<OpenAi(Mask), DeepSeek("k2", {})>>), SaveCards(<<DeepSeek(Mask, {})>>),
   SaveScalars(Mask, "p"), SaveScalars("k1", "o"), SaveCap(7),
   SaveToken("t1"), SaveToken(Mask), SaveToken("tenv")}

OldUiState == [ui |-> {}, llm |-> <<Card("openai", "o", "k0", FALSE, 1)>>, token |-> "t0"]

Server(requests, envLlm, envToken, uiStates, hasDb) ==
  [requests |-> requests, fileLlm |-> <<>>, envLlm |-> envLlm, envToken |-> envToken,
   uiStates |-> uiStates, db |-> hasDb]

MCDeployment ==
  {Server(PageRequests, <<>>, Blank, {OldUiState}, TRUE),
   Server(TokenRequests, <<>>, "tenv", {OldUiState}, FALSE),
   Server(EnvRequests, <<Card("openai", "o", "kenv", FALSE, 1)>>, "tenv", {}, TRUE)}

\* A token in the environment, another one stored, and a database.
TokenDeployment == {Server({SaveToken("t1"), SaveToken(Mask), SaveCap(7)}, <<>>, "tenv", {OldUiState}, TRUE)}

P(id, name, token) == [id |-> id, name |-> name, token |-> token, valid |-> TRUE]

\* "u1", "u2" ... are the ids the server hands out, in that order.
MCNewId == <<"u1", "u2", "u3", "u4", "u5", "u6", "u7", "u8">>

\* New entries without an id, then edits by id: renames, swaps, clears, a bad URL, an older
\* client that knows names only, a new entry under the former name of a renamed one, and two
\* entries of one name.
MCSubmission ==
  {<<P("", "a", "t1"), P("", "b", "t2")>>, <<P("u1", "b", Mask), P("u2", "a", Mask)>>,
   <<P("u1", "c", Mask), P("u2", "b", Clear)>>, <<P("u2", "b", "")>>,
   <<P("u1", "c", Mask), P("", "a", Mask)>>, <<P("u1", "b", Mask), P("u2", "b", Mask)>>,
   <<P("", "b", Mask), P("", "b", "t3")>>, <<P("bad", "a", Mask), P("", "", "t1")>>,
   <<[id |-> "", name |-> "d", token |-> "t4", valid |-> FALSE]>>}

vars == <<part, configVars, platformVars>>

Init ==
  /\ part \in {"settings", "platforms"}
  /\ ConfigInit /\ PlatformsInit
  /\ part = "platforms" => deployment = (CHOOSE d \in Deployment : TRUE) /\ file = {}

Next ==
  /\ UNCHANGED part
  /\ \/ part = "settings" /\ ConfigNext /\ UNCHANGED platformVars
     \/ part = "platforms" /\ PlatformsNext /\ UNCHANGED configVars

Spec == Init /\ [][Next]_vars
=============================================================================
