----------------------------- MODULE LlmSection -----------------------------
(***************************************************************************)
(* The provider list of PUT /api/v1/config and of its replay at startup    *)
(* (server/api/config/put.rs, persist.rs, db_overlay.rs, llm/mod.rs), as   *)
(* operators: how submitted cards become provider entries, what of them is *)
(* written down, and what a restart makes of it.                           *)
(*                                                                         *)
(* An endpoint stands for the pair (api_base, model), tag for the settings *)
(* that do not identify a card (max_tokens, temperature, the thinking      *)
(* opt-out).  "" is the empty string of the code, "***" its mask, and an   *)
(* Option is a set with at most one element.                               *)
(***************************************************************************)
EXTENDS Subsequences, FiniteSets, FiniteSetsExt, Functions

Blank == ""
Mask == "***"
\* is_blank_or_masked: "leave it as it is".
IsBlankOrMasked(key) == key \in {Blank, Mask}

(***************************************************************************)
(* LLMConfig, the [[llm]] entry; ProviderConfig, the card that states one; *)
(* UiConfig, the projection of the whole page.                             *)
(***************************************************************************)
\* The strings.  Those the code names are listed for the provers, to which STRING is opaque.
Text == STRING \cup {Blank, Mask, "openai"}

Option(S) == {o \in SUBSET S : \A x, y \in o : x = y}
Entry == [provider : Text, at : Text, key : Text, off : BOOLEAN, tag : Nat]
ProviderCard == [provider : Text, at : Text, key : Text, off : Option(BOOLEAN), tag : Nat]
UiConfig == [primary : Text, skey : Text, at : Text, tag : Nat,
             providers : Seq(ProviderCard), token : Text, cap : Nat]

MaskOrEmpty(secret) == IF secret = Blank THEN Blank ELSE Mask

OrElse(option, default) == IF option = {} THEN default ELSE CHOOSE x \in option : TRUE

\* Entries as the cards of a payload or a projection, with their keys masked or not.
Cards(entries, masked) ==
  [i \in DOMAIN entries |->
     [provider |-> entries[i].provider, at |-> entries[i].at,
      key |-> IF masked THEN MaskOrEmpty(entries[i].key) ELSE entries[i].key,
      off |-> {entries[i].off}, tag |-> entries[i].tag]]

First(s, Test(_)) == Min({i \in DOMAIN s : Test(s[i])})
Some(s, Test(_)) == \E i \in DOMAIN s : Test(s[i])

(***************************************************************************)
(* Which stored entry a submitted card is about.  The result is a set with *)
(* at most one element.                                                    *)
(***************************************************************************)
\* Fault: the name alone identifies a card.
StoredForByName(stored, i, provider, at) ==
  LET named == {j \in DOMAIN stored : stored[j].provider = provider}
  IN  IF named = {} THEN {} ELSE {stored[Min(named)]}

StoredFor(stored, i, provider, at) ==
  LET same == {j \in DOMAIN stored : stored[j].provider = provider /\ stored[j].at = at}
  IN  IF i \in same THEN {stored[i]}
      ELSE IF Cardinality(same) = 1 THEN {stored[j] : j \in same}
      ELSE {}

NoIndex == 0

\* The stored entry the scalar mirror speaks about.
LegacyRef(stored, at) ==
  LET exact == StoredFor(stored, NoIndex, "openai", at)
      named == {j \in DOMAIN stored : stored[j].provider = "openai"}
  IN  IF exact # {} THEN exact
      ELSE IF Cardinality(named) = 1 THEN {stored[j] : j \in named} ELSE {}

ResolveKey(submitted, kept) ==
  IF IsBlankOrMasked(submitted) THEN OrElse({e.key : e \in kept}, Blank) ELSE submitted

ResolveDisabled(submitted, kept) == OrElse(submitted, OrElse({e.off : e \in kept}, FALSE))

\* The providers[] card the scalar mirror stands for, so that it is not listed twice.
LegacyConsumed(body) ==
  LET cards == body.providers
      exact == {i \in DOMAIN cards : cards[i].provider = "openai" /\ cards[i].at = body.at}
      named == {i \in DOMAIN cards : cards[i].provider = "openai"}
  IN  IF exact # {} THEN Min(exact) ELSE IF named # {} THEN Min(named) ELSE NoIndex

\* The mirror repeats the recorded primary, which is not the openai account.
MirrorIsEcho(body) ==
  /\ body.primary \notin {Blank, "openai"}
  /\ Some(body.providers, LAMBDA p : p.provider = body.primary /\ p.at = body.at)

LegacyEntry(body, stored) ==
  LET ref      == LegacyRef(stored, body.at)
      consumed == LegacyConsumed(body)
      spoken   == IF consumed = NoIndex THEN {} ELSE body.providers[consumed].off
  IN  [provider |-> "openai",
       at       |-> IF body.at # Blank THEN body.at
                    ELSE OrElse({e.at : e \in ref}, Blank),
       key      |-> ResolveKey(body.skey, ref),
       off      |-> ResolveDisabled(spoken, ref),
       tag      |-> body.tag]

LegacyApplies(body, stored, statesScalars) ==
  statesScalars /\ ~MirrorIsEcho(body) /\ LegacyEntry(body, stored).key # Blank

\* What card i of the submission resolves to; without a key it is dropped.
ResolvedCard(body, stored, i) ==
  LET p    == body.providers[i]
      kept == IF p.provider = Blank THEN {} ELSE StoredFor(stored, i, p.provider, p.at)
  IN  [provider |-> p.provider, at |-> p.at,
       key      |-> IF p.provider = Blank THEN Blank ELSE ResolveKey(p.key, kept),
       off      |-> ResolveDisabled(p.off, kept), tag |-> p.tag]

Resolved(body, stored, statesScalars) ==
  [i \in DOMAIN body.providers |->
     IF LegacyApplies(body, stored, statesScalars) /\ i = LegacyConsumed(body)
     THEN LegacyEntry(body, stored)
     ELSE ResolvedCard(body, stored, i)]

NoEntry == [provider |-> Blank, at |-> Blank, key |-> Blank, off |-> FALSE, tag |-> 0]

\* The provider set the request asks for.
NewLlmConfigs(body, stored, statesScalars) ==
  LET applies == LegacyApplies(body, stored, statesScalars)
      cards   == Resolved(body, stored, statesScalars)
      listed  == [i \in DOMAIN cards |->
                    IF applies /\ i = LegacyConsumed(body) THEN NoEntry ELSE cards[i]]
  IN  (IF applies THEN <<LegacyEntry(body, stored)>> ELSE <<>>)
        \o Subsequence(listed, {i \in DOMAIN listed : listed[i].key # Blank})

\* The primary names an enabled entry, or the first enabled one takes its place.
EnabledPrimary(primary, entries) ==
  IF entries = <<>> \/ Some(entries, LAMBDA e : ~e.off /\ e.provider = primary) THEN primary
  ELSE IF Some(entries, LAMBDA e : ~e.off) THEN entries[First(entries, LAMBDA e : ~e.off)].provider
  ELSE Blank

\* What the projection keeps of a stated section: masks, resolved flags, the primary.
WriteBack(body, stored, statesScalars) ==
  LET new      == NewLlmConfigs(body, stored, statesScalars)
      cards    == Resolved(body, stored, statesScalars)
      speaks   == IF body.primary = Blank THEN "openai" ELSE body.primary
  IN  [body EXCEPT
         !.skey      = IF Some(new, LAMBDA e : e.provider = speaks) THEN Mask ELSE Blank,
         !.providers = Cards(cards, TRUE),
         !.primary   = EnabledPrimary(@, new)]

(***************************************************************************)
(* What is written down.                                                   *)
(***************************************************************************)
IsEnvDerivedLlm(entry, envEntries) ==
  Some(envEntries, LAMBDA e :
         /\ e.key = entry.key
         /\ IF e.key = Blank THEN e.provider = entry.provider /\ e.at = entry.at
                             ELSE e.provider = entry.provider \/ e.at = entry.at)

DropEnvEntries(entries, envEntries) ==
  Subsequence(entries, {i \in DOMAIN entries : ~IsEnvDerivedLlm(entries[i], envEntries)})

\* The entry the scalar fields describe: the recorded primary or the first enabled one.
PrimaryEntry(primary, saved) ==
  LET named == {i \in DOMAIN saved : ~saved[i].off /\ saved[i].provider = primary}
      on    == {i \in DOMAIN saved : ~saved[i].off}
  IN  IF named # {} THEN Min(named) ELSE IF on # {} THEN Min(on) ELSE NoIndex

SyncLlmProjection(ui, saved) ==
  LET head == PrimaryEntry(ui.primary, saved)
      key  == IF Some(saved, LAMBDA e : e.provider = "openai") THEN Mask ELSE Blank
  IN  IF saved = <<>> THEN [ui EXCEPT !.skey = Blank]
      ELSE [ui EXCEPT !.primary = IF head = NoIndex THEN Blank ELSE saved[head].provider,
                      !.at      = saved[IF head = NoIndex THEN 1 ELSE head].at,
                      !.tag     = saved[IF head = NoIndex THEN 1 ELSE head].tag,
                      !.skey    = key]

(***************************************************************************)
(* What a restart reads back: the llm section of replay_payload.           *)
(***************************************************************************)
FirstOpenAiKey(saved) ==
  IF Some(saved, LAMBDA e : e.provider = "openai")
  THEN saved[First(saved, LAMBDA e : e.provider = "openai")].key ELSE Blank

\* Fault: the cards come from the masked projection.
ReplayMasks(ui, saved) == ui

ReplayLlm(ui, saved) ==
  LET head == PrimaryEntry(ui.primary, saved)
  IN  [ui EXCEPT
         !.primary   = IF head = NoIndex THEN @ ELSE saved[head].provider,
         !.at        = IF head = NoIndex THEN @ ELSE saved[head].at,
         !.tag       = IF head = NoIndex THEN @ ELSE saved[head].tag,
         !.skey      = FirstOpenAiKey(saved),
         !.providers = Cards(saved, FALSE)]

(***************************************************************************)
(* The chain a review walks, and the projection of a configuration file.   *)
(***************************************************************************)
OrderedLlmConfigs(primary, entries) ==
  LET on   == Subsequence(entries, {i \in DOMAIN entries : ~entries[i].off})
      head == {i \in DOMAIN on : on[i].provider = primary}
      rest(i) == SubSeq(on, 1, i - 1) \o SubSeq(on, i + 1, Len(on))
  IN  IF head = {} THEN on ELSE <<on[Min(head)]>> \o rest(Min(head))

\* UiConfig::from_app_config: the last openai entry wins the mirror, else the first.
FromAppConfig(entries, cap) ==
  LET named == {i \in DOMAIN entries : entries[i].provider = "openai"}
      head  == entries[IF named # {} THEN Max(named) ELSE 1]
      none  == entries = <<>>
  IN  [primary   |-> IF none THEN Blank ELSE head.provider,
       skey      |-> IF none THEN Blank ELSE MaskOrEmpty(head.key),
       at        |-> IF none THEN Blank ELSE head.at,
       tag       |-> IF none THEN 0 ELSE head.tag,
       providers |-> Cards(entries, TRUE),
       token     |-> Blank,
       cap       |-> cap]
=============================================================================
