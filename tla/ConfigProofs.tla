---------------------------- MODULE ConfigProofs ----------------------------
(***************************************************************************)
(* What the configuration promises, for any deployment: its types, where   *)
(* the secrets go, what a restart keeps.                                   *)
(***************************************************************************)
EXTENDS ConfigStore

-----------------------------------------------------------------------------
(* Optional values and the least and greatest place of a kind.             *)

LEMMA OrElseOf ==
  ASSUME NEW o, NEW d
  PROVE  \/ o = {} /\ OrElse(o, d) = d
         \/ o # {} /\ OrElse(o, d) \in o
  BY DEF OrElse

LEMMA OrElseOne ==
  ASSUME NEW x, NEW d
  PROVE  OrElse({x}, d) = x /\ OrElse({}, d) = d
  BY DEF OrElse

LEMMA MinOf ==
  ASSUME NEW n \in Nat, NEW I \in SUBSET (1 .. n), I # {}
  PROVE  Min(I) \in I
<1>1. PICK i \in I : \A j \in I : i <= j
  <2>1. I \in SUBSET Nat
    OBVIOUS
  <2> QED BY <2>1, LeastNatural
<1> QED BY <1>1 DEF Min

LEMMA MaxOf ==
  ASSUME NEW n \in Nat, NEW I \in SUBSET (1 .. n), I # {}
  PROVE  Max(I) \in I
<1> DEFINE T == {n - i : i \in I}
<1>0. \A i \in I : n - i \in Nat
  OBVIOUS
<1>1. T \in SUBSET Nat /\ T # {}
  BY <1>0
<1>2. PICK t \in T : \A u \in T : t <= u
  <2> HIDE DEF T
  <2> QED BY <1>1, LeastNatural
<1>3. PICK i \in I : t = n - i
  OBVIOUS
<1>4. ASSUME NEW j \in I PROVE j <= i
  <2>1. n - i <= n - j
    BY <1>2, <1>3
  <2> QED BY <2>1
<1> QED BY <1>3, <1>4 DEF Max

LEMMA NothingInIt ==
  ASSUME NEW S, NEW s \in Seq(S), \A i \in DOMAIN s : FALSE
  PROVE  s = <<>>
<1>1. Len(s) \in Nat /\ DOMAIN s = 1 .. Len(s)
  OBVIOUS
<1>2. Len(s) = 0
  BY <1>1
<1> QED BY <1>2

\* A part of a list has elements of the list only.
LEMMA PartOf ==
  ASSUME NEW S, NEW s \in Seq(S), NEW I
  PROVE  /\ Subsequence(s, I) \in Seq(S)
         /\ \A e \in Range(Subsequence(s, I)) : \E i \in DOMAIN s : i \in I /\ e = s[i]
         /\ \A i \in DOMAIN s : i \in I => s[i] \in Range(Subsequence(s, I))
  BY SubsequenceFacts DEF Range

LEMMA AsSequence ==
  ASSUME NEW S, NEW n \in Nat, NEW f \in [1 .. n -> S]
  PROVE  f \in Seq(S) /\ Len(f) = n /\ DOMAIN f = 1 .. n
  OBVIOUS

LEMMA ConcatRange ==
  ASSUME NEW S, NEW s \in Seq(S), NEW r \in Seq(S)
  PROVE  s \o r \in Seq(S) /\ Range(s \o r) = Range(s) \cup Range(r)
<1>1. /\ s \o r \in Seq(S) /\ Len(s \o r) = Len(s) + Len(r)
      /\ Len(s) \in Nat /\ Len(r) \in Nat
      /\ DOMAIN s = 1 .. Len(s) /\ DOMAIN r = 1 .. Len(r) /\ DOMAIN (s \o r) = 1 .. Len(s) + Len(r)
  OBVIOUS
<1>2. \A i \in 1 .. Len(s) : i \in DOMAIN (s \o r) /\ (s \o r)[i] = s[i]
  BY <1>1
<1>3. \A i \in 1 .. Len(r) : Len(s) + i \in DOMAIN (s \o r) /\ (s \o r)[Len(s) + i] = r[i]
  BY <1>1
<1>4. ASSUME NEW i \in DOMAIN (s \o r)
      PROVE  \/ i \in 1 .. Len(s) /\ (s \o r)[i] = s[i]
             \/ i - Len(s) \in 1 .. Len(r) /\ (s \o r)[i] = r[i - Len(s)]
  BY <1>1
<1>5. ASSUME NEW e \in Range(s \o r) PROVE e \in Range(s) \cup Range(r)
  <2>1. PICK i \in DOMAIN (s \o r) : e = (s \o r)[i]
    BY DEF Range
  <2> QED BY <2>1, <1>1, <1>4 DEF Range
<1>6. ASSUME NEW e \in Range(s) PROVE e \in Range(s \o r)
  BY <1>1, <1>2 DEF Range
<1>7. ASSUME NEW e \in Range(r) PROVE e \in Range(s \o r)
  <2>1. PICK i \in 1 .. Len(r) : e = r[i]
    BY <1>1 DEF Range
  <2>2. e = (s \o r)[Len(s) + i] /\ Len(s) + i \in DOMAIN (s \o r)
    BY <2>1, <1>3
  <2> HIDE DEF Range
  <2> QED BY <2>2 DEF Range
<1> QED BY <1>1, <1>5, <1>6, <1>7

-----------------------------------------------------------------------------
(* The provider list of a submission.                                      *)

LEMMA CardsType ==
  ASSUME NEW entries \in Seq(Entry), NEW masked \in BOOLEAN
  PROVE  /\ Cards(entries, masked) \in Seq(ProviderCard)
         /\ DOMAIN Cards(entries, masked) = DOMAIN entries
         /\ \A i \in DOMAIN entries :
              /\ Cards(entries, masked)[i].provider = entries[i].provider
              /\ Cards(entries, masked)[i].at = entries[i].at
              /\ masked => Cards(entries, masked)[i].key \in {Blank, Mask}
              /\ ~masked => Cards(entries, masked)[i].key = entries[i].key
<1> DEFINE cs == Cards(entries, masked)
<1>1. DOMAIN entries = 1 .. Len(entries) /\ Len(entries) \in Nat
  OBVIOUS
<1>2. ASSUME NEW i \in DOMAIN entries
      PROVE  /\ cs[i] = [provider |-> entries[i].provider, at |-> entries[i].at,
                         key |-> IF masked THEN MaskOrEmpty(entries[i].key) ELSE entries[i].key,
                         off |-> {entries[i].off}, tag |-> entries[i].tag]
             /\ cs[i] \in ProviderCard
  <2>1. entries[i] \in Entry
    OBVIOUS
  <2>2. MaskOrEmpty(entries[i].key) \in Text
    BY DEF MaskOrEmpty, Text
  <2>3. {entries[i].off} \in Option(BOOLEAN)
    BY <2>1 DEF Option, Entry
  <2>4. cs[i] = [provider |-> entries[i].provider, at |-> entries[i].at,
                 key |-> IF masked THEN MaskOrEmpty(entries[i].key) ELSE entries[i].key,
                 off |-> {entries[i].off}, tag |-> entries[i].tag]
    BY DEF Cards
  <2> QED BY <2>1, <2>2, <2>3, <2>4 DEF Entry, ProviderCard
<1>3. cs \in [1 .. Len(entries) -> ProviderCard]
  BY <1>1, <1>2 DEF Cards
<1>4. cs \in Seq(ProviderCard) /\ DOMAIN cs = DOMAIN entries
  BY <1>1, <1>3, AsSequence
<1> QED BY <1>2, <1>4 DEF MaskOrEmpty

LEMMA FromAppConfigType ==
  ASSUME NEW entries \in Seq(Entry), NEW cap \in Nat
  PROVE  /\ FromAppConfig(entries, cap) \in UiConfig
         /\ Masked(FromAppConfig(entries, cap))
         /\ FromAppConfig(entries, cap).token = Blank
         /\ FromAppConfig(entries, cap).cap = cap
<1> DEFINE named == {i \in DOMAIN entries : entries[i].provider = "openai"}
           at == IF named # {} THEN Max(named) ELSE 1
           u == FromAppConfig(entries, cap)
<1>1. entries # <<>> => entries[at] \in Entry
  <2>1. named # {} => Max(named) \in DOMAIN entries
    <3>1. named \in SUBSET (1 .. Len(entries)) /\ Len(entries) \in Nat /\ DOMAIN entries = 1 .. Len(entries)
      OBVIOUS
    <3> HIDE DEF named
    <3> QED BY <3>1, MaxOf
  <2> QED BY <2>1
<1>2. /\ u.primary = IF entries = <<>> THEN Blank ELSE entries[at].provider
      /\ u.skey = IF entries = <<>> THEN Blank ELSE MaskOrEmpty(entries[at].key)
      /\ u.at = IF entries = <<>> THEN Blank ELSE entries[at].at
      /\ u.tag = IF entries = <<>> THEN 0 ELSE entries[at].tag
      /\ u.providers = Cards(entries, TRUE) /\ u.token = Blank /\ u.cap = cap
      /\ u = [primary |-> u.primary, skey |-> u.skey, at |-> u.at, tag |-> u.tag,
              providers |-> u.providers, token |-> u.token, cap |-> u.cap]
  BY DEF FromAppConfig
<1> HIDE DEF at, u
<1>3. u \in UiConfig
  <2>1. entries # <<>> => /\ entries[at].provider \in Text /\ entries[at].at \in Text
                          /\ entries[at].tag \in Nat
    BY <1>1 DEF Entry
  <2>2. u.primary \in Text /\ u.at \in Text /\ u.tag \in Nat
    BY <2>1, <1>2 DEF Text
  <2>3. u.skey \in Text
    BY <1>2 DEF MaskOrEmpty, Text
  <2>4. u.providers \in Seq(ProviderCard) /\ u.token \in Text /\ u.cap \in Nat
    BY <1>2, CardsType DEF Text
  <2> QED BY <2>2, <2>3, <2>4, <1>2 DEF UiConfig
<1>4. Masked(u)
  <2>1. ASSUME NEW i \in DOMAIN u.providers PROVE IsBlankOrMasked(u.providers[i].key)
    BY <1>2, CardsType DEF IsBlankOrMasked
  <2> QED BY <2>1, <1>2 DEF Masked, Some, MaskOrEmpty
<1> QED BY <1>2, <1>3, <1>4 DEF u

LEMMA StoredForIn ==
  ASSUME NEW stored \in Seq(Entry), NEW i, NEW provider, NEW at
  PROVE  \A e \in StoredFor(stored, i, provider, at) :
           e \in Range(stored) /\ e \in Entry /\ e.provider = provider /\ e.at = at
  BY DEF StoredFor, Range

LEMMA LegacyRefIn ==
  ASSUME NEW stored \in Seq(Entry), NEW at
  PROVE  \A e \in LegacyRef(stored, at) :
           e \in Range(stored) /\ e \in Entry /\ e.provider = "openai"
<1>1. \A e \in StoredFor(stored, NoIndex, "openai", at) :
        e \in Range(stored) /\ e \in Entry /\ e.provider = "openai"
  BY StoredForIn
<1> QED BY <1>1 DEF LegacyRef, Range

LEMMA ResolveKeyIn ==
  ASSUME NEW submitted \in Text, NEW kept \in SUBSET Entry
  PROVE  /\ ResolveKey(submitted, kept) \in Text
         /\ \/ ~IsBlankOrMasked(submitted) /\ ResolveKey(submitted, kept) = submitted
            \/ ResolveKey(submitted, kept) = Blank
            \/ \E e \in kept : ResolveKey(submitted, kept) = e.key
<1>1. \/ OrElse({e.key : e \in kept}, Blank) = Blank
      \/ \E e \in kept : OrElse({x.key : x \in kept}, Blank) = e.key
  <2> DEFINE keys == {e.key : e \in kept}
  <2>1. OrElse(keys, Blank) = Blank \/ OrElse(keys, Blank) \in keys
    <3> HIDE DEF keys
    <3> QED BY OrElseOf
  <2> QED BY <2>1
<1>2. \A e \in kept : e.key \in Text
  BY DEF Entry
<1> QED BY <1>1, <1>2 DEF ResolveKey, Text

LEMMA ResolveDisabledType ==
  ASSUME NEW submitted \in SUBSET BOOLEAN, NEW kept \in SUBSET Entry
  PROVE  ResolveDisabled(submitted, kept) \in BOOLEAN
<1>1. OrElse({e.off : e \in kept}, FALSE) \in BOOLEAN
  <2>1. \A e \in kept : e.off \in BOOLEAN
    BY DEF Entry
  <2> DEFINE offs == {e.off : e \in kept}
  <2>2. OrElse(offs, FALSE) = FALSE \/ OrElse(offs, FALSE) \in offs
    <3> HIDE DEF offs
    <3> QED BY OrElseOf
  <2> QED BY <2>1, <2>2
<1>2. \/ OrElse(submitted, OrElse({e.off : e \in kept}, FALSE)) \in submitted
      \/ OrElse(submitted, OrElse({e.off : e \in kept}, FALSE)) = OrElse({e.off : e \in kept}, FALSE)
  BY OrElseOf
<1> QED BY <1>1, <1>2 DEF ResolveDisabled

LEMMA LegacyConsumedIn ==
  ASSUME NEW body \in UiConfig
  PROVE  LegacyConsumed(body) = NoIndex \/ LegacyConsumed(body) \in DOMAIN body.providers
<1>1. body.providers \in Seq(ProviderCard)
  BY DEF UiConfig
<1>2. DOMAIN body.providers = 1 .. Len(body.providers) /\ Len(body.providers) \in Nat
  BY <1>1
<1>3. \A I \in SUBSET (DOMAIN body.providers) : I # {} => Min(I) \in DOMAIN body.providers
  BY <1>2, MinOf
<1> QED BY <1>3 DEF LegacyConsumed

LEMMA LegacyEntryType ==
  ASSUME NEW body \in UiConfig, NEW stored \in Seq(Entry)
  PROVE  /\ LegacyEntry(body, stored) \in Entry
         /\ LegacyEntry(body, stored).provider = "openai"
         /\ LegacyEntry(body, stored).key = ResolveKey(body.skey, LegacyRef(stored, body.at))
<1> DEFINE ref == LegacyRef(stored, body.at)
           consumed == LegacyConsumed(body)
           spoken == IF consumed = NoIndex THEN {} ELSE body.providers[consumed].off
           e == LegacyEntry(body, stored)
<1>1. ref \in SUBSET Entry
  BY LegacyRefIn
<1>2. body.skey \in Text /\ body.at \in Text /\ body.tag \in Nat /\ body.providers \in Seq(ProviderCard)
  BY DEF UiConfig
<1>3. spoken \in SUBSET BOOLEAN
  <2>1. CASE consumed = NoIndex
    BY <2>1
  <2>2. CASE consumed # NoIndex
    <3>1. body.providers[consumed] \in ProviderCard
      BY <1>2, <2>2, LegacyConsumedIn
    <3> QED BY <3>1, <2>2 DEF ProviderCard, Option
  <2> QED BY <2>1, <2>2
<1>4. ResolveDisabled(spoken, ref) \in BOOLEAN
  BY <1>1, <1>3, ResolveDisabledType
<1>5. ResolveKey(body.skey, ref) \in Text
  BY <1>1, <1>2, ResolveKeyIn
<1>6. OrElse({x.at : x \in ref}, Blank) \in Text
  <2>1. \A x \in ref : x.at \in Text
    BY <1>1 DEF Entry
  <2> DEFINE ats == {x.at : x \in ref}
  <2>2. OrElse(ats, Blank) = Blank \/ OrElse(ats, Blank) \in ats
    <3> HIDE DEF ats
    <3> QED BY OrElseOf
  <2> QED BY <2>1, <2>2 DEF Text
<1>7. e = [provider |-> "openai",
           at |-> IF body.at # Blank THEN body.at ELSE OrElse({x.at : x \in ref}, Blank),
           key |-> ResolveKey(body.skey, ref), off |-> ResolveDisabled(spoken, ref), tag |-> body.tag]
  BY DEF LegacyEntry
<1> HIDE DEF ref, spoken, e
<1>8. e \in Entry /\ e.provider = "openai" /\ e.key = ResolveKey(body.skey, ref)
  BY <1>2, <1>4, <1>5, <1>6, <1>7 DEF Entry, Text
<1> QED BY <1>8 DEF e, ref

LEMMA ResolvedCardType ==
  ASSUME NEW body \in UiConfig, NEW stored \in Seq(Entry), NEW i \in DOMAIN body.providers
  PROVE  LET p == body.providers[i]
             e == ResolvedCard(body, stored, i)
         IN  /\ e \in Entry /\ e.provider = p.provider /\ e.at = p.at
             /\ \/ e.key = p.key /\ ~IsBlankOrMasked(p.key)
                \/ e.key = Blank
                \/ \E x \in Range(stored) : e.key = x.key /\ x.provider = p.provider /\ x.at = p.at
<1> DEFINE p == body.providers[i]
           kept == IF p.provider = Blank THEN {} ELSE StoredFor(stored, i, p.provider, p.at)
           e == ResolvedCard(body, stored, i)
<1>1. p \in ProviderCard
  BY DEF UiConfig
<1>2. kept \in SUBSET Entry /\ \A x \in kept : x \in Range(stored) /\ x.provider = p.provider /\ x.at = p.at
  BY StoredForIn
<1>3. ResolveKey(p.key, kept) \in Text /\ ResolveDisabled(p.off, kept) \in BOOLEAN
  BY <1>1, <1>2, ResolveKeyIn, ResolveDisabledType DEF ProviderCard, Option
<1>4. e = [provider |-> p.provider, at |-> p.at,
           key |-> IF p.provider = Blank THEN Blank ELSE ResolveKey(p.key, kept),
           off |-> ResolveDisabled(p.off, kept), tag |-> p.tag]
  BY DEF ResolvedCard
<1>5. \/ ResolveKey(p.key, kept) = p.key /\ ~IsBlankOrMasked(p.key)
      \/ ResolveKey(p.key, kept) = Blank
      \/ \E x \in kept : ResolveKey(p.key, kept) = x.key
  BY <1>1, <1>2, ResolveKeyIn DEF ProviderCard
<1> HIDE DEF p, kept, e
<1>6. e \in Entry /\ e.provider = p.provider /\ e.at = p.at
  BY <1>1, <1>3, <1>4 DEF Entry, ProviderCard, Text
<1>7. \/ e.key = p.key /\ ~IsBlankOrMasked(p.key)
      \/ e.key = Blank
      \/ \E x \in Range(stored) : e.key = x.key /\ x.provider = p.provider /\ x.at = p.at
  BY <1>2, <1>4, <1>5
<1> QED BY <1>6, <1>7 DEF p, e
\* Every entry of the new list is what the mirror or one card resolves to, and has a key.
LEMMA NewLlmConfigsType ==
  ASSUME NEW body \in UiConfig, NEW stored \in Seq(Entry), NEW stated \in BOOLEAN
  PROVE  /\ Resolved(body, stored, stated) \in Seq(Entry)
         /\ NewLlmConfigs(body, stored, stated) \in Seq(Entry)
         /\ \A e \in Range(NewLlmConfigs(body, stored, stated)) :
              /\ e \in Entry /\ e.key # Blank
              /\ \/ stated /\ e = LegacyEntry(body, stored)
                 \/ \E i \in DOMAIN body.providers : e = ResolvedCard(body, stored, i)
<1> DEFINE applies == LegacyApplies(body, stored, stated)
           cards == Resolved(body, stored, stated)
           n == Len(body.providers)
           legacy == LegacyEntry(body, stored)
           listed == [i \in DOMAIN cards |-> IF applies /\ i = LegacyConsumed(body) THEN NoEntry ELSE cards[i]]
           kept == Subsequence(listed, {i \in DOMAIN listed : listed[i].key # Blank})
           front == IF applies THEN <<legacy>> ELSE <<>>
<1>1. body.providers \in Seq(ProviderCard) /\ n \in Nat /\ DOMAIN body.providers = 1 .. n
  BY DEF UiConfig
<1>2. legacy \in Entry
  BY LegacyEntryType
<1>3. \A i \in DOMAIN body.providers : ResolvedCard(body, stored, i) \in Entry
  BY ResolvedCardType
<1>4. /\ cards \in [1 .. n -> Entry]
      /\ \A i \in 1 .. n : (cards[i] = legacy /\ applies /\ i = LegacyConsumed(body))
                           \/ cards[i] = ResolvedCard(body, stored, i)
  BY <1>1, <1>2, <1>3 DEF Resolved
<1>5. cards \in Seq(Entry) /\ DOMAIN cards = 1 .. n
  BY <1>1, <1>4, AsSequence
<1>6. NoEntry \in Entry /\ NoEntry.key = Blank
  BY DEF NoEntry, Entry, Text
<1>7. listed \in Seq(Entry) /\ DOMAIN listed = 1 .. n
  <2>1. listed \in [1 .. n -> Entry]
    <3> HIDE DEF cards, applies
    <3> QED BY <1>4, <1>6, <1>5
  <2> QED BY <2>1, <1>1, AsSequence
<1>8. /\ kept \in Seq(Entry)
      /\ \A e \in Range(kept) : e \in Entry /\ e.key # Blank /\ \E i \in 1 .. n : e = ResolvedCard(body, stored, i)
  <2>1. /\ kept \in Seq(Entry)
        /\ \A e \in Range(kept) : \E i \in DOMAIN listed : listed[i].key # Blank /\ e = listed[i]
    <3> HIDE DEF listed
    <3>1. /\ kept \in Seq(Entry)
          /\ \A e \in Range(kept) : \E i \in DOMAIN listed :
               i \in {j \in DOMAIN listed : listed[j].key # Blank} /\ e = listed[i]
      BY <1>7, PartOf
    <3> QED BY <3>1
  <2>2. ASSUME NEW i \in 1 .. n, listed[i].key # Blank PROVE listed[i] = ResolvedCard(body, stored, i)
    <3>1. listed[i] = IF applies /\ i = LegacyConsumed(body) THEN NoEntry ELSE cards[i]
      BY <1>5
    <3> HIDE DEF listed, cards, applies, legacy
    <3>2. ~(applies /\ i = LegacyConsumed(body)) /\ listed[i] = cards[i]
      BY <3>1, <2>2, <1>6
    <3> QED BY <3>2, <1>4
  <2> HIDE DEF kept
  <2>3. \A e \in Range(kept) : e \in Entry
    BY <2>1 DEF Range
  <2> HIDE DEF listed
  <2> QED BY <2>1, <2>2, <2>3, <1>7
<1>9. NewLlmConfigs(body, stored, stated) = front \o kept
  BY DEF NewLlmConfigs
<1>10. front \in Seq(Entry) /\ \A e \in Range(front) : applies /\ e = legacy
  BY <1>2 DEF Range
<1>11. applies => stated /\ legacy.key # Blank
  BY DEF LegacyApplies
<1> HIDE DEF front, kept, applies, legacy, listed
<1>12. front \o kept \in Seq(Entry) /\ Range(front \o kept) = Range(front) \cup Range(kept)
  BY <1>8, <1>10, ConcatRange
<1> QED BY <1>1, <1>2, <1>5, <1>8, <1>9, <1>10, <1>11, <1>12 DEF legacy
LEMMA EnabledPrimaryType ==
  ASSUME NEW primary \in Text, NEW entries \in Seq(Entry)
  PROVE  EnabledPrimary(primary, entries) \in Text
<1> DEFINE on == {i \in DOMAIN entries : ~entries[i].off}
<1>1. on \in SUBSET (1 .. Len(entries)) /\ Len(entries) \in Nat /\ DOMAIN entries = 1 .. Len(entries)
  OBVIOUS
<1>2. on # {} => entries[Min(on)].provider \in Text
  <2>1. on # {} => Min(on) \in on
    <3> HIDE DEF on
    <3> QED BY <1>1, MinOf
  <2>2. \A i \in on : entries[i] \in Entry
    OBVIOUS
  <2> QED BY <2>1, <2>2 DEF Entry
<1>3. \/ EnabledPrimary(primary, entries) = primary
      \/ on # {} /\ EnabledPrimary(primary, entries) = entries[Min(on)].provider
      \/ EnabledPrimary(primary, entries) = Blank
  BY DEF EnabledPrimary, Some, First
<1> QED BY <1>2, <1>3 DEF Text

LEMMA WriteBackType ==
  ASSUME NEW body \in UiConfig, NEW stored \in Seq(Entry), NEW stated \in BOOLEAN
  PROVE  LET u == WriteBack(body, stored, stated)
         IN  u \in UiConfig /\ u.skey \in {Blank, Mask} /\ u.token = body.token
             /\ \A i \in DOMAIN u.providers : u.providers[i].key \in {Blank, Mask}
<1> DEFINE u == WriteBack(body, stored, stated)
           new == NewLlmConfigs(body, stored, stated)
           cards == Resolved(body, stored, stated)
           sk == IF Some(new, LAMBDA e : e.provider = IF body.primary = Blank THEN "openai" ELSE body.primary)
                 THEN Mask ELSE Blank
           ep == EnabledPrimary(body.primary, new)
<1>1. u = [body EXCEPT !.skey = sk, !.providers = Cards(cards, TRUE), !.primary = ep]
  BY DEF WriteBack
<1>2. new \in Seq(Entry) /\ cards \in Seq(Entry)
  BY NewLlmConfigsType
<1>3. body.primary \in Text /\ body.skey \in Text
  BY DEF UiConfig
<1>4. ep \in Text
  BY <1>2, <1>3, EnabledPrimaryType
<1>5. sk \in {Blank, Mask} /\ sk \in Text
  BY DEF Text
<1>6. /\ Cards(cards, TRUE) \in Seq(ProviderCard)
      /\ \A i \in DOMAIN Cards(cards, TRUE) : Cards(cards, TRUE)[i].key \in {Blank, Mask}
  BY <1>2, CardsType
<1> DEFINE ps == Cards(cards, TRUE)
<1> HIDE DEF u, sk, ep, ps
<1>7. u \in UiConfig /\ u.skey = sk /\ u.token = body.token /\ u.providers = ps
  BY <1>1, <1>4, <1>5, <1>6 DEF UiConfig, ps
<1> QED BY <1>5, <1>6, <1>7 DEF u, ps

LEMMA PrimaryEntryIn ==
  ASSUME NEW primary, NEW saved \in Seq(Entry)
  PROVE  PrimaryEntry(primary, saved) = NoIndex \/ PrimaryEntry(primary, saved) \in DOMAIN saved
<1>1. DOMAIN saved = 1 .. Len(saved) /\ Len(saved) \in Nat
  OBVIOUS
<1>2. \A I \in SUBSET (DOMAIN saved) : I # {} => Min(I) \in DOMAIN saved
  BY <1>1, MinOf
<1> QED BY <1>2 DEF PrimaryEntry

LEMMA SyncLlmProjectionType ==
  ASSUME NEW u \in UiConfig, NEW saved \in Seq(Entry)
  PROVE  LET v == SyncLlmProjection(u, saved)
         IN  v \in UiConfig /\ v.skey \in {Blank, Mask} /\ v.providers = u.providers /\ v.cap = u.cap
<1> DEFINE head == PrimaryEntry(u.primary, saved)
           at == IF head = NoIndex THEN 1 ELSE head
           v == SyncLlmProjection(u, saved)
<1>1. saved # <<>> => at \in DOMAIN saved
  BY PrimaryEntryIn
<1>2. saved # <<>> => /\ saved[at].at \in Text /\ saved[at].tag \in Nat
                      /\ (IF head = NoIndex THEN Blank ELSE saved[head].provider) \in Text
  <2>1. saved # <<>> => saved[at] \in Entry
    BY <1>1
  <2> QED BY <2>1 DEF Entry, Text
<1>3. CASE saved = <<>>
  <2>1. v = [u EXCEPT !.skey = Blank]
    BY <1>3 DEF SyncLlmProjection
  <2> QED BY <2>1 DEF UiConfig, Text
<1>4. CASE saved # <<>>
  <2> DEFINE key == IF Some(saved, LAMBDA e : e.provider = "openai") THEN Mask ELSE Blank
             named == IF head = NoIndex THEN Blank ELSE saved[head].provider
  <2>1. v = [u EXCEPT !.primary = named, !.at = saved[at].at, !.tag = saved[at].tag, !.skey = key]
    BY <1>4 DEF SyncLlmProjection
  <2>2. key \in {Blank, Mask} /\ key \in Text
    BY DEF Text
  <2>3. named \in Text /\ saved[at].at \in Text /\ saved[at].tag \in Nat
    BY <1>2, <1>4
  <2> HIDE DEF key, named, at
  <2> QED BY <2>1, <2>2, <2>3 DEF UiConfig
<1> QED BY <1>3, <1>4

LEMMA ReplayLlmType ==
  ASSUME NEW u \in UiConfig, NEW saved \in Seq(Entry)
  PROVE  LET v == ReplayLlm(u, saved)
         IN  /\ v.providers = Cards(saved, FALSE)
             /\ v.at \in Text /\ v.tag \in Nat /\ v.primary \in Text /\ v.skey \in Text
             /\ v.skey = Blank \/ \E e \in Range(saved) : e.provider = "openai" /\ v.skey = e.key
<1> DEFINE head == PrimaryEntry(u.primary, saved)
           v == ReplayLlm(u, saved)
<1>1. head # NoIndex => saved[head] \in Entry
  BY PrimaryEntryIn
<1>2. /\ v.primary = IF head = NoIndex THEN u.primary ELSE saved[head].provider
      /\ v.at = IF head = NoIndex THEN u.at ELSE saved[head].at
      /\ v.tag = IF head = NoIndex THEN u.tag ELSE saved[head].tag
      /\ v.skey = FirstOpenAiKey(saved) /\ v.providers = Cards(saved, FALSE)
  BY DEF ReplayLlm, UiConfig
<1>3. v.primary \in Text /\ v.at \in Text /\ v.tag \in Nat
  BY <1>1, <1>2 DEF UiConfig, Entry
<1>4. FirstOpenAiKey(saved) = Blank \/ \E e \in Range(saved) : e.provider = "openai" /\ FirstOpenAiKey(saved) = e.key
  <2> DEFINE ours == {i \in DOMAIN saved : saved[i].provider = "openai"}
  <2>1. ours \in SUBSET (1 .. Len(saved)) /\ Len(saved) \in Nat /\ DOMAIN saved = 1 .. Len(saved)
    OBVIOUS
  <2>2. ours # {} => Min(ours) \in ours
    <3> HIDE DEF ours
    <3> QED BY <2>1, MinOf
  <2>3. FirstOpenAiKey(saved) = IF ours # {} THEN saved[Min(ours)].key ELSE Blank
    BY DEF FirstOpenAiKey, Some, First
  <2> QED BY <2>2, <2>3 DEF Range
<1>5. v.skey \in Text
  <2>1. \A e \in Range(saved) : e.key \in Text
    <3>1. \A i \in DOMAIN saved : saved[i] \in Entry
      OBVIOUS
    <3> QED BY <3>1 DEF Range, Entry
  <2> QED BY <2>1, <1>2, <1>4 DEF Text
<1> QED BY <1>2, <1>3, <1>4, <1>5

LEMMA DropEnvEntriesType ==
  ASSUME NEW entries \in Seq(Entry), NEW env \in Seq(Entry)
  PROVE  /\ DropEnvEntries(entries, env) \in Seq(Entry)
         /\ \A e \in Range(DropEnvEntries(entries, env)) : e \in Range(entries) /\ ~IsEnvDerivedLlm(e, env)
<1> DEFINE I == {i \in DOMAIN entries : ~IsEnvDerivedLlm(entries[i], env)}
<1>1. /\ DropEnvEntries(entries, env) \in Seq(Entry)
      /\ \A e \in Range(DropEnvEntries(entries, env)) : \E i \in DOMAIN entries : i \in I /\ e = entries[i]
  <2>1. DropEnvEntries(entries, env) = Subsequence(entries, I)
    BY DEF DropEnvEntries
  <2> HIDE DEF I
  <2> QED BY <2>1, PartOf
<1> QED BY <1>1 DEF Range

LEMMA OrderedLlmConfigsType ==
  ASSUME NEW primary, NEW entries \in Seq(Entry)
  PROVE  /\ OrderedLlmConfigs(primary, entries) \in Seq(Entry)
         /\ Range(OrderedLlmConfigs(primary, entries)) \subseteq Range(entries)
<1> DEFINE I == {i \in DOMAIN entries : ~entries[i].off}
           on == Subsequence(entries, I)
           head == {i \in DOMAIN on : on[i].provider = primary}
           m == Min(head)
           all == OrderedLlmConfigs(primary, entries)
<1>1. on \in Seq(Entry) /\ Range(on) \subseteq Range(entries)
  <2> HIDE DEF I
  <2>1. on \in Seq(Entry) /\ \A e \in Range(on) : \E i \in DOMAIN entries : i \in I /\ e = entries[i]
    BY PartOf
  <2> QED BY <2>1 DEF Range
<1>2. all = IF head = {} THEN on ELSE (<<on[m]>> \o (SubSeq(on, 1, m - 1) \o SubSeq(on, m + 1, Len(on))))
  BY DEF OrderedLlmConfigs
<1> HIDE DEF on, all
<1>3. CASE head = {}
  BY <1>1, <1>2, <1>3 DEF all
<1>4. CASE head # {}
  <2>1. m \in DOMAIN on /\ DOMAIN on = 1 .. Len(on) /\ Len(on) \in Nat
    <3>1. head \in SUBSET (1 .. Len(on)) /\ Len(on) \in Nat /\ DOMAIN on = 1 .. Len(on)
      BY <1>1
    <3>2. m \in head
      <4> HIDE DEF head
      <4> QED BY <3>1, <1>4, MinOf
    <3> QED BY <3>1, <3>2
  <2> HIDE DEF m, head
  <2>2. <<on[m]>> \in Seq(Entry) /\ Range(<<on[m]>>) \subseteq Range(on)
    BY <1>1, <2>1 DEF Range
  <2>3. SubSeq(on, 1, m - 1) \in Seq(Entry) /\ Range(SubSeq(on, 1, m - 1)) \subseteq Range(on)
    BY <1>1, <2>1 DEF Range
  <2>4. SubSeq(on, m + 1, Len(on)) \in Seq(Entry) /\ Range(SubSeq(on, m + 1, Len(on))) \subseteq Range(on)
    BY <1>1, <2>1 DEF Range
  <2> DEFINE a == <<on[m]>>
             b == SubSeq(on, 1, m - 1)
             c == SubSeq(on, m + 1, Len(on))
  <2> HIDE DEF a, b, c
  <2>5. b \o c \in Seq(Entry) /\ Range(b \o c) = Range(b) \cup Range(c)
    <3>1. b \in Seq(Entry) /\ c \in Seq(Entry)
      BY <2>3, <2>4 DEF b, c
    <3> QED BY <3>1, ConcatRange
  <2>6. a \o (b \o c) \in Seq(Entry) /\ Range(a \o (b \o c)) = Range(a) \cup Range(b \o c)
    <3>1. a \in Seq(Entry)
      BY <2>2 DEF a
    <3>2. b \o c \in Seq(Entry)
      BY <2>5
    <3> DEFINE bc == b \o c
    <3>3. bc \in Seq(Entry)
      BY <3>2
    <3> HIDE DEF bc
    <3>4. a \o bc \in Seq(Entry) /\ Range(a \o bc) = Range(a) \cup Range(bc)
      BY <3>1, <3>3, ConcatRange
    <3> QED BY <3>4 DEF bc
  <2>7. all = a \o (b \o c)
    BY <1>2, <1>4 DEF a, b, c
  <2> QED BY <1>1, <2>2, <2>3, <2>4, <2>5, <2>6, <2>7 DEF a, b, c, all
<1> QED BY <1>3, <1>4
-----------------------------------------------------------------------------
(* Applying a request: what the result is, and what it may hold.           *)

\* A projection whose cards and mirror are masked; its token may be a submitted one.
HidesKeys(u) == /\ u.skey \in {Blank, Mask}
                /\ \A i \in DOMAIN u.providers : IsBlankOrMasked(u.providers[i].key)

LEMMA MaskedIs ==
  ASSUME NEW u
  PROVE  Masked(u) <=> HidesKeys(u) /\ u.token \in {Blank, Mask}
  BY DEF Masked, HidesKeys, Some

LEMMA OptionOf ==
  ASSUME NEW S, NEW o \in Option(S), NEW d
  PROVE  /\ OrElse(o, d) \in S \cup {d}
         /\ o = {} => OrElse(o, d) = d
         /\ o # {} => OrElse(o, d) \in o
  BY OrElseOf DEF Option

LEMMA MergedType ==
  ASSUME NEW u \in UiConfig, NEW req \in Request
  PROVE  LET m == Merged(u, req)
         IN  /\ m \in UiConfig
             /\ m.providers = OrElse(req.providers, u.providers)
             /\ m.skey = OrElse({s.skey : s \in req.scalars}, u.skey)
             /\ m.token = OrElse(req.token, u.token) /\ m.cap = OrElse(req.cap, u.cap)
<1> DEFINE skeys == {s.skey : s \in req.scalars}
           ats == {s.at : s \in req.scalars}
           tags == {s.tag : s \in req.scalars}
           ps == OrElse(req.providers, u.providers)
           sk == OrElse(skeys, u.skey)
           at == OrElse(ats, u.at)
           tag == OrElse(tags, u.tag)
           pr == OrElse(req.primary, u.primary)
           tk == OrElse(req.token, u.token)
           cp == OrElse(req.cap, u.cap)
<1>1. Merged(u, req) = [u EXCEPT !.providers = ps, !.skey = sk, !.at = at, !.tag = tag,
                                 !.primary = pr, !.token = tk, !.cap = cp]
  BY DEF Merged
<1>2. /\ u.providers \in Seq(ProviderCard) /\ u.skey \in Text /\ u.at \in Text /\ u.tag \in Nat
      /\ u.primary \in Text /\ u.token \in Text /\ u.cap \in Nat
  BY DEF UiConfig
<1>3. \A s \in req.scalars : s.skey \in Text /\ s.at \in Text /\ s.tag \in Nat
  BY DEF Request, Option, LegacyScalars
<1>4. skeys \subseteq Text /\ ats \subseteq Text /\ tags \subseteq Nat
  BY <1>3
<1> HIDE DEF skeys, ats, tags
<1>5. sk \in Text /\ at \in Text /\ tag \in Nat
  <2>1. sk = u.skey \/ sk \in skeys
    BY OrElseOf
  <2>2. at = u.at \/ at \in ats
    BY OrElseOf
  <2>3. tag = u.tag \/ tag \in tags
    BY OrElseOf
  <2> QED BY <2>1, <2>2, <2>3, <1>2, <1>4
<1>6. req.providers \in Option(Seq(ProviderCard)) /\ req.primary \in Option(Text)
      /\ req.token \in Option(Text) /\ req.cap \in Option(Nat)
  BY DEF Request
<1>7. ps \in Seq(ProviderCard) /\ pr \in Text /\ tk \in Text /\ cp \in Nat
  <2>1. ps \in Seq(ProviderCard) \cup {u.providers}
    BY <1>6, OptionOf
  <2>2. pr \in Text \cup {u.primary}
    BY <1>6, OptionOf
  <2>3. tk \in Text \cup {u.token}
    BY <1>6, OptionOf
  <2>4. cp \in Nat \cup {u.cap}
    BY <1>6, OptionOf
  <2> QED BY <2>1, <2>2, <2>3, <2>4, <1>2
<1> DEFINE m == Merged(u, req)
<1> HIDE DEF ps, sk, at, tag, pr, tk, cp, m
<1>8. m \in UiConfig /\ m.providers = ps /\ m.skey = sk /\ m.token = tk /\ m.cap = cp
  BY <1>1, <1>5, <1>7 DEF UiConfig, m
<1> QED BY <1>8 DEF m, ps, sk, tk, cp, skeys

LEMMA WriteBackCap ==
  ASSUME NEW body \in UiConfig, NEW stored, NEW stated
  PROVE  WriteBack(body, stored, stated).cap = body.cap
  BY DEF WriteBack, UiConfig

LEMMA ResolveType ==
  ASSUME NEW u \in UiConfig, NEW existing \in Seq(Entry), NEW req \in Request
  PROVE  LET r == Resolve(u, existing, req)
         IN  /\ r.body \in UiConfig /\ r.new \in Seq(Entry)
             /\ HidesKeys(u) => HidesKeys(r.body)
             /\ r.body.token = OrElse(req.token, u.token)
             /\ r.body.cap = OrElse(req.cap, u.cap)
             /\ ~States(req) => r.new = existing
<1> DEFINE body == Merged(u, req)
           legacy == req.scalars # {}
           w == WriteBack(body, existing, legacy)
           n == NewLlmConfigs(body, existing, legacy)
           r == Resolve(u, existing, req)
<1>1. /\ body \in UiConfig /\ body.providers = OrElse(req.providers, u.providers)
      /\ body.skey = OrElse({s.skey : s \in req.scalars}, u.skey)
      /\ body.token = OrElse(req.token, u.token) /\ body.cap = OrElse(req.cap, u.cap)
  BY MergedType
<1>2. /\ r.body = IF States(req) THEN w ELSE body
      /\ r.new = IF States(req) THEN n ELSE existing
  BY DEF Resolve
<1>3. /\ w \in UiConfig /\ w.skey \in {Blank, Mask} /\ w.token = body.token
      /\ \A i \in DOMAIN w.providers : w.providers[i].key \in {Blank, Mask}
  <2> HIDE DEF body
  <2> QED BY <1>1, WriteBackType
<1>4. n \in Seq(Entry)
  <2> HIDE DEF body
  <2> QED BY <1>1, NewLlmConfigsType
<1>5. w.cap = body.cap
  BY <1>1, WriteBackCap
<1>6. ~States(req) => body.providers = u.providers /\ body.skey = u.skey
  <2>1. ~States(req) => req.providers = {} /\ {s.skey : s \in req.scalars} = {}
    BY DEF States
  <2> QED BY <2>1, <1>1, OrElseOne
<1> HIDE DEF body, w, n, r
<1>7. HidesKeys(u) => HidesKeys(r.body)
  BY <1>2, <1>3, <1>6 DEF HidesKeys, IsBlankOrMasked
<1>8. /\ r.body \in UiConfig /\ r.new \in Seq(Entry)
      /\ r.body.token = OrElse(req.token, u.token) /\ r.body.cap = OrElse(req.cap, u.cap)
      /\ ~States(req) => r.new = existing
  BY <1>1, <1>2, <1>3, <1>4, <1>5
<1> QED BY <1>7, <1>8 DEF r

-----------------------------------------------------------------------------
(* The accounts keys belong to.                                            *)

Known(list) == \A e \in Range(list) : KnownAccount(e)

\* What a request may name: a mask, or a key with the account it was listed for.
SpeaksOfKnown(req) ==
  /\ \A cards \in req.providers : \A i \in DOMAIN cards :
       IsBlankOrMasked(cards[i].key) \/ KnownAccount(cards[i])
  /\ \A s \in req.scalars : s.skey = Blank \/ s.skey = Mask \/ s.skey \in OpenAiKeys

LEMMA OpenAiKnown ==
  ASSUME NEW e, KnownAccount(e), e.provider = "openai"
  PROVE  e.key \in OpenAiKeys
  BY DEF KnownAccount

\* A known account is known by its provider, its endpoint and its key.
LEMMA SameAccount ==
  ASSUME NEW e, NEW f, KnownAccount(f), f.provider = e.provider, f.at = e.at, f.key = e.key
  PROVE  KnownAccount(e)
  BY DEF KnownAccount

LEMMA NewIsKnown ==
  ASSUME NEW body \in UiConfig, NEW stored \in Seq(Entry), NEW stated \in BOOLEAN, Known(stored),
         \A i \in DOMAIN body.providers : IsBlankOrMasked(body.providers[i].key) \/ KnownAccount(body.providers[i]),
         stated => IsBlankOrMasked(body.skey) \/ body.skey \in OpenAiKeys
  PROVE  Known(NewLlmConfigs(body, stored, stated))
<1>1. ASSUME NEW i \in DOMAIN body.providers, ResolvedCard(body, stored, i).key # Blank
      PROVE  KnownAccount(ResolvedCard(body, stored, i))
  <2> DEFINE p == body.providers[i]
             e == ResolvedCard(body, stored, i)
  <2>1. /\ e.provider = p.provider /\ e.at = p.at
        /\ \/ e.key = p.key /\ ~IsBlankOrMasked(p.key)
           \/ e.key = Blank
           \/ \E x \in Range(stored) : e.key = x.key /\ x.provider = p.provider /\ x.at = p.at
    BY ResolvedCardType
  <2> HIDE DEF e
  <2>2. CASE e.key = p.key /\ ~IsBlankOrMasked(p.key)
    BY <2>1, <2>2, SameAccount DEF e
  <2>3. CASE \E x \in Range(stored) : e.key = x.key /\ x.provider = p.provider /\ x.at = p.at
    BY <2>1, <2>3, SameAccount DEF Known, e
  <2> QED BY <1>1, <2>1, <2>2, <2>3 DEF e
<1>2. ASSUME stated, LegacyEntry(body, stored).key # Blank
      PROVE  KnownAccount(LegacyEntry(body, stored))
  <2> DEFINE e == LegacyEntry(body, stored)
             ref == LegacyRef(stored, body.at)
  <2>1. e.provider = "openai" /\ e.key = ResolveKey(body.skey, ref)
    BY LegacyEntryType
  <2>2. \A x \in ref : x \in Entry /\ x \in Range(stored) /\ x.provider = "openai"
    BY LegacyRefIn
  <2>3. body.skey \in Text /\ ref \in SUBSET Entry
    BY <2>2 DEF UiConfig
  <2> HIDE DEF e, ref
  <2>4. \/ e.key = body.skey /\ ~IsBlankOrMasked(body.skey)
        \/ \E x \in ref : e.key = x.key
    BY <1>2, <2>1, <2>3, ResolveKeyIn DEF e
  <2>5. e.key \in OpenAiKeys
    BY <1>2, <2>2, <2>4, OpenAiKnown DEF Known
  <2> QED BY <2>1, <2>5 DEF KnownAccount, e
<1>3. ASSUME NEW e \in Range(NewLlmConfigs(body, stored, stated)) PROVE KnownAccount(e)
  <2>1. /\ e.key # Blank
        /\ \/ stated /\ e = LegacyEntry(body, stored)
           \/ \E i \in DOMAIN body.providers : e = ResolvedCard(body, stored, i)
    BY NewLlmConfigsType
  <2>2. CASE stated /\ e = LegacyEntry(body, stored)
    BY <2>1, <2>2, <1>2
  <2>3. CASE \E i \in DOMAIN body.providers : e = ResolvedCard(body, stored, i)
    BY <2>1, <2>3, <1>1
  <2> QED BY <2>1, <2>2, <2>3
<1> QED BY <1>3 DEF Known

LEMMA ResolvedIsKnown ==
  ASSUME NEW u \in UiConfig, NEW existing \in Seq(Entry), NEW req \in Request,
         HidesKeys(u), Known(existing), SpeaksOfKnown(req)
  PROVE  Known(Resolve(u, existing, req).new)
<1> DEFINE body == Merged(u, req)
           legacy == req.scalars # {}
           skeys == {s.skey : s \in req.scalars}
<1>1. /\ body \in UiConfig /\ body.providers = OrElse(req.providers, u.providers)
      /\ body.skey = OrElse(skeys, u.skey)
  BY MergedType
<1>2. Resolve(u, existing, req).new = IF States(req) THEN NewLlmConfigs(body, existing, legacy) ELSE existing
  BY DEF Resolve
<1> HIDE DEF body
<1>3. ASSUME NEW i \in DOMAIN body.providers
      PROVE  IsBlankOrMasked(body.providers[i].key) \/ KnownAccount(body.providers[i])
  <2>1. body.providers = u.providers \/ body.providers \in req.providers
    BY <1>1, OrElseOf
  <2> QED BY <2>1 DEF HidesKeys, SpeaksOfKnown
<1>4. legacy => IsBlankOrMasked(body.skey) \/ body.skey \in OpenAiKeys
  <2>1. ASSUME legacy PROVE body.skey \in skeys
    <3>1. skeys # {}
      BY <2>1
    <3> HIDE DEF skeys
    <3> QED BY <3>1, <1>1, OrElseOf
  <2> QED BY <2>1 DEF SpeaksOfKnown, IsBlankOrMasked
<1>5. Known(NewLlmConfigs(body, existing, legacy))
  BY <1>1, <1>3, <1>4, NewIsKnown
<1> QED BY <1>2, <1>5
-----------------------------------------------------------------------------
(* The deployment, and what is saved and replayed.                         *)

LEMMA DeploymentTypes ==
  ASSUME deployment \in Deployment
  PROVE  /\ EnvEntries \in Seq(Entry) /\ ConfigLlm \in Seq(Entry)
         /\ deployment.envToken \in Text /\ deployment.db \in BOOLEAN
         /\ deployment.requests \subseteq Request /\ deployment.uiStates \subseteq UiStateFile
         /\ \A s \in deployment.uiStates : s.token # Mask /\ \A u \in s.ui : Masked(u)
         /\ FileCap \in Nat /\ FileCap > 0
  BY ConfigAssumption DEF EnvEntries, ConfigLlm

LEMMA ListedIsKnown ==
  ASSUME NEW e \in Listed
  PROVE  KnownAccount(e)
  BY DEF KnownAccount, OpenAiKeys

LEMMA DeploymentKnown ==
  /\ Known(ConfigLlm)
  /\ \A s \in deployment.uiStates : Known(s.llm)
  /\ \A req \in deployment.requests : SpeaksOfKnown(req)
<1>1. Known(ConfigLlm)
  <2>1. \A e \in Range(ConfigLlm) : e \in Listed
    BY DEF ConfigLlm, Listed
  <2> QED BY <2>1, ListedIsKnown DEF Known
<1>2. ASSUME NEW s \in deployment.uiStates PROVE Known(s.llm)
  <2>1. \A e \in Range(s.llm) : e \in Listed
    BY DEF Listed, SavedBefore
  <2> QED BY <2>1, ListedIsKnown DEF Known
<1>3. ASSUME NEW req \in deployment.requests PROVE SpeaksOfKnown(req)
  <2>1. ASSUME NEW cards \in req.providers, NEW i \in DOMAIN cards PROVE KnownAccount(cards[i])
    <3>1. cards[i] \in Range(cards)
      BY DEF Range
    <3>2. cards[i] \in SubmittedCards
      BY <3>1 DEF SubmittedCards
    <3> QED BY <3>2, ListedIsKnown DEF Listed
  <2>2. \A x \in req.scalars : x.skey \in OpenAiKeys
    BY DEF OpenAiKeys, SubmittedScalars
  <2> QED BY <2>1, <2>2 DEF SpeaksOfKnown
<1> QED BY <1>1, <1>2, <1>3

\* A key that only the environment knows is, where it is known, still with its provider:
\* is_env_derived_llm recognises it.
LEMMA EnvSecretIsDerived ==
  ASSUME NEW e, KnownAccount(e), e.key \in EnvSecrets
  PROVE  IsEnvDerivedLlm(e, EnvEntries)
<1>1. /\ e.key \notin EnteredKeys /\ e.key # Blank
      /\ EnvEntries # <<>>
  BY DEF EnvSecrets, Range
<1>2. deployment.fileLlm = <<>> /\ EnvEntries = deployment.envLlm
  BY <1>1 DEF EnvEntries
<1>3. \E p \in Listed : p.provider = e.provider /\ p.key = e.key
  <2>1. CASE e.provider = "openai"
    <3>1. e.key \in OpenAiKeys
      BY <2>1, OpenAiKnown
    <3>2. e.key \notin {x.skey : x \in SubmittedScalars}
      BY <1>1 DEF EnteredKeys
    <3> QED BY <2>1, <3>1, <3>2 DEF OpenAiKeys
  <2>2. CASE e.provider # "openai"
    BY <2>2 DEF KnownAccount
  <2> QED BY <2>1, <2>2
<1>4. PICK p \in Listed : p.provider = e.provider /\ p.key = e.key
  BY <1>3
<1>5. p \notin SubmittedCards \cup SavedBefore
  BY <1>1, <1>4 DEF EnteredKeys
<1>6. p \notin Range(deployment.fileLlm)
  BY <1>2 DEF Range
<1>7. p \in Range(EnvEntries)
  BY <1>2, <1>4, <1>5, <1>6 DEF Listed
<1> QED BY <1>1, <1>4, <1>7 DEF IsEnvDerivedLlm, Some, Range

LEMMA FromAppliedType ==
  ASSUME deployment \in Deployment,
         NEW new \in Seq(Entry), NEW token \in Text, NEW u \in UiConfig, HidesKeys(u)
  PROVE  LET s == FromApplied(new, token, u)
         IN  /\ s \in UiStateFile /\ \A v \in s.ui : Masked(v)
             /\ Known(new) => Known(s.llm) /\ \A e \in Range(s.llm) : e.key \notin EnvSecrets
             /\ s.token = IF token = deployment.envToken THEN Blank ELSE token
<1> DEFINE saved == DropEnvEntries(new, EnvEntries)
           kept == IF token = deployment.envToken THEN Blank ELSE token
           p == SyncLlmProjection(u, saved)
           v == [p EXCEPT !.token = MaskOrEmpty(kept)]
           s == FromApplied(new, token, u)
<1>1. s = [ui |-> {v}, llm |-> saved, token |-> kept]
  BY DEF FromApplied
<1>2. EnvEntries \in Seq(Entry)
  BY DeploymentTypes
<1>3. saved \in Seq(Entry) /\ \A e \in Range(saved) : e \in Range(new) /\ ~IsEnvDerivedLlm(e, EnvEntries)
  BY <1>2, DropEnvEntriesType
<1>4. p \in UiConfig /\ p.skey \in {Blank, Mask} /\ p.providers = u.providers
  <2> HIDE DEF saved
  <2> QED BY <1>3, SyncLlmProjectionType
<1>5. kept \in Text /\ MaskOrEmpty(kept) \in {Blank, Mask} /\ MaskOrEmpty(kept) \in Text
  BY DEF MaskOrEmpty, Text
<1> DEFINE masked == MaskOrEmpty(kept)
<1> HIDE DEF p, saved, kept, masked
<1>6. v \in UiConfig /\ v.skey = p.skey /\ v.providers = u.providers /\ v.token = masked
  BY <1>4, <1>5 DEF UiConfig, masked
<1>7. Masked(v)
  BY <1>4, <1>5, <1>6, MaskedIs DEF HidesKeys, masked
<1> HIDE DEF v, s
<1>8. s \in UiStateFile /\ \A w \in s.ui : Masked(w)
  <2>1. {v} \in Option(UiConfig)
    BY <1>6 DEF Option
  <2> QED BY <1>1, <1>3, <1>5, <1>7, <2>1 DEF UiStateFile
<1>9. ASSUME Known(new) PROVE Known(s.llm) /\ \A e \in Range(s.llm) : e.key \notin EnvSecrets
  <2>1. \A e \in Range(s.llm) : KnownAccount(e) /\ ~IsEnvDerivedLlm(e, EnvEntries)
    BY <1>1, <1>3, <1>9 DEF Known
  <2> QED BY <2>1, EnvSecretIsDerived DEF Known
<1> QED BY <1>1, <1>8, <1>9 DEF s, kept

LEMMA ReplayPayloadType ==
  ASSUME deployment \in Deployment, NEW s \in UiStateFile
  PROVE  LET r == ReplayPayload(s)
             token == IF s.token # Blank THEN s.token ELSE deployment.envToken
         IN  /\ r \in Request
             /\ Known(s.llm) => SpeaksOfKnown(r)
             /\ r.token = IF token # Blank THEN {token} ELSE {}
<1> DEFINE u == OrElse(s.ui, FromAppConfig(<<>>, 0))
           l == ReplayLlm(u, s.llm)
           says == EnvEntries = <<>> /\ s.llm # <<>>
           token == IF s.token # Blank THEN s.token ELSE deployment.envToken
           r == ReplayPayload(s)
           caps == {v.cap : v \in s.ui}
           sc == [skey |-> l.skey, at |-> l.at, tag |-> l.tag]
<1>1. s.ui \in Option(UiConfig) /\ s.llm \in Seq(Entry) /\ s.token \in Text
  BY DEF UiStateFile
<1>2. u \in UiConfig
  <2>1. <<>> \in Seq(Entry)
    OBVIOUS
  <2>2. FromAppConfig(<<>>, 0) \in UiConfig
    BY <2>1, FromAppConfigType
  <2> QED BY <1>1, <2>2, OptionOf
<1> HIDE DEF u
<1>3. /\ l.providers = Cards(s.llm, FALSE)
      /\ l.at \in Text /\ l.tag \in Nat /\ l.primary \in Text /\ l.skey \in Text
      /\ l.skey = Blank \/ \E e \in Range(s.llm) : e.provider = "openai" /\ l.skey = e.key
  BY <1>1, <1>2, ReplayLlmType
<1>4. r = [providers |-> IF says THEN {l.providers} ELSE {},
           scalars |-> IF says THEN {sc} ELSE {},
           primary |-> IF says THEN {l.primary} ELSE {},
           token |-> IF token # Blank THEN {token} ELSE {},
           cap |-> caps]
  BY DEF ReplayPayload, u
<1>5. l.providers \in Seq(ProviderCard)
  BY <1>1, <1>3, CardsType
<1>6. caps \in Option(Nat)
  <2>1. \A v \in s.ui : v.cap \in Nat
    BY <1>1 DEF Option, UiConfig
  <2> QED BY <1>1, <2>1 DEF Option
<1>7. sc \in LegacyScalars /\ sc.skey = l.skey
  BY <1>3 DEF LegacyScalars
<1>8. token \in Text
  BY <1>1, DeploymentTypes
<1>9. ASSUME Known(s.llm) PROVE SpeaksOfKnown(r)
  <2>1. ASSUME NEW i \in DOMAIN l.providers PROVE KnownAccount(l.providers[i])
    <3>0. /\ DOMAIN Cards(s.llm, FALSE) = DOMAIN s.llm
          /\ \A j \in DOMAIN s.llm : LET c == Cards(s.llm, FALSE)[j] IN
               c.provider = s.llm[j].provider /\ c.at = s.llm[j].at /\ c.key = s.llm[j].key
      BY <1>1, CardsType
    <3>1. /\ i \in DOMAIN s.llm /\ l.providers[i].provider = s.llm[i].provider
          /\ l.providers[i].at = s.llm[i].at /\ l.providers[i].key = s.llm[i].key
      BY <1>3, <3>0
    <3>2. KnownAccount(s.llm[i])
      BY <1>9, <3>1 DEF Known, Range
    <3> HIDE DEF l
    <3> QED BY <3>1, <3>2, SameAccount
  <2>2. l.skey = Blank \/ l.skey \in OpenAiKeys
    BY <1>3, <1>9, OpenAiKnown DEF Known
  <2> HIDE DEF l, sc, r
  <2>3. \A cards \in r.providers : cards = l.providers
    BY <1>4
  <2>4. \A x \in r.scalars : x.skey = l.skey
    BY <1>4, <1>7
  <2> QED BY <2>1, <2>2, <2>3, <2>4 DEF SpeaksOfKnown
<1> HIDE DEF l, sc, r, caps, token
<1>10. r \in Request
  <2>1. {l.providers} \in Option(Seq(ProviderCard)) /\ {} \in Option(Seq(ProviderCard))
    BY <1>5 DEF Option
  <2>2. {sc} \in Option(LegacyScalars) /\ {} \in Option(LegacyScalars)
    BY <1>7 DEF Option
  <2>3. {l.primary} \in Option(Text) /\ {token} \in Option(Text) /\ {} \in Option(Text)
    BY <1>3, <1>8 DEF Option
  <2> QED BY <1>4, <1>6, <2>1, <2>2, <2>3 DEF Request
<1>11. r.token = IF token # Blank THEN {token} ELSE {}
  BY <1>4
<1> QED BY <1>9, <1>10, <1>11 DEF r, token

-----------------------------------------------------------------------------
(* What every state keeps.                                                 *)

\* A state that was saved, or is about to be: masks in its projection, keys with their
\* account, and nothing of the environment's.
IsClean(s) ==
  /\ \A u \in s.ui : Masked(u)
  /\ Known(s.llm) /\ \A e \in Range(s.llm) : e.key \notin EnvSecrets
  /\ s.token # Mask

OmitsEnvToken(s) == deployment.envToken = Blank \/ s.token # deployment.envToken

SecretsInv ==
  /\ Masked(ui) /\ Known(app.llm) /\ Known(llm)
  /\ gl = Mask => deployment.envToken = Mask
  /\ \A s \in db \cup file : IsClean(s) /\ (s \in deployment.uiStates \/ OmitsEnvToken(s))
  /\ \A c \in Client : /\ put[c].req \in deployment.requests \cup {NoRequest}
                       /\ HidesKeys(put[c].body) /\ Known(put[c].new)
                       /\ IsClean(put[c].snapshot) /\ OmitsEnvToken(put[c].snapshot)

SettingsInv == ConfigTypeOK /\ SecretsInv

LEMMA SameDeployment ==
  ASSUME deployment' = deployment
  PROVE  /\ \A l : Known(l)' <=> Known(l)
         /\ \A s : IsClean(s)' <=> IsClean(s)
         /\ \A s : OmitsEnvToken(s)' <=> OmitsEnvToken(s)
<1>1. /\ SubmittedCards' = SubmittedCards /\ SubmittedScalars' = SubmittedScalars
      /\ SavedBefore' = SavedBefore /\ EnvEntries' = EnvEntries
  BY DEF SubmittedCards, SubmittedScalars, SavedBefore, EnvEntries
<1>2. Listed' = Listed /\ EnteredKeys' = EnteredKeys
  BY <1>1 DEF Listed, EnteredKeys
<1>3. OpenAiKeys' = OpenAiKeys /\ EnvSecrets' = EnvSecrets
  BY <1>1, <1>2 DEF OpenAiKeys, EnvSecrets
<1>4. \A e : KnownAccount(e)' <=> KnownAccount(e)
  BY <1>2, <1>3 DEF KnownAccount
<1>5. \A l : Known(l)' <=> Known(l)
  BY <1>4 DEF Known
<1>6. \A s : IsClean(s)' <=> IsClean(s)
  BY <1>3, <1>5 DEF IsClean
<1> QED BY <1>5, <1>6 DEF OmitsEnvToken

LEMMA NothingIsClean == IsClean(NoState) /\ OmitsEnvToken(NoState) /\ NoState \in UiStateFile
<1>1. <<>> \in Seq(Entry) /\ Range(<<>>) = {}
  BY DEF Range
<1> QED BY <1>1 DEF IsClean, OmitsEnvToken, NoState, Known, UiStateFile, Option, Text, Blank, Mask

LEMMA IdleIsClean ==
  /\ IdlePut \in PutHandler /\ IdlePut.req = NoRequest
  /\ HidesKeys(IdlePut.body) /\ Known(IdlePut.new)
  /\ IsClean(IdlePut.snapshot) /\ OmitsEnvToken(IdlePut.snapshot)
<1>1. <<>> \in Seq(Entry) /\ Range(<<>>) = {}
  BY DEF Range
<1>2. FromAppConfig(<<>>, 0) \in UiConfig /\ HidesKeys(FromAppConfig(<<>>, 0))
  BY <1>1, FromAppConfigType, MaskedIs
<1>3. NoRequest \in Request
  BY DEF NoRequest, Request, Option
<1> QED BY <1>1, <1>2, <1>3, NothingIsClean DEF IdlePut, PutHandler, Known

LEMMA SettingsInit ==
  ASSUME ConfigInit
  PROVE  SettingsInv
<1>1. /\ ConfigLlm \in Seq(Entry) /\ FileCap \in Nat /\ deployment.db \in BOOLEAN
      /\ deployment.uiStates \subseteq UiStateFile
      /\ \A s \in deployment.uiStates : s.token # Mask /\ \A u \in s.ui : Masked(u)
  BY DeploymentTypes DEF ConfigInit
<1>2. ui \in UiConfig /\ Masked(ui)
  BY <1>1, FromAppConfigType DEF ConfigInit
<1>3. db = {} /\ (file = {} \/ \E s \in deployment.uiStates : file = {s})
  BY DEF ConfigInit
<1>4. db \in Option(UiStateFile) /\ file \in Option(UiStateFile)
  BY <1>1, <1>3 DEF Option
<1>5. \A c \in Client : put[c] = IdlePut
  BY DEF ConfigInit
<1>6. ConfigTypeOK
  BY <1>1, <1>2, <1>4, IdleIsClean DEF ConfigInit, ConfigTypeOK, Text, Blank
<1>7. ASSUME NEW s \in deployment.uiStates PROVE IsClean(s)
  <2>1. Known(s.llm)
    BY DeploymentKnown
  <2>2. \A e \in Range(s.llm) : e \in SavedBefore
    BY DEF SavedBefore
  <2>3. \A e \in Range(s.llm) : e.key \in EnteredKeys
    BY <2>2 DEF EnteredKeys
  <2> QED BY <1>1, <2>1, <2>3 DEF IsClean, EnvSecrets
<1>8. Known(app.llm) /\ Known(llm)
  BY DeploymentKnown DEF ConfigInit
<1>9. gl # Mask
  BY DEF ConfigInit, Blank, Mask
<1> QED BY <1>2, <1>3, <1>5, <1>6, <1>7, <1>8, <1>9, IdleIsClean DEF SettingsInv, SecretsInv

\* The PUT handlers step one at a time, and the deployment stays.
LEMMA PutStepKeeps ==
  ASSUME SettingsInv, NEW c \in Client, NEW h \in PutHandler,
         deployment' = deployment, put' = [put EXCEPT ![c] = h], UNCHANGED <<phase, db, file>>,
         app' \in [llm : Seq(Entry), cap : Nat], llm' \in Seq(Entry), ui' \in UiConfig, gl' \in Text,
         unsaved' \in BOOLEAN,
         Masked(ui'), Known(app'.llm), Known(llm'), gl' = Mask => deployment.envToken = Mask,
         h.req \in deployment.requests \cup {NoRequest},
         HidesKeys(h.body), Known(h.new), IsClean(h.snapshot), OmitsEnvToken(h.snapshot)
  PROVE  SettingsInv'
<1>1. put' \in [Client -> PutHandler]
  BY DEF SettingsInv, ConfigTypeOK
<1>2. \A d \in Client : put'[d] = h \/ put'[d] = put[d]
  BY DEF SettingsInv, ConfigTypeOK
<1>3. ConfigTypeOK'
  BY <1>1 DEF SettingsInv, ConfigTypeOK
<1>4. \A d \in Client : /\ HidesKeys(put'[d].body) /\ Known(put'[d].new)
                        /\ IsClean(put'[d].snapshot) /\ OmitsEnvToken(put'[d].snapshot)
  BY <1>2 DEF SettingsInv, SecretsInv
<1>5. /\ Known(app.llm)' /\ Known(llm)'
      /\ \A s \in db' \cup file' : IsClean(s)' /\ (s \in deployment.uiStates \/ OmitsEnvToken(s)')
      /\ \A d \in Client : /\ Known(put[d].new)'
                           /\ IsClean(put[d].snapshot)' /\ OmitsEnvToken(put[d].snapshot)'
  BY <1>4, SameDeployment DEF SettingsInv, SecretsInv
<1>6. Masked(ui)' /\ \A d \in Client : HidesKeys(put[d].body)'
  BY <1>4 DEF Masked, Some, HidesKeys
<1>7. \A d \in Client : (put[d].req \in deployment.requests \cup {NoRequest})'
  BY <1>2 DEF SettingsInv, SecretsInv, NoRequest
<1>8. (gl = Mask => deployment.envToken = Mask)'
  OBVIOUS
<1> QED BY <1>3, <1>5, <1>6, <1>7, <1>8 DEF SettingsInv, SecretsInv

\* What a handler carries out was sent, or is nothing.
LEMMA SentIsKnown ==
  ASSUME SettingsInv, NEW req \in deployment.requests \cup {NoRequest}
  PROVE  req \in Request /\ SpeaksOfKnown(req)
<1>1. NoRequest \in Request /\ SpeaksOfKnown(NoRequest)
  BY DEF NoRequest, Request, Option, SpeaksOfKnown
<1> QED BY <1>1, DeploymentTypes, DeploymentKnown DEF SettingsInv, ConfigTypeOK

LEMMA PutReadKeeps ==
  ASSUME SettingsInv, NEW c \in Client, NEW req \in deployment.requests, PutRead(c, req)
  PROVE  SettingsInv'
<1> DEFINE h == [put[c] EXCEPT !.pc = "resolve", !.req = req, !.body = ui]
<1>1. req \in Request
  BY SentIsKnown
<1>2. ui \in UiConfig /\ HidesKeys(ui) /\ put[c] \in PutHandler
  BY MaskedIs DEF SettingsInv, ConfigTypeOK, SecretsInv
<1>3. put' = [put EXCEPT ![c] = h]
  BY DEF PutRead
<1>4. h \in PutHandler /\ h.req = req /\ h.body = ui /\ h.new = put[c].new /\ h.snapshot = put[c].snapshot
  BY <1>1, <1>2 DEF PutHandler
<1> HIDE DEF h
<1>5. UNCHANGED <<deployment, app, llm, ui, gl, db, file, phase, unsaved>>
  BY DEF PutRead
<1> QED BY <1>2, <1>3, <1>4, <1>5, PutStepKeeps DEF SettingsInv, ConfigTypeOK, SecretsInv

LEMMA PutResolveKeeps ==
  ASSUME SettingsInv, NEW c \in Client, PutResolve(c)
  PROVE  SettingsInv'
<1> DEFINE req == put[c].req
           u == put[c].body
           r == Resolve(u, app.llm, req)
           h == [put[c] EXCEPT !.pc = "config", !.body = r.body, !.new = r.new]
<1>1. req \in deployment.requests \cup {NoRequest} /\ req \in Request /\ SpeaksOfKnown(req)
  BY SentIsKnown DEF SettingsInv, SecretsInv
<1>2. /\ u \in UiConfig /\ HidesKeys(u) /\ app.llm \in Seq(Entry) /\ Known(app.llm)
      /\ put[c] \in PutHandler
  BY DEF SettingsInv, ConfigTypeOK, SecretsInv, PutHandler
<1>3. put' = [put EXCEPT ![c] = h]
  BY DEF PutResolve
<1> HIDE DEF req, u
<1>4. r.body \in UiConfig /\ r.new \in Seq(Entry) /\ HidesKeys(r.body)
  BY <1>1, <1>2, ResolveType
<1>5. Known(r.new)
  BY <1>1, <1>2, ResolvedIsKnown
<1> HIDE DEF r
<1>6. h \in PutHandler /\ h.req = req /\ h.body = r.body /\ h.new = r.new /\ h.snapshot = put[c].snapshot
  BY <1>1, <1>2, <1>4 DEF PutHandler, req
<1> HIDE DEF h
<1>7. UNCHANGED <<deployment, app, llm, ui, gl, db, file, phase, unsaved>>
  BY DEF PutResolve
<1> QED BY <1>1, <1>3, <1>4, <1>5, <1>6, <1>7, PutStepKeeps DEF SettingsInv, ConfigTypeOK, SecretsInv

LEMMA PutConfigKeeps ==
  ASSUME SettingsInv, NEW c \in Client, PutConfig(c)
  PROVE  SettingsInv'
<1> DEFINE b == put[c].body
           s == ShownCap(app, b)
           h == [put[c] EXCEPT !.pc = "llm", !.body = s]
<1>1. /\ put[c] \in PutHandler /\ b \in UiConfig /\ put[c].new \in Seq(Entry)
      /\ HidesKeys(b) /\ Known(put[c].new) /\ Known(app.llm) /\ app \in [llm : Seq(Entry), cap : Nat]
  BY DEF SettingsInv, ConfigTypeOK, SecretsInv, PutHandler
<1>2. s \in UiConfig /\ HidesKeys(s)
  BY <1>1 DEF ShownCap, UiConfig, HidesKeys
<1>3. app' \in [llm : Seq(Entry), cap : Nat] /\ Known(app'.llm)
  BY <1>1 DEF PutConfig, WithConfig, UiConfig
<1>4. put' = [put EXCEPT ![c] = h]
  BY DEF PutConfig, SettingsInv, ConfigTypeOK
<1> HIDE DEF s
<1>5. h \in PutHandler /\ h.req = put[c].req /\ h.body = s /\ h.new = put[c].new /\ h.snapshot = put[c].snapshot
  BY <1>1, <1>2 DEF PutHandler
<1> HIDE DEF h
<1>6. UNCHANGED <<deployment, llm, ui, gl, db, file, phase, unsaved>>
  BY DEF PutConfig
<1> QED BY <1>1, <1>2, <1>3, <1>4, <1>5, <1>6, PutStepKeeps DEF SettingsInv, ConfigTypeOK, SecretsInv

LEMMA PutLlmKeeps ==
  ASSUME SettingsInv, NEW c \in Client, PutLlm(c)
  PROVE  SettingsInv'
<1> DEFINE h == [put[c] EXCEPT !.pc = "ui"]
<1>1. /\ put[c] \in PutHandler /\ put[c].new \in Seq(Entry) /\ Known(put[c].new)
      /\ llm \in Seq(Entry) /\ Known(llm)
  BY DEF SettingsInv, ConfigTypeOK, SecretsInv, PutHandler
<1>2. llm' \in Seq(Entry) /\ Known(llm')
  BY <1>1 DEF PutLlm
<1>3. put' = [put EXCEPT ![c] = h]
  BY DEF PutLlm, Goto, SettingsInv, ConfigTypeOK
<1>4. h \in PutHandler /\ h.req = put[c].req /\ h.body = put[c].body /\ h.new = put[c].new /\ h.snapshot = put[c].snapshot
  BY <1>1 DEF PutHandler
<1> HIDE DEF h
<1>5. UNCHANGED <<deployment, app, ui, gl, db, file, phase, unsaved>>
  BY DEF PutLlm
<1> QED BY <1>1, <1>2, <1>3, <1>4, <1>5, PutStepKeeps DEF SettingsInv, ConfigTypeOK, SecretsInv

LEMMA TokenKept ==
  ASSUME NEW current \in Text, NEW submitted \in Text
  PROVE  /\ GitlabToken(current, submitted) \in Text
         /\ GitlabToken(current, submitted) = Mask => current = Mask
         /\ MaskOrEmpty(current) \in Text /\ MaskOrEmpty(current) \in {Blank, Mask}
  BY DEF GitlabToken, MaskOrEmpty, Text

LEMMA PutUiKeeps ==
  ASSUME SettingsInv, NEW c \in Client, PutUi(c)
  PROVE  SettingsInv'
<1> DEFINE b == put[c].body
           t == GitlabToken(gl, b.token)
           masked == MaskOrEmpty(t)
           u == [b EXCEPT !.token = masked]
           s == FromApplied(put[c].new, t, u)
           pc == IF deployment.db THEN "compare" ELSE "save"
           h == [put[c] EXCEPT !.pc = pc, !.snapshot = s]
<1>0. gl' = t /\ ui' = u /\ put' = [put EXCEPT ![c] = h]
  BY DEF PutUi, SettingsInv, ConfigTypeOK
<1>1. /\ put[c] \in PutHandler /\ b \in UiConfig /\ b.token \in Text /\ put[c].new \in Seq(Entry)
      /\ HidesKeys(b) /\ Known(put[c].new) /\ gl \in Text /\ deployment \in Deployment
      /\ gl = Mask => deployment.envToken = Mask
  BY DEF SettingsInv, ConfigTypeOK, SecretsInv, PutHandler, UiConfig
<1>2. t \in Text /\ masked \in Text /\ masked \in {Blank, Mask} /\ (t = Mask => gl = Mask)
  BY <1>1, TokenKept
<1> HIDE DEF t, masked
<1>3. u \in UiConfig /\ HidesKeys(u) /\ u.token \in {Blank, Mask}
  BY <1>1, <1>2 DEF UiConfig, HidesKeys
<1>4. Masked(u)
  BY <1>3, MaskedIs
<1> HIDE DEF u
<1>5. /\ s \in UiStateFile /\ \A v \in s.ui : Masked(v)
      /\ Known(s.llm) /\ \A e \in Range(s.llm) : e.key \notin EnvSecrets
      /\ s.token = IF t = deployment.envToken THEN Blank ELSE t
  BY <1>1, <1>2, <1>3, FromAppliedType
<1> HIDE DEF s
<1>6. IsClean(s) /\ OmitsEnvToken(s)
  BY <1>1, <1>2, <1>5 DEF IsClean, OmitsEnvToken, Blank, Mask
<1>7. h \in PutHandler /\ h.req = put[c].req /\ h.body = b /\ h.new = put[c].new /\ h.snapshot = s
  BY <1>1, <1>5 DEF PutHandler
<1> HIDE DEF h
<1>8. UNCHANGED <<deployment, app, llm, db, file, phase, unsaved>>
  BY DEF PutUi
<1>9. ui' \in UiConfig /\ Masked(ui') /\ gl' \in Text /\ (gl' = Mask => deployment.envToken = Mask)
  BY <1>0, <1>1, <1>2, <1>3, <1>4
<1> QED BY <1>0, <1>1, <1>6, <1>7, <1>8, <1>9, PutStepKeeps DEF SettingsInv, ConfigTypeOK, SecretsInv

LEMMA PutCompareKeeps ==
  ASSUME SettingsInv, NEW c \in Client, PutCompare(c)
  PROVE  SettingsInv'
<1> DEFINE same == OrElse({s.llm : s \in db}, <<>>) = put[c].snapshot.llm
           h == [put[c] EXCEPT !.pc = "save", !.same = same]
<1>1. put[c] \in PutHandler
  BY DEF SettingsInv, ConfigTypeOK
<1>2. put' = [put EXCEPT ![c] = h]
  BY DEF PutCompare, SettingsInv, ConfigTypeOK
<1>3. same \in BOOLEAN
  OBVIOUS
<1> HIDE DEF same
<1>4. h \in PutHandler /\ h.req = put[c].req /\ h.body = put[c].body /\ h.new = put[c].new /\ h.snapshot = put[c].snapshot
  BY <1>1, <1>3 DEF PutHandler
<1> HIDE DEF h
<1>5. UNCHANGED <<deployment, app, llm, ui, gl, db, file, phase, unsaved>>
  BY DEF PutCompare
<1> QED BY <1>1, <1>2, <1>4, <1>5, PutStepKeeps DEF SettingsInv, ConfigTypeOK, SecretsInv

\* What is stored is what was, a snapshot, or a snapshot with the rows' providers.
LEMMA SavedIsClean ==
  ASSUME SettingsInv, NEW c \in Client, PutSave(c)
  PROVE  /\ db' \in Option(UiStateFile) /\ file' \in Option(UiStateFile)
         /\ \A s \in db' \cup file' : IsClean(s) /\ (s \in deployment.uiStates \/ OmitsEnvToken(s))
<1> DEFINE s == put[c].snapshot
           rows == IF put[c].same /\ db # {} THEN [s EXCEPT !.llm = OrElse(db, s).llm] ELSE s
<1>1. s \in UiStateFile /\ IsClean(s) /\ OmitsEnvToken(s)
  BY DEF SettingsInv, ConfigTypeOK, SecretsInv, PutHandler
<1>2. db \in Option(UiStateFile) /\ file \in Option(UiStateFile)
  BY DEF SettingsInv, ConfigTypeOK
<1>3. \A r \in db \cup file : IsClean(r) /\ (r \in deployment.uiStates \/ OmitsEnvToken(r))
  BY DEF SettingsInv, SecretsInv
<1>4. db # {} => OrElse(db, s) \in db /\ OrElse(db, s) \in UiStateFile
  BY <1>2, OptionOf DEF Option
<1> DEFINE old == OrElse(db, s)
<1> HIDE DEF s, old
<1>5. rows \in UiStateFile /\ IsClean(rows) /\ OmitsEnvToken(rows)
  <2>1. CASE put[c].same /\ db # {}
    <3>1. rows = [s EXCEPT !.llm = old.llm] /\ old \in db /\ old \in UiStateFile
      BY <2>1, <1>4 DEF old
    <3>2. rows \in UiStateFile /\ rows.ui = s.ui /\ rows.llm = old.llm /\ rows.token = s.token
      BY <3>1, <1>1 DEF UiStateFile
    <3> HIDE DEF rows
    <3> QED BY <3>1, <3>2, <1>1, <1>3 DEF IsClean, OmitsEnvToken
  <2> QED BY <2>1, <1>1
<1>6. \/ UNCHANGED <<db, file>>
      \/ db' = {rows} /\ UNCHANGED file
      \/ file' = {s} /\ UNCHANGED db
  BY DEF PutSave, Save, s
<1> HIDE DEF rows
<1>7. {rows} \in Option(UiStateFile) /\ {s} \in Option(UiStateFile)
  BY <1>1, <1>5 DEF Option
<1> QED BY <1>1, <1>2, <1>3, <1>5, <1>6, <1>7

\* The steps that leave the handlers alone, or reset them all.
LEMMA ServerStepKeeps ==
  ASSUME SettingsInv, deployment' = deployment,
         \A c \in Client : put'[c] = put[c] \/ put'[c] = IdlePut, put' \in [Client -> PutHandler],
         phase' \in {"up", "import", "rename", "replay", "runtime"}, unsaved' \in BOOLEAN,
         app' \in [llm : Seq(Entry), cap : Nat], llm' \in Seq(Entry), ui' \in UiConfig, gl' \in Text,
         Masked(ui'), Known(app'.llm), Known(llm'), gl' = Mask => deployment.envToken = Mask,
         db' \in Option(UiStateFile), file' \in Option(UiStateFile),
         \A s \in db' \cup file' : IsClean(s) /\ (s \in deployment.uiStates \/ OmitsEnvToken(s))
  PROVE  SettingsInv'
<1>1. ConfigTypeOK'
  BY DEF SettingsInv, ConfigTypeOK
<1>2. \A d \in Client : /\ HidesKeys(put'[d].body) /\ Known(put'[d].new)
                        /\ IsClean(put'[d].snapshot) /\ OmitsEnvToken(put'[d].snapshot)
  BY IdleIsClean DEF SettingsInv, SecretsInv
<1>3. /\ Known(app.llm)' /\ Known(llm)'
      /\ \A s \in db' \cup file' : IsClean(s)' /\ (s \in deployment.uiStates \/ OmitsEnvToken(s))'
      /\ \A d \in Client : /\ Known(put[d].new)'
                           /\ IsClean(put[d].snapshot)' /\ OmitsEnvToken(put[d].snapshot)'
  BY <1>2, SameDeployment
<1>4. Masked(ui)' /\ \A d \in Client : HidesKeys(put[d].body)'
  BY <1>2 DEF Masked, Some, HidesKeys
<1>5. \A d \in Client : (put[d].req \in deployment.requests \cup {NoRequest})'
  BY IdleIsClean DEF SettingsInv, SecretsInv, NoRequest
<1>6. (gl = Mask => deployment.envToken = Mask)'
  OBVIOUS
<1> QED BY <1>1, <1>3, <1>4, <1>5, <1>6 DEF SettingsInv, SecretsInv

LEMMA PutSaveKeeps ==
  ASSUME SettingsInv, NEW c \in Client, PutSave(c)
  PROVE  SettingsInv'
<1>1. /\ db' \in Option(UiStateFile) /\ file' \in Option(UiStateFile)
      /\ \A s \in db' \cup file' : IsClean(s) /\ (s \in deployment.uiStates \/ OmitsEnvToken(s))
  BY SavedIsClean
<1>2. /\ put' = [put EXCEPT ![c] = IdlePut] /\ UNCHANGED <<deployment, app, llm, ui, gl, phase>>
      /\ unsaved' \in BOOLEAN
  BY DEF PutSave, Save, SettingsInv, ConfigTypeOK
<1>3. put' \in [Client -> PutHandler] /\ \A d \in Client : put'[d] = put[d] \/ put'[d] = IdlePut
  BY <1>2, IdleIsClean DEF SettingsInv, ConfigTypeOK
<1> QED BY <1>1, <1>2, <1>3, ServerStepKeeps DEF SettingsInv, ConfigTypeOK, SecretsInv

LEMMA DbOverridesType ==
  ASSUME SettingsInv, NEW a \in [llm : Seq(Entry), cap : Nat], Known(a.llm)
  PROVE  /\ ApplyDbOverrides(a) \in [llm : Seq(Entry), cap : Nat]
         /\ Known(ApplyDbOverrides(a).llm)
<1> DEFINE rows == OrElse(db, NoState)
           I == {i \in DOMAIN rows.llm : ~IsBlankOrMasked(rows.llm[i].key)}
           usable == Subsequence(rows.llm, I)
           caps == {u.cap : u \in rows.ui}
           cap == OrElse(caps, 0)
           only == [rows EXCEPT !.llm = usable]
           o == ApplyDbOverrides(a)
<1>1. rows \in UiStateFile /\ IsClean(rows)
  <2>1. db \in Option(UiStateFile) /\ \A s \in db : IsClean(s)
    BY DEF SettingsInv, ConfigTypeOK, SecretsInv
  <2> QED BY <2>1, OptionOf, NothingIsClean
<1>2. o = [llm |-> IF EnvEntries = <<>> /\ usable # <<>> THEN StoredChain(only) ELSE a.llm,
           cap |-> IF cap > 0 THEN cap ELSE a.cap]
  BY DEF ApplyDbOverrides
<1> HIDE DEF rows, o
<1>3. rows.llm \in Seq(Entry) /\ Known(rows.llm) /\ rows.ui \in Option(UiConfig)
  BY <1>1 DEF IsClean, UiStateFile
<1>4. usable \in Seq(Entry) /\ \A e \in Range(usable) : \E i \in DOMAIN rows.llm : i \in I /\ e = rows.llm[i]
  <2> HIDE DEF I
  <2> QED BY <1>3, PartOf
<1>5. cap \in Nat
  <2>1. \A u \in rows.ui : u.cap \in Nat
    BY <1>3 DEF Option, UiConfig
  <2>2. \A n \in caps : n \in Nat
    BY <2>1
  <2> HIDE DEF caps
  <2> QED BY <2>2, OrElseOf
<1> HIDE DEF usable, cap
<1>6. only.llm = usable
  BY <1>1 DEF UiStateFile
<1> DEFINE p == OrElse({u.primary : u \in only.ui}, Blank)
<1>7. StoredChain(only) = OrderedLlmConfigs(p, usable)
  BY <1>6 DEF StoredChain
<1> HIDE DEF only, p
<1>8. /\ OrderedLlmConfigs(p, usable) \in Seq(Entry)
      /\ Range(OrderedLlmConfigs(p, usable)) \subseteq Range(usable)
  BY <1>4, OrderedLlmConfigsType
<1>9. \A e \in Range(usable) : KnownAccount(e)
  BY <1>3, <1>4 DEF Known, Range
<1>10. o.llm \in Seq(Entry) /\ o.cap \in Nat /\ Known(o.llm) /\ o = [llm |-> o.llm, cap |-> o.cap]
  BY <1>2, <1>5, <1>7, <1>8, <1>9 DEF Known
<1> QED BY <1>10 DEF o

LEMMA CrashKeeps ==
  ASSUME SettingsInv, Crash
  PROVE  SettingsInv'
<1> DEFINE base == [llm |-> ConfigLlm, cap |-> FileCap]
<1>1. ConfigLlm \in Seq(Entry) /\ FileCap \in Nat /\ Known(ConfigLlm)
  BY DeploymentTypes, DeploymentKnown DEF SettingsInv, ConfigTypeOK
<1>2. base \in [llm : Seq(Entry), cap : Nat] /\ Known(base.llm)
  BY <1>1
<1>3. app' = base \/ app' = ApplyDbOverrides(base)
  BY DEF Crash
<1> HIDE DEF base
<1>4. app' \in [llm : Seq(Entry), cap : Nat] /\ Known(app'.llm)
  BY <1>2, <1>3, DbOverridesType
<1>5. ui' = FromAppConfig(ConfigLlm, FileCap) /\ llm' = ConfigLlm
  BY DEF Crash
<1>6. ui' \in UiConfig /\ Masked(ui')
  BY <1>1, <1>5, FromAppConfigType
<1>7. gl' = Blank /\ Blank \in Text /\ Blank # Mask
  BY DEF Crash, Text, Blank, Mask
<1>8. put' \in [Client -> PutHandler] /\ \A c \in Client : put'[c] = IdlePut
  BY IdleIsClean DEF Crash
<1>9. UNCHANGED <<deployment, db, file>> /\ unsaved' = FALSE /\ phase' \in {"import", "runtime"}
  BY DEF Crash
<1> QED BY <1>1, <1>4, <1>5, <1>6, <1>7, <1>8, <1>9, ServerStepKeeps DEF SettingsInv, ConfigTypeOK, SecretsInv

LEMMA ImportKeeps ==
  ASSUME SettingsInv, ImportUiState \/ RenameImported
  PROVE  SettingsInv'
<1>1. /\ UNCHANGED <<deployment, app, llm, ui, gl, put, unsaved>>
      /\ phase' \in {"rename", "replay"}
      /\ db' = db \/ db' = file
      /\ file' = file \/ file' = {}
  BY DEF ImportUiState, RenameImported
<1>2. {} \in Option(UiStateFile)
  BY DEF Option
<1>3. db' \in Option(UiStateFile) /\ file' \in Option(UiStateFile) /\ db' \cup file' \subseteq db \cup file
  BY <1>1, <1>2 DEF SettingsInv, ConfigTypeOK
<1> QED BY <1>1, <1>3, ServerStepKeeps DEF SettingsInv, ConfigTypeOK, SecretsInv

LEMMA ReplayKeeps ==
  ASSUME SettingsInv, NEW s \in UiStateFile, IsClean(s), NEW rt \in Text, Replay(s, rt),
         rt = Mask => deployment.envToken = Mask
  PROVE  /\ app' \in [llm : Seq(Entry), cap : Nat] /\ llm' \in Seq(Entry) /\ ui' \in UiConfig /\ gl' \in Text
         /\ Masked(ui') /\ Known(app'.llm) /\ Known(llm') /\ (gl' = Mask => deployment.envToken = Mask)
<1> DEFINE req == ReplayPayload(s)
           r == Resolve(ui, app.llm, req)
           b == ShownCap(app, r.body)
           t == GitlabToken(rt, r.body.token)
           masked == MaskOrEmpty(t)
           u == [b EXCEPT !.token = masked]
<1>1. /\ ui \in UiConfig /\ HidesKeys(ui) /\ app.llm \in Seq(Entry) /\ Known(app.llm) /\ deployment \in Deployment
      /\ llm \in Seq(Entry) /\ Known(llm) /\ app \in [llm : Seq(Entry), cap : Nat] /\ Known(s.llm)
  BY MaskedIs DEF SettingsInv, ConfigTypeOK, SecretsInv, IsClean
<1>2. req \in Request /\ SpeaksOfKnown(req)
  BY <1>1, ReplayPayloadType
<1>3. app' = WithConfig(app, r.new, r.body) /\ llm' = (IF r.new # <<>> THEN r.new ELSE llm) /\ gl' = t /\ ui' = u
  BY DEF Replay
<1> HIDE DEF req
<1>4. r.body \in UiConfig /\ r.new \in Seq(Entry) /\ HidesKeys(r.body) /\ Known(r.new)
  BY <1>1, <1>2, ResolveType, ResolvedIsKnown
<1> HIDE DEF r
<1>5. b \in UiConfig /\ HidesKeys(b) /\ r.body.token \in Text
  BY <1>1, <1>4 DEF ShownCap, UiConfig, HidesKeys
<1>6. t \in Text /\ masked \in Text /\ masked \in {Blank, Mask} /\ (t = Mask => rt = Mask)
  BY <1>5, TokenKept
<1> HIDE DEF b, t, masked
<1>7. u \in UiConfig /\ HidesKeys(u) /\ u.token \in {Blank, Mask}
  BY <1>5, <1>6 DEF UiConfig, HidesKeys
<1>8. Masked(u)
  BY <1>7, MaskedIs
<1> HIDE DEF u
<1>9. app' \in [llm : Seq(Entry), cap : Nat] /\ Known(app'.llm)
  BY <1>1, <1>3, <1>4 DEF WithConfig, UiConfig
<1> QED BY <1>1, <1>3, <1>4, <1>6, <1>7, <1>8, <1>9

LEMMA ReplayDbKeeps ==
  ASSUME SettingsInv, ReplayDb
  PROVE  SettingsInv'
<1>1. UNCHANGED <<deployment, db, file, put, unsaved>> /\ phase' = "runtime"
  BY DEF ReplayDb
<1>2. db \in Option(UiStateFile) /\ \A s \in db : IsClean(s)
  BY DEF SettingsInv, ConfigTypeOK, SecretsInv
<1>3. CASE db # {}
  <2> DEFINE s == OrElse(db, NoState)
  <2>1. s \in UiStateFile /\ IsClean(s) /\ Replay(s, gl)
    BY <1>2, <1>3, OptionOf DEF ReplayDb, Option
  <2> HIDE DEF s
  <2>2. gl \in Text /\ (gl = Mask => deployment.envToken = Mask)
    BY DEF SettingsInv, ConfigTypeOK, SecretsInv
  <2> QED BY <1>1, <2>1, <2>2, ReplayKeeps, ServerStepKeeps DEF SettingsInv, ConfigTypeOK, SecretsInv
<1>4. CASE db = {}
  <2>1. UNCHANGED <<app, llm, ui, gl>>
    BY <1>4 DEF ReplayDb
  <2> QED BY <1>1, <2>1, ServerStepKeeps DEF SettingsInv, ConfigTypeOK, SecretsInv
<1> QED BY <1>3, <1>4

LEMMA StartServingKeeps ==
  ASSUME SettingsInv, StartServing
  PROVE  SettingsInv'
<1>1. UNCHANGED <<deployment, db, file, put, unsaved>> /\ phase' = "up" /\ InitRuntime
  BY DEF StartServing
<1>2. file \in Option(UiStateFile) /\ (\A s \in file : IsClean(s)) /\ deployment.envToken \in Text
  BY DeploymentTypes DEF SettingsInv, ConfigTypeOK, SecretsInv
<1>3. CASE ~(deployment.db /\ db # {}) /\ file # {}
  <2> DEFINE s == OrElse(file, NoState)
  <2>1. s \in UiStateFile /\ IsClean(s) /\ Replay(s, deployment.envToken)
    BY <1>1, <1>2, <1>3, OptionOf DEF InitRuntime, Option
  <2> HIDE DEF s
  <2> QED BY <1>1, <1>2, <2>1, ReplayKeeps, ServerStepKeeps DEF SettingsInv, ConfigTypeOK, SecretsInv
<1>4. CASE ~(~(deployment.db /\ db # {}) /\ file # {})
  <2>1. gl' = deployment.envToken /\ UNCHANGED <<app, llm, ui>>
    BY <1>1, <1>4 DEF InitRuntime
  <2> QED BY <1>1, <1>2, <2>1, ServerStepKeeps DEF SettingsInv, ConfigTypeOK, SecretsInv
<1> QED BY <1>3, <1>4

LEMMA SettingsStep ==
  ASSUME SettingsInv, [ConfigNext]_configVars
  PROVE  SettingsInv'
<1>1. ASSUME NEW c \in Client,
             \/ \E req \in deployment.requests : PutRead(c, req)
             \/ PutResolve(c) \/ PutConfig(c) \/ PutLlm(c) \/ PutUi(c) \/ PutCompare(c) \/ PutSave(c)
      PROVE  SettingsInv'
  BY <1>1, PutReadKeeps, PutResolveKeeps, PutConfigKeeps, PutLlmKeeps, PutUiKeeps, PutCompareKeeps, PutSaveKeeps
<1>2. CASE Crash \/ ImportUiState \/ RenameImported \/ ReplayDb \/ StartServing
  BY <1>2, CrashKeeps, ImportKeeps, ReplayDbKeeps, StartServingKeeps
<1>3. CASE UNCHANGED configVars
  BY <1>3, ServerStepKeeps DEF configVars, SettingsInv, ConfigTypeOK, SecretsInv
<1> QED BY <1>1, <1>2, <1>3 DEF ConfigNext

\* The invariant that the theorems below rest on, for any deployment and any number of
\* clients: what has been read, is being applied, runs and is stored is typed, masked and known.
THEOREM SettingsAlways == ConfigSpec => []SettingsInv
<1>1. ConfigInit => SettingsInv
  BY SettingsInit
<1>2. SettingsInv /\ [ConfigNext]_configVars => SettingsInv'
  BY SettingsStep
<1> QED BY <1>1, <1>2, PTL DEF ConfigSpec

\* The configuration, stored or in memory, has the shape the handlers expect of it.
THEOREM ConfigTypes == ConfigSpec => []ConfigTypeOK
<1>1. SettingsInv => ConfigTypeOK
  BY DEF SettingsInv
<1> QED BY <1>1, SettingsAlways, PTL

\* However PUTs interleave, saves fail and the server restarts: no projection holds a key,
\* no key moves to another account, and what the environment supplied is not written down.
THEOREM SecretsStay == ConfigSpec => []SecretsStayPut
<1>1. SettingsInv => SecretsStayPut
  <2> SUFFICES ASSUME SettingsInv PROVE SecretsStayPut
    OBVIOUS
  <2>1. \A s \in db \cup file : IsClean(s) /\ (s \in deployment.uiStates \/ OmitsEnvToken(s))
    BY DEF SettingsInv, SecretsInv
  <2>2. ProjectionsAreMasked
    BY <2>1 DEF ProjectionsAreMasked, IsClean, SettingsInv, SecretsInv
  <2>3. KeysStayWithTheirAccount
    BY <2>1 DEF KeysStayWithTheirAccount, Running, Written, IsClean, Known, SettingsInv, SecretsInv
  <2>4. EnvSecretStaysOut
    BY <2>1 DEF EnvSecretStaysOut, Written, IsClean, OmitsEnvToken
  <2> QED BY <2>2, <2>3, <2>4 DEF SecretsStayPut
<1> QED BY <1>1, SettingsAlways, PTL

\* The token a replayed file leaves in the runtime.
LEMMA ReplayedToken ==
  ASSUME SettingsInv, NEW s \in UiStateFile, IsClean(s), Replay(s, deployment.envToken)
  PROVE  gl' = IF s.token # Blank THEN s.token ELSE deployment.envToken
<1> DEFINE req == ReplayPayload(s)
           r == Resolve(ui, app.llm, req)
           token == IF s.token # Blank THEN s.token ELSE deployment.envToken
<1>1. /\ ui \in UiConfig /\ ui.token \in {Blank, Mask} /\ app.llm \in Seq(Entry) /\ deployment \in Deployment
      /\ s.token # Mask
  BY MaskedIs DEF SettingsInv, ConfigTypeOK, SecretsInv, IsClean
<1>2. req \in Request /\ req.token = IF token # Blank THEN {token} ELSE {}
  BY <1>1, ReplayPayloadType
<1>3. gl' = GitlabToken(deployment.envToken, r.body.token)
  BY DEF Replay
<1> HIDE DEF req
<1>4. r.body.token = OrElse(req.token, ui.token)
  BY <1>1, <1>2, ResolveType
<1>5. r.body.token = IF token # Blank THEN token ELSE ui.token
  BY <1>2, <1>4, OrElseOne
<1> QED BY <1>1, <1>3, <1>5 DEF GitlabToken

\* Without a database a restart runs the GitLab token that the file holds, and the
\* environment's only when it holds none (replay_payload over init_gitlab_runtime).
THEOREM FileTokenSurvives == ConfigSpec => FileKeepsToken
<1> DEFINE Kept == BootEnds /\ ~deployment.db => \A s \in file :
                     gl' = IF s.token # Blank THEN s.token ELSE deployment.envToken
<1>1. SettingsInv /\ [ConfigNext]_configVars => [Kept]_configVars
  <2> SUFFICES ASSUME SettingsInv, [ConfigNext]_configVars, BootEnds, ~deployment.db, NEW s \in file
               PROVE  gl' = IF s.token # Blank THEN s.token ELSE deployment.envToken
    OBVIOUS
  <2>1. StartServing
    BY DEF BootEnds, ConfigNext, configVars, PutRead, PutResolve, PutConfig, PutLlm, Goto, PutUi, PutCompare, PutSave, Crash,
           ImportUiState, RenameImported, ReplayDb
  <2>2. s \in file /\ file \in Option(UiStateFile) /\ IsClean(s)
    BY DEF SettingsInv, ConfigTypeOK, SecretsInv
  <2>3. s \in UiStateFile /\ OrElse(file, NoState) = s
    BY <2>2, OptionOf DEF Option
  <2>4. Replay(s, deployment.envToken)
    BY <2>1, <2>2, <2>3 DEF StartServing, InitRuntime
  <2> QED BY <2>2, <2>3, <2>4, ReplayedToken
<1> QED BY <1>1, SettingsAlways, PTL DEF ConfigSpec, FileKeepsToken

-----------------------------------------------------------------------------
(* One save at a time.                                                     *)

\* What relates the cap the page shows to the one in force, while no second save runs.
OneSaveInv ==
  /\ phase # "up" => \A c \in Client : put[c].pc = "idle"
  /\ phase = "runtime" \/ (phase # "up" /\ db = {}) => ui.cap = app.cap
  /\ phase = "up" => ui.cap = app.cap \/ \E c \in Client : put[c].pc \in {"llm", "ui"}
  /\ \A c \in Client : put[c].pc \in {"llm", "ui"} => put[c].body.cap = app.cap

CapInv == SettingsInv /\ app.cap > 0

SaveInv == CapInv /\ OneSaveInv

OneClient == \A c, d \in Client : c = d

LEMMA ConfiguredCap ==
  ASSUME NEW a \in [llm : Seq(Entry), cap : Nat], a.cap > 0, NEW new \in Seq(Entry), NEW b \in UiConfig
  PROVE  /\ WithConfig(a, new, b).cap > 0
         /\ ShownCap(a, b).cap = WithConfig(a, new, b).cap
  BY DEF WithConfig, ShownCap, UiConfig

LEMMA ReplayedCap ==
  ASSUME CapInv, NEW s \in UiStateFile, NEW rt, Replay(s, rt)
  PROVE  app'.cap > 0 /\ ui'.cap = app'.cap
<1> DEFINE req == ReplayPayload(s)
           r == Resolve(ui, app.llm, req)
           b == ShownCap(app, r.body)
           masked == MaskOrEmpty(GitlabToken(rt, r.body.token))
<1>1. /\ ui \in UiConfig /\ app.llm \in Seq(Entry) /\ app \in [llm : Seq(Entry), cap : Nat]
      /\ deployment \in Deployment /\ app.cap > 0
  BY DEF CapInv, SettingsInv, ConfigTypeOK
<1>2. req \in Request
  BY <1>1, ReplayPayloadType
<1>3. app' = WithConfig(app, r.new, r.body) /\ ui' = [b EXCEPT !.token = masked]
  BY DEF Replay
<1> HIDE DEF req
<1>4. r.body \in UiConfig /\ r.new \in Seq(Entry)
  BY <1>1, <1>2, ResolveType
<1>5. b \in UiConfig
  <2> HIDE DEF r
  <2> QED BY <1>1, <1>4 DEF ShownCap, UiConfig
<1> HIDE DEF r, masked
<1>6. ui'.cap = b.cap
  BY <1>3, <1>5 DEF UiConfig
<1> QED BY <1>1, <1>3, <1>4, <1>6, ConfiguredCap

LEMMA OverriddenCap ==
  ASSUME SettingsInv, NEW a \in [llm : Seq(Entry), cap : Nat], a.cap > 0
  PROVE  /\ ApplyDbOverrides(a).cap > 0
         /\ db = {} => ApplyDbOverrides(a).cap = a.cap
<1> DEFINE rows == OrElse(db, NoState)
           caps == {u.cap : u \in rows.ui}
           cap == OrElse(caps, 0)
<1>1. rows.ui \in Option(UiConfig) /\ (db = {} => rows.ui = {})
  <2>1. db \in Option(UiStateFile)
    BY DEF SettingsInv, ConfigTypeOK
  <2>2. rows \in UiStateFile /\ (db = {} => rows = NoState)
    BY <2>1, OptionOf, NothingIsClean
  <2> HIDE DEF rows
  <2> QED BY <2>2 DEF UiStateFile, NoState
<1>2. ApplyDbOverrides(a).cap = IF cap > 0 THEN cap ELSE a.cap
  BY DEF ApplyDbOverrides
<1> HIDE DEF rows
<1>3. \A n \in caps : n \in Nat
  BY <1>1 DEF Option, UiConfig
<1>4. db = {} => caps = {}
  BY <1>1
<1> HIDE DEF caps
<1>5. cap \in Nat /\ (db = {} => cap = 0)
  BY <1>3, <1>4, OrElseOf
<1> HIDE DEF cap
<1> QED BY <1>2, <1>5

LEMMA CapStep ==
  ASSUME CapInv, [ConfigNext]_configVars
  PROVE  CapInv'
<1> USE DEF CapInv
<1>1. app \in [llm : Seq(Entry), cap : Nat] /\ app.cap > 0
  BY DEF SettingsInv, ConfigTypeOK
<1>2. CASE \E c \in Client : PutConfig(c)
  <2>1. PICK c \in Client : PutConfig(c)
    BY <1>2
  <2>2. put[c].new \in Seq(Entry) /\ put[c].body \in UiConfig
    BY DEF SettingsInv, ConfigTypeOK, PutHandler
  <2> QED BY <1>1, <2>1, <2>2, ConfiguredCap, SettingsStep DEF PutConfig
<1>3. CASE Crash
  <2> DEFINE base == [llm |-> ConfigLlm, cap |-> FileCap]
  <2>1. base \in [llm : Seq(Entry), cap : Nat] /\ base.cap > 0
    BY DeploymentTypes DEF SettingsInv, ConfigTypeOK
  <2>2. app' = base \/ app' = ApplyDbOverrides(base)
    BY <1>3 DEF Crash
  <2> HIDE DEF base
  <2> QED BY <2>1, <2>2, OverriddenCap, SettingsStep
<1>4. CASE ReplayDb \/ StartServing
  <2>1. \/ UNCHANGED app
        \/ db # {} /\ Replay(OrElse(db, NoState), gl)
        \/ file # {} /\ Replay(OrElse(file, NoState), deployment.envToken)
    BY <1>4 DEF ReplayDb, StartServing, InitRuntime
  <2>2. db \in Option(UiStateFile) /\ file \in Option(UiStateFile)
    BY DEF SettingsInv, ConfigTypeOK
  <2>3. /\ db # {} => OrElse(db, NoState) \in UiStateFile
        /\ file # {} => OrElse(file, NoState) \in UiStateFile
    BY <2>2, OptionOf DEF Option
  <2> QED BY <1>1, <2>1, <2>3, ReplayedCap, SettingsStep
<1>5. CASE UNCHANGED app
  BY <1>1, <1>5, SettingsStep
<1>6. \/ \E c \in Client : PutConfig(c)
      \/ Crash \/ ReplayDb \/ StartServing \/ UNCHANGED app
  BY DEF ConfigNext, configVars, PutRead, PutResolve, PutLlm, PutUi, PutCompare, PutSave, ImportUiState, RenameImported
<1> QED BY <1>2, <1>3, <1>4, <1>5, <1>6

LEMMA SaveInit ==
  ASSUME ConfigInit
  PROVE  SaveInv
<1>1. FileCap > 0 /\ FileCap \in Nat /\ ConfigLlm \in Seq(Entry)
  BY DeploymentTypes DEF ConfigInit
<1>2. ui.cap = FileCap /\ app.cap = FileCap
  BY <1>1, FromAppConfigType DEF ConfigInit
<1>3. \A c \in Client : put[c].pc = "idle"
  BY DEF ConfigInit, IdlePut
<1> QED BY <1>1, <1>2, <1>3, SettingsInit DEF SaveInv, CapInv, OneSaveInv, ConfigInit

LEMMA SaveHandlerStep ==
  ASSUME SaveInv, OneClient, NEW c \in Client,
         \/ \E req \in deployment.requests : PutRead(c, req)
         \/ PutResolve(c) \/ PutConfig(c) \/ PutLlm(c) \/ PutUi(c) \/ PutCompare(c) \/ PutSave(c)
  PROVE  OneSaveInv'
<1>0. /\ put[c] \in PutHandler /\ put \in [Client -> PutHandler] /\ \A d \in Client : d = c
      /\ app \in [llm : Seq(Entry), cap : Nat] /\ app.cap > 0 /\ ui \in UiConfig /\ deployment \in Deployment
      /\ put[c].body \in UiConfig /\ put[c].new \in Seq(Entry)
  BY DEF SaveInv, CapInv, SettingsInv, ConfigTypeOK, OneClient, PutHandler
<1>p. phase' = phase
  BY DEF PutRead, PutResolve, PutConfig, PutLlm, PutUi, PutCompare, PutSave
<1>1. CASE \E req \in deployment.requests : PutRead(c, req)
  <2>1. PICK req \in deployment.requests : PutRead(c, req)
    BY <1>1
  <2>2. put'[c].pc = "resolve"
    BY <2>1, <1>0 DEF PutRead, PutHandler
  <2>3. UNCHANGED <<app, ui, db>> /\ phase = "up" /\ put[c].pc = "idle"
    BY <2>1 DEF PutRead
  <2> QED BY <2>2, <2>3, <1>0, <1>p DEF SaveInv, OneSaveInv
<1>2. CASE PutResolve(c)
  <2>1. put'[c].pc = "config"
    BY <1>2, <1>0 DEF PutResolve, PutHandler
  <2>2. UNCHANGED <<app, ui, db>> /\ put[c].pc = "resolve"
    BY <1>2 DEF PutResolve
  <2>3. phase = "up"
    BY <1>0, <2>2 DEF SaveInv, OneSaveInv
  <2> QED BY <2>1, <2>2, <2>3, <1>0, <1>p DEF SaveInv, OneSaveInv
<1>3. CASE PutConfig(c)
  <2>1. put'[c].pc = "llm" /\ put'[c].body = ShownCap(app, put[c].body)
    BY <1>3, <1>0 DEF PutConfig, PutHandler
  <2>2. put'[c].body.cap = app'.cap
    BY <2>1, <1>0, <1>3, ConfiguredCap DEF PutConfig
  <2>3. phase = "up" /\ UNCHANGED ui
    BY <1>0, <1>3 DEF PutConfig, SaveInv, OneSaveInv
  <2> QED BY <2>1, <2>2, <2>3, <1>0, <1>p DEF OneSaveInv
<1>4. CASE PutLlm(c)
  <2>1. put'[c].pc = "ui" /\ put'[c].body = put[c].body /\ UNCHANGED <<app, ui>> /\ put[c].pc = "llm"
    BY <1>4, <1>0 DEF PutLlm, Goto, PutHandler
  <2>2. phase = "up"
    BY <1>0, <2>1 DEF SaveInv, OneSaveInv
  <2> QED BY <2>1, <2>2, <1>0, <1>p DEF SaveInv, OneSaveInv
<1>5. CASE PutUi(c)
  <2>1. put'[c].pc \in {"compare", "save"} /\ UNCHANGED app /\ put[c].pc = "ui"
    BY <1>5, <1>0 DEF PutUi, PutHandler
  <2>2. ui'.cap = put[c].body.cap
    <3> DEFINE masked == MaskOrEmpty(gl')
    <3>1. ui' = [put[c].body EXCEPT !.token = masked]
      BY <1>5 DEF PutUi
    <3> HIDE DEF masked
    <3> QED BY <3>1, <1>0 DEF UiConfig
  <2>3. phase = "up" /\ ui'.cap = app'.cap
    BY <1>0, <2>1, <2>2 DEF SaveInv, OneSaveInv
  <2> QED BY <2>1, <2>3, <1>0, <1>p DEF OneSaveInv
<1>6. CASE PutCompare(c) \/ PutSave(c)
  <2>1. put'[c].pc \in {"save", "idle"} /\ UNCHANGED <<app, ui>> /\ put[c].pc \in {"compare", "save"}
    BY <1>6, <1>0 DEF PutCompare, PutSave, Save, PutHandler, IdlePut
  <2>2. phase = "up" /\ ui.cap = app.cap
    BY <1>0, <2>1 DEF SaveInv, OneSaveInv
  <2> QED BY <2>1, <2>2, <1>0, <1>p DEF OneSaveInv
<1> QED BY <1>1, <1>2, <1>3, <1>4, <1>5, <1>6

LEMMA SaveServerStep ==
  ASSUME SaveInv, Crash \/ ImportUiState \/ RenameImported \/ ReplayDb \/ StartServing
  PROVE  OneSaveInv'
<1>0. db \in Option(UiStateFile) /\ file \in Option(UiStateFile) /\ deployment.db \in BOOLEAN
  BY DeploymentTypes DEF SaveInv, CapInv, SettingsInv, ConfigTypeOK
<1>1. CASE Crash
  <2> DEFINE base == [llm |-> ConfigLlm, cap |-> FileCap]
  <2>1. /\ base \in [llm : Seq(Entry), cap : Nat] /\ base.cap = FileCap /\ FileCap > 0
        /\ ConfigLlm \in Seq(Entry) /\ FileCap \in Nat
    BY DeploymentTypes DEF SaveInv, CapInv, SettingsInv, ConfigTypeOK
  <2>2. app' = IF deployment.db THEN ApplyDbOverrides(base) ELSE base
    BY <1>1 DEF Crash
  <2>3. ui'.cap = FileCap
    BY <1>1, <2>1, FromAppConfigType DEF Crash
  <2>4. \A c \in Client : put'[c].pc = "idle"
    BY <1>1 DEF Crash, IdlePut
  <2>5. phase' = (IF deployment.db THEN "import" ELSE "runtime") /\ db' = db
    BY <1>1 DEF Crash
  <2> HIDE DEF base
  <2>6. db = {} \/ ~deployment.db => app'.cap = FileCap
    BY <2>1, <2>2, OverriddenCap DEF SaveInv, CapInv
  <2> QED BY <2>3, <2>4, <2>5, <2>6, <1>0 DEF OneSaveInv
<1>2. CASE ImportUiState \/ RenameImported
  <2>1. /\ UNCHANGED <<app, ui, put>> /\ phase \in {"import", "rename"} /\ phase' \in {"rename", "replay"}
        /\ db' = {} => db = {}
    BY <1>2 DEF ImportUiState, RenameImported
  <2> QED BY <2>1 DEF SaveInv, OneSaveInv
<1>3. CASE ReplayDb
  <2>1. UNCHANGED <<put, db>> /\ phase = "replay" /\ phase' = "runtime"
    BY <1>3 DEF ReplayDb
  <2>2. CASE db # {}
    <3>1. OrElse(db, NoState) \in UiStateFile /\ Replay(OrElse(db, NoState), gl)
      BY <1>0, <1>3, <2>2, OptionOf DEF Option, ReplayDb
    <3>2. ui'.cap = app'.cap
      BY <3>1, ReplayedCap DEF SaveInv
    <3> QED BY <2>1, <3>2 DEF SaveInv, OneSaveInv
  <2>3. CASE db = {}
    <3>1. UNCHANGED <<app, ui>>
      BY <1>3, <2>3 DEF ReplayDb
    <3> QED BY <2>1, <2>3, <3>1 DEF SaveInv, OneSaveInv
  <2> QED BY <2>2, <2>3
<1>4. CASE StartServing
  <2>1. UNCHANGED <<put, db>> /\ phase = "runtime" /\ phase' = "up"
    BY <1>4 DEF StartServing, InitRuntime
  <2>2. \/ UNCHANGED <<app, ui>>
        \/ file # {} /\ Replay(OrElse(file, NoState), deployment.envToken)
    BY <1>4 DEF StartServing, InitRuntime
  <2>3. file # {} => OrElse(file, NoState) \in UiStateFile
    BY <1>0, OptionOf DEF Option
  <2>4. ui'.cap = app'.cap
    BY <2>1, <2>2, <2>3, ReplayedCap DEF SaveInv, OneSaveInv
  <2> QED BY <2>1, <2>4 DEF SaveInv, OneSaveInv
<1> QED BY <1>1, <1>2, <1>3, <1>4

LEMMA SaveStep ==
  ASSUME SaveInv, OneClient, [ConfigNext]_configVars
  PROVE  SaveInv'
<1>1. CapInv'
  BY CapStep DEF SaveInv
<1>2. OneSaveInv'
  <2>1. CASE UNCHANGED configVars
    <3>1. OneSaveInv <=> OneSaveInv'
      BY <2>1 DEF configVars, OneSaveInv
    <3> QED BY <3>1 DEF SaveInv
  <2> QED BY <2>1, SaveHandlerStep, SaveServerStep DEF ConfigNext
<1> QED BY <1>1, <1>2 DEF SaveInv

\* No interleaving of PUTs and restarts brings the cap of the LLM calls to zero (RENG-107:
\* the pipeline would wait for a permit that nobody holds).
THEOREM CapIsPositive == ConfigSpec => [](app.cap > 0)
<1>1. ConfigInit => CapInv
  BY SaveInit DEF SaveInv
<1>2. CapInv /\ [ConfigNext]_configVars => CapInv'
  BY CapStep
<1>3. CapInv => app.cap > 0
  BY DEF CapInv
<1> QED BY <1>1, <1>2, <1>3, PTL DEF ConfigSpec

\* While PUTs come one at a time, the page shows the cap in force whenever the server is at
\* rest.  With two of them in flight the code does not promise it: each publishes app, llm
\* and ui under locks of their own.
THEOREM CapIsShown ==
  ASSUME OneClient
  PROVE  ConfigSpec => []CapInForce
<1>1. ConfigInit => SaveInv
  BY SaveInit
<1>2. SaveInv /\ [ConfigNext]_configVars => SaveInv'
  BY SaveStep
<1>3. SaveInv => CapInForce
  BY DEF SaveInv, CapInv, OneSaveInv, CapInForce, AtRest
<1> QED BY <1>1, <1>2, <1>3, PTL DEF ConfigSpec

-----------------------------------------------------------------------------
(* The chain a list of entries stands for.                                 *)

Enabled(entries) == Subsequence(entries, {i \in DOMAIN entries : ~entries[i].off})

LEMMA EnabledType ==
  ASSUME NEW s \in Seq(Entry)
  PROVE  /\ Enabled(s) \in Seq(Entry)
         /\ \A k \in DOMAIN Enabled(s) : \E i \in DOMAIN s : ~s[i].off /\ Enabled(s)[k] = s[i]
         /\ (\A i \in DOMAIN s : s[i].off) => Enabled(s) = <<>>
<1> DEFINE I == {i \in DOMAIN s : ~s[i].off}
<1>1. DOMAIN s = 1 .. Len(s)
  OBVIOUS
<1>2. \A i \in DOMAIN s : i \in I <=> ~s[i].off
  OBVIOUS
<1>3. Enabled(s) = Subsequence(s, I)
  BY DEF Enabled
<1> HIDE DEF I
<1>4. /\ Subsequence(s, I) \in Seq(Entry)
      /\ \A k \in DOMAIN Subsequence(s, I) : \E i \in DOMAIN s : i \in I /\ Subsequence(s, I)[k] = s[i]
  BY SubsequenceFacts
<1>5. (\A i \in DOMAIN s : s[i].off) => Subsequence(s, I) = <<>>
  BY <1>1, <1>2, SubseqNone
<1> QED BY <1>2, <1>3, <1>4, <1>5

LEMMA EnabledConcat ==
  ASSUME NEW s \in Seq(Entry), NEW t \in Seq(Entry)
  PROVE  Enabled(s \o t) = Enabled(s) \o Enabled(t)
<1> DEFINE st == s \o t
           I == {i \in DOMAIN st : ~st[i].off}
           J == {i \in Nat : Len(s) + i \in I}
           A == {i \in DOMAIN s : ~s[i].off}
           B == {i \in DOMAIN t : ~t[i].off}
<1>1. /\ st \in Seq(Entry) /\ DOMAIN s = 1 .. Len(s) /\ DOMAIN t = 1 .. Len(t) /\ Len(s) \in Nat /\ Len(t) \in Nat
      /\ DOMAIN st = 1 .. Len(s) + Len(t)
      /\ \A k \in 1 .. Len(s) : st[k] = s[k]
      /\ \A k \in 1 .. Len(t) : st[Len(s) + k] = t[k]
  OBVIOUS
<1>2. \A k \in 1 .. Len(s) : k \in I <=> k \in A
  BY <1>1
<1>3. \A k \in 1 .. Len(t) : k \in J <=> k \in B
  BY <1>1
<1>4. Enabled(st) = Subsequence(st, I) /\ Enabled(s) = Subsequence(s, A) /\ Enabled(t) = Subsequence(t, B)
  BY DEF Enabled
<1>5. Subsequence(s \o t, I) = Subsequence(s, I) \o Subsequence(t, J)
  <2>1. \A k \in 1 .. Len(t) : k \in J <=> Len(s) + k \in I
    OBVIOUS
  <2> HIDE DEF I, J
  <2> QED BY <2>1, SubseqConcat
<1> HIDE DEF I, J, A, B
<1>6. Subsequence(s, I) = Subsequence(s, A)
  BY <1>2, SubseqSame
<1>7. Subsequence(t, J) = Subsequence(t, B)
  BY <1>3, SubseqSame
<1> QED BY <1>4, <1>5, <1>6, <1>7

\* A list before, at and after one of its places.
Before(s, h) == SubSeq(s, 1, h - 1)
After(s, h) == SubSeq(s, h + 1, Len(s))

LEMMA SplitAt ==
  ASSUME NEW s \in Seq(Entry), NEW h \in DOMAIN s
  PROVE  /\ s[h] \in Entry /\ <<s[h]>> \in Seq(Entry) /\ Before(s, h) \in Seq(Entry) /\ After(s, h) \in Seq(Entry)
         /\ Len(Before(s, h)) = h - 1 /\ Len(After(s, h)) = Len(s) - h
         /\ \A i \in 1 .. h - 1 : Before(s, h)[i] = s[i]
         /\ \A i \in 1 .. Len(s) - h : After(s, h)[i] = s[h + i]
         /\ s = Before(s, h) \o (<<s[h]>> \o After(s, h))
<1> DEFINE a == Before(s, h)
           b == After(s, h)
           c == <<s[h]>> \o b
<1>0. DOMAIN s = 1 .. Len(s) /\ Len(s) \in Nat /\ h \in 1 .. Len(s)
  OBVIOUS
<1>1. s[h] \in Entry /\ <<s[h]>> \in Seq(Entry)
  OBVIOUS
<1>2. a \in Seq(Entry) /\ Len(a) = h - 1 /\ \A i \in 1 .. h - 1 : a[i] = s[i]
  BY <1>0 DEF Before
<1>3. b \in Seq(Entry) /\ Len(b) = Len(s) - h /\ \A i \in 1 .. Len(s) - h : b[i] = s[h + i]
  BY <1>0 DEF After
<1> HIDE DEF a, b
<1>4. c \in Seq(Entry) /\ Len(c) = Len(s) - h + 1 /\ c[1] = s[h] /\ \A i \in 1 .. Len(s) - h : c[i + 1] = b[i]
  BY <1>0, <1>1, <1>3
<1> HIDE DEF c
<1>5. /\ a \o c \in Seq(Entry) /\ Len(a \o c) = Len(s)
      /\ \A i \in 1 .. h - 1 : (a \o c)[i] = a[i]
      /\ \A i \in 1 .. Len(s) - h + 1 : (a \o c)[h - 1 + i] = c[i]
  <2>1. /\ a \o c \in Seq(Entry) /\ Len(a \o c) = Len(a) + Len(c)
        /\ \A i \in 1 .. Len(a) : (a \o c)[i] = a[i]
        /\ \A i \in 1 .. Len(c) : (a \o c)[Len(a) + i] = c[i]
    <3>1. a \in Seq(Entry) /\ c \in Seq(Entry)
      BY <1>2, <1>4
    <3> QED BY <3>1, ConcatAt
  <2>2. Len(a) = h - 1 /\ Len(c) = Len(s) - h + 1 /\ Len(a) + Len(c) = Len(s)
    BY <1>0, <1>2, <1>4
  <2> QED BY <2>1, <2>2
<1>6. ASSUME NEW i \in 1 .. Len(s) PROVE (a \o c)[i] = s[i]
  <2>1. CASE i < h
    BY <1>0, <1>2, <1>5, <2>1
  <2>2. CASE i = h
    <3>1. 1 \in 1 .. Len(s) - h + 1 /\ h - 1 + 1 = h
      BY <1>0
    <3> QED BY <1>4, <1>5, <2>2, <3>1
  <2>3. CASE i > h
    <3>1. i - h \in 1 .. Len(s) - h /\ i - h + 1 \in 1 .. Len(s) - h + 1
          /\ h - 1 + (i - h + 1) = i /\ h + (i - h) = i
      BY <1>0, <2>3
    <3>2. (a \o c)[h - 1 + (i - h + 1)] = c[i - h + 1]
      BY <1>5, <3>1
    <3>3. c[i - h + 1] = b[i - h]
      BY <1>4, <3>1
    <3>4. b[i - h] = s[h + (i - h)]
      BY <1>3, <3>1
    <3> QED BY <3>1, <3>2, <3>3, <3>4
  <2>4. i < h \/ i = h \/ i > h
    BY <1>0
  <2> QED BY <2>1, <2>2, <2>3, <2>4
<1> DEFINE ac == a \o c
<1>8. ac \in Seq(Entry) /\ Len(ac) = Len(s) /\ \A i \in 1 .. Len(s) : ac[i] = s[i]
  BY <1>5, <1>6
<1> HIDE DEF ac
<1>7. ac = s
  BY <1>8
<1> QED BY <1>1, <1>2, <1>3, <1>7 DEF a, b, c, ac

\* An enabled entry is all that is enabled of itself.
LEMMA EnabledAlone ==
  ASSUME NEW x \in Entry, ~x.off
  PROVE  Enabled(<<x>>) = <<x>>
<1> DEFINE s == <<x>>
           I == {i \in DOMAIN s : ~s[i].off}
<1>1. s \in Seq(Entry) /\ DOMAIN s \subseteq I
  OBVIOUS
<1>2. Enabled(s) = Subsequence(s, I)
  BY DEF Enabled
<1> HIDE DEF s, I
<1>3. Enabled(s) = s
  BY <1>1, <1>2, SubsequenceFacts
<1> QED BY <1>3 DEF s

\* The primary entry is enabled; none before it is, or none of the primary's name.
LEMMA PrimaryEntryIs ==
  ASSUME NEW primary, NEW s \in Seq(Entry), PrimaryEntry(primary, s) # NoIndex
  PROVE  LET h == PrimaryEntry(primary, s)
         IN  /\ h \in DOMAIN s /\ ~s[h].off
             /\ \/ s[h].provider = primary /\ \A i \in 1 .. h - 1 : s[i].off \/ s[i].provider # primary
                \/ /\ \A i \in DOMAIN s : s[i].off \/ s[i].provider # primary
                   /\ \A i \in 1 .. h - 1 : s[i].off
<1> DEFINE named == {i \in DOMAIN s : ~s[i].off /\ s[i].provider = primary}
           on == {i \in DOMAIN s : ~s[i].off}
<1>1. DOMAIN s = 1 .. Len(s) /\ Len(s) \in Nat
  OBVIOUS
<1>2. ASSUME NEW I \in SUBSET (DOMAIN s), I # {} PROVE Min(I) \in I /\ \A i \in I : Min(I) <= i
  <2>1. PICK n \in I : \A m \in I : n <= m
    <3>1. I \in SUBSET Nat
      BY <1>1
    <3> QED BY <1>2, <3>1, LeastNatural
  <2> QED BY <2>1 DEF Min
<1>3. CASE named # {}
  <2>1. PrimaryEntry(primary, s) = Min(named)
    BY <1>3 DEF PrimaryEntry
  <2>2. Min(named) \in named /\ \A i \in named : Min(named) <= i
    <3>1. named \in SUBSET (DOMAIN s)
      OBVIOUS
    <3> HIDE DEF named
    <3> QED BY <1>3, <1>2, <3>1
  <2> DEFINE h == Min(named)
  <2>3. h \in DOMAIN s /\ ~s[h].off /\ s[h].provider = primary
    BY <2>2
  <2> HIDE DEF h
  <2>4. \A i \in 1 .. h - 1 : i \in DOMAIN s /\ ~(h <= i)
    BY <2>3, <1>1
  <2>5. \A i \in 1 .. h - 1 : i \notin named
    BY <2>2, <2>4 DEF h
  <2>6. \A i \in 1 .. h - 1 : s[i].off \/ s[i].provider # primary
    BY <2>4, <2>5
  <2> QED BY <2>1, <2>3, <2>6 DEF h
<1>4. CASE named = {}
  <2>1. on # {} /\ PrimaryEntry(primary, s) = Min(on)
    BY <1>4 DEF PrimaryEntry
  <2>2. Min(on) \in on /\ \A i \in on : Min(on) <= i
    <3>1. on \in SUBSET (DOMAIN s)
      OBVIOUS
    <3> HIDE DEF on
    <3> QED BY <2>1, <1>2, <3>1
  <2> DEFINE h == Min(on)
  <2>3. h \in DOMAIN s /\ ~s[h].off
    BY <2>2
  <2> HIDE DEF h
  <2>4. \A i \in 1 .. h - 1 : i \in DOMAIN s /\ ~(h <= i)
    BY <2>3, <1>1
  <2>5. \A i \in 1 .. h - 1 : i \notin on
    BY <2>2, <2>4 DEF h
  <2>6. \A i \in 1 .. h - 1 : s[i].off
    BY <2>4, <2>5
  <2>7. \A i \in DOMAIN s : s[i].off \/ s[i].provider # primary
    BY <1>4
  <2> QED BY <2>1, <2>3, <2>6, <2>7 DEF h
<1> QED BY <1>3, <1>4

\* The chain starts with the primary entry and goes on with the other enabled entries in the
\* order of the list.
LEMMA LeadingEntry ==
  ASSUME NEW primary, NEW s \in Seq(Entry), NEW h, h = PrimaryEntry(primary, s), h # NoIndex
  PROVE  OrderedLlmConfigs(primary, s)
           = <<s[h]>> \o (Enabled(Before(s, h)) \o Enabled(After(s, h)))
<1> DEFINE a == Enabled(Before(s, h))
           x == s[h]
           b == Enabled(After(s, h))
           on == Enabled(s)
           head == {i \in DOMAIN on : on[i].provider = primary}
           rest(i) == SubSeq(on, 1, i - 1) \o SubSeq(on, i + 1, Len(on))
<1>1. /\ h \in DOMAIN s /\ ~s[h].off
      /\ \/ s[h].provider = primary /\ \A i \in 1 .. h - 1 : s[i].off \/ s[i].provider # primary
         \/ /\ \A i \in DOMAIN s : s[i].off \/ s[i].provider # primary
            /\ \A i \in 1 .. h - 1 : s[i].off
  BY PrimaryEntryIs
<1>2. /\ x \in Entry /\ <<x>> \in Seq(Entry) /\ Before(s, h) \in Seq(Entry) /\ After(s, h) \in Seq(Entry)
      /\ DOMAIN Before(s, h) = 1 .. h - 1 /\ \A i \in 1 .. h - 1 : Before(s, h)[i] = s[i]
      /\ s = Before(s, h) \o (<<x>> \o After(s, h))
  <2>1. /\ x \in Entry /\ <<x>> \in Seq(Entry) /\ Before(s, h) \in Seq(Entry) /\ After(s, h) \in Seq(Entry)
        /\ Len(Before(s, h)) = h - 1 /\ \A i \in 1 .. h - 1 : Before(s, h)[i] = s[i]
        /\ s = Before(s, h) \o (<<x>> \o After(s, h))
    <3> HIDE DEF a, b, on, head, rest
    <3>1. h \in DOMAIN s
      BY <1>1
    <3> HIDE DEF x
    <3>2. s[h] \in Entry /\ <<s[h]>> \in Seq(Entry)
      BY <3>1, SplitAt, Zenon
    <3>3. Before(s, h) \in Seq(Entry) /\ After(s, h) \in Seq(Entry) /\ Len(Before(s, h)) = h - 1
      BY <3>1, SplitAt, Zenon
    <3>4. \A i \in 1 .. h - 1 : Before(s, h)[i] = s[i]
      BY <3>1, SplitAt, Zenon
    <3>5. s = Before(s, h) \o (<<s[h]>> \o After(s, h))
      BY <3>1, SplitAt, ZenonT(60)
    <3> QED BY <3>2, <3>3, <3>4, <3>5 DEF x
  <2> QED BY <2>1
<1>3. on = a \o (<<x>> \o b)
  <2>1. <<x>> \o After(s, h) \in Seq(Entry)
    BY <1>2, ConcatAt
  <2>2. Enabled(s) = Enabled(Before(s, h)) \o Enabled(<<x>> \o After(s, h))
    <3> DEFINE t == <<x>> \o After(s, h)
               f == Before(s, h)
    <3>1. t \in Seq(Entry) /\ f \in Seq(Entry) /\ s = f \o t
      BY <1>2, <2>1
    <3> HIDE DEF t, f
    <3>2. Enabled(f \o t) = Enabled(f) \o Enabled(t)
      BY <3>1, EnabledConcat
    <3> QED BY <3>1, <3>2 DEF t, f
  <2>3. Enabled(<<x>> \o After(s, h)) = Enabled(<<x>>) \o Enabled(After(s, h))
    BY <1>2, EnabledConcat
  <2>4. Enabled(<<x>>) = <<x>>
    BY <1>1, <1>2, EnabledAlone
  <2> QED BY <2>2, <2>3, <2>4
<1>4. /\ a \in Seq(Entry) /\ b \in Seq(Entry)
      /\ \A k \in DOMAIN a : \E i \in 1 .. h - 1 : ~s[i].off /\ a[k] = s[i]
      /\ (\A i \in 1 .. h - 1 : s[i].off) => a = <<>>
  <2>1. /\ a \in Seq(Entry)
        /\ \A k \in DOMAIN a : \E i \in DOMAIN Before(s, h) : ~Before(s, h)[i].off /\ a[k] = Before(s, h)[i]
        /\ (\A i \in DOMAIN Before(s, h) : Before(s, h)[i].off) => a = <<>>
    BY <1>2, EnabledType
  <2>2. b \in Seq(Entry)
    BY <1>2, EnabledType
  <2> DEFINE f == Before(s, h)
  <2>3. DOMAIN f = 1 .. h - 1 /\ \A i \in 1 .. h - 1 : f[i] = s[i]
    BY <1>2
  <2> HIDE DEF a, b, f
  <2> QED BY <2>1, <2>2, <2>3 DEF f
<1>5. /\ on \in Seq(Entry)
      /\ \A k \in DOMAIN on : \E i \in DOMAIN s : ~s[i].off /\ on[k] = s[i]
  BY EnabledType
<1>6. OrderedLlmConfigs(primary, s) = IF head = {} THEN on ELSE <<on[Min(head)]>> \o rest(Min(head))
  BY DEF OrderedLlmConfigs, Enabled
<1> HIDE DEF a, b, x, on
<1>7. CASE x.provider = primary /\ \A i \in 1 .. h - 1 : s[i].off \/ s[i].provider # primary
  <2> DEFINE n == Len(a)
             xb == <<x>> \o b
  <2>1. n \in Nat /\ DOMAIN a = 1 .. n
    BY <1>4
  <2>2. xb \in Seq(Entry) /\ Len(xb) = Len(b) + 1 /\ xb[1] = x /\ \A i \in 1 .. Len(b) : xb[1 + i] = b[i]
    BY <1>2, <1>4
  <2> HIDE DEF xb
  <2>3. /\ Len(on) = n + Len(xb) /\ \A i \in 1 .. n : on[i] = a[i]
        /\ \A i \in 1 .. Len(xb) : on[n + i] = xb[i]
    <3>1. on = a \o xb
      BY <1>3 DEF xb
    <3>2. a \in Seq(Entry) /\ xb \in Seq(Entry)
      BY <1>4, <2>2
    <3>3. /\ Len(a \o xb) = Len(a) + Len(xb)
          /\ \A i \in 1 .. Len(a) : (a \o xb)[i] = a[i]
          /\ \A i \in 1 .. Len(xb) : (a \o xb)[Len(a) + i] = xb[i]
      BY <3>2, ConcatAt
    <3> QED BY <3>1, <3>3
  <2>4. Len(b) \in Nat /\ Len(on) = n + 1 + Len(b) /\ on[n + 1] = x
        /\ \A i \in 1 .. Len(b) : on[n + 1 + i] = b[i]
    <3>1. Len(b) \in Nat /\ 1 \in 1 .. Len(xb)
      BY <1>4, <2>2
    <3>2. on[n + 1] = x
      BY <2>2, <2>3, <3>1
    <3>3. ASSUME NEW i \in 1 .. Len(b) PROVE on[n + 1 + i] = b[i]
      <4>1. 1 + i \in 1 .. Len(xb) /\ n + 1 + i = n + (1 + i)
        BY <2>1, <2>2, <3>1
      <4> QED BY <2>2, <2>3, <4>1
    <3> QED BY <2>1, <2>2, <2>3, <3>1, <3>2, <3>3
  <2>5. \A i \in 1 .. n : on[i].provider # primary
    BY <1>4, <1>7, <2>1, <2>3
  <2>6. DOMAIN on = 1 .. n + 1 + Len(b)
    BY <1>5, <2>4
  <2>7. n + 1 \in head /\ \A i \in head : n + 1 <= i
    BY <1>7, <2>1, <2>4, <2>5, <2>6
  <2>8. Min(head) = n + 1 /\ head # {}
    <3>1. \A m \in head : (\A i \in head : m <= i) => m = n + 1
      BY <2>1, <2>6, <2>7
    <3> HIDE DEF head
    <3> QED BY <2>7, <3>1 DEF Min
  <2>9. SubSeq(on, 1, n) = a
    <3> DEFINE l == SubSeq(on, 1, n)
    <3>1. l \in Seq(Entry) /\ Len(l) = n /\ \A i \in 1 .. n : l[i] = on[i]
      BY <1>5, <2>1, <2>4
    <3> HIDE DEF l
    <3>2. l = a
      BY <1>4, <2>1, <2>3, <3>1
    <3> QED BY <3>2 DEF l
  <2>10. SubSeq(on, n + 2, Len(on)) = b
    <3> DEFINE r == SubSeq(on, n + 2, n + 1 + Len(b))
    <3>1. r \in Seq(Entry) /\ Len(r) = Len(b) /\ \A i \in 1 .. Len(b) : r[i] = on[n + 1 + i]
      BY <1>5, <2>1, <2>4
    <3> HIDE DEF r
    <3>2. \A i \in 1 .. Len(b) : r[i] = b[i]
      BY <2>4, <3>1
    <3>3. r = b
      BY <1>4, <3>1, <3>2, SameSequence
    <3> QED BY <2>4, <3>3 DEF r
  <2>11. rest(n + 1) = a \o b
    <3> DEFINE m == n + 1
    <3>1. m - 1 = n /\ m + 1 = n + 2
      BY <2>1
    <3> HIDE DEF m, n
    <3>2. SubSeq(on, 1, m - 1) = a /\ SubSeq(on, m + 1, Len(on)) = b
      BY <2>9, <2>10, <3>1
    <3> QED BY <3>2 DEF m
  <2> HIDE DEF n, head, rest
  <2> QED BY <1>6, <2>4, <2>8, <2>11 DEF a, b, x
<1>8. CASE (\A i \in DOMAIN s : s[i].off \/ s[i].provider # primary) /\ \A i \in 1 .. h - 1 : s[i].off
  <2>1. a = <<>>
    BY <1>4, <1>8
  <2>2. head = {}
    BY <1>5, <1>8
  <2>3. <<>> \o (<<x>> \o b) = <<x>> \o b /\ <<>> \o b = b
    <3>1. <<x>> \o b \in Seq(Entry)
      BY <1>2, <1>4, ConcatAt
    <3>2. \A l \in Seq(Entry) : <<>> \o l = l
      OBVIOUS
    <3> QED BY <1>4, <3>1, <3>2
  <2> QED BY <1>3, <1>6, <2>1, <2>2, <2>3 DEF a, b, x
<1> QED BY <1>1, <1>7, <1>8 DEF x

\* With nothing enabled there is no chain.
LEMMA NoChain ==
  ASSUME NEW primary, NEW s \in Seq(Entry), \A i \in DOMAIN s : s[i].off
  PROVE  OrderedLlmConfigs(primary, s) = <<>>
<1> DEFINE on == Enabled(s)
           head == {i \in DOMAIN on : on[i].provider = primary}
           rest(i) == SubSeq(on, 1, i - 1) \o SubSeq(on, i + 1, Len(on))
<1>1. on = <<>>
  BY EnabledType
<1>2. OrderedLlmConfigs(primary, s) = IF head = {} THEN on ELSE <<on[Min(head)]>> \o rest(Min(head))
  BY DEF OrderedLlmConfigs, Enabled
<1> HIDE DEF on, rest
<1>3. head = {}
  BY <1>1
<1> QED BY <1>1, <1>2, <1>3

LEMMA NoPrimaryEntry ==
  ASSUME NEW primary, NEW s \in Seq(Entry), PrimaryEntry(primary, s) = NoIndex
  PROVE  \A i \in DOMAIN s : s[i].off
<1> DEFINE on == {i \in DOMAIN s : ~s[i].off}
           named == {i \in DOMAIN s : ~s[i].off /\ s[i].provider = primary}
<1>1. DOMAIN s = 1 .. Len(s) /\ Len(s) \in Nat
  OBVIOUS
<1>2. \A I \in SUBSET (1 .. Len(s)) : I # {} => Min(I) \in 1 .. Len(s)
  BY <1>1, MinOf
<1>3. named # {} => PrimaryEntry(primary, s) = Min(named)
  BY DEF PrimaryEntry
<1>4. named = {} /\ on # {} => PrimaryEntry(primary, s) = Min(on)
  BY DEF PrimaryEntry
<1>5. named \in SUBSET (1 .. Len(s)) /\ on \in SUBSET (1 .. Len(s))
  BY <1>1
<1>6. NoIndex \notin 1 .. Len(s)
  BY DEF NoIndex
<1>7. named = {} /\ on = {}
  <2> HIDE DEF named, on
  <2> QED BY <1>2, <1>3, <1>4, <1>5, <1>6
<1> QED BY <1>7

-----------------------------------------------------------------------------
(* Orderly lists: one openai account, and a real key for every entry.      *)

OneOpenAi(list) == \A i, j \in DOMAIN list : list[i].provider = "openai" /\ list[j].provider = "openai" => i = j
RealKeys(list) == \A e \in Range(list) : ~IsBlankOrMasked(e.key) /\ e.provider # Blank
Orderly(list) == OneOpenAi(list) /\ RealKeys(list)

LEMMA PartIsOrderly ==
  ASSUME NEW s \in Seq(Entry), Orderly(s), NEW I
  PROVE  Orderly(Subsequence(s, I))
<1> DEFINE r == Subsequence(s, I)
<1>1. /\ r \in Seq(Entry)
      /\ \A k \in DOMAIN r : \E i \in DOMAIN s : r[k] = s[i]
      /\ \A k, l \in DOMAIN r : k < l => \E i, j \in DOMAIN s : i < j /\ r[k] = s[i] /\ r[l] = s[j]
  BY SubsequenceFacts
<1> HIDE DEF r
<1>2. DOMAIN r = 1 .. Len(r) /\ Len(r) \in Nat /\ DOMAIN s = 1 .. Len(s) /\ Len(s) \in Nat
  BY <1>1
<1>3. ASSUME NEW k \in DOMAIN r, NEW l \in DOMAIN r, k < l, r[k].provider = "openai", r[l].provider = "openai"
      PROVE  FALSE
  <2>1. PICK i, j \in DOMAIN s : i < j /\ r[k] = s[i] /\ r[l] = s[j]
    BY <1>1, <1>3
  <2>2. i = j
    BY <1>3, <2>1 DEF Orderly, OneOpenAi
  <2> QED BY <1>2, <2>1, <2>2
<1>4. OneOpenAi(r)
  <2>1. \A k, l \in DOMAIN r : k = l \/ k < l \/ l < k
    BY <1>2
  <2> QED BY <1>3, <2>1 DEF OneOpenAi
<1>5. RealKeys(r)
  BY <1>1 DEF Orderly, RealKeys, Range
<1> QED BY <1>4, <1>5 DEF Orderly, r

\* Where the elements are when one of them leads.
LEMMA LeadAt ==
  ASSUME NEW s \in Seq(Entry), NEW m \in DOMAIN s
  PROVE  LET all == <<s[m]>> \o (Before(s, m) \o After(s, m))
         IN  /\ all \in Seq(Entry) /\ Len(all) = Len(s) /\ all[1] = s[m]
             /\ \A i \in 1 .. m - 1 : all[1 + i] = s[i]
             /\ \A i \in m + 1 .. Len(s) : all[i] = s[i]
<1> DEFINE a == Before(s, m)
           b == After(s, m)
           x == s[m]
           t == a \o b
           all == <<x>> \o t
<1>0. Len(s) \in Nat /\ m \in 1 .. Len(s)
  OBVIOUS
<1>1. /\ x \in Entry /\ a \in Seq(Entry) /\ b \in Seq(Entry) /\ Len(a) = m - 1 /\ Len(b) = Len(s) - m
      /\ \A i \in 1 .. m - 1 : a[i] = s[i]
      /\ \A i \in 1 .. Len(s) - m : b[i] = s[m + i]
  BY SplitAt
<1> HIDE DEF a, b, x
<1>2. /\ t \in Seq(Entry) /\ Len(t) = Len(s) - 1
      /\ \A i \in 1 .. m - 1 : t[i] = s[i]
      /\ \A i \in 1 .. Len(s) - m : t[m - 1 + i] = s[m + i]
  <2>1. a \in Seq(Entry) /\ b \in Seq(Entry)
    BY <1>1
  <2>2. /\ t \in Seq(Entry) /\ Len(t) = Len(a) + Len(b)
        /\ \A i \in 1 .. Len(a) : t[i] = a[i]
        /\ \A i \in 1 .. Len(b) : t[Len(a) + i] = b[i]
    BY <2>1, ConcatAt
  <2> HIDE DEF t
  <2>3. Len(a) = m - 1 /\ Len(b) = Len(s) - m /\ (m - 1) + (Len(s) - m) = Len(s) - 1
    BY <1>0, <1>1
  <2>4. Len(t) = Len(s) - 1
    BY <2>2, <2>3
  <2>5. \A i \in 1 .. m - 1 : t[i] = s[i]
    BY <1>1, <2>2, <2>3
  <2>6. \A i \in 1 .. Len(s) - m : t[m - 1 + i] = s[m + i]
    BY <1>1, <2>2, <2>3
  <2> QED BY <2>2, <2>4, <2>5, <2>6
<1> HIDE DEF t
<1>3. /\ all \in Seq(Entry) /\ Len(all) = 1 + Len(t) /\ all[1] = x
      /\ \A i \in 1 .. Len(t) : all[1 + i] = t[i]
  BY <1>1, <1>2, SMTT(30)
<1> HIDE DEF all
<1>4. Len(all) = Len(s)
  BY <1>0, <1>2, <1>3
<1>5. ASSUME NEW i \in 1 .. m - 1 PROVE all[1 + i] = s[i]
  <2>1. i \in 1 .. Len(t)
    BY <1>0, <1>2
  <2> QED BY <1>2, <1>3, <2>1
<1>6. ASSUME NEW i \in m + 1 .. Len(s) PROVE all[i] = s[i]
  <2>1. /\ i - m \in 1 .. Len(s) - m /\ i - 1 \in 1 .. Len(t)
        /\ m - 1 + (i - m) = i - 1 /\ m + (i - m) = i /\ 1 + (i - 1) = i
    BY <1>0, <1>2
  <2>2. t[i - 1] = s[i]
    BY <1>2, <2>1
  <2> QED BY <1>3, <2>1, <2>2
<1> QED BY <1>3, <1>4, <1>5, <1>6 DEF all, t, a, b, x

LEMMA LeadIsOrderly ==
  ASSUME NEW s \in Seq(Entry), Orderly(s), NEW m \in DOMAIN s
  PROVE  Orderly(<<s[m]>> \o (Before(s, m) \o After(s, m)))
<1> DEFINE all == <<s[m]>> \o (Before(s, m) \o After(s, m))
           from == [k \in DOMAIN s |-> IF k = 1 THEN m ELSE IF k <= m THEN k - 1 ELSE k]
<1>0. Len(s) \in Nat /\ m \in 1 .. Len(s) /\ DOMAIN s = 1 .. Len(s)
  OBVIOUS
<1>1. /\ all \in Seq(Entry) /\ Len(all) = Len(s) /\ all[1] = s[m]
      /\ \A i \in 1 .. m - 1 : all[1 + i] = s[i]
      /\ \A i \in m + 1 .. Len(s) : all[i] = s[i]
  BY LeadAt
<1> HIDE DEF all
<1>2. DOMAIN all = 1 .. Len(s)
  BY <1>1
<1>3. ASSUME NEW k \in 1 .. Len(s) PROVE from[k] \in 1 .. Len(s) /\ all[k] = s[from[k]]
  <2>1. CASE k = 1
    BY <1>0, <1>1, <2>1
  <2>2. CASE k # 1 /\ k <= m
    <3>1. k - 1 \in 1 .. m - 1 /\ 1 + (k - 1) = k /\ from[k] = k - 1 /\ k - 1 \in 1 .. Len(s)
      BY <1>0, <2>2
    <3> QED BY <1>1, <3>1
  <2>3. CASE k > m
    <3>1. k \in m + 1 .. Len(s) /\ from[k] = k
      BY <1>0, <2>3
    <3> QED BY <1>1, <3>1
  <2>4. k = 1 \/ (k # 1 /\ k <= m) \/ k > m
    BY <1>0
  <2> QED BY <2>1, <2>2, <2>3, <2>4
<1>4. \A k, l \in 1 .. Len(s) : from[k] = from[l] => k = l
  BY <1>0
<1> HIDE DEF from
<1>5. OneOpenAi(all)
  BY <1>0, <1>2, <1>3, <1>4 DEF Orderly, OneOpenAi
<1>6. RealKeys(all)
  BY <1>0, <1>2, <1>3 DEF Orderly, RealKeys, Range
<1> QED BY <1>5, <1>6 DEF Orderly, all

LEMMA ChainIsOrderly ==
  ASSUME NEW primary, NEW s \in Seq(Entry), Orderly(s)
  PROVE  Orderly(OrderedLlmConfigs(primary, s))
<1> DEFINE on == Enabled(s)
           head == {i \in DOMAIN on : on[i].provider = primary}
           m == Min(head)
<1>1. on \in Seq(Entry) /\ Orderly(on)
  BY EnabledType, PartIsOrderly DEF Enabled
<1>2. OrderedLlmConfigs(primary, s)
        = IF head = {} THEN on ELSE <<on[m]>> \o (SubSeq(on, 1, m - 1) \o SubSeq(on, m + 1, Len(on)))
  BY DEF OrderedLlmConfigs, Enabled
<1> HIDE DEF on
<1>3. CASE head = {}
  BY <1>1, <1>2, <1>3
<1>4. CASE head # {}
  <2>1. m \in DOMAIN on
    <3>1. head \in SUBSET (1 .. Len(on)) /\ Len(on) \in Nat /\ DOMAIN on = 1 .. Len(on)
      BY <1>1
    <3>2. m \in head
      <4> HIDE DEF head
      <4> QED BY <3>1, <1>4, MinOf
    <3> QED BY <3>2
  <2> HIDE DEF m, head
  <2>2. Orderly(<<on[m]>> \o (Before(on, m) \o After(on, m)))
    BY <1>1, <2>1, LeadIsOrderly
  <2> QED BY <1>2, <1>4, <2>2 DEF Before, After
<1> QED BY <1>3, <1>4

-----------------------------------------------------------------------------
(* The list a request leads to is orderly.                                 *)

\* The card the mirror stands for is an openai card, and there is none without one.
LEMMA ConsumedCard ==
  ASSUME NEW body \in UiConfig
  PROVE  LET o == LegacyConsumed(body)
         IN  /\ o # NoIndex => o \in DOMAIN body.providers /\ body.providers[o].provider = "openai"
             /\ o = NoIndex => \A i \in DOMAIN body.providers : body.providers[i].provider # "openai"
<1> DEFINE cards == body.providers
           named == {i \in DOMAIN cards : cards[i].provider = "openai"}
           exact == {i \in DOMAIN cards : cards[i].provider = "openai" /\ cards[i].at = body.at}
<1>1. DOMAIN cards = 1 .. Len(cards) /\ Len(cards) \in Nat
  BY DEF UiConfig
<1>2. \A I \in SUBSET (1 .. Len(cards)) : I # {} => Min(I) \in I
  BY <1>1, MinOf
<1>3. LegacyConsumed(body) = IF exact # {} THEN Min(exact) ELSE IF named # {} THEN Min(named) ELSE NoIndex
  BY DEF LegacyConsumed
<1>4. exact \subseteq named /\ named \in SUBSET (1 .. Len(cards)) /\ exact \in SUBSET (1 .. Len(cards))
  BY <1>1
<1>5. LegacyConsumed(body) \in named \/ (named = {} /\ LegacyConsumed(body) = NoIndex)
  <2> HIDE DEF named, exact
  <2> QED BY <1>2, <1>3, <1>4
<1>6. NoIndex \notin named
  BY <1>4 DEF NoIndex
<1> QED BY <1>5, <1>6

LEMMA ResolvedAt ==
  ASSUME NEW body \in UiConfig, NEW stored \in Seq(Entry), NEW stated \in BOOLEAN
  PROVE  LET r == Resolved(body, stored, stated)
         IN  /\ r \in Seq(Entry) /\ DOMAIN r = DOMAIN body.providers
             /\ \A i \in DOMAIN body.providers :
                  /\ r[i].provider = body.providers[i].provider
                  /\ r[i] = ResolvedCard(body, stored, i)
                     \/ (LegacyApplies(body, stored, stated) /\ i = LegacyConsumed(body))
<1> DEFINE r == Resolved(body, stored, stated)
<1>1. r \in Seq(Entry)
  BY NewLlmConfigsType
<1>2. DOMAIN r = DOMAIN body.providers
  BY DEF Resolved
<1>3. ASSUME NEW i \in DOMAIN body.providers
      PROVE  \/ r[i] = ResolvedCard(body, stored, i)
             \/ LegacyApplies(body, stored, stated) /\ i = LegacyConsumed(body) /\ r[i] = LegacyEntry(body, stored)
  BY DEF Resolved
<1>4. \A i \in DOMAIN body.providers : ResolvedCard(body, stored, i).provider = body.providers[i].provider
  BY ResolvedCardType
<1>5. LegacyEntry(body, stored).provider = "openai"
  BY LegacyEntryType
<1>6. \A i \in DOMAIN body.providers : i = LegacyConsumed(body) => body.providers[i].provider = "openai"
  <2>1. NoIndex \notin DOMAIN body.providers
    BY DEF NoIndex, UiConfig
  <2> QED BY <2>1, ConsumedCard
<1> HIDE DEF r
<1>7. \A i \in DOMAIN body.providers : r[i].provider = body.providers[i].provider
  BY <1>3, <1>4, <1>5, <1>6
<1> QED BY <1>1, <1>2, <1>3, <1>7 DEF r

LEMMA CardsAreOne ==
  ASSUME NEW entries \in Seq(Entry), NEW masked \in BOOLEAN, OneOpenAi(entries)
  PROVE  OneOpenAi(Cards(entries, masked))
<1>1. /\ DOMAIN Cards(entries, masked) = DOMAIN entries
      /\ \A i \in DOMAIN entries : Cards(entries, masked)[i].provider = entries[i].provider
  BY CardsType
<1> QED BY <1>1 DEF OneOpenAi

LEMMA NewIsReal ==
  ASSUME NEW body \in UiConfig, NEW stored \in Seq(Entry), NEW stated \in BOOLEAN, RealKeys(stored)
  PROVE  RealKeys(NewLlmConfigs(body, stored, stated))
<1>1. ASSUME NEW e \in Range(NewLlmConfigs(body, stored, stated)) PROVE ~IsBlankOrMasked(e.key) /\ e.provider # Blank
  <2>1. /\ e.key # Blank
        /\ \/ e = LegacyEntry(body, stored)
           \/ \E i \in DOMAIN body.providers : e = ResolvedCard(body, stored, i)
    BY NewLlmConfigsType
  <2>2. CASE e = LegacyEntry(body, stored)
    <3> DEFINE ref == LegacyRef(stored, body.at)
    <3>1. e.provider = "openai" /\ e.key = ResolveKey(body.skey, ref)
      BY <2>2, LegacyEntryType
    <3>2. \A x \in ref : x \in Entry /\ x \in Range(stored)
      BY LegacyRefIn
    <3>3. body.skey \in Text /\ ref \in SUBSET Entry
      BY <3>2 DEF UiConfig
    <3> HIDE DEF ref
    <3>4. \/ e.key = body.skey /\ ~IsBlankOrMasked(body.skey)
          \/ \E x \in ref : e.key = x.key
      BY <2>1, <3>1, <3>3, ResolveKeyIn
    <3>5. "openai" # Blank
      BY DEF Blank
    <3> QED BY <3>1, <3>2, <3>4, <3>5 DEF RealKeys
  <2>3. CASE \E i \in DOMAIN body.providers : e = ResolvedCard(body, stored, i)
    <3>1. PICK i \in DOMAIN body.providers : e = ResolvedCard(body, stored, i)
      BY <2>3
    <3> DEFINE p == body.providers[i]
    <3>2. /\ e.provider = p.provider
          /\ \/ e.key = p.key /\ ~IsBlankOrMasked(p.key)
             \/ e.key = Blank
             \/ \E x \in Range(stored) : e.key = x.key
      BY <3>1, ResolvedCardType
    <3>3. p.provider = Blank => e.key = Blank
      BY <3>1 DEF ResolvedCard
    <3> HIDE DEF p
    <3> QED BY <2>1, <3>2, <3>3 DEF RealKeys
  <2> QED BY <2>1, <2>2, <2>3
<1> QED BY <1>1 DEF RealKeys

LEMMA NewIsOrderly ==
  ASSUME NEW body \in UiConfig, NEW stored \in Seq(Entry), NEW stated \in BOOLEAN,
         RealKeys(stored), OneOpenAi(body.providers)
  PROVE  /\ Orderly(NewLlmConfigs(body, stored, stated))
         /\ OneOpenAi(Cards(Resolved(body, stored, stated), TRUE))
<1> DEFINE applies == LegacyApplies(body, stored, stated)
           cards == Resolved(body, stored, stated)
           o == LegacyConsumed(body)
           legacy == LegacyEntry(body, stored)
           listed == [i \in DOMAIN cards |-> IF applies /\ i = o THEN NoEntry ELSE cards[i]]
           I == {i \in DOMAIN listed : listed[i].key # Blank}
           kept == Subsequence(listed, I)
           new == NewLlmConfigs(body, stored, stated)
<1>1. RealKeys(new)
  BY NewIsReal
<1>2. /\ cards \in Seq(Entry) /\ DOMAIN cards = DOMAIN body.providers
      /\ \A i \in DOMAIN body.providers : cards[i].provider = body.providers[i].provider
  BY ResolvedAt
<1>3. OneOpenAi(cards)
  BY <1>2 DEF OneOpenAi
<1>4. OneOpenAi(Cards(cards, TRUE))
  BY <1>2, <1>3, CardsAreOne
<1>5. legacy \in Entry /\ legacy.provider = "openai"
  BY LegacyEntryType
<1>6. new = (IF applies THEN <<legacy>> ELSE <<>>) \o kept
  BY DEF NewLlmConfigs
<1>7. /\ o # NoIndex => o \in DOMAIN body.providers /\ body.providers[o].provider = "openai"
      /\ o = NoIndex => \A i \in DOMAIN body.providers : body.providers[i].provider # "openai"
  BY ConsumedCard
<1> HIDE DEF applies, cards, legacy, o
<1>8. /\ DOMAIN listed = DOMAIN cards
      /\ \A i \in DOMAIN listed : listed[i] = IF applies /\ i = o THEN NoEntry ELSE cards[i]
  OBVIOUS
<1>9. listed \in Seq(Entry)
  <2>1. NoEntry \in Entry
    BY DEF NoEntry, Entry, Text
  <2>2. DOMAIN cards = 1 .. Len(cards) /\ Len(cards) \in Nat
    BY <1>2
  <2>3. listed \in [1 .. Len(cards) -> Entry]
    BY <1>2, <2>1, <2>2
  <2> QED BY <2>2, <2>3, AsSequence
<1>10. NoEntry.key = Blank /\ NoEntry.provider # "openai"
  BY DEF NoEntry, Blank
<1> HIDE DEF listed
<1>11. /\ kept \in Seq(Entry)
       /\ \A k \in DOMAIN kept : \E i \in DOMAIN listed : listed[i].key # Blank /\ kept[k] = listed[i]
       /\ \A k, l \in DOMAIN kept : k < l => \E i, j \in DOMAIN listed : i < j /\ kept[k] = listed[i] /\ kept[l] = listed[j]
  <2>0. \A i : i \in I => i \in DOMAIN listed /\ listed[i].key # Blank
    OBVIOUS
  <2> HIDE DEF I
  <2>1. /\ kept \in Seq(Entry)
        /\ \A k \in DOMAIN kept : \E i \in DOMAIN listed : i \in I /\ kept[k] = listed[i]
        /\ \A k, l \in DOMAIN kept : k < l =>
             \E i, j \in DOMAIN listed : i < j /\ i \in I /\ j \in I /\ kept[k] = listed[i] /\ kept[l] = listed[j]
    BY <1>9, SubsequenceFacts
  <2> HIDE DEF kept
  <2> QED BY <2>0, <2>1
<1> HIDE DEF kept, new, I
<1>12. CASE ~applies
  <2>1. new = kept
    <3>1. \A l \in Seq(Entry) : <<>> \o l = l
      OBVIOUS
    <3> QED BY <1>6, <1>11, <1>12, <3>1
  <2>2. DOMAIN kept = 1 .. Len(kept) /\ Len(kept) \in Nat /\ DOMAIN listed = 1 .. Len(listed) /\ Len(listed) \in Nat
    BY <1>9, <1>11
  <2>3. ASSUME NEW k \in DOMAIN kept, NEW l \in DOMAIN kept, k < l,
               kept[k].provider = "openai", kept[l].provider = "openai"
        PROVE  FALSE
    <3>1. PICK i, j \in DOMAIN listed : i < j /\ kept[k] = listed[i] /\ kept[l] = listed[j]
      BY <1>11, <2>3
    <3>2. i = j
      BY <1>3, <1>8, <1>12, <2>3, <3>1 DEF OneOpenAi
    <3> QED BY <2>2, <3>1, <3>2
  <2>4. OneOpenAi(kept)
    <3>1. \A k, l \in DOMAIN kept : k = l \/ k < l \/ l < k
      BY <2>2
    <3> QED BY <2>3, <3>1 DEF OneOpenAi
  <2> QED BY <1>1, <1>4, <2>1, <2>4 DEF Orderly, new, cards
<1>13. CASE applies
  <2>1. new = <<legacy>> \o kept
    BY <1>6, <1>13
  <2>2. ASSUME NEW k \in DOMAIN kept PROVE kept[k].provider # "openai"
    <3>1. PICK i \in DOMAIN listed : listed[i].key # Blank /\ kept[k] = listed[i]
      BY <1>11
    <3>2. i # o /\ listed[i] = cards[i] /\ i \in DOMAIN body.providers
      BY <1>2, <1>8, <1>10, <1>13, <3>1
    <3>3. body.providers[i].provider # "openai"
      BY <1>7, <3>2 DEF OneOpenAi
    <3> QED BY <1>2, <3>1, <3>2, <3>3
  <2>3. /\ Len(new) = 1 + Len(kept) /\ \A i \in 1 .. Len(kept) : new[1 + i] = kept[i]
        /\ new \in Seq(Entry) /\ DOMAIN kept = 1 .. Len(kept) /\ Len(kept) \in Nat
    BY <1>5, <1>11, <2>1
  <2>4. ASSUME NEW i \in DOMAIN new, new[i].provider = "openai" PROVE i = 1
    <3>1. i \in 1 .. 1 + Len(kept)
      BY <2>3
    <3>2. CASE i # 1
      <4>1. i - 1 \in 1 .. Len(kept) /\ 1 + (i - 1) = i
        BY <2>3, <3>1, <3>2
      <4> QED BY <2>2, <2>3, <2>4, <4>1
    <3> QED BY <3>2
  <2>5. OneOpenAi(new)
    BY <2>4 DEF OneOpenAi
  <2> QED BY <1>1, <1>4, <2>5 DEF Orderly, new, cards
<1> QED BY <1>12, <1>13

-----------------------------------------------------------------------------
(* What a replay makes of a stored list.                                   *)

OpenAiWithin(list, stored) == \A e \in Range(list) : e.provider = "openai" => e \in Range(stored)

ListsAll(body, stored) == body.providers = Cards(stored, FALSE)

\* The submission a stored list stands for: its entries with their keys, and the mirror of
\* its primary entry h with the key of its openai entry.
Replays(body, stored, h) ==
  /\ ListsAll(body, stored)
  /\ body.skey = FirstOpenAiKey(stored)
  /\ h # NoIndex => /\ h \in DOMAIN stored
                    /\ body.primary = stored[h].provider /\ body.at = stored[h].at /\ body.tag = stored[h].tag

\* Every card resolves to the entry it was made from.
LEMMA ReplayedCard ==
  ASSUME NEW body \in UiConfig, NEW saved \in Seq(Entry), NEW existing \in Seq(Entry), RealKeys(saved),
         ListsAll(body, saved), NEW i \in DOMAIN saved
  PROVE  ResolvedCard(body, existing, i) = saved[i] /\ body.providers[i].off = {saved[i].off}
<1> DEFINE p == body.providers[i]
           kept == IF p.provider = Blank THEN {} ELSE StoredFor(existing, i, p.provider, p.at)
           x == saved[i]
<1>1. p = [provider |-> x.provider, at |-> x.at, key |-> x.key, off |-> {x.off}, tag |-> x.tag]
  BY DEF Cards, ListsAll
<1>2. x \in Entry /\ ~IsBlankOrMasked(x.key) /\ x.provider # Blank
  BY DEF RealKeys, Range
<1>3. ResolvedCard(body, existing, i)
        = [provider |-> p.provider, at |-> p.at,
           key |-> IF p.provider = Blank THEN Blank ELSE ResolveKey(p.key, kept),
           off |-> ResolveDisabled(p.off, kept), tag |-> p.tag]
  BY DEF ResolvedCard
<1> HIDE DEF p, kept, x
<1>4. ResolveKey(p.key, kept) = x.key
  BY <1>1, <1>2 DEF ResolveKey
<1>5. ResolveDisabled(p.off, kept) = x.off
  BY <1>1, OrElseOne DEF ResolveDisabled
<1>6. p.provider = x.provider /\ p.at = x.at /\ p.tag = x.tag /\ p.off = {x.off}
  BY <1>1
<1>7. x = [provider |-> x.provider, at |-> x.at, key |-> x.key, off |-> x.off, tag |-> x.tag]
  BY <1>2 DEF Entry
<1> QED BY <1>2, <1>3, <1>4, <1>5, <1>6, <1>7 DEF p, x

LEMMA FirstOpenAiKeyIs ==
  ASSUME NEW saved \in Seq(Entry)
  PROVE  /\ (\A i \in DOMAIN saved : saved[i].provider # "openai") => FirstOpenAiKey(saved) = Blank
         /\ \A o \in DOMAIN saved : saved[o].provider = "openai" /\ OneOpenAi(saved) =>
              FirstOpenAiKey(saved) = saved[o].key
<1> DEFINE ours == {i \in DOMAIN saved : saved[i].provider = "openai"}
<1>1. ours \in SUBSET (1 .. Len(saved)) /\ Len(saved) \in Nat /\ DOMAIN saved = 1 .. Len(saved)
  OBVIOUS
<1>2. ours # {} => Min(ours) \in ours
  <2> HIDE DEF ours
  <2> QED BY <1>1, MinOf
<1>3. FirstOpenAiKey(saved) = IF ours # {} THEN saved[Min(ours)].key ELSE Blank
  BY DEF FirstOpenAiKey, Some, First
<1> QED BY <1>2, <1>3 DEF OneOpenAi

\* Without a mirror that applies the list is the stored one.
LEMMA ReplayedPlain ==
  ASSUME NEW body \in UiConfig, NEW saved \in Seq(Entry), NEW existing \in Seq(Entry), RealKeys(saved),
         ListsAll(body, saved), ~LegacyApplies(body, existing, TRUE)
  PROVE  NewLlmConfigs(body, existing, TRUE) = saved
<1> DEFINE cards == Resolved(body, existing, TRUE)
           applies == LegacyApplies(body, existing, TRUE)
           listed == [i \in DOMAIN cards |-> IF applies /\ i = LegacyConsumed(body) THEN NoEntry ELSE cards[i]]
           I == {i \in DOMAIN listed : listed[i].key # Blank}
<1>1. /\ cards \in Seq(Entry) /\ DOMAIN cards = DOMAIN body.providers
      /\ \A i \in DOMAIN body.providers : cards[i] = ResolvedCard(body, existing, i)
  BY ResolvedAt
<1>2. DOMAIN body.providers = DOMAIN saved
  BY CardsType DEF ListsAll
<1>3. ASSUME NEW i \in DOMAIN saved PROVE cards[i] = saved[i]
  <2>1. ResolvedCard(body, existing, i) = saved[i]
    BY ReplayedCard
  <2> QED BY <1>1, <1>2, <2>1
<1> HIDE DEF cards
<1>4. Len(cards) = Len(saved)
  <2>1. cards \in Seq(Entry) /\ DOMAIN cards = DOMAIN saved
    BY <1>1, <1>2
  <2> QED BY <2>1, SameLength
<1>5. cards = saved
  <2>1. \A i \in 1 .. Len(cards) : cards[i] = saved[i]
    BY <1>3, <1>4
  <2> QED BY <1>1, <1>4, <2>1, SameSequence
<1>6. listed = cards
  BY <1>1
<1>7. NewLlmConfigs(body, existing, TRUE)
        = (IF applies THEN <<LegacyEntry(body, existing)>> ELSE <<>>) \o Subsequence(listed, I)
  BY DEF NewLlmConfigs, cards
<1>8. NewLlmConfigs(body, existing, TRUE) = <<>> \o Subsequence(listed, I)
  BY <1>7
<1>9. listed = saved
  BY <1>5, <1>6
<1> HIDE DEF listed
<1>10. DOMAIN saved \subseteq I
  BY <1>9 DEF RealKeys, Range, IsBlankOrMasked
<1>11. Subsequence(listed, I) = saved
  <2> HIDE DEF I
  <2> QED BY <1>9, <1>10, SubsequenceFacts
<1>12. \A l \in Seq(Entry) : <<>> \o l = l
  OBVIOUS
<1> QED BY <1>8, <1>11, <1>12

\* A list with one place left out.
LEMMA HoleDropped ==
  ASSUME NEW s \in Seq(Entry), NEW o \in DOMAIN s, NEW l \in Seq(Entry), Len(l) = Len(s),
         \A i \in 1 .. Len(s) : i # o => l[i] = s[i],
         NEW I, \A i \in 1 .. Len(s) : i \in I <=> i # o
  PROVE  Subsequence(l, I) = Before(s, o) \o After(s, o)
<1> DEFINE a == Before(l, o)
           b == After(l, o)
           x == <<l[o]>>
           xb == x \o b
           J == {i \in Nat : (o - 1) + i \in I}
           K == {i \in Nat : 1 + i \in J}
<1>0. o \in 1 .. Len(s) /\ Len(s) \in Nat /\ DOMAIN l = 1 .. Len(s) /\ o \in DOMAIN l
  OBVIOUS
<1>1. /\ x \in Seq(Entry) /\ a \in Seq(Entry) /\ b \in Seq(Entry)
      /\ Len(a) = o - 1 /\ Len(b) = Len(s) - o
      /\ \A i \in 1 .. o - 1 : a[i] = l[i]
      /\ \A i \in 1 .. Len(s) - o : b[i] = l[o + i]
      /\ l = a \o xb
  <2>1. /\ x \in Seq(Entry) /\ a \in Seq(Entry) /\ b \in Seq(Entry)
        /\ Len(a) = o - 1 /\ Len(b) = Len(l) - o
        /\ \A i \in 1 .. o - 1 : a[i] = l[i]
        /\ \A i \in 1 .. Len(l) - o : b[i] = l[o + i]
        /\ l = a \o xb
    <3>1. o \in DOMAIN l
      BY <1>0
    <3> QED BY <3>1, SplitAt
  <2> HIDE DEF a, b, x, xb
  <2> QED BY <2>1
<1>2. /\ Before(s, o) \in Seq(Entry) /\ After(s, o) \in Seq(Entry)
      /\ Len(Before(s, o)) = o - 1 /\ Len(After(s, o)) = Len(s) - o
      /\ \A i \in 1 .. o - 1 : Before(s, o)[i] = s[i]
      /\ \A i \in 1 .. Len(s) - o : After(s, o)[i] = s[o + i]
  BY SplitAt
<1>x. Len(x) = 1
  OBVIOUS
<1> HIDE DEF a, b, x
<1>3. a = Before(s, o)
  <2>1. \A i \in 1 .. o - 1 : i \in 1 .. Len(s) /\ i # o
    BY <1>0
  <2>2. \A i \in 1 .. Len(a) : a[i] = Before(s, o)[i]
    BY <1>1, <1>2, <2>1
  <2> QED BY <1>1, <1>2, <2>2, SameSequence
<1>4. b = After(s, o)
  <2>1. \A i \in 1 .. Len(s) - o : o + i \in 1 .. Len(s) /\ o + i # o
    BY <1>0
  <2>2. \A i \in 1 .. Len(b) : b[i] = After(s, o)[i]
    BY <1>1, <1>2, <2>1
  <2> QED BY <1>1, <1>2, <2>2, SameSequence
<1>5. xb \in Seq(Entry) /\ Len(xb) = 1 + Len(b)
  BY <1>1, <1>x, ConcatAt
<1> HIDE DEF xb
<1>6. Subsequence(a \o xb, I) = Subsequence(a, I) \o Subsequence(xb, J)
  <2>1. \A i \in 1 .. Len(xb) : i \in J <=> Len(a) + i \in I
    BY <1>1
  <2>2. a \in Seq(Entry) /\ xb \in Seq(Entry)
    BY <1>1, <1>5
  <2> HIDE DEF J
  <2> QED BY <2>1, <2>2, SubseqConcat
<1>7. Subsequence(x \o b, J) = Subsequence(x, J) \o Subsequence(b, K)
  <2>1. \A i \in 1 .. Len(b) : i \in K <=> Len(x) + i \in J
    BY <1>x
  <2>2. x \in Seq(Entry) /\ b \in Seq(Entry)
    BY <1>1
  <2> HIDE DEF J, K
  <2> QED BY <2>1, <2>2, SubseqConcat
<1>8. Subsequence(a, I) = a
  <2>1. DOMAIN a = 1 .. o - 1
    BY <1>0, <1>1
  <2>2. DOMAIN a \subseteq I
    BY <1>0, <2>1
  <2> QED BY <1>1, <2>2, SubsequenceFacts
<1>9. Subsequence(x, J) = <<>>
  <2>1. 1 \notin J
    <3>1. (o - 1) + 1 = o
      BY <1>0
    <3> QED BY <1>0, <3>1
  <2>2. \A k \in 1 .. Len(x) : k \notin J
    BY <1>x, <2>1
  <2> HIDE DEF J
  <2> QED BY <1>1, <2>2, SubseqNone
<1>10. Subsequence(b, K) = b
  <2>1. DOMAIN b = 1 .. Len(s) - o
    BY <1>0, <1>1
  <2>2. \A i \in 1 .. Len(s) - o : (o - 1) + (1 + i) \in 1 .. Len(s) /\ (o - 1) + (1 + i) # o /\ i \in Nat /\ 1 + i \in Nat
    BY <1>0
  <2>3. DOMAIN b \subseteq K
    BY <2>1, <2>2
  <2> HIDE DEF K
  <2> QED BY <1>1, <2>3, SubsequenceFacts
<1>11. <<>> \o b = b
  BY <1>1
<1>12. Subsequence(xb, J) = b
  BY <1>7, <1>9, <1>10, <1>11 DEF xb
<1> QED BY <1>1, <1>3, <1>4, <1>6, <1>8, <1>12

\* An entry is its fields.
LEMMA SameEntry ==
  ASSUME NEW a \in Entry, NEW b \in Entry,
         a.provider = b.provider, a.at = b.at, a.key = b.key, a.off = b.off, a.tag = b.tag
  PROVE  a = b
<1>1. \A e \in Entry : e = [provider |-> e.provider, at |-> e.at, key |-> e.key, off |-> e.off, tag |-> e.tag]
  BY DEF Entry
<1> QED BY <1>1

\* A mirror that applies stands for the one openai entry of the stored list, and brings it
\* back as it was when that entry leads the list.
LEMMA ReplayedLegacy ==
  ASSUME NEW body \in UiConfig, NEW saved \in Seq(Entry), NEW existing \in Seq(Entry), NEW h,
         Orderly(saved), OpenAiWithin(existing, saved), Replays(body, saved, h),
         LegacyApplies(body, existing, TRUE)
  PROVE  LET o == LegacyConsumed(body)
         IN  /\ o \in DOMAIN saved /\ saved[o].provider = "openai"
             /\ LegacyEntry(body, existing) \in Entry
             /\ LegacyEntry(body, existing).off = saved[o].off
             /\ h # NoIndex => h = o /\ LegacyEntry(body, existing) = saved[h]
<1> DEFINE ref == LegacyRef(existing, body.at)
           legacy == LegacyEntry(body, existing)
           c == LegacyConsumed(body)
           cards == body.providers
<1>1. /\ ListsAll(body, saved) /\ body.skey = FirstOpenAiKey(saved)
      /\ h # NoIndex => /\ h \in DOMAIN saved
                        /\ body.primary = saved[h].provider /\ body.at = saved[h].at /\ body.tag = saved[h].tag
  BY DEF Replays
<1>2. /\ OneOpenAi(saved) /\ RealKeys(saved)
      /\ \A i \in DOMAIN saved : saved[i] \in Entry /\ ~IsBlankOrMasked(saved[i].key) /\ saved[i].provider # Blank
  BY DEF Orderly, RealKeys, Range
<1>3. ~MirrorIsEcho(body) /\ legacy.key # Blank
  BY DEF LegacyApplies
<1>4. \A e \in ref : e \in Entry /\ \E i \in DOMAIN saved : saved[i].provider = "openai" /\ e = saved[i]
  <2>1. \A e \in ref : e \in Range(existing) /\ e \in Entry /\ e.provider = "openai"
    BY LegacyRefIn
  <2> HIDE DEF ref
  <2> QED BY <2>1 DEF OpenAiWithin, Range
<1>5. legacy \in Entry /\ legacy.key = ResolveKey(body.skey, ref)
  BY LegacyEntryType
<1>6. \E i \in DOMAIN saved : saved[i].provider = "openai"
  <2>1. SUFFICES ASSUME \A i \in DOMAIN saved : saved[i].provider # "openai" PROVE FALSE
    OBVIOUS
  <2>2. body.skey = Blank
    BY <1>1, <2>1, FirstOpenAiKeyIs
  <2>3. ref = {}
    BY <1>4, <2>1
  <2> HIDE DEF ref, legacy
  <2>4. {e.key : e \in ref} = {}
    BY <2>3
  <2>5. ResolveKey(body.skey, ref) = Blank
    BY <2>2, <2>4, OrElseOne DEF ResolveKey, IsBlankOrMasked
  <2> QED BY <1>3, <1>5, <2>5
<1>7. PICK o \in DOMAIN saved : saved[o].provider = "openai"
  BY <1>6
<1>8. \A e \in ref : e = saved[o]
  BY <1>2, <1>4, <1>7 DEF OneOpenAi
<1>9. DOMAIN cards = DOMAIN saved /\ \A i \in DOMAIN saved :
        cards[i].provider = saved[i].provider /\ cards[i].at = saved[i].at
  BY <1>1, CardsType, ZenonT(30) DEF ListsAll
<1>10. c = o
  <2>1. /\ c # NoIndex => c \in DOMAIN cards /\ cards[c].provider = "openai"
        /\ c = NoIndex => \A i \in DOMAIN cards : cards[i].provider # "openai"
    BY ConsumedCard
  <2> HIDE DEF c, cards
  <2>2. c \in DOMAIN saved /\ saved[c].provider = "openai"
    BY <1>7, <1>9, <2>1
  <2> QED BY <1>2, <1>7, <2>2 DEF OneOpenAi
<1>11. legacy.key = saved[o].key
  <2>1. body.skey = saved[o].key
    BY <1>1, <1>2, <1>7, FirstOpenAiKeyIs
  <2> HIDE DEF ref, legacy
  <2> QED BY <1>2, <1>5, <2>1 DEF ResolveKey
<1>12. /\ legacy.off = ResolveDisabled(IF c = NoIndex THEN {} ELSE cards[c].off, ref)
       /\ legacy.at = (IF body.at # Blank THEN body.at ELSE OrElse({e.at : e \in ref}, Blank))
       /\ legacy.tag = body.tag /\ legacy.provider = "openai"
  BY DEF LegacyEntry
<1>13. o # NoIndex
  BY DEF NoIndex
<1>14. cards[o].off = {saved[o].off}
  BY <1>1, <1>2, ReplayedCard
<1> HIDE DEF c, cards, legacy, ref
<1>15. legacy.off = saved[o].off
  <2>1. legacy.off = ResolveDisabled({saved[o].off}, ref)
    BY <1>10, <1>12, <1>13, <1>14
  <2> QED BY <2>1, OrElseOne DEF ResolveDisabled
<1>16. ASSUME h # NoIndex PROVE h = o /\ legacy = saved[h]
  <2>1. saved[h].provider = "openai"
    <3>1. SUFFICES ASSUME saved[h].provider # "openai" PROVE FALSE
      OBVIOUS
    <3>2. body.primary \notin {Blank, "openai"} /\ h \in DOMAIN cards
          /\ cards[h].provider = body.primary /\ cards[h].at = body.at
      BY <1>1, <1>2, <1>9, <1>16, <3>1
    <3> QED BY <1>3, <3>2 DEF MirrorIsEcho, Some, cards
  <2>2. h = o
    BY <1>1, <1>2, <1>7, <1>16, <2>1 DEF OneOpenAi
  <2>3. legacy.at = saved[o].at
    <3>1. CASE body.at # Blank
      BY <1>1, <1>12, <1>16, <2>2, <3>1
    <3>2. CASE body.at = Blank
      <4> DEFINE ats == {e.at : e \in ref}
      <4>1. \A x \in ats : x = saved[o].at
        BY <1>8
      <4>2. legacy.at = OrElse(ats, Blank) /\ saved[o].at = Blank
        BY <1>1, <1>12, <1>16, <2>2, <3>2
      <4> HIDE DEF ats
      <4>3. OrElse(ats, Blank) = Blank
        BY <4>1, <4>2, OrElseOf
      <4> QED BY <4>2, <4>3
    <3> QED BY <3>1, <3>2
  <2>4. legacy.tag = saved[o].tag
    BY <1>1, <1>12, <1>16, <2>2
  <2>5. legacy = saved[o]
    <3>1. saved[o] \in Entry
      OBVIOUS
    <3>2. /\ legacy.provider = saved[o].provider /\ legacy.at = saved[o].at /\ legacy.key = saved[o].key
          /\ legacy.off = saved[o].off /\ legacy.tag = saved[o].tag
      BY <1>5, <1>7, <1>11, <1>12, <1>15, <2>3, <2>4
    <3> HIDE DEF legacy
    <3> QED BY <1>5, <3>1, <3>2, SameEntry
  <2> QED BY <2>2, <2>5
<1> QED BY <1>5, <1>7, <1>10, <1>15, <1>16 DEF legacy, c

\* The mirror leads, and the rest of the stored list follows in its order.
LEMMA ReplayedList ==
  ASSUME NEW body \in UiConfig, NEW saved \in Seq(Entry), NEW existing \in Seq(Entry),
         RealKeys(saved), ListsAll(body, saved), LegacyApplies(body, existing, TRUE),
         NEW o \in DOMAIN saved, LegacyConsumed(body) = o
  PROVE  NewLlmConfigs(body, existing, TRUE)
           = <<LegacyEntry(body, existing)>> \o (Before(saved, o) \o After(saved, o))
<1> DEFINE cards == Resolved(body, existing, TRUE)
           applies == LegacyApplies(body, existing, TRUE)
           listed == [i \in DOMAIN cards |-> IF applies /\ i = LegacyConsumed(body) THEN NoEntry ELSE cards[i]]
           I == {i \in DOMAIN listed : listed[i].key # Blank}
<1>1. /\ cards \in Seq(Entry) /\ DOMAIN cards = DOMAIN body.providers
      /\ \A i \in DOMAIN body.providers : i # LegacyConsumed(body) => cards[i] = ResolvedCard(body, existing, i)
  BY ResolvedAt
<1>2. DOMAIN body.providers = DOMAIN saved
  BY CardsType DEF ListsAll
<1>3. ASSUME NEW i \in DOMAIN saved, i # o PROVE cards[i] = saved[i]
  <2>1. ResolvedCard(body, existing, i) = saved[i]
    BY ReplayedCard
  <2> QED BY <1>1, <1>2, <1>3, <2>1
<1>4. NewLlmConfigs(body, existing, TRUE)
        = (IF applies THEN <<LegacyEntry(body, existing)>> ELSE <<>>) \o Subsequence(listed, I)
  BY DEF NewLlmConfigs
<1> HIDE DEF cards
<1>5. /\ DOMAIN listed = DOMAIN saved
      /\ \A i \in DOMAIN saved : listed[i] = IF i = o THEN NoEntry ELSE saved[i]
  BY <1>1, <1>2, <1>3
<1>6. NoEntry \in Entry /\ NoEntry.key = Blank
  BY DEF NoEntry, Entry, Text
<1>7. DOMAIN saved = 1 .. Len(saved) /\ Len(saved) \in Nat /\ \A i \in DOMAIN saved : saved[i] \in Entry
  OBVIOUS
<1>8. listed \in [1 .. Len(saved) -> Entry]
  BY <1>5, <1>6, <1>7
<1> HIDE DEF listed
<1>9. listed \in Seq(Entry) /\ Len(listed) = Len(saved)
  BY <1>7, <1>8, AsSequence
<1>10. \A i \in 1 .. Len(saved) : i # o => listed[i] = saved[i]
  BY <1>5, <1>7
<1>11. \A i \in 1 .. Len(saved) : i \in I <=> i # o
  BY <1>5, <1>6, <1>7 DEF RealKeys, Range, IsBlankOrMasked
<1> HIDE DEF I
<1>12. Subsequence(listed, I) = Before(saved, o) \o After(saved, o)
  BY <1>9, <1>10, <1>11, HoleDropped, ZenonT(30)
<1> QED BY <1>4, <1>12

-----------------------------------------------------------------------------
(* The chain a replay leads to is the chain that was stored.               *)

\* The entry a primary picks is also what its own provider's name picks.
LEMMA SamePrimary ==
  ASSUME NEW primary, NEW s \in Seq(Entry), NEW h, h = PrimaryEntry(primary, s), h # NoIndex
  PROVE  PrimaryEntry(s[h].provider, s) = h
<1>1. /\ h \in DOMAIN s /\ ~s[h].off
      /\ \/ s[h].provider = primary /\ \A i \in 1 .. h - 1 : s[i].off \/ s[i].provider # primary
         \/ /\ \A i \in DOMAIN s : s[i].off \/ s[i].provider # primary
            /\ \A i \in 1 .. h - 1 : s[i].off
  BY PrimaryEntryIs
<1>2. CASE s[h].provider = primary
  BY <1>2
<1>3. CASE \A i \in 1 .. h - 1 : s[i].off
  <2> DEFINE Q == s[h].provider
             named == {i \in DOMAIN s : ~s[i].off /\ s[i].provider = Q}
  <2>1. h \in named /\ DOMAIN s = 1 .. Len(s) /\ Len(s) \in Nat
    BY <1>1
  <2>2. ASSUME NEW i \in named PROVE h <= i
    <3>1. i \in 1 .. Len(s) /\ ~s[i].off
      BY <2>1
    <3>2. i \notin 1 .. h - 1
      BY <1>3, <3>1
    <3> QED BY <1>1, <2>1, <3>1, <3>2
  <2>3. Min(named) = h
    <3>1. \A m \in named : (\A i \in named : m <= i) => m = h
      BY <2>1, <2>2
    <3> HIDE DEF named
    <3> QED BY <2>1, <2>2, <3>1 DEF Min
  <2>4. PrimaryEntry(Q, s) = IF named # {} THEN Min(named) ELSE IF {i \in DOMAIN s : ~s[i].off} # {}
                                THEN Min({i \in DOMAIN s : ~s[i].off}) ELSE NoIndex
    BY DEF PrimaryEntry
  <2> HIDE DEF named
  <2> QED BY <2>1, <2>3, <2>4
<1> QED BY <1>1, <1>2, <1>3

\* What a list with one of its entries in front holds.
LEMMA LeadRange ==
  ASSUME NEW s \in Seq(Entry), NEW o \in DOMAIN s, NEW x \in Entry
  PROVE  LET all == <<x>> \o (Before(s, o) \o After(s, o))
         IN  /\ all \in Seq(Entry) /\ DOMAIN all = 1 .. Len(all) /\ 1 \in DOMAIN all /\ all[1] = x
             /\ \A i \in DOMAIN all : all[i] = x \/ \E j \in DOMAIN s : all[i] = s[j]
             /\ Before(all, 1) = <<>> /\ After(all, 1) = Before(s, o) \o After(s, o)
<1> DEFINE a == Before(s, o)
           b == After(s, o)
           t == a \o b
           all == <<x>> \o t
<1>0. Len(s) \in Nat /\ o \in 1 .. Len(s) /\ DOMAIN s = 1 .. Len(s)
  OBVIOUS
<1>1. /\ a \in Seq(Entry) /\ b \in Seq(Entry) /\ Len(a) = o - 1 /\ Len(b) = Len(s) - o
      /\ \A i \in 1 .. o - 1 : a[i] = s[i]
      /\ \A i \in 1 .. Len(s) - o : b[i] = s[o + i]
  BY SplitAt
<1> HIDE DEF a, b
<1>2. /\ t \in Seq(Entry) /\ Len(t) = Len(s) - 1
      /\ \A i \in 1 .. o - 1 : t[i] = s[i]
      /\ \A i \in 1 .. Len(s) - o : t[o - 1 + i] = s[o + i]
  <2>1. a \in Seq(Entry) /\ b \in Seq(Entry)
    BY <1>1
  <2>2. /\ t \in Seq(Entry) /\ Len(t) = Len(a) + Len(b)
        /\ \A i \in 1 .. Len(a) : t[i] = a[i]
        /\ \A i \in 1 .. Len(b) : t[Len(a) + i] = b[i]
    BY <2>1, ConcatAt
  <2> HIDE DEF t
  <2>3. Len(a) = o - 1 /\ Len(b) = Len(s) - o /\ (o - 1) + (Len(s) - o) = Len(s) - 1
    BY <1>0, <1>1
  <2>4. Len(t) = Len(s) - 1
    BY <2>2, <2>3
  <2>5. \A i \in 1 .. o - 1 : t[i] = s[i]
    BY <1>1, <2>2, <2>3
  <2>6. \A i \in 1 .. Len(s) - o : t[o - 1 + i] = s[o + i]
    BY <1>1, <2>2, <2>3
  <2> QED BY <2>2, <2>4, <2>5, <2>6
<1>3. ASSUME NEW i \in 1 .. Len(t) PROVE \E j \in DOMAIN s : t[i] = s[j]
  <2>1. CASE i \in 1 .. o - 1
    <3>1. i \in DOMAIN s /\ t[i] = s[i]
      BY <1>0, <1>2, <2>1
    <3> QED BY <3>1
  <2>2. CASE i \notin 1 .. o - 1
    <3>1. /\ i - (o - 1) \in 1 .. Len(s) - o /\ o - 1 + (i - (o - 1)) = i
          /\ o + (i - (o - 1)) \in 1 .. Len(s)
      BY <1>0, <1>2, <2>2
    <3> QED BY <1>0, <1>2, <3>1
  <2> QED BY <2>1, <2>2
<1> HIDE DEF t
<1>4. /\ all \in Seq(Entry) /\ Len(all) = 1 + Len(t) /\ all[1] = x /\ Len(t) \in Nat
      /\ \A i \in 1 .. Len(t) : all[1 + i] = t[i]
  BY <1>2
<1> HIDE DEF all
<1>5. DOMAIN all = 1 .. Len(all) /\ 1 \in DOMAIN all
  BY <1>4
<1>6. ASSUME NEW i \in DOMAIN all PROVE all[i] = x \/ \E j \in DOMAIN s : all[i] = s[j]
  <2>1. CASE i = 1
    BY <1>4, <2>1
  <2>2. CASE i # 1
    <3>1. i - 1 \in 1 .. Len(t) /\ 1 + (i - 1) = i
      BY <1>4, <1>5, <2>2
    <3> QED BY <1>3, <1>4, <3>1
  <2> QED BY <2>1, <2>2
<1>7. Before(all, 1) = <<>>
  BY <1>4 DEF Before
<1>8. After(all, 1) = t
  <2>1. /\ After(all, 1) \in Seq(Entry) /\ Len(After(all, 1)) = Len(all) - 1
        /\ \A i \in 1 .. Len(all) - 1 : After(all, 1)[i] = all[1 + i]
    BY <1>5, <1>4, SplitAt
  <2> DEFINE r == After(all, 1)
  <2> HIDE DEF r
  <2>2. r \in Seq(Entry) /\ Len(r) = Len(t) /\ \A i \in 1 .. Len(r) : r[i] = t[i]
    BY <1>4, <2>1 DEF r
  <2>3. r = t
    BY <1>2, <2>2, SameSequence
  <2> QED BY <2>3 DEF r
<1> QED BY <1>4, <1>5, <1>6, <1>7, <1>8 DEF all, t, a, b

\* A primary whose provider is enabled stays.
LEMMA PrimaryStays ==
  ASSUME NEW primary, NEW s \in Seq(Entry), NEW i \in DOMAIN s, ~s[i].off, s[i].provider = primary
  PROVE  EnabledPrimary(primary, s) = primary
<1>1. Some(s, LAMBDA e : ~e.off /\ e.provider = primary)
  BY DEF Some
<1> QED BY <1>1 DEF EnabledPrimary

\* What a stored list comes back as: itself, or with its primary entry moved to the front,
\* or, when nothing is enabled, with nothing enabled.
LEMMA ReplayedNew ==
  ASSUME NEW body \in UiConfig, NEW saved \in Seq(Entry), NEW existing \in Seq(Entry), NEW h,
         Orderly(saved), OpenAiWithin(existing, saved), Replays(body, saved, h)
  PROVE  LET new == NewLlmConfigs(body, existing, TRUE)
         IN  /\ \/ new = saved
                \/ h # NoIndex /\ h \in DOMAIN saved /\ new = <<saved[h]>> \o (Before(saved, h) \o After(saved, h))
                \/ new # <<>> /\ h = NoIndex
                   /\ ((\A i \in DOMAIN saved : saved[i].off) => \A i \in DOMAIN new : new[i].off)
<1> DEFINE new == NewLlmConfigs(body, existing, TRUE)
<1>1. ListsAll(body, saved) /\ RealKeys(saved)
  BY DEF Replays, Orderly
<1>2. CASE ~LegacyApplies(body, existing, TRUE)
  BY <1>1, <1>2, ReplayedPlain
<1>3. CASE LegacyApplies(body, existing, TRUE)
  <2> DEFINE legacy == LegacyEntry(body, existing)
  <2> DEFINE o == LegacyConsumed(body)
  <2>1. /\ o \in DOMAIN saved /\ LegacyConsumed(body) = o
        /\ legacy \in Entry /\ legacy.off = saved[o].off
        /\ h # NoIndex => h = o /\ legacy = saved[h]
    BY <1>3, ReplayedLegacy
  <2>2. new = <<legacy>> \o (Before(saved, o) \o After(saved, o))
    BY <1>1, <1>3, <2>1, ReplayedList
  <2> HIDE DEF new, legacy, o
  <2>3. CASE h # NoIndex
    BY <2>1, <2>2, <2>3 DEF new
  <2>4. CASE h = NoIndex
    <3>1. /\ new \in Seq(Entry) /\ 1 \in DOMAIN new
          /\ \A i \in DOMAIN new : new[i] = legacy \/ \E j \in DOMAIN saved : new[i] = saved[j]
      <4> DEFINE all == <<legacy>> \o (Before(saved, o) \o After(saved, o))
      <4>1. /\ all \in Seq(Entry) /\ 1 \in DOMAIN all
            /\ \A i \in DOMAIN all : all[i] = legacy \/ \E j \in DOMAIN saved : all[i] = saved[j]
        BY <2>1, LeadRange
      <4>2. new = all
        BY <2>2
      <4> HIDE DEF all
      <4> QED BY <4>1, <4>2
    <3>2. new # <<>>
      BY <3>1
    <3>3. (\A i \in DOMAIN saved : saved[i].off) => \A i \in DOMAIN new : new[i].off
      BY <2>1, <3>1
    <3> QED BY <2>4, <3>2, <3>3 DEF new
  <2> QED BY <2>3, <2>4
<1> QED BY <1>2, <1>3

LEMMA ReplayedOrder ==
  ASSUME NEW body \in UiConfig, NEW saved \in Seq(Entry), NEW existing \in Seq(Entry), NEW primary,
         Orderly(saved), OpenAiWithin(existing, saved), saved # <<>>,
         Replays(body, saved, PrimaryEntry(primary, saved))
  PROVE  LET new == NewLlmConfigs(body, existing, TRUE)
         IN  /\ new # <<>>
             /\ OrderedLlmConfigs(EnabledPrimary(body.primary, new), new) = OrderedLlmConfigs(primary, saved)
<1> DEFINE new == NewLlmConfigs(body, existing, TRUE)
           h == PrimaryEntry(primary, saved)
           Q == saved[h].provider
           rest == Before(saved, h) \o After(saved, h)
<1>1. \/ new = saved
      \/ h # NoIndex /\ h \in DOMAIN saved /\ new = <<saved[h]>> \o rest
      \/ new # <<>> /\ h = NoIndex /\ ((\A i \in DOMAIN saved : saved[i].off) => \A i \in DOMAIN new : new[i].off)
  BY ReplayedNew
<1>2. new \in Seq(Entry)
  BY NewLlmConfigsType
<1> HIDE DEF new
<1>3. CASE h = NoIndex
  <2>1. \A i \in DOMAIN saved : saved[i].off
    BY <1>3, NoPrimaryEntry
  <2>2. \A i \in DOMAIN new : new[i].off
    BY <1>1, <1>3, <2>1
  <2>3. OrderedLlmConfigs(primary, saved) = <<>>
    BY <2>1, NoChain
  <2>4. OrderedLlmConfigs(EnabledPrimary(body.primary, new), new) = <<>>
    BY <1>2, <2>2, NoChain
  <2>5. new # <<>>
    BY <1>1, <1>3
  <2> QED BY <2>3, <2>4, <2>5 DEF new
<1>4. CASE h # NoIndex
  <2>1. h \in DOMAIN saved /\ ~saved[h].off /\ body.primary = Q
    <3>1. h \in DOMAIN saved /\ ~saved[h].off
      BY <1>4, PrimaryEntryIs
    <3> QED BY <1>4, <3>1 DEF Replays
  <2>2. OrderedLlmConfigs(primary, saved)
          = <<saved[h]>> \o (Enabled(Before(saved, h)) \o Enabled(After(saved, h)))
    BY <1>4, LeadingEntry
  <2>3. PrimaryEntry(Q, saved) = h
    BY <1>4, SamePrimary
  <2>4. /\ Before(saved, h) \in Seq(Entry) /\ After(saved, h) \in Seq(Entry)
        /\ saved[h] \in Entry
    BY <2>1, SplitAt
  <2> HIDE DEF h, Q
  <2>5. CASE new = saved
    <3>1. EnabledPrimary(Q, saved) = Q
      BY <2>1, PrimaryStays DEF Q
    <3>2. OrderedLlmConfigs(Q, saved)
            = <<saved[h]>> \o (Enabled(Before(saved, h)) \o Enabled(After(saved, h)))
      BY <1>4, <2>3, LeadingEntry
    <3>3. EnabledPrimary(body.primary, new) = Q /\ OrderedLlmConfigs(EnabledPrimary(body.primary, new), new)
            = OrderedLlmConfigs(Q, saved)
      BY <2>1, <2>5, <3>1
    <3> QED BY <2>1, <2>2, <2>5, <3>2, <3>3 DEF new, h
  <2>6. CASE new = <<saved[h]>> \o rest
    <3>1. /\ 1 \in DOMAIN new /\ new[1] = saved[h]
          /\ Before(new, 1) = <<>> /\ After(new, 1) = rest
      <4> DEFINE all == <<saved[h]>> \o rest
      <4>1. 1 \in DOMAIN all /\ all[1] = saved[h] /\ Before(all, 1) = <<>> /\ After(all, 1) = rest
        BY <2>1, <2>4, LeadRange, SMTT(30)
      <4>2. new = all
        BY <2>6
      <4> HIDE DEF all, rest
      <4> QED BY <4>1, <4>2
    <3>2. EnabledPrimary(Q, new) = Q
      BY <1>2, <2>1, <3>1, PrimaryStays DEF Q
    <3>3. PrimaryEntry(Q, new) = 1
      <4> DEFINE named == {i \in DOMAIN new : ~new[i].off /\ new[i].provider = Q}
      <4>1. 1 \in named /\ \A i \in named : 1 <= i /\ i \in Nat
        BY <1>2, <2>1, <3>1 DEF Q
      <4>2. Min(named) = 1
        <5>1. \A m \in named : (\A i \in named : m <= i) => m = 1
          BY <4>1
        <5> HIDE DEF named
        <5> QED BY <4>1, <5>1 DEF Min
      <4>3. named # {} => PrimaryEntry(Q, new) = Min(named)
        BY DEF PrimaryEntry
      <4> HIDE DEF named
      <4> QED BY <4>1, <4>2, <4>3
    <3>4. OrderedLlmConfigs(Q, new) = <<new[1]>> \o (Enabled(Before(new, 1)) \o Enabled(After(new, 1)))
      <4>1. 1 # NoIndex /\ 1 = PrimaryEntry(Q, new)
        BY <3>3 DEF NoIndex
      <4> QED BY <1>2, <4>1, LeadingEntry
    <3>5. Enabled(rest) = Enabled(Before(saved, h)) \o Enabled(After(saved, h))
      BY <2>4, EnabledConcat
    <3>6. Enabled(<<>>) = <<>> /\ Enabled(rest) \in Seq(Entry)
      <4>1. <<>> \in Seq(Entry) /\ \A i \in DOMAIN <<>> : <<>>[i].off
        OBVIOUS
      <4>2. rest \in Seq(Entry)
        BY <2>4, ConcatAt
      <4> HIDE DEF rest
      <4> QED BY <4>1, <4>2, EnabledType
    <3>7. \A l \in Seq(Entry) : <<>> \o l = l
      OBVIOUS
    <3>8. OrderedLlmConfigs(Q, new) = <<saved[h]>> \o Enabled(rest)
      BY <3>1, <3>4, <3>6, <3>7
    <3>9. new # <<>>
      BY <3>1
    <3> QED BY <2>1, <2>2, <3>2, <3>5, <3>8, <3>9 DEF new, h
  <2> QED BY <1>1, <1>4, <2>5, <2>6 DEF h
<1> QED BY <1>3, <1>4

-----------------------------------------------------------------------------
(* A restart keeps the chain.                                              *)

LEMMA ResolveIsOrderly ==
  ASSUME NEW u \in UiConfig, NEW existing \in Seq(Entry), NEW req \in Request,
         Orderly(existing), OneOpenAi(u.providers), \A cards \in req.providers : OneOpenAi(cards)
  PROVE  Orderly(Resolve(u, existing, req).new) /\ OneOpenAi(Resolve(u, existing, req).body.providers)
<1> DEFINE body == Merged(u, req)
           legacy == req.scalars # {}
           w == WriteBack(body, existing, legacy)
           n == NewLlmConfigs(body, existing, legacy)
           ps == Cards(Resolved(body, existing, legacy), TRUE)
           r == Resolve(u, existing, req)
<1>1. body \in UiConfig /\ body.providers = OrElse(req.providers, u.providers)
  BY MergedType
<1>2. OneOpenAi(body.providers)
  BY <1>1, OrElseOf
<1>3. RealKeys(existing) /\ legacy \in BOOLEAN
  BY DEF Orderly
<1>4. Orderly(n) /\ OneOpenAi(ps)
  <2> HIDE DEF body, legacy
  <2> QED BY <1>1, <1>2, <1>3, NewIsOrderly
<1>5. w.providers = ps
  <2> DEFINE sk == IF Some(n, LAMBDA e : e.provider = IF body.primary = Blank THEN "openai" ELSE body.primary)
                   THEN Mask ELSE Blank
             ep == EnabledPrimary(body.primary, n)
  <2>1. w = [body EXCEPT !.skey = sk, !.providers = ps, !.primary = ep]
    BY DEF WriteBack
  <2> HIDE DEF w, body, sk, ep, ps
  <2> QED BY <1>1, <2>1 DEF UiConfig
<1>6. /\ r.body = IF States(req) THEN w ELSE body
      /\ r.new = IF States(req) THEN n ELSE existing
  BY DEF Resolve
<1> HIDE DEF body, w, n, r, ps
<1> QED BY <1>2, <1>4, <1>5, <1>6 DEF r

\* The submission that a stored state stands for, as the replay resolves it.
LEMMA ReplayedBody ==
  ASSUME deployment \in Deployment, NEW v \in UiConfig, NEW s \in UiStateFile,
         EnvEntries = <<>>, s.llm # <<>>
  PROVE  LET req == ReplayPayload(s)
             body == Merged(v, req)
             P == OrElse({u.primary : u \in s.ui}, Blank)
         IN  /\ req \in Request /\ body \in UiConfig /\ States(req) /\ req.scalars # {}
             /\ Replays(body, s.llm, PrimaryEntry(P, s.llm))
<1> DEFINE req == ReplayPayload(s)
           body == Merged(v, req)
           P == OrElse({x.primary : x \in s.ui}, Blank)
           u == OrElse(s.ui, FromAppConfig(<<>>, 0))
           l == ReplayLlm(u, s.llm)
           sc == [skey |-> l.skey, at |-> l.at, tag |-> l.tag]
           head == PrimaryEntry(u.primary, s.llm)
<1>1. s.ui \in Option(UiConfig) /\ s.llm \in Seq(Entry)
  BY DEF UiStateFile
<1>2. FromAppConfig(<<>>, 0) \in UiConfig /\ FromAppConfig(<<>>, 0).primary = Blank
  <2>1. <<>> \in Seq(Entry)
    OBVIOUS
  <2> QED BY <2>1, FromAppConfigType DEF FromAppConfig
<1>3. u \in UiConfig
  BY <1>1, <1>2, OptionOf
<1>4. u.primary = P
  <2> DEFINE none == FromAppConfig(<<>>, 0)
             named == {x.primary : x \in s.ui}
  <2>1. CASE s.ui = {}
    <3>1. named = {}
      BY <2>1
    <3> HIDE DEF named, none
    <3>2. OrElse(s.ui, none) = none /\ OrElse(named, Blank) = Blank
      BY <2>1, <3>1, OrElseOf
    <3> QED BY <1>2, <3>2 DEF none, named
  <2>2. CASE s.ui # {}
    <3>1. PICK x \in s.ui : s.ui = {x}
      BY <1>1, <2>2 DEF Option
    <3>2. named = {x.primary}
      BY <3>1
    <3> HIDE DEF named, none
    <3>3. OrElse(s.ui, none) \in s.ui /\ OrElse(named, Blank) \in named
      BY <2>2, <3>2, OrElseOf
    <3> QED BY <3>1, <3>2, <3>3 DEF none, named
  <2> QED BY <2>1, <2>2
<1>5. /\ req \in Request /\ req.providers = {l.providers} /\ req.scalars = {sc} /\ req.primary = {l.primary}
  BY ReplayPayloadType DEF ReplayPayload
<1> HIDE DEF u, req, P
<1>6. /\ l.primary = IF head = NoIndex THEN u.primary ELSE s.llm[head].provider
      /\ l.at = IF head = NoIndex THEN u.at ELSE s.llm[head].at
      /\ l.tag = IF head = NoIndex THEN u.tag ELSE s.llm[head].tag
      /\ l.skey = FirstOpenAiKey(s.llm) /\ l.providers = Cards(s.llm, FALSE)
  BY <1>3 DEF ReplayLlm, UiConfig
<1>7. head = NoIndex \/ head \in DOMAIN s.llm
  BY <1>1, PrimaryEntryIn
<1> HIDE DEF l, head
<1>8. body \in UiConfig
  BY <1>5, MergedType
<1>9. /\ body.providers = OrElse(req.providers, v.providers)
      /\ body.skey = OrElse({x.skey : x \in req.scalars}, v.skey)
      /\ body.at = OrElse({x.at : x \in req.scalars}, v.at)
      /\ body.tag = OrElse({x.tag : x \in req.scalars}, v.tag)
      /\ body.primary = OrElse(req.primary, v.primary)
  BY DEF Merged, UiConfig
<1>10. /\ {x.skey : x \in req.scalars} = {l.skey} /\ {x.at : x \in req.scalars} = {l.at}
       /\ {x.tag : x \in req.scalars} = {l.tag}
  BY <1>5
<1>11. /\ body.providers = l.providers /\ body.skey = l.skey /\ body.at = l.at /\ body.tag = l.tag
       /\ body.primary = l.primary
  <2> HIDE DEF body
  <2> DEFINE ks == {x.skey : x \in req.scalars}
             as == {x.at : x \in req.scalars}
             ts == {x.tag : x \in req.scalars}
  <2>2. ks = {l.skey} /\ as = {l.at} /\ ts = {l.tag}
    BY <1>10
  <2>3. /\ body.providers = OrElse(req.providers, v.providers) /\ body.primary = OrElse(req.primary, v.primary)
        /\ body.skey = OrElse(ks, v.skey) /\ body.at = OrElse(as, v.at) /\ body.tag = OrElse(ts, v.tag)
    BY <1>9
  <2> HIDE DEF ks, as, ts
  <2>4. /\ body.providers = OrElse({l.providers}, v.providers) /\ body.primary = OrElse({l.primary}, v.primary)
        /\ body.skey = OrElse({l.skey}, v.skey) /\ body.at = OrElse({l.at}, v.at) /\ body.tag = OrElse({l.tag}, v.tag)
    BY <1>5, <2>2, <2>3
  <2>5. /\ OrElse({l.providers}, v.providers) = l.providers /\ OrElse({l.primary}, v.primary) = l.primary
        /\ OrElse({l.skey}, v.skey) = l.skey /\ OrElse({l.at}, v.at) = l.at /\ OrElse({l.tag}, v.tag) = l.tag
    BY OrElseOne
  <2> QED BY <2>4, <2>5
<1> HIDE DEF body
<1>12. Replays(body, s.llm, head)
  BY <1>6, <1>7, <1>11 DEF Replays, ListsAll
<1>13. States(req) /\ req.scalars # {}
  BY <1>5 DEF States
<1> QED BY <1>4, <1>5, <1>8, <1>12, <1>13 DEF head, body, req, P

LEMMA ReplayedChain ==
  ASSUME deployment \in Deployment, ui \in UiConfig, app \in [llm : Seq(Entry), cap : Nat],
         NEW s \in UiStateFile, NEW rt, Replay(s, rt),
         EnvEntries = <<>>, s.llm # <<>>, Orderly(s.llm), OpenAiWithin(app.llm, s.llm)
  PROVE  Chain' = StoredChain(s) /\ app'.llm = llm'
<1> DEFINE req == ReplayPayload(s)
           body == Merged(ui, req)
           P == OrElse({u.primary : u \in s.ui}, Blank)
           n == NewLlmConfigs(body, app.llm, TRUE)
           w == WriteBack(body, app.llm, TRUE)
           r == Resolve(ui, app.llm, req)
           shown == ShownCap(app, r.body)
           ep == EnabledPrimary(body.primary, n)
<1>1. /\ req \in Request /\ body \in UiConfig /\ States(req) /\ (req.scalars # {}) = TRUE
      /\ Replays(body, s.llm, PrimaryEntry(P, s.llm))
  BY ReplayedBody
<1>2. r.body = w /\ r.new = n
  BY <1>1 DEF Resolve
<1>3. /\ app' = WithConfig(app, r.new, r.body) /\ llm' = (IF r.new # <<>> THEN r.new ELSE llm)
      /\ ui' = [shown EXCEPT !.token = MaskOrEmpty(gl')]
  BY DEF Replay
<1>4. s.llm \in Seq(Entry) /\ app.llm \in Seq(Entry)
  BY DEF UiStateFile
<1> HIDE DEF req, body, P, r
<1>5. n # <<>> /\ OrderedLlmConfigs(ep, n) = OrderedLlmConfigs(P, s.llm)
  BY <1>1, <1>4, ReplayedOrder
<1>6. w \in UiConfig /\ w.primary = ep
  <2>1. w \in UiConfig
    BY <1>1, <1>4, WriteBackType
  <2> DEFINE ps == Cards(Resolved(body, app.llm, TRUE), TRUE)
             sk == IF Some(n, LAMBDA e : e.provider = IF body.primary = Blank THEN "openai" ELSE body.primary)
                   THEN Mask ELSE Blank
  <2>2. w = [body EXCEPT !.skey = sk, !.providers = ps, !.primary = ep]
    BY DEF WriteBack
  <2> HIDE DEF w, ps, sk, ep
  <2> QED BY <1>1, <2>1, <2>2 DEF UiConfig
<1> HIDE DEF n, w, ep
<1>7. ui'.primary = ep
  <2> DEFINE masked == MaskOrEmpty(gl')
  <2>1. shown \in UiConfig /\ shown.primary = ep
    BY <1>2, <1>6 DEF ShownCap, UiConfig
  <2> HIDE DEF shown, masked
  <2>2. ui' = [shown EXCEPT !.token = masked]
    BY <1>3 DEF masked
  <2> QED BY <2>1, <2>2 DEF UiConfig
<1>8. llm' = n /\ app'.llm = n
  BY <1>2, <1>3, <1>5 DEF WithConfig
<1>9. Chain' = OrderedLlmConfigs(ep, n)
  BY <1>7, <1>8 DEF Chain
<1>10. StoredChain(s) = OrderedLlmConfigs(P, s.llm)
  BY DEF StoredChain, P
<1> QED BY <1>5, <1>8, <1>9, <1>10

\* A deployment whose provider lists are lists of accounts: their keys are keys, the openai
\* account is in none of them twice, and the configuration file leaves it to the page.
OrderlyDeployment(d) ==
  /\ RealKeys(d.fileLlm) /\ \A e \in Range(d.fileLlm) : e.provider # "openai"
  /\ \A r \in d.requests : \A cards \in r.providers : OneOpenAi(cards)
  /\ \A s \in d.uiStates : Orderly(s.llm)

OrderInv ==
  /\ phase # "up" => \A c \in Client : put[c].pc = "idle"
  /\ phase \in {"import", "rename", "replay"} => deployment.db
  /\ Orderly(app.llm) /\ OneOpenAi(ui.providers)
  /\ \A s \in db \cup file : Orderly(s.llm)
  /\ \A c \in Client : /\ Orderly(put[c].new) /\ Orderly(put[c].snapshot.llm)
                       /\ OneOpenAi(put[c].body.providers)

Replayed == phase = "runtime" /\ deployment.db /\ db # {}

\* Until the stored state is replayed memory holds no openai account that it does not;
\* then the chain is the stored one.
BootInv ==
  /\ phase # "up" /\ ~Replayed => \A s \in Stored : OpenAiWithin(app.llm, s.llm)
  /\ Replayed => \A s \in Stored : s.llm # <<>> => Chain = StoredChain(s) /\ app.llm = llm

RestartInv == SettingsInv /\ (EnvEntries = <<>> => OrderInv /\ BootInv)

LEMMA NothingIsOrderly == Orderly(<<>>) /\ \A stored : OpenAiWithin(<<>>, stored)
  BY DEF Orderly, OneOpenAi, RealKeys, OpenAiWithin, Range

\* What the configuration file and the environment leave in memory.
LEMMA ConfiguredList ==
  ASSUME deployment \in Deployment, OrderlyDeployment(deployment), EnvEntries = <<>>
  PROVE  /\ ConfigLlm \in Seq(Entry) /\ Orderly(ConfigLlm)
         /\ \A stored : OpenAiWithin(ConfigLlm, stored)
         /\ FromAppConfig(ConfigLlm, FileCap) \in UiConfig
         /\ OneOpenAi(FromAppConfig(ConfigLlm, FileCap).providers)
<1>1. ConfigLlm \in Seq(Entry) /\ FileCap \in Nat
  BY DeploymentTypes
<1>2. ConfigLlm = <<>> \/ ConfigLlm = deployment.fileLlm
  BY DEF ConfigLlm, EnvEntries
<1>3. RealKeys(ConfigLlm) /\ \A e \in Range(ConfigLlm) : e.provider # "openai"
  BY <1>2, NothingIsOrderly DEF OrderlyDeployment, Orderly, Range
<1>4. OneOpenAi(ConfigLlm)
  BY <1>3 DEF OneOpenAi, Range
<1>5. \A stored : OpenAiWithin(ConfigLlm, stored)
  BY <1>3 DEF OpenAiWithin
<1>6. FromAppConfig(ConfigLlm, FileCap).providers = Cards(ConfigLlm, TRUE)
  BY DEF FromAppConfig
<1> QED BY <1>1, <1>3, <1>4, <1>5, <1>6, FromAppConfigType, CardsAreOne DEF Orderly

LEMMA IdleIsOrderly ==
  /\ Orderly(IdlePut.new) /\ Orderly(IdlePut.snapshot.llm) /\ OneOpenAi(IdlePut.body.providers)
  /\ IdlePut.pc = "idle"
<1>1. IdlePut.new = <<>> /\ IdlePut.snapshot.llm = <<>> /\ IdlePut.body.providers = Cards(<<>>, TRUE)
  BY DEF IdlePut, NoState, FromAppConfig
<1>2. <<>> \in Seq(Entry)
  OBVIOUS
<1>3. OneOpenAi(Cards(<<>>, TRUE))
  BY <1>2, NothingIsOrderly, CardsAreOne DEF Orderly
<1> QED BY <1>1, <1>3, NothingIsOrderly DEF IdlePut

LEMMA RestartInit ==
  ASSUME ConfigInit, OrderlyDeployment(deployment)
  PROVE  RestartInv
<1>1. SettingsInv
  BY SettingsInit
<1>2. ASSUME EnvEntries = <<>> PROVE OrderInv /\ BootInv
  <2>1. deployment \in Deployment /\ app.llm = ConfigLlm /\ ui = FromAppConfig(ConfigLlm, FileCap)
    BY DEF ConfigInit
  <2>2. /\ db = {} /\ (file = {} \/ \E s \in deployment.uiStates : file = {s})
        /\ \A c \in Client : put[c] = IdlePut
        /\ phase = IF deployment.db THEN "import" ELSE "runtime"
    BY DEF ConfigInit
  <2>3. OrderInv
    BY <1>2, <2>1, <2>2, ConfiguredList, IdleIsOrderly DEF OrderInv, OrderlyDeployment
  <2>4. BootInv
    BY <1>2, <2>1, <2>2, ConfiguredList DEF BootInv, Replayed
  <2> QED BY <2>3, <2>4
<1> QED BY <1>1, <1>2 DEF RestartInv

\* A handler steps: the server is up, and what the step leaves is orderly.
LEMMA OrderPutStep ==
  ASSUME SettingsInv, OrderInv, NEW c \in Client, NEW h,
         put' = [put EXCEPT ![c] = h], UNCHANGED <<deployment, phase>>, phase = "up",
         Orderly(app'.llm), OneOpenAi(ui'.providers), \A s \in db' \cup file' : Orderly(s.llm),
         Orderly(h.new), Orderly(h.snapshot.llm), OneOpenAi(h.body.providers)
  PROVE  OrderInv' /\ BootInv'
<1>1. \A d \in Client : put'[d] = h \/ put'[d] = put[d]
  BY DEF SettingsInv, ConfigTypeOK
<1>2. \A d \in Client : /\ Orderly(put'[d].new) /\ Orderly(put'[d].snapshot.llm)
                        /\ OneOpenAi(put'[d].body.providers)
  BY <1>1 DEF OrderInv
<1>3. OrderInv'
  BY <1>2 DEF OrderInv
<1> QED BY <1>3 DEF BootInv, Replayed

LEMMA PutReadOrder ==
  ASSUME SettingsInv, OrderInv, NEW c \in Client, NEW req \in deployment.requests, PutRead(c, req)
  PROVE  OrderInv' /\ BootInv'
<1> DEFINE h == [put[c] EXCEPT !.pc = "resolve", !.req = req, !.body = ui]
<1>1. /\ put' = [put EXCEPT ![c] = h] /\ phase = "up"
      /\ UNCHANGED <<deployment, app, ui, db, file, phase>>
  BY DEF PutRead
<1>2. put[c] \in PutHandler
  BY DEF SettingsInv, ConfigTypeOK
<1>3. h.body = ui /\ h.new = put[c].new /\ h.snapshot = put[c].snapshot
  BY <1>2 DEF PutHandler
<1> HIDE DEF h
<1> QED BY <1>1, <1>3, OrderPutStep DEF OrderInv

LEMMA PutResolveOrder ==
  ASSUME SettingsInv, OrderInv, OrderlyDeployment(deployment), NEW c \in Client, PutResolve(c)
  PROVE  OrderInv' /\ BootInv'
<1> DEFINE req == put[c].req
           u == put[c].body
           r == Resolve(u, app.llm, req)
           h == [put[c] EXCEPT !.pc = "config", !.body = r.body, !.new = r.new]
<1>1. /\ put' = [put EXCEPT ![c] = h] /\ put[c].pc = "resolve"
      /\ UNCHANGED <<deployment, app, ui, db, file, phase>>
  BY DEF PutResolve
<1>2. /\ put[c] \in PutHandler /\ u \in UiConfig /\ app.llm \in Seq(Entry) /\ phase = "up"
      /\ req \in deployment.requests \cup {NoRequest}
  BY <1>1 DEF SettingsInv, ConfigTypeOK, SecretsInv, PutHandler, OrderInv
<1>3. req \in Request /\ \A cards \in req.providers : OneOpenAi(cards)
  BY <1>2, SentIsKnown DEF OrderlyDeployment, NoRequest
<1>4. Orderly(app.llm) /\ OneOpenAi(u.providers)
  BY DEF OrderInv
<1> HIDE DEF req, u
<1>5. Orderly(r.new) /\ OneOpenAi(r.body.providers)
  BY <1>2, <1>3, <1>4, ResolveIsOrderly
<1> HIDE DEF r
<1>6. h.body = r.body /\ h.new = r.new /\ h.snapshot = put[c].snapshot
  BY <1>2 DEF PutHandler
<1> HIDE DEF h
<1> QED BY <1>1, <1>2, <1>5, <1>6, OrderPutStep DEF OrderInv

LEMMA PutConfigOrder ==
  ASSUME SettingsInv, OrderInv, NEW c \in Client, PutConfig(c)
  PROVE  OrderInv' /\ BootInv'
<1> DEFINE b == put[c].body
           s == ShownCap(app, b)
           h == [put[c] EXCEPT !.pc = "llm", !.body = s]
<1>1. /\ put' = [put EXCEPT ![c] = h] /\ put[c].pc = "config"
      /\ UNCHANGED <<deployment, ui, db, file, phase>> /\ app' = WithConfig(app, put[c].new, b)
  BY DEF PutConfig, SettingsInv, ConfigTypeOK
<1>2. put[c] \in PutHandler /\ b \in UiConfig /\ phase = "up"
  BY <1>1 DEF SettingsInv, ConfigTypeOK, PutHandler, OrderInv
<1>3. s.providers = b.providers
  BY <1>2 DEF ShownCap, UiConfig
<1>4. Orderly(app'.llm)
  BY <1>1 DEF WithConfig, OrderInv
<1> HIDE DEF s
<1>5. h.body = s /\ h.new = put[c].new /\ h.snapshot = put[c].snapshot
  BY <1>2 DEF PutHandler
<1> HIDE DEF h
<1> QED BY <1>1, <1>2, <1>3, <1>4, <1>5, OrderPutStep DEF OrderInv

LEMMA PutLlmOrder ==
  ASSUME SettingsInv, OrderInv, NEW c \in Client, PutLlm(c)
  PROVE  OrderInv' /\ BootInv'
<1> DEFINE h == [put[c] EXCEPT !.pc = "ui"]
<1>1. /\ put' = [put EXCEPT ![c] = h] /\ put[c].pc = "llm"
      /\ UNCHANGED <<deployment, app, ui, db, file, phase>>
  BY DEF PutLlm, Goto, SettingsInv, ConfigTypeOK
<1>2. put[c] \in PutHandler /\ phase = "up"
  BY <1>1 DEF SettingsInv, ConfigTypeOK, OrderInv
<1>3. h.body = put[c].body /\ h.new = put[c].new /\ h.snapshot = put[c].snapshot
  BY <1>2 DEF PutHandler
<1> HIDE DEF h
<1> QED BY <1>1, <1>2, <1>3, OrderPutStep DEF OrderInv

LEMMA PutUiOrder ==
  ASSUME SettingsInv, OrderInv, NEW c \in Client, PutUi(c)
  PROVE  OrderInv' /\ BootInv'
<1> DEFINE b == put[c].body
           masked == MaskOrEmpty(gl')
           s == FromApplied(put[c].new, gl', ui')
           pc == IF deployment.db THEN "compare" ELSE "save"
           h == [put[c] EXCEPT !.pc = pc, !.snapshot = s]
<1>1. /\ put' = [put EXCEPT ![c] = h] /\ put[c].pc = "ui" /\ ui' = [b EXCEPT !.token = masked]
      /\ UNCHANGED <<deployment, app, db, file, phase>>
  BY DEF PutUi, SettingsInv, ConfigTypeOK
<1>2. put[c] \in PutHandler /\ b \in UiConfig /\ put[c].new \in Seq(Entry) /\ phase = "up"
  BY <1>1 DEF SettingsInv, ConfigTypeOK, PutHandler, OrderInv
<1> HIDE DEF masked
<1>3. ui'.providers = b.providers
  BY <1>1, <1>2 DEF UiConfig
<1>4. s.llm = DropEnvEntries(put[c].new, EnvEntries)
  BY DEF FromApplied
<1>5. Orderly(s.llm)
  BY <1>2, <1>4, PartIsOrderly DEF OrderInv, DropEnvEntries
<1> HIDE DEF s
<1>6. h.body = b /\ h.new = put[c].new /\ h.snapshot = s
  BY <1>2 DEF PutHandler
<1> HIDE DEF h
<1> QED BY <1>1, <1>2, <1>3, <1>5, <1>6, OrderPutStep DEF OrderInv

LEMMA PutCompareOrder ==
  ASSUME SettingsInv, OrderInv, NEW c \in Client, PutCompare(c)
  PROVE  OrderInv' /\ BootInv'
<1> DEFINE same == OrElse({s.llm : s \in db}, <<>>) = put[c].snapshot.llm
           h == [put[c] EXCEPT !.pc = "save", !.same = same]
<1>1. /\ put' = [put EXCEPT ![c] = h] /\ put[c].pc = "compare"
      /\ UNCHANGED <<deployment, app, ui, db, file, phase>>
  BY DEF PutCompare, SettingsInv, ConfigTypeOK
<1>2. put[c] \in PutHandler /\ phase = "up"
  BY <1>1 DEF SettingsInv, ConfigTypeOK, OrderInv
<1> HIDE DEF same
<1>3. h.body = put[c].body /\ h.new = put[c].new /\ h.snapshot = put[c].snapshot
  BY <1>2 DEF PutHandler
<1> HIDE DEF h
<1> QED BY <1>1, <1>2, <1>3, OrderPutStep DEF OrderInv

LEMMA PutSaveOrder ==
  ASSUME SettingsInv, OrderInv, NEW c \in Client, PutSave(c)
  PROVE  OrderInv' /\ BootInv'
<1> DEFINE s == put[c].snapshot
           old == OrElse(db, s)
           rows == IF put[c].same /\ db # {} THEN [s EXCEPT !.llm = old.llm] ELSE s
<1>1. /\ put' = [put EXCEPT ![c] = IdlePut] /\ put[c].pc = "save"
      /\ UNCHANGED <<deployment, app, ui, phase>>
      /\ \/ UNCHANGED <<db, file>>
         \/ db' = {rows} /\ UNCHANGED file
         \/ file' = {s} /\ UNCHANGED db
  BY DEF PutSave, Save
<1>2. s \in UiStateFile /\ phase = "up" /\ Orderly(s.llm) /\ \A r \in db \cup file : Orderly(r.llm)
  BY <1>1 DEF SettingsInv, ConfigTypeOK, PutHandler, OrderInv
<1>3. db # {} => old \in db
  BY OrElseOf
<1> HIDE DEF s, old
<1>4. Orderly(rows.llm)
  BY <1>2, <1>3 DEF UiStateFile
<1> HIDE DEF rows
<1>5. \A r \in db' \cup file' : Orderly(r.llm)
  BY <1>1, <1>2, <1>4
<1> QED BY <1>1, <1>2, <1>5, IdleIsOrderly, OrderPutStep DEF OrderInv

LEMMA CrashOrder ==
  ASSUME SettingsInv, OrderInv, OrderlyDeployment(deployment), EnvEntries = <<>>, Crash
  PROVE  OrderInv' /\ BootInv'
<1> DEFINE base == [llm |-> ConfigLlm, cap |-> FileCap]
           rows == OrElse(db, NoState)
           I == {i \in DOMAIN rows.llm : ~IsBlankOrMasked(rows.llm[i].key)}
           usable == Subsequence(rows.llm, I)
           only == [rows EXCEPT !.llm = usable]
           p == OrElse({u.primary : u \in only.ui}, Blank)
<1>1. /\ UNCHANGED <<deployment, db, file>> /\ \A c \in Client : put'[c] = IdlePut
      /\ phase' = (IF deployment.db THEN "import" ELSE "runtime")
      /\ app' = (IF deployment.db THEN ApplyDbOverrides(base) ELSE base)
      /\ ui' = FromAppConfig(ConfigLlm, FileCap)
  BY DEF Crash
<1>2. /\ Orderly(ConfigLlm) /\ \A stored : OpenAiWithin(ConfigLlm, stored)
      /\ OneOpenAi(FromAppConfig(ConfigLlm, FileCap).providers)
  BY ConfiguredList DEF SettingsInv, ConfigTypeOK
<1>3. db \in Option(UiStateFile) /\ deployment.db \in BOOLEAN
  BY DeploymentTypes DEF SettingsInv, ConfigTypeOK
<1>4. rows \in UiStateFile /\ Orderly(rows.llm) /\ (db # {} => db = {rows})
  <2>1. NoState \in UiStateFile /\ NoState.llm = <<>>
    BY NothingIsClean DEF NoState
  <2>2. \/ rows = NoState /\ db = {}
        \/ rows \in db
    BY OrElseOf
  <2> HIDE DEF rows
  <2> QED BY <1>3, <2>1, <2>2, NothingIsOrderly DEF OrderInv, Option
<1>5. ApplyDbOverrides(base).llm = IF usable # <<>> THEN StoredChain(only) ELSE ConfigLlm
  BY DEF ApplyDbOverrides
<1>6. Orderly(StoredChain(only)) /\ Range(StoredChain(only)) \subseteq Range(rows.llm)
  <2> HIDE DEF rows, I
  <2>1. rows.llm \in Seq(Entry)
    BY <1>4 DEF UiStateFile
  <2>2. usable \in Seq(Entry) /\ \A e \in Range(usable) : \E i \in DOMAIN rows.llm : i \in I /\ e = rows.llm[i]
    BY <2>1, PartOf
  <2>3. Orderly(usable)
    BY <1>4, <2>1, PartIsOrderly
  <2> HIDE DEF usable
  <2>4. only.llm = usable
    BY <1>4 DEF UiStateFile
  <2>5. StoredChain(only) = OrderedLlmConfigs(p, usable)
    BY <2>4 DEF StoredChain
  <2> HIDE DEF only, p
  <2>6. /\ Orderly(OrderedLlmConfigs(p, usable))
        /\ Range(OrderedLlmConfigs(p, usable)) \subseteq Range(usable)
    BY <2>2, <2>3, ChainIsOrderly, OrderedLlmConfigsType
  <2>7. Range(usable) \subseteq Range(rows.llm)
    BY <2>2 DEF Range
  <2> QED BY <2>5, <2>6, <2>7
<1>7. base.llm = ConfigLlm
  OBVIOUS
<1> HIDE DEF base, rows, usable, only
<1>8. Orderly(app'.llm)
  BY <1>1, <1>2, <1>5, <1>6, <1>7
<1>9. ASSUME NEW s \in Stored' PROVE OpenAiWithin(app'.llm, s.llm)
  <2>1. CASE app'.llm = ConfigLlm
    BY <1>2, <2>1
  <2>2. CASE app'.llm # ConfigLlm
    <3>1. deployment.db /\ usable # <<>> /\ app'.llm = StoredChain(only)
      BY <1>1, <1>5, <1>7, <2>2
    <3>2. db # {}
      <4>1. SUFFICES ASSUME db = {} PROVE FALSE
        OBVIOUS
      <4>2. rows.llm = <<>>
        BY <4>1, OrElseOf DEF rows, NoState
      <4>3. usable = <<>>
        <5>1. <<>> \in Seq(Entry) /\ \A k \in 1 .. Len(<<>>) : k \notin I
          OBVIOUS
        <5>2. Subsequence(<<>>, I) = <<>>
          <6> HIDE DEF I
          <6> QED BY <5>1, SubseqNone
        <5> QED BY <4>2, <5>2 DEF usable
      <4> QED BY <3>1, <4>3
    <3>3. s = rows
      BY <1>1, <1>4, <3>1, <3>2 DEF Stored
    <3> QED BY <1>6, <3>1, <3>3 DEF OpenAiWithin
  <2> QED BY <2>1, <2>2
<1>10. OrderInv'
  <2>1. phase' # "replay" /\ phase' # "rename" /\ (phase' = "import" => deployment'.db)
    BY <1>1
  <2>2. \A c \in Client : /\ put'[c].pc = "idle" /\ Orderly(put'[c].new) /\ Orderly(put'[c].snapshot.llm)
                          /\ OneOpenAi(put'[c].body.providers)
    BY <1>1, IdleIsOrderly
  <2>3. OneOpenAi(ui'.providers) /\ \A s \in db' \cup file' : Orderly(s.llm)
    BY <1>1, <1>2 DEF OrderInv
  <2> QED BY <1>8, <2>1, <2>2, <2>3 DEF OrderInv
<1>11. ~Replayed'
  BY <1>1 DEF Replayed
<1> QED BY <1>9, <1>10, <1>11 DEF BootInv

LEMMA ImportOrder ==
  ASSUME SettingsInv, OrderInv, BootInv, ImportUiState \/ RenameImported
  PROVE  OrderInv' /\ BootInv'
<1>1. /\ UNCHANGED <<deployment, app, llm, ui, put>> /\ phase \in {"import", "rename"}
      /\ phase' \in {"rename", "replay"}
      /\ \/ UNCHANGED file /\ (db' = db \/ (db = {} /\ db' = file))
         \/ UNCHANGED db /\ (file' = file \/ file' = {})
  BY DEF ImportUiState, RenameImported
<1>2. Stored' \subseteq Stored /\ ~Replayed /\ ~Replayed' /\ phase # "up"
  BY <1>1 DEF Stored, Replayed
<1>3. BootInv'
  BY <1>1, <1>2 DEF BootInv
<1>4. OrderInv'
  <2>1. \A s \in db' \cup file' : Orderly(s.llm)
    BY <1>1 DEF OrderInv
  <2> QED BY <1>1, <2>1 DEF OrderInv
<1> QED BY <1>3, <1>4

LEMMA ReplayOrder ==
  ASSUME SettingsInv, OrderInv, EnvEntries = <<>>, NEW s \in UiStateFile, NEW rt,
         Replay(s, rt), Orderly(s.llm)
  PROVE  Orderly(app'.llm) /\ OneOpenAi(ui'.providers)
<1> DEFINE req == ReplayPayload(s)
           r == Resolve(ui, app.llm, req)
           shown == ShownCap(app, r.body)
           masked == MaskOrEmpty(gl')
<1>1. ui \in UiConfig /\ app.llm \in Seq(Entry) /\ deployment \in Deployment /\ s.llm \in Seq(Entry)
  BY DEF SettingsInv, ConfigTypeOK, UiStateFile
<1>2. req \in Request
  BY <1>1, ReplayPayloadType
<1>3. \A cards \in req.providers : OneOpenAi(cards)
  <2> DEFINE u == OrElse(s.ui, FromAppConfig(<<>>, 0))
  <2>1. \A cards \in req.providers : cards = ReplayLlm(u, s.llm).providers
    BY DEF ReplayPayload
  <2>2. ReplayLlm(u, s.llm).providers = Cards(s.llm, FALSE)
    <3>1. s.ui \in Option(UiConfig) /\ <<>> \in Seq(Entry)
      BY DEF UiStateFile
    <3>2. FromAppConfig(<<>>, 0) \in UiConfig
      BY <3>1, FromAppConfigType
    <3>3. u \in UiConfig
      BY <3>1, <3>2, OptionOf
    <3> HIDE DEF u
    <3> QED BY <1>1, <3>3, ReplayLlmType
  <2>3. OneOpenAi(Cards(s.llm, FALSE))
    BY <1>1, CardsAreOne DEF Orderly
  <2> HIDE DEF u, req
  <2> QED BY <2>1, <2>2, <2>3
<1>4. /\ app' = WithConfig(app, r.new, r.body) /\ ui' = [shown EXCEPT !.token = masked]
  BY DEF Replay
<1> HIDE DEF req
<1>5. Orderly(r.new) /\ OneOpenAi(r.body.providers) /\ r.body \in UiConfig
  BY <1>1, <1>2, <1>3, ResolveIsOrderly, ResolveType DEF OrderInv
<1> HIDE DEF r, masked
<1>6. Orderly(app'.llm)
  BY <1>4, <1>5 DEF WithConfig, OrderInv
<1>7. shown.providers = r.body.providers
  BY <1>5 DEF ShownCap, UiConfig
<1>8. ui'.providers = r.body.providers
  <2>1. shown \in UiConfig
    BY <1>1, <1>5 DEF ShownCap, UiConfig, SettingsInv, ConfigTypeOK
  <2> HIDE DEF shown
  <2> QED BY <1>4, <1>7, <2>1 DEF UiConfig
<1> QED BY <1>5, <1>6, <1>8

LEMMA ReplayDbOrder ==
  ASSUME SettingsInv, OrderInv, BootInv, EnvEntries = <<>>, ReplayDb
  PROVE  OrderInv' /\ BootInv'
<1>1. UNCHANGED <<deployment, db, file, put>> /\ phase = "replay" /\ phase' = "runtime" /\ deployment.db
  BY DEF ReplayDb, OrderInv
<1>2. CASE db = {}
  <2>1. UNCHANGED <<app, llm, ui>>
    BY <1>2 DEF ReplayDb
  <2>2. Stored' = Stored /\ ~Replayed /\ ~Replayed'
    BY <1>1, <1>2 DEF Stored, Replayed
  <2> QED BY <1>1, <2>1, <2>2 DEF OrderInv, BootInv
<1>3. CASE db # {}
  <2> DEFINE s == OrElse(db, NoState)
  <2>1. Replay(s, gl) /\ s \in UiStateFile /\ s \in db /\ db = {s}
    BY <1>3, OptionOf DEF ReplayDb, SettingsInv, ConfigTypeOK, Option
  <2> HIDE DEF s
  <2>2. Stored = {s} /\ Stored' = {s} /\ ~Replayed /\ Replayed'
    BY <1>1, <1>3, <2>1 DEF Stored, Replayed
  <2>3. OpenAiWithin(app.llm, s.llm) /\ Orderly(s.llm)
    BY <1>1, <2>1, <2>2 DEF BootInv, OrderInv
  <2>4. Orderly(app'.llm) /\ OneOpenAi(ui'.providers)
    BY <2>1, <2>3, ReplayOrder
  <2>5. s.llm # <<>> => Chain' = StoredChain(s) /\ app'.llm = llm'
    BY <2>1, <2>3, ReplayedChain DEF SettingsInv, ConfigTypeOK
  <2>6. OrderInv'
    BY <1>1, <2>4 DEF OrderInv
  <2>7. BootInv'
    BY <2>2, <2>5 DEF BootInv, StoredChain
  <2> QED BY <2>6, <2>7
<1> QED BY <1>2, <1>3

\* The server starts to serve: what runs is what is stored.
LEMMA ServingOrder ==
  ASSUME SettingsInv, OrderInv, BootInv, EnvEntries = <<>>, StartServing
  PROVE  /\ OrderInv' /\ BootInv'
         /\ \A s \in Stored : s.llm # <<>> => Chain' = StoredChain(s) /\ app'.llm = llm'
<1>1. UNCHANGED <<deployment, db, file, put>> /\ phase = "runtime" /\ phase' = "up"
  BY DEF StartServing, InitRuntime
<1>2. BootInv'
  BY <1>1 DEF BootInv, Replayed
<1>3. CASE ~(deployment.db /\ db # {}) /\ file # {}
  <2> DEFINE s == OrElse(file, NoState)
  <2>1. Replay(s, deployment.envToken) /\ s \in UiStateFile /\ s \in file /\ file = {s}
    BY <1>3, OptionOf DEF StartServing, InitRuntime, SettingsInv, ConfigTypeOK, Option
  <2> HIDE DEF s
  <2>2. Stored = {s} /\ ~Replayed
    BY <1>3, <2>1 DEF Stored, Replayed
  <2>3. OpenAiWithin(app.llm, s.llm) /\ Orderly(s.llm)
    BY <1>1, <2>1, <2>2 DEF BootInv, OrderInv
  <2>4. Orderly(app'.llm) /\ OneOpenAi(ui'.providers)
    BY <2>1, <2>3, ReplayOrder
  <2>5. s.llm # <<>> => Chain' = StoredChain(s) /\ app'.llm = llm'
    BY <2>1, <2>3, ReplayedChain DEF SettingsInv, ConfigTypeOK
  <2>6. OrderInv'
    BY <1>1, <2>4 DEF OrderInv
  <2> QED BY <1>2, <2>2, <2>5, <2>6
<1>4. CASE ~(~(deployment.db /\ db # {}) /\ file # {})
  <2>1. UNCHANGED <<app, llm, ui>>
    BY <1>4 DEF StartServing, InitRuntime
  <2>2. OrderInv'
    BY <1>1, <2>1 DEF OrderInv
  <2>3. Chain' = Chain
    BY <2>1 DEF Chain
  <2>4. Stored = {} \/ Replayed
    BY <1>1, <1>4, DeploymentTypes DEF Stored, Replayed
  <2> QED BY <1>2, <2>1, <2>2, <2>3, <2>4 DEF BootInv
<1> QED BY <1>3, <1>4

LEMMA RestartStep ==
  ASSUME RestartInv, OrderlyDeployment(deployment), [ConfigNext]_configVars
  PROVE  RestartInv'
<1>1. SettingsInv /\ SettingsInv' /\ EnvEntries' = EnvEntries
  <2>1. deployment' = deployment
    BY DEF ConfigNext, configVars, PutRead, PutResolve, PutConfig, PutLlm, Goto, PutUi, PutCompare, PutSave, Crash,
           ImportUiState, RenameImported, ReplayDb, StartServing
  <2> QED BY <2>1, SettingsStep DEF RestartInv, EnvEntries
<1>2. ASSUME EnvEntries = <<>> PROVE OrderInv' /\ BootInv'
  <2>1. OrderInv /\ BootInv
    BY <1>2 DEF RestartInv
  <2>2. ASSUME NEW c \in Client,
               \/ \E req \in deployment.requests : PutRead(c, req)
               \/ PutResolve(c) \/ PutConfig(c) \/ PutLlm(c) \/ PutUi(c) \/ PutCompare(c) \/ PutSave(c)
        PROVE  OrderInv' /\ BootInv'
    BY <1>1, <2>1, <2>2, PutReadOrder, PutResolveOrder, PutConfigOrder, PutLlmOrder, PutUiOrder, PutCompareOrder, PutSaveOrder
  <2>3. CASE Crash \/ ImportUiState \/ RenameImported \/ ReplayDb \/ StartServing
    BY <1>1, <1>2, <2>1, <2>3, CrashOrder, ImportOrder, ReplayDbOrder, ServingOrder
  <2>4. CASE UNCHANGED configVars
    <3>1. (OrderInv <=> OrderInv') /\ (BootInv <=> BootInv')
      BY <2>4 DEF configVars, OrderInv, BootInv, Replayed, Stored, Chain, StoredChain
    <3> QED BY <2>1, <3>1
  <2> QED BY <2>2, <2>3, <2>4 DEF ConfigNext
<1> QED BY <1>1, <1>2 DEF RestartInv

\* A restart runs the providers that were stored, if any were and the environment names none,
\* in the order that was stored, whatever was saved before it, whichever save failed and
\* wherever the start-up was interrupted.
THEOREM ProvidersSurviveRestart ==
  ASSUME \A d \in Deployment : OrderlyDeployment(d)
  PROVE  ConfigSpec => RestartKeepsChain
<1> DEFINE Kept == BootEnds /\ EnvEntries = <<>> => \A s \in Stored : s.llm # <<>> => Chain' = StoredChain(s)
<1>1. ConfigInit => RestartInv
  BY RestartInit DEF ConfigInit
<1>2. RestartInv /\ [ConfigNext]_configVars => RestartInv'
  BY RestartStep DEF RestartInv, SettingsInv, ConfigTypeOK
<1>3. RestartInv /\ [ConfigNext]_configVars => [Kept]_configVars
  <2> SUFFICES ASSUME RestartInv, [ConfigNext]_configVars, BootEnds, EnvEntries = <<>>, NEW s \in Stored, s.llm # <<>>
               PROVE  Chain' = StoredChain(s)
    OBVIOUS
  <2>1. StartServing
    BY DEF BootEnds, ConfigNext, configVars, PutRead, PutResolve, PutConfig, PutLlm, Goto, PutUi, PutCompare, PutSave, Crash,
           ImportUiState, RenameImported, ReplayDb
  <2> QED BY <2>1, ServingOrder DEF RestartInv
<1> QED BY <1>1, <1>2, <1>3, PTL DEF ConfigSpec, RestartKeepsChain

-----------------------------------------------------------------------------
(* What is saved is what runs.                                             *)

\* What a save writes down stands for the chain that runs.
LEMMA SavedChain ==
  ASSUME NEW u \in UiConfig, NEW new \in Seq(Entry), new # <<>>, EnvEntries = <<>>, NEW token
  PROVE  LET s == FromApplied(new, token, u)
         IN  s.llm = new /\ StoredChain(s) = OrderedLlmConfigs(u.primary, new)
<1> DEFINE saved == DropEnvEntries(new, EnvEntries)
           kept == IF token = deployment.envToken THEN Blank ELSE token
           p == SyncLlmProjection(u, saved)
           masked == MaskOrEmpty(kept)
           v == [p EXCEPT !.token = masked]
           s == FromApplied(new, token, u)
           head == PrimaryEntry(u.primary, new)
           named == IF head = NoIndex THEN Blank ELSE new[head].provider
<1>1. saved = new
  <2> DEFINE I == {i \in DOMAIN new : ~IsEnvDerivedLlm(new[i], <<>>)}
  <2>1. DOMAIN new \subseteq I
    BY DEF IsEnvDerivedLlm, Some
  <2>2. saved = Subsequence(new, I)
    BY DEF DropEnvEntries
  <2> HIDE DEF I
  <2> QED BY <2>1, <2>2, SubsequenceFacts
<1>2. s.ui = {v} /\ s.llm = saved
  BY DEF FromApplied
<1> HIDE DEF saved, masked, s
<1>3. v.primary = named
  <2> DEFINE place == IF head = NoIndex THEN 1 ELSE head
             key == IF Some(saved, LAMBDA e : e.provider = "openai") THEN Mask ELSE Blank
  <2>1. p = [u EXCEPT !.primary = named, !.at = new[place].at, !.tag = new[place].tag, !.skey = key]
    BY <1>1 DEF SyncLlmProjection
  <2> HIDE DEF p, named, key, place
  <2> QED BY <2>1 DEF UiConfig
<1>4. StoredChain(s) = OrderedLlmConfigs(named, new)
  <2> HIDE DEF v, named
  <2>1. {x.primary : x \in s.ui} = {named}
    BY <1>2, <1>3
  <2> DEFINE ps == {x.primary : x \in s.ui}
  <2> HIDE DEF ps
  <2>2. OrElse(ps, Blank) = named
    <3>1. ps = {named}
      BY <2>1 DEF ps
    <3>2. OrElse(ps, Blank) \in ps
      BY <3>1, OrElseOf
    <3> QED BY <3>1, <3>2
  <2>3. StoredChain(s) = OrderedLlmConfigs(OrElse(ps, Blank), s.llm)
    BY DEF StoredChain, ps
  <2> QED BY <1>1, <1>2, <2>2, <2>3
<1>5. CASE head = NoIndex
  <2>1. \A i \in DOMAIN new : new[i].off
    BY <1>5, NoPrimaryEntry
  <2> HIDE DEF named
  <2> QED BY <1>1, <1>2, <1>4, <2>1, NoChain DEF s
<1>6. CASE head # NoIndex
  <2>1. named = new[head].provider
    BY <1>6
  <2>2. PrimaryEntry(new[head].provider, new) = head
    BY <1>6, SamePrimary
  <2>3. OrderedLlmConfigs(u.primary, new)
          = <<new[head]>> \o (Enabled(Before(new, head)) \o Enabled(After(new, head)))
    BY <1>6, LeadingEntry
  <2> HIDE DEF named, head
  <2>4. OrderedLlmConfigs(named, new)
          = <<new[head]>> \o (Enabled(Before(new, head)) \o Enabled(After(new, head)))
    BY <1>6, <2>1, <2>2, LeadingEntry
  <2> QED BY <1>1, <1>2, <1>4, <2>3, <2>4 DEF s
<1> QED BY <1>5, <1>6

\* The chain s stands for runs, in the list that configures it and in the one reviews take.
Runs(s) == s.llm # <<>> => StoredChain(s) = Chain /\ app.llm = llm

\* How far the one save in flight has come.
RunInv ==
  /\ phase = "up" /\ ~unsaved /\ (\A c \in Client : put[c].pc = "idle") => \A s \in Stored : Runs(s)
  /\ \A c \in Client :
       /\ put[c].pc \in {"llm", "ui"} /\ put[c].new # <<>> => app.llm = put[c].new
       /\ put[c].pc = "ui" /\ put[c].new # <<>> => llm = put[c].new
       /\ put[c].pc \in {"compare", "save"} => Runs(put[c].snapshot)
       /\ put[c].same => put[c].pc = "save" /\ \A r \in db : r.llm = put[c].snapshot.llm

SavedInv == RestartInv /\ (EnvEntries = <<>> => RunInv)

LEMMA RunHandlerStep ==
  ASSUME SettingsInv, OrderInv, RunInv, OneClient, EnvEntries = <<>>, NEW c \in Client,
         \/ \E req \in deployment.requests : PutRead(c, req)
         \/ PutResolve(c) \/ PutConfig(c) \/ PutLlm(c) \/ PutUi(c) \/ PutCompare(c) \/ PutSave(c)
  PROVE  RunInv'
<1>0. /\ put[c] \in PutHandler /\ put \in [Client -> PutHandler] /\ \A d \in Client : d = c
      /\ app \in [llm : Seq(Entry), cap : Nat] /\ deployment \in Deployment /\ deployment.db \in BOOLEAN
      /\ put[c].body \in UiConfig /\ put[c].new \in Seq(Entry) /\ put[c].snapshot \in UiStateFile
      /\ db \in Option(UiStateFile)
  BY DeploymentTypes DEF SettingsInv, ConfigTypeOK, OneClient, PutHandler
<1>1. CASE \E req \in deployment.requests : PutRead(c, req)
  <2>1. PICK req \in deployment.requests : PutRead(c, req)
    BY <1>1
  <2>2. put'[c].pc = "resolve" /\ put'[c].same = put[c].same /\ put[c].pc = "idle"
    BY <1>0, <2>1 DEF PutRead, PutHandler
  <2> QED BY <1>0, <2>2 DEF RunInv
<1>2. CASE PutResolve(c)
  <2>1. put'[c].pc = "config" /\ put'[c].same = put[c].same /\ put[c].pc = "resolve"
    BY <1>0, <1>2 DEF PutResolve, PutHandler
  <2> QED BY <1>0, <2>1 DEF RunInv
<1>3. CASE PutConfig(c)
  <2>1. put'[c].pc = "llm" /\ put'[c].new = put[c].new /\ put'[c].same = put[c].same /\ put[c].pc = "config"
    BY <1>0, <1>3 DEF PutConfig, PutHandler
  <2>2. put[c].new # <<>> => app'.llm = put[c].new
    BY <1>3 DEF PutConfig, WithConfig
  <2> QED BY <1>0, <2>1, <2>2 DEF RunInv
<1>4. CASE PutLlm(c)
  <2>1. /\ put'[c].pc = "ui" /\ put'[c].new = put[c].new /\ put[c].pc = "llm" /\ UNCHANGED app
        /\ put'[c].same = put[c].same
    BY <1>0, <1>4 DEF PutLlm, Goto, PutHandler
  <2>2. put[c].new # <<>> => llm' = put[c].new
    BY <1>4 DEF PutLlm
  <2> QED BY <1>0, <2>1, <2>2 DEF RunInv
<1>5. CASE PutUi(c)
  <2> DEFINE masked == MaskOrEmpty(gl')
             s == FromApplied(put[c].new, gl', ui')
             pc == IF deployment.db THEN "compare" ELSE "save"
  <2>1. /\ put' = [put EXCEPT ![c].pc = pc, ![c].snapshot = s] /\ put[c].pc = "ui"
        /\ ui' = [put[c].body EXCEPT !.token = masked] /\ UNCHANGED <<app, llm, deployment, db>>
    BY <1>5 DEF PutUi
  <2>2. ui' \in UiConfig
    <3>1. masked \in Text
      BY DEF MaskOrEmpty, Text
    <3> HIDE DEF masked
    <3> QED BY <1>0, <2>1, <3>1 DEF UiConfig
  <2>3. s.llm = IF put[c].new = <<>> THEN <<>> ELSE put[c].new
    <3>1. CASE put[c].new = <<>>
      <4>1. s.llm = DropEnvEntries(put[c].new, EnvEntries)
        BY DEF FromApplied
      <4>2. DropEnvEntries(put[c].new, EnvEntries) \in Seq(Entry)
            /\ \A e \in Range(DropEnvEntries(put[c].new, EnvEntries)) : e \in Range(put[c].new)
        BY <1>0, DeploymentTypes, DropEnvEntriesType
      <4>3. Range(put[c].new) = {}
        BY <3>1 DEF Range
      <4> DEFINE l == DropEnvEntries(put[c].new, EnvEntries)
      <4> HIDE DEF l
      <4>4. l \in Seq(Entry) /\ \A i \in DOMAIN l : FALSE
        BY <4>2, <4>3 DEF l, Range
      <4>5. l = <<>>
        BY <4>4, NothingInIt
      <4> QED BY <3>1, <4>1, <4>5 DEF l
    <3>2. CASE put[c].new # <<>>
      BY <1>0, <2>2, <3>2, SavedChain
    <3> QED BY <3>1, <3>2
  <2>4. put[c].new # <<>> => StoredChain(s) = OrderedLlmConfigs(ui'.primary, put[c].new)
    BY <1>0, <2>2, SavedChain
  <2> HIDE DEF s, pc
  <2>5. put'[c].pc = pc /\ put'[c].snapshot = s /\ put'[c].same = put[c].same
    BY <1>0, <2>1 DEF PutHandler
  <2>6. s.llm # <<>> => StoredChain(s) = Chain' /\ app'.llm = llm'
    BY <1>0, <2>1, <2>3, <2>4 DEF RunInv, Chain
  <2>7. Runs(put[c].snapshot)'
    BY <2>5, <2>6 DEF Runs, StoredChain
  <2>8. put'[c].pc \in {"compare", "save"} /\ ~put'[c].same
    BY <1>0, <2>1, <2>5 DEF pc, RunInv
  <2> QED BY <1>0, <2>7, <2>8 DEF RunInv
<1>6. CASE PutCompare(c)
  <2> DEFINE same == OrElse({s.llm : s \in db}, <<>>) = put[c].snapshot.llm
  <2>1. /\ put' = [put EXCEPT ![c].pc = "save", ![c].same = same] /\ put[c].pc = "compare"
        /\ UNCHANGED <<app, llm, ui, db>>
    BY <1>6 DEF PutCompare
  <2>2. ASSUME same, NEW r \in db PROVE r.llm = put[c].snapshot.llm
    <3>1. \A s \in db : s = r
      BY <1>0 DEF Option
    <3> DEFINE lists == {s.llm : s \in db}
    <3>2. lists = {r.llm}
      BY <3>1
    <3>3. OrElse(lists, <<>>) = put[c].snapshot.llm
      BY <2>2
    <3> HIDE DEF lists
    <3>4. OrElse(lists, <<>>) \in lists
      BY <3>2, OrElseOf
    <3> QED BY <3>2, <3>3, <3>4
  <2> HIDE DEF same
  <2>3. put'[c].pc = "save" /\ put'[c].same = same /\ put'[c].snapshot = put[c].snapshot
    BY <1>0, <2>1 DEF PutHandler
  <2>4. Runs(put[c].snapshot)'
    <3>1. Runs(put[c].snapshot)
      BY <2>1 DEF RunInv
    <3> QED BY <2>1, <2>3, <3>1 DEF Runs, StoredChain, Chain
  <2> QED BY <1>0, <2>1, <2>2, <2>3, <2>4 DEF RunInv
<1>7. CASE PutSave(c)
  <2> DEFINE s == put[c].snapshot
             old == OrElse(db, s)
             rows == IF put[c].same /\ db # {} THEN [s EXCEPT !.llm = old.llm] ELSE s
  <2>1. /\ put' = [put EXCEPT ![c] = IdlePut] /\ put[c].pc = "save"
        /\ UNCHANGED <<deployment, app, llm, ui, phase>>
        /\ \/ deployment.db /\ db' = {rows} /\ UNCHANGED file
           \/ ~deployment.db /\ file' = {s} /\ UNCHANGED db
           \/ unsaved'
    BY <1>7 DEF PutSave, Save
  <2>2. Runs(s) /\ (put[c].same => \A r \in db : r.llm = s.llm)
    BY <2>1 DEF RunInv
  <2>3. db # {} => old \in db
    BY <1>0, OrElseOf
  <2> HIDE DEF old, s
  <2>4. rows.ui = s.ui /\ rows.llm = s.llm
    <3>1. s \in UiStateFile
      BY <1>0 DEF s
    <3> QED BY <2>2, <2>3, <3>1 DEF UiStateFile
  <2> HIDE DEF rows
  <2>5. \A x : x = s \/ x = rows => (x.llm # <<>> => StoredChain(x) = Chain' /\ app'.llm = llm')
    <3>1. \A x : x = s \/ x = rows => Runs(x)
      BY <2>2, <2>4 DEF Runs, StoredChain
    <3>2. Chain' = Chain /\ app' = app /\ llm' = llm
      BY <2>1 DEF Chain
    <3> QED BY <3>1, <3>2 DEF Runs
  <2>6. ~unsaved' => \A x \in Stored' : x = s \/ x = rows
    BY <1>0, <2>1 DEF Stored
  <2>7. ~unsaved' => \A x \in Stored' : Runs(x)'
    BY <2>5, <2>6 DEF Runs, StoredChain
  <2>8. put'[c].pc = "idle" /\ ~put'[c].same
    BY <1>0, <2>1 DEF IdlePut
  <2> QED BY <1>0, <2>7, <2>8 DEF RunInv
<1> QED BY <1>1, <1>2, <1>3, <1>4, <1>5, <1>6, <1>7

LEMMA RunStep ==
  ASSUME SavedInv, OneClient, OrderlyDeployment(deployment), [ConfigNext]_configVars
  PROVE  SavedInv'
<1>1. RestartInv /\ RestartInv'
  BY RestartStep DEF SavedInv
<1>2. EnvEntries' = EnvEntries
  <2>1. deployment' = deployment
    BY DEF ConfigNext, configVars, PutRead, PutResolve, PutConfig, PutLlm, Goto, PutUi, PutCompare, PutSave, Crash,
           ImportUiState, RenameImported, ReplayDb, StartServing
  <2> QED BY <2>1 DEF EnvEntries
<1>3. ASSUME EnvEntries = <<>> PROVE RunInv'
  <2>1. SettingsInv /\ OrderInv /\ BootInv /\ RunInv
    BY <1>1, <1>3 DEF SavedInv, RestartInv
  <2>2. ASSUME NEW c \in Client,
               \/ \E req \in deployment.requests : PutRead(c, req)
               \/ PutResolve(c) \/ PutConfig(c) \/ PutLlm(c) \/ PutUi(c) \/ PutCompare(c) \/ PutSave(c)
        PROVE  RunInv'
    BY <1>3, <2>1, <2>2, RunHandlerStep
  <2>3. CASE Crash
    <3>1. phase' # "up" /\ \A c \in Client : put'[c] = IdlePut
      BY <2>3 DEF Crash
    <3>2. IdlePut.pc = "idle" /\ ~IdlePut.same
      BY DEF IdlePut
    <3> QED BY <3>1, <3>2 DEF RunInv
  <2>4. CASE ImportUiState \/ RenameImported \/ ReplayDb
    <3>1. phase' # "up" /\ put' = put /\ phase # "up"
      BY <2>4 DEF ImportUiState, RenameImported, ReplayDb
    <3>2. \A c \in Client : put[c].pc = "idle"
      BY <2>1, <3>1 DEF OrderInv
    <3> QED BY <2>1, <3>1, <3>2 DEF RunInv
  <2>5. CASE StartServing
    <3>1. put' = put /\ phase # "up" /\ UNCHANGED <<deployment, db, file>>
      BY <2>5 DEF StartServing, InitRuntime
    <3>2. \A c \in Client : put[c].pc = "idle"
      BY <2>1, <3>1 DEF OrderInv
    <3>3. \A s \in Stored : s.llm # <<>> => Chain' = StoredChain(s) /\ app'.llm = llm'
      BY <1>3, <2>1, <2>5, ServingOrder
    <3>4. Stored' = Stored
      BY <3>1 DEF Stored
    <3>5. \A s \in Stored' : Runs(s)'
      BY <3>3, <3>4 DEF Runs, StoredChain
    <3> QED BY <2>1, <3>1, <3>2, <3>5 DEF RunInv
  <2>6. CASE UNCHANGED configVars
    <3>1. RunInv <=> RunInv'
      BY <2>6 DEF configVars, RunInv, Runs, Stored, Chain, StoredChain
    <3> QED BY <2>1, <3>1
  <2> QED BY <2>2, <2>3, <2>4, <2>5, <2>6 DEF ConfigNext
<1> QED BY <1>1, <1>2, <1>3 DEF SavedInv

\* While PUTs come one at a time, whatever was saved, refused or interrupted: at rest, unless
\* the last save failed, a stored list of providers is the one that runs, in the order that
\* was stored.  It says nothing of a list that was emptied (its providers go on running until
\* a restart, put.rs) and of a server whose providers come from the environment.
THEOREM SavedRuns ==
  ASSUME OneClient, \A d \in Deployment : OrderlyDeployment(d)
  PROVE  ConfigSpec => []StoredProvidersRun
<1>1. ConfigInit => SavedInv
  <2> SUFFICES ASSUME ConfigInit PROVE SavedInv
    OBVIOUS
  <2>1. RestartInv
    BY RestartInit DEF ConfigInit
  <2>2. phase # "up" /\ \A c \in Client : put[c].pc = "idle" /\ ~put[c].same
    BY DEF ConfigInit, IdlePut
  <2> QED BY <2>1, <2>2 DEF SavedInv, RunInv
<1>2. SavedInv /\ [ConfigNext]_configVars => SavedInv'
  BY RunStep DEF SavedInv, RestartInv, SettingsInv, ConfigTypeOK
<1>3. SavedInv => StoredProvidersRun
  BY DEF SavedInv, RunInv, Runs, StoredProvidersRun, AtRest
<1> QED BY <1>1, <1>2, <1>3, PTL DEF ConfigSpec
=============================================================================
