------------------------- MODULE ReviewRoundProofs --------------------------
(***************************************************************************)
(* What a round of review promises, for any answers of the experts and of  *)
(* the model, any forge and any number of publications: where a finding    *)
(* and its severity come from, and what a publication says of itself.      *)
(***************************************************************************)
EXTENDS ReviewRound, FiniteSetTheorems, SequenceTheorems

-----------------------------------------------------------------------------
(* Sequences.                                                              *)

\* A function over the first n numbers is a sequence.
LEMMA IsASequence ==
  ASSUME NEW T, NEW n \in Nat, NEW s, s = [i \in 1 .. n |-> s[i]], \A i \in 1 .. n : s[i] \in T
  PROVE  s \in Seq(T) /\ Len(s) = n /\ DOMAIN s = 1 .. n
<1>1. s \in [1 .. n -> T]
  OBVIOUS
<1> QED BY <1>1

LEMMA MapType ==
  ASSUME NEW S, NEW s \in Seq(S), NEW T, NEW t, t = [i \in DOMAIN s |-> t[i]], \A i \in DOMAIN s : t[i] \in T
  PROVE  t \in Seq(T) /\ DOMAIN t = DOMAIN s /\ Len(t) = Len(s)
<1>1. DOMAIN s = 1 .. Len(s) /\ Len(s) \in Nat
  OBVIOUS
<1>2. t = [i \in 1 .. Len(s) |-> t[i]] /\ \A i \in 1 .. Len(s) : t[i] \in T
  BY <1>1
<1> HIDE <1>1
<1>3. t \in Seq(T) /\ Len(t) = Len(s) /\ DOMAIN t = 1 .. Len(s)
  BY <1>1, <1>2, IsASequence
<1> QED BY <1>1, <1>3

\* A sequence has the type of its elements.
LEMMA Retyped ==
  ASSUME NEW S, NEW s \in Seq(S), NEW T, \A i \in DOMAIN s : s[i] \in T
  PROVE  s \in Seq(T)
<1>1. s = [i \in DOMAIN s |-> s[i]]
  OBVIOUS
<1> QED BY <1>1, MapType

LEMMA SubsequenceType ==
  ASSUME NEW S, NEW s \in Seq(S), NEW I, NEW T, \A i \in DOMAIN s : i \in I => s[i] \in T
  PROVE  Subsequence(s, I) \in Seq(T)
<1> DEFINE r == Subsequence(s, I)
<1>1. r \in Seq(S) /\ \A k \in DOMAIN r : \E i \in DOMAIN s : i \in I /\ r[k] = s[i]
  BY SubsequenceFacts
<1> HIDE DEF r
<1>2. \A k \in DOMAIN r : r[k] \in T
  BY <1>1
<1>3. r \in Seq(T)
  BY <1>1, <1>2, Retyped
<1> QED BY <1>3 DEF r

\* An element more at the end.
LEMMA AppendType ==
  ASSUME NEW S, NEW s \in Seq(S), NEW e \in S
  PROVE  /\ Append(s, e) \in Seq(S) /\ Len(Append(s, e)) = Len(s) + 1 /\ Len(s) \in Nat
         /\ DOMAIN s = 1 .. Len(s) /\ DOMAIN Append(s, e) = 1 .. Len(s) + 1
         /\ \A i \in 1 .. Len(s) : Append(s, e)[i] = s[i]
         /\ Append(s, e)[Len(s) + 1] = e
  OBVIOUS

\* A sequence of anything.
IsSeq(s) == \E S : s \in Seq(S)

LEMMA AppendAny ==
  ASSUME NEW s, IsSeq(s), NEW e
  PROVE  /\ IsSeq(Append(s, e)) /\ Len(s) \in Nat /\ Len(Append(s, e)) = Len(s) + 1
         /\ DOMAIN s = 1 .. Len(s) /\ DOMAIN Append(s, e) = 1 .. Len(s) + 1
         /\ \A i \in 1 .. Len(s) : Append(s, e)[i] = s[i]
         /\ Append(s, e)[Len(s) + 1] = e
<1>1. PICK S : s \in Seq(S)
  BY DEF IsSeq
<1> DEFINE T == S \cup {e}
<1>2. \A i \in DOMAIN s : s[i] \in T
  BY <1>1
<1> HIDE DEF T
<1>3. s \in Seq(T)
  BY <1>1, <1>2, Retyped
<1>4. e \in T
  BY DEF T
<1>5. Append(s, e) \in Seq(T)
  BY <1>3, <1>4
<1> QED BY <1>3, <1>4, <1>5, AppendType DEF IsSeq

LEMMA SeqDomain ==
  ASSUME NEW s, IsSeq(s)
  PROVE  Len(s) \in Nat /\ DOMAIN s = 1 .. Len(s) /\ (Len(s) = 0 <=> s = <<>>)
<1>1. PICK S : s \in Seq(S)
  BY DEF IsSeq
<1> QED BY <1>1

\* The elements of several lists, one list after the other.
FlattenStep(ss, f, n) == f[n] = IF n = 1 THEN ss[n] ELSE f[n - 1] \o ss[n]
Flattens(S, ss, m, f) == f \in [1 .. m -> Seq(S)] /\ \A n \in 1 .. m : FlattenStep(ss, f, n)
Flattened(S, ss, m) == \E f : Flattens(S, ss, m, f)

LEMMA FlattenFurther ==
  ASSUME NEW S, NEW ss \in Seq(Seq(S)), NEW m \in 1 .. Len(ss), m # 1, Flattened(S, ss, m - 1)
  PROVE  Flattened(S, ss, m)
<1>1. PICK f : Flattens(S, ss, m - 1, f)
  BY DEF Flattened
<1>f. f \in [1 .. m - 1 -> Seq(S)] /\ \A n \in 1 .. m - 1 : FlattenStep(ss, f, n)
  BY <1>1 DEF Flattens
<1> DEFINE next == f[m - 1] \o ss[m]
           g == [n \in 1 .. m |-> IF n = m THEN next ELSE f[n]]
<1>2. next \in Seq(S)
  <2>1. f[m - 1] \in Seq(S) /\ ss[m] \in Seq(S)
    BY <1>f
  <2> HIDE <1>1, <1>f
  <2> QED BY <2>1
<1> HIDE DEF next
<1>3. g \in [1 .. m -> Seq(S)]
  BY <1>2, <1>f
<1>4. ASSUME NEW n \in 1 .. m PROVE FlattenStep(ss, g, n)
  <2>1. CASE n = m
    <3>1. g[m] = next /\ g[m - 1] = f[m - 1]
      OBVIOUS
    <3> QED BY <3>1, <2>1 DEF FlattenStep, next
  <2>2. CASE n # m
    <3>1. n \in 1 .. m - 1 /\ g[n] = f[n] /\ (n # 1 => g[n - 1] = f[n - 1])
      BY <2>2
    <3> QED BY <3>1, <1>f DEF FlattenStep
  <2> QED BY <2>1, <2>2
<1>5. Flattens(S, ss, m, g)
  BY <1>3, <1>4 DEF Flattens
<1> QED BY <1>5 DEF Flattened

LEMMA FlattenSolved ==
  ASSUME NEW S, NEW ss \in Seq(Seq(S)), Len(ss) # 0
  PROVE  Flattened(S, ss, Len(ss))
<1> DEFINE Bad == {m \in 1 .. Len(ss) : ~Flattened(S, ss, m)}
<1>1. SUFFICES ASSUME Bad # {} PROVE FALSE
  <2>1. Len(ss) \in 1 .. Len(ss)
    OBVIOUS
  <2> QED BY <2>1
<1>s. Bad \in SUBSET Nat
  OBVIOUS
<1>2. PICK m \in Bad : \A j \in Bad : m <= j
  <2> HIDE DEF Bad
  <2> QED BY <1>1, <1>s, LeastNatural
<1>3. m \in 1 .. Len(ss) /\ ~Flattened(S, ss, m)
  OBVIOUS
<1>4. m # 1
  <2>1. SUFFICES ASSUME m = 1 PROVE FALSE
    OBVIOUS
  <2>2. Flattens(S, ss, 1, [n \in 1 .. 1 |-> ss[n]])
    BY <2>1 DEF Flattens, FlattenStep
  <2> QED BY <2>1, <2>2, <1>3 DEF Flattened
<1>5. m - 1 \in 1 .. Len(ss) /\ m - 1 < m
  BY <1>3, <1>4
<1>6. Flattened(S, ss, m - 1)
  BY <1>5, <1>2
<1> QED BY <1>3, <1>4, <1>6, FlattenFurther

LEMMA FlattenType ==
  ASSUME NEW S, NEW ss \in Seq(Seq(S))
  PROVE  FlattenSeq(ss) \in Seq(S)
<1>1. CASE Len(ss) = 0
  BY <1>1 DEF FlattenSeq
<1>2. CASE Len(ss) # 0
  <2> DEFINE Eq(h) == h = [i \in 1 .. Len(ss) |-> IF i = 1 THEN ss[i] ELSE h[i - 1] \o ss[i]]
             h == CHOOSE x : Eq(x)
  <2>1. PICK f : Flattens(S, ss, Len(ss), f)
    BY <1>2, FlattenSolved DEF Flattened
  <2>2. Eq(f)
    BY <2>1 DEF Flattens, FlattenStep
  <2>3. Eq(h)
    BY <2>2
  <2>4. FlattenSeq(ss) = h[Len(ss)]
    BY <1>2 DEF FlattenSeq
  <2>5. h = [i \in 1 .. Len(ss) |-> h[i]] /\ \A n \in 1 .. Len(ss) : FlattenStep(ss, h, n)
    BY <2>3, ZenonT(60) DEF FlattenStep
  <2> HIDE DEF h
  <2>6. \A n \in 1 .. Len(ss) : h[n] = f[n]
    <3> DEFINE Bad == {n \in 1 .. Len(ss) : h[n] # f[n]}
    <3>1. SUFFICES ASSUME Bad # {} PROVE FALSE
      OBVIOUS
    <3>s. Bad \in SUBSET Nat
      OBVIOUS
    <3>2. PICK n \in Bad : \A j \in Bad : n <= j
      <4> HIDE DEF Bad
      <4> QED BY <3>1, <3>s, LeastNatural
    <3>3. n \in 1 .. Len(ss) /\ h[n] # f[n]
      OBVIOUS
    <3>4. n # 1 => h[n - 1] = f[n - 1]
      BY <3>2, <3>3
    <3> QED BY <3>3, <3>4, <2>5, <2>1 DEF FlattenStep, Flattens
  <2>7. Len(ss) \in 1 .. Len(ss)
    BY <1>2
  <2> QED BY <2>1, <2>4, <2>6, <2>7 DEF Flattens
<1> QED BY <1>1, <1>2

-----------------------------------------------------------------------------
(* The findings and the passes over them.                                  *)

Finding ==
  [id : Nat, expert : Nat, file : Nat, line : SUBSET Nat, end : SUBSET Nat, severity : Severity, confidence : Nat,
   title : Nat \X Nat, advice : Nat, leak : STRING, outside : BOOLEAN, agrees : Seq(Nat)]

ReportOf(T) == [expert : Nat, findings : Seq(T), omitted : SUBSET Nat, unparsed : BOOLEAN]

\* What the passes keep of a finding: which one it is, how sure and how grave.
Same(f, g) == f.id = g.id /\ f.severity = g.severity /\ f.confidence = g.confidence

LEMMA OrElseIn ==
  ASSUME NEW T, NEW o \in SUBSET T, NEW d \in T
  PROVE  OrElse(o, d) \in T
  BY DEF OrElse

LEMMA ExtractType ==
  ASSUME NEW issue \in ReportedIssue, NEW e \in Nat
  PROVE  ExtractFinding(issue, e) \in Finding
<1>1. UNION {ParseSeverityLabel(s) : s \in issue.severity} \in SUBSET Severity
  BY DEF ParseSeverityLabel
<1>2. OrElse(UNION {ParseSeverityLabel(s) : s \in issue.severity}, 2) \in Severity
  <2>1. 2 \in Severity
    BY DEF Severity
  <2> QED BY <1>1, <2>1, OrElseIn
<1>3. LineSpan \in Nat \ {0}
  BY BatchAssumption DEF BatchAssumption
<1>4. /\ {l % LineSpan : l \in issue.line} \in SUBSET Nat
      /\ {l % LineSpan : l \in issue.end} \in SUBSET Nat
      /\ {c % 256 : c \in issue.confidence} \in SUBSET Nat
  BY <1>3 DEF ReportedIssue
<1>5. OrElse({c % 256 : c \in issue.confidence}, 5) \in Nat
  BY <1>4, OrElseIn
<1>6. <<>> \in Seq(Nat)
  OBVIOUS
<1> QED BY <1>2, <1>4, <1>5, <1>6 DEF ExtractFinding, ReportedIssue, Finding

LEMMA ParseType ==
  ASSUME NEW e \in Nat, NEW a \in ExpertAnswer
  PROVE  ParseLlmResponse(e, a) \in ReportOf(Finding)
<1> DEFINE issues == IF a.shape \in {"mapping", "fenced"} THEN a.issues ELSE <<>>
           fs == [i \in DOMAIN issues |-> ExtractFinding(issues[i], e)]
<1>1. issues \in Seq(ReportedIssue)
  BY DEF ExpertAnswer
<1>2. ParseLlmResponse(e, a) = [expert |-> e, findings |-> fs, omitted |-> a.omitted,
                                unparsed |-> a.shape \in {"garbage", "oversized"}]
  BY DEF ParseLlmResponse
<1> HIDE DEF issues
<1>3. \A i \in DOMAIN fs : fs[i] \in Finding
  BY <1>1, ExtractType
<1>4. fs \in Seq(Finding)
  <2>1. fs = [i \in DOMAIN issues |-> fs[i]] /\ \A i \in DOMAIN issues : fs[i] \in Finding
    BY <1>3
  <2> HIDE DEF fs
  <2> QED BY <1>1, <2>1, MapType
<1> HIDE DEF fs
<1> QED BY <1>2, <1>4 DEF ReportOf, ExpertAnswer

\* Validation leaves findings about files of the diff, as they were.
LEMMA ValidateKeeps ==
  ASSUME NEW fs \in Seq(Finding), NEW diff
  PROVE  /\ ValidateFindings(fs, diff) \in Seq(Finding)
         /\ \A k \in DOMAIN ValidateFindings(fs, diff) : \E i \in DOMAIN fs :
              /\ \E j \in DOMAIN diff : diff[j].path = fs[i].file
              /\ Same(ValidateFindings(fs, diff)[k], fs[i])
<1> DEFINE I == {k \in DOMAIN fs : \E i \in DOMAIN diff : diff[i].path = fs[k].file}
           known == Subsequence(fs, I)
           v == ValidateFindings(fs, diff)
<1>1. /\ known \in Seq(Finding)
      /\ \A k \in DOMAIN known : \E i \in DOMAIN fs : i \in I /\ known[k] = fs[i]
  <2> HIDE DEF I
  <2> QED BY SubsequenceFacts
<1>2. /\ v = [k \in DOMAIN known |-> v[k]]
      /\ \A k \in DOMAIN known : \E b \in BOOLEAN : v[k] = [known[k] EXCEPT !.outside = b]
  BY DEF ValidateFindings
<1> HIDE DEF v, known
<1>3. \A k \in DOMAIN known : v[k] \in Finding /\ Same(v[k], known[k])
  <2> SUFFICES ASSUME NEW k \in DOMAIN known PROVE v[k] \in Finding /\ Same(v[k], known[k])
    OBVIOUS
  <2>1. known[k] \in Finding
    BY <1>1
  <2>2. PICK b \in BOOLEAN : v[k] = [known[k] EXCEPT !.outside = b]
    BY <1>2
  <2> QED BY <2>1, <2>2 DEF Finding, Same
<1>4. v \in Seq(Finding) /\ DOMAIN v = DOMAIN known
  BY <1>1, <1>2, <1>3, MapType
<1>5. ASSUME NEW k \in DOMAIN v
      PROVE  \E i \in DOMAIN fs : (\E j \in DOMAIN diff : diff[j].path = fs[i].file) /\ Same(v[k], fs[i])
  <2>1. PICK i \in DOMAIN fs : i \in I /\ known[k] = fs[i]
    BY <1>1, <1>4
  <2>2. Same(v[k], fs[i])
    BY <1>3, <1>4, <2>1
  <2> QED BY <2>1, <2>2
<1> QED BY <1>4, <1>5 DEF v

LEMMA ReportsFindings ==
  ASSUME NEW T, NEW rs \in Seq(ReportOf(T))
  PROVE  \A r \in DOMAIN rs : rs[r] \in ReportOf(T) /\ rs[r].findings \in Seq(T) /\ r \in Nat
<1>1. \A r \in DOMAIN rs : rs[r] \in ReportOf(T) /\ r \in Nat
  OBVIOUS
<1>2. \A x \in ReportOf(T) : x.findings \in Seq(T)
  BY DEF ReportOf
<1> QED BY <1>1, <1>2

\* What is not marked stays where it was.
LEMMA WithoutMarkedType ==
  ASSUME NEW T, NEW rs \in Seq(ReportOf(T)), NEW m
  PROVE  WithoutMarked(rs, m) \in Seq(ReportOf(T))
<1> DEFINE w == WithoutMarked(rs, m)
<1>1. w = [r \in DOMAIN rs |-> w[r]]
  BY DEF WithoutMarked
<1>2. ASSUME NEW r \in DOMAIN rs PROVE w[r] \in ReportOf(T)
  <2> DEFINE I == {f \in DOMAIN rs[r].findings : <<r, f>> \notin m}
  <2>1. w[r] = [rs[r] EXCEPT !.findings = Subsequence(rs[r].findings, I)]
    BY DEF WithoutMarked
  <2> HIDE DEF I, w
  <2>2. rs[r] \in ReportOf(T) /\ rs[r].findings \in Seq(T)
    BY ReportsFindings
  <2>3. Subsequence(rs[r].findings, I) \in Seq(T)
    BY <2>2, SubsequenceFacts
  <2> QED BY <2>1, <2>2, <2>3 DEF ReportOf
<1> HIDE DEF w
<1>3. w \in Seq(ReportOf(T))
  BY <1>1, <1>2, MapType
<1> QED BY <1>3 DEF w

\* A place in the reports.
Places(rs) == {p \in Nat \X Nat : p[1] \in DOMAIN rs /\ p[2] \in DOMAIN rs[p[1]].findings}

LEMMA PositionsType ==
  ASSUME NEW T, NEW rs \in Seq(ReportOf(T))
  PROVE  Positions(rs) \in Seq(Places(rs))
<1> DEFINE row(r) == [f \in DOMAIN rs[r].findings |-> <<r, f>>]
           rows == [r \in DOMAIN rs |-> row(r)]
<1>1. ASSUME NEW r \in DOMAIN rs PROVE row(r) \in Seq(Places(rs))
  <2>1. rs[r].findings \in Seq(T) /\ r \in Nat
    BY ReportsFindings
  <2>2. \A f \in DOMAIN rs[r].findings : f \in Nat /\ <<r, f>> \in Places(rs)
    BY <2>1 DEF Places
  <2> DEFINE s == rs[r].findings
             t == row(r)
  <2>3. t = [f \in DOMAIN s |-> t[f]] /\ \A f \in DOMAIN s : t[f] \in Places(rs)
    BY <2>2
  <2> HIDE DEF t, s
  <2>4. t \in Seq(Places(rs))
    <3>1. s \in Seq(T)
      BY <2>1 DEF s
    <3> QED BY <3>1, <2>3, MapType
  <2> QED BY <2>4 DEF t
<1> HIDE DEF row
<1>2. rows \in Seq(Seq(Places(rs)))
  <2>1. rows = [r \in DOMAIN rs |-> rows[r]] /\ \A r \in DOMAIN rs : rows[r] \in Seq(Places(rs))
    BY <1>1
  <2> HIDE DEF rows
  <2> QED BY <2>1, MapType
<1>3. Positions(rs) = FlattenSeq(rows)
  BY DEF Positions, row
<1> HIDE DEF rows
<1> QED BY <1>2, <1>3, FlattenType

\* What was marked is what leaves.
LEMMA MarkedType ==
  ASSUME NEW T, NEW rs \in Seq(ReportOf(T)), NEW m, NEW U,
         \A p \in Places(rs) : p \in m => rs[p[1]].findings[p[2]] \in U
  PROVE  Marked(rs, m) \in Seq(U)
<1> DEFINE all == Positions(rs)
           I == {k \in DOMAIN all : all[k] \in m}
           gone == Subsequence(all, I)
           out == Marked(rs, m)
<1>1. all \in Seq(Places(rs))
  BY PositionsType
<1>2. out = [i \in DOMAIN gone |-> rs[gone[i][1]].findings[gone[i][2]]]
  BY DEF Marked
<1> HIDE DEF out, all
<1>3. \A k \in DOMAIN all : k \in I => all[k] \in m \cap Places(rs)
  BY <1>1
<1> HIDE DEF I
<1>4. gone \in Seq(m \cap Places(rs))
  BY <1>1, <1>3, SubsequenceType
<1> HIDE DEF gone
<1>5. \A i \in DOMAIN gone : out[i] \in U
  BY <1>2, <1>4
<1>6. out = [i \in DOMAIN gone |-> out[i]]
  BY <1>2
<1>7. out \in Seq(U)
  BY <1>4, <1>5, <1>6, MapType
<1> QED BY <1>7 DEF out

LEMMA AllFindingsType ==
  ASSUME NEW T, NEW rs \in Seq(ReportOf(T))
  PROVE  AllFindings(rs) \in Seq(T)
<1> DEFINE lists == [r \in DOMAIN rs |-> rs[r].findings]
<1>1. lists = [r \in DOMAIN rs |-> lists[r]] /\ \A r \in DOMAIN rs : lists[r] \in Seq(T)
  BY ReportsFindings
<1>2. AllFindings(rs) = FlattenSeq(lists)
  BY DEF AllFindings
<1> HIDE DEF lists
<1>3. lists \in Seq(Seq(T))
  BY <1>1, MapType
<1> QED BY <1>2, <1>3, FlattenType

\* A finding of low confidence goes down one step or leaves, any other is kept as it is.
Weaker(f, g, floor) ==
  /\ f.id = g.id /\ f.confidence = g.confidence /\ f.severity <= g.severity
  /\ f.severity < g.severity => g.confidence < floor

LEMMA FilterKeeps ==
  ASSUME NEW fs \in Seq(Finding), NEW report
  PROVE  /\ FilterByConfidence(fs, report) \in Seq(Finding)
         /\ \A k \in DOMAIN FilterByConfidence(fs, report) : \E i \in DOMAIN fs :
              Weaker(FilterByConfidence(fs, report)[k], fs[i], report.min_confidence)
<1> DEFINE low(f) == f.confidence < report.min_confidence
           I == {i \in DOMAIN fs : ~low(fs[i])}
           kept == IF report.drop_low THEN Subsequence(fs, I) ELSE fs
           r == FilterByConfidence(fs, report)
<1>1. /\ kept \in Seq(Finding)
      /\ \A k \in DOMAIN kept : \E i \in DOMAIN fs : kept[k] = fs[i]
  <2> HIDE DEF I
  <2>1. CASE report.drop_low
    BY <2>1, SubsequenceFacts
  <2>2. CASE ~report.drop_low
    BY <2>2
  <2> QED BY <2>1, <2>2
<1>2. r = [k \in DOMAIN kept |->
             [kept[k] EXCEPT !.severity = IF low(kept[k]) /\ kept[k].severity > 0 THEN kept[k].severity - 1 ELSE kept[k].severity]]
  BY DEF FilterByConfidence
<1> HIDE DEF r, kept
<1>3. ASSUME NEW k \in DOMAIN kept PROVE r[k] \in Finding /\ Weaker(r[k], kept[k], report.min_confidence)
  <2>0. kept[k] \in Finding
    BY <1>1
  <2>1. kept[k] \in Finding /\ kept[k].severity \in 0 .. 4
    BY <2>0 DEF Finding, Severity
  <2> DEFINE s == IF low(kept[k]) /\ kept[k].severity > 0 THEN kept[k].severity - 1 ELSE kept[k].severity
  <2>2. r[k] = [kept[k] EXCEPT !.severity = s]
    BY <1>2
  <2>3. s \in 0 .. 4 /\ s <= kept[k].severity /\ (s < kept[k].severity => low(kept[k]))
    BY <2>1
  <2> HIDE DEF s
  <2>4. r[k].severity = s /\ r[k].id = kept[k].id /\ r[k].confidence = kept[k].confidence
    BY <2>1, <2>2 DEF Finding
  <2>5. r[k] \in Finding
    BY <2>1, <2>2, <2>3 DEF Finding, Severity
  <2> QED BY <2>3, <2>4, <2>5 DEF Weaker
<1>4. r \in Seq(Finding) /\ DOMAIN r = DOMAIN kept
  <2>1. r = [k \in DOMAIN kept |-> r[k]] /\ \A k \in DOMAIN kept : r[k] \in Finding
    BY <1>2, <1>3
  <2> QED BY <1>1, <2>1, MapType
<1>5. \A k \in DOMAIN r : \E i \in DOMAIN fs : Weaker(r[k], fs[i], report.min_confidence)
  BY <1>1, <1>3, <1>4
<1> QED BY <1>4, <1>5 DEF r

\* Of several findings of one key the first stays, and only notes who agrees with it.
LEMMA DeduplicateKeeps ==
  ASSUME NEW fs \in Seq(Finding)
  PROVE  /\ DeduplicateFindings(fs) \in Seq(Finding)
         /\ \A k \in DOMAIN DeduplicateFindings(fs) : \E i \in DOMAIN fs : Same(DeduplicateFindings(fs)[k], fs[i])
<1> DEFINE same(i) == {j \in DOMAIN fs : DedupKey(fs[j]) = DedupKey(fs[i])}
           agreeing(i) == {j \in same(i) \ {i} :
                             /\ fs[j].expert \notin ToSet(fs[i].agrees)
                             /\ \A k \in same(i) \ {i} : k < j => fs[k].expert # fs[j].expert}
           experts == [i \in DOMAIN fs |-> fs[i].expert]
           merged == [i \in DOMAIN fs |-> [fs[i] EXCEPT !.agrees = fs[i].agrees \o Subsequence(experts, agreeing(i))]]
           I == {i \in DOMAIN fs : \A j \in same(i) : i <= j}
           r == DeduplicateFindings(fs)
<1>1. r = Subsequence(merged, I)
  BY DEF DeduplicateFindings
<1> HIDE DEF r, agreeing, I
<1>2. experts \in Seq(Nat)
  <2>1. \A i \in DOMAIN fs : fs[i] \in Finding
    OBVIOUS
  <2>2. experts = [i \in DOMAIN fs |-> experts[i]] /\ \A i \in DOMAIN fs : experts[i] \in Nat
    BY <2>1 DEF Finding
  <2> HIDE DEF experts
  <2> QED BY <2>2, MapType
<1> HIDE DEF experts
<1>3. ASSUME NEW i \in DOMAIN fs PROVE merged[i] \in Finding /\ Same(merged[i], fs[i])
  <2> DEFINE more == Subsequence(experts, agreeing(i))
  <2>1. more \in Seq(Nat)
    BY <1>2, SubsequenceFacts
  <2>2. merged[i] = [fs[i] EXCEPT !.agrees = fs[i].agrees \o more]
    OBVIOUS
  <2> HIDE DEF more, merged
  <2>3. fs[i] \in Finding
    OBVIOUS
  <2>4. fs[i].agrees \o more \in Seq(Nat)
    BY <2>1, <2>3 DEF Finding
  <2> QED BY <2>2, <2>3, <2>4 DEF Finding, Same
<1>4. merged = [i \in DOMAIN fs |-> merged[i]]
  OBVIOUS
<1> HIDE DEF merged
<1>5. merged \in Seq(Finding) /\ DOMAIN merged = DOMAIN fs
  BY <1>3, <1>4, MapType
<1>6. r \in Seq(Finding) /\ \A k \in DOMAIN r : \E i \in DOMAIN merged : r[k] = merged[i]
  BY <1>1, <1>5, SubsequenceFacts
<1>7. \A k \in DOMAIN r : \E i \in DOMAIN fs : Same(r[k], fs[i])
  BY <1>3, <1>5, <1>6
<1> QED BY <1>6, <1>7 DEF r

\* Batches are lists of the things that were put into them.
LEMMA GroupType ==
  ASSUME NEW S, NEW items \in Seq(S), NEW fileOf
  PROVE  GroupByFile(items, fileOf) \in Seq(Seq(S))
<1> DEFINE of(i) == {j \in DOMAIN items : fileOf[items[j]] = fileOf[items[i]]}
           groups == [i \in DOMAIN items |-> Subsequence(items, of(i))]
           I == {i \in DOMAIN items : \A j \in of(i) : i <= j}
           r == GroupByFile(items, fileOf)
<1>1. r = Subsequence(groups, I)
  BY DEF GroupByFile
<1> HIDE DEF r, of, I
<1>2. groups = [i \in DOMAIN items |-> groups[i]] /\ \A i \in DOMAIN items : groups[i] \in Seq(S)
  BY SubsequenceFacts
<1> HIDE DEF groups
<1>3. groups \in Seq(Seq(S))
  BY <1>2, MapType
<1>4. r \in Seq(Seq(S))
  BY <1>1, <1>3, SubsequenceFacts
<1> QED BY <1>4 DEF r

LEMMA ChunksType ==
  ASSUME NEW S, NEW s \in Seq(S), NEW n \in Nat \ {0}
  PROVE  Chunks(s, n) \in Seq(Seq(S))
<1> DEFINE m == (Len(s) + n - 1) \div n
           I(b) == {i \in DOMAIN s : (i - 1) \div n = b - 1}
           r == Chunks(s, n)
<1>1. m \in Nat
  <2>1. Len(s) + n - 1 \in Nat /\ n > 0
    OBVIOUS
  <2> HIDE DEF m
  <2>2. \A x \in Nat : x \div n \in Nat
    OBVIOUS
  <2> QED BY <2>1, <2>2 DEF m
<1>2. r = [b \in 1 .. m |-> Subsequence(s, I(b))]
  BY DEF Chunks
<1> HIDE DEF m, I, r
<1>3. r = [b \in 1 .. m |-> r[b]] /\ \A b \in 1 .. m : r[b] \in Seq(S)
  BY <1>2, SubsequenceFacts
<1>4. r \in Seq(Seq(S))
  BY <1>1, <1>3, IsASequence
<1> QED BY <1>4 DEF r

LEMMA ChunkedType ==
  ASSUME NEW S, NEW groups \in Seq(Seq(S)), NEW n \in Nat \ {0}
  PROVE  FlattenSeq([g \in DOMAIN groups |-> Chunks(groups[g], n)]) \in Seq(Seq(S))
<1> DEFINE cut == [g \in DOMAIN groups |-> Chunks(groups[g], n)]
<1>1. \A g \in DOMAIN groups : groups[g] \in Seq(S)
  OBVIOUS
<1>2. cut = [g \in DOMAIN groups |-> cut[g]] /\ \A g \in DOMAIN groups : cut[g] \in Seq(Seq(S))
  BY <1>1, ChunksType
<1> HIDE DEF cut
<1>3. cut \in Seq(Seq(Seq(S)))
  BY <1>2, MapType
<1>4. FlattenSeq(cut) \in Seq(Seq(S))
  BY <1>3, FlattenType
<1> QED BY <1>4 DEF cut

LEMMA VerifierBatchesType ==
  ASSUME NEW T, NEW rs \in Seq(ReportOf(T))
  PROVE  VerifierBatches(rs) \in Seq(Seq(Places(rs)))
<1> DEFINE all == Positions(rs)
           fileOf == [p \in ToSet(all) |-> rs[p[1]].findings[p[2]].file]
           groups == GroupByFile(all, fileOf)
<1>1. VerifierBatches(rs) = FlattenSeq([g \in DOMAIN groups |-> Chunks(groups[g], VerifyBatch)])
  BY DEF VerifierBatches
<1>2. all \in Seq(Places(rs))
  BY PositionsType
<1> HIDE DEF all, fileOf
<1>3. groups \in Seq(Seq(Places(rs)))
  BY <1>2, GroupType
<1> HIDE DEF groups
<1>4. VerifyBatch \in Nat \ {0}
  BY BatchAssumption DEF BatchAssumption
<1> QED BY <1>1, <1>3, <1>4, ChunkedType

LEMMA AdjudicationGroupsType ==
  ASSUME NEW fs \in Seq(Finding), NEW floor
  PROVE  AdjudicationGroups(fs, floor) \in Seq(Seq(DOMAIN fs))
<1> DEFINE places == [i \in DOMAIN fs |-> i]
           I == {i \in DOMAIN fs : fs[i].severity >= floor}
           candidates == Subsequence(places, I)
           fileOf == [i \in DOMAIN fs |-> fs[i].file]
<1>1. AdjudicationGroups(fs, floor) = GroupByFile(candidates, fileOf)
  BY DEF AdjudicationGroups
<1> HIDE DEF I, fileOf
<1>2. places = [i \in DOMAIN fs |-> places[i]] /\ \A i \in DOMAIN fs : places[i] \in DOMAIN fs
  OBVIOUS
<1> HIDE DEF places
<1>3. places \in Seq(DOMAIN fs)
  BY <1>2, MapType
<1>4. candidates \in Seq(DOMAIN fs)
  BY <1>3, SubsequenceFacts
<1> HIDE DEF candidates
<1> QED BY <1>1, <1>4, GroupType

LEMMA AdjudicationBatchesType ==
  ASSUME NEW fs \in Seq(Finding), NEW floor, NEW readable
  PROVE  AdjudicationBatches(fs, floor, readable) \in Seq(Seq(DOMAIN fs))
<1> DEFINE groups == AdjudicationGroups(fs, floor)
           I == {g \in DOMAIN groups : fs[groups[g][1]].file \in readable}
           read == Subsequence(groups, I)
<1>1. AdjudicationBatches(fs, floor, readable) = FlattenSeq([g \in DOMAIN read |-> Chunks(read[g], AdjudicateBatch)])
  BY DEF AdjudicationBatches
<1>2. groups \in Seq(Seq(DOMAIN fs))
  BY AdjudicationGroupsType
<1> HIDE DEF groups, I
<1>3. read \in Seq(Seq(DOMAIN fs))
  BY <1>2, SubsequenceFacts
<1> HIDE DEF read
<1>4. AdjudicateBatch \in Nat \ {0}
  BY BatchAssumption DEF BatchAssumption
<1> QED BY <1>1, <1>3, <1>4, ChunkedType

-----------------------------------------------------------------------------
(* The answers of the model.                                               *)

\* An answer names a finding, at its own place in the batch that was asked about.
NamesIt(a, pass, id, verdicts) ==
  /\ a.pass = pass /\ a.answer.kind = "list"
  /\ \E e \in ToSet(a.answer.entries) : \E k \in e.index :
       e.verdict \in verdicts /\ k < Len(a.ids) /\ a.ids[k + 1] = id

LEMMA EntriesParsed ==
  ASSUME NEW answer \in ModelAnswer
  PROVE  /\ ParseVerdictEntries(answer) \in Seq(VerdictEntry)
         /\ \A e \in ToSet(ParseVerdictEntries(answer)) :
              /\ e \in ToSet(answer.entries) /\ e \in VerdictEntry
              /\ TheIndex(e) \in e.index /\ TheIndex(e) \in Nat
<1> DEFINE I == {i \in DOMAIN answer.entries : answer.entries[i].index # {}}
           r == ParseVerdictEntries(answer)
<1>1. answer.entries \in Seq(VerdictEntry)
  BY DEF ModelAnswer
<1>2. r = Subsequence(answer.entries, I)
  BY DEF ParseVerdictEntries
<1>3. \A i \in I : answer.entries[i].index # {}
  OBVIOUS
<1> HIDE DEF I, r
<1>4. r \in Seq(VerdictEntry) /\ \A k \in DOMAIN r : \E i \in DOMAIN answer.entries : i \in I /\ r[k] = answer.entries[i]
  BY <1>1, <1>2, SubsequenceFacts
<1>5. ASSUME NEW e \in ToSet(r)
      PROVE  e \in ToSet(answer.entries) /\ e \in VerdictEntry /\ TheIndex(e) \in e.index /\ TheIndex(e) \in Nat
  <2>1. PICK i \in DOMAIN answer.entries : i \in I /\ e = answer.entries[i]
    BY <1>4 DEF ToSet
  <2>2. e \in VerdictEntry /\ e \in ToSet(answer.entries) /\ e.index # {}
    BY <1>1, <1>3, <2>1 DEF ToSet
  <2>3. e.index \in SUBSET Nat
    BY <2>2 DEF VerdictEntry
  <2>4. TheIndex(e) \in e.index
    BY <2>2 DEF TheIndex, OrElse
  <2> QED BY <2>2, <2>3, <2>4
<1> QED BY <1>4, <1>5 DEF r

\* Whatever an answer is taken to name, it does name.
LEMMA NamedIsSaid ==
  ASSUME NEW S, NEW batch \in Seq(S), NEW answer \in ModelAnswer, answer.kind = "list", NEW verdicts, NEW pass,
         NEW ids, IsSeq(ids), DOMAIN ids = DOMAIN batch,
         NEW x \in Named(batch, ParseVerdictEntries(answer), verdicts)
  PROVE  \E i \in DOMAIN batch :
           x = batch[i] /\ NamesIt([pass |-> pass, answer |-> answer, ids |-> ids], pass, ids[i], verdicts)
<1>1. PICK e \in ToSet(ParseVerdictEntries(answer)) :
        e.verdict \in verdicts /\ TheIndex(e) < Len(batch) /\ x = batch[TheIndex(e) + 1]
  BY DEF Named
<1>2. e \in ToSet(answer.entries) /\ TheIndex(e) \in e.index /\ TheIndex(e) \in Nat
  BY EntriesParsed
<1>3. TheIndex(e) + 1 \in DOMAIN batch /\ TheIndex(e) < Len(ids)
  <2>1. DOMAIN batch = 1 .. Len(batch) /\ Len(batch) \in Nat /\ DOMAIN ids = 1 .. Len(ids) /\ Len(ids) \in Nat
    BY SeqDomain
  <2>2. Len(ids) = Len(batch)
    BY <2>1
  <2> QED BY <2>1, <2>2, <1>1, <1>2
<1>4. NamesIt([pass |-> pass, answer |-> answer, ids |-> ids], pass, ids[TheIndex(e) + 1], verdicts)
  BY <1>1, <1>2, <1>3 DEF NamesIt
<1> QED BY <1>1, <1>3, <1>4

\* A downgrade is one the answer asks for, to a lower severity.
AskedFor(d, batch, fs, a) ==
  \E i \in DOMAIN batch : /\ d[1] = batch[i] /\ d[2] \in Severity /\ d[2] < fs[d[1]].severity
                          /\ NamesIt(a, a.pass, a.ids[i], {"downgrade"})

LEMMA DowngradesAreSaid ==
  ASSUME NEW S, NEW batch \in Seq(S), NEW answer \in ModelAnswer, NEW fs, NEW pass,
         NEW ids, IsSeq(ids), DOMAIN ids = DOMAIN batch
  PROVE  /\ IsSeq(Downgrades(batch, answer, fs))
         /\ \A n \in DOMAIN Downgrades(batch, answer, fs) :
              AskedFor(Downgrades(batch, answer, fs)[n], batch, fs, [pass |-> pass, answer |-> answer, ids |-> ids])
<1> DEFINE entries == IF answer.kind = "list" THEN ParseVerdictEntries(answer) ELSE <<>>
           rank(e) == OrElse(UNION {ParseSeverityLabel(l) : l \in e.severity}, 4)
           lowers(e) == /\ e.verdict = "downgrade" /\ TheIndex(e) < Len(batch)
                        /\ rank(e) < fs[batch[TheIndex(e) + 1]].severity
           I == {i \in DOMAIN entries : lowers(entries[i])}
           lowering == Subsequence(entries, I)
           r == Downgrades(batch, answer, fs)
<1>1. r = [i \in DOMAIN lowering |-> <<batch[TheIndex(lowering[i]) + 1], rank(lowering[i])>>]
  BY DEF Downgrades
<1>2. \A e : rank(e) \in Severity
  <2>1. \A e : UNION {ParseSeverityLabel(l) : l \in e.severity} \in SUBSET Severity
    BY DEF ParseSeverityLabel
  <2>2. 4 \in Severity
    BY DEF Severity
  <2> QED BY <2>1, <2>2, OrElseIn
<1>3. entries \in Seq(VerdictEntry) /\ (answer.kind # "list" => entries = <<>>)
      /\ (answer.kind = "list" => entries = ParseVerdictEntries(answer))
  BY EntriesParsed
<1>4. \A i \in I : i \in DOMAIN entries /\ lowers(entries[i])
  OBVIOUS
<1> HIDE DEF r, I, entries, rank
<1>5. lowering \in Seq(VerdictEntry) /\ \A k \in DOMAIN lowering : \E i \in DOMAIN entries : i \in I /\ lowering[k] = entries[i]
  BY <1>3, SubsequenceFacts
<1> HIDE DEF lowering
<1>6. IsSeq(r) /\ DOMAIN r = DOMAIN lowering
  <2> DEFINE T == {r[i] : i \in DOMAIN lowering}
  <2>1. r = [i \in DOMAIN lowering |-> r[i]] /\ \A i \in DOMAIN lowering : r[i] \in T
    BY <1>1
  <2> HIDE DEF T
  <2>2. r \in Seq(T) /\ DOMAIN r = DOMAIN lowering
    BY <1>5, <2>1, MapType
  <2> QED BY <2>2 DEF IsSeq
<1>7. ASSUME NEW n \in DOMAIN r
      PROVE  \E i \in DOMAIN batch :
                /\ r[n][1] = batch[i] /\ r[n][2] \in Severity /\ r[n][2] < fs[r[n][1]].severity
                /\ NamesIt([pass |-> pass, answer |-> answer, ids |-> ids], pass, ids[i], {"downgrade"})
  <2>1. PICK k \in DOMAIN entries : lowering[n] = entries[k] /\ lowers(entries[k])
    BY <1>4, <1>5, <1>6
  <2> DEFINE e == entries[k]
  <2>2. answer.kind = "list" /\ e \in ToSet(ParseVerdictEntries(answer))
    BY <1>3 DEF ToSet
  <2>3. e \in ToSet(answer.entries) /\ TheIndex(e) \in e.index /\ TheIndex(e) \in Nat
    <3> HIDE DEF e
    <3> QED BY <2>2, EntriesParsed
  <2>4. r[n] = <<batch[TheIndex(e) + 1], rank(e)>>
    BY <1>1, <1>6, <2>1
  <2>5. e.verdict = "downgrade" /\ TheIndex(e) < Len(batch) /\ rank(e) < fs[batch[TheIndex(e) + 1]].severity
    BY <2>1
  <2> HIDE DEF e
  <2>6. TheIndex(e) + 1 \in DOMAIN batch /\ TheIndex(e) < Len(ids)
    <3>1. DOMAIN batch = 1 .. Len(batch) /\ Len(batch) \in Nat /\ DOMAIN ids = 1 .. Len(ids) /\ Len(ids) \in Nat
      BY SeqDomain
    <3>2. Len(ids) = Len(batch)
      BY <3>1
    <3> QED BY <3>1, <3>2, <2>3, <2>5
  <2>7. NamesIt([pass |-> pass, answer |-> answer, ids |-> ids], pass, ids[TheIndex(e) + 1], {"downgrade"})
    BY <2>2, <2>3, <2>5, <2>6 DEF NamesIt
  <2>8. r[n][1] = batch[TheIndex(e) + 1] /\ r[n][2] = rank(e)
    BY <2>4
  <2> QED BY <2>5, <2>6, <2>7, <2>8, <1>2
<1> QED BY <1>6, <1>7 DEF r, AskedFor

LEMMA GreatestPlace ==
  ASSUME NEW n \in Nat, NEW T \in SUBSET (1 .. n), T # {}
  PROVE  Max(T) \in T /\ \A y \in T : y <= Max(T)
<1> DEFINE U == {n - k : k \in T}
<1>1. U \in SUBSET Nat /\ U # {}
  OBVIOUS
<1>2. PICK m \in U : \A j \in U : m <= j
  <2> HIDE DEF U
  <2> QED BY <1>1, LeastNatural
<1>3. PICK k \in T : m = n - k
  OBVIOUS
<1>4. \A j \in T : j <= k
  <2> SUFFICES ASSUME NEW j \in T PROVE j <= k
    OBVIOUS
  <2>1. n - j \in U
    OBVIOUS
  <2>2. n - k <= n - j
    BY <1>2, <1>3, <2>1
  <2> QED BY <2>2
<1>5. \A y \in T : k >= y
  BY <1>4
<1>6. Max(T) \in T /\ \A y \in T : Max(T) >= y
  BY <1>5 DEF Max
<1> QED BY <1>6

LEMMA DowngradedKeeps ==
  ASSUME NEW fs \in Seq(Finding), NEW ds, IsSeq(ds),
         \A n \in DOMAIN ds : ds[n][2] \in Severity /\ ds[n][2] < fs[ds[n][1]].severity
  PROVE  /\ ApplyDowngrades(fs, ds) \in Seq(Finding) /\ DOMAIN ApplyDowngrades(fs, ds) = DOMAIN fs
         /\ \A i \in DOMAIN fs : LET f == ApplyDowngrades(fs, ds)[i] IN
              /\ f.id = fs[i].id /\ f.confidence = fs[i].confidence
              /\ \/ f.severity = fs[i].severity
                 \/ f.severity < fs[i].severity /\ \E n \in DOMAIN ds : ds[n][1] = i
<1> DEFINE on(i) == {k \in DOMAIN ds : ds[k][1] = i}
           r == ApplyDowngrades(fs, ds)
           Kept(i) == /\ r[i] \in Finding /\ r[i].id = fs[i].id /\ r[i].confidence = fs[i].confidence
                      /\ \/ r[i].severity = fs[i].severity
                         \/ r[i].severity < fs[i].severity /\ \E n \in DOMAIN ds : ds[n][1] = i
<1>1. r = [i \in DOMAIN fs |->
             IF on(i) = {} THEN fs[i] ELSE [fs[i] EXCEPT !.severity = ds[Max(on(i))][2]]]
  BY DEF ApplyDowngrades
<1> HIDE DEF r
<1>2. ASSUME NEW i \in DOMAIN fs PROVE Kept(i)
  <2>1. fs[i] \in Finding
    OBVIOUS
  <2>2. CASE on(i) = {}
    <3>1. r[i] = fs[i]
      BY <1>1, <2>2
    <3> QED BY <3>1, <2>1
  <2>3. CASE on(i) # {}
    <3>1. DOMAIN ds = 1 .. Len(ds) /\ Len(ds) \in Nat
      BY SeqDomain
    <3>2. on(i) \in SUBSET (1 .. Len(ds))
      BY <3>1
    <3> DEFINE k == Max(on(i))
    <3>3. k \in on(i)
      <4> HIDE DEF on
      <4> QED BY <3>1, <3>2, <2>3, GreatestPlace
    <3>4. r[i] = [fs[i] EXCEPT !.severity = ds[k][2]]
      BY <1>1, <2>3
    <3> HIDE DEF k
    <3>5. ds[k][2] \in Severity /\ ds[k][2] < fs[i].severity /\ k \in DOMAIN ds /\ ds[k][1] = i
      BY <3>3
    <3> QED BY <3>4, <3>5, <2>1 DEF Finding
  <2> QED BY <2>2, <2>3
<1>3. r = [i \in DOMAIN fs |-> r[i]] /\ \A i \in DOMAIN fs : r[i] \in Finding
  BY <1>1, <1>2
<1>4. r \in Seq(Finding) /\ DOMAIN r = DOMAIN fs
  BY <1>3, MapType
<1> QED BY <1>2, <1>4 DEF r

-----------------------------------------------------------------------------
(* The invariant of the passes.  The findings of a stage are typed by the  *)
(* set of findings that have what the stage promises of them.              *)

SaidIn(answers, pass, id, verdicts) == \E a \in ToSet(answers) : NamesIt(a, pass, id, verdicts)
SaidId(pass, id, verdicts) == SaidIn(asked, pass, id, verdicts)

TakenBack(f) ==
  \E i \in DOMAIN input.feedback :
    /\ input.feedback[i].print = Fingerprint(f) /\ input.feedback[i].verdict = "false_positive"
    /\ \A j \in DOMAIN input.feedback : input.feedback[j].print = Fingerprint(f) =>
         input.feedback[j].at <= input.feedback[i].at

\* A finding as an expert reported it; one that was dropped for a reason; one no graver than
\* it was reported; one the adjudication called a false positive.
Sourced == {f \in Finding : \E g \in Reported : Same(f, g)}
Reasoned == {f \in Finding : SaidId("verify", f.id, {"drop"}) \/ TakenBack(f)}
Graded ==
  {f \in Finding : \E g \in Reported :
     /\ g.id = f.id /\ f.severity <= g.severity
     /\ f.severity < g.severity => \/ g.confidence < input.report.min_confidence
                                   \/ SaidId("adjudicate", f.id, {"downgrade"})}
Refuted == {f \in Graded : SaidId("adjudicate", f.id, FalsePositiveVerdict)}

Settled == {"prefetch", "adjudicate", "refresh", "plan", "board", "inline", "done", "panicked"}

ResultOK ==
  /\ result = [x \in DOMAIN result |-> result[x]] /\ {"findings", "adjudicated"} \subseteq DOMAIN result
  /\ result.findings \in Seq(Graded) /\ result.adjudicated \in Seq(Refuted)

VerifyOK ==
  /\ batches \in Seq(Seq(Places(reports)))
  /\ \A p \in marks : SaidId("verify", reports[p[1]].findings[p[2]].id, {"drop"})

RulingsOK ==
  /\ batches \in Seq(Seq(DOMAIN result.findings)) /\ IsSeq(downs)
  /\ \A i \in marks : SaidId("adjudicate", result.findings[i].id, FalsePositiveVerdict)
  /\ \A n \in DOMAIN downs : /\ downs[n][2] \in Severity /\ downs[n][2] < result.findings[downs[n][1]].severity
                             /\ SaidId("adjudicate", result.findings[downs[n][1]].id, {"downgrade"})

PassInv ==
  /\ input \in Rounds /\ IsSeq(asked)
  /\ reports \in Seq(ReportOf(Sourced)) /\ dropped \in Seq(Reasoned)
  /\ pc = "verify" => VerifyOK
  /\ pc = "adjudicate" => RulingsOK
  /\ pc \notin {"verify", "adjudicate"} => marks = {}
  /\ pc # "adjudicate" => downs = <<>>
  /\ pc \in Settled => ResultOK

LEMMA SaidBoth ==
  ASSUME NEW pass, NEW f, NEW verdicts
  PROVE  Said(pass, f, verdicts) <=> SaidId(pass, f.id, verdicts)
  BY DEF Said, SaidId, SaidIn, NamesIt

\* What was said stays said, and what holds of a finding because of it stays true.
LEMMA SaidStays ==
  ASSUME input' = input, \A a \in ToSet(asked) : a \in ToSet(asked')
  PROVE  /\ \A pass, id, verdicts : SaidIn(asked, pass, id, verdicts) => SaidIn(asked', pass, id, verdicts)
         /\ Sourced' = Sourced /\ Reasoned \subseteq Reasoned' /\ Graded \subseteq Graded' /\ Refuted \subseteq Refuted'
<1>1. \A pass, id, verdicts : SaidIn(asked, pass, id, verdicts) => SaidIn(asked', pass, id, verdicts)
  BY DEF SaidIn
<1>2. Reported' = Reported
  BY DEF Reported
<1>3. Sourced' = Sourced
  BY <1>2 DEF Sourced
<1>4. \A f : TakenBack(f)' <=> TakenBack(f)
  BY DEF TakenBack
<1>5. Reasoned \subseteq Reasoned'
  BY <1>1, <1>4 DEF Reasoned, SaidId
<1>6. Graded \subseteq Graded'
  BY <1>1, <1>2 DEF Graded, SaidId
<1>7. Refuted \subseteq Refuted'
  BY <1>1, <1>6 DEF Refuted, SaidId
<1> QED BY <1>1, <1>3, <1>5, <1>6, <1>7

LEMMA Widened ==
  ASSUME NEW S, NEW T, S \subseteq T, NEW s \in Seq(S)
  PROVE  s \in Seq(T)
<1>1. \A i \in DOMAIN s : s[i] \in T
  OBVIOUS
<1> QED BY <1>1, Retyped

LEMMA FindingSets == Sourced \subseteq Finding /\ Reasoned \subseteq Finding /\ Graded \subseteq Finding /\ Refuted \subseteq Graded
  BY DEF Sourced, Reasoned, Graded, Refuted

LEMMA ResultStays ==
  ASSUME ResultOK, result' = result, Graded \subseteq Graded', Refuted \subseteq Refuted'
  PROVE  ResultOK'
<1>1. result.findings \in Seq(Graded') /\ result.adjudicated \in Seq(Refuted')
  BY Widened DEF ResultOK
<1> QED BY <1>1 DEF ResultOK

LEMMA PassInit == RoundInit => PassInv
<1> SUFFICES ASSUME RoundInit PROVE PassInv
  OBVIOUS
<1>1. IsSeq(<<>>)
  BY DEF IsSeq
<1>2. <<>> \in Seq(ReportOf(Sourced)) /\ <<>> \in Seq(Reasoned)
  OBVIOUS
<1> QED BY <1>1, <1>2 DEF RoundInit, PassInv, Settled

LEMMA CollectStep == ASSUME PassInv, Collect PROVE PassInv'
<1> DEFINE n == Len(input.answers)
           parsed == [i \in DOMAIN input.answers |-> ParseLlmResponse(i, input.answers[i])]
           rs == [i \in DOMAIN parsed |-> [parsed[i] EXCEPT !.findings = ValidateFindings(parsed[i].findings, input.diff)]]
<1>1. input.answers \in Seq(ExpertAnswer) /\ input \in Rounds
  BY RoundAssumption DEF PassInv, RoundAssumption
<1>2. ASSUME NEW i \in DOMAIN input.answers PROVE rs[i] \in ReportOf(Sourced)
  <2> DEFINE fs == parsed[i].findings
             v == ValidateFindings(fs, input.diff)
  <2>1. input.answers[i] \in ExpertAnswer /\ i \in Nat
    BY <1>1
  <2>2. parsed[i] = ParseLlmResponse(i, input.answers[i]) /\ parsed[i] \in ReportOf(Finding)
    BY <2>1, ParseType
  <2>3. rs[i] = [parsed[i] EXCEPT !.findings = v]
    OBVIOUS
  <2> HIDE DEF parsed, rs
  <2>4. fs \in Seq(Finding)
    BY <2>2 DEF ReportOf
  <2>5. \A k \in DOMAIN fs : fs[k] \in UNION {ToSet(ParseLlmResponse(j, input.answers[j]).findings) : j \in DOMAIN input.answers}
    BY <2>2 DEF ToSet
  <2> HIDE DEF fs
  <2>6. /\ v \in Seq(Finding)
        /\ \A k \in DOMAIN v : \E l \in DOMAIN fs :
             (\E j \in DOMAIN input.diff : input.diff[j].path = fs[l].file) /\ Same(v[k], fs[l])
    BY <2>4, ValidateKeeps
  <2> HIDE DEF v
  <2>7. \A k \in DOMAIN v : v[k] \in Sourced
    <3> SUFFICES ASSUME NEW k \in DOMAIN v PROVE v[k] \in Sourced
      OBVIOUS
    <3>1. PICK l \in DOMAIN fs : (\E j \in DOMAIN input.diff : input.diff[j].path = fs[l].file) /\ Same(v[k], fs[l])
      BY <2>6
    <3>2. fs[l] \in Reported
      BY <3>1, <2>5 DEF Reported
    <3> QED BY <3>1, <3>2, <2>6 DEF Sourced
  <2>8. v \in Seq(Sourced)
    BY <2>6, <2>7, Retyped
  <2> QED BY <2>2, <2>3, <2>8 DEF ReportOf
<1>3. rs \in Seq(ReportOf(Sourced))
  <2>1. rs = [i \in DOMAIN input.answers |-> rs[i]]
    OBVIOUS
  <2> HIDE DEF rs
  <2> QED BY <1>1, <1>2, <2>1, MapType
<1>4. reports' = rs /\ input' = input /\ asked' = asked /\ marks' = marks /\ downs' = downs /\ dropped' = dropped
      /\ pc = "collect" /\ pc' \in {"verify", "feedback"}
      /\ (pc' = "verify" => batches' = VerifierBatches(reports'))
  BY DEF Collect
<1> HIDE DEF rs
<1>5. Sourced' = Sourced /\ Reasoned \subseteq Reasoned'
  BY <1>4, SaidStays
<1>6. VerifierBatches(rs) \in Seq(Seq(Places(rs)))
  BY <1>3, VerifierBatchesType
<1>7. reports' \in Seq(ReportOf(Sourced')) /\ dropped' \in Seq(Reasoned')
  BY <1>3, <1>4, <1>5, Widened DEF PassInv
<1>8. marks' = {} /\ downs' = <<>>
  BY <1>4 DEF PassInv
<1>9. pc' = "verify" => VerifyOK'
  BY <1>4, <1>6, <1>8 DEF VerifyOK
<1> QED BY <1>4, <1>7, <1>8, <1>9 DEF PassInv, Settled

\* One more batch was asked about.
LEMMA AskedMore ==
  ASSUME IsSeq(asked), NEW a, asked' = Append(asked, a)
  PROVE  /\ IsSeq(asked') /\ \A x \in ToSet(asked) : x \in ToSet(asked')
         /\ \A pass, id, verdicts : NamesIt(a, pass, id, verdicts) => SaidIn(asked', pass, id, verdicts)
<1>1. /\ IsSeq(asked') /\ Len(asked) \in Nat /\ DOMAIN asked = 1 .. Len(asked) /\ DOMAIN asked' = 1 .. Len(asked) + 1
      /\ \A i \in 1 .. Len(asked) : asked'[i] = asked[i]
      /\ asked'[Len(asked) + 1] = a
  BY AppendAny
<1>2. a \in ToSet(asked')
  BY <1>1 DEF ToSet
<1>3. \A x \in ToSet(asked) : x \in ToSet(asked')
  BY <1>1 DEF ToSet
<1> QED BY <1>1, <1>2, <1>3 DEF SaidIn

\* A batch answered about leaves the ones behind it.
LEMMA TailType ==
  ASSUME NEW S, NEW s \in Seq(S), s # <<>>
  PROVE  Head(s) \in S /\ Tail(s) \in Seq(S)
  OBVIOUS

LEMMA VerifyStep == ASSUME PassInv, VerifyOneBatch PROVE PassInv'
<1> DEFINE batch == Head(batches)
           ids == [i \in DOMAIN batch |-> reports[batch[i][1]].findings[batch[i][2]].id]
<1>1. PICK answer \in input.verdicts :
        /\ marks' = marks \cup VerifierMarks(batch, answer)
        /\ asked' = Append(asked, [pass |-> "verify", answer |-> answer, ids |-> ids])
  BY DEF VerifyOneBatch
<1>2. /\ batches' = Tail(batches) /\ batches # <<>> /\ pc = "verify" /\ pc' = pc
      /\ input' = input /\ reports' = reports /\ downs' = downs /\ dropped' = dropped
  BY DEF VerifyOneBatch
<1>3. VerifyOK /\ IsSeq(asked) /\ input \in Rounds
  BY <1>2 DEF PassInv
<1>4. answer \in ModelAnswer
  BY <1>3, RoundAssumption DEF RoundAssumption
<1>5. batch \in Seq(Places(reports)) /\ Tail(batches) \in Seq(Seq(Places(reports)))
  BY <1>2, <1>3, TailType DEF VerifyOK
<1> HIDE DEF batch
<1>6. IsSeq(ids) /\ DOMAIN ids = DOMAIN batch
  <2> DEFINE T == {ids[i] : i \in DOMAIN batch}
  <2>1. ids = [i \in DOMAIN batch |-> ids[i]] /\ \A i \in DOMAIN batch : ids[i] \in T
    OBVIOUS
  <2> HIDE DEF T, ids
  <2>2. ids \in Seq(T) /\ DOMAIN ids = DOMAIN batch
    BY <1>5, <2>1, MapType
  <2> QED BY <2>2 DEF IsSeq
<1>7. \A i \in DOMAIN batch : ids[i] = reports[batch[i][1]].findings[batch[i][2]].id
  OBVIOUS
<1> HIDE DEF ids
<1>8. IsSeq(asked') /\ (\A x \in ToSet(asked) : x \in ToSet(asked'))
  BY <1>1, <1>3, AskedMore
<1>9. /\ \A pass, id, verdicts : SaidIn(asked, pass, id, verdicts) => SaidIn(asked', pass, id, verdicts)
      /\ Sourced' = Sourced /\ Reasoned \subseteq Reasoned'
  BY <1>2, <1>8, SaidStays
<1>10. ASSUME NEW p \in marks' PROVE SaidIn(asked', "verify", reports[p[1]].findings[p[2]].id, {"drop"})
  <2>1. CASE p \in marks
    BY <2>1, <1>3, <1>9 DEF VerifyOK, SaidId
  <2>2. CASE p \notin marks
    <3>1. answer.kind = "list" /\ p \in Named(batch, ParseVerdictEntries(answer), {"drop"})
      BY <2>2, <1>1 DEF VerifierMarks
    <3>2. PICK i \in DOMAIN batch :
            p = batch[i] /\ NamesIt([pass |-> "verify", answer |-> answer, ids |-> ids], "verify", ids[i], {"drop"})
      BY <3>1, <1>4, <1>5, <1>6, NamedIsSaid
    <3>3. SaidIn(asked', "verify", ids[i], {"drop"})
      BY <3>2, <1>1, <1>3, AskedMore
    <3> QED BY <3>2, <3>3, <1>7
  <2> QED BY <2>1, <2>2
<1>11. VerifyOK'
  BY <1>2, <1>5, <1>10 DEF VerifyOK, SaidId
<1>12. reports' \in Seq(ReportOf(Sourced')) /\ dropped' \in Seq(Reasoned')
  BY <1>2, <1>9, Widened DEF PassInv
<1> QED BY <1>2, <1>3, <1>8, <1>11, <1>12 DEF PassInv, Settled

\* The findings of two lists.
LEMMA ConcatType == ASSUME NEW S, NEW s \in Seq(S), NEW t \in Seq(S) PROVE s \o t \in Seq(S)
  OBVIOUS

\* A place holds a finding as it was reported.
LEMMA PlacesHold ==
  ASSUME NEW T, NEW rs \in Seq(ReportOf(T)), NEW p \in Places(rs)
  PROVE  rs[p[1]].findings[p[2]] \in T
<1>1. rs[p[1]].findings \in Seq(T) /\ p[2] \in DOMAIN rs[p[1]].findings
  BY ReportsFindings DEF Places
<1> QED BY <1>1

LEMMA DropStep == ASSUME PassInv, DropMarked PROVE PassInv'
<1>1. /\ pc = "verify" /\ pc' = "feedback" /\ input' = input /\ asked' = asked /\ downs' = downs /\ marks' = {}
      /\ reports' = WithoutMarked(reports, marks) /\ dropped' = Marked(reports, marks)
  BY DEF DropMarked
<1>2. VerifyOK /\ reports \in Seq(ReportOf(Sourced))
  BY <1>1 DEF PassInv
<1>3. \A p \in Places(reports) : p \in marks => reports[p[1]].findings[p[2]] \in Reasoned
  <2> SUFFICES ASSUME NEW p \in Places(reports), p \in marks PROVE reports[p[1]].findings[p[2]] \in Reasoned
    OBVIOUS
  <2>1. reports[p[1]].findings[p[2]] \in Finding
    BY <1>2, PlacesHold, FindingSets
  <2> QED BY <2>1, <1>2 DEF VerifyOK, Reasoned
<1>4. Marked(reports, marks) \in Seq(Reasoned) /\ WithoutMarked(reports, marks) \in Seq(ReportOf(Sourced))
  BY <1>2, <1>3, MarkedType, WithoutMarkedType
<1>5. Sourced' = Sourced /\ Reasoned \subseteq Reasoned'
  BY <1>1, SaidStays
<1>6. reports' \in Seq(ReportOf(Sourced')) /\ dropped' \in Seq(Reasoned')
  BY <1>1, <1>4, <1>5, Widened
<1> QED BY <1>1, <1>6 DEF PassInv, Settled

\* The feedback filter marks what users called a false positive and did not take back since.
LEMMA FeedbackReason ==
  ASSUME input \in Rounds, NEW rs, NEW p \in FeedbackMarks(rs, FalsePositives(input.feedback))
  PROVE  TakenBack(rs[p[1]].findings[p[2]])
<1> DEFINE f == rs[p[1]].findings[p[2]]
           e == input.feedback
           newest(i) == \A j \in DOMAIN e : e[j].print = e[i].print =>
                          e[j].at < e[i].at \/ (e[j].at = e[i].at /\ j <= i)
<1>1. Fingerprint(f) \in FalsePositives(e)
  BY DEF FeedbackMarks
<1>2. PICK i \in DOMAIN e : newest(i) /\ e[i].verdict = "false_positive" /\ e[i].print = Fingerprint(f)
  BY <1>1 DEF FalsePositives
<1> HIDE DEF f
<1>3. \A j \in DOMAIN e : e[j].print = Fingerprint(f) => e[j].at <= e[i].at
  BY <1>2, RoundAssumption DEF RoundAssumption
<1> QED BY <1>2, <1>3 DEF TakenBack, f

LEMMA FeedbackStep == ASSUME PassInv, ApplyFeedbackFilter PROVE PassInv'
<1> DEFINE gone == IF input.report.feedback THEN FeedbackMarks(reports, FalsePositives(input.feedback)) ELSE {}
<1>1. /\ pc = "feedback" /\ pc' = "consolidate" /\ input' = input /\ asked' = asked /\ downs' = downs /\ marks' = marks
      /\ reports' = WithoutMarked(reports, gone) /\ dropped' = dropped \o Marked(reports, gone)
  BY DEF ApplyFeedbackFilter
<1>2. reports \in Seq(ReportOf(Sourced)) /\ dropped \in Seq(Reasoned) /\ input \in Rounds
  BY DEF PassInv
<1>3. \A p \in Places(reports) : p \in gone => reports[p[1]].findings[p[2]] \in Reasoned
  <2> SUFFICES ASSUME NEW p \in Places(reports), p \in gone PROVE reports[p[1]].findings[p[2]] \in Reasoned
    OBVIOUS
  <2>1. reports[p[1]].findings[p[2]] \in Finding
    BY <1>2, PlacesHold, FindingSets
  <2>2. p \in FeedbackMarks(reports, FalsePositives(input.feedback))
    OBVIOUS
  <2>3. TakenBack(reports[p[1]].findings[p[2]])
    BY <1>2, <2>2, FeedbackReason
  <2> QED BY <2>1, <2>3 DEF Reasoned
<1> HIDE DEF gone
<1>4. Marked(reports, gone) \in Seq(Reasoned) /\ WithoutMarked(reports, gone) \in Seq(ReportOf(Sourced))
  BY <1>2, <1>3, MarkedType, WithoutMarkedType
<1>5. Sourced' = Sourced /\ Reasoned \subseteq Reasoned'
  BY <1>1, SaidStays
<1>6. dropped \o Marked(reports, gone) \in Seq(Reasoned)
  BY <1>2, <1>4, ConcatType
<1>7. reports' \in Seq(ReportOf(Sourced')) /\ dropped' \in Seq(Reasoned')
  BY <1>1, <1>4, <1>5, <1>6, Widened
<1> QED BY <1>1, <1>7 DEF PassInv, Settled

\* The list of the consolidation: what the experts reported, at most a step less grave for
\* its confidence.
LEMMA ConsolidatedGraded ==
  ASSUME NEW rs \in Seq(ReportOf(Sourced)), NEW t
  PROVE  /\ Consolidated(rs, t) = [x \in DOMAIN Consolidated(rs, t) |-> Consolidated(rs, t)[x]]
         /\ {"findings", "adjudicated"} \subseteq DOMAIN Consolidated(rs, t)
         /\ Consolidated(rs, t).findings \in Seq(Graded) /\ Consolidated(rs, t).adjudicated = <<>>
<1> DEFINE all == AllFindings(rs)
           kept == FilterByConfidence(all, input.report)
           final == DeduplicateFindings(kept)
           c == Consolidated(rs, t)
<1>1. /\ c.findings = final /\ c.adjudicated = <<>>
      /\ c = [x \in DOMAIN c |-> c[x]] /\ {"findings", "adjudicated"} \subseteq DOMAIN c
  BY DEF Consolidated
<1> HIDE DEF c
<1>2. all \in Seq(Sourced) /\ all \in Seq(Finding)
  BY AllFindingsType, Widened, FindingSets
<1>3. \A i \in DOMAIN all : all[i] \in Sourced
  BY <1>2
<1> HIDE DEF all
<1>4. /\ kept \in Seq(Finding)
      /\ \A k \in DOMAIN kept : \E i \in DOMAIN all : Weaker(kept[k], all[i], input.report.min_confidence)
  BY <1>2, FilterKeeps
<1> HIDE DEF kept
<1>5. final \in Seq(Finding) /\ \A k \in DOMAIN final : \E i \in DOMAIN kept : Same(final[k], kept[i])
  BY <1>4, DeduplicateKeeps
<1> HIDE DEF final
<1>6. ASSUME NEW k \in DOMAIN final PROVE final[k] \in Graded
  <2>1. PICK i \in DOMAIN kept : Same(final[k], kept[i])
    BY <1>5
  <2>2. PICK j \in DOMAIN all : Weaker(kept[i], all[j], input.report.min_confidence)
    BY <1>4
  <2>3. PICK g \in Reported : Same(all[j], g)
    BY <1>3 DEF Sourced
  <2>4. final[k] \in Finding
    BY <1>5
  <2> QED BY <2>1, <2>2, <2>3, <2>4 DEF Same, Weaker, Graded
<1>7. final \in Seq(Graded)
  BY <1>5, <1>6, Retyped
<1> QED BY <1>1, <1>7 DEF c

LEMMA ConsolidateStep == ASSUME PassInv, Consolidate PROVE PassInv'
<1>1. /\ pc = "consolidate" /\ pc' \in {"prefetch", "refresh"} /\ input' = input /\ asked' = asked
      /\ downs' = downs /\ marks' = marks /\ reports' = reports /\ dropped' = dropped
      /\ result' = Consolidated(reports, result.truncated)
  BY DEF Consolidate
<1>2. reports \in Seq(ReportOf(Sourced)) /\ dropped \in Seq(Reasoned) /\ marks = {} /\ downs = <<>>
  BY <1>1 DEF PassInv
<1>3. Sourced' = Sourced /\ Reasoned \subseteq Reasoned' /\ Graded \subseteq Graded'
  BY <1>1, SaidStays
<1>4. reports' \in Seq(ReportOf(Sourced')) /\ dropped' \in Seq(Reasoned')
  BY <1>1, <1>2, <1>3, Widened
<1>5. /\ result' = [x \in DOMAIN result' |-> result'[x]] /\ {"findings", "adjudicated"} \subseteq DOMAIN result'
      /\ result'.findings \in Seq(Graded) /\ result'.adjudicated = <<>>
  BY <1>1, <1>2, ConsolidatedGraded
<1>6. result'.findings \in Seq(Graded') /\ result'.adjudicated \in Seq(Refuted')
  BY <1>3, <1>5, Widened
<1>7. ResultOK'
  BY <1>5, <1>6 DEF ResultOK
<1> QED BY <1>1, <1>2, <1>4, <1>7 DEF PassInv, Settled

LEMMA PrefetchStep == ASSUME PassInv, PrefetchGroundTruth PROVE PassInv'
<1>1. /\ pc = "prefetch" /\ pc' \in {"refresh", "adjudicate", "panicked"} /\ input' = input /\ asked' = asked
      /\ downs' = downs /\ marks' = marks /\ reports' = reports /\ dropped' = dropped /\ result' = result
  BY DEF PrefetchGroundTruth
<1>2. /\ reports \in Seq(ReportOf(Sourced)) /\ dropped \in Seq(Reasoned) /\ marks = {} /\ downs = <<>> /\ ResultOK
      /\ result.findings \in Seq(Finding)
  <2>1. ResultOK
    BY <1>1 DEF PassInv, Settled
  <2>2. result.findings \in Seq(Finding)
    BY <2>1, FindingSets, Widened DEF ResultOK
  <2> QED BY <1>1, <2>1, <2>2 DEF PassInv
<1>3. pc' = "adjudicate" => batches' \in Seq(Seq(DOMAIN result.findings))
  <2> SUFFICES ASSUME pc' = "adjudicate" PROVE batches' \in Seq(Seq(DOMAIN result.findings))
    OBVIOUS
  <2>1. PICK readable : batches' = AdjudicationBatches(result.findings, ParseMinSeverity(input.report.floor), readable)
    BY DEF PrefetchGroundTruth
  <2> QED BY <1>2, <2>1, AdjudicationBatchesType
<1>4. Sourced' = Sourced /\ Reasoned \subseteq Reasoned' /\ Graded \subseteq Graded' /\ Refuted \subseteq Refuted'
  BY <1>1, SaidStays
<1>5. reports' \in Seq(ReportOf(Sourced')) /\ dropped' \in Seq(Reasoned')
  BY <1>1, <1>2, <1>4, Widened
<1>6. ResultOK'
  BY <1>1, <1>2, <1>4, ResultStays
<1>7. pc' = "adjudicate" => RulingsOK'
  <2>1. IsSeq(downs') /\ marks' = {} /\ DOMAIN downs' = {}
    BY <1>1, <1>2 DEF IsSeq
  <2> QED BY <1>1, <1>3, <2>1 DEF RulingsOK
<1> QED BY <1>1, <1>2, <1>5, <1>6, <1>7 DEF PassInv, Settled

LEMMA AdjudicateStep == ASSUME PassInv, AdjudicateOneBatch PROVE PassInv'
<1> DEFINE fs == result.findings
           batch == Head(batches)
           ids == [i \in DOMAIN batch |-> fs[batch[i]].id]
<1>1. PICK answer \in input.rulings :
        /\ marks' = marks \cup AdjudicatorMarks(batch, answer)
        /\ downs' = downs \o Downgrades(batch, answer, fs)
        /\ asked' = Append(asked, [pass |-> "adjudicate", answer |-> answer, ids |-> ids])
  BY DEF AdjudicateOneBatch
<1>2. /\ batches' = Tail(batches) /\ batches # <<>> /\ pc = "adjudicate" /\ pc' = pc
      /\ input' = input /\ reports' = reports /\ dropped' = dropped /\ result' = result
  BY DEF AdjudicateOneBatch
<1>3. RulingsOK /\ ResultOK /\ IsSeq(asked) /\ input \in Rounds
      /\ reports \in Seq(ReportOf(Sourced)) /\ dropped \in Seq(Reasoned)
  BY <1>2 DEF PassInv, Settled
<1>4. answer \in ModelAnswer
  BY <1>3, RoundAssumption DEF RoundAssumption
<1>5. batch \in Seq(DOMAIN fs) /\ Tail(batches) \in Seq(Seq(DOMAIN fs))
  BY <1>2, <1>3, TailType DEF RulingsOK
<1> HIDE DEF batch
<1>6. IsSeq(ids) /\ DOMAIN ids = DOMAIN batch
  <2> DEFINE T == {ids[i] : i \in DOMAIN batch}
  <2>1. ids = [i \in DOMAIN batch |-> ids[i]] /\ \A i \in DOMAIN batch : ids[i] \in T
    OBVIOUS
  <2> HIDE DEF T, ids
  <2>2. ids \in Seq(T) /\ DOMAIN ids = DOMAIN batch
    BY <1>5, <2>1, MapType
  <2> QED BY <2>2 DEF IsSeq
<1>7. \A i \in DOMAIN batch : ids[i] = fs[batch[i]].id
  OBVIOUS
<1> HIDE DEF ids
<1>8. IsSeq(asked') /\ (\A x \in ToSet(asked) : x \in ToSet(asked'))
  BY <1>1, <1>3, AskedMore
<1>9. /\ \A pass, id, verdicts : SaidIn(asked, pass, id, verdicts) => SaidIn(asked', pass, id, verdicts)
      /\ Sourced' = Sourced /\ Reasoned \subseteq Reasoned' /\ Graded \subseteq Graded' /\ Refuted \subseteq Refuted'
  BY <1>2, <1>8, SaidStays
<1>10. ASSUME NEW k \in marks' PROVE SaidIn(asked', "adjudicate", fs[k].id, FalsePositiveVerdict)
  <2>1. CASE k \in marks
    BY <2>1, <1>3, <1>9 DEF RulingsOK, SaidId
  <2>2. CASE k \notin marks
    <3>1. answer.kind = "list" /\ k \in Named(batch, ParseVerdictEntries(answer), FalsePositiveVerdict)
      BY <2>2, <1>1 DEF AdjudicatorMarks
    <3>2. PICK i \in DOMAIN batch :
            /\ k = batch[i]
            /\ NamesIt([pass |-> "adjudicate", answer |-> answer, ids |-> ids], "adjudicate", ids[i], FalsePositiveVerdict)
      BY <3>1, <1>4, <1>5, <1>6, NamedIsSaid
    <3>3. SaidIn(asked', "adjudicate", ids[i], FalsePositiveVerdict)
      BY <3>2, <1>1, <1>3, AskedMore
    <3> QED BY <3>2, <3>3, <1>7
  <2> QED BY <2>1, <2>2
<1> DEFINE more == Downgrades(batch, answer, fs)
           OK(d) == /\ d[2] \in Severity /\ d[2] < fs[d[1]].severity
                    /\ SaidIn(asked', "adjudicate", fs[d[1]].id, {"downgrade"})
<1>11. IsSeq(more) /\ \A n \in DOMAIN more : OK(more[n])
  <2>1. /\ IsSeq(more)
        /\ \A n \in DOMAIN more : AskedFor(more[n], batch, fs, [pass |-> "adjudicate", answer |-> answer, ids |-> ids])
    BY <1>4, <1>5, <1>6, DowngradesAreSaid
  <2> HIDE DEF more
  <2> SUFFICES ASSUME NEW n \in DOMAIN more PROVE OK(more[n])
    BY <2>1
  <2>2. PICK i \in DOMAIN batch :
             /\ more[n][1] = batch[i] /\ more[n][2] \in Severity /\ more[n][2] < fs[more[n][1]].severity
             /\ NamesIt([pass |-> "adjudicate", answer |-> answer, ids |-> ids], "adjudicate", ids[i], {"downgrade"})
    BY <2>1 DEF AskedFor
  <2>3. SaidIn(asked', "adjudicate", ids[i], {"downgrade"})
    BY <2>2, <1>1, <1>3, AskedMore
  <2> QED BY <2>2, <2>3, <1>7
<1>12. IsSeq(downs) /\ \A n \in DOMAIN downs : OK(downs[n])
  BY <1>3, <1>9 DEF RulingsOK, SaidId
<1> HIDE DEF more, OK
<1>13. IsSeq(downs') /\ \A n \in DOMAIN downs' : OK(downs'[n])
  <2> DEFINE T == {d \in {downs[n] : n \in DOMAIN downs} \cup {more[n] : n \in DOMAIN more} : OK(d)}
  <2>1. (\A n \in DOMAIN downs : downs[n] \in T) /\ (\A n \in DOMAIN more : more[n] \in T)
    BY <1>11, <1>12
  <2>2. \A d \in T : OK(d)
    OBVIOUS
  <2> HIDE DEF T
  <2>3. downs \in Seq(T) /\ more \in Seq(T)
    <3>1. PICK A : downs \in Seq(A)
      BY <1>12 DEF IsSeq
    <3>2. PICK B : more \in Seq(B)
      BY <1>11 DEF IsSeq
    <3> QED BY <3>1, <3>2, <2>1, Retyped
  <2>4. downs' = downs \o more
    BY <1>1 DEF more
  <2>5. downs' \in Seq(T)
    BY <2>3, <2>4, ConcatType
  <2>6. \A n \in DOMAIN downs' : downs'[n] \in T
    BY <2>5
  <2> QED BY <2>2, <2>5, <2>6 DEF IsSeq
<1>14. RulingsOK'
  BY <1>2, <1>5, <1>10, <1>13 DEF RulingsOK, SaidId, OK
<1>15. reports' \in Seq(ReportOf(Sourced')) /\ dropped' \in Seq(Reasoned') /\ ResultOK'
  BY <1>2, <1>3, <1>9, Widened, ResultStays
<1> QED BY <1>2, <1>3, <1>8, <1>14, <1>15 DEF PassInv, Settled

LEMMA RulingsStep == ASSUME PassInv, ApplyRulings PROVE PassInv'
<1> DEFINE fs == result.findings
           lowered == ApplyDowngrades(fs, downs)
           left == WithoutIndices(lowered, marks)
           gone == WithoutIndices(lowered, DOMAIN lowered \ marks)
<1>1. /\ pc = "adjudicate" /\ pc' = "refresh" /\ input' = input /\ asked' = asked
      /\ downs' = <<>> /\ marks' = {} /\ reports' = reports /\ dropped' = dropped
      /\ result' = [result EXCEPT !.findings = left, !.adjudicated = gone]
  BY DEF ApplyRulings
<1>2. /\ RulingsOK /\ ResultOK /\ reports \in Seq(ReportOf(Sourced)) /\ dropped \in Seq(Reasoned)
      /\ fs \in Seq(Graded) /\ fs \in Seq(Finding)
  <2>1. ResultOK /\ RulingsOK
    BY <1>1 DEF PassInv, Settled
  <2>2. fs \in Seq(Graded)
    BY <2>1 DEF ResultOK
  <2>3. fs \in Seq(Finding)
    BY <2>2, FindingSets, Widened
  <2> QED BY <2>1, <2>2, <2>3 DEF PassInv
<1>3. /\ lowered \in Seq(Finding) /\ DOMAIN lowered = DOMAIN fs
      /\ \A i \in DOMAIN fs :
              /\ lowered[i].id = fs[i].id /\ lowered[i].confidence = fs[i].confidence
              /\ \/ lowered[i].severity = fs[i].severity
                 \/ lowered[i].severity < fs[i].severity /\ \E n \in DOMAIN downs : downs[n][1] = i
  <2>1. IsSeq(downs) /\ \A n \in DOMAIN downs : downs[n][2] \in Severity /\ downs[n][2] < fs[downs[n][1]].severity
    BY <1>2 DEF RulingsOK
  <2> QED BY <1>2, <2>1, DowngradedKeeps
<1> HIDE DEF lowered
<1>4. ASSUME NEW i \in DOMAIN lowered PROVE lowered[i] \in Graded
  <2>1. fs[i] \in Graded /\ fs[i] \in Finding /\ lowered[i] \in Finding
    BY <1>2, <1>3
  <2>2. PICK g \in Reported :
          /\ g.id = fs[i].id /\ fs[i].severity <= g.severity
          /\ fs[i].severity < g.severity => \/ g.confidence < input.report.min_confidence
                                           \/ SaidId("adjudicate", fs[i].id, {"downgrade"})
    BY <2>1 DEF Graded
  <2>3. CASE lowered[i].severity = fs[i].severity
    BY <2>1, <2>2, <2>3, <1>3 DEF Graded
  <2>4. CASE lowered[i].severity < fs[i].severity /\ \E n \in DOMAIN downs : downs[n][1] = i
    <3>1. SaidId("adjudicate", fs[i].id, {"downgrade"})
      BY <2>4, <1>2 DEF RulingsOK
    <3>2. g.severity \in Int /\ fs[i].severity \in Int /\ lowered[i].severity \in Int
      <4>1. g \in Finding
        <5>1. PICK e \in DOMAIN input.answers : g \in ToSet(ParseLlmResponse(e, input.answers[e]).findings)
          BY DEF Reported
        <5>2. e \in Nat /\ input.answers[e] \in ExpertAnswer
          BY RoundAssumption DEF RoundAssumption, PassInv
        <5>3. ParseLlmResponse(e, input.answers[e]).findings \in Seq(Finding)
          BY <5>2, ParseType DEF ReportOf
        <5> QED BY <5>1, <5>3 DEF ToSet
      <4>2. \A f \in Finding : f.severity \in Int
        BY DEF Finding, Severity
      <4> QED BY <4>1, <4>2, <2>1
    <3>3. lowered[i].severity <= g.severity
      BY <2>2, <2>4, <3>2
    <3>4. lowered[i].id = fs[i].id
      BY <1>3
    <3> QED BY <2>1, <2>2, <3>1, <3>3, <3>4 DEF Graded
  <2> QED BY <2>3, <2>4, <1>3
<1>5. left \in Seq(Graded)
  BY <1>3, <1>4, SubsequenceType DEF WithoutIndices
<1>6. gone \in Seq(Refuted)
  <2>1. \A i \in DOMAIN lowered : i \in marks => lowered[i] \in Refuted
    <3> SUFFICES ASSUME NEW i \in DOMAIN lowered, i \in marks PROVE lowered[i] \in Refuted
      OBVIOUS
    <3>1. SaidId("adjudicate", fs[i].id, FalsePositiveVerdict)
      BY <1>2 DEF RulingsOK
    <3> QED BY <3>1, <1>3, <1>4 DEF Refuted
  <2>2. \A i \in DOMAIN lowered : i \in DOMAIN lowered \ (DOMAIN lowered \ marks) => lowered[i] \in Refuted
    BY <2>1
  <2> QED BY <1>3, <2>2, SubsequenceType DEF WithoutIndices
<1> HIDE DEF left, gone
<1>7. Sourced' = Sourced /\ Reasoned \subseteq Reasoned' /\ Graded \subseteq Graded' /\ Refuted \subseteq Refuted'
  BY <1>1, SaidStays
<1>8. reports' \in Seq(ReportOf(Sourced')) /\ dropped' \in Seq(Reasoned')
  BY <1>1, <1>2, <1>7, Widened
<1>9. ResultOK'
  <2>1. /\ result' = [x \in DOMAIN result' |-> result'[x]] /\ {"findings", "adjudicated"} \subseteq DOMAIN result'
        /\ result'.findings = left /\ result'.adjudicated = gone
    BY <1>1, <1>2 DEF ResultOK
  <2>2. left \in Seq(Graded') /\ gone \in Seq(Refuted')
    BY <1>5, <1>6, <1>7, Widened
  <2> QED BY <2>1, <2>2 DEF ResultOK
<1>10. input \in Rounds /\ IsSeq(asked) /\ IsSeq(<<>>)
  BY DEF PassInv, IsSeq
<1> QED BY <1>1, <1>8, <1>9, <1>10 DEF PassInv, Settled

LEMMA RefreshStep == ASSUME PassInv, RefreshAssessment PROVE PassInv'
<1>1. /\ pc = "refresh" /\ pc' = "plan" /\ input' = input /\ asked' = asked
      /\ downs' = downs /\ marks' = marks /\ reports' = reports /\ dropped' = dropped
  BY DEF RefreshAssessment
<1>2. ResultOK /\ reports \in Seq(ReportOf(Sourced)) /\ dropped \in Seq(Reasoned)
  BY <1>1 DEF PassInv, Settled
<1>3. Sourced' = Sourced /\ Reasoned \subseteq Reasoned' /\ Graded \subseteq Graded' /\ Refuted \subseteq Refuted'
  BY <1>1, SaidStays
<1>4. reports' \in Seq(ReportOf(Sourced')) /\ dropped' \in Seq(Reasoned')
  BY <1>1, <1>2, <1>3, Widened
<1>5. /\ result' = [x \in DOMAIN result' |-> result'[x]] /\ {"findings", "adjudicated"} \subseteq DOMAIN result'
      /\ result'.findings = result.findings /\ result'.adjudicated = result.adjudicated
  <2>1. PICK a, b : result' = [result EXCEPT !.tl_dr = a, !.unverified = b]
    BY DEF RefreshAssessment
  <2> QED BY <1>2, <2>1 DEF ResultOK
<1>6. result.findings \in Seq(Graded') /\ result.adjudicated \in Seq(Refuted')
  BY <1>2, <1>3, Widened DEF ResultOK
<1>7. ResultOK'
  BY <1>5, <1>6 DEF ResultOK
<1> QED BY <1>1, <1>4, <1>7 DEF PassInv, Settled

\* The publication leaves what the passes made alone.
LEMMA PassKept ==
  ASSUME PassInv, UNCHANGED <<input, passVars>>, pc \in Settled \ {"adjudicate"}, pc' \in Settled \ {"adjudicate"}
  PROVE  PassInv'
<1>1. /\ input' = input /\ asked' = asked /\ downs' = downs /\ marks' = marks
      /\ reports' = reports /\ dropped' = dropped /\ result' = result
  BY DEF passVars
<1>2. ResultOK /\ reports \in Seq(ReportOf(Sourced)) /\ dropped \in Seq(Reasoned)
      /\ marks = {} /\ downs = <<>>
  BY DEF PassInv, Settled
<1>3. Sourced' = Sourced /\ Reasoned \subseteq Reasoned' /\ Graded \subseteq Graded' /\ Refuted \subseteq Refuted'
  BY <1>1, SaidStays
<1>4. reports' \in Seq(ReportOf(Sourced')) /\ dropped' \in Seq(Reasoned') /\ ResultOK'
  BY <1>1, <1>2, <1>3, Widened, ResultStays
<1> QED BY <1>1, <1>2, <1>4 DEF PassInv, Settled

LEMMA PassStep == ASSUME PassInv, [RoundNext]_roundVars PROVE PassInv'
<1>1. CASE Passes
  BY <1>1, CollectStep, VerifyStep, DropStep, FeedbackStep, ConsolidateStep, PrefetchStep, AdjudicateStep, RulingsStep,
     RefreshStep DEF Passes
<1>2. CASE PlanAndScan \/ FindOrUpdateDiscussion \/ PostInlineOnce \/ FinishPublication \/ PublishAgain
  <2>1. UNCHANGED <<input, passVars>>
    BY <1>2 DEF PlanAndScan, FindOrUpdateDiscussion, PostInlineOnce, FinishPublication, PublishAgain, publishVars
  <2>2. pc \in Settled \ {"adjudicate"} /\ pc' \in Settled \ {"adjudicate"}
    BY <1>2 DEF PlanAndScan, FindOrUpdateDiscussion, PostInlineOnce, FinishPublication, PublishAgain, Settled
  <2> QED BY <2>1, <2>2, PassKept
<1>3. CASE UNCHANGED roundVars
  <2>1. /\ input' = input /\ asked' = asked /\ downs' = downs /\ marks' = marks /\ pc' = pc /\ batches' = batches
        /\ reports' = reports /\ dropped' = dropped /\ result' = result
    BY <1>3 DEF roundVars
  <2>2. Reported' = Reported /\ \A pass, id, verdicts : SaidIn(asked', pass, id, verdicts) <=> SaidIn(asked, pass, id, verdicts)
    BY <2>1 DEF Reported
  <2>3. Sourced' = Sourced /\ Reasoned' = Reasoned /\ Graded' = Graded
    BY <2>1, <2>2 DEF Sourced, Reasoned, Graded, SaidId, TakenBack
  <2>4. Refuted' = Refuted
    BY <2>1, <2>2, <2>3 DEF Refuted, SaidId
  <2>5. VerifyOK => VerifyOK'
    BY <2>1 DEF VerifyOK, SaidId
  <2>6. RulingsOK => RulingsOK'
    BY <2>1 DEF RulingsOK, SaidId
  <2>7. ResultOK => ResultOK'
    BY <2>1, <2>3, <2>4 DEF ResultOK
  <2> QED BY <2>1, <2>3, <2>5, <2>6, <2>7 DEF PassInv, Settled
<1> QED BY <1>1, <1>2, <1>3 DEF RoundNext

\* The passes over the findings fail open (run_experts_inner): whatever the experts and the
\* models answer and whatever the users said before, a finding is dropped only for a reason
\* and none becomes graver than it was reported.
THEOREM FailOpenAlways == RoundSpec => []PassesFailOpen
<1>1. PassInv => PassesFailOpen
  <2> SUFFICES ASSUME PassInv, Judged PROVE PassesFailOpen
    BY DEF PassesFailOpen, DroppedForAReason, SeverityNeverRises
  <2>1. dropped \in Seq(Reasoned) /\ ResultOK
    BY DEF Judged, PassInv, Settled
  <2>2. DroppedForAReason
    <3>1. \A f \in ToSet(dropped) : SaidId("verify", f.id, {"drop"}) \/ TakenBack(f)
      BY <2>1 DEF ToSet, Reasoned
    <3>2. \A f \in ToSet(result.adjudicated) : SaidId("adjudicate", f.id, FalsePositiveVerdict)
      BY <2>1 DEF ToSet, Refuted, ResultOK
    <3> QED BY <3>1, <3>2, SaidBoth DEF DroppedForAReason, TakenBack
  <2>3. SeverityNeverRises
    <3>1. \A f \in ToSet(result.findings) \cup ToSet(result.adjudicated) : f \in Graded
      BY <2>1, FindingSets DEF ToSet, ResultOK
    <3> QED BY <3>1, SaidBoth DEF SeverityNeverRises, Graded
  <2> QED BY <2>2, <2>3 DEF PassesFailOpen
<1> QED BY PassInit, PassStep, <1>1, PTL DEF RoundSpec

-----------------------------------------------------------------------------
(* The publication.  First what its operators do: the least element of a   *)
(* set, a sequence with one element changed, the notes of a round, the     *)
(* answers that are tried again, and the counts of the plan.               *)

LEMMA LeastPlace ==
  ASSUME NEW T \in SUBSET Nat, T # {}
  PROVE  Min(T) \in T /\ \A y \in T : Min(T) <= y
<1>1. PICK m \in T : \A y \in T : m <= y
  BY LeastNatural
<1> QED BY <1>1 DEF Min

LEMMA ReplaceAny ==
  ASSUME NEW s, IsSeq(s), NEW k, NEW v
  PROVE  /\ IsSeq([s EXCEPT ![k] = v]) /\ DOMAIN [s EXCEPT ![k] = v] = DOMAIN s
         /\ \A i \in DOMAIN s : [s EXCEPT ![k] = v][i] = IF i = k THEN v ELSE s[i]
<1>1. PICK S : s \in Seq(S)
  BY DEF IsSeq
<1> DEFINE t == [s EXCEPT ![k] = v]
<1>2. /\ t = [i \in DOMAIN s |-> t[i]] /\ \A i \in DOMAIN s : t[i] \in S \cup {v}
      /\ \A i \in DOMAIN s : t[i] = IF i = k THEN v ELSE s[i]
  BY <1>1
<1> HIDE DEF t
<1>3. t \in Seq(S \cup {v}) /\ DOMAIN t = DOMAIN s
  BY <1>1, <1>2, MapType
<1> QED BY <1>2, <1>3 DEF IsSeq, t

MineIn(notes, round) == {i \in DOMAIN notes : notes[i].round = round}
PlacedIn(notes, round) == {notes[i].at : i \in MineIn(notes, round)}
Below(places, at) == {p \in places : p < at}

LEMMA MineFinite ==
  ASSUME NEW ns, IsSeq(ns), NEW r
  PROVE  IsFiniteSet(MineIn(ns, r)) /\ Cardinality(MineIn(ns, r)) \in Nat
<1>1. Len(ns) \in Nat /\ DOMAIN ns = 1 .. Len(ns)
  BY SeqDomain
<1> DEFINE n == Len(ns)
<1>2. n \in Nat /\ MineIn(ns, r) \in SUBSET (1 .. n)
  BY <1>1 DEF MineIn
<1> HIDE DEF n
<1>3. IsFiniteSet(1 .. n)
  BY <1>2, FS_Interval
<1>4. IsFiniteSet(MineIn(ns, r))
  BY <1>2, <1>3, FS_Subset
<1> QED BY <1>4, FS_CardinalityType

\* One more note of a round.
LEMMA OneMoreNote ==
  ASSUME NEW ns, IsSeq(ns), NEW x, NEW r, x.round = r
  PROVE  /\ MineIn(Append(ns, x), r) = MineIn(ns, r) \cup {Len(ns) + 1}
         /\ Len(ns) + 1 \notin MineIn(ns, r) /\ IsFiniteSet(MineIn(ns, r)) /\ Cardinality(MineIn(ns, r)) \in Nat
         /\ PlacedIn(Append(ns, x), r) = PlacedIn(ns, r) \cup {x.at}
<1> DEFINE n == Len(ns)
           t == Append(ns, x)
<1>1. /\ n \in Nat /\ DOMAIN ns = 1 .. n /\ DOMAIN t = 1 .. n + 1
      /\ \A i \in 1 .. n : t[i] = ns[i]
      /\ t[n + 1] = x
  BY AppendAny
<1> HIDE DEF t, n
<1>2. MineIn(t, r) = MineIn(ns, r) \cup {n + 1} /\ n + 1 \notin MineIn(ns, r)
  BY <1>1 DEF MineIn
<1>3. \A i \in MineIn(ns, r) : t[i] = ns[i]
  BY <1>1 DEF MineIn
<1>4. PlacedIn(t, r) = PlacedIn(ns, r) \cup {x.at}
  BY <1>1, <1>2, <1>3 DEF PlacedIn
<1> QED BY <1>2, <1>4, MineFinite DEF t, n

\* Only an answer that was lost, or a busy forge, is tried again.
LEMMA TriedAgain == ASSUME NEW did, IsTransientError(ErrorOf(did)) PROVE did \in {"lost", "down"}
<1>1. CASE did = "refused"
  <2> DEFINE err == <<Failure(FALSE, {}, {}, FALSE), Failure(TRUE, {400}, {400}, TRUE)>>
  <2>1. ErrorOf(did) = err
    BY <1>1 DEF ErrorOf
  <2>2. DOMAIN err = {1, 2} /\ err[1].typed = FALSE /\ err[2].typed = TRUE /\ err[2].status = {400}
    BY DEF Failure
  <2> HIDE DEF err
  <2>3. {i \in DOMAIN err : err[i].typed /\ err[i].status # {}} = {2}
    BY <2>2
  <2>4. Min({2}) = 2
    BY DEF Min
  <2>5. HttpStatusVerdict(err) = {400}
    BY <2>2, <2>3, <2>4, SMTT(30) DEF HttpStatusVerdict
  <2>6. ~IsTransientError(err)
    BY <2>5 DEF IsTransientError
  <2> QED BY <2>1, <2>6
<1>2. CASE did \notin {"lost", "down", "refused"}
  <2> DEFINE err == <<Failure(TRUE, {}, {}, FALSE)>>
  <2>1. ErrorOf(did) = err
    BY <1>2 DEF ErrorOf
  <2>2. DOMAIN err = {1} /\ err[1].typed = TRUE /\ err[1].status = {} /\ err[1].says = {} /\ err[1].marker = FALSE
    BY DEF Failure
  <2> HIDE DEF err
  <2>3. HttpStatusVerdict(err) = {}
    BY <2>2 DEF HttpStatusVerdict, HttpStatusCode
  <2>4. \A c \in ToSet(err) : c.marker = FALSE
    BY <2>2 DEF ToSet
  <2>5. ~IsTransientError(err)
    BY <2>3, <2>4 DEF IsTransientError
  <2> QED BY <2>1, <2>5
<1> QED BY <1>1, <1>2

\* The counts of the plan account for every finding on the list.
Accounted(p) ==
  /\ IsSeq(p.selected) /\ p.excluded \in Nat /\ p.not_eligible \in Nat /\ p.skipped \in Nat /\ Len(p.rolled_up) \in Nat
  /\ p.considered = p.excluded + p.not_eligible + p.skipped + Len(p.rolled_up) + Len(p.selected)

LEMMA FewerFinite ==
  ASSUME NEW S, IsFiniteSet(S), NEW T \in SUBSET S
  PROVE  /\ IsFiniteSet(T) /\ Cardinality(S \ T) = Cardinality(S) - Cardinality(T)
         /\ Cardinality(T) \in Nat /\ Cardinality(S) \in Nat /\ Cardinality(T) <= Cardinality(S)
<1>1. S \cap T = T
  OBVIOUS
<1> QED BY <1>1, FS_Subset, FS_Difference, FS_CardinalityType, ZenonT(60)

LEMMA LenOfMap == ASSUME NEW n \in Nat, NEW s, s = [i \in 1 .. n |-> s[i]] PROVE IsSeq(s) /\ Len(s) = n
<1> DEFINE T == {s[i] : i \in 1 .. n}
<1>1. \A i \in 1 .. n : s[i] \in T
  OBVIOUS
<1> HIDE DEF T
<1> QED BY <1>1, IsASequence DEF IsSeq

LEMMA PlanAccounts ==
  ASSUME NEW fs, IsSeq(fs), NEW x, NEW docsOnly, NEW policy, policy.cap \in Nat
  PROVE  Accounted(PlanInlineNotes(fs, x, docsOnly, policy))
<1> DEFINE all == DOMAIN fs
           admitted == {i \in all : Admits(policy, fs[i])}
           lined == {i \in admitted : fs[i].line # {}}
           anchored(i) == \A y \in x : RunFor(y, fs[i].file, OrElse(fs[i].line, 0)) # {}
           candidates == {i \in lined : IsSafeInlinePath(PathOf[fs[i].file]) /\ anchored(i)}
           found == Cardinality(candidates)
           room == IF ~AllowsInlineFor(policy, docsOnly) THEN 0 ELSE IF found < policy.cap THEN found ELSE policy.cap
           p == PlanInlineNotes(fs, x, docsOnly, policy)
<1>1. /\ p.considered = Len(fs) /\ p.excluded = Cardinality(all \ admitted)
      /\ p.not_eligible = Cardinality(admitted \ lined) /\ p.skipped = Cardinality(lined \ candidates)
      /\ p.selected = [i \in 1 .. room |-> p.selected[i]]
      /\ p.rolled_up = [i \in 1 .. (found - room) |-> p.rolled_up[i]]
  BY DEF PlanInlineNotes
<1> HIDE DEF p
<1>2. Len(fs) \in Nat /\ all = 1 .. Len(fs) /\ IsFiniteSet(all) /\ Cardinality(all) = Len(fs)
  <2>1. Len(fs) \in Nat /\ all = 1 .. Len(fs)
    BY SeqDomain
  <2> DEFINE n == Len(fs)
  <2> HIDE DEF n
  <2>2. n \in Nat
    BY <2>1 DEF n
  <2>3. IsFiniteSet(1 .. n) /\ Cardinality(1 .. n) = n
    BY <2>2, FS_Interval
  <2> QED BY <2>1, <2>3 DEF n
<1>3. admitted \in SUBSET all /\ lined \in SUBSET admitted /\ candidates \in SUBSET lined
  OBVIOUS
<1> HIDE DEF all, admitted, lined, candidates
<1>4. /\ IsFiniteSet(admitted) /\ Cardinality(all \ admitted) = Cardinality(all) - Cardinality(admitted)
      /\ Cardinality(all \ admitted) \in Nat
      /\ Cardinality(admitted) \in Nat
  BY <1>2, <1>3, FewerFinite
<1>5. /\ IsFiniteSet(lined) /\ Cardinality(admitted \ lined) = Cardinality(admitted) - Cardinality(lined)
      /\ Cardinality(admitted \ lined) \in Nat
      /\ Cardinality(lined) \in Nat
  BY <1>3, <1>4, FewerFinite
<1>6. Cardinality(lined \ candidates) = Cardinality(lined) - found /\ found \in Nat
      /\ Cardinality(lined \ candidates) \in Nat
  BY <1>3, <1>5, FewerFinite
<1> HIDE DEF found
<1>7. room \in Nat /\ found - room \in Nat
  BY <1>6
<1> HIDE DEF room
<1>8. IsSeq(p.selected) /\ Len(p.selected) = room /\ Len(p.rolled_up) = found - room
  BY <1>1, <1>7, LenOfMap
<1>9. /\ p.excluded \in Nat /\ p.not_eligible \in Nat /\ p.skipped \in Nat /\ Len(p.rolled_up) \in Nat
  BY <1>1, <1>4, <1>5, <1>6, <1>7, <1>8
<1>10. p.considered = p.excluded + p.not_eligible + p.skipped + Len(p.rolled_up) + Len(p.selected)
  <2> DEFINE a == Cardinality(all)
             b == Cardinality(admitted)
             c == Cardinality(lined)
  <2>1. /\ p.considered = a /\ p.excluded = a - b /\ p.not_eligible = b - c /\ p.skipped = c - found
        /\ Len(p.rolled_up) = found - room /\ Len(p.selected) = room
    BY <1>1, <1>2, <1>4, <1>5, <1>6, <1>8
  <2>2. a \in Nat /\ b \in Nat /\ c \in Nat /\ found \in Nat /\ room \in Nat
    BY <1>2, <1>4, <1>5, <1>6, <1>7
  <2> HIDE DEF a, b, c
  <2> QED BY <2>1, <2>2
<1> QED BY <1>8, <1>9, <1>10 DEF Accounted, p

-----------------------------------------------------------------------------
(* The invariant of the publication: what is on the merge request goes     *)
(* with the place the notes have got to and with what the summary says.    *)

MyNotes == MineIn(forge.notes, forge.rounds)
MyPlaces == PlacedIn(forge.notes, forge.rounds)

ForgeFields == {"discussions", "notes", "lost", "refused", "rounds"}
SummaryFields == {"posted", "failed", "errors", "outcome", "board"}

PublishTypes ==
  /\ DOMAIN forge = ForgeFields /\ IsSeq(forge.discussions) /\ IsSeq(forge.notes) /\ forge.refused \in Seq(Nat)
  /\ forge.lost \in Nat /\ forge.rounds \in Nat
  /\ DOMAIN summary = SummaryFields /\ IsSeq(summary.failed) /\ summary.posted \in Nat /\ summary.errors \in Nat
  /\ DOMAIN note = {"at", "attempt"} /\ note.at \in Nat

\* Nothing on the merge request is of a round to come.
Sent ==
  /\ \A i \in DOMAIN forge.notes : forge.notes[i].round \in 0 .. forge.rounds
  /\ \A i \in DOMAIN forge.discussions : \A b \in forge.discussions[i] :
       {"round", "findings"} \subseteq DOMAIN b /\ b.round \in 0 .. forge.rounds

\* Nothing on it is of this round.
Unsent ==
  /\ \A i \in DOMAIN forge.notes : forge.notes[i].round # forge.rounds
  /\ \A i \in DOMAIN forge.discussions : \A b \in forge.discussions[i] : b.round # forge.rounds

\* The board is the discussion after those of other people.
OwnBoard ==
  input.crowd < PageSize =>
    /\ Len(forge.discussions) \in {input.crowd, input.crowd + 1}
    /\ BoardsIn(forge.discussions) = {i \in DOMAIN forge.discussions : i > input.crowd}

BoardThere ==
  \E i \in DOMAIN forge.discussions : \E b \in forge.discussions[i] :
    b.round = forge.rounds /\ b.findings = result.findings

Delivered(p) == p \in MyPlaces \/ \E k \in DOMAIN summary.failed : summary.failed[k].at = p

\* The places before the note at hand are dealt with.  Of a place there is one note more
\* than there should be only for an answer that was lost.
Underway ==
  /\ note.at \in 1 .. Len(plan.selected) + 1
  /\ \A p \in MyPlaces : p \in DOMAIN plan.selected /\ p <= note.at
  /\ Cardinality(MyNotes) <= Cardinality(Below(MyPlaces, note.at)) + forge.lost
  /\ \A k \in DOMAIN forge.refused : forge.refused[k] < note.at
  /\ \A p \in 1 .. (note.at - 1) : Delivered(p)
  /\ summary.posted + Len(summary.failed) = note.at - 1
  /\ summary.errors = 0 => BoardThere

Finished ==
  /\ \A p \in MyPlaces : p \in DOMAIN plan.selected
  /\ \A p \in DOMAIN plan.selected : Delivered(p)
  /\ summary.posted + Len(summary.failed) = Len(plan.selected)
  /\ summary.errors = 0 => BoardThere
  /\ summary.outcome = IF summary.errors > 0 \/ summary.failed # <<>> THEN "error" ELSE "ok"

PublishInv ==
  /\ PublishTypes /\ Sent /\ OwnBoard /\ IsInjective(forge.refused)
  /\ pc # "inline" => Cardinality(MyNotes) <= Cardinality(MyPlaces) + forge.lost
  /\ pc \in {"board", "inline"} => Accounted(plan)
  /\ pc = "board" => /\ Unsent /\ forge.lost = 0 /\ forge.refused = <<>>
                     /\ summary.posted = 0 /\ summary.failed = <<>> /\ summary.errors = 0
  /\ pc = "inline" => Underway
  /\ pc = "done" => IF summary.outcome = "refused" THEN Unsent ELSE Accounted(plan) /\ Finished

LEMMA NoneOfMine ==
  ASSUME NEW ns, NEW r, \A i \in DOMAIN ns : ns[i].round # r
  PROVE  MineIn(ns, r) = {} /\ PlacedIn(ns, r) = {} /\ Cardinality(MineIn(ns, r)) = 0 /\ Cardinality(PlacedIn(ns, r)) = 0
<1>1. MineIn(ns, r) = {} /\ PlacedIn(ns, r) = {}
  BY DEF MineIn, PlacedIn
<1> QED BY <1>1, FS_EmptySet

LEMMA PublishInit == RoundInit => PublishInv
<1> SUFFICES ASSUME RoundInit PROVE PublishInv
  OBVIOUS
<1>1. forge = EmptyForge(input.crowd) /\ summary = NoSummary /\ note = [at |-> 0, attempt |-> 0] /\ pc = "collect"
      /\ input.crowd \in Nat
  BY RoundAssumption DEF RoundInit, RoundAssumption
<1>2. /\ forge.notes = <<>> /\ forge.refused = <<>> /\ forge.lost = 0 /\ forge.rounds = 0
      /\ forge.discussions = [i \in 1 .. input.crowd |-> {}]
      /\ DOMAIN forge = ForgeFields
  BY <1>1 DEF EmptyForge, ForgeFields
<1>3. IsSeq(<<>>) /\ <<>> \in Seq(Nat)
  BY DEF IsSeq
<1>4. IsSeq(forge.discussions) /\ Len(forge.discussions) = input.crowd
      /\ DOMAIN forge.discussions = 1 .. input.crowd /\ \A i \in DOMAIN forge.discussions : forge.discussions[i] = {}
  <2> DEFINE d == [i \in 1 .. input.crowd |-> {}]
  <2>1. d = [i \in 1 .. input.crowd |-> d[i]] /\ DOMAIN d = 1 .. input.crowd /\ \A i \in DOMAIN d : d[i] = {}
    OBVIOUS
  <2> HIDE DEF d
  <2>2. IsSeq(d) /\ Len(d) = input.crowd
    BY <1>1, <2>1, LenOfMap
  <2> QED BY <1>2, <2>1, <2>2 DEF d
<1>5. PublishTypes
  BY <1>1, <1>2, <1>3, <1>4 DEF PublishTypes, NoSummary, SummaryFields
<1>6. Sent /\ OwnBoard /\ IsInjective(forge.refused)
  BY <1>1, <1>2, <1>4 DEF Sent, OwnBoard, BoardsIn, IsInjective
<1>7. Cardinality(MyNotes) = 0 /\ Cardinality(MyPlaces) = 0
  BY <1>2, NoneOfMine DEF MyNotes, MyPlaces
<1> QED BY <1>1, <1>2, <1>5, <1>6, <1>7 DEF PublishInv

\* The plan of a new round; nothing of it is on the merge request yet.
LEMMA PlanStep == ASSUME PassInv, PublishInv, PlanAndScan PROVE PublishInv'
<1> DEFINE known(index) == HasInlineCandidates(result.findings, Policy) /\ index # <<>>
           docsOnly(index) == known(index) /\ IsDocsOrCiOnly({input.diff[i].path : i \in DOMAIN input.diff})
           p(index) == PlanInlineNotes(result.findings, IF known(index) THEN {index} ELSE NoIndex, docsOnly(index), Policy)
           leaks(index) == LeaksOn("board") # {} \/ Ids(p(index).selected) \cap LeaksOn("note") # {}
<1>1. PICK index :
        /\ plan' = p(index)
        /\ summary' = [NoSummary EXCEPT !.outcome = IF leaks(index) THEN "refused" ELSE "none"]
        /\ pc' = IF leaks(index) THEN "done" ELSE "board"
  BY DEF PlanAndScan
<1>2. /\ note' = [at |-> 0, attempt |-> 0] /\ input' = input /\ pc = "plan"
      /\ forge' = [forge EXCEPT !.rounds = @ + 1, !.lost = 0, !.refused = <<>>]
  BY DEF PlanAndScan
<1>3. PublishTypes /\ Sent /\ OwnBoard
  BY DEF PublishInv
<1>4. /\ forge'.rounds = forge.rounds + 1 /\ forge'.lost = 0 /\ forge'.refused = <<>> /\ forge'.notes = forge.notes
      /\ forge'.discussions = forge.discussions /\ DOMAIN forge' = DOMAIN forge
      /\ forge.rounds \in Nat
  BY <1>2, <1>3 DEF PublishTypes
<1> HIDE DEF leaks
<1>5. Accounted(plan')
  <2>1. IsSeq(result.findings)
    BY <1>2 DEF PassInv, Settled, ResultOK, IsSeq
  <2>2. Policy.cap \in Nat
    <3>1. {n \in input.env.cap : n >= 0} \in SUBSET Nat
      BY RoundAssumption DEF RoundAssumption, PassInv
    <3> DEFINE o == {n \in input.env.cap : n >= 0}
    <3>2. Policy.cap = OrElse(o, 2)
      BY DEF Policy, ApplyOverrides, DefaultPolicy
    <3> HIDE DEF o
    <3>3. OrElse(o, 2) \in Nat
      BY <3>1, OrElseIn DEF o
    <3> QED BY <3>2, <3>3
  <2> QED BY <1>1, <2>1, <2>2, PlanAccounts
<1>6. IsSeq(<<>>) /\ <<>> \in Seq(Nat)
  BY DEF IsSeq
<1>7. /\ DOMAIN summary' = SummaryFields
      /\ summary'.posted = 0 /\ summary'.failed = <<>> /\ summary'.errors = 0
      /\ (summary'.outcome = "refused" <=> leaks(index))
  BY <1>1 DEF NoSummary, SummaryFields
<1>8. PublishTypes'
  BY <1>2, <1>3, <1>4, <1>6, <1>7 DEF PublishTypes
<1>9. Sent' /\ Unsent'
  BY <1>3, <1>4 DEF Sent, Unsent
<1>10. OwnBoard' /\ IsInjective(forge'.refused)
  BY <1>2, <1>3, <1>4 DEF OwnBoard, BoardsIn, IsInjective
<1>11. Cardinality(MyNotes') = 0 /\ Cardinality(MyPlaces') = 0
  BY <1>9, NoneOfMine DEF MyNotes, MyPlaces, Unsent
<1>12. pc' \in {"done", "board"} /\ (pc' = "done" => summary'.outcome = "refused")
  BY <1>1, <1>7
<1> QED BY <1>4, <1>5, <1>7, <1>8, <1>9, <1>10, <1>11, <1>12 DEF PublishInv

\* The board of this round takes the place of the one the listing shows, or comes after the
\* discussions there are.
Put(discussions, at, b) ==
  IF at > Len(discussions) THEN Append(discussions, {b}) ELSE [discussions EXCEPT ![at] = {b}]

OnlyAt(d, at, b, new) ==
  /\ IsSeq(new) /\ DOMAIN new = DOMAIN d \cup {at} /\ new[at] = {b}
  /\ \A i \in DOMAIN d : i # at => new[i] = d[i]

LEMMA PutBoard ==
  ASSUME NEW d, NEW at, NEW b, IsSeq(d), at \in 1 .. Len(d) + 1
  PROVE  OnlyAt(d, at, b, Put(d, at, b))
<1>1. Len(d) \in Nat /\ DOMAIN d = 1 .. Len(d)
  BY SeqDomain
<1>2. CASE at > Len(d)
  <2>1. Put(d, at, b) = Append(d, {b}) /\ at = Len(d) + 1
    BY <1>1, <1>2 DEF Put
  <2> QED BY <1>1, <2>1, AppendAny DEF OnlyAt
<1>3. CASE ~(at > Len(d))
  <2>1. Put(d, at, b) = [d EXCEPT ![at] = {b}] /\ at \in DOMAIN d
    BY <1>1, <1>3 DEF Put
  <2> DEFINE t == [d EXCEPT ![at] = {b}]
  <2>2. IsSeq(t) /\ DOMAIN t = DOMAIN d /\ \A i \in DOMAIN d : t[i] = IF i = at THEN {b} ELSE d[i]
    BY ReplaceAny
  <2> HIDE DEF t
  <2>3. Put(d, at, b) = t /\ DOMAIN d \cup {at} = DOMAIN d
    BY <2>1 DEF t
  <2> QED BY <2>1, <2>2, <2>3 DEF OnlyAt
<1> QED BY <1>2, <1>3

LEMMA BoardStep == ASSUME PassInv, PublishInv, FindOrUpdateDiscussion PROVE PublishInv'
<1> DEFINE d == forge.discussions
           md == RenderBoard(plan)
           at == IF ListedBoards = {} THEN Len(d) + 1 ELSE Min(ListedBoards)
<1>1. PICK did \in {"ok", "lost", "refused"} :
        /\ forge' = IF did = "refused" THEN forge ELSE [forge EXCEPT !.discussions = Put(d, at, md)]
        /\ summary' = IF did = "ok" THEN [summary EXCEPT !.board = at] ELSE [summary EXCEPT !.errors = @ + 1]
  BY DEF FindOrUpdateDiscussion, Put
<1>2. /\ note' = [at |-> 1, attempt |-> 1] /\ input' = input /\ result' = result /\ plan' = plan
      /\ pc = "board" /\ pc' = "inline"
  BY DEF FindOrUpdateDiscussion, passVars
<1>3. /\ PublishTypes /\ Sent /\ OwnBoard /\ Accounted(plan) /\ Unsent /\ forge.lost = 0 /\ forge.refused = <<>>
      /\ summary.posted = 0 /\ summary.failed = <<>> /\ summary.errors = 0
  BY <1>2 DEF PublishInv
<1>4. md.round = forge.rounds /\ md.findings = result.findings /\ {"round", "findings"} \subseteq DOMAIN md
  BY DEF RenderBoard
<1> HIDE DEF md
<1>5. IsSeq(d) /\ Len(d) \in Nat /\ DOMAIN d = 1 .. Len(d) /\ input.crowd \in Nat /\ PageSize \in Nat
  BY <1>3, SeqDomain, RoundAssumption DEF PublishTypes, PassInv, RoundAssumption
<1>6. at \in 1 .. Len(d) + 1 /\ (ListedBoards # {} => at \in ListedBoards)
  <2>1. CASE ListedBoards = {}
    BY <2>1, <1>5
  <2>2. CASE ListedBoards # {}
    <3>1. ListedBoards \in SUBSET (1 .. Len(d)) /\ ListedBoards \in SUBSET Nat
      BY <1>5 DEF ListedBoards, BoardsIn
    <3>2. Min(ListedBoards) \in ListedBoards
      BY <2>2, <3>1, LeastPlace
    <3>3. at = Min(ListedBoards)
      BY <2>2
    <3> HIDE DEF at
    <3>4. at \in ListedBoards /\ at \in 1 .. Len(d)
      BY <3>1, <3>2, <3>3
    <3> QED BY <3>4, <1>5
  <2> QED BY <2>1, <2>2
<1> HIDE DEF at
<1>7. CASE did = "refused"
  <2>1. forge' = forge /\ summary'.errors = 1 /\ summary'.posted = 0 /\ summary'.failed = <<>> /\ DOMAIN summary' = DOMAIN summary
    BY <1>1, <1>3, <1>7 DEF PublishTypes, SummaryFields
  <2>2. PublishTypes'
    <3>1. IsSeq(<<>>)
      BY DEF IsSeq
    <3>2. DOMAIN note' = {"at", "attempt"} /\ note'.at \in Nat
      BY <1>2
    <3>3. DOMAIN summary' = SummaryFields /\ summary'.posted \in Nat /\ summary'.errors \in Nat /\ IsSeq(summary'.failed)
      BY <1>3, <2>1, <3>1 DEF PublishTypes
    <3> QED BY <3>2, <3>3, <1>3, <2>1 DEF PublishTypes
  <2>7. Sent' /\ OwnBoard' /\ IsInjective(forge'.refused)
    BY <1>2, <1>3, <2>1 DEF Sent, OwnBoard, BoardsIn, IsInjective
  <2>3. MyNotes' = {} /\ MyPlaces' = {} /\ Cardinality(MyNotes') = 0
    BY <1>3, <2>1, NoneOfMine DEF Unsent, MyNotes, MyPlaces
  <2>4. Below(MyPlaces', 1) = {} /\ Cardinality(Below(MyPlaces', 1)) = 0
    BY <2>3, FS_EmptySet DEF Below
  <2>5. Len(plan.selected) \in Nat /\ Len(<<>>) = 0
    BY <1>3, SeqDomain DEF Accounted
  <2>6. Underway'
    BY <1>2, <1>3, <2>1, <2>3, <2>4, <2>5 DEF Underway
  <2> QED BY <1>2, <1>3, <2>2, <2>6, <2>7 DEF PublishInv
<1>8. CASE did # "refused"
  <2> DEFINE new == Put(d, at, md)
  <2>1. /\ forge'.discussions = new /\ forge'.notes = forge.notes /\ forge'.refused = <<>> /\ forge'.lost = 0
        /\ forge'.rounds = forge.rounds /\ DOMAIN forge' = DOMAIN forge
        /\ summary'.errors \in Nat /\ summary'.posted = 0 /\ summary'.failed = <<>> /\ DOMAIN summary' = DOMAIN summary
    BY <1>1, <1>3, <1>8 DEF PublishTypes, ForgeFields, SummaryFields
  <2>2. IsSeq(new) /\ DOMAIN new = DOMAIN d \cup {at} /\ new[at] = {md} /\ \A i \in DOMAIN d : i # at => new[i] = d[i]
    <3>1. IsSeq(d) /\ at \in 1 .. Len(d) + 1
      BY <1>5, <1>6
    <3>2. OnlyAt(d, at, md, new)
      BY <3>1, PutBoard
    <3> QED BY <3>2 DEF OnlyAt
  <2>3. Len(new) \in Nat /\ DOMAIN new = 1 .. Len(new)
    BY <2>2, SeqDomain
  <2> HIDE DEF new
  <2>4. PublishTypes'
    BY <1>2, <1>3, <2>1, <2>2 DEF PublishTypes
  <2>5. forge.rounds \in Nat
    BY <1>3 DEF PublishTypes
  <2>6. Sent'
    <3>1. \A i \in DOMAIN new : \A b \in new[i] : {"round", "findings"} \subseteq DOMAIN b /\ b.round \in 0 .. forge.rounds
      BY <1>3, <1>4, <2>2, <2>5 DEF Sent
    <3> QED BY <1>3, <2>1, <3>1 DEF Sent
  <2>7. OwnBoard'
    <3> SUFFICES ASSUME input.crowd < PageSize
                 PROVE  /\ Len(new) \in {input.crowd, input.crowd + 1}
                        /\ BoardsIn(new) = {i \in DOMAIN new : i > input.crowd}
      BY <1>2, <2>1 DEF OwnBoard
    <3>1. Len(d) \in {input.crowd, input.crowd + 1} /\ BoardsIn(d) = {i \in DOMAIN d : i > input.crowd}
      BY <1>3 DEF OwnBoard
    <3>2. at = input.crowd + 1
      <4>1. CASE Len(d) = input.crowd
        <5>1. BoardsIn(d) = {}
          BY <1>5, <3>1, <4>1
        <5>2. ListedBoards = {}
          BY <5>1 DEF ListedBoards
        <5> QED BY <5>2, <4>1 DEF at
      <4>2. CASE Len(d) = input.crowd + 1
        <5>1. BoardsIn(d) = {input.crowd + 1}
          BY <1>5, <3>1, <4>2
        <5>2. ListedBoards = {input.crowd + 1}
          BY <1>5, <5>1 DEF ListedBoards
        <5> QED BY <5>2, <1>6
      <4> QED BY <3>1, <4>1, <4>2
    <3>3. DOMAIN new = 1 .. input.crowd + 1
      BY <1>5, <2>2, <3>1, <3>2
    <3>4. Len(new) = input.crowd + 1
      BY <1>5, <2>3, <3>3
    <3>5. BoardsIn(new) = {input.crowd + 1}
      <4>1. \A i \in 1 .. input.crowd : i \in DOMAIN d /\ i \notin BoardsIn(d) /\ i # at
        BY <1>5, <3>1, <3>2
      <4>2. \A i \in 1 .. input.crowd : new[i] = {}
        BY <2>2, <4>1 DEF BoardsIn
      <4>3. new[input.crowd + 1] # {}
        BY <2>2, <3>2
      <4>4. \A i \in DOMAIN new : i \in 1 .. input.crowd \/ i = input.crowd + 1
        BY <1>5, <3>3
      <4> QED BY <3>3, <4>2, <4>3, <4>4, <1>5 DEF BoardsIn
    <3> QED BY <1>5, <3>3, <3>4, <3>5
  <2>8. BoardThere'
    BY <1>2, <1>4, <2>1, <2>2 DEF BoardThere
  <2>9. MyNotes' = {} /\ MyPlaces' = {} /\ Cardinality(MyNotes') = 0
    BY <1>3, <2>1, NoneOfMine DEF Unsent, MyNotes, MyPlaces
  <2>10. Below(MyPlaces', 1) = {} /\ Cardinality(Below(MyPlaces', 1)) = 0
    BY <2>9, FS_EmptySet DEF Below
  <2>11. Len(plan.selected) \in Nat /\ Len(<<>>) = 0
    BY <1>3, SeqDomain DEF Accounted
  <2>12. Underway' /\ IsInjective(forge'.refused)
    BY <1>2, <1>3, <2>1, <2>8, <2>9, <2>10, <2>11 DEF Underway, IsInjective
  <2> QED BY <1>2, <1>3, <2>4, <2>6, <2>7, <2>12 DEF PublishInv
<1> QED BY <1>7, <1>8

\* The bound on the notes of the round, as the place at hand is tried once more or left.
Enough(mine, places, at, lost) == Cardinality(mine) <= Cardinality(Below(places, at)) + lost

LEMMA BelowFinite ==
  ASSUME NEW n \in Nat, NEW P, \A p \in P : p \in 1 .. n, NEW at
  PROVE  IsFiniteSet(P) /\ IsFiniteSet(Below(P, at)) /\ Cardinality(Below(P, at)) \in Nat /\ Cardinality(P) \in Nat
         /\ Cardinality(Below(P, at)) <= Cardinality(P)
<1>1. IsFiniteSet(1 .. n) /\ P \in SUBSET (1 .. n)
  BY FS_Interval
<1>2. IsFiniteSet(P) /\ Below(P, at) \in SUBSET P
  BY <1>1, FS_Subset DEF Below
<1>3. IsFiniteSet(Below(P, at)) /\ Cardinality(Below(P, at)) <= Cardinality(P)
  BY <1>2, FS_Subset
<1> QED BY <1>2, <1>3, FS_CardinalityType

LEMMA LeftBehind ==
  ASSUME NEW n \in Nat, NEW P, \A p \in P : p \in 1 .. n, NEW at \in 1 .. n
  PROVE  /\ Cardinality(Below(P, at)) <= Cardinality(Below(P, at + 1))
         /\ Cardinality(Below(P \cup {at}, at + 1)) = Cardinality(Below(P, at)) + 1
         /\ Below(P \cup {at}, at) = Below(P, at)
<1>1. IsFiniteSet(Below(P, at)) /\ IsFiniteSet(Below(P, at + 1))
  BY BelowFinite
<1>2. Below(P, at) \in SUBSET Below(P, at + 1)
  BY DEF Below
<1>3. Below(P \cup {at}, at + 1) = Below(P, at) \cup {at}
  BY DEF Below
<1>4. Below(P \cup {at}, at) = Below(P, at) /\ at \notin Below(P, at)
  BY DEF Below
<1>5. Cardinality(Below(P, at)) <= Cardinality(Below(P, at + 1))
  BY <1>1, <1>2, FS_Subset
<1>6. Cardinality(Below(P, at) \cup {at}) = Cardinality(Below(P, at)) + 1
  BY <1>1, <1>4, FS_AddElement
<1> QED BY <1>3, <1>4, <1>5, <1>6

LEMMA PostStep == ASSUME PassInv, PublishInv, PostInlineOnce PROVE PublishInv'
<1> DEFINE at == note.at
           n == Len(plan.selected)
           f == plan.selected[at]
           again(did) == did # "ok" /\ IsTransientError(ErrorOf(did)) /\ note.attempt < MaxAttempts
           x == [id |-> f.id, at |-> at, round |-> forge.rounds, anchor |-> Anchor(f), body |-> FormatInlineBody(f)]
           failure(did) == InlineNoteFailure(at, f, ErrorOf(did))
<1>1. PICK did :
        /\ forge' = [forge EXCEPT !.notes = IF did \in {"ok", "lost", "garbled"} THEN Append(@, x) ELSE @,
                                  !.lost = @ + IF did = "lost" THEN 1 ELSE 0,
                                  !.refused = IF did = "refused" THEN Append(@, at) ELSE @]
        /\ note' = IF again(did) THEN [note EXCEPT !.attempt = @ + 1] ELSE [at |-> at + 1, attempt |-> 1]
        /\ summary' = CASE did = "ok" -> [summary EXCEPT !.posted = @ + 1]
                        [] again(did) -> summary
                        [] OTHER -> [summary EXCEPT !.failed = Append(@, failure(did))]
  BY DEF PostInlineOnce
<1>2. at \in DOMAIN plan.selected /\ pc = "inline" /\ pc' = pc /\ input' = input /\ plan' = plan /\ result' = result
  BY DEF PostInlineOnce, passVars
<1>3. PublishTypes /\ Sent /\ OwnBoard /\ IsInjective(forge.refused) /\ Accounted(plan) /\ Underway
  BY <1>2 DEF PublishInv
<1>4. n \in Nat /\ DOMAIN plan.selected = 1 .. n /\ at \in 1 .. n
  BY <1>2, <1>3, SeqDomain DEF Accounted
<1> DEFINE more == again(did)
<1>5. more \in BOOLEAN /\ (more => did \in {"lost", "down"})
  BY TriedAgain
<1>6. x.at = at /\ x.round = forge.rounds /\ failure(did).at = at
  BY DEF InlineNoteFailure
<1> HIDE DEF x, failure, more, f
<1> DEFINE posts == did \in {"ok", "lost", "garbled"}
           notes == IF posts THEN Append(forge.notes, x) ELSE forge.notes
           refused == IF did = "refused" THEN Append(forge.refused, at) ELSE forge.refused
           lost == forge.lost + IF did = "lost" THEN 1 ELSE 0
<1>7. /\ forge'.notes = notes /\ forge'.lost = lost /\ forge'.refused = refused
      /\ forge'.discussions = forge.discussions /\ forge'.rounds = forge.rounds /\ DOMAIN forge' = ForgeFields
  BY <1>1, <1>3 DEF PublishTypes, ForgeFields
<1>8. /\ DOMAIN note' = {"at", "attempt"} /\ note'.at \in Nat
      /\ note'.at = IF more THEN at ELSE at + 1
  BY <1>1, <1>3, <1>4 DEF PublishTypes, more
<1>9. /\ DOMAIN summary' = SummaryFields /\ summary'.errors = summary.errors
      /\ summary'.posted = summary.posted + IF did = "ok" THEN 1 ELSE 0
      /\ summary'.failed = IF did = "ok" \/ more THEN summary.failed ELSE Append(summary.failed, failure(did))
  <2>1. CASE did = "ok"
    <3>1. summary' = [summary EXCEPT !.posted = @ + 1]
      BY <1>1, <2>1 DEF more
    <3> QED BY <3>1, <2>1, <1>3, <1>5 DEF PublishTypes, SummaryFields
  <2>2. CASE did # "ok" /\ more
    <3>1. summary' = summary
      BY <1>1, <2>2 DEF more
    <3> QED BY <3>1, <2>2, <1>3 DEF PublishTypes
  <2>3. CASE did # "ok" /\ ~more
    <3>1. summary' = [summary EXCEPT !.failed = Append(@, failure(did))]
      BY <1>1, <2>3 DEF more
    <3> QED BY <3>1, <2>3, <1>3 DEF PublishTypes, SummaryFields
  <2> QED BY <2>1, <2>2, <2>3, <1>5
<1>10. /\ IsSeq(summary'.failed) /\ Len(summary.failed) \in Nat
       /\ \A k \in DOMAIN summary.failed : k \in DOMAIN summary'.failed /\ summary'.failed[k] = summary.failed[k]
       /\ did = "ok" \/ more => Len(summary'.failed) = Len(summary.failed)
       /\ did # "ok" /\ ~more => /\ Len(summary'.failed) = Len(summary.failed) + 1
                                 /\ \E k \in DOMAIN summary'.failed : summary'.failed[k].at = at
  <2>1. IsSeq(summary.failed) /\ Len(summary.failed) \in Nat
    BY <1>3, SeqDomain DEF PublishTypes
  <2>2. CASE did = "ok" \/ more
    <3>1. summary'.failed = summary.failed
      BY <1>9, <2>2
    <3>2. ~(did # "ok" /\ ~more)
      BY <1>5, <2>2
    <3> QED BY <2>1, <2>2, <3>1, <3>2
  <2>3. CASE ~(did = "ok" \/ more)
    <3>1. summary'.failed = Append(summary.failed, failure(did))
      BY <1>9, <2>3
    <3> QED BY <1>6, <2>1, <2>3, <3>1, AppendAny
  <2> QED BY <2>2, <2>3
<1>11. IsSeq(notes) /\ MyNotes' = MineIn(notes, forge.rounds) /\ MyPlaces' = PlacedIn(notes, forge.rounds)
  <2>1. IsSeq(notes)
    BY <1>3, AppendAny DEF PublishTypes
  <2> QED BY <2>1, <1>7 DEF MyNotes, MyPlaces
<1>12. /\ posts => MyPlaces' = MyPlaces \cup {at} /\ Cardinality(MyNotes') = Cardinality(MyNotes) + 1
       /\ ~posts => MyPlaces' = MyPlaces /\ MyNotes' = MyNotes
       /\ Cardinality(MyNotes) \in Nat
  <2>1. /\ MineIn(Append(forge.notes, x), forge.rounds) = MyNotes \cup {Len(forge.notes) + 1}
        /\ Len(forge.notes) + 1 \notin MyNotes /\ IsFiniteSet(MyNotes) /\ Cardinality(MyNotes) \in Nat
        /\ PlacedIn(Append(forge.notes, x), forge.rounds) = MyPlaces \cup {at}
    <3>1. IsSeq(forge.notes) /\ x.round = forge.rounds
      BY <1>3, <1>6 DEF PublishTypes
    <3>2. PlacedIn(Append(forge.notes, x), forge.rounds) = MyPlaces \cup {x.at}
      BY <3>1, OneMoreNote DEF MyPlaces
    <3>3. /\ MineIn(Append(forge.notes, x), forge.rounds) = MyNotes \cup {Len(forge.notes) + 1}
          /\ Len(forge.notes) + 1 \notin MyNotes /\ IsFiniteSet(MyNotes) /\ Cardinality(MyNotes) \in Nat
      BY <3>1, OneMoreNote DEF MyNotes
    <3> QED BY <1>6, <3>2, <3>3
  <2>2. Cardinality(MyNotes \cup {Len(forge.notes) + 1}) = Cardinality(MyNotes) + 1
    BY <2>1, FS_AddElement
  <2> QED BY <1>11, <2>1, <2>2 DEF MyNotes, MyPlaces
<1>13. refused \in Seq(Nat) /\ IsInjective(refused) /\ \A k \in DOMAIN refused : refused[k] < note'.at
  <2>1. forge.refused \in Seq(Nat) /\ at \in Nat /\ \A k \in DOMAIN forge.refused : forge.refused[k] < at /\ forge.refused[k] \in Nat
    BY <1>3, <1>4 DEF PublishTypes, Underway
  <2>2. CASE did # "refused"
    <3>1. refused = forge.refused
      BY <2>2
    <3>2. note'.at = at \/ note'.at = at + 1
      BY <1>5, <1>8
    <3> HIDE DEF refused
    <3> QED BY <1>3, <2>1, <3>1, <3>2
  <2>3. CASE did = "refused"
    <3>1. refused = Append(forge.refused, at) /\ note'.at = at + 1
      BY <1>5, <1>8, <2>3
    <3>2. /\ refused \in Seq(Nat) /\ Len(forge.refused) \in Nat
          /\ DOMAIN forge.refused = 1 .. Len(forge.refused) /\ DOMAIN refused = 1 .. Len(forge.refused) + 1
          /\ \A i \in 1 .. Len(forge.refused) : refused[i] = forge.refused[i]
          /\ refused[Len(forge.refused) + 1] = at
      BY <2>1, <3>1, AppendType
    <3> HIDE DEF refused
    <3> DEFINE m == Len(forge.refused)
    <3> HIDE DEF m
    <3>5. m \in Nat /\ DOMAIN refused = 1 .. m + 1 /\ \A i \in 1 .. m : refused[i] < at /\ refused[i] \in Nat
      BY <2>1, <3>2 DEF m
    <3>6. refused[m + 1] = at /\ \A i, j \in 1 .. m : refused[i] = refused[j] => i = j
      BY <1>3, <3>2 DEF IsInjective, m
    <3>3. \A k \in DOMAIN refused : refused[k] < at + 1
      BY <2>1, <3>5, <3>6
    <3>4. IsInjective(refused)
      BY <2>1, <3>5, <3>6 DEF IsInjective
    <3> QED BY <3>1, <3>2, <3>3, <3>4
  <2> QED BY <2>2, <2>3
<1> HIDE DEF notes, refused
<1>14. PublishTypes'
  <2>1. lost \in Nat /\ forge.rounds \in Nat /\ summary'.posted \in Nat /\ IsSeq(forge.discussions) /\ summary'.errors \in Nat
    BY <1>3, <1>9 DEF PublishTypes
  <2> QED BY <1>7, <1>8, <1>9, <1>10, <1>11, <1>13, <2>1 DEF PublishTypes
<1>15. Sent'
  <2>1. \A i \in DOMAIN notes : notes[i].round \in 0 .. forge.rounds
    <3>1. forge.rounds \in 0 .. forge.rounds /\ \A i \in DOMAIN forge.notes : forge.notes[i].round \in 0 .. forge.rounds
      BY <1>3 DEF Sent, PublishTypes
    <3>2. CASE ~posts
      BY <3>1, <3>2 DEF notes
    <3>3. CASE posts
      <4>1. notes = Append(forge.notes, x)
        BY <3>3 DEF notes
      <4>2. IsSeq(forge.notes)
        BY <1>3 DEF PublishTypes
      <4> QED BY <1>6, <3>1, <4>1, <4>2, AppendAny
    <3> QED BY <3>2, <3>3
  <2> QED BY <1>3, <1>7, <2>1 DEF Sent
<1>16. OwnBoard' /\ (BoardThere => BoardThere')
  BY <1>2, <1>3, <1>7 DEF OwnBoard, BoardThere
<1>17. Underway'
  <2>1. /\ \A p \in MyPlaces : p \in 1 .. n /\ p <= at
        /\ Enough(MyNotes, MyPlaces, at, forge.lost) /\ \A p \in 1 .. (at - 1) : Delivered(p)
        /\ summary.posted + Len(summary.failed) = at - 1 /\ (summary.errors = 0 => BoardThere)
    BY <1>3, <1>4 DEF Underway, Enough
  <2>2. \A p \in MyPlaces' : p \in 1 .. n /\ p <= note'.at
    BY <1>4, <1>8, <1>12, <2>1
  <2>3. Enough(MyNotes', MyPlaces', note'.at, lost)
    <3>1. /\ Cardinality(Below(MyPlaces, at)) <= Cardinality(Below(MyPlaces, at + 1))
          /\ Cardinality(Below(MyPlaces \cup {at}, at + 1)) = Cardinality(Below(MyPlaces, at)) + 1
          /\ Below(MyPlaces \cup {at}, at) = Below(MyPlaces, at)
      <4>1. \A p \in MyPlaces : p \in 1 .. n
        BY <2>1
      <4> QED BY <1>4, <4>1, LeftBehind
    <3>2. Cardinality(Below(MyPlaces, at)) \in Nat /\ Cardinality(Below(MyPlaces, at + 1)) \in Nat
      <4>1. \A p \in MyPlaces : p \in 1 .. n
        BY <2>1
      <4> QED BY <1>4, <4>1, BelowFinite
    <3>3. Cardinality(MyNotes) <= Cardinality(Below(MyPlaces, at)) + forge.lost /\ forge.lost \in Nat
          /\ Cardinality(MyNotes) \in Nat
      BY <1>3, <1>12, <2>1 DEF Enough, PublishTypes
    <3>4. CASE more
      <4>1. note'.at = at /\ did \in {"lost", "down"}
        BY <1>5, <1>8, <3>4
      <4>2. CASE did = "lost"
        <5>1. Below(MyPlaces', note'.at) = Below(MyPlaces, at) /\ lost = forge.lost + 1
              /\ Cardinality(MyNotes') = Cardinality(MyNotes) + 1
          BY <1>12, <3>1, <4>1, <4>2
        <5> HIDE DEF lost
        <5> QED BY <3>2, <3>3, <5>1 DEF Enough
      <4>3. CASE did = "down"
        BY <1>12, <3>1, <3>2, <3>3, <4>1, <4>3 DEF Enough
      <4> QED BY <4>1, <4>2, <4>3
    <3>5. CASE ~more
      <4>1. note'.at = at + 1
        BY <1>8, <3>5
      <4>2. CASE posts
        <5>1. Cardinality(Below(MyPlaces', note'.at)) = Cardinality(Below(MyPlaces, at)) + 1
              /\ Cardinality(MyNotes') = Cardinality(MyNotes) + 1
          BY <1>12, <3>1, <4>1, <4>2
        <5>2. lost \in Nat /\ lost >= forge.lost
          BY <3>3
        <5> HIDE DEF lost
        <5> QED BY <3>2, <3>3, <5>1, <5>2 DEF Enough
      <4>3. CASE ~posts
        BY <1>12, <3>1, <3>2, <3>3, <4>1, <4>3 DEF Enough
      <4> QED BY <4>2, <4>3
    <3> QED BY <3>4, <3>5
  <2>4. \A p \in 1 .. (note'.at - 1) : Delivered(p)'
    <3> SUFFICES ASSUME NEW p \in 1 .. (note'.at - 1)
                 PROVE  p \in MyPlaces' \/ \E k \in DOMAIN summary'.failed : summary'.failed[k].at = p
      BY DEF Delivered
    <3>1. CASE p \in 1 .. (at - 1)
      <4>1. p \in MyPlaces \/ \E k \in DOMAIN summary.failed : summary.failed[k].at = p
        BY <2>1, <3>1 DEF Delivered
      <4> QED BY <1>10, <1>12, <4>1
    <3>2. CASE p = at /\ ~more
      BY <1>10, <1>12, <3>2
    <3>3. p \in 1 .. (at - 1) \/ (p = at /\ ~more)
      BY <1>4, <1>8
    <3> QED BY <3>1, <3>2, <3>3
  <2>5. summary'.posted + Len(summary'.failed) = note'.at - 1
    <3>1. summary.posted \in Nat /\ Len(summary.failed) \in Nat /\ at \in Nat
          /\ summary.posted + Len(summary.failed) = at - 1
      BY <1>3, <1>4, <1>10, <2>1 DEF PublishTypes
    <3>2. CASE did = "ok"
      <4>1. ~more
        BY <1>5, <3>2
      <4>2. summary'.posted = summary.posted + 1 /\ Len(summary'.failed) = Len(summary.failed) /\ note'.at = at + 1
        BY <1>8, <1>9, <1>10, <3>2, <4>1
      <4> QED BY <3>1, <4>2, SMTT(30)
    <3>3. CASE did # "ok" /\ more
      <4>1. summary'.posted = summary.posted /\ Len(summary'.failed) = Len(summary.failed) /\ note'.at = at
        BY <1>8, <1>9, <1>10, <3>1, <3>3
      <4> QED BY <3>1, <4>1
    <3>4. CASE did # "ok" /\ ~more
      <4>1. summary'.posted = summary.posted /\ Len(summary'.failed) = Len(summary.failed) + 1 /\ note'.at = at + 1
        BY <1>8, <1>9, <1>10, <3>1, <3>4
      <4> QED BY <3>1, <4>1, SMTT(30)
    <3> QED BY <1>5, <3>2, <3>3, <3>4
  <2>6. note'.at \in 1 .. n + 1
    BY <1>4, <1>8
  <2> QED BY <1>2, <1>4, <1>7, <1>9, <1>13, <1>16, <2>1, <2>2, <2>3, <2>4, <2>5, <2>6 DEF Underway, Enough
<1> QED BY <1>2, <1>3, <1>7, <1>13, <1>14, <1>15, <1>16, <1>17 DEF PublishInv

\* The failures are named on the board; its round and its findings stay what they are.
LEMMA FinishStep == ASSUME PassInv, PublishInv, FinishPublication PROVE PublishInv'
<1> DEFINE d == forge.discussions
           section == RenderInlineFailureSection(summary.failed)
           named(b) == [b EXCEPT !.failures = section]
           new == [d EXCEPT ![summary.board] = {named(b) : b \in d[summary.board]}]
<1>1. \/ forge' = forge
      \/ forge' = [forge EXCEPT !.discussions = new]
  BY DEF FinishPublication
<1>2. /\ summary' = [summary EXCEPT !.outcome = IF summary.errors > 0 \/ summary.failed # <<>> THEN "error" ELSE "ok"]
      /\ pc = "inline" /\ pc' = "done" /\ note.at \notin DOMAIN plan.selected
      /\ input' = input /\ result' = result /\ plan' = plan /\ note' = note
  BY DEF FinishPublication, passVars
<1>3. PublishTypes /\ Sent /\ OwnBoard /\ IsInjective(forge.refused) /\ Accounted(plan) /\ Underway
  BY <1>2 DEF PublishInv
<1>4. /\ DOMAIN summary' = SummaryFields /\ summary'.errors = summary.errors /\ summary'.posted = summary.posted
      /\ summary'.failed = summary.failed
      /\ summary'.outcome = IF summary.errors > 0 \/ summary.failed # <<>> THEN "error" ELSE "ok"
  BY <1>2, <1>3 DEF PublishTypes, SummaryFields
<1>5. IsSeq(d) /\ Len(d) \in Nat /\ DOMAIN d = 1 .. Len(d)
  BY <1>3, SeqDomain DEF PublishTypes
<1>6. \A i \in DOMAIN d : \A b \in d[i] :
        named(b).round = b.round /\ named(b).findings = b.findings /\ {"round", "findings"} \subseteq DOMAIN named(b)
  BY <1>3 DEF Sent
<1>7. /\ IsSeq(new) /\ DOMAIN new = DOMAIN d
      /\ \A i \in DOMAIN d : new[i] = IF i = summary.board THEN {named(b) : b \in d[i]} ELSE d[i]
  <2> DEFINE s == d
             v == {named(b) : b \in d[summary.board]}
             t == [s EXCEPT ![summary.board] = v]
  <2>1. new = t
    OBVIOUS
  <2>2. IsSeq(s)
    BY <1>5
  <2> HIDE DEF s, v
  <2>3. IsSeq(t) /\ DOMAIN t = DOMAIN s /\ \A i \in DOMAIN s : t[i] = IF i = summary.board THEN v ELSE s[i]
    BY <2>2, ReplaceAny
  <2> HIDE DEF t, new
  <2> QED BY <2>1, <2>3 DEF s, v
<1> HIDE DEF new, named
<1> DEFINE after == forge'.discussions
<1>8. /\ forge'.notes = forge.notes /\ forge'.lost = forge.lost /\ forge'.refused = forge.refused
      /\ forge'.rounds = forge.rounds /\ DOMAIN forge' = ForgeFields
      /\ (after = d \/ after = new)
  BY <1>1, <1>3 DEF PublishTypes, ForgeFields
<1>9. /\ IsSeq(after) /\ DOMAIN after = DOMAIN d
      /\ \A i \in DOMAIN d : after[i] = d[i] \/ after[i] = {named(b) : b \in d[i]}
  BY <1>5, <1>7, <1>8
<1>10. Len(after) = Len(d)
  <2>1. Len(after) \in Nat /\ DOMAIN after = 1 .. Len(after)
    BY <1>9, SeqDomain
  <2> QED BY <1>5, <1>9, <2>1
<1> HIDE DEF after
<1>11. PublishTypes'
  <2>1. forge.lost \in Nat /\ forge.rounds \in Nat /\ forge.refused \in Seq(Nat) /\ IsSeq(forge.notes)
    BY <1>3 DEF PublishTypes
  <2>2. summary.posted \in Nat /\ summary.errors \in Nat /\ IsSeq(summary.failed)
    BY <1>3 DEF PublishTypes
  <2>3. DOMAIN note = {"at", "attempt"} /\ note.at \in Nat
    BY <1>3 DEF PublishTypes
  <2> QED BY <1>2, <1>4, <1>8, <1>9, <2>1, <2>2, <2>3 DEF PublishTypes, after
<1>12. Sent'
  <2>1. \A i \in DOMAIN after : \A b \in after[i] : {"round", "findings"} \subseteq DOMAIN b /\ b.round \in 0 .. forge.rounds
    <3> SUFFICES ASSUME NEW i \in DOMAIN after, NEW b \in after[i]
                 PROVE  {"round", "findings"} \subseteq DOMAIN b /\ b.round \in 0 .. forge.rounds
      OBVIOUS
    <3>1. PICK c \in d[i] : b = c \/ b = named(c)
      BY <1>9
    <3>2. {"round", "findings"} \subseteq DOMAIN c /\ c.round \in 0 .. forge.rounds /\ i \in DOMAIN d
      BY <1>3, <1>9 DEF Sent
    <3>3. named(c).round = c.round /\ {"round", "findings"} \subseteq DOMAIN named(c)
      BY <1>6, <3>2
    <3> QED BY <3>1, <3>2, <3>3
  <2> QED BY <1>3, <1>8, <2>1 DEF Sent, after
<1>13. OwnBoard'
  <2>1. \A i \in DOMAIN d : after[i] = {} <=> d[i] = {}
    BY <1>9
  <2>2. BoardsIn(after) = BoardsIn(d)
    BY <1>9, <2>1 DEF BoardsIn
  <2> QED BY <1>2, <1>3, <1>9, <1>10, <2>2 DEF OwnBoard, after
<1>14. BoardThere => BoardThere'
  <2> SUFFICES ASSUME BoardThere PROVE \E i \in DOMAIN after : \E b \in after[i] : b.round = forge.rounds /\ b.findings = result.findings
    BY <1>2, <1>8 DEF BoardThere, after
  <2>1. PICK i \in DOMAIN d : \E b \in d[i] : b.round = forge.rounds /\ b.findings = result.findings
    BY DEF BoardThere
  <2>2. PICK b \in d[i] : b.round = forge.rounds /\ b.findings = result.findings
    BY <2>1
  <2>3. named(b).round = forge.rounds /\ named(b).findings = result.findings
    BY <1>6, <2>2
  <2> QED BY <1>9, <2>2, <2>3
<1> DEFINE n == Len(plan.selected)
<1>15. n \in Nat /\ DOMAIN plan.selected = 1 .. n /\ note.at = n + 1
  <2>1. n \in Nat /\ DOMAIN plan.selected = 1 .. n
    BY <1>3, SeqDomain DEF Accounted
  <2>2. note.at \in 1 .. n + 1
    BY <1>3 DEF Underway
  <2> QED BY <1>2, <2>1, <2>2
<1>16. MyNotes' = MyNotes /\ MyPlaces' = MyPlaces
  BY <1>8 DEF MyNotes, MyPlaces
<1>17. Finished'
  <2>1. \A p \in DOMAIN plan.selected : Delivered(p)
    <3>1. \A p \in 1 .. note.at - 1 : Delivered(p)
      BY <1>3 DEF Underway
    <3> QED BY <1>15, <3>1
  <2>2. \A p \in DOMAIN plan.selected : Delivered(p)'
    BY <1>4, <1>16, <2>1 DEF Delivered
  <2>3. summary.posted + Len(summary.failed) = n
    <3>1. summary.posted + Len(summary.failed) = note.at - 1
      BY <1>3 DEF Underway
    <3> QED BY <1>15, <3>1
  <2>4. (\A p \in MyPlaces : p \in DOMAIN plan.selected) /\ (summary.errors = 0 => BoardThere)
    BY <1>3 DEF Underway
  <2> QED BY <1>2, <1>4, <1>14, <1>16, <2>2, <2>3, <2>4 DEF Finished
<1>18. Cardinality(MyNotes') <= Cardinality(MyPlaces') + forge'.lost
  <2>1. \A p \in MyPlaces : p \in 1 .. n
    BY <1>3, <1>15 DEF Underway
  <2>2. /\ Cardinality(Below(MyPlaces, note.at)) \in Nat /\ Cardinality(MyPlaces) \in Nat
        /\ Cardinality(Below(MyPlaces, note.at)) <= Cardinality(MyPlaces)
    BY <1>15, <2>1, BelowFinite
  <2>3. Cardinality(MyNotes) <= Cardinality(Below(MyPlaces, note.at)) + forge.lost
    BY <1>3 DEF Underway
  <2>4. Cardinality(MyNotes) \in Nat
    <3>1. IsSeq(forge.notes)
      BY <1>3 DEF PublishTypes
    <3> QED BY <3>1, MineFinite DEF MyNotes
  <2>5. forge.lost \in Nat
    BY <1>3 DEF PublishTypes
  <2> QED BY <1>8, <1>16, <2>2, <2>3, <2>4, <2>5
<1>19. summary'.outcome # "refused"
  BY <1>4
<1> QED BY <1>2, <1>3, <1>8, <1>11, <1>12, <1>13, <1>17, <1>18, <1>19 DEF PublishInv

\* The passes leave the merge request alone, and a round that is published again begins
\* with what is there.
LEMMA PublishKept ==
  ASSUME PublishInv, UNCHANGED <<input, publishVars>>,
         pc \notin {"board", "inline"}, pc' \notin {"board", "inline", "done"}
  PROVE  PublishInv'
<1>1. forge' = forge /\ plan' = plan /\ note' = note /\ summary' = summary /\ input' = input
  BY DEF publishVars
<1>2. PublishTypes' /\ Sent' /\ OwnBoard'
  BY <1>1 DEF PublishInv, PublishTypes, Sent, OwnBoard, BoardsIn
<1>3. MyNotes' = MyNotes /\ MyPlaces' = MyPlaces
  BY <1>1 DEF MyNotes, MyPlaces
<1> QED BY <1>1, <1>2, <1>3 DEF PublishInv

LEMMA PublishStep == ASSUME PassInv, PublishInv, [RoundNext]_roundVars PROVE PublishInv'
<1>1. CASE Passes
  <2>1. UNCHANGED <<input, publishVars>> /\ pc \notin {"board", "inline"} /\ pc' \notin {"board", "inline", "done"}
    <3>1. CASE Collect \/ VerifyOneBatch \/ DropMarked
      BY <3>1 DEF Collect, VerifyOneBatch, DropMarked
    <3>2. CASE ApplyFeedbackFilter \/ Consolidate \/ PrefetchGroundTruth
      BY <3>2 DEF ApplyFeedbackFilter, Consolidate, PrefetchGroundTruth
    <3>3. CASE AdjudicateOneBatch \/ ApplyRulings \/ RefreshAssessment
      BY <3>3 DEF AdjudicateOneBatch, ApplyRulings, RefreshAssessment
    <3> QED BY <1>1, <3>1, <3>2, <3>3 DEF Passes
  <2> QED BY <2>1, PublishKept
<1>2. CASE PublishAgain
  <2>1. UNCHANGED <<input, publishVars>> /\ pc = "done" /\ pc' = "plan"
    BY <1>2 DEF PublishAgain
  <2> QED BY <2>1, PublishKept
<1>3. CASE UNCHANGED roundVars
  <2>1. forge' = forge /\ plan' = plan /\ note' = note /\ summary' = summary /\ input' = input /\ pc' = pc /\ result' = result
    BY <1>3 DEF roundVars
  <2>2. PublishTypes' = PublishTypes /\ Sent' = Sent /\ Unsent' = Unsent /\ OwnBoard' = OwnBoard
    BY <2>1 DEF PublishTypes, Sent, Unsent, OwnBoard
  <2>3. MyNotes' = MyNotes /\ MyPlaces' = MyPlaces /\ BoardThere' = BoardThere
    BY <2>1 DEF MyNotes, MyPlaces, BoardThere
  <2>4. \A p : Delivered(p)' = Delivered(p)
    BY <2>1, <2>3 DEF Delivered
  <2>5. Underway' = Underway /\ Finished' = Finished
    BY <2>1, <2>3, <2>4 DEF Underway, Finished
  <2> QED BY <2>1, <2>2, <2>3, <2>5 DEF PublishInv
<1> QED BY <1>1, <1>2, <1>3, PlanStep, BoardStep, PostStep, FinishStep DEF RoundNext

LEMMA PublishImplies == ASSUME PassInv, PublishInv PROVE PublicationIsTruthful
<1>1. Mine = MyNotes /\ Placed = MyPlaces
  BY DEF Mine, Placed, MyNotes, MyPlaces, MineIn, PlacedIn
<1>2. PublishTypes /\ Sent /\ OwnBoard /\ IsInjective(forge.refused) /\ input \in Rounds
  BY DEF PublishInv, PassInv
<1>3. NoNeedlessRepeat
  <2>1. CASE pc # "inline"
    BY <1>1, <1>2, <2>1 DEF NoNeedlessRepeat, PublishInv
  <2>2. CASE pc = "inline"
    <3>1. Underway /\ Accounted(plan)
      BY <2>2 DEF PublishInv
    <3> DEFINE n == Len(plan.selected)
    <3>2. n \in Nat /\ \A p \in MyPlaces : p \in 1 .. n
      BY <3>1, SeqDomain DEF Underway, Accounted
    <3>3. /\ Cardinality(Below(MyPlaces, note.at)) \in Nat /\ Cardinality(MyPlaces) \in Nat
          /\ Cardinality(Below(MyPlaces, note.at)) <= Cardinality(MyPlaces)
      BY <3>2, BelowFinite
    <3>4. Cardinality(MyNotes) <= Cardinality(Below(MyPlaces, note.at)) + forge.lost
      BY <3>1 DEF Underway
    <3>5. Cardinality(MyNotes) \in Nat
      BY <1>2, MineFinite DEF MyNotes, PublishTypes
    <3>6. Cardinality(MyNotes) <= Cardinality(MyPlaces) + forge.lost
      BY <1>2, <3>3, <3>4, <3>5 DEF PublishTypes
    <3> QED BY <1>1, <1>2, <3>6 DEF NoNeedlessRepeat
  <2> QED BY <2>1, <2>2
<1>4. OneBoard
  <2> SUFFICES ASSUME input.crowd < PageSize PROVE Cardinality(BoardsIn(forge.discussions)) <= 1
    BY DEF OneBoard
  <2>1. /\ Len(forge.discussions) \in {input.crowd, input.crowd + 1}
        /\ BoardsIn(forge.discussions) = {i \in DOMAIN forge.discussions : i > input.crowd}
    BY <1>2 DEF OwnBoard
  <2>2. DOMAIN forge.discussions = 1 .. Len(forge.discussions) /\ input.crowd \in Nat
    BY <1>2, SeqDomain, RoundAssumption DEF PublishTypes, RoundAssumption
  <2>3. BoardsIn(forge.discussions) \in SUBSET {input.crowd + 1}
    BY <2>1, <2>2
  <2>4. IsFiniteSet({input.crowd + 1}) /\ Cardinality({input.crowd + 1}) = 1
    BY FS_Singleton
  <2> QED BY <2>3, <2>4, FS_Subset
<1>5. RefusedSendsNothing
  <2> SUFFICES ASSUME pc = "done", summary.outcome = "refused"
               PROVE  /\ \A n \in ToSet(forge.notes) : n.round < forge.rounds
                      /\ \A b \in UNION ToSet(forge.discussions) : b.round < forge.rounds
    BY DEF RefusedSendsNothing
  <2>1. Unsent /\ forge.rounds \in Nat
    BY <1>2 DEF PublishInv, PublishTypes
  <2>2. \A i \in DOMAIN forge.notes : forge.notes[i].round < forge.rounds
    BY <1>2, <2>1 DEF Sent, Unsent
  <2>3. \A i \in DOMAIN forge.discussions : \A b \in forge.discussions[i] : b.round < forge.rounds
    BY <1>2, <2>1 DEF Sent, Unsent
  <2> QED BY <2>2, <2>3 DEF ToSet
<1>6. pc = "done" /\ summary.outcome # "refused" => Accounted(plan) /\ Finished
  BY DEF PublishInv
<1>7. SuccessIsComplete
  <2> SUFFICES ASSUME pc = "done", summary.outcome = "ok"
               PROVE  /\ Placed = DOMAIN plan.selected
                      /\ \E b \in UNION ToSet(forge.discussions) : b.round = forge.rounds /\ b.findings = result.findings
    BY DEF SuccessIsComplete
  <2>1. Finished /\ summary.failed = <<>> /\ ~(summary.errors > 0)
    BY <1>6 DEF Finished
  <2>2. summary.errors = 0 /\ DOMAIN summary.failed = {}
    BY <1>2, <2>1 DEF PublishTypes
  <2>3. Placed = DOMAIN plan.selected
    BY <1>1, <2>1, <2>2 DEF Finished, Delivered
  <2>4. BoardThere
    BY <2>1, <2>2 DEF Finished
  <2> QED BY <2>3, <2>4 DEF BoardThere, ToSet
<1>8. FailureIsNamed
  BY <1>1, <1>6 DEF FailureIsNamed, Finished, Delivered
<1>9. CountersAddUp
  <2> SUFFICES ASSUME pc = "done", summary.outcome # "refused"
               PROVE  plan.considered = plan.excluded + plan.not_eligible + plan.skipped + Len(plan.rolled_up)
                                          + summary.posted + Len(summary.failed)
    BY DEF CountersAddUp
  <2>1. /\ plan.considered = plan.excluded + plan.not_eligible + plan.skipped + Len(plan.rolled_up) + Len(plan.selected)
        /\ summary.posted + Len(summary.failed) = Len(plan.selected)
        /\ plan.excluded \in Nat /\ plan.not_eligible \in Nat /\ plan.skipped \in Nat /\ Len(plan.rolled_up) \in Nat
    BY <1>6 DEF Accounted, Finished
  <2>2. summary.posted \in Nat /\ Len(summary.failed) \in Nat
    BY <1>2, SeqDomain DEF PublishTypes
  <2> QED BY <2>1, <2>2
<1> QED BY <1>3, <1>4, <1>5, <1>7, <1>8, <1>9 DEF PublicationIsTruthful

\* What publish_review_with_diff says of a publication is true of the merge request, for any
\* findings and whatever the calls of the forge do: a note is repeated only for an answer
\* that was lost, there is one board, a refused text sends nothing, success means that
\* everything arrived, a failure is named and the counters add up.
THEOREM TruthfulAlways == RoundSpec => []PublicationIsTruthful
<1>1. RoundInit => PassInv /\ PublishInv
  BY PassInit, PublishInit
<1>2. PassInv /\ PublishInv /\ [RoundNext]_roundVars => PassInv' /\ PublishInv'
  BY PassStep, PublishStep
<1> QED BY <1>1, <1>2, PublishImplies, PTL DEF RoundSpec
=============================================================================
