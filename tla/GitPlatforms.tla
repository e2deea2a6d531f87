---------------------------- MODULE GitPlatforms ----------------------------
(***************************************************************************)
(* The git platform entries of PUT /api/v1/config: which stored entry a    *)
(* submitted one is about (resolve_git_platforms in config/put.rs), the    *)
(* table that keeps them (store/sqlx.rs, migrations/0001_init.sql) and the *)
(* replay of that table at startup.  A token stands for the three secrets  *)
(* of an entry, which are resolved alike; valid says whether type and URLs *)
(* pass the checks.                                                        *)
(***************************************************************************)
EXTENDS LlmSection, SequencesExt

CONSTANTS
  Submission,   \* the arrays a client may submit
  NewId,        \* ids that Uuid::new_v4 returns, in order: as many as MaxSaves can use
  IdsFromGet,   \* whether clients only send ids that GET /config gave out
  MaxSaves,      \* bound: saves
  MaxReboots   \* bound: reboots

ASSUME PlatformAssumption ==
  /\ NewId \in Seq(STRING) /\ IsInjective(NewId)
  /\ IdsFromGet \in BOOLEAN
  /\ MaxSaves \in Nat /\ MaxReboots \in Nat

VARIABLES
  platforms,      \* AppState::git_platforms
  table,      \* the table git_platforms
  pending,   \* the save between its publication and its transaction, none or one
  refused,   \* the last transaction failed: the client was answered 500
  minted,    \* how many ids were generated
  saves, reboots

platformVars == <<platforms, table, pending, refused, minted, saves, reboots>>

Clear == "clear"      \* CLEAR_SECRET_SENTINEL
Malformed == "bad"    \* any id that is not a UUID

WellFormed(id) == id \notin {Blank, Malformed}

\* The first stored entry with this id, else with this name; at most one.
Matching(stored, id, name) ==
  LET byId   == {i \in DOMAIN stored : stored[i].id = id}
      byName == {i \in DOMAIN stored : stored[i].name = name}
      lead(S) == {stored[CHOOSE i \in S : \A j \in S : i <= j]}
  IN  IF WellFormed(id) /\ byId # {} THEN lead(byId)
      ELSE IF byName # {} THEN lead(byName) ELSE {}

Kept(stored, p) == Matching(stored, p.id, p.name)

Token(p, kept) ==
  IF p.token = Clear THEN Blank
  ELSE IF p.token \in {Blank, Mask}
       THEN IF kept = {} THEN Blank ELSE (CHOOSE e \in kept : TRUE).token
  ELSE p.token

IdOf(p, kept, n) ==
  IF WellFormed(p.id) THEN p.id
  ELSE IF kept # {} THEN (CHOOSE e \in kept : TRUE).id
  ELSE NewId[n + 1]

Mints(p, kept) == ~WellFormed(p.id) /\ kept = {}

\* The identity the submission carries: its id, or its name when it has none.
SubKey(p) == IF p.id = Blank THEN <<FALSE, p.name>> ELSE <<TRUE, p.id>>

\* One round of the loop: a later entry with the same identity replaces the earlier one.
TakeEntry(stored, acc, p) ==
  LET kept  == Kept(stored, p)
      entry == [id |-> IdOf(p, kept, acc.minted), name |-> p.name, token |-> Token(p, kept)]
      at    == {i \in DOMAIN acc.keys : acc.keys[i] = SubKey(p)}
      count == acc.minted + IF Mints(p, kept) THEN 1 ELSE 0
  IN  IF p.name = Blank THEN acc
      ELSE IF at # {}
      THEN [set |-> [i \in DOMAIN acc.set |-> IF i \in at THEN entry ELSE acc.set[i]],
            keys |-> acc.keys, minted |-> count]
      ELSE [set |-> Append(acc.set, entry), keys |-> Append(acc.keys, SubKey(p)), minted |-> count]

ResolveGitPlatforms(submitted, stored, n) ==
  FoldLeft(LAMBDA acc, p : TakeEntry(stored, acc, p),
           [set |-> <<>>, keys |-> <<>>, minted |-> n], submitted)

\* An invalid entry rejects the whole update with 422 before anything is published.
Acceptable(submitted) == \A i \in DOMAIN submitted : submitted[i].name = Blank \/ submitted[i].valid

\* What a client may send: without IdsFromGet, any id.
Sendable(submitted) ==
  IdsFromGet => \A p \in ToSet(submitted) : WellFormed(p.id) => \E e \in ToSet(platforms) : e.id = p.id

PutPlatforms(submitted) ==
  /\ pending = {} /\ saves < MaxSaves
  /\ Sendable(submitted) /\ Acceptable(submitted)
  /\ LET r == ResolveGitPlatforms(submitted, platforms, minted)
     IN  /\ platforms' = r.set
         /\ minted' = r.minted
  /\ pending' = {submitted}
  /\ saves' = saves + 1
  /\ UNCHANGED <<table, refused, reboots>>

RejectPlatforms(submitted) ==
  /\ pending = {} /\ saves < MaxSaves
  /\ ~Acceptable(submitted)
  /\ saves' = saves + 1
  /\ UNCHANGED <<platforms, table, pending, refused, minted, reboots>>

\* The table: id is its primary key and name is UNIQUE.
Storable(entries) ==
  \A i, j \in DOMAIN entries :
    i # j => entries[i].id # entries[j].id /\ entries[i].name # entries[j].name

\* replace_git_platforms_in: DELETE and INSERT in one transaction, rolled back as a whole.
SavePlatforms ==
  /\ pending # {}
  /\ table' = IF Storable(platforms) THEN ToSet(platforms) ELSE table
  /\ refused' = ~Storable(platforms)
  /\ pending' = {}
  /\ UNCHANGED <<platforms, minted, saves, reboots>>

\* Fault: the replay leaves the ids out.
AsNamelessSubmission(row) == [id |-> Blank, name |-> row.name, token |-> row.token, valid |-> TRUE]

\* A row read back is a submission that carries its secrets.
AsSubmission(row) == [id |-> row.id, name |-> row.name, token |-> row.token, valid |-> TRUE]

\* The replay feeds the table into an empty set, in whatever order their names sort.
RestartPlatforms ==
  /\ reboots < MaxReboots /\ reboots' = reboots + 1
  /\ \E order \in SetToSeqs(table) :
       LET r == ResolveGitPlatforms([i \in DOMAIN order |-> AsSubmission(order[i])], <<>>, minted)
       IN  platforms' = r.set /\ minted' = r.minted
  /\ pending' = {} /\ refused' = FALSE
  /\ UNCHANGED <<table, saves>>

PlatformsInit == /\ platforms = <<>> /\ table = {} /\ pending = {} /\ refused = FALSE
        /\ minted = 0 /\ saves = 0 /\ reboots = 0

PlatformsNext == \/ \E s \in Submission : PutPlatforms(s) \/ RejectPlatforms(s)
        \/ SavePlatforms \/ RestartPlatforms

-----------------------------------------------------------------------------
\* Two entries of a submission that stand for one stored entry, or share a name.  The code
\* takes both: an entry without an id that takes the former name of one renamed in the same
\* array adopts that one's id and token, and two entries with ids may share a name, which the
\* table refuses.
Clash(submitted, stored) ==
  \E p, q \in {r \in ToSet(submitted) : r.name # Blank} :
    /\ SubKey(p) # SubKey(q)
    /\ p.name = q.name \/ Kept(stored, p) \cap Kept(stored, q) # {}

TokensAreNotShared(entries) ==
  \A i, j \in DOMAIN entries : entries[i].token = entries[j].token /\ entries[i].token # Blank => i = j

\* A save whose entries do not clash leaves entries of distinct ids and names, with tokens of
\* their own, if it found them so: whatever it renames, swaps, adds or clears, no entry gets
\* the identity or the token of another.
SaveKeepsApart ==
  [][pending = {} => \A s \in pending' :
       ~Clash(s, platforms) /\ Storable(platforms) =>
         /\ Storable(platforms')
         /\ TokensAreNotShared(platforms) => TokensAreNotShared(platforms')]_platformVars

\* Only a clash is refused by the table, and what was stored then stays: a restart brings
\* back the stored entries with their ids and their tokens, and after it they are apart.
RestartKeepsPlatforms ==
  [][reboots' # reboots => ToSet(platforms') = table /\ Storable(platforms')]_platformVars

\* Renaming a platform, with the id that GET /config gave out, keeps its token whatever
\* else the same array does, a clash included.
RenameKeepsToken ==
  [][pending = {} /\ Storable(platforms) => \A s \in pending' : \A p \in ToSet(s), e \in ToSet(platforms) :
       p.id = e.id /\ p.token = Mask
         => \E f \in ToSet(platforms') : f.id = p.id /\ f.name = p.name /\ f.token = e.token]_platformVars

\* Unless a submission names one entry twice, an entry keeps its id and its token, which no
\* other one gets, through any series of saves, renames and restarts.
EntriesKeepIdentity == SaveKeepsApart /\ RestartKeepsPlatforms /\ RenameKeepsToken
=============================================================================
