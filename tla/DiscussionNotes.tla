-------------------------- MODULE DiscussionNotes ---------------------------
(* The discussion of a merge request as a reviewer is told of it: notes come *)
(* in through hooks that may be late, lost or out of order, or are read from *)
(* the forge when nothing is stored; the engine leaves out its own.          *)
EXTENDS Integers, Sequences, SequencesExt, FiniteSetsExt

CONSTANTS NoteKind,      \* "text", "command", "report" (starts like a board) or "system"
          Author,        \* accounts of the forge
          MaxNotes,      \* bound: notes posted
          MaxVersions,   \* bound: versions of one note
          MaxContext,    \* notes that fit into the section
          MaxLookupFails,\* bound: failing calls of the forge
          MaxRotations   \* bound: changes of the account behind the token

VARIABLES forgeNotes,   \* number -> [kind, author, version]; the number orders the notes
          noteHooks,    \* hooks on their way
          noteRows,     \* the stored notes: number -> [kind, author, version]
          account,      \* the account the token belongs to
          selfUserId,   \* the cached account, per process and platform: a set of at most one
          section,      \* the last context given to a reviewer
          notesPast     \* what happened: [fails, rotations, complete]
notesVars == <<forgeNotes, noteHooks, noteRows, account, selfUserId, section, notesPast>>

NotesInit ==
  /\ forgeNotes = <<>> /\ noteHooks = {} /\ noteRows = [n \in {} |-> 0]
  /\ account \in Author /\ selfUserId = {} /\ section = {}
  /\ notesPast = [fails |-> 0, rotations |-> 0, blind |-> FALSE]

(* ------------------------------- the forge --------------------------------- *)
PostNote ==
  /\ Len(forgeNotes) < MaxNotes
  /\ \E kind \in NoteKind, a \in Author :
       /\ kind = "report" => a = account
       /\ forgeNotes' = Append(forgeNotes, [kind |-> kind, author |-> a, version |-> 1])
       /\ noteHooks' = noteHooks \cup {[note |-> Len(forgeNotes) + 1, version |-> 1]}
  /\ UNCHANGED <<noteRows, account, selfUserId, section, notesPast>>

EditNote(n) ==
  /\ forgeNotes[n].version < MaxVersions
  /\ forgeNotes' = [forgeNotes EXCEPT ![n].version = @ + 1]
  /\ noteHooks' = noteHooks \cup {[note |-> n, version |-> forgeNotes[n].version + 1]}
  /\ UNCHANGED <<noteRows, account, selfUserId, section, notesPast>>

LoseHook(h) == noteHooks' = noteHooks \ {h}
               /\ UNCHANGED <<forgeNotes, noteRows, account, selfUserId, section, notesPast>>

RotateToken ==
  /\ notesPast.rotations < MaxRotations /\ account' \in Author \ {account}
  /\ notesPast' = [notesPast EXCEPT !.rotations = @ + 1, !.blind = TRUE]
  /\ UNCHANGED <<forgeNotes, noteHooks, noteRows, selfUserId, section>>

(* ------------------------------- the engine -------------------------------- *)
\* The account is looked up once; a failure is not remembered and answers nothing.
Lookups == (IF selfUserId # {} THEN {selfUserId} ELSE {{account}})
             \cup (IF selfUserId = {} /\ notesPast.fails < MaxLookupFails THEN {{}} ELSE {})

\* A command is always a part of the discussion; the engine's own boards and notes are not.
\* Fault: boards are recognised by their author only.
KeepsBoards(kind, author, self) == kind # "system" /\ (kind = "command" \/ author \notin self)
BelongsHere(kind, author, self) ==
  kind # "system" /\ (kind = "command" \/ (kind # "report" /\ author \notin self))

\* A stored note keeps its number and its time, the rest is overwritten.
UpsertNote(stored, n, note) == [k \in DOMAIN stored \cup {n} |-> IF k = n THEN note ELSE stored[k]]

Looked(self) ==
  /\ selfUserId' = IF self = {} THEN selfUserId ELSE self
  /\ notesPast' = [notesPast EXCEPT !.fails = @ + (IF self = {} THEN 1 ELSE 0), !.blind = @ \/ self = {}]

\* A hook carries the text of its moment, so an old one overwrites a newer text.
IngestNote(h) ==
  LET note == [forgeNotes[h.note] EXCEPT !.version = h.version]
      needed == note.kind \in {"text"}
  IN /\ h \in noteHooks /\ noteHooks' = noteHooks \ {h}
     /\ \E self \in (IF needed THEN Lookups ELSE {selfUserId}) :
          /\ noteRows' = IF BelongsHere(note.kind, note.author, self)
                           THEN UpsertNote(noteRows, h.note, note) ELSE noteRows
          /\ IF needed THEN Looked(self) ELSE UNCHANGED <<selfUserId, notesPast>>
     /\ UNCHANGED <<forgeNotes, account, section>>

\* In the order they were written; a discussion that does not fit is left out as a whole.
RenderContext(notes) ==
  LET order == SetToSortSeq(DOMAIN notes, <)
  IN IF Len(order) = 0 \/ Len(order) > MaxContext THEN {}
     ELSE {[i \in DOMAIN order |-> <<order[i], notes[order[i]]>>]}

\* Anything stored is taken as the discussion; only an empty store asks the forge, keeps
\* what it answers and goes on without a discussion when it does not answer.
LoadFromStore ==
  /\ DOMAIN noteRows # {}
  /\ section' = RenderContext(noteRows)
  /\ UNCHANGED <<forgeNotes, noteHooks, noteRows, account, selfUserId, notesPast>>

FetchNotesViaApi ==
  /\ DOMAIN noteRows = {}
  /\ \E self \in Lookups :
       LET kept == {n \in DOMAIN forgeNotes : BelongsHere(forgeNotes[n].kind, forgeNotes[n].author, self)}
       IN /\ noteRows' = [n \in kept |-> forgeNotes[n]]
          /\ section' = RenderContext(noteRows')
          /\ Looked(self)
  /\ UNCHANGED <<forgeNotes, noteHooks, account>>

FetchFailsToAnswer ==
  /\ DOMAIN noteRows = {} /\ notesPast.fails < MaxLookupFails
  /\ notesPast' = [notesPast EXCEPT !.fails = @ + 1]
  /\ section' = {}
  /\ UNCHANGED <<forgeNotes, noteHooks, noteRows, account, selfUserId>>

NotesNext ==
  \/ PostNote \/ RotateToken \/ LoadFromStore \/ FetchNotesViaApi \/ FetchFailsToAnswer
  \/ \E n \in DOMAIN forgeNotes : EditNote(n)
  \/ \E h \in noteHooks : LoseHook(h) \/ IngestNote(h)

(* ------------------------------- properties -------------------------------- *)
\* The engine never reads its own words: no board reaches the store whatever happens, and
\* its other notes only when the account behind the token could not be told.  Everything
\* stored was written on the forge.
NoSelfTalk ==
  \A n \in DOMAIN noteRows :
    /\ n \in DOMAIN forgeNotes /\ noteRows[n].version <= forgeNotes[n].version
    /\ noteRows[n].kind \notin {"system", "report"}
    /\ noteRows[n].kind = "text" /\ ~notesPast.blind => noteRows[n].author # account

\* A section holds the notes in the order they were written, none twice.
SectionIsOrdered ==
  \A s \in section : Len(s) <= MaxContext /\ \A i, k \in DOMAIN s : i < k => s[i][1] < s[k][1]
DiscussionIsClean == NoSelfTalk /\ SectionIsOrdered

-----------------------------------------------------------------------------
(***************************************************************************)
(* Verdicts of users on findings: POST /feedback and its statistics        *)
(* (server/api/feedback.rs) over the store behind them (feedback.rs).      *)
(***************************************************************************)

CONSTANTS
  FeedbackBody,       \* bodies: [print, place, verdict, category], options as sets
  MaxFeedback, MaxFeedbackFaults

VARIABLES
  entries,            \* FeedbackStore::entries
  feedbackFile,       \* the JSON file
  feedbackHistory     \* entries answered with 200, faults so far, entries a bad read hid

feedbackVars == <<entries, feedbackFile, feedbackHistory>>

FeedbackInit ==
  /\ entries = <<>> /\ feedbackFile = <<>>
  /\ feedbackHistory = [acked |-> <<>>, faults |-> 0, hidden |-> {}]

\* submit_feedback: a verdict, and a fingerprint or the place to compute it from.
Accepted(body) == body.verdict # {} /\ (body.print # {} \/ body.place # {})
FingerprintOf(body) == IF body.print # {} THEN body.print ELSE body.place

Feedback(body) ==
  [print |-> FingerprintOf(body), verdict |-> body.verdict, category |-> body.category,
   at |-> Len(entries) + Len(feedbackHistory.acked)]

Fault(by) == feedbackHistory' = [feedbackHistory EXCEPT !.faults = @ + by]

\* Fault: only the new entry is written.
SubmitAlone(body) ==
  /\ Accepted(body) /\ Len(entries) < MaxFeedback
  /\ entries' = Append(entries, Feedback(body))
  /\ \/ /\ feedbackFile' = <<Feedback(body)>>
        /\ feedbackHistory' = [feedbackHistory EXCEPT !.acked = Append(@, Feedback(body))]
     \/ /\ feedbackHistory.faults < MaxFeedbackFaults
        /\ UNCHANGED feedbackFile /\ Fault(1)

\* record, under the lock: the entry joins the list, then the whole list replaces the
\* file.  When the write fails the request is answered with an error, and the entry stays
\* in the list.
SubmitFeedback(body) ==
  /\ Accepted(body) /\ Len(entries) < MaxFeedback
  /\ entries' = Append(entries, Feedback(body))
  /\ \/ /\ feedbackFile' = entries'
        /\ feedbackHistory' = [feedbackHistory EXCEPT !.acked = Append(@, Feedback(body))]
     \/ /\ feedbackHistory.faults < MaxFeedbackFaults
        /\ UNCHANGED feedbackFile /\ Fault(1)

\* load_entries: a file that cannot be read or parsed is taken for an empty one.
LoadEntries(readable) == IF readable THEN feedbackFile ELSE <<>>

\* with_path; the next write replaces a file that was not read.
RestartFeedback ==
  \/ entries' = LoadEntries(TRUE) /\ UNCHANGED <<feedbackFile, feedbackHistory>>
  \/ /\ feedbackHistory.faults < MaxFeedbackFaults
     /\ entries' = LoadEntries(FALSE)
     /\ feedbackHistory' = [feedbackHistory EXCEPT !.faults = @ + 1, !.hidden = @ \cup ToSet(feedbackFile)]
     /\ UNCHANGED feedbackFile

FeedbackNext == (\E body \in FeedbackBody : SubmitFeedback(body)) \/ RestartFeedback

-----------------------------------------------------------------------------
\* stats: totals, and the same per category (an entry without one is "unknown").
CategoryOf(entry) == IF entry.category = {} THEN "unknown" ELSE CHOOSE c \in entry.category : TRUE
CountOf(es, verdict) == Len(SelectSeq(es, LAMBDA x : x.verdict = {verdict}))
CategoryStats(es) ==
  [total |-> Len(es), useful |-> CountOf(es, "useful"), false_positive |-> CountOf(es, "false_positive")]
Stats ==
  [all |-> CategoryStats(entries),
   by_category |-> [c \in {CategoryOf(x) : x \in ToSet(entries)} |->
                      CategoryStats(SelectSeq(entries, LAMBDA x : CategoryOf(x) = c))]]

\* A verdict that was accepted is in the list and in the file until the file could not be
\* read; one in the file is never lost by another write; the statistics add up.
FeedbackIsKept ==
  /\ ToSet(feedbackHistory.acked) \subseteq ToSet(feedbackFile) \cup feedbackHistory.hidden
  /\ ToSet(feedbackHistory.acked) \subseteq ToSet(entries) \cup feedbackHistory.hidden
  /\ LET s == Stats IN
     /\ s.all.total = s.all.useful + s.all.false_positive
     /\ s.all.total = MapThenSumSet(LAMBDA c : s.by_category[c].total, DOMAIN s.by_category)
     /\ \A c \in DOMAIN s.by_category : s.by_category[c].total > 0

=============================================================================
