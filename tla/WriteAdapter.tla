---------------------------- MODULE WriteAdapter ----------------------------
(***************************************************************************)
(* The local mutations of src/core/notesnook-write-adapter.ts as the sagas  *)
(* they are: a call issues several mutators of the database, each of which  *)
(* may be refused upstream; when one is, the adapter issues the inverse of  *)
(* those that went through, and records in the recovery journal             *)
(* (src/core/notesnook-recovery-journal.ts) what it could not undo.         *)
(*                                                                         *)
(* Calls run under the exclusive side of the database gate, one at a time;  *)
(* so the relation calls of one tag rewrite are one step here, and so are   *)
(* the inverses of one compensation.  A mutator that is refused is taken to *)
(* have changed nothing.                                                    *)
(***************************************************************************)
EXTENDS Naturals, FiniteSets

CONSTANTS
  Notes, Notebooks, Tags, Values,
  Initial,        \* the value that titles and bodies have at the start
  None,           \* a field that a patch does not have
  Shelf,          \* the notebooks an existing note is in at the start
  Existing,       \* the notes that exist at the start
  Reattach,       \* may a patch name a notebook the note is in already?
  Offered,        \* the patches that callers send
  JournalFails,   \* may the journal's storage fail?
  JournalMax,     \* MAX_PENDING_MARKERS of the recovery journal
  CallBound       \* bound: calls made

ASSUME NoneAssumption == None \notin Notes \cup Notebooks \cup Tags \cup Values
ASSUME InitialAssumption ==
  Initial \in Values /\ Shelf \subseteq Notebooks /\ Existing \subseteq Notes
ASSUME SwitchAssumption == Reattach \in BOOLEAN /\ JournalFails \in BOOLEAN
ASSUME BoundsAssumption == JournalMax \in Nat /\ CallBound \in Nat

VARIABLES
  rows,      \* the database
  job,       \* the call in progress
  journal,   \* the recovery journal
  verdict,   \* how the last call ended
  shown,     \* history: every revision a reader could see, with its body
  torn,      \* history: notes a call left half done with no marker, for the
             \* process died or the journal's storage failed
  calls

vars == <<rows, job, journal, verdict, shown, torn, calls>>

Row == [state : {"absent", "live", "trashed"}, revision : Nat, meta : Values,
        books : SUBSET Notebooks, tags : SUBSET Tags, body : Values]

\* The fields of a command.  `tagged` says that it has tags.
Patch == [meta : Values \cup {None}, book : Notebooks \cup {None},
          tagged : BOOLEAN, tags : SUBSET Tags, body : Values \cup {None}]

Operations == {"create", "append", "update", "delete"}
Stages == {"create-notebook-attach", "create-tag-relation", "append-date",
           "update-content", "update-tags", "update-metadata"}
Marker == [operation : Operations, noteId : Notes, stage : Stages]

Steps == {"add", "metadata", "book", "tags", "body", "touch", "trash", "undo"}

\* A call and the progress its saga keeps in locals: the mutators still to
\* come, what the tag rewrite did, whether the notebook was attached and the
\* body written, and, once a mutator was refused, the step it was.
Call == [op : Operations, note : Notes, patch : Patch, before : Row,
         todo : SUBSET Steps, removed : SUBSET Tags, added : SUBSET Tags,
         attached : BOOLEAN, wrote : BOOLEAN, refusedAt : Steps \cup {"nowhere"}]
NoCall == [op |-> "none"]
NoVerdict == [result |-> "none"]

Absent == [state |-> "absent", revision |-> 0, meta |-> Initial, books |-> {},
           tags |-> {}, body |-> Initial]

Init ==
  /\ rows = [n \in Notes |-> IF n \in Existing
                               THEN [Absent EXCEPT !.state = "live", !.books = Shelf]
                               ELSE Absent]
  /\ job = NoCall
  /\ journal = {}
  /\ verdict = NoVerdict
  /\ shown = {}
  /\ torn = {}
  /\ calls = 0

Calling == job # NoCall
Note == rows[job.note]
HasMetadata(p) == p.meta # None \/ p.book # None \/ p.tagged

\* The mutators a command needs.
Needs(op, p) ==
  CASE op = "create" -> {"add"} \cup (IF p.book # None THEN {"book"} ELSE {})
                                \cup (IF p.tags # {} THEN {"tags"} ELSE {})
    [] op = "append" -> {"touch", "body"}
    [] op = "delete" -> {"trash"}
    [] op = "update" -> (IF HasMetadata(p) THEN {"metadata"} ELSE {})
                          \cup (IF p.book # None THEN {"book"} ELSE {})
                          \cup (IF p.tagged THEN {"tags"} ELSE {})
                          \cup (IF p.body # None THEN {"body", "touch"} ELSE {})

\* ... in the order the code issues them: an append touches the note before
\* it writes the body, an update after.
Order(op) ==
  [add |-> 1, trash |-> 1, metadata |-> 2, book |-> 3, tags |-> 4, body |-> 5,
   touch |-> IF op = "append" THEN 1 ELSE 6, undo |-> 7]

IsNext(step) ==
  /\ Calling
  /\ step \in job.todo
  /\ \A s \in job.todo : Order(job.op)[step] <= Order(job.op)[s]

-----------------------------------------------------------------------------
(* Start and end of a call.                                                *)

ASSUME OfferedAssumption == Offered \subseteq Patch

\* Which commands there are: a patch of an update has some field, a create
\* has a title and a body, an append has a body only, a delete nothing.
Sensible(op, n, p) ==
  CASE op = "create" -> p.meta # None /\ p.body # None /\ (p.tagged <=> p.tags # {})
    [] op = "update" -> (HasMetadata(p) \/ p.body # None)
                          /\ (Reattach \/ p.book \notin rows[n].books)
    [] op = "append" -> ~HasMetadata(p) /\ p.body # None
    [] op = "delete" -> ~HasMetadata(p) /\ p.body = None

\* What a reader between two calls sees of the live notes.
Readable == {[note |-> n, revision |-> rows[n].revision, body |-> rows[n].body] :
               n \in {m \in Notes : rows[m].state = "live"}}

\* Every check is read-only and comes before the first mutator: the note was
\* re-read, is neither locked nor conflicted, carries the expected revision,
\* tags and notebook exist, the content was encoded.  A call that fails one
\* of them is refused, which changes nothing.
Starts(op, n, p) ==
  /\ ~Calling
  /\ calls < CallBound
  /\ calls' = calls + 1
  /\ rows[n].state = IF op = "create" THEN "absent" ELSE "live"
  /\ Sensible(op, n, p)
  /\ job' = [op |-> op, note |-> n, patch |-> p, before |-> rows[n],
             todo |-> Needs(op, p), removed |-> {}, added |-> {},
             attached |-> FALSE, wrote |-> FALSE, refusedAt |-> "nowhere"]
  /\ verdict' = NoVerdict
  /\ shown' = shown \cup Readable
  /\ UNCHANGED <<rows, journal, torn>>

Ends(result) ==
  /\ verdict' = [result |-> result, op |-> job.op, note |-> job.note,
                 patch |-> job.patch, before |-> job.before]
  /\ job' = NoCall
  /\ UNCHANGED <<shown, calls>>

\* A mutator went through: the row is now `row`, the saga's locals `progress`.
Applies(step, row, progress) ==
  /\ rows' = [rows EXCEPT ![job.note] = row]
  /\ IF progress.todo = {step}
       THEN Ends("ok")
       ELSE job' = [progress EXCEPT !.todo = @ \ {step}] /\ UNCHANGED <<verdict, shown, calls>>
  /\ UNCHANGED <<journal, torn>>

\* It was refused after others went through: on to the inverses.
Compensate(step, progress) ==
  /\ job' = [progress EXCEPT !.todo = {"undo"}, !.refusedAt = step]
  /\ UNCHANGED <<journal, verdict, shown, torn, calls>>

\* It was refused and there is nothing to undo.
Fails == Ends("failed") /\ UNCHANGED <<rows, journal, torn>>

-----------------------------------------------------------------------------
(* The mutators.                                                           *)

\* notesAdd; notesUpdate; notesDelete.
Adds ==
  /\ IsNext("add")
  /\ \/ Applies("add", [Note EXCEPT !.state = "live", !.meta = job.patch.meta,
                                    !.body = job.patch.body], job)
     \/ Fails

UpdatesMetadata ==
  /\ IsNext("metadata")
  /\ \/ Applies("metadata",
                [Note EXCEPT !.meta = IF job.patch.meta = None THEN @ ELSE job.patch.meta], job)
     \/ Fails

Trashes ==
  /\ IsNext("trash")
  /\ \/ Applies("trash", [Note EXCEPT !.state = "trashed"], job)
     \/ Fails

AttachesUnnoticed ==
  /\ IsNext("book")
  /\ \/ Applies("book", [Note EXCEPT !.books = @ \cup {job.patch.book}], job)
     \/ Compensate("book", job) /\ UNCHANGED rows

\* notebookAddNote.
Attaches ==
  /\ IsNext("book")
  /\ \/ Applies("book", [Note EXCEPT !.books = @ \cup {job.patch.book}],
                [job EXCEPT !.attached = TRUE])
     \/ Compensate("book", job) /\ UNCHANGED rows

RewritesTagsAdding ==
  /\ IsNext("tags")
  /\ \E come \in SUBSET (job.patch.tags \ Note.tags) :
       LET row == [Note EXCEPT !.tags = @ \cup come]
           progress == [job EXCEPT !.added = come]
       IN  \/ come = job.patch.tags \ Note.tags /\ Applies("tags", row, progress)
           \/ /\ Compensate("tags", progress)
              /\ rows' = [rows EXCEPT ![job.note] = row]

\* relationRemove for every tag that is not desired, then relationAdd for
\* every desired tag that is missing.  Refused on the way, some are done.
RewritesTags ==
  /\ IsNext("tags")
  /\ \E gone \in SUBSET (Note.tags \ job.patch.tags), come \in SUBSET (job.patch.tags \ Note.tags) :
       LET row == [Note EXCEPT !.tags = (@ \ gone) \cup come]
           progress == [job EXCEPT !.removed = gone, !.added = come]
       IN  /\ job.op = "create" => gone = {}
           /\ come # {} => Note.tags \ gone \subseteq job.patch.tags
           /\ \/ row.tags = job.patch.tags /\ Applies("tags", row, progress)
              \/ /\ Compensate("tags", progress)
                 /\ rows' = [rows EXCEPT ![job.note] = row]

\* contentUpdateByNoteId.
WritesBody ==
  /\ IsNext("body")
  /\ \/ Applies("body", [Note EXCEPT !.body = job.patch.body], [job EXCEPT !.wrote = TRUE])
     \/ Compensate("body", job) /\ UNCHANGED rows

TouchesByTheClock ==
  /\ IsNext("touch")
  /\ \/ \E now \in {job.before.revision, job.before.revision + 1} :
          Applies("touch", [Note EXCEPT !.revision = now], job)
     \/ IF job.op = "append" THEN Fails ELSE Compensate("touch", job) /\ UNCHANGED rows

\* notesTouch: strictly above the revision the call observed.
Touches ==
  /\ IsNext("touch")
  /\ \/ Applies("touch", [Note EXCEPT !.revision = job.before.revision + 1], job)
     \/ IF job.op = "append" THEN Fails ELSE Compensate("touch", job) /\ UNCHANGED rows

-----------------------------------------------------------------------------
(* The inverses.  `stages` are the recovery stages whose inverse failed.    *)

\* PersistentNotesnookRecoveryJournal.record() under #recordRecovery(): one
\* marker per operation, note and stage, none beyond the bound, and a journal
\* that throws is not the caller's concern.  Ends the call.
Records(stages) ==
  LET owed == {[operation |-> job.op, noteId |-> job.note, stage |-> s] : s \in stages}
  IN  \E kept \in SUBSET owed :
        /\ journal' = journal \cup kept
        /\ kept # {} => Cardinality(journal') <= JournalMax
        /\ \/ owed \subseteq journal' /\ Ends("failed") /\ UNCHANGED torn
           \/ /\ ~(owed \subseteq journal')
              /\ Cardinality(journal') >= JournalMax
              /\ Ends("failed")
              /\ UNCHANGED torn
           \/ /\ ~(owed \subseteq journal')
              /\ JournalFails
              /\ Ends("faulted")
              /\ torn' = torn \cup {job.note}

\* The row after the inverses that were not refused.  `back` are the tags
\* related again, `off` the tags no longer related.
Undone(refused, back, off) ==
  [Note EXCEPT !.body = IF job.wrote /\ "body" \notin refused THEN job.before.body ELSE @,
               !.tags = (@ \cup back) \ off,
               !.books = IF job.attached /\ "book" \notin refused
                           THEN @ \ {job.patch.book} ELSE @,
               !.meta = IF HasMetadata(job.patch) /\ "metadata" \notin refused
                          THEN job.before.meta ELSE @]

\* #compensateUpdateNote(): body, tags, membership, metadata.
CompensatesUpdate ==
  /\ IsNext("undo")
  /\ job.op = "update"
  /\ \E refused \in SUBSET {"body", "book", "metadata"},
        back \in SUBSET job.removed, off \in SUBSET job.added :
       /\ "body" \in refused => job.wrote
       /\ "book" \in refused => job.attached
       /\ "metadata" \in refused => HasMetadata(job.patch)
       /\ rows' = [rows EXCEPT ![job.note] = Undone(refused, back, off)]
       /\ Records((IF "body" \in refused THEN {"update-content"} ELSE {})
                    \cup (IF back # job.removed \/ off # job.added THEN {"update-tags"} ELSE {})
                    \cup (IF {"book", "metadata"} \cap refused # {}
                            THEN {"update-metadata"} ELSE {}))

\* #compensateCreatedNote(): tags, membership, then the note to the trash.
CompensatesCreate ==
  /\ IsNext("undo")
  /\ job.op = "create"
  /\ \E off \in SUBSET job.added, detached \in {job.attached, FALSE}, trashed \in BOOLEAN :
       /\ rows' = [rows EXCEPT ![job.note] =
                     [Note EXCEPT !.tags = @ \ off,
                                  !.books = IF detached THEN @ \ {job.patch.book} ELSE @,
                                  !.state = IF trashed THEN "trashed" ELSE @]]
       /\ Records(IF off = job.added /\ detached = job.attached /\ trashed
                    THEN {}
                    ELSE {IF job.refusedAt = "book"
                            THEN "create-notebook-attach" ELSE "create-tag-relation"})

\* appendNote(): the body was refused, the touch is taken back if the note
\* still carries it.
RestoresDate ==
  /\ IsNext("undo")
  /\ job.op = "append"
  /\ \/ /\ Note.revision = job.before.revision + 1
        /\ rows' = [rows EXCEPT ![job.note].revision = job.before.revision]
        /\ Records({})
     \/ /\ UNCHANGED rows
        /\ Records({"append-date"})

\* The process stops between two mutators.  The locals are gone.
Dies ==
  /\ Calling
  /\ job' = NoCall
  /\ torn' = torn \cup {job.note}
  /\ UNCHANGED <<rows, journal, verdict, shown, calls>>

Next ==
  \/ \E op \in Operations, n \in Notes, p \in Offered : Starts(op, n, p)
  \/ Adds \/ UpdatesMetadata \/ Trashes \/ Attaches \/ RewritesTags
  \/ WritesBody \/ Touches
  \/ CompensatesUpdate \/ CompensatesCreate \/ RestoresDate
  \/ Dies

Spec == Init /\ [][Next]_vars

-----------------------------------------------------------------------------
(* Properties.                                                             *)

\* Every variable has its type.
TypeOK ==
  /\ rows \in [Notes -> Row]
  /\ job = NoCall \/ job \in Call
  /\ journal \subseteq Marker
  /\ Cardinality(journal) <= JournalMax
  /\ torn \subseteq Notes
  /\ shown \subseteq [note : Notes, revision : Nat, body : Values]
  /\ calls \in 0 .. CallBound

\* A note that a failed create leaves: nothing, or a bare note in the trash.
Withdrawn(row) == row.state = "absent" \/ (row.state = "trashed" /\ row.books = {} /\ row.tags = {})

\* A call that reports failure has left the note as it found it, or a marker
\* of that operation and note is in the recovery journal: never a phantom
\* partial state that nothing remembers (the contract of updateNote()).
RolledBackOrRecorded ==
  verdict.result = "failed" =>
    \/ IF verdict.op = "create" THEN Withdrawn(rows[verdict.note])
                                ELSE rows[verdict.note] = verdict.before
    \/ \E m \in journal : m.operation = verdict.op /\ m.noteId = verdict.note
    \/ Calling

\* A call that reports success has applied its whole patch: no field half
\* written, no tag too many, and nothing but the patch.
SuccessIsWhole ==
  verdict.result = "ok" =>
    LET p == verdict.patch
        now == rows[verdict.note]
        before == verdict.before
    IN  /\ now.state = IF verdict.op = "delete" THEN "trashed" ELSE "live"
        /\ now.meta = IF p.meta = None THEN before.meta ELSE p.meta
        /\ now.body = IF p.body = None THEN before.body ELSE p.body
        /\ now.tags = IF p.tagged THEN p.tags ELSE before.tags
        /\ now.books = before.books \cup ({p.book} \ {None})

\* A revision that some reader has seen never comes to stand over another
\* body, so that a caller who presents it as expectedRevision overwrites the
\* body it read and no other.  Excepted is a note with a marker, or one torn
\* by a crash or by a journal that could not be written.
RevisionNamesBody ==
  ~Calling =>
    \A r \in Readable, s \in shown :
      r.note = s.note /\ r.revision = s.revision =>
        r.body = s.body \/ r.note \in torn \/ \E m \in journal : m.noteId = r.note
=============================================================================
