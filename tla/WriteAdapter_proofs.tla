------------------------ MODULE WriteAdapter_proofs ------------------------
(***************************************************************************)
(* The sagas of the write adapter leave a whole patch, the note as it was,  *)
(* or a marker, for any notes, patches and refusals, and a revision names   *)
(* one body, as long as the recovery journal has room.                     *)
(***************************************************************************)
EXTENDS WriteAdapter, FiniteSetTheorems, TLAPS

\* A command, with what the checks before its first mutator have found.
CommandOK(j) ==
  /\ j \in Call
  /\ j.before.state = IF j.op = "create" THEN "absent" ELSE "live"
  /\ j.op = "create" =>
       /\ j.before.books = {} /\ j.before.tags = {}
       /\ j.patch.meta # None /\ j.patch.body # None
       /\ j.patch.tagged <=> j.patch.tags # {}
  /\ j.op = "update" => Reattach \/ j.patch.book \notin j.before.books
  /\ j.op = "append" => ~HasMetadata(j.patch) /\ j.patch.body # None
  /\ j.op = "delete" => ~HasMetadata(j.patch) /\ j.patch.body = None

Finished(j, s) == s \in Needs(j.op, j.patch) /\ s \notin j.todo

\* The row is what the finished mutators made of it, and the saga's locals
\* say how to take that back.
Reached(j, row) ==
  /\ j.todo \subseteq Needs(j.op, j.patch)
  /\ \A s \in Needs(j.op, j.patch) \ j.todo, t \in j.todo : Order(j.op)[s] <= Order(j.op)[t]
  /\ row.state = IF Finished(j, "add") THEN "live"
                   ELSE IF Finished(j, "trash") THEN "trashed" ELSE j.before.state
  /\ row.revision = IF Finished(j, "touch") THEN j.before.revision + 1 ELSE j.before.revision
  /\ row.meta = IF Finished(j, "add") \/ (Finished(j, "metadata") /\ j.patch.meta # None)
                  THEN j.patch.meta ELSE j.before.meta
  /\ row.body = IF Finished(j, "add") \/ Finished(j, "body") THEN j.patch.body ELSE j.before.body
  /\ row.books = IF Finished(j, "book") THEN j.before.books \cup {j.patch.book} ELSE j.before.books
  /\ row.tags = IF Finished(j, "tags") THEN j.patch.tags ELSE j.before.tags
  /\ j.attached <=> Finished(j, "book")
  /\ j.wrote <=> Finished(j, "body")
  /\ row.tags = (j.before.tags \ j.removed) \cup j.added
  /\ j.removed \subseteq j.before.tags /\ j.added \cap j.before.tags = {}

\* A mutator was refused over this row, after others went through.
Refused(j, row) ==
  /\ j.op # "delete"
  /\ row.state = "live"
  /\ row.revision = IF j.op = "append" THEN j.before.revision + 1 ELSE j.before.revision
  /\ row.books = IF j.attached THEN j.before.books \cup {j.patch.book} ELSE j.before.books
  /\ j.op # "create" =>
       /\ row.body = IF j.wrote THEN j.patch.body ELSE j.before.body
       /\ row.meta = IF HasMetadata(j.patch) /\ j.patch.meta # None THEN j.patch.meta ELSE j.before.meta
  /\ j.op = "append" => ~j.wrote /\ ~j.attached /\ row.tags = j.before.tags

\* ... and what the locals say is what there is to undo.
Undoing(j, row) ==
  /\ j.todo = {"undo"}
  /\ Refused(j, row)
  /\ row.tags = (j.before.tags \ j.removed) \cup j.added
  /\ j.removed \subseteq j.before.tags /\ j.added \cap j.before.tags = {}

Running(j, row) == CommandOK(j) /\ ((j.todo # {} /\ Reached(j, row)) \/ Undoing(j, row))

Full == Cardinality(journal) >= JournalMax
Recorded(n) == \E m \in journal : m.noteId = n
Excepted(n) == n \in torn \/ Recorded(n)

\* The row that the next reader finds if the call in progress has no effect.
Base(n) == IF Calling /\ job.note = n THEN job.before ELSE rows[n]

\* What readers saw is of this revision and body, or of an earlier revision.
Seen ==
  \A s \in shown :
    /\ Base(s.note).state # "absent"
    /\ s.revision <= Base(s.note).revision
    /\ s.revision = Base(s.note).revision => s.body = Base(s.note).body \/ Excepted(s.note)

Verdicts == [result : {"ok", "failed", "faulted"}, op : Operations, note : Notes,
             patch : Patch, before : Row]

TypesOK ==
  /\ rows \in [Notes -> Row]
  /\ \A n \in Notes : rows[n].state = "absent" => rows[n].books = {} /\ rows[n].tags = {}
  /\ journal \subseteq Marker /\ IsFiniteSet(journal) /\ Cardinality(journal) <= JournalMax
  /\ torn \subseteq Notes
  /\ shown \subseteq [note : Notes, revision : Nat, body : Values]
  /\ calls \in 0..CallBound

AdapterInv ==
  /\ TypesOK
  /\ Calling => Running(job, Note) /\ verdict = NoVerdict
  /\ verdict = NoVerdict \/ verdict \in Verdicts
  /\ SuccessIsWhole
  /\ ~Reattach /\ ~Full => RolledBackOrRecorded
  /\ ~Full => Seen
-----------------------------------------------------------------------------
(* The mutators and their order.                                           *)

LEMMA NeedsFacts ==
  ASSUME NEW op \in Operations, NEW p
  PROVE  /\ "add" \in Needs(op, p) <=> op = "create"
         /\ "trash" \in Needs(op, p) <=> op = "delete"
         /\ "metadata" \in Needs(op, p) <=> op = "update" /\ HasMetadata(p)
         /\ "book" \in Needs(op, p) <=> op \in {"create", "update"} /\ p.book # None
         /\ "tags" \in Needs(op, p) <=>
              (op = "create" /\ p.tags # {}) \/ (op = "update" /\ p.tagged)
         /\ "body" \in Needs(op, p) <=> op = "append" \/ (op = "update" /\ p.body # None)
         /\ "touch" \in Needs(op, p) <=> op = "append" \/ (op = "update" /\ p.body # None)
         /\ Needs(op, p) \subseteq Steps \ {"undo"}
<1>1. CASE op = "create"
  BY <1>1 DEF Needs, Steps
<1>2. CASE op = "append"
  BY <1>2 DEF Needs, Steps
<1>3. CASE op = "delete"
  BY <1>3 DEF Needs, Steps
<1>4. CASE op = "update"
  BY <1>4 DEF Needs, Steps
<1> QED BY <1>1, <1>2, <1>3, <1>4 DEF Operations

LEMMA OrderFacts ==
  ASSUME NEW op
  PROVE  /\ Order(op)["add"] = 1 /\ Order(op)["trash"] = 1 /\ Order(op)["metadata"] = 2
         /\ Order(op)["book"] = 3 /\ Order(op)["tags"] = 4 /\ Order(op)["body"] = 5
         /\ Order(op)["touch"] = IF op = "append" THEN 1 ELSE 6
         /\ Order(op)["undo"] = 7
BY DEF Order

LEMMA CallIsNotNone == \A j \in Call : j # NoCall
<1> SUFFICES ASSUME NEW j \in Call, j = NoCall PROVE FALSE
  OBVIOUS
<1>1. j.op = "none"
  BY DEF NoCall
<1> QED BY <1>1 DEF Call, Operations

LEMMA RowFields ==
  ASSUME NEW r \in Row, NEW s \in Row,
         r.state = s.state, r.revision = s.revision, r.meta = s.meta,
         r.books = s.books, r.tags = s.tags, r.body = s.body
  PROVE  r = s
BY DEF Row
-----------------------------------------------------------------------------
(* A call goes on, and a call ends.                                        *)

\* What a call that reports success has done to its note.
Whole(j, now) ==
  /\ now.state = IF j.op = "delete" THEN "trashed" ELSE "live"
  /\ now.meta = IF j.patch.meta = None THEN j.before.meta ELSE j.patch.meta
  /\ now.body = IF j.patch.body = None THEN j.before.body ELSE j.patch.body
  /\ now.tags = IF j.patch.tagged THEN j.patch.tags ELSE j.before.tags
  /\ now.books = j.before.books \cup ({j.patch.book} \ {None})

\* ... and one that reports failure.
RolledBack(j, now) == IF j.op = "create" THEN Withdrawn(now) ELSE now = j.before

\* Whoever saw the note before the call sees another revision, or its body.
NewRevision(j, now, fallen, marked) ==
  j.before.state # "absent" =>
    /\ now.state # "absent"
    /\ j.before.revision <= now.revision
    /\ now.revision = j.before.revision => now.body = j.before.body \/ j.note \in fallen
                                                                 \/ \E m \in marked : m.noteId = j.note

Sound(row) == row \in Row /\ (row.state = "absent" => row.books = {} /\ row.tags = {})

LEMMA StaysInv ==
  ASSUME AdapterInv, Calling, NEW row, Sound(row), NEW q, Running(q, row),
         q.note = job.note, q.before = job.before,
         rows' = [rows EXCEPT ![job.note] = row], job' = q,
         UNCHANGED <<journal, verdict, shown, torn, calls>>
  PROVE  AdapterInv'
<1>1. job \in Call /\ job.note \in Notes /\ verdict = NoVerdict
  BY DEF AdapterInv, Running, CommandOK, Call
<1>2. Calling' /\ rows'[job.note] = row /\ \A n \in Notes : n # job.note => rows'[n] = rows[n]
  BY <1>1, CallIsNotNone DEF Running, CommandOK, Calling, AdapterInv, TypesOK
<1>3. TypesOK'
  BY <1>1, <1>2 DEF AdapterInv, TypesOK, Sound
<1>4. Running(job', Note') /\ verdict' = NoVerdict
  BY <1>1, <1>2 DEF Note
<1>5. SuccessIsWhole' /\ RolledBackOrRecorded'
  BY <1>1 DEF NoVerdict, SuccessIsWhole, RolledBackOrRecorded
<1>6. (~Full => Seen)'
  <2>1. \A s \in shown : s.note \in Notes /\ Base(s.note)' = Base(s.note)
    BY <1>2 DEF Base, AdapterInv, TypesOK, Calling
  <2> QED BY <2>1 DEF AdapterInv, Full, Seen, Excepted, Recorded
<1> QED BY <1>3, <1>4, <1>5, <1>6 DEF AdapterInv

\* The end of a call over the row that it leaves.
Finishes(row, result) ==
  /\ Calling /\ Sound(row)
  /\ rows' = [rows EXCEPT ![job.note] = row]
  /\ Ends(result) /\ result \in {"ok", "failed", "faulted"}
  /\ journal \subseteq journal' /\ journal' \subseteq Marker
  /\ IsFiniteSet(journal') /\ Cardinality(journal') <= JournalMax
  /\ torn \subseteq torn' /\ torn' \subseteq Notes

\* A journal that was full is full.
LEMMA FullStays ==
  ASSUME AdapterInv, journal \subseteq journal', IsFiniteSet(journal'), Full
  PROVE  Full'
<1>1. Cardinality(journal) <= Cardinality(journal')
  BY FS_Subset
<1>2. Cardinality(journal) \in Nat /\ Cardinality(journal') \in Nat /\ JournalMax \in Nat
  BY FS_CardinalityType, BoundsAssumption DEF AdapterInv, TypesOK
<1> QED BY <1>1, <1>2 DEF Full

LEMMA FinishesInv ==
  ASSUME AdapterInv, NEW row, NEW result, Finishes(row, result),
         result = "ok" => Whole(job, row),
         result = "failed" /\ ~Reattach /\ ~Full' =>
           \/ RolledBack(job, row)
           \/ \E m \in journal' : m.operation = job.op /\ m.noteId = job.note,
         ~Full' => NewRevision(job, row, torn', journal')
  PROVE  AdapterInv'
<1>1. job \in Call /\ job.note \in Notes /\ Running(job, Note)
  BY DEF AdapterInv, Running, CommandOK, Call, Finishes
<1>2. /\ verdict' = [result |-> result, op |-> job.op, note |-> job.note,
                     patch |-> job.patch, before |-> job.before]
      /\ job' = NoCall /\ UNCHANGED <<shown, calls>>
  BY DEF Finishes, Ends
<1>3. ~Calling' /\ rows'[job.note] = row /\ \A n \in Notes : n # job.note => rows'[n] = rows[n]
  BY <1>1, <1>2 DEF Finishes, Calling, AdapterInv, TypesOK
<1>4. TypesOK'
  BY <1>1, <1>2, <1>3 DEF Finishes, Sound, AdapterInv, TypesOK
<1>5. verdict' \in Verdicts
  BY <1>1, <1>2 DEF Finishes, Verdicts, Call
<1>6. /\ verdict'.result = result /\ verdict'.op = job.op /\ verdict'.note = job.note
      /\ verdict'.patch = job.patch /\ verdict'.before = job.before
  BY <1>2
<1>7. SuccessIsWhole'
  <2> SUFFICES ASSUME result = "ok" PROVE Whole(job, row)
    BY <1>3, <1>6 DEF SuccessIsWhole, Whole
  <2> QED OBVIOUS
<1>8. (~Reattach /\ ~Full => RolledBackOrRecorded)'
  <2> SUFFICES ASSUME ~Reattach, ~Full', result = "failed"
               PROVE  \/ RolledBack(job, row)
                      \/ \E m \in journal' : m.operation = job.op /\ m.noteId = job.note
    BY <1>3, <1>6 DEF RolledBackOrRecorded, RolledBack
  <2> QED OBVIOUS
<1>9. (~Full => Seen)'
  <2> SUFFICES ASSUME ~Full', NEW s \in shown
               PROVE  /\ Base(s.note)'.state # "absent"
                      /\ s.revision <= Base(s.note)'.revision
                      /\ s.revision = Base(s.note)'.revision
                           => s.body = Base(s.note)'.body \/ Excepted(s.note)'
    BY <1>2 DEF Seen
  <2>1. Seen
    BY FullStays DEF AdapterInv, Finishes
  <2>2. s.note \in Notes /\ s.revision \in Nat /\ Base(s.note)' = rows'[s.note]
    BY <1>3 DEF AdapterInv, TypesOK, Base
  <2>3. Excepted(s.note) => Excepted(s.note)'
    BY DEF Finishes, Excepted, Recorded
  <2>4. CASE s.note # job.note
    <3>1. Base(s.note) = rows[s.note] /\ rows'[s.note] = rows[s.note]
      BY <1>3, <2>2, <2>4 DEF Base
    <3> QED BY <2>1, <2>2, <2>3, <3>1 DEF Seen
  <2>5. CASE s.note = job.note
    <3>1. Base(s.note) = job.before /\ rows'[s.note] = row
      BY <1>3, <2>5 DEF Base, Finishes
    <3>2. /\ job.before.state # "absent" /\ s.revision <= job.before.revision
          /\ s.revision = job.before.revision => s.body = job.before.body \/ Excepted(s.note)
      BY <2>1, <3>1 DEF Seen
    <3>3. NewRevision(job, row, torn', journal') /\ row.revision \in Nat /\ job.before.revision \in Nat
      BY <1>1 DEF Finishes, Sound, Row, Call
    <3>4. row.state # "absent" /\ s.revision <= row.revision
      BY <2>2, <3>2, <3>3 DEF NewRevision
    <3>5. s.revision = row.revision => s.revision = job.before.revision /\ row.revision = job.before.revision
      BY <2>2, <3>2, <3>3 DEF NewRevision
    <3>6. row.revision = job.before.revision => row.body = job.before.body \/ Excepted(s.note)'
      BY <2>5, <3>2, <3>3 DEF NewRevision, Excepted, Recorded
    <3> QED BY <2>2, <2>3, <2>5, <3>1, <3>2, <3>4, <3>5, <3>6
  <2> QED BY <2>4, <2>5
<1> QED BY <1>3, <1>4, <1>5, <1>7, <1>8, <1>9 DEF AdapterInv
-----------------------------------------------------------------------------
(* A mutator goes through, or is refused.                                  *)

\* The same call, further on.
SameCall(q, j) ==
  q \in Call /\ q.op = j.op /\ q.note = j.note /\ q.patch = j.patch /\ q.before = j.before

LEMMA SameCommand == \A j, q : CommandOK(j) /\ SameCall(q, j) => CommandOK(q)
BY DEF CommandOK, SameCall

LEMMA JobFacts ==
  ASSUME AdapterInv, Calling
  PROVE  /\ CommandOK(job) /\ Running(job, Note) /\ verdict = NoVerdict
         /\ job \in Call /\ job.note \in Notes /\ job.op \in Operations /\ job.patch \in Patch
         /\ job.before \in Row /\ job.todo \subseteq Steps
         /\ Sound(Note)
         /\ (job.todo # {} /\ Reached(job, Note)) \/ Undoing(job, Note)
<1>1. CommandOK(job) /\ Running(job, Note) /\ verdict = NoVerdict
  BY DEF AdapterInv, Running
<1>2. /\ job \in Call /\ job.note \in Notes /\ job.op \in Operations /\ job.patch \in Patch
      /\ job.before \in Row /\ job.todo \subseteq Steps
  BY <1>1 DEF CommandOK, Call
<1>3. Sound(Note)
  BY <1>2 DEF AdapterInv, TypesOK, Sound, Note
<1> QED BY <1>1, <1>2, <1>3 DEF Running

\* With nothing left to do the patch is whole, and a new body has a new
\* revision.
LEMMA ReachedIsWhole ==
  ASSUME NEW j, CommandOK(j), NEW row \in Row, Reached(j, row), j.todo = {}
  PROVE  Whole(j, row) /\ \A t, k : NewRevision(j, row, t, k)
<1> DEFINE op == j.op
           p == j.patch
<1>1. op \in Operations /\ p \in Patch /\ j.before \in Row
  BY DEF CommandOK, Call
<1>2. \A s : Finished(j, s) <=> s \in Needs(op, p)
  BY DEF Finished
<1>3. HasMetadata(p) <=> p.meta # None \/ p.book # None \/ p.tagged
  BY DEF HasMetadata
<1>4. row.state = IF op = "delete" THEN "trashed" ELSE "live"
  BY <1>1, <1>2, NeedsFacts DEF Reached, CommandOK, Operations
<1>5. row.meta = IF p.meta = None THEN j.before.meta ELSE p.meta
  BY <1>1, <1>2, <1>3, NeedsFacts DEF Reached, CommandOK, Operations
<1>6. row.body = IF p.body = None THEN j.before.body ELSE p.body
  BY <1>1, <1>2, NeedsFacts DEF Reached, CommandOK, Operations
<1>7. row.tags = IF p.tagged THEN p.tags ELSE j.before.tags
  BY <1>1, <1>2, <1>3, NeedsFacts DEF Reached, CommandOK, Operations
<1>8. row.books = j.before.books \cup ({p.book} \ {None})
  BY <1>1, <1>2, <1>3, NeedsFacts DEF Reached, CommandOK, Operations
<1>9. ASSUME op # "create"
      PROVE  /\ j.before.revision <= row.revision
             /\ row.revision = j.before.revision => row.body = j.before.body
  <2>1. j.before.revision \in Nat
    BY <1>1 DEF Row
  <2>2. row.revision = IF Finished(j, "touch") THEN j.before.revision + 1 ELSE j.before.revision
    BY DEF Reached
  <2>3. ~Finished(j, "touch") => row.body = j.before.body
    BY <1>1, <1>2, <1>9, NeedsFacts DEF Reached, CommandOK, Operations
  <2> QED BY <2>1, <2>2, <2>3
<1>10. j.before.state # "absent" => op # "create" /\ row.state # "absent"
  BY <1>4 DEF CommandOK
<1> QED BY <1>4, <1>5, <1>6, <1>7, <1>8, <1>9, <1>10 DEF Whole, NewRevision

LEMMA AppliesInv ==
  ASSUME AdapterInv, Calling, NEW step, step \in job.todo, NEW row, Sound(row),
         NEW j, SameCall(j, job), j.todo = job.todo, Applies(step, row, j),
         Reached([j EXCEPT !.todo = @ \ {step}], row)
  PROVE  AdapterInv'
<1> DEFINE q == [j EXCEPT !.todo = @ \ {step}]
<1>1. job.todo \subseteq Steps /\ CommandOK(job)
  BY JobFacts
<1>2. SameCall(q, job) /\ q.todo = job.todo \ {step}
  BY <1>1 DEF SameCall, Call
<1>3. CommandOK(q)
  BY <1>1, <1>2, SameCommand
<1>4. rows' = [rows EXCEPT ![job.note] = row] /\ UNCHANGED <<journal, torn>>
  BY DEF Applies
<1>5. CASE j.todo = {step}
  <2>1. Ends("ok")
    BY <1>5 DEF Applies
  <2> HIDE DEF q
  <2>2. q.todo = {}
    BY <1>2, <1>5
  <2>3. Whole(q, row) /\ NewRevision(q, row, torn', journal')
    BY <1>3, <2>2, ReachedIsWhole DEF Sound, q
  <2>4. Whole(job, row) /\ NewRevision(job, row, torn', journal')
    BY <1>2, <2>3 DEF Whole, NewRevision, SameCall
  <2>5. Finishes(row, "ok")
    BY <1>4, <2>1 DEF Finishes, AdapterInv, TypesOK
  <2> QED BY <2>4, <2>5, FinishesInv
<1>6. CASE j.todo # {step}
  <2>1. job' = q /\ UNCHANGED <<verdict, shown, calls>>
    BY <1>6 DEF Applies
  <2>2. q.todo # {}
    BY <1>2, <1>6
  <2>3. Reached(q, row)
    OBVIOUS
  <2> HIDE DEF q
  <2>4. Running(q, row) /\ q.note = job.note /\ q.before = job.before
    BY <1>2, <1>3, <2>2, <2>3 DEF Running, SameCall
  <2> QED BY <1>4, <2>1, <2>4, StaysInv
<1> QED BY <1>5, <1>6

LEMMA CompensateInv ==
  ASSUME AdapterInv, Calling, NEW step \in Steps, NEW row, Sound(row),
         NEW j, SameCall(j, job), Compensate(step, j), rows' = [rows EXCEPT ![job.note] = row],
         \A q : SameCall(q, job) /\ q.todo = {"undo"} /\ q.attached = j.attached /\ q.wrote = j.wrote
                  /\ q.removed = j.removed /\ q.added = j.added => Undoing(q, row)
  PROVE  AdapterInv'
<1> DEFINE q == [j EXCEPT !.todo = {"undo"}, !.refusedAt = step]
<1>1. CommandOK(job)
  BY JobFacts
<1>2. /\ SameCall(q, job) /\ q.todo = {"undo"} /\ q.attached = j.attached /\ q.wrote = j.wrote
      /\ q.removed = j.removed /\ q.added = j.added
  BY DEF SameCall, Call, Steps
<1>3. job' = q /\ UNCHANGED <<journal, verdict, shown, torn, calls>>
  BY DEF Compensate
<1> HIDE DEF q
<1>4. Running(q, row) /\ q.note = job.note /\ q.before = job.before
  BY <1>1, <1>2, SameCommand DEF Running, SameCall
<1> QED BY <1>3, <1>4, StaysInv

\* Refused with nothing changed.
LEMMA FailsInv ==
  ASSUME AdapterInv, Calling, Fails, Note = job.before
  PROVE  AdapterInv'
<1>1. Ends("failed") /\ UNCHANGED <<rows, journal, torn>>
  BY DEF Fails
<1>2. rows' = [rows EXCEPT ![job.note] = Note] /\ Sound(Note) /\ CommandOK(job) /\ job.before \in Row
  BY <1>1, JobFacts DEF Note, AdapterInv, TypesOK
<1>3. Finishes(Note, "failed")
  BY <1>1, <1>2 DEF Finishes, AdapterInv, TypesOK
<1>4. RolledBack(job, Note)
  BY <1>2 DEF RolledBack, Withdrawn, CommandOK
<1>5. NewRevision(job, Note, torn', journal')
  <2>1. job.before.revision <= job.before.revision
    BY <1>2 DEF Row
  <2> QED BY <2>1 DEF NewRevision
<1> QED BY <1>3, <1>4, <1>5, FinishesInv
-----------------------------------------------------------------------------
(* The mutators.                                                           *)

LEMMA NextFacts ==
  ASSUME AdapterInv, NEW step \in Steps \ {"undo"}, IsNext(step)
  PROVE  /\ Calling /\ step \in job.todo /\ step \in Needs(job.op, job.patch)
         /\ Reached(job, Note) /\ ~Finished(job, step)
         /\ \A s \in Steps : Finished(job, s) => Order(job.op)[s] <= Order(job.op)[step]
         /\ \A s \in job.todo : Order(job.op)[step] <= Order(job.op)[s]
<1>1. /\ Calling /\ step \in job.todo
      /\ \A s \in job.todo : Order(job.op)[step] <= Order(job.op)[s]
  BY DEF IsNext
<1>2. Reached(job, Note)
  BY <1>1, JobFacts DEF Undoing
<1> QED BY <1>1, <1>2 DEF Reached, Finished

\* The mutator that comes first is refused over the note as it was.
LEMMA FirstFindsBefore ==
  ASSUME AdapterInv, NEW step \in Steps \ {"undo"}, IsNext(step),
         step \in {"add", "trash", "metadata"} \/ (step = "touch" /\ job.op = "append")
  PROVE  Note = job.before
<1>1. /\ Reached(job, Note) /\ step \in Needs(job.op, job.patch) /\ Calling /\ ~Finished(job, step)
      /\ \A s \in Steps : Finished(job, s) => Order(job.op)[s] <= Order(job.op)[step]
  BY NextFacts
<1>2. job.op \in Operations /\ Note \in Row /\ job.before \in Row
  BY <1>1, JobFacts DEF Sound
<1>3. \A s \in Steps : Finished(job, s) => s \in Needs(job.op, job.patch)
  BY DEF Finished
<1>4. ~Finished(job, "add") /\ ~Finished(job, "trash") /\ ~Finished(job, "metadata")
  BY <1>1, <1>2, <1>3, NeedsFacts, OrderFacts DEF Steps
<1>5. ~Finished(job, "book") /\ ~Finished(job, "tags") /\ ~Finished(job, "body")
  BY <1>1, <1>2, <1>3, NeedsFacts, OrderFacts DEF Steps
<1>6. ~Finished(job, "touch")
  BY <1>1, <1>2, <1>3, NeedsFacts, OrderFacts DEF Steps
<1> QED BY <1>1, <1>2, <1>4, <1>5, <1>6, RowFields DEF Reached

\* One more is finished, and the rest in their order.
LEMMA OneMore ==
  ASSUME AdapterInv, NEW step \in Steps \ {"undo"}, IsNext(step),
         NEW q, SameCall(q, job), q.todo = job.todo \ {step}
  PROVE  /\ \A s : Finished(q, s) <=> (Finished(job, s) \/ s = step)
         /\ q.todo \subseteq Needs(q.op, q.patch)
         /\ \A s \in Needs(q.op, q.patch) \ q.todo, t \in q.todo : Order(q.op)[s] <= Order(q.op)[t]
<1>1. /\ step \in job.todo /\ step \in Needs(job.op, job.patch) /\ Reached(job, Note)
      /\ \A s \in job.todo : Order(job.op)[step] <= Order(job.op)[s]
  BY NextFacts
<1> QED BY <1>1 DEF SameCall, Finished, Reached

LEMMA AddsInv == AdapterInv /\ Adds => AdapterInv'
<1> SUFFICES ASSUME AdapterInv, Adds PROVE AdapterInv'
  OBVIOUS
<1>1. IsNext("add") /\ "add" \in Steps \ {"undo"}
  BY DEF Adds, Steps
<1>2. /\ Calling /\ "add" \in job.todo /\ "add" \in Needs(job.op, job.patch) /\ Reached(job, Note)
      /\ ~Finished(job, "add")
  BY <1>1, NextFacts
<1>3. /\ CommandOK(job) /\ job \in Call /\ job.op \in Operations /\ job.patch \in Patch /\ Sound(Note)
  BY <1>2, JobFacts
<1>4. CASE Fails
  BY <1>1, <1>2, <1>4, FirstFindsBefore, FailsInv
<1>5. CASE ~Fails
  <2> DEFINE row == [Note EXCEPT !.state = "live", !.meta = job.patch.meta, !.body = job.patch.body]
             q == [job EXCEPT !.todo = @ \ {"add"}]
  <2>1. Applies("add", row, job)
    BY <1>5 DEF Adds
  <2>2. job.op = "create"
    BY <1>2, <1>3, NeedsFacts
  <2>3. job.patch.meta \in Values /\ job.patch.body \in Values
    BY <1>3, <2>2 DEF CommandOK, Patch
  <2>4. /\ row \in Row /\ row.state = "live" /\ row.meta = job.patch.meta /\ row.body = job.patch.body
        /\ row.revision = Note.revision /\ row.books = Note.books /\ row.tags = Note.tags
    BY <1>3, <2>3 DEF Sound, Row
  <2>5. /\ SameCall(job, job) /\ SameCall(q, job) /\ q.todo = job.todo \ {"add"}
        /\ q.attached = job.attached /\ q.wrote = job.wrote
        /\ q.removed = job.removed /\ q.added = job.added
    BY <1>3 DEF SameCall, Call
  <2> HIDE DEF row, q
  <2>6. \A s : Finished(q, s) <=> (Finished(job, s) \/ s = "add")
    BY <1>1, <2>5, OneMore
  <2>7. Reached(q, row)
    BY <1>1, <1>2, <2>4, <2>5, <2>6, OneMore DEF Reached, SameCall
  <2> QED BY <1>2, <2>1, <2>4, <2>5, <2>7, AppliesInv DEF Sound, q
<1> QED BY <1>4, <1>5

LEMMA UpdatesMetadataInv == AdapterInv /\ UpdatesMetadata => AdapterInv'
<1> SUFFICES ASSUME AdapterInv, UpdatesMetadata PROVE AdapterInv'
  OBVIOUS
<1>1. IsNext("metadata") /\ "metadata" \in Steps \ {"undo"}
  BY DEF UpdatesMetadata, Steps
<1>2. /\ Calling /\ "metadata" \in job.todo /\ "metadata" \in Needs(job.op, job.patch)
      /\ Reached(job, Note)
  BY <1>1, NextFacts
<1>3. /\ CommandOK(job) /\ job \in Call /\ job.op \in Operations /\ job.patch \in Patch /\ Sound(Note)
  BY <1>2, JobFacts
<1>4. CASE Fails
  BY <1>1, <1>2, <1>4, FirstFindsBefore, FailsInv
<1>5. CASE ~Fails
  <2> DEFINE row == [Note EXCEPT !.meta = IF job.patch.meta = None THEN @ ELSE job.patch.meta]
             q == [job EXCEPT !.todo = @ \ {"metadata"}]
  <2>1. Applies("metadata", row, job)
    BY <1>5 DEF UpdatesMetadata
  <2>2. Note = job.before
    BY <1>1, FirstFindsBefore
  <2>3. job.patch.meta # None => job.patch.meta \in Values
    BY <1>3 DEF Patch
  <2>4. /\ row \in Row /\ row.meta = (IF job.patch.meta = None THEN Note.meta ELSE job.patch.meta)
        /\ row.state = Note.state /\ row.revision = Note.revision /\ row.body = Note.body
        /\ row.books = Note.books /\ row.tags = Note.tags
    BY <1>3, <2>3 DEF Sound, Row
  <2>5. /\ SameCall(job, job) /\ SameCall(q, job) /\ q.todo = job.todo \ {"metadata"}
        /\ q.attached = job.attached /\ q.wrote = job.wrote
        /\ q.removed = job.removed /\ q.added = job.added
    BY <1>3 DEF SameCall, Call
  <2> HIDE DEF row, q
  <2>6. \A s : Finished(q, s) <=> (Finished(job, s) \/ s = "metadata")
    BY <1>1, <2>5, OneMore
  <2>7. ~Finished(job, "add")
    BY <1>2, <1>3, NeedsFacts DEF Finished
  <2>8. Reached(q, row)
    BY <1>1, <1>2, <2>2, <2>4, <2>5, <2>6, <2>7, OneMore DEF Reached, SameCall
  <2>9. Sound(row)
    BY <1>3, <2>4 DEF Sound
  <2> QED BY <1>2, <2>1, <2>5, <2>8, <2>9, AppliesInv DEF q
<1> QED BY <1>4, <1>5

LEMMA TrashesInv == AdapterInv /\ Trashes => AdapterInv'
<1> SUFFICES ASSUME AdapterInv, Trashes PROVE AdapterInv'
  OBVIOUS
<1>1. IsNext("trash") /\ "trash" \in Steps \ {"undo"}
  BY DEF Trashes, Steps
<1>2. /\ Calling /\ "trash" \in job.todo /\ "trash" \in Needs(job.op, job.patch)
      /\ Reached(job, Note)
  BY <1>1, NextFacts
<1>3. /\ CommandOK(job) /\ job \in Call /\ job.op \in Operations /\ job.patch \in Patch /\ Sound(Note)
  BY <1>2, JobFacts
<1>4. CASE Fails
  BY <1>1, <1>2, <1>4, FirstFindsBefore, FailsInv
<1>5. CASE ~Fails
  <2> DEFINE row == [Note EXCEPT !.state = "trashed"]
             q == [job EXCEPT !.todo = @ \ {"trash"}]
  <2>1. Applies("trash", row, job)
    BY <1>5 DEF Trashes
  <2>2. /\ row \in Row /\ row.state = "trashed" /\ row.meta = Note.meta
        /\ row.revision = Note.revision /\ row.body = Note.body
        /\ row.books = Note.books /\ row.tags = Note.tags
    BY <1>3 DEF Sound, Row
  <2>3. /\ SameCall(job, job) /\ SameCall(q, job) /\ q.todo = job.todo \ {"trash"}
        /\ q.attached = job.attached /\ q.wrote = job.wrote
        /\ q.removed = job.removed /\ q.added = job.added
    BY <1>3 DEF SameCall, Call
  <2> HIDE DEF row, q
  <2>4. \A s : Finished(q, s) <=> (Finished(job, s) \/ s = "trash")
    BY <1>1, <2>3, OneMore
  <2>5. ~Finished(job, "add")
    BY <1>2, <1>3, NeedsFacts DEF Finished
  <2>6. Reached(q, row)
    BY <1>1, <1>2, <2>2, <2>3, <2>4, <2>5, OneMore DEF Reached, SameCall
  <2> QED BY <1>2, <2>1, <2>2, <2>3, <2>6, AppliesInv DEF Sound, q
<1> QED BY <1>4, <1>5

\* A mutator that comes later is refused over what the others left.
LEMMA LaterFindsRefused ==
  ASSUME AdapterInv, NEW step \in {"book", "tags", "body", "touch"}, IsNext(step),
         ~(step = "touch" /\ job.op = "append")
  PROVE  Refused(job, Note)
<1>1. step \in Steps \ {"undo"}
  BY DEF Steps
<1>2. /\ Calling /\ step \in job.todo /\ step \in Needs(job.op, job.patch) /\ Reached(job, Note)
      /\ \A s \in Steps : Finished(job, s) => Order(job.op)[s] <= Order(job.op)[step]
      /\ \A s \in job.todo : Order(job.op)[step] <= Order(job.op)[s]
  BY <1>1, NextFacts
<1>3. CommandOK(job) /\ job.op \in Operations
  BY <1>2, JobFacts
<1>4. \A s : Finished(job, s) <=> s \in Needs(job.op, job.patch) /\ s \notin job.todo
  BY DEF Finished
<1>5. job.op # "delete"
  BY <1>2, <1>3, NeedsFacts
<1>6. (Finished(job, "add") <=> job.op = "create") /\ ~Finished(job, "trash")
  <2>1. "add" \notin job.todo
    BY <1>2, OrderFacts
  <2> QED BY <1>3, <1>4, <1>5, <2>1, NeedsFacts
<1>7. Finished(job, "touch") <=> job.op = "append"
  <2>1. CASE job.op = "append"
    <3>1. step = "body"
      BY <1>2, <1>3, <2>1, NeedsFacts
    <3>2. "touch" \notin job.todo
      BY <1>2, <2>1, <3>1, OrderFacts
    <3> QED BY <1>3, <1>4, <2>1, <3>2, NeedsFacts
  <2>2. CASE job.op # "append"
    <3>1. Order(job.op)["touch"] = 6 /\ "touch" \in Steps
      BY <2>2, OrderFacts DEF Steps
    <3>2. CASE step = "touch"
      BY <1>2, <1>4, <2>2, <3>2
    <3>3. CASE step # "touch"
      <4>1. ~(6 <= Order(job.op)[step])
        BY <3>3, OrderFacts
      <4> QED BY <1>2, <2>2, <3>1, <4>1
    <3> QED BY <3>2, <3>3
  <2> QED BY <2>1, <2>2
<1>8. Finished(job, "metadata") <=> job.op = "update" /\ HasMetadata(job.patch)
  <2>1. "metadata" \notin job.todo
    BY <1>2, OrderFacts
  <2> QED BY <1>3, <1>4, <2>1, NeedsFacts
<1>9. job.op = "append" => ~Finished(job, "tags") /\ ~Finished(job, "book") /\ ~Finished(job, "body")
  <2>1. ASSUME job.op = "append" PROVE step = "body"
    BY <1>2, <1>3, <2>1, NeedsFacts
  <2> QED BY <1>2, <1>3, <1>4, <2>1, NeedsFacts
<1>10. job.op = "append" => ~HasMetadata(job.patch)
  BY <1>3 DEF CommandOK
<1>11. job.before.state = IF job.op = "create" THEN "absent" ELSE "live"
  BY <1>3 DEF CommandOK
<1> QED BY <1>2, <1>3, <1>5, <1>6, <1>7, <1>8, <1>9, <1>10, <1>11 DEF Reached, Refused, Operations

\* It is refused with the row as it is.
LEMMA RefusedInv ==
  ASSUME AdapterInv, NEW step \in {"book", "tags", "body", "touch"}, IsNext(step),
         ~(step = "touch" /\ job.op = "append"), Compensate(step, job), UNCHANGED rows
  PROVE  AdapterInv'
<1>1. step \in Steps \ {"undo"}
  BY DEF Steps
<1>2. Calling /\ Reached(job, Note) /\ Refused(job, Note)
  BY <1>1, NextFacts, LaterFindsRefused
<1>3. SameCall(job, job) /\ Sound(Note) /\ job.note \in Notes
  BY <1>2, JobFacts DEF SameCall
<1>4. rows' = [rows EXCEPT ![job.note] = Note]
  BY <1>3 DEF Note, AdapterInv, TypesOK
<1>5. ASSUME NEW q, SameCall(q, job), q.todo = {"undo"}, q.attached = job.attached,
             q.wrote = job.wrote, q.removed = job.removed, q.added = job.added
      PROVE  Undoing(q, Note)
  <2>1. Refused(q, Note)
    BY <1>2, <1>5 DEF Refused, SameCall
  <2> QED BY <1>2, <1>5, <2>1 DEF Undoing, Reached, SameCall
<1> QED BY <1>1, <1>2, <1>3, <1>4, <1>5, CompensateInv

LEMMA AttachesInv == AdapterInv /\ Attaches => AdapterInv'
<1> SUFFICES ASSUME AdapterInv, Attaches PROVE AdapterInv'
  OBVIOUS
<1>1. IsNext("book") /\ "book" \in Steps \ {"undo"}
  BY DEF Attaches, Steps
<1>2. /\ Calling /\ "book" \in job.todo /\ "book" \in Needs(job.op, job.patch)
      /\ Reached(job, Note) /\ ~Finished(job, "book")
  BY <1>1, NextFacts
<1>3. /\ CommandOK(job) /\ job \in Call /\ job.op \in Operations /\ job.patch \in Patch /\ Sound(Note)
  BY <1>2, JobFacts
<1>4. CASE Compensate("book", job) /\ UNCHANGED rows
  BY <1>1, <1>4, RefusedInv
<1>5. CASE ~(Compensate("book", job) /\ UNCHANGED rows)
  <2> DEFINE row == [Note EXCEPT !.books = @ \cup {job.patch.book}]
             j == [job EXCEPT !.attached = TRUE]
             q == [j EXCEPT !.todo = @ \ {"book"}]
  <2>1. Applies("book", row, j)
    BY <1>5 DEF Attaches
  <2>2. job.patch.book \in Notebooks
    <3>1. job.patch.book # None
      BY <1>2, <1>3, NeedsFacts
    <3> QED BY <1>3, <3>1 DEF Patch
  <2>3. Refused(job, Note)
    BY <1>1, LaterFindsRefused
  <2>4. /\ row \in Row /\ row.books = Note.books \cup {job.patch.book} /\ row.state = Note.state
        /\ row.meta = Note.meta /\ row.revision = Note.revision /\ row.body = Note.body
        /\ row.tags = Note.tags
    BY <1>3, <2>2 DEF Sound, Row
  <2>5. /\ SameCall(j, job) /\ j.todo = job.todo
        /\ SameCall(q, job) /\ q.todo = job.todo \ {"book"}
        /\ q.attached = TRUE /\ q.wrote = job.wrote
        /\ q.removed = job.removed /\ q.added = job.added
    BY <1>3 DEF SameCall, Call
  <2> HIDE DEF row, q
  <2>6. \A s : Finished(q, s) <=> (Finished(job, s) \/ s = "book")
    BY <1>1, <2>5, OneMore
  <2>7. Reached(q, row)
    BY <1>1, <1>2, <2>4, <2>5, <2>6, OneMore DEF Reached, SameCall
  <2>8. Sound(row)
    BY <2>3, <2>4 DEF Sound, Refused
  <2> HIDE DEF j
  <2> QED BY <1>2, <2>1, <2>5, <2>7, <2>8, AppliesInv DEF q
<1> QED BY <1>4, <1>5

\* A rewrite that is refused on the way has done some of it, and knows what.
LEMMA RewritesTagsInv == AdapterInv /\ RewritesTags => AdapterInv'
<1> SUFFICES ASSUME AdapterInv, RewritesTags PROVE AdapterInv'
  OBVIOUS
<1>1. IsNext("tags") /\ "tags" \in Steps \ {"undo"}
  BY DEF RewritesTags, Steps
<1>2. /\ Calling /\ "tags" \in job.todo /\ "tags" \in Needs(job.op, job.patch)
      /\ Reached(job, Note) /\ ~Finished(job, "tags")
  BY <1>1, NextFacts
<1>3. /\ CommandOK(job) /\ job \in Call /\ job.op \in Operations /\ job.patch \in Patch /\ Sound(Note)
      /\ job.before \in Row
  BY <1>2, JobFacts
<1>4. Refused(job, Note) /\ job.op # "append"
  BY <1>1, <1>2, <1>3, LaterFindsRefused, NeedsFacts
<1>5. Note.tags = job.before.tags
  BY <1>2 DEF Reached
<1>6. PICK gone \in SUBSET (Note.tags \ job.patch.tags), come \in SUBSET (job.patch.tags \ Note.tags) :
        LET row == [Note EXCEPT !.tags = (@ \ gone) \cup come]
            progress == [job EXCEPT !.removed = gone, !.added = come]
        IN  \/ row.tags = job.patch.tags /\ Applies("tags", row, progress)
            \/ /\ Compensate("tags", progress)
               /\ rows' = [rows EXCEPT ![job.note] = row]
  BY DEF RewritesTags
<1> DEFINE row == [Note EXCEPT !.tags = (@ \ gone) \cup come]
           j == [job EXCEPT !.removed = gone, !.added = come]
<1>7. gone \in SUBSET Tags /\ come \in SUBSET Tags
  BY <1>3 DEF Sound, Row, Patch
<1>8. /\ row \in Row /\ row.tags = (Note.tags \ gone) \cup come /\ row.books = Note.books
      /\ row.state = Note.state /\ row.meta = Note.meta /\ row.revision = Note.revision
      /\ row.body = Note.body
  BY <1>3, <1>7 DEF Sound, Row
<1>9. /\ SameCall(j, job) /\ j.todo = job.todo /\ j.attached = job.attached /\ j.wrote = job.wrote
      /\ j.removed = gone /\ j.added = come
  BY <1>3, <1>7 DEF SameCall, Call
<1>10. Sound(row)
  BY <1>4, <1>8 DEF Sound, Refused
<1>11. CASE row.tags = job.patch.tags /\ Applies("tags", row, j)
  <2> DEFINE q == [j EXCEPT !.todo = @ \ {"tags"}]
  <2>1. /\ SameCall(q, job) /\ q.todo = job.todo \ {"tags"} /\ q.attached = job.attached
        /\ q.wrote = job.wrote /\ q.removed = gone /\ q.added = come
    BY <1>9 DEF SameCall, Call
  <2> HIDE DEF row, j, q
  <2>2. \A s : Finished(q, s) <=> (Finished(job, s) \/ s = "tags")
    BY <1>1, <2>1, OneMore
  <2>3. gone \subseteq job.before.tags /\ come \cap job.before.tags = {}
          /\ row.tags = (job.before.tags \ gone) \cup come
    BY <1>5, <1>8
  <2>4. Reached(q, row)
    BY <1>1, <1>2, <1>8, <1>11, <2>1, <2>2, <2>3, OneMore DEF Reached, SameCall
  <2> QED BY <1>2, <1>9, <1>10, <1>11, <2>4, AppliesInv DEF q
<1>12. CASE Compensate("tags", j) /\ rows' = [rows EXCEPT ![job.note] = row]
  <2> HIDE DEF row, j
  <2>1. ASSUME NEW q, SameCall(q, job), q.todo = {"undo"}, q.attached = j.attached,
               q.wrote = j.wrote, q.removed = j.removed, q.added = j.added
        PROVE  Undoing(q, row)
    <3>1. Refused(q, row)
      BY <1>4, <1>8, <1>9, <2>1 DEF Refused, SameCall
    <3>2. gone \subseteq job.before.tags /\ come \cap job.before.tags = {}
            /\ row.tags = (job.before.tags \ gone) \cup come
      BY <1>5, <1>8
    <3> QED BY <1>9, <2>1, <3>1, <3>2 DEF Undoing, SameCall
  <2> QED BY <1>1, <1>2, <1>9, <1>10, <1>12, <2>1, CompensateInv
<1> QED BY <1>6, <1>11, <1>12

LEMMA WritesBodyInv == AdapterInv /\ WritesBody => AdapterInv'
<1> SUFFICES ASSUME AdapterInv, WritesBody PROVE AdapterInv'
  OBVIOUS
<1>1. IsNext("body") /\ "body" \in Steps \ {"undo"}
  BY DEF WritesBody, Steps
<1>2. /\ Calling /\ "body" \in job.todo /\ "body" \in Needs(job.op, job.patch)
      /\ Reached(job, Note) /\ ~Finished(job, "body")
  BY <1>1, NextFacts
<1>3. /\ CommandOK(job) /\ job \in Call /\ job.op \in Operations /\ job.patch \in Patch /\ Sound(Note)
  BY <1>2, JobFacts
<1>4. CASE Compensate("body", job) /\ UNCHANGED rows
  BY <1>1, <1>4, RefusedInv
<1>5. CASE ~(Compensate("body", job) /\ UNCHANGED rows)
  <2> DEFINE row == [Note EXCEPT !.body = job.patch.body]
             j == [job EXCEPT !.wrote = TRUE]
             q == [j EXCEPT !.todo = @ \ {"body"}]
  <2>1. Applies("body", row, j)
    BY <1>5 DEF WritesBody
  <2>2. job.patch.body \in Values
    <3>1. job.patch.body # None
      BY <1>2, <1>3, NeedsFacts DEF CommandOK
    <3> QED BY <1>3, <3>1 DEF Patch
  <2>3. Refused(job, Note)
    BY <1>1, LaterFindsRefused
  <2>4. /\ row \in Row /\ row.body = job.patch.body /\ row.state = Note.state
        /\ row.meta = Note.meta /\ row.revision = Note.revision /\ row.books = Note.books
        /\ row.tags = Note.tags
    BY <1>3, <2>2 DEF Sound, Row
  <2>5. /\ SameCall(j, job) /\ j.todo = job.todo
        /\ SameCall(q, job) /\ q.todo = job.todo \ {"body"}
        /\ q.attached = job.attached /\ q.wrote = TRUE
        /\ q.removed = job.removed /\ q.added = job.added
    BY <1>3 DEF SameCall, Call
  <2> HIDE DEF row, q
  <2>6. \A s : Finished(q, s) <=> (Finished(job, s) \/ s = "body")
    BY <1>1, <2>5, OneMore
  <2>7. Reached(q, row)
    BY <1>1, <1>2, <2>4, <2>5, <2>6, OneMore DEF Reached, SameCall
  <2>8. Sound(row)
    BY <2>3, <2>4 DEF Sound, Refused
  <2> HIDE DEF j
  <2> QED BY <1>2, <2>1, <2>5, <2>7, <2>8, AppliesInv DEF q
<1> QED BY <1>4, <1>5

LEMMA TouchesInv == AdapterInv /\ Touches => AdapterInv'
<1> SUFFICES ASSUME AdapterInv, Touches PROVE AdapterInv'
  OBVIOUS
<1>1. IsNext("touch") /\ "touch" \in Steps \ {"undo"}
  BY DEF Touches, Steps
<1>2. /\ Calling /\ "touch" \in job.todo /\ "touch" \in Needs(job.op, job.patch)
      /\ Reached(job, Note) /\ ~Finished(job, "touch")
  BY <1>1, NextFacts
<1>3. /\ CommandOK(job) /\ job \in Call /\ job.op \in Operations /\ job.patch \in Patch /\ Sound(Note)
      /\ job.before \in Row
  BY <1>2, JobFacts
<1>4. CASE job.op = "append" /\ Fails
  BY <1>1, <1>2, <1>4, FirstFindsBefore, FailsInv
<1>5. CASE job.op # "append" /\ Compensate("touch", job) /\ UNCHANGED rows
  BY <1>1, <1>5, RefusedInv
<1>6. CASE Applies("touch", [Note EXCEPT !.revision = job.before.revision + 1], job)
  <2> DEFINE row == [Note EXCEPT !.revision = job.before.revision + 1]
             q == [job EXCEPT !.todo = @ \ {"touch"}]
  <2>1. Applies("touch", row, job)
    BY <1>6
  <2>2. job.before.revision + 1 \in Nat
    BY <1>3 DEF Row
  <2>3. /\ row \in Row /\ row.revision = job.before.revision + 1 /\ row.state = Note.state
        /\ row.meta = Note.meta /\ row.body = Note.body /\ row.books = Note.books
        /\ row.tags = Note.tags
    BY <1>3, <2>2 DEF Sound, Row
  <2>4. /\ SameCall(job, job) /\ SameCall(q, job) /\ q.todo = job.todo \ {"touch"}
        /\ q.attached = job.attached /\ q.wrote = job.wrote
        /\ q.removed = job.removed /\ q.added = job.added
    BY <1>3 DEF SameCall, Call
  <2> HIDE DEF row, q
  <2>5. \A s : Finished(q, s) <=> (Finished(job, s) \/ s = "touch")
    BY <1>1, <2>4, OneMore
  <2>6. Reached(q, row)
    BY <1>1, <1>2, <2>3, <2>4, <2>5, OneMore DEF Reached, SameCall
  <2>7. Sound(row)
    BY <1>3, <2>3 DEF Sound
  <2> QED BY <1>2, <2>1, <2>4, <2>6, <2>7, AppliesInv DEF q
<1> QED BY <1>4, <1>5, <1>6 DEF Touches
-----------------------------------------------------------------------------
(* The inverses.                                                           *)

\* What a call owes the journal.
Owed(stages) == {[operation |-> job.op, noteId |-> job.note, stage |-> s] : s \in stages}

LEMMA OwedFacts ==
  ASSUME AdapterInv, Calling, NEW stages \in SUBSET Stages
  PROVE  Owed(stages) \subseteq Marker /\ IsFiniteSet(Owed(stages))
<1> DEFINE m(s) == [operation |-> job.op, noteId |-> job.note, stage |-> s]
           a == {m("create-notebook-attach")}
           b == a \cup {m("create-tag-relation")}
           c == b \cup {m("append-date")}
           d == c \cup {m("update-content")}
           e == d \cup {m("update-tags")}
           f == e \cup {m("update-metadata")}
<1>1. job.op \in Operations /\ job.note \in Notes
  BY JobFacts
<1>2. Owed(stages) \subseteq f
  BY DEF Owed, Stages
<1>3. Owed(stages) \subseteq Marker
  BY <1>1 DEF Owed, Marker
<1>4. IsFiniteSet(a)
  BY FS_Singleton
<1> HIDE DEF m
<1>5. IsFiniteSet(b)
  <2> HIDE DEF a
  <2> QED BY <1>4, FS_AddElement
<1>6. IsFiniteSet(c)
  <2> HIDE DEF b
  <2> QED BY <1>5, FS_AddElement
<1>7. IsFiniteSet(d)
  <2> HIDE DEF c
  <2> QED BY <1>6, FS_AddElement
<1>8. IsFiniteSet(e)
  <2> HIDE DEF d
  <2> QED BY <1>7, FS_AddElement
<1>9. IsFiniteSet(f)
  <2> HIDE DEF e
  <2> QED BY <1>8, FS_AddElement
<1> HIDE DEF f
<1> QED BY <1>2, <1>3, <1>9, FS_Subset

LEMMA RecordsFacts ==
  ASSUME AdapterInv, Calling, NEW stages \in SUBSET Stages, Records(stages)
  PROVE  /\ journal \subseteq journal' /\ journal' \subseteq Marker
         /\ IsFiniteSet(journal') /\ Cardinality(journal') <= JournalMax
         /\ torn \subseteq torn' /\ torn' \subseteq Notes
         /\ \/ Ends("failed") /\ (~Full' => Owed(stages) \subseteq journal')
            \/ Ends("faulted") /\ job.note \in torn'
<1>1. PICK kept \in SUBSET Owed(stages) :
        /\ journal' = journal \cup kept
        /\ kept # {} => Cardinality(journal') <= JournalMax
        /\ \/ Owed(stages) \subseteq journal' /\ Ends("failed") /\ UNCHANGED torn
           \/ Cardinality(journal') >= JournalMax /\ Ends("failed") /\ UNCHANGED torn
           \/ Ends("faulted") /\ torn' = torn \cup {job.note}
  BY DEF Records, Owed
<1>2. Owed(stages) \subseteq Marker /\ IsFiniteSet(Owed(stages)) /\ job.note \in Notes
  BY OwedFacts, JobFacts
<1>3. journal \subseteq Marker /\ IsFiniteSet(journal) /\ Cardinality(journal) <= JournalMax
        /\ torn \subseteq Notes
  BY DEF AdapterInv, TypesOK
<1>4. IsFiniteSet(journal')
  <2>1. IsFiniteSet(kept)
    BY <1>2, FS_Subset
  <2> QED BY <1>1, <1>3, <2>1, FS_Union
<1>5. Cardinality(journal') <= JournalMax
  <2>1. kept = {} => journal' = journal
    BY <1>1
  <2> QED BY <1>1, <1>3, <2>1
<1> QED BY <1>1, <1>2, <1>3, <1>4, <1>5 DEF Full

\* A compensation that undoes everything leaves the note as it was, and any
\* other leaves a marker.
LEMMA RecordsInv ==
  ASSUME AdapterInv, Calling, NEW row, Sound(row), rows' = [rows EXCEPT ![job.note] = row],
         NEW stages \in SUBSET Stages, Records(stages),
         stages = {} /\ ~Reattach => RolledBack(job, row),
         job.before.state # "absent" =>
           /\ row.state # "absent"
           /\ job.before.revision <= row.revision
           /\ stages = {} /\ row.revision = job.before.revision => row.body = job.before.body
  PROVE  AdapterInv'
<1>1. /\ journal \subseteq journal' /\ journal' \subseteq Marker
      /\ IsFiniteSet(journal') /\ Cardinality(journal') <= JournalMax
      /\ torn \subseteq torn' /\ torn' \subseteq Notes
      /\ \/ Ends("failed") /\ (~Full' => Owed(stages) \subseteq journal')
         \/ Ends("faulted") /\ job.note \in torn'
  BY RecordsFacts
<1>2. \A s \in stages : [operation |-> job.op, noteId |-> job.note, stage |-> s] \in Owed(stages)
  BY DEF Owed
<1>3. CASE Ends("failed") /\ (~Full' => Owed(stages) \subseteq journal')
  <2>1. Finishes(row, "failed")
    BY <1>1, <1>3 DEF Finishes
  <2>2. ASSUME ~Full', stages # {}
        PROVE  \E x \in journal' : x.operation = job.op /\ x.noteId = job.note
    <3>1. PICK s \in stages : TRUE
      BY <2>2
    <3>2. [operation |-> job.op, noteId |-> job.note, stage |-> s] \in journal'
      BY <1>2, <1>3, <2>2
    <3> QED BY <3>2
  <2>3. ~Full' => NewRevision(job, row, torn', journal')
    BY <2>2 DEF NewRevision
  <2>4. ~Reattach /\ ~Full' => RolledBack(job, row)
                                 \/ \E x \in journal' : x.operation = job.op /\ x.noteId = job.note
    BY <2>2
  <2> QED BY <2>1, <2>3, <2>4, FinishesInv
<1>4. CASE Ends("faulted") /\ job.note \in torn'
  <2>1. Finishes(row, "faulted")
    BY <1>1, <1>4 DEF Finishes
  <2>2. NewRevision(job, row, torn', journal')
    BY <1>4 DEF NewRevision
  <2> QED BY <2>1, <2>2, FinishesInv
<1> QED BY <1>1, <1>3, <1>4

\* An inverse runs only for a call of which a mutator was refused.
LEMMA UndoFacts ==
  ASSUME AdapterInv, IsNext("undo")
  PROVE  /\ Calling /\ Undoing(job, Note) /\ CommandOK(job) /\ Sound(Note)
         /\ job \in Call /\ job.op \in Operations /\ job.note \in Notes /\ job.patch \in Patch
         /\ job.before \in Row
<1>1. Calling /\ "undo" \in job.todo
  BY DEF IsNext
<1>2. /\ CommandOK(job) /\ Sound(Note) /\ job \in Call /\ job.op \in Operations
      /\ job.note \in Notes /\ job.patch \in Patch /\ job.before \in Row
      /\ Reached(job, Note) \/ Undoing(job, Note)
  BY <1>1, JobFacts
<1>3. "undo" \notin Needs(job.op, job.patch)
  BY <1>2, NeedsFacts
<1> QED BY <1>1, <1>2, <1>3 DEF Reached

LEMMA CompensatesUpdateInv == AdapterInv /\ CompensatesUpdate => AdapterInv'
<1> SUFFICES ASSUME AdapterInv, CompensatesUpdate PROVE AdapterInv'
  OBVIOUS
<1> DEFINE Stage(refused, back, off) ==
             (IF "body" \in refused THEN {"update-content"} ELSE {})
               \cup (IF back # job.removed \/ off # job.added THEN {"update-tags"} ELSE {})
               \cup (IF {"book", "metadata"} \cap refused # {} THEN {"update-metadata"} ELSE {})
<1>1. PICK refused \in SUBSET {"body", "book", "metadata"},
           back \in SUBSET job.removed, off \in SUBSET job.added :
        /\ rows' = [rows EXCEPT ![job.note] = Undone(refused, back, off)]
        /\ Records(Stage(refused, back, off))
  BY DEF CompensatesUpdate
<1> DEFINE row == Undone(refused, back, off)
           stages == Stage(refused, back, off)
<1>2. /\ Calling /\ Undoing(job, Note) /\ CommandOK(job) /\ Sound(Note)
      /\ job \in Call /\ job.patch \in Patch /\ job.before \in Row /\ job.op = "update"
  BY UndoFacts DEF CompensatesUpdate
<1>3. /\ row.state = Note.state /\ row.revision = Note.revision
      /\ row.body = IF job.wrote /\ "body" \notin refused THEN job.before.body ELSE Note.body
      /\ row.tags = (Note.tags \cup back) \ off
      /\ row.books = IF job.attached /\ "book" \notin refused
                       THEN Note.books \ {job.patch.book} ELSE Note.books
      /\ row.meta = IF HasMetadata(job.patch) /\ "metadata" \notin refused
                      THEN job.before.meta ELSE Note.meta
      /\ row \in Row
  BY <1>2 DEF Undone, Sound, Row, Call
<1>4. stages \in SUBSET Stages
  BY DEF Stages
<1>5. stages = {} => "body" \notin refused /\ "book" \notin refused /\ "metadata" \notin refused
                       /\ back = job.removed /\ off = job.added
  OBVIOUS
<1>6. Records(stages) /\ rows' = [rows EXCEPT ![job.note] = row]
  BY <1>1
<1> HIDE DEF row, stages
<1>7. /\ Note.state = "live" /\ job.before.state = "live" /\ Note.revision = job.before.revision
      /\ Note.books = IF job.attached THEN job.before.books \cup {job.patch.book} ELSE job.before.books
      /\ Note.body = IF job.wrote THEN job.patch.body ELSE job.before.body
      /\ ~HasMetadata(job.patch) => Note.meta = job.before.meta
      /\ Note.tags = (job.before.tags \ job.removed) \cup job.added
      /\ job.removed \subseteq job.before.tags /\ job.added \cap job.before.tags = {}
  BY <1>2 DEF Undoing, Refused, CommandOK
<1>8. stages = {} => row.body = job.before.body
  BY <1>3, <1>5, <1>7
<1>9. stages = {} /\ ~Reattach => row = job.before
  <2> SUFFICES ASSUME stages = {}, ~Reattach PROVE row = job.before
    OBVIOUS
  <2>1. row.tags = job.before.tags
    BY <1>3, <1>5, <1>7
  <2>2. row.books = job.before.books
    <3>1. job.patch.book \notin job.before.books
      BY <1>2 DEF CommandOK
    <3> QED BY <1>3, <1>5, <1>7, <3>1
  <2>3. row.meta = job.before.meta
    BY <1>3, <1>5, <1>7
  <2> QED BY <1>2, <1>3, <1>7, <1>8, <2>1, <2>2, <2>3, RowFields
<1>10. Sound(row) /\ row.state # "absent"
  BY <1>3, <1>7 DEF Sound
<1>11. job.before.revision <= row.revision
  BY <1>2, <1>3, <1>7 DEF Row
<1>12. stages = {} /\ ~Reattach => RolledBack(job, row)
  BY <1>2, <1>9 DEF RolledBack
<1> QED BY <1>2, <1>4, <1>6, <1>8, <1>10, <1>11, <1>12, RecordsInv

LEMMA CompensatesCreateInv == AdapterInv /\ CompensatesCreate => AdapterInv'
<1> SUFFICES ASSUME AdapterInv, CompensatesCreate PROVE AdapterInv'
  OBVIOUS
<1> DEFINE Left(off, detached, trashed) ==
             [Note EXCEPT !.tags = @ \ off,
                          !.books = IF detached THEN @ \ {job.patch.book} ELSE @,
                          !.state = IF trashed THEN "trashed" ELSE @]
           Stage(off, detached, trashed) ==
             IF off = job.added /\ detached = job.attached /\ trashed
               THEN {}
               ELSE {IF job.refusedAt = "book"
                       THEN "create-notebook-attach" ELSE "create-tag-relation"}
<1>1. PICK off \in SUBSET job.added, detached \in {job.attached, FALSE}, trashed \in BOOLEAN :
        /\ rows' = [rows EXCEPT ![job.note] =
                      Left(off, detached, trashed)]
        /\ Records(Stage(off, detached, trashed))
  BY DEF CompensatesCreate
<1> DEFINE row == Left(off, detached, trashed)
           stages == Stage(off, detached, trashed)
<1>2. /\ Calling /\ Undoing(job, Note) /\ CommandOK(job) /\ Sound(Note)
      /\ job \in Call /\ job.note \in Notes /\ job.op = "create"
  BY UndoFacts DEF CompensatesCreate
<1>3. /\ row \in Row /\ row.tags = Note.tags \ off
      /\ row.books = IF detached THEN Note.books \ {job.patch.book} ELSE Note.books
      /\ row.state = IF trashed THEN "trashed" ELSE Note.state
  BY <1>2 DEF Sound, Row
<1>4. rows' = [rows EXCEPT ![job.note] = row]
  BY <1>1
<1>5. stages \in SUBSET Stages /\ Records(stages)
  BY <1>1 DEF Stages
<1>6. stages = {} => off = job.added /\ detached = job.attached /\ trashed
  OBVIOUS
<1> HIDE DEF row, stages
<1>7. /\ Note.state = "live" /\ job.before.state = "absent"
      /\ job.before.books = {} /\ job.before.tags = {}
      /\ Note.books = IF job.attached THEN job.before.books \cup {job.patch.book} ELSE job.before.books
      /\ Note.tags = (job.before.tags \ job.removed) \cup job.added
  BY <1>2 DEF Undoing, Refused, CommandOK
<1>8. Sound(row)
  BY <1>3, <1>7 DEF Sound
<1>9. stages = {} => RolledBack(job, row)
  <2> SUFFICES ASSUME stages = {} PROVE row.state = "trashed" /\ row.books = {} /\ row.tags = {}
    BY <1>2 DEF RolledBack, Withdrawn
  <2> QED BY <1>3, <1>6, <1>7
<1> QED BY <1>2, <1>4, <1>5, <1>7, <1>8, <1>9, RecordsInv

LEMMA RestoresDateInv == AdapterInv /\ RestoresDate => AdapterInv'
<1> SUFFICES ASSUME AdapterInv, RestoresDate PROVE AdapterInv'
  OBVIOUS
<1>1. /\ Calling /\ Undoing(job, Note) /\ CommandOK(job) /\ Sound(Note)
      /\ job \in Call /\ job.note \in Notes /\ job.before \in Row /\ job.op = "append"
  BY UndoFacts DEF RestoresDate
<1>2. /\ Note.state = "live" /\ job.before.state = "live"
      /\ Note.revision = job.before.revision + 1
      /\ Note.body = job.before.body /\ Note.meta = job.before.meta
      /\ Note.books = job.before.books /\ Note.tags = job.before.tags
  BY <1>1 DEF Undoing, Refused, CommandOK
<1>3. job.before.revision \in Nat
  BY <1>1 DEF Row
<1>4. CASE rows' = [rows EXCEPT ![job.note].revision = job.before.revision] /\ Records({})
  <2>1. rows' = [rows EXCEPT ![job.note] = job.before]
    <3>1. [Note EXCEPT !.revision = job.before.revision] = job.before
      <4> DEFINE r == [Note EXCEPT !.revision = job.before.revision]
      <4>1. /\ r \in Row /\ r.state = Note.state /\ r.revision = job.before.revision
            /\ r.meta = Note.meta /\ r.books = Note.books /\ r.tags = Note.tags
            /\ r.body = Note.body
        BY <1>1, <1>3 DEF Sound, Row
      <4> HIDE DEF r
      <4>2. r = job.before
        BY <1>1, <1>2, <4>1, RowFields
      <4> QED BY <4>2 DEF r
    <3>2. rows' = [rows EXCEPT ![job.note] = [Note EXCEPT !.revision = job.before.revision]]
      BY <1>1, <1>4 DEF Note, AdapterInv, TypesOK
    <3> QED BY <3>1, <3>2
  <2>2. Sound(job.before) /\ RolledBack(job, job.before) /\ job.before.revision <= job.before.revision
    BY <1>1, <1>2, <1>3 DEF Sound, RolledBack
  <2> QED BY <1>1, <1>2, <1>4, <2>1, <2>2, RecordsInv
<1>5. CASE UNCHANGED rows /\ Records({"append-date"})
  <2>1. rows' = [rows EXCEPT ![job.note] = Note]
    BY <1>1, <1>5 DEF Note, AdapterInv, TypesOK
  <2>2. {"append-date"} \in SUBSET Stages /\ {"append-date"} # {}
    BY DEF Stages
  <2>3. job.before.revision <= Note.revision
    BY <1>2, <1>3
  <2> QED BY <1>1, <1>2, <1>5, <2>1, <2>2, <2>3, RecordsInv
<1> QED BY <1>4, <1>5 DEF RestoresDate

-----------------------------------------------------------------------------
(* Start and death of a call.                                              *)

LEMMA StartsInv ==
  ASSUME AdapterInv, NEW op \in Operations, NEW n \in Notes, NEW p \in Offered, Starts(op, n, p)
  PROVE  AdapterInv'
<1> DEFINE q == [op |-> op, note |-> n, patch |-> p, before |-> rows[n],
                 todo |-> Needs(op, p), removed |-> {}, added |-> {},
                 attached |-> FALSE, wrote |-> FALSE, refusedAt |-> "nowhere"]
<1>1. /\ ~Calling /\ job' = q /\ verdict' = NoVerdict /\ shown' = shown \cup Readable
      /\ calls' = calls + 1 /\ calls < CallBound /\ UNCHANGED <<rows, journal, torn>>
      /\ rows[n].state = IF op = "create" THEN "absent" ELSE "live"
      /\ Sensible(op, n, p)
  BY DEF Starts
<1>2. p \in Patch /\ rows[n] \in Row /\ Needs(op, p) \subseteq Steps \ {"undo"}
  BY OfferedAssumption, NeedsFacts DEF AdapterInv, TypesOK
<1>3. /\ q \in Call /\ q.op = op /\ q.note = n /\ q.patch = p /\ q.before = rows[n]
      /\ q.todo = Needs(op, p) /\ q.removed = {} /\ q.added = {} /\ ~q.attached /\ ~q.wrote
  BY <1>2 DEF Call
<1> HIDE DEF q
<1>4. CommandOK(q)
  BY <1>1, <1>2, <1>3 DEF CommandOK, Sensible, Operations, AdapterInv, TypesOK
<1>5. q.todo # {}
  <2>1. op = "update" => HasMetadata(p) \/ p.body # None
    BY <1>1 DEF Sensible
  <2>2. \E s : s \in Needs(op, p)
    BY <2>1, NeedsFacts DEF Operations
  <2> QED BY <1>3, <2>2
<1>6. Reached(q, rows[n])
  BY <1>3 DEF Reached, Finished
<1>7. Running(job', Note') /\ verdict' = NoVerdict /\ Calling'
  BY <1>1, <1>3, <1>4, <1>5, <1>6, CallIsNotNone DEF Running, Note, Calling
<1>8. Readable \subseteq [note : Notes, revision : Nat, body : Values]
  BY DEF Readable, AdapterInv, TypesOK, Row
<1>9. TypesOK'
  <2>1. calls' \in 0 .. CallBound
    BY <1>1, BoundsAssumption DEF AdapterInv, TypesOK
  <2> QED BY <1>1, <1>8, <2>1 DEF AdapterInv, TypesOK
<1>10. SuccessIsWhole' /\ RolledBackOrRecorded'
  BY <1>1 DEF NoVerdict, SuccessIsWhole, RolledBackOrRecorded
<1>11. (~Full => Seen)'
  <2> SUFFICES ASSUME ~Full, NEW s \in shown \cup Readable
               PROVE  /\ rows[s.note].state # "absent"
                      /\ s.revision <= rows[s.note].revision
                      /\ s.revision = rows[s.note].revision
                           => s.body = rows[s.note].body \/ Excepted(s.note)
    <3>1. \A m : Base(m)' = rows[m]
      BY <1>1, <1>3 DEF Base
    <3>2. Full' <=> Full
      BY <1>1 DEF Full
    <3>3. \A m : Excepted(m)' <=> Excepted(m)
      BY <1>1 DEF Excepted, Recorded
    <3> QED BY <1>1, <3>1, <3>2, <3>3 DEF Seen
  <2>1. CASE s \in shown
    <3>1. Base(s.note) = rows[s.note]
      BY <1>1 DEF Base
    <3> QED BY <2>1, <3>1 DEF AdapterInv, Seen
  <2>2. CASE s \in Readable
    <3>1. /\ s.note \in Notes /\ rows[s.note].state = "live"
          /\ s.revision = rows[s.note].revision /\ s.body = rows[s.note].body
      BY <2>2 DEF Readable
    <3>2. s.revision \in Nat
      BY <3>1 DEF AdapterInv, TypesOK, Row
    <3> QED BY <3>1, <3>2
  <2> QED BY <2>1, <2>2
<1> QED BY <1>7, <1>9, <1>10, <1>11 DEF AdapterInv

\* A note that was there is there, whatever a call has done so far.
LEMMA RunningKeepsNote ==
  ASSUME NEW j, NEW row, Running(j, row), j.before.state # "absent"
  PROVE  row.state # "absent" /\ j.before.revision <= row.revision
<1>1. j.op # "create" /\ j.before.state = "live" /\ j.before.revision \in Nat
  BY DEF Running, CommandOK, Call, Row
<1>2. CASE Reached(j, row)
  BY <1>1, <1>2 DEF Reached
<1>3. CASE Undoing(j, row)
  BY <1>1, <1>3 DEF Undoing, Refused
<1> QED BY <1>2, <1>3 DEF Running

LEMMA DiesInv == AdapterInv /\ Dies => AdapterInv'
<1> SUFFICES ASSUME AdapterInv, Dies PROVE AdapterInv'
  OBVIOUS
<1>1. /\ Calling /\ job' = NoCall /\ torn' = torn \cup {job.note}
      /\ UNCHANGED <<rows, journal, verdict, shown, calls>> /\ ~Calling'
  BY DEF Dies, Calling
<1>2. Running(job, Note) /\ verdict = NoVerdict /\ job.note \in Notes
  BY <1>1, JobFacts
<1>3. TypesOK'
  BY <1>1, <1>2 DEF AdapterInv, TypesOK
<1>4. SuccessIsWhole' /\ RolledBackOrRecorded'
  BY <1>1, <1>2 DEF NoVerdict, SuccessIsWhole, RolledBackOrRecorded
<1>5. (~Full => Seen)'
  <2> SUFFICES ASSUME ~Full, NEW s \in shown
               PROVE  /\ rows[s.note].state # "absent"
                      /\ s.revision <= rows[s.note].revision
                      /\ s.revision = rows[s.note].revision
                           => s.body = rows[s.note].body \/ Excepted(s.note)'
    BY <1>1 DEF Seen, Base, Full
  <2>1. /\ Base(s.note).state # "absent" /\ s.revision <= Base(s.note).revision
        /\ s.revision = Base(s.note).revision => s.body = Base(s.note).body \/ Excepted(s.note)
    BY DEF AdapterInv, Seen
  <2>2. Excepted(s.note) => Excepted(s.note)'
    BY <1>1 DEF Excepted, Recorded
  <2>3. CASE s.note # job.note
    BY <2>1, <2>2, <2>3 DEF Base
  <2>4. CASE s.note = job.note
    <3>1. Base(s.note) = job.before /\ Excepted(s.note)' /\ rows[s.note] = Note
      BY <1>1, <2>4 DEF Base, Excepted, Note
    <3>2. Note.state # "absent" /\ job.before.revision <= Note.revision
      BY <1>2, <2>1, <3>1, RunningKeepsNote
    <3>3. s.revision \in Nat /\ job.before.revision \in Nat /\ Note.revision \in Nat
      BY <1>1, JobFacts DEF AdapterInv, TypesOK, Sound, Row
    <3> QED BY <2>1, <3>1, <3>2, <3>3
  <2> QED BY <2>3, <2>4
<1> QED BY <1>1, <1>2, <1>3, <1>4, <1>5 DEF AdapterInv
-----------------------------------------------------------------------------
(* The invariant holds throughout.                                         *)

LEMMA InitAdapter == Init => AdapterInv
<1> SUFFICES ASSUME Init PROVE AdapterInv
  OBVIOUS
<1>1. Absent \in Row /\ [Absent EXCEPT !.state = "live", !.books = Shelf] \in Row
  BY InitialAssumption DEF Absent, Row
<1>2. \A n \in Notes : rows[n] \in Row /\ (rows[n].state = "absent" => rows[n].books = {} /\ rows[n].tags = {})
  BY <1>1 DEF Init, Absent
<1>3. rows \in [Notes -> Row]
  BY <1>1 DEF Init
<1>4. IsFiniteSet(journal) /\ Cardinality(journal) <= JournalMax
  BY FS_EmptySet, BoundsAssumption DEF Init
<1>5. TypesOK
  BY <1>2, <1>3, <1>4, BoundsAssumption DEF Init, TypesOK
<1>6. ~Calling /\ verdict = NoVerdict /\ shown = {}
  BY DEF Init, Calling
<1>7. SuccessIsWhole /\ RolledBackOrRecorded
  BY <1>6 DEF NoVerdict, SuccessIsWhole, RolledBackOrRecorded
<1> QED BY <1>5, <1>6, <1>7 DEF AdapterInv, Seen

LEMMA StutterAdapter == AdapterInv /\ UNCHANGED vars => AdapterInv'
<1> SUFFICES ASSUME AdapterInv, UNCHANGED vars PROVE AdapterInv'
  OBVIOUS
<1>1. UNCHANGED <<rows, job, journal, verdict, shown, torn, calls>>
  BY DEF vars
<1>2. TypesOK' /\ (Calling' <=> Calling) /\ Note' = Note
  BY <1>1 DEF AdapterInv, TypesOK, Calling, Note
<1>3. (SuccessIsWhole' <=> SuccessIsWhole) /\ (Full' <=> Full)
  BY <1>1 DEF SuccessIsWhole, Full
<1>4. RolledBackOrRecorded' <=> RolledBackOrRecorded
  BY <1>1 DEF RolledBackOrRecorded, Calling
<1>5. Seen' <=> Seen
  BY <1>1 DEF Seen, Base, Calling, Excepted, Recorded
<1> QED BY <1>1, <1>2, <1>3, <1>4, <1>5 DEF AdapterInv

LEMMA StepAdapter == AdapterInv /\ [Next]_vars => AdapterInv'
<1> SUFFICES ASSUME AdapterInv, [Next]_vars PROVE AdapterInv'
  OBVIOUS
<1>1. CASE \E op \in Operations, n \in Notes, p \in Offered : Starts(op, n, p)
  BY <1>1, StartsInv
<1>2. CASE Adds \/ UpdatesMetadata \/ Trashes
  BY <1>2, AddsInv, UpdatesMetadataInv, TrashesInv
<1>3. CASE Attaches \/ RewritesTags \/ WritesBody \/ Touches
  BY <1>3, AttachesInv, RewritesTagsInv, WritesBodyInv, TouchesInv
<1>4. CASE CompensatesUpdate \/ CompensatesCreate \/ RestoresDate
  BY <1>4, CompensatesUpdateInv, CompensatesCreateInv, RestoresDateInv
<1>5. CASE Dies
  BY <1>5, DiesInv
<1>6. CASE UNCHANGED vars
  BY <1>6, StutterAdapter
<1> QED BY <1>1, <1>2, <1>3, <1>4, <1>5, <1>6 DEF Next

LEMMA AlwaysAdapter == Spec => []AdapterInv
BY InitAdapter, StepAdapter, PTL DEF Spec

\* Every variable keeps its type, the journal its bound, and the call in
\* progress the shape of a saga.
THEOREM AdapterTyped == Spec => []TypeOK
<1>1. AdapterInv => TypeOK
  BY JobFacts DEF AdapterInv, TypesOK, TypeOK, Calling
<1> QED BY <1>1, AlwaysAdapter, PTL

\* A call of the write adapter that reports success has applied its whole
\* patch and nothing else, in whatever order its mutators came and whichever
\* of earlier calls were refused, died or could not be recorded.
THEOREM SuccessIsAlwaysWhole == Spec => []SuccessIsWhole
<1>1. AdapterInv => SuccessIsWhole
  BY DEF AdapterInv
<1> QED BY <1>1, AlwaysAdapter, PTL

\* A call that reports failure has left the note as it found it or has left
\* a marker, as long as the recovery journal has room for one and no patch
\* names a notebook that the note is in already.
THEOREM FailureIsUndoneOrRecorded ==
  ~Reattach => (Spec => [](Cardinality(journal) < JournalMax => RolledBackOrRecorded))
<1> SUFFICES ASSUME ~Reattach
             PROVE  Spec => [](Cardinality(journal) < JournalMax => RolledBackOrRecorded)
  OBVIOUS
<1>1. AdapterInv => (Cardinality(journal) < JournalMax => RolledBackOrRecorded)
  BY FS_CardinalityType, BoundsAssumption DEF AdapterInv, TypesOK, Full
<1> QED BY <1>1, AlwaysAdapter, PTL

\* While the journal has room, a revision that a reader has seen of a note
\* stands over the body it read, or the note has a marker, or it was torn: a
\* caller's expectedRevision names the body it means to overwrite.
THEOREM RevisionsNameBodies ==
  Spec => [](Cardinality(journal) < JournalMax => RevisionNamesBody)
<1>1. AdapterInv => (Cardinality(journal) < JournalMax => RevisionNamesBody)
  <2> SUFFICES ASSUME AdapterInv, Cardinality(journal) < JournalMax, ~Calling,
                      NEW r \in Readable, NEW s \in shown,
                      r.note = s.note, r.revision = s.revision
               PROVE  r.body = s.body \/ r.note \in torn \/ \E m \in journal : m.noteId = r.note
    BY DEF RevisionNamesBody
  <2>1. Seen
    BY FS_CardinalityType, BoundsAssumption DEF AdapterInv, TypesOK, Full
  <2>2. Base(s.note) = rows[s.note] /\ r.revision = rows[r.note].revision /\ r.body = rows[r.note].body
    BY DEF Base, Readable
  <2> QED BY <2>1, <2>2 DEF Seen, Excepted, Recorded
<1> QED BY <1>1, AlwaysAdapter, PTL
=============================================================================
