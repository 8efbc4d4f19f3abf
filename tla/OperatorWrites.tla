--------------------------- MODULE OperatorWrites ---------------------------
(***************************************************************************)
(* The operator's create, edit and undo over the operation store            *)
(* (src/service/notes-operator-write-runtime.ts, with the write source of   *)
(* src/nookd.ts), for the requests of one operator: the store answers       *)
(* another operator's handle as missing.                                    *)
(*                                                                         *)
(* There is one note to edit, which other writers change too; a revision    *)
(* names one state of it.  A create makes a note of its own.                *)
(***************************************************************************)
EXTENDS OperationStore

CONSTANTS
  Requests,     \* request handlers that run at the same time
  RevBound,     \* bound: the revision up to which other writers change the note
  FaultBound,   \* bound: i/o failures
  StopBound     \* bound: stops of the daemon

Kinds == {"create", "edit"}
Change == [rev : Nat, body : Nat]
RecordType == [state : States, kind : Kinds, pre : Change, post : Nat]

ASSUME RequestsAssumption == None \notin Requests /\ None \notin RecordType
ASSUME BoundsAssumption == RevBound \in Nat /\ FaultBound \in Nat /\ StopBound \in Nat

VARIABLES
  up,        \* the daemon runs
  request,   \* what each handler is doing
  note,      \* the note: its revision, and whose content it holds
  landed,    \* per operation, the revision its change made (0: it changed nothing)
  undone,    \* operations whose undo reached the note
  faults,    \* i/o failures so far
  stops      \* stops so far

noteVars == <<note, landed, undone>>
boundVars == <<faults, stops>>
vars == <<storeVars, up, request, noteVars, boundVars>>

Others == 0                \* the content of somebody else
Image(rev, body) == [rev |-> rev, body |-> body]

\* `want` is the state the handler asks the store to record; `image` the
\* revision it expects and the content captured with it; `got` the revision
\* read back after the write.
Steps == {"idle", "asking", "found", "calling", "called"}
Idle == [step |-> "idle", op |-> "edit", h |-> 0, want |-> "prepared", image |-> Image(0, 0), got |-> 0]

Init ==
  /\ disk = [h \in Handles |-> None]
  /\ stable = disk
  /\ open = TRUE
  /\ syncing = None
  /\ minted = 0
  /\ aged = 0
  /\ up = TRUE
  /\ request = [c \in Requests |-> Idle]
  /\ note = Image(1, Others)
  /\ landed = [h \in Handles |-> 0]
  /\ undone = {}
  /\ faults = 0
  /\ stops = 0

Returns(c) == request' = [request EXCEPT ![c] = Idle]
Asks(c, s) == request' = [request EXCEPT ![c].step = "asking", ![c].want = s]
-----------------------------------------------------------------------------
(* Recording a state: the handler's insert() or transition().              *)

\* The state that the transition expects to find.
Expected(r) ==
  CASE r.want = "prepared"   -> "missing"
    [] r.want = "committing" -> "prepared"
    [] r.op = "undo"         -> "committed"
    [] OTHER                 -> "committing"

Wanted(r) ==
  IF r.want = "prepared"
    THEN [state |-> "prepared", kind |-> r.op, pre |-> r.image, post |-> 0]
    ELSE [disk[r.h] EXCEPT !.state = r.want,
                           !.post = IF r.want = "committed" /\ r.op = "edit" THEN r.got ELSE @]

\* insert() mints a handle nobody has used.
Target(r) == IF r.want = "prepared" THEN minted + 1 ELSE r.h

Recordable(r) ==
  /\ StateOf(Kept(disk), Target(r)) = Expected(r)
  /\ r.want # "prepared" => r.want \in Allowed(Expected(r))
  /\ Admits(Kept(disk), Target(r), Wanted(r))

\* The record replaces its predecessor in the directory.
RecordStarts(c) ==
  LET r == request[c] IN
  /\ r.step = "asking"
  /\ Ready
  /\ Target(r) \in Handles
  /\ Recordable(r)
  /\ Renames(c, Target(r), Wanted(r))
  /\ minted' = IF r.want = "prepared" THEN minted + 1 ELSE minted
  /\ request' = [request EXCEPT ![c].h = Target(r)]
  /\ UNCHANGED <<up, noteVars, boundVars>>

\* What the handler does once the state is durable.
RecordEnds(c) ==
  LET r == request[c] IN
  /\ syncing = c
  /\ SyncsDirectory
  /\ CASE r.want = "prepared"   -> Asks(c, "committing")
       [] r.want = "committing" -> request' = [request EXCEPT ![c].step = "calling"]
       [] OTHER                 -> Returns(c)
  /\ UNCHANGED <<up, noteVars, boundVars>>

\* What it does when the store refuses: an outcome that cannot be recorded is
\* recorded as uncertain, anything else is best effort.
GivesUp(c) ==
  IF request[c].want \in {"committed", "undone"} THEN Asks(c, "unresolved") ELSE Returns(c)

\* Quota, a state that is not the expected one, a record that expired.
RecordRefused(c) ==
  /\ request[c].step = "asking"
  /\ Ready
  /\ Target(request[c]) \in Handles
  /\ ~Recordable(request[c])
  /\ Expires
  /\ GivesUp(c)
  /\ UNCHANGED <<open, syncing, minted, aged, up, noteVars, boundVars>>

\* The store is closed: it failed now or earlier, or never opened.
RecordFails(c) ==
  /\ request[c].step = "asking"
  /\ ~open
  /\ GivesUp(c)
  /\ UNCHANGED <<storeVars, up, noteVars, boundVars>>
-----------------------------------------------------------------------------
(* Requests.                                                               *)

\* applyEdit(): load() captured the note under the revision the caller named.
\* create(): nothing is captured.
Starts(c, kind) ==
  /\ up
  /\ request[c].step = "idle"
  /\ minted < OpBound
  /\ request' = [request EXCEPT ![c] =
                   [Idle EXCEPT !.step = "asking", !.op = kind,
                                !.image = IF kind = "edit" THEN note ELSE @]]
  /\ UNCHANGED <<storeVars, up, noteVars, boundVars>>

\* applyUndo(): the record names the revision to find and the content to restore.
FindsUndo(c, h) ==
  /\ up
  /\ request[c].step = "idle"
  /\ Ready
  /\ StateOf(Kept(disk), h) = "committed"
  /\ disk[h].kind = "edit"
  /\ Expires
  /\ request' = [request EXCEPT ![c] =
                   [Idle EXCEPT !.step = "found", !.op = "undo", !.h = h,
                                !.image = Image(disk[h].post, disk[h].pre.body)]]
  /\ UNCHANGED <<open, syncing, minted, aged, up, noteVars, boundVars>>

GuardsUndoByTheNote(c) ==
  /\ request[c].step = "found"
  /\ request' = [request EXCEPT ![c].step = "calling", ![c].image.rev = note.rev]
  /\ UNCHANGED <<storeVars, up, noteVars, boundVars>>

\* load() and the revision guard, before the source is called.
GuardsUndo(c) ==
  /\ request[c].step = "found"
  /\ IF note.rev = request[c].image.rev
       THEN request' = [request EXCEPT ![c].step = "calling"]
       ELSE Returns(c)
  /\ UNCHANGED <<storeVars, up, noteVars, boundVars>>

\* A status, a list, or any refused request: the store only expires.
ReadsStore ==
  /\ up
  /\ Reads
  /\ UNCHANGED <<up, request, noteVars, boundVars>>

\* acknowledge().
Acknowledge(h) == up /\ Acknowledges(h) /\ UNCHANGED <<up, request, noteVars, boundVars>>
-----------------------------------------------------------------------------
(* The write source: one guarded update, then a second read of the note.   *)

NextRev == note.rev + 1
BodyOf(r) == IF r.op = "undo" THEN r.image.body ELSE r.h

\* operatorUpdateNote() writes the note if its revision is the expected one;
\* operatorCreateNote() writes a new note, whose revision is not tracked.
SourceWrites(c) ==
  LET r == request[c] IN
  /\ r.step = "calling"
  /\ r.op = "create" \/ note.rev = r.image.rev
  /\ note' = IF r.op = "create" THEN note ELSE Image(NextRev, BodyOf(r))
  /\ landed' = IF r.op = "undo" THEN landed ELSE [landed EXCEPT ![r.h] = IF r.op = "edit" THEN NextRev ELSE 1]
  /\ undone' = IF r.op = "undo" THEN undone \cup {r.h} ELSE undone
  /\ request' = [request EXCEPT ![c].step = "called"]
  /\ UNCHANGED <<storeVars, up, boundVars>>

\* After the write the gate is free again: `noteMetadata` reads the revision
\* that the note has by then.
SourceReturns(c) ==
  /\ request[c].step = "called"
  /\ request' = [request EXCEPT ![c].step = "asking",
                                ![c].want = IF request[c].op = "undo" THEN "undone" ELSE "committed",
                                ![c].got = note.rev]
  /\ UNCHANGED <<storeVars, up, noteVars, boundVars>>

SourceFailsOptimistically(c) ==
  /\ request[c].step \in {"calling", "called"}
  /\ Asks(c, "committed")
  /\ UNCHANGED <<storeVars, up, noteVars, boundVars>>

\* The source throws, answers `error`, or answers no usable revision: before
\* the write, or after it.  So does minting the new note's handle.
SourceFails(c) ==
  /\ request[c].step \in {"calling", "called"}
  /\ Asks(c, "unresolved")
  /\ UNCHANGED <<storeVars, up, noteVars, boundVars>>

\* Conflict, locked, missing, or a refusal before any mutation: an edit or a
\* create is aborted, an undo may be tried again.
SourceRefuses(c) ==
  /\ request[c].step = "calling"
  /\ IF request[c].op = "undo" THEN Returns(c) ELSE Asks(c, "aborted")
  /\ UNCHANGED <<storeVars, up, noteVars, boundVars>>

\* MCP, a sync, or another application behind it changes the note.
OthersWrite ==
  /\ note.rev < RevBound
  /\ note' = Image(NextRev, Others)
  /\ UNCHANGED <<storeVars, up, request, landed, undone, boundVars>>
-----------------------------------------------------------------------------
(* The daemon and its disk.                                                *)

StoreBreaks ==
  /\ up
  /\ faults < FaultBound
  /\ Poisons
  /\ faults' = faults + 1
  /\ UNCHANGED <<up, request, noteVars, stops>>

Stop(powerLost) ==
  /\ up
  /\ stops < StopBound
  /\ up' = FALSE
  /\ Stops(powerLost)
  /\ request' = [c \in Requests |-> Idle]
  /\ stops' = stops + 1
  /\ UNCHANGED <<noteVars, faults>>

\* The daemon starts; without a store it serves reads only.
Start ==
  /\ ~up
  /\ up' = TRUE
  /\ Opens
  /\ UNCHANGED <<request, noteVars, boundVars>>

StartWithoutStore(ioFails) ==
  /\ ~up
  /\ ioFails => faults < FaultBound
  /\ up' = TRUE
  /\ OpenFails(ioFails)
  /\ faults' = IF ioFails THEN faults + 1 ELSE faults
  /\ UNCHANGED <<request, noteVars, stops>>

TimePasses == Ages /\ UNCHANGED <<up, request, noteVars, boundVars>>

Next ==
  \/ \E c \in Requests :
       \/ RecordStarts(c) \/ RecordEnds(c) \/ RecordRefused(c) \/ RecordFails(c)
       \/ \E kind \in Kinds : Starts(c, kind)
       \/ \E h \in Handles : FindsUndo(c, h)
       \/ GuardsUndo(c)
       \/ SourceWrites(c) \/ SourceReturns(c) \/ SourceFails(c) \/ SourceRefuses(c)
  \/ \E h \in Handles : Acknowledge(h)
  \/ ReadsStore \/ OthersWrite \/ TimePasses
  \/ StoreBreaks \/ Start
  \/ \E b \in BOOLEAN : Stop(b) \/ StartWithoutStore(b)

Spec == Init /\ [][Next]_vars
-----------------------------------------------------------------------------
(* Properties.                                                             *)

Revisions == 0..(1 + RevBound + 2 * OpBound)
Images == [rev : Revisions, body : 0..OpBound]
Records == [state : States, kind : Kinds, pre : Images, post : Revisions]

\* Every variable holds a value of its kind.
OperatorTypeOK ==
  /\ disk \in [Handles -> Records \cup {None}]
  /\ stable \in [Handles -> Records \cup {None}]
  /\ open \in BOOLEAN /\ up \in BOOLEAN
  /\ syncing \in Requests \cup {None}
  /\ minted \in 0..OpBound /\ aged \in 0..minted
  /\ request \in [Requests ->
       [step : Steps, op : Kinds \cup {"undo"}, h : 0..OpBound, want : States,
        image : Images, got : Revisions]]
  /\ note \in Images
  /\ landed \in [Handles -> Revisions]
  /\ undone \in SUBSET Handles
  /\ faults \in 0..FaultBound /\ stops \in 0..StopBound

\* A change that reached the note has a record that survives a power loss and
\* does not deny it, until the record was settled and expired or acknowledged.
\* (`committing` is durable before the source is called, and never expires.)
ChangeIsRecorded ==
  \A h \in Handles : landed[h] # 0 =>
    \/ StateOf(stable, h) \in {"committing", "committed", "unresolved", "undone"}
    \/ StateOf(stable, h) = "missing" /\ (h <= aged \/ h \in undone)

\* What a record says of the note is so, also in the directory that a power
\* loss leaves: `committed` and `undone` are never predictions.
OutcomeIsTrue ==
  \A h \in Handles, files \in {disk, stable} :
    /\ StateOf(files, h) \in {"committed", "undone"} => landed[h] # 0
    /\ StateOf(files, h) = "undone" => h \in undone

Uncertain == {"committing", "unresolved"}

\* A record whose outcome is uncertain is never evicted, however old it is and
\* however full the store: it is left only for a state that settles it.
UncertainIsKept ==
  [][\A h \in Handles :
       StateOf(disk, h) \in Uncertain /\ StateOf(stable, h) \in Uncertain =>
         /\ StateOf(disk', h) \in Uncertain \cup {"committed", "aborted"}
         /\ StateOf(stable', h) \in Uncertain \cup {"committed", "aborted"}]_vars

\* Records whose removal, or whose shorter replacement, is not durable.
Unsynced == {h \in Held(stable) : disk[h] = None \/ Bytes(disk[h]) < Bytes(stable[h])}
BothWithinBounds == WithinBounds(disk) /\ WithinBounds(stable)

\* Whatever is interrupted, the directory and what a power loss leaves of it
\* stay within the bounds that the next opening enforces before it reads a
\* single record.  Only a power loss that takes back a removal or a shortening
\* can end it: one that an earlier failure left unsynced, and whose room the
\* store, opened again, has given to another record.
DirectoryWithinBounds ==
  [][~BothWithinBounds' =>
       \/ ~BothWithinBounds
       \/ up /\ ~up' /\ \E h \in Unsynced : disk'[h] = stable[h]]_vars

\* An undo replaces only the revision that the record names, by the content
\* that was captured: nothing written after the edit was answered is lost.
UndoReplacesItsRevision ==
  [][\A h \in undone' \ undone : disk[h] # None =>
       note.rev = disk[h].post /\ note'.body = disk[h].pre.body]_vars

\* What the undo's guard is for: it takes back the operation's own content,
\* never a change that somebody else made after the edit.
UndoTakesBackItsEdit == [][\A h \in undone' \ undone : note.body = h]_vars
=============================================================================
