---------------------------- MODULE LocalWrites ----------------------------
(***************************************************************************)
(* The daemon's write path, closed: writers with a fixed origin             *)
(* (src/core/notesnook-write-composition.ts over the adapter of             *)
(* src/core/notesnook-write-adapter.ts), explicit syncs                     *)
(* (src/core/notesnook-live-remote-sync.ts), the operator's approvals, one   *)
(* shared coordinator, one database, and the per-database gate that lets    *)
(* one of them in at a time.                                               *)
(*                                                                         *)
(* DatabaseMutex shows that the gate is exclusive and that nobody waits for *)
(* it forever; here it is the variable `holder`.  A write or a sync is       *)
(* therefore modelled from the moment the gate lets it in.                  *)
(***************************************************************************)
EXTENDS SyncCoordinator

CONSTANTS
  Writers,      \* write capabilities
  OriginOf,     \* the fixed origin of each (unknown when it has none)
  Syncer,       \* the remote-sync capability
  Nobody,
  Existing,     \* notes that exist at the start
  WriteBound    \* bound: writes started

ASSUME OriginOfAssumption == OriginOf \in [Writers -> Origins]
ASSUME HolderAssumption ==
  Syncer \notin Writers /\ Nobody \notin Writers \cup Notes /\ Nobody # Syncer
ASSUME ExistingAssumption == Existing \subseteq Notes
ASSUME WriteBoundAssumption == WriteBound \in Nat

VARIABLES
  write,    \* the write that each writer has in progress
  holder,   \* who holds the exclusive side of the database gate
  dirty,    \* per note, the origins of the changes not yet sent upstream
  exists,   \* the notes in the database
  cradle,   \* per note, the sequence of the placeholder still standing for its create
  writes    \* writes started

databaseVars == <<dirty, exists, cradle>>
writerVars == <<write, holder, writes>>
vars == <<coordinatorVars, writerVars, databaseVars>>

WritePhases == {"idle", "mutating", "changed", "resolved"}
Idle == [phase |-> "idle", op |-> "create", note |-> Nobody]

Init ==
  /\ CoordinatorInit
  /\ write = [w \in Writers |-> Idle]
  /\ holder = Nobody
  /\ writes = 0
  /\ dirty = [n \in Notes |-> {}]
  /\ exists = Existing
  /\ cradle = [n \in Notes |-> 0]

\* The origin of an unattributed or operator create, and any existing-note
\* mutation, is made durable before the adapter runs.
AheadOnlyForExisting(op, org) == op # "create"
WriteAhead(op, org) == op # "create" \/ org # "mcp"

\* The promise settles and the gate is handed back.
Returns(w) == write' = [write EXCEPT ![w] = Idle] /\ holder' = Nobody
-----------------------------------------------------------------------------
(* A write: runLocalOperation() inside gate().                             *)

\* Let in: the capacity probe, the write-ahead marker, the adapter is called.
Begins(w, op, n) ==
  /\ up
  /\ holder = Nobody
  /\ writes < WriteBound
  /\ op = "create" <=> n = Nobody
  /\ HasRoom(pending)
  /\ IF ~WriteAhead(op, OriginOf[w])
       THEN UNCHANGED queueVars
       ELSE IF op = "create" THEN RecordCreateIntent(OriginOf[w])
                             ELSE RecordIntent(op, n, OriginOf[w])
  /\ write' = [write EXCEPT ![w] = [phase |-> "mutating", op |-> op, note |-> n]]
  /\ holder' = w
  /\ writes' = writes + 1
  /\ UNCHANGED <<up, drainVars, crashes, databaseVars>>

\* A full queue or an unsaved intent turns the write away before the adapter.
\* That changes something only when the save failed late.
TurnedAway(w, op, n) ==
  /\ up
  /\ holder = Nobody
  /\ op = "create" <=> n = Nobody
  /\ HasRoom(pending)
  /\ WriteAhead(op, OriginOf[w])
  /\ SaveThrowsLate(IF op = "create" THEN CreateIntended(pending, nextSequence, OriginOf[w])
                                     ELSE Intended(pending, nextSequence, op, n, OriginOf[w]))
  /\ UNCHANGED <<up, intents, drainVars, crashes, writerVars, databaseVars>>

\* The adapter's first mutator commits.  A create learns its note's id.
Mutates(w, n) ==
  /\ write[w].phase = "mutating"
  /\ IF write[w].op = "create" THEN n \notin exists ELSE n = write[w].note
  /\ write' = [write EXCEPT ![w].phase = "changed", ![w].note = n]
  /\ dirty' = [dirty EXCEPT ![n] = @ \cup {OriginOf[w]}]
  /\ exists' = exists \cup {n}
  /\ cradle' = [cradle EXCEPT ![n] =
                  IF write[w].op = "create" /\ intents # {}
                    THEN (CHOOSE t \in intents : TRUE).sequence ELSE @]
  /\ UNCHANGED <<coordinatorVars, holder, writes>>

AdapterFailsReleasing(w) ==
  /\ write[w].phase \in {"mutating", "changed"}
  /\ IF intents = {} THEN UNCHANGED queueVars ELSE \E t \in intents : ReleaseIntent(t) /\ intents' = {}
  /\ Returns(w)
  /\ UNCHANGED <<up, drainVars, crashes, writes, databaseVars>>

\* The adapter throws a code that does not prove that nothing was mutated
\* (a mutator failed, and was compensated or not): the marker is kept.
AdapterFails(w) ==
  /\ write[w].phase \in {"mutating", "changed"}
  /\ intents' = {}
  /\ Returns(w)
  /\ UNCHANGED <<up, pending, nextSequence, stored, drainVars, crashes, writes, databaseVars>>

\* The adapter throws one of NOTHING_MUTATED_CODES: the intent is released,
\* best effort.
AdapterRefuses(w) ==
  /\ write[w].phase = "mutating"
  /\ \/ \E t \in intents : ReleaseIntent(t) \/ SaveFails(Released(pending, t))
     \/ intents = {} /\ UNCHANGED <<pending, nextSequence, stored>>
  /\ intents' = {}
  /\ Returns(w)
  /\ UNCHANGED <<up, drainVars, crashes, writes, databaseVars>>

\* runWriteAheadCreate(): the placeholder is swapped for the note's marker.
ResolvesCreate(w) ==
  /\ write[w].phase = "changed"
  /\ write[w].op = "create"
  /\ \E t \in intents : ResolveCreateIntent(t, write[w].note)
  /\ intents' = {}
  /\ write' = [write EXCEPT ![w].phase = "resolved"]
  /\ cradle' = [cradle EXCEPT ![write[w].note] = 0]
  /\ UNCHANGED <<up, drainVars, crashes, holder, writes, dirty, exists>>

ReadyToRecord(w) ==
  \/ write[w].phase = "resolved"
  \/ write[w].phase = "changed" /\ ~(write[w].op = "create" /\ intents # {})

\* recordPending(): the success of the write is queued.
RecordsCommit(w) ==
  /\ ReadyToRecord(w)
  /\ RecordLocalCommit(write[w].op, write[w].note, OriginOf[w])
  /\ intents' = {}
  /\ Returns(w)
  /\ UNCHANGED <<up, drainVars, crashes, writes, databaseVars>>

\* The queue that the write would save next.
Marking(w) ==
  IF ReadyToRecord(w)
    THEN Committed(pending, nextSequence, write[w].op, write[w].note, OriginOf[w])
    ELSE Resolved(pending, nextSequence, CHOOSE t \in intents : TRUE, write[w].note)

\* A marker could not be saved after the commit: absorbed behind an intent,
\* local_sync_marker_failed for a create.
MarkerFails(w) ==
  /\ write[w].phase \in {"changed", "resolved"}
  /\ \/ UNCHANGED <<pending, stored, nextSequence>>
     \/ Cardinality(Marking(w)) <= MaxPending /\ SaveThrowsLate(Marking(w))
  /\ intents' = {}
  /\ Returns(w)
  /\ UNCHANGED <<up, drainVars, crashes, writes, databaseVars>>
-----------------------------------------------------------------------------
(* A sync: createLiveRemoteSyncCapability() around the coordinator's drain. *)

Unsynced == \E n \in Notes : dirty[n] # {}

SyncBeginsUngated(policy) ==
  /\ RequestSync(policy)
  /\ holder' = Syncer
  /\ UNCHANGED <<write, writes, databaseVars>>

SyncBegins(policy) ==
  /\ holder = Nobody
  /\ RequestSync(policy)
  /\ holder' = Syncer
  /\ UNCHANGED <<write, writes, databaseVars>>

HandsBackForgotten == holder' = holder

HandsBack == holder' = IF flight'.phase = "idle" THEN Nobody ELSE holder

SyncWaits ==
  /\ GapElapses \/ BackoffElapses \/ SleepFails
  /\ HandsBack
  /\ UNCHANGED <<write, writes, databaseVars>>

SyncGate ==
  /\ GatePasses(Unsynced) \/ GateRefuses(Unsynced)
  /\ HandsBack
  /\ UNCHANGED <<write, writes, databaseVars>>

\* Upstream acknowledges a note while the full sync runs.
UploadSends(n) ==
  /\ flight.phase = "uploading"
  /\ dirty[n] # {}
  /\ dirty' = [dirty EXCEPT ![n] = {}]
  /\ UNCHANGED <<coordinatorVars, writerVars, exists, cradle>>

UploadFinishes ==
  /\ UploadConfirmed \/ UploadConfirmedUnsaved
  /\ HandsBack
  /\ dirty' = [n \in Notes |-> {}]
  /\ UNCHANGED <<write, writes, exists, cradle>>

UploadStops ==
  /\ UploadFails \/ UploadRetries
  /\ HandsBack
  /\ UNCHANGED <<write, writes, databaseVars>>
-----------------------------------------------------------------------------
\* approvePending() is not gated: it may run while a write or a drain does.
Approves(through) ==
  /\ ApprovePending(through)
  /\ UNCHANGED <<up, intents, drainVars, crashes, writerVars, databaseVars>>

ApprovalFails == ApprovingFails /\ UNCHANGED <<writerVars, databaseVars>>

ThrottleElapses == HoldElapses /\ UNCHANGED <<writerVars, databaseVars>>

\* The daemon dies at any point; the database and the store survive.
Dies ==
  /\ Crash
  /\ write' = [w \in Writers |-> Idle]
  /\ holder' = Nobody
  /\ UNCHANGED <<writes, databaseVars>>

Restarts == Restart /\ UNCHANGED <<writerVars, databaseVars>>

WriterStep(w) ==
  \/ \E op \in Kinds, n \in Notes : n \in exists /\ (Begins(w, op, n) \/ TurnedAway(w, op, n))
  \/ Begins(w, "create", Nobody) \/ TurnedAway(w, "create", Nobody)
  \/ \E n \in Notes : Mutates(w, n)
  \/ AdapterFails(w) \/ AdapterRefuses(w)
  \/ ResolvesCreate(w) \/ RecordsCommit(w) \/ MarkerFails(w)

SyncStep ==
  \/ \E policy \in Requested : SyncBegins(policy)
  \/ SyncWaits \/ SyncGate
  \/ \E n \in Notes : UploadSends(n)
  \/ UploadFinishes \/ UploadStops \/ ThrottleElapses

Next ==
  \/ \E w \in Writers : WriterStep(w)
  \/ SyncStep
  \/ \E through \in 1 .. Highest(pending) : Approves(through)
  \/ ApprovalFails
  \/ Dies \/ Restarts

Spec == Init /\ [][Next]_vars

\* What whoever holds the gate does until it hands it back.
HolderProgress ==
  \/ \E w \in Writers :
       \/ \E n \in Notes : Mutates(w, n)
       \/ AdapterFails(w) \/ AdapterRefuses(w)
       \/ ResolvesCreate(w) \/ RecordsCommit(w) \/ MarkerFails(w)
  \/ SyncWaits \/ SyncGate \/ UploadFinishes \/ UploadStops

\* The promises awaited under the gate settle: the adapter's calls, the
\* executor's gate, upstream's start(), the sleeps of the drain.
Fairness == WF_vars(HolderProgress)

FairSpec == Spec /\ Fairness
-----------------------------------------------------------------------------
(* Properties.                                                             *)

\* Every variable has its type.
TypeOK ==
  /\ CoordinatorTypeOK
  /\ write \in [Writers -> [phase : WritePhases, op : Operations, note : Notes \cup {Nobody}]]
  /\ holder \in Writers \cup {Syncer, Nobody}
  /\ dirty \in [Notes -> SUBSET Origins]
  /\ exists \subseteq Notes
  /\ cradle \in [Notes -> Nat]
  /\ writes \in 0 .. WriteBound

\* Marker m stands for the changes of note n.
Covers(m, n) == m.noteId = n \/ (m.noteId = Reserved /\ m.sequence = cradle[n])

\* A change that was not made by MCP and is not known to be upstream has a
\* marker that ranks at least as high, at every instant, through every failed
\* save, failed adapter call and crash: in the row that a restart loads, and in
\* the memory that the next drain goes by.
UnsyncedIsMarked ==
  \A n \in Notes : \A o \in dirty[n] \ {"mcp"} :
    \A queue \in {stored} \cup (IF up THEN {pending} ELSE {}) :
      \E m \in queue : Covers(m, n) /\ Rank(m.origin) >= Rank(o)

\* While an upload runs, whatever may leave was made by MCP or is covered by
\* a marker of the batch that the operator approved, unless the policy of the
\* request allows everything.
OnlyReleasedLeaves ==
  flight.phase = "uploading" /\ flight.policy # "allow" =>
    \A n \in Notes : dirty[n] \subseteq {"mcp"} \/
      \E m \in flight.batch : Covers(m, n) /\ m.approved

\* An upload with nothing queued runs only over a database with nothing to
\* send: content whose marker was lost is never sent by an empty drain.
EmptyDrainSendsNothing ==
  flight.phase = "uploading" /\ flight.batch = {} => ~Unsynced

\* A write that was let in can always queue its success: the queue never
\* fills up between the capacity probe and the commit's marker.
CommitHasRoom ==
  \A w \in Writers :
    write[w].phase \in {"changed", "resolved"} =>
      LET op == write[w].op
          n  == write[w].note
          queue == IF ReadyToRecord(w) THEN pending
                     ELSE Resolved(pending, nextSequence, CHOOSE t \in intents : TRUE, n)
      IN  Cardinality(Committed(queue, nextSequence, op, n, OriginOf[w])) <= MaxPending

\* What the drain removes from the queue is what it sent: while an upload
\* runs, the batch is the whole queue (markers approved meanwhile included).
BatchIsTheQueue ==
  flight.phase # "idle" =>
    {m.sequence : m \in flight.batch} = {m.sequence : m \in pending}

\* Whoever holds the database gate hands it back, whatever fails on the way
\* (the daemon's other writers and readers wait for it).
GateIsHandedBack == holder # Nobody ~> holder = Nobody
=============================================================================
