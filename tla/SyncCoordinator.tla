-------------------------- MODULE SyncCoordinator --------------------------
(***************************************************************************)
(* The sync coordinator of src/core/notesnook-sync-coordinator.ts: the      *)
(* durable queue of pending markers, the drain that hands a batch of it to  *)
(* the upstream executor of src/core/notesnook-live-remote-sync.ts, and     *)
(* the store it survives a restart in.                                      *)
(*                                                                         *)
(* Callers are arbitrary here: they may record and release while a drain   *)
(* is in flight, which the coordinator's seam allows (a composition built   *)
(* without a database takes no mutex).  LocalWrites closes the system the   *)
(* way the daemon does.                                                     *)
(***************************************************************************)
EXTENDS SyncQueue

CONSTANTS
  KeepsApproval,   \* does the store accept a marker that carries `approved`?
  MaxAttempts,     \* #maxAttempts of a drain
  SequenceBound,   \* bound: no marker is recorded above this sequence
  CrashBound,      \* bound: crashes of the process
  Kinds,           \* the mutation kinds callers use
  Claims,          \* the origins callers have
  Requested        \* the upload policies requests carry

ASSUME KeepsApprovalAssumption == KeepsApproval \in BOOLEAN
ASSUME MaxAttemptsAssumption == MaxAttempts \in Nat \ {0}
ASSUME SequenceBoundAssumption == SequenceBound \in Nat
ASSUME CrashBoundAssumption == CrashBound \in Nat
ASSUME KindsAssumption == Kinds \subseteq MutationKinds
ASSUME ClaimsAssumption == Claims \subseteq Origins
ASSUME RequestedAssumption == Requested \subseteq Policies

VARIABLES
  up,            \* the process runs
  pending,       \* #pending
  nextSequence,  \* #nextSequence
  stored,        \* what the state store would load
  flight,        \* #inFlight: the drain, or none
  hold,          \* #notBefore lies in the future
  intents,       \* tokens handed out by recordIntent and recordCreateIntent
  crashes

queueVars == <<pending, nextSequence, stored, intents>>
drainVars == <<flight, hold>>
coordinatorVars == <<up, queueVars, drainVars, crashes>>

Phases == {"idle", "gap", "gate", "uploading", "backoff"}
Flight == [phase : Phases, batch : SUBSET Marker, policy : Policies, attempt : Nat]
NoFlight == [phase |-> "idle", batch |-> {}, policy |-> "none", attempt |-> 0]

CoordinatorInit ==
  /\ up = TRUE
  /\ pending = {}
  /\ nextSequence = NextSequence({})
  /\ stored = {}
  /\ flight = NoFlight
  /\ hold = FALSE
  /\ intents = {}
  /\ crashes = 0

-----------------------------------------------------------------------------
(* Persistence.  Every operation computes the next queue, saves it, and     *)
(* only then takes it as its own: a failed save leaves the memory as it was *)
(* (SaveFails) and the caller gets sync_failed.                             *)

\* normalizeState() of PersistentSyncMetadataStateStore knows the keys
\* operation, noteId, sequence and origin, and throws on any other.
Storable(queue) == KeepsApproval \/ \A m \in queue : ~m.approved

Save(queue) ==
  /\ Storable(queue)
  /\ stored' = queue
  /\ pending' = queue

\* run() of the storage restores the permissions of its files in a `finally`,
\* and throws when it cannot: a save that failed may have replaced the row.
SaveThrowsLate(queue) ==
  /\ Storable(queue)
  /\ stored' = queue
  /\ UNCHANGED <<pending, nextSequence>>

SaveFails(queue) == SaveThrowsLate(queue) \/ UNCHANGED <<pending, stored, nextSequence>>

-----------------------------------------------------------------------------
(* Operations of the callers.                                              *)

RecordLocalCommit(op, id, org) ==
  LET next == Committed(pending, nextSequence, op, id, org)
  IN  /\ up
      /\ Cardinality(next) <= MaxPending
      /\ Save(next)
      /\ nextSequence' = nextSequence + 1

RecordIntent(op, id, org) ==
  /\ up
  /\ HasRoom(pending)
  /\ Save(Intended(pending, nextSequence, op, id, org))
  /\ nextSequence' = nextSequence + 1
  /\ intents' = intents \cup
       {NewMarker(op, id, nextSequence, StickyOrigin(pending, id, org))}

RecordCreateIntent(org) ==
  /\ up
  /\ HasRoom(pending)
  /\ Save(CreateIntended(pending, nextSequence, org))
  /\ nextSequence' = nextSequence + 1
  /\ intents' = intents \cup {NewMarker("create", Reserved, nextSequence, org)}

\* A token that names no stored placeholder changes nothing.
ResolveCreateIntent(token, id) ==
  /\ up
  /\ IF Placeholder(pending, token) = {}
       THEN UNCHANGED <<pending, stored, nextSequence>>
       ELSE /\ Save(Resolved(pending, nextSequence, token, id))
            /\ nextSequence' = nextSequence + 1

ReleaseIntentRewinds(token) ==
  /\ up
  /\ Save(Released(pending, token))
  /\ nextSequence' = NextSequence(Released(pending, token))

\* A token that matches no marker changes nothing (and saves nothing).
ReleaseIntent(token) ==
  /\ up
  /\ IF Released(pending, token) = pending
       THEN UNCHANGED <<pending, stored>>
       ELSE Save(Released(pending, token))
  /\ UNCHANGED nextSequence

\* approvePending(): a bound outside 1..highest is invalid_input; a call that
\* approves nothing saves nothing.
ApprovePending(through) ==
  /\ up
  /\ through \in 1 .. Highest(pending)
  /\ IF Approvable(pending, through) = {}
       THEN UNCHANGED <<pending, stored>>
       ELSE Save(Approved(pending, through))
  /\ UNCHANGED nextSequence

-----------------------------------------------------------------------------
(* The drain.                                                              *)

\* requestSync(): a request that finds a drain in flight shares its promise
\* (no change).  The batch is taken here, before the throttle wait.
RequestSync(policy) ==
  /\ up
  /\ flight.phase = "idle"
  /\ flight' = [phase |-> IF hold THEN "gap" ELSE "gate", batch |-> pending,
                policy |-> policy, attempt |-> 1]
  /\ UNCHANGED <<up, queueVars, hold, crashes>>

\* The flight is over: #drain extends the hold and the promise is cleared.
FlightEnds == flight' = NoFlight /\ hold' = TRUE

\* The gap to #notBefore has been slept.
GapElapses ==
  /\ flight.phase = "gap"
  /\ flight' = [flight EXCEPT !.phase = "gate"]
  /\ hold' = FALSE
  /\ UNCHANGED <<up, queueVars, crashes>>

\* #notBefore passes while nothing is in flight.
HoldElapses ==
  /\ up
  /\ flight.phase = "idle"
  /\ hold
  /\ hold' = FALSE
  /\ UNCHANGED <<up, queueVars, flight, crashes>>

\* The executor's gate: `unsynced` is what hasUnsyncedChanges() answers.
GatePasses(unsynced) ==
  /\ flight.phase = "gate"
  /\ Releasable(flight.batch, flight.policy, unsynced)
  /\ flight' = [flight EXCEPT !.phase = "uploading"]
  /\ UNCHANGED <<up, queueVars, hold, crashes>>

\* Refused: not retried, the batch stays queued.
GateRefuses(unsynced) ==
  /\ flight.phase = "gate"
  /\ ~Releasable(flight.batch, flight.policy, unsynced)
  /\ FlightEnds
  /\ UNCHANGED <<up, queueVars, crashes>>

\* start({type: "full"}) resolved true, and the batch could be removed.
UploadConfirmed ==
  /\ flight.phase = "uploading"
  /\ Save(WithoutBatch(pending, flight.batch))
  /\ FlightEnds
  /\ UNCHANGED <<up, nextSequence, intents, crashes>>

\* ... or the removal could not be saved: the drain reports failed.
UploadConfirmedUnsaved ==
  /\ flight.phase = "uploading"
  /\ SaveFails(WithoutBatch(pending, flight.batch))
  /\ FlightEnds
  /\ UNCHANGED <<up, intents, crashes>>

\* start() resolved anything but true, or ensureOpen() or start() threw a
\* persistent failure.
UploadFails ==
  /\ flight.phase \in {"gate", "uploading"}
  /\ FlightEnds
  /\ UNCHANGED <<up, queueVars, crashes>>

\* ensureOpen() or start() threw a transient failure.
UploadRetries ==
  /\ flight.phase \in {"gate", "uploading"}
  /\ IF flight.attempt = MaxAttempts
       THEN FlightEnds
       ELSE /\ flight' = [flight EXCEPT !.phase = "backoff"]
            /\ UNCHANGED hold
  /\ UNCHANGED <<up, queueVars, crashes>>

BackoffElapses ==
  /\ flight.phase = "backoff"
  /\ flight' = [flight EXCEPT !.phase = "gate", !.attempt = @ + 1]
  /\ UNCHANGED <<up, queueVars, hold, crashes>>

\* The injected sleep of a gap or a backoff rejected.
SleepFails ==
  /\ flight.phase \in {"gap", "backoff"}
  /\ FlightEnds
  /\ UNCHANGED <<up, queueVars, crashes>>

-----------------------------------------------------------------------------
(* The process dies and is started again over the same store.               *)

Crash ==
  /\ up
  /\ crashes < CrashBound
  /\ crashes' = crashes + 1
  /\ up' = FALSE
  /\ pending' = {}
  /\ nextSequence' = NextSequence({})
  /\ flight' = NoFlight
  /\ hold' = FALSE
  /\ intents' = {}
  /\ UNCHANGED stored

\* The constructor: nextSequence is recomputed from what was loaded.
Restart ==
  /\ ~up
  /\ up' = TRUE
  /\ pending' = stored
  /\ nextSequence' = NextSequence(stored)
  /\ UNCHANGED <<stored, drainVars, intents, crashes>>

-----------------------------------------------------------------------------
(* The closed specification: any caller, in any order.                      *)

Untouched == UNCHANGED <<up, drainVars, crashes>>
InBound == nextSequence <= SequenceBound

CallerCommits == \E op \in Kinds \cup {"create"}, id \in Notes, org \in Claims :
  InBound /\ RecordLocalCommit(op, id, org) /\ UNCHANGED intents /\ Untouched
CallerIntends == \E op \in Kinds, id \in Notes, org \in Claims :
  InBound /\ RecordIntent(op, id, org) /\ Untouched
CallerIntendsCreate == \E org \in Claims :
  InBound /\ RecordCreateIntent(org) /\ Untouched
CallerResolves == \E token \in intents, id \in Notes :
  /\ InBound
  /\ token.operation = "create"
  /\ ResolveCreateIntent(token, id)
  /\ intents' = intents \ {token}
  /\ Untouched
CallerReleases == \E token \in intents :
  ReleaseIntent(token) /\ intents' = intents \ {token} /\ Untouched
\* The caller keeps its marker: the outcome of its mutation is not known.
CallerForgets == \E token \in intents :
  /\ up
  /\ intents' = intents \ {token}
  /\ UNCHANGED <<pending, nextSequence, stored>> /\ Untouched
CallerApproves == \E through \in 1 .. SequenceBound :
  ApprovePending(through) /\ UNCHANGED intents /\ Untouched

\* ... and those whose save failed late.  (One that fails early changes
\* nothing.)
RecordingFails ==
  /\ up /\ InBound /\ UNCHANGED intents /\ Untouched
  /\ \/ \E op \in Kinds \cup {"create"}, id \in Notes, org \in Claims :
          LET next == Committed(pending, nextSequence, op, id, org)
          IN  Cardinality(next) <= MaxPending /\ SaveThrowsLate(next)
     \/ \E op \in Kinds, id \in Notes, org \in Claims :
          HasRoom(pending) /\ SaveThrowsLate(Intended(pending, nextSequence, op, id, org))
     \/ \E org \in Claims :
          HasRoom(pending) /\ SaveThrowsLate(CreateIntended(pending, nextSequence, org))
ResolvingFails == \E token \in intents, id \in Notes :
  /\ up /\ InBound /\ UNCHANGED intents /\ Untouched
  /\ Placeholder(pending, token) # {}
  /\ SaveThrowsLate(Resolved(pending, nextSequence, token, id))
ReleasingFails == \E token \in intents :
  up /\ SaveThrowsLate(Released(pending, token)) /\ UNCHANGED intents /\ Untouched
ApprovingFails == \E through \in 1 .. Highest(pending) :
  up /\ SaveThrowsLate(Approved(pending, through)) /\ UNCHANGED intents /\ Untouched

CallerRequestsSync == \E policy \in Requested : RequestSync(policy)

ExecutorGate == \E unsynced \in BOOLEAN : GatePasses(unsynced) \/ GateRefuses(unsynced)
UploadAnswers == UploadConfirmed \/ UploadConfirmedUnsaved \/ UploadFails \/ UploadRetries
Timers == GapElapses \/ BackoffElapses \/ SleepFails

CoordinatorNext ==
  \/ CallerCommits \/ CallerIntends \/ CallerIntendsCreate
  \/ CallerResolves \/ CallerReleases \/ CallerForgets
  \/ CallerApproves \/ CallerRequestsSync
  \/ RecordingFails \/ ResolvingFails \/ ReleasingFails \/ ApprovingFails
  \/ ExecutorGate \/ UploadAnswers \/ Timers \/ HoldElapses
  \/ Crash \/ Restart

CoordinatorSpec == CoordinatorInit /\ [][CoordinatorNext]_coordinatorVars

-----------------------------------------------------------------------------
(* Properties.                                                             *)

\* Every variable has its type.
CoordinatorTypeOK ==
  /\ up \in BOOLEAN
  /\ pending \subseteq Marker
  /\ nextSequence \in Nat \ {0}
  /\ stored \subseteq Marker
  /\ flight \in Flight
  /\ hold \in BOOLEAN
  /\ intents \subseteq Marker
  /\ crashes \in 0 .. CrashBound

\* The persisted queue never exceeds MAX_PENDING_MARKERS: a longer one would
\* be refused when it is loaded and the daemon could not start again.
QueueLoadable == Cardinality(stored) <= MaxPending

\* A sequence number names one write: no two queued markers share one, and a
\* marker that shares its number with a batch in flight, or with a token a
\* caller still holds, IS the marker that was taken (approval apart).
\* #removeBatch and releaseIntent go by it.
SequenceNamesOneWrite ==
  \A m \in pending, k \in pending \cup flight.batch \cup intents :
    m.sequence = k.sequence =>
      m.operation = k.operation /\ m.noteId = k.noteId /\ m.origin = k.origin

\* A note never sheds the strongest origin queued for it: of two markers of
\* one note, the later one ranks at least as high as the earlier.
OriginNeverWeakens ==
  \A a, b \in stored :
    a.noteId \in Notes /\ a.noteId = b.noteId /\ a.sequence < b.sequence
      => Rank(a.origin) <= Rank(b.origin)

\* The queues that a step leaves behind: the memory, and the row if it was
\* written.  A step works on the memory alone, whatever an earlier failed save
\* has left in the row.
Taken == IF up' THEN {pending'} ELSE {}
Written == {stored'} \ {stored}

\* What leaves the queue: a drain takes only markers of its own batch, and
\* only after its upload started; a marker recorded after the batch was
\* taken is still queued when the drain ends.
DrainTakesOnlyItsBatch ==
  [][flight.phase # "idle" /\ flight'.phase = "idle" /\ up' =>
       \A queue \in Taken \cup Written : \A m \in pending \ queue :
         flight.phase = "uploading" /\ \E b \in flight.batch : b.sequence = m.sequence]_coordinatorVars

\* A write that blocks an upload keeps blocking, in memory and in the row that
\* a restart loads, until it is approved, uploaded, or withdrawn by the caller
\* that made it: whatever replaces the marker blocks too, and a save that
\* fails after it replaced the row loses nothing either.
BlockingPersists ==
  [][up => \A queue \in Taken \cup Written : \A m \in Blocking(pending) :
       \/ m \in queue
       \/ [m EXCEPT !.approved = TRUE] \in queue
       \/ \E k \in Blocking(queue) :
            /\ k.sequence > m.sequence
            /\ Rank(k.origin) >= Rank(m.origin)
            /\ k.noteId = m.noteId \/ m.noteId = Reserved
       \/ \E b \in flight.batch : b.sequence = m.sequence /\ flight.phase = "uploading"
       \/ (CallerReleases \/ ReleasingFails) /\ \E t \in intents : t.sequence = m.sequence]_coordinatorVars
=============================================================================
