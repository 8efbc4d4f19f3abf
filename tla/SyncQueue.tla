----------------------------- MODULE SyncQueue -----------------------------
(***************************************************************************)
(* The queue of pending-sync markers kept by the sync coordinator          *)
(* (src/core/notesnook-sync-coordinator.ts) and the upload gate that reads  *)
(* a batch of it (src/core/notesnook-live-remote-sync.ts), as operators     *)
(* from a queue to a queue.                                                *)
(*                                                                         *)
(* The code keeps the markers in an array that only grows at its end, with  *)
(* a fresh sequence number: the array is the set of its markers in order   *)
(* of sequence, so a queue is a SET of markers here.  Nothing below         *)
(* depends on the positions.                                               *)
(*                                                                         *)
(* A placeholder's reserved note id is "nb-pending-create-<sequence>": the  *)
(* suffix repeats the marker's own sequence, so Reserved stands for all of  *)
(* them and the sequence tells them apart.                                 *)
(***************************************************************************)
EXTENDS Naturals, FiniteSets, FiniteSetsExt

CONSTANTS
  Notes,        \* ids of real notes
  Reserved,     \* the id of a create's placeholder
  MaxPending    \* MAX_PENDING_MARKERS

ASSUME ReservedAssumption == Reserved \notin Notes
ASSUME MaxPendingAssumption == MaxPending \in Nat \ {0}

Origins == {"mcp", "operator", "unknown"}
MutationKinds == {"append", "update", "delete"}
Operations == MutationKinds \cup {"create"}

Marker == [operation : Operations, noteId : Notes \cup {Reserved},
           sequence : Nat \ {0}, origin : Origins, approved : BOOLEAN]

NewMarker(op, id, seq, org) ==
  [operation |-> op, noteId |-> id, sequence |-> seq, origin |-> org,
   approved |-> FALSE]

-----------------------------------------------------------------------------
(* Sequence numbers and origins.                                           *)

Highest(queue) ==
  IF queue = {} THEN 0 ELSE Max({m.sequence : m \in queue})

NextSequenceOfLast(queue) == Highest(queue)

\* nextSequence(): one above the greatest sequence still in the queue.
NextSequence(queue) == Highest(queue) + 1

\* ORIGIN_RANK.
Rank(org) == CASE org = "mcp" -> 0 [] org = "unknown" -> 1 [] org = "operator" -> 2

StickyOriginForgotten(queue, id, requested) == requested

\* stickyOrigin(): the highest-ranked of the requested origin and those of
\* the markers already queued for the note.
StickyOrigin(queue, id, requested) ==
  LET held == {requested} \cup {m.origin : m \in {k \in queue : k.noteId = id}}
  IN  CHOOSE o \in held : \A p \in held : Rank(p) <= Rank(o)

-----------------------------------------------------------------------------
(* The operations, as the queue they try to persist.                       *)

\* checkCapacity().
HasRoomOffByOne(queue) == Cardinality(queue) <= MaxPending
HasRoom(queue) == Cardinality(queue) < MaxPending

\* recordLocalCommit(): the note's markers of the same operation give way to
\* one fresh marker.
CommittedInheriting(queue, seq, op, id, org) ==
  LET replaced == {m \in queue : m.operation = op /\ m.noteId = id}
  IN  (queue \ replaced)
        \cup {[NewMarker(op, id, seq, StickyOrigin(queue, id, org)) EXCEPT
                 !.approved = \E m \in replaced : m.approved]}

Committed(queue, seq, op, id, org) ==
  {m \in queue : m.operation # op \/ m.noteId # id}
    \cup {NewMarker(op, id, seq, StickyOrigin(queue, id, org))}

\* recordIntent(): always a fresh marker, earlier ones of the note stay.
Intended(queue, seq, op, id, org) ==
  queue \cup {NewMarker(op, id, seq, StickyOrigin(queue, id, org))}

\* recordCreateIntent(): a placeholder under the reserved id.
CreateIntended(queue, seq, org) ==
  queue \cup {NewMarker("create", Reserved, seq, org)}

\* resolveCreateIntent(): the stored placeholder the token names, if any.
Placeholder(queue, token) ==
  {m \in queue : /\ m.sequence = token.sequence
                 /\ m.operation = "create"
                 /\ token.operation = "create"
                 /\ m.noteId = token.noteId
                 /\ m.noteId = Reserved}

\* ... replaced by the real note's marker.  The origin is the stored one's.
ResolvedUnattributed(queue, seq, token, id) ==
  {m \in queue \ Placeholder(queue, token) : m.operation # "create" \/ m.noteId # id}
    \cup {NewMarker("create", id, seq, "mcp")}

Resolved(queue, seq, token, id) ==
  LET placeholder == CHOOSE m \in Placeholder(queue, token) : TRUE
  IN  {m \in queue \ {placeholder} : m.operation # "create" \/ m.noteId # id}
        \cup {NewMarker("create", id, seq, StickyOrigin(queue, id, placeholder.origin))}

\* releaseIntent(): sequence, operation and note id must all agree.
Released(queue, token) ==
  {m \in queue : \/ m.sequence # token.sequence
                 \/ m.operation # token.operation
                 \/ m.noteId # token.noteId}

\* A marker that does not hold back an upload.
Settled(m) == m.origin = "mcp" \/ m.approved

\* blockingSummary(): total and highestSequence (null is 0).
Blocking(queue) == {m \in queue : ~Settled(m)}
BlockingSummary(queue) ==
  [total |-> Cardinality(Blocking(queue)), highestSequence |-> Highest(Blocking(queue))]

\* approvePending(): the markers a call with throughSequence approves ...
ApprovableAny(queue, through) == {m \in queue : ~Settled(m)}
Approvable(queue, through) == {m \in queue : ~Settled(m) /\ m.sequence <= through}

\* ... and the queue with them approved.
Approved(queue, through) ==
  {IF m \in Approvable(queue, through) THEN [m EXCEPT !.approved = TRUE] ELSE m : m \in queue}

\* #removeBatch(): by sequence, whatever has become of the markers since.
WithoutBatchEmptied(queue, batch) == {}
WithoutBatch(queue, batch) ==
  {m \in queue : m.sequence \notin {b.sequence : b \in batch}}

-----------------------------------------------------------------------------
(* pendingIsReleasable(): whether an upload of this batch may start, under  *)
(* the upload policy of the request, when the database has unsynced changes *)
(* or has none.                                                            *)

Policies == {"none", "attributed", "allow"}

Releasable(batch, policy, unsynced) ==
  /\ batch = {} => ~unsynced
  /\ policy = "allow" \/ \A m \in batch : Settled(m)
=============================================================================
