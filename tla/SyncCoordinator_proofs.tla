----------------------- MODULE SyncCoordinator_proofs -----------------------
(***************************************************************************)
(* The safety properties of SyncCoordinator, for any notes, any bound on    *)
(* the queue, any number of crashes, and any callers.                       *)
(***************************************************************************)
EXTENDS SyncCoordinator, FiniteSetTheorems, NaturalsInduction, TLAPS

(* What the queue operators of SyncQueue return, for any queue.            *)

\* The identity of a write: everything of its marker but the approval.
SameWrite(m, k) ==
  /\ m.sequence = k.sequence
  /\ m.operation = k.operation
  /\ m.noteId = k.noteId
  /\ m.origin = k.origin

\* Every marker of `next` is the write of a marker of `queue`.
Derives(next, queue) == \A m \in next : \E k \in queue : SameWrite(m, k)

\* ... or the new marker.
DerivesWith(next, queue, new) ==
  \A m \in next : m = new \/ \E k \in queue : SameWrite(m, k)

\* The new marker's origin ranks as high as any queued for its note.
OriginTops(new, queue) ==
  \A k \in queue : k.noteId = new.noteId => Rank(k.origin) <= Rank(new.origin)

-----------------------------------------------------------------------------
(* Natural numbers.                                                        *)

\* A nonempty set of natural numbers has a least element.
LEMMA LeastNatural ==
  ASSUME NEW T \in SUBSET Nat, T # {}
  PROVE  \E x \in T : \A y \in T : x <= y
<1> DEFINE R == OpToRel(<, Nat)
<1>1. IsWellFoundedOn(R, Nat)
  BY NatLessThanWellFounded
<1>2. PICK x \in T : \A y \in T : ~(<<y, x>> \in R)
  BY <1>1, WFMin
<1>3. ASSUME NEW y \in T, y < x PROVE FALSE
  <2>1. <<y, x>> \in R
    BY <1>3, y \in Nat, x \in Nat DEF OpToRel
  <2> QED BY <2>1, <1>2
<1> QED BY <1>3

\* A nonempty bounded set of natural numbers has a greatest element.
LEMMA BoundedMax ==
  ASSUME NEW S \in SUBSET Nat, S # {}, NEW b \in Nat, \A s \in S : s <= b
  PROVE  Max(S) \in S /\ \A s \in S : s <= Max(S)
<1> DEFINE U == {u \in Nat : \A s \in S : s <= u}
<1>1. PICK u \in U : \A v \in U : u <= v
  <2>1. b \in U /\ U \in SUBSET Nat
    OBVIOUS
  <2> HIDE DEF U
  <2> QED BY <2>1, LeastNatural
<1>2. u \in S
  <2>1. SUFFICES ASSUME u \notin S PROVE FALSE
    OBVIOUS
  <2>2. u \in Nat /\ \A s \in S : s <= u
    OBVIOUS
  <2>3. \A s \in S : s \in Nat /\ s # u
    BY <2>1
  <2>4. \A s \in S : s < u
    BY <2>2, <2>3
  <2>5. u - 1 \in Nat /\ \A s \in S : s <= u - 1
    <3>1. PICK s0 \in S : s0 \in Nat /\ s0 < u
      BY <2>3, <2>4
    <3>2. u - 1 \in Nat
      BY <3>1, <2>2
    <3> HIDE DEF U
    <3> QED BY <3>2, <2>2, <2>3, <2>4
  <2>6. u <= u - 1
    BY <2>5, <1>1
  <2> QED BY <2>6, <2>2
<1>3. \A s \in S : u >= s /\ u \in Nat /\ s \in Nat
  OBVIOUS
<1> HIDE DEF U
<1>4. \E x \in S : \A y \in S : x >= y
  BY <1>2, <1>3
<1>5. Max(S) \in S /\ \A y \in S : Max(S) >= y
  BY <1>4 DEF Max
<1> QED BY <1>5

\* A bounded queue has a highest sequence, which no marker exceeds.
LEMMA HighestType ==
  ASSUME NEW queue \in SUBSET Marker, NEW b \in Nat,
         \A m \in queue : m.sequence <= b
  PROVE  /\ Highest(queue) \in Nat
         /\ \A m \in queue : m.sequence <= Highest(queue)
<1>1. CASE queue = {}
  BY <1>1 DEF Highest
<1>2. CASE queue # {}
  <2> DEFINE S == {m.sequence : m \in queue}
  <2>1. S \in SUBSET Nat /\ S # {} /\ \A s \in S : s <= b
    BY <1>2 DEF Marker
  <2>2. \A m \in queue : m.sequence \in S
    OBVIOUS
  <2>3. Highest(queue) = Max(S)
    BY <1>2 DEF Highest
  <2> HIDE DEF S
  <2>4. Max(S) \in S /\ \A s \in S : s <= Max(S)
    BY <2>1, BoundedMax
  <2> QED BY <2>1, <2>2, <2>3, <2>4
<1> QED BY <1>1, <1>2

-----------------------------------------------------------------------------
(* Origins.                                                                *)

\* stickyOrigin() returns an origin that neither the requested one nor any
\* queued for the note outranks.
LEMMA StickyOriginTops ==
  ASSUME NEW queue \in SUBSET Marker, NEW id, NEW requested \in Origins
  PROVE  /\ StickyOrigin(queue, id, requested) \in Origins
         /\ Rank(requested) <= Rank(StickyOrigin(queue, id, requested))
         /\ \A k \in queue : k.noteId = id =>
              Rank(k.origin) <= Rank(StickyOrigin(queue, id, requested))
<1> DEFINE held == {requested} \cup {m.origin : m \in {k \in queue : k.noteId = id}}
<1>1. held \in SUBSET Origins /\ requested \in held
  BY DEF Marker
<1>2. \E o \in held : \A p \in held : Rank(p) <= Rank(o)
  <2>1. CASE "operator" \in held
    BY <2>1, <1>1 DEF Rank, Origins
  <2>2. CASE "operator" \notin held /\ "unknown" \in held
    BY <2>2, <1>1 DEF Rank, Origins
  <2>3. CASE "operator" \notin held /\ "unknown" \notin held
    BY <2>3, <1>1 DEF Rank, Origins
  <2> QED BY <2>1, <2>2, <2>3
<1>3. StickyOrigin(queue, id, requested) = CHOOSE o \in held : \A p \in held : Rank(p) <= Rank(o)
  BY DEF StickyOrigin
<1>4. \A k \in queue : k.noteId = id => k.origin \in held
  OBVIOUS
<1> HIDE DEF held
<1>5. /\ StickyOrigin(queue, id, requested) \in held
      /\ \A p \in held : Rank(p) <= Rank(StickyOrigin(queue, id, requested))
  BY <1>2, <1>3
<1> QED BY <1>1, <1>4, <1>5

-----------------------------------------------------------------------------
(* The operations: what the queue they persist derives from.               *)

\* NewMarker has the type of a marker.
LEMMA NewMarkerType ==
  ASSUME NEW op \in Operations, NEW id \in Notes \cup {Reserved},
         NEW seq \in Nat \ {0}, NEW org \in Origins
  PROVE  /\ NewMarker(op, id, seq, org) \in Marker
         /\ NewMarker(op, id, seq, org).sequence = seq
         /\ NewMarker(op, id, seq, org).noteId = id
         /\ NewMarker(op, id, seq, org).operation = op
         /\ NewMarker(op, id, seq, org).origin = org
BY DEF NewMarker, Marker

\* A queue that derives from another has its type, whatever was left out.
LEMMA SubsetDerives ==
  ASSUME NEW queue \in SUBSET Marker, NEW next \in SUBSET queue
  PROVE  next \in SUBSET Marker /\ Derives(next, queue)
BY DEF Derives, SameWrite

\* recordLocalCommit(): one new marker, of the strongest origin of its note.
LEMMA CommittedDerives ==
  ASSUME NEW queue \in SUBSET Marker, NEW seq \in Nat \ {0},
         NEW op \in Operations, NEW id \in Notes, NEW org \in Origins,
         NEW new, new = NewMarker(op, id, seq, StickyOrigin(queue, id, org)),
         NEW next, next = Committed(queue, seq, op, id, org)
  PROVE  /\ next \in SUBSET Marker
         /\ next \subseteq queue \cup {new}
         /\ DerivesWith(next, queue, new)
         /\ new \in Marker /\ new.sequence = seq
         /\ OriginTops(new, queue)
<1>1. /\ StickyOrigin(queue, id, org) \in Origins
      /\ \A k \in queue : k.noteId = id =>
              Rank(k.origin) <= Rank(StickyOrigin(queue, id, org))
  BY StickyOriginTops
<1>2. new \in Marker /\ new.sequence = seq /\ new.noteId = id
        /\ new.origin = StickyOrigin(queue, id, org)
  BY <1>1, NewMarkerType
<1>3. next \subseteq queue \cup {new}
  BY DEF Committed
<1>4. OriginTops(new, queue)
  BY <1>1, <1>2 DEF OriginTops
<1>5. DerivesWith(next, queue, new)
  BY <1>3 DEF DerivesWith, SameWrite
<1>6. next \in SUBSET Marker
  BY <1>2, <1>3
<1> QED BY <1>2, <1>3, <1>4, <1>5, <1>6

\* releaseIntent() and #removeBatch() only take markers away.
LEMMA RemovalsAreSubsets ==
  ASSUME NEW queue, NEW token, NEW batch
  PROVE  /\ Released(queue, token) \subseteq queue
         /\ WithoutBatch(queue, batch) \subseteq queue
BY DEF Released, WithoutBatch

\* approvePending(): the same writes, no more markers than before.
LEMMA ApprovedDerives ==
  ASSUME NEW queue \in SUBSET Marker, IsFiniteSet(queue), NEW through
  PROVE  /\ Approved(queue, through) \in SUBSET Marker
         /\ Derives(Approved(queue, through), queue)
         /\ IsFiniteSet(Approved(queue, through))
         /\ Cardinality(Approved(queue, through)) <= Cardinality(queue)
<1> DEFINE f == [m \in queue |-> IF m \in Approvable(queue, through)
                                   THEN [m EXCEPT !.approved = TRUE] ELSE m]
<1>1. \A m \in queue : f[m] \in Marker /\ SameWrite(f[m], m)
  BY DEF Marker, SameWrite
<1>2. Approved(queue, through) = {f[m] : m \in queue}
  BY DEF Approved
<1> HIDE DEF f
<1>3. Approved(queue, through) \in SUBSET Marker /\ Derives(Approved(queue, through), queue)
  BY <1>1, <1>2 DEF Derives
<1>4. f \in Surjection(queue, Approved(queue, through))
  BY <1>2 DEF Surjection, f
<1>5. /\ IsFiniteSet(Approved(queue, through))
      /\ Cardinality(Approved(queue, through)) <= Cardinality(queue)
  BY <1>4, FS_Surjection
<1> QED BY <1>3, <1>5

-----------------------------------------------------------------------------
(* The coordinator.  The memory and the row are sound each on its own: a    *)
(* save that failed late has put the queue it could not take into the row.  *)

\* A queue that a restart can load and go on from.
Sound(queue) ==
  /\ queue \in SUBSET Marker
  /\ IsFiniteSet(queue) /\ Cardinality(queue) <= MaxPending
  /\ \E b \in Nat : \A m \in queue : m.sequence <= b
  /\ \A m, k \in queue : m.sequence = k.sequence => SameWrite(m, k)
  /\ \A a, b \in queue :
       a.noteId \in Notes /\ a.noteId = b.noteId /\ a.sequence < b.sequence
         => Rank(a.origin) <= Rank(b.origin)

\* Everything in the daemon that carries a sequence number somebody goes by.
Writes == pending \cup flight.batch \cup intents

\* The next sequence is fresh.
NextIsFresh == up => \A m \in Writes : m.sequence < nextSequence

\* A stopped daemon keeps nothing in memory.
NothingSurvivesStop == ~up => pending = {} /\ flight = NoFlight /\ intents = {}

CoordinatorInv ==
  /\ CoordinatorTypeOK
  /\ NothingSurvivesStop
  /\ Sound(pending) /\ Sound(stored)
  /\ NextIsFresh
  /\ SequenceNamesOneWrite

-----------------------------------------------------------------------------
(* What the queues of the operations have in common.                        *)

\* A queue of writes that were sound together is sound.
LEMMA DerivedIsSound ==
  ASSUME NEW queue, Sound(queue), NEW next \in SUBSET Marker, Derives(next, queue),
         IsFiniteSet(next), Cardinality(next) <= MaxPending
  PROVE  Sound(next)
<1>1. \A m \in next : \E k \in queue : SameWrite(m, k)
  BY DEF Derives
<1>2. \E b \in Nat : \A m \in next : m.sequence <= b
  BY <1>1 DEF Sound, SameWrite
<1>3. ASSUME NEW m \in next, NEW k \in next, m.sequence = k.sequence PROVE SameWrite(m, k)
  <2>1. PICK x \in queue : SameWrite(m, x)
    BY <1>1
  <2>2. PICK y \in queue : SameWrite(k, y)
    BY <1>1
  <2> QED BY <1>3, <2>1, <2>2 DEF Sound, SameWrite
<1>4. ASSUME NEW a \in next, NEW b \in next, a.noteId \in Notes, a.noteId = b.noteId,
             a.sequence < b.sequence
      PROVE  Rank(a.origin) <= Rank(b.origin)
  <2>1. PICK x \in queue : SameWrite(a, x)
    BY <1>1
  <2>2. PICK y \in queue : SameWrite(b, y)
    BY <1>1
  <2> QED BY <1>4, <2>1, <2>2 DEF Sound, SameWrite
<1> QED BY <1>2, <1>3, <1>4 DEF Sound

\* So is what an operation leaves that only takes markers away.
LEMMA SubsetIsSound ==
  ASSUME NEW queue, Sound(queue), NEW next \in SUBSET queue
  PROVE  Sound(next) /\ Derives(next, queue)
<1>1. next \in SUBSET Marker /\ Derives(next, queue)
  BY SubsetDerives DEF Sound
<1>2. IsFiniteSet(next) /\ Cardinality(next) <= Cardinality(queue)
  BY FS_Subset DEF Sound
<1>3. Cardinality(next) \in Nat /\ Cardinality(queue) \in Nat
  BY <1>2, FS_CardinalityType DEF Sound
<1>4. Cardinality(next) <= MaxPending
  BY <1>2, <1>3, MaxPendingAssumption DEF Sound
<1> QED BY <1>1, <1>2, <1>4, DerivedIsSound

\* ... and one new write, under a sequence above every other, that sheds no
\* origin.
LEMMA NewWriteIsSound ==
  ASSUME NEW queue, Sound(queue), NEW new \in Marker, NEW next \in SUBSET Marker,
         DerivesWith(next, queue, new), IsFiniteSet(next), Cardinality(next) <= MaxPending,
         \A k \in queue : k.sequence < new.sequence,
         new.noteId \in Notes => OriginTops(new, queue)
  PROVE  Sound(next)
<1>1. \A m \in next : m = new \/ \E k \in queue : SameWrite(m, k)
  BY DEF DerivesWith
<1>2. new.sequence \in Nat /\ \A m \in next : m.sequence \in Nat
  BY DEF Marker
<1>3. \A m \in next : m = new \/ m.sequence < new.sequence
  BY <1>1 DEF SameWrite
<1>4. \E b \in Nat : \A m \in next : m.sequence <= b
  BY <1>2, <1>3
<1>5. ASSUME NEW m \in next, NEW k \in next, m.sequence = k.sequence PROVE SameWrite(m, k)
  <2>1. CASE m = new \/ k = new
    BY <1>2, <1>3, <1>5, <2>1 DEF SameWrite
  <2>2. CASE m # new /\ k # new
    <3>1. PICK x \in queue : SameWrite(m, x)
      BY <1>1, <2>2
    <3>2. PICK y \in queue : SameWrite(k, y)
      BY <1>1, <2>2
    <3> QED BY <1>5, <3>1, <3>2 DEF Sound, SameWrite
  <2> QED BY <2>1, <2>2
<1>6. ASSUME NEW a \in next, NEW b \in next, a.noteId \in Notes, a.noteId = b.noteId,
             a.sequence < b.sequence
      PROVE  Rank(a.origin) <= Rank(b.origin)
  <2>1. a # new
    BY <1>2, <1>3, <1>6
  <2>2. PICK x \in queue : SameWrite(a, x)
    BY <1>1, <2>1
  <2>3. CASE b = new
    BY <1>6, <2>2, <2>3 DEF OriginTops, SameWrite
  <2>4. CASE b # new
    <3>1. PICK y \in queue : SameWrite(b, y)
      BY <1>1, <2>4
    <3> QED BY <1>6, <2>2, <3>1 DEF Sound, SameWrite
  <2> QED BY <2>3, <2>4
<1> QED BY <1>4, <1>5, <1>6 DEF Sound

\* What one step makes of a blocking marker m without an upload or a
\* withdrawal: it stays, approved or not, or one that outranks it blocks in its
\* place.
Keeps(queue, m) ==
  \/ m \in queue
  \/ [m EXCEPT !.approved = TRUE] \in queue
  \/ \E k \in Blocking(queue) :
       /\ k.sequence > m.sequence
       /\ Rank(k.origin) >= Rank(m.origin)
       /\ k.noteId = m.noteId \/ m.noteId = Reserved

\* A new marker that outranks a blocking one blocks as well.
LEMMA OutrankingBlocks ==
  ASSUME NEW m \in Marker, ~Settled(m), NEW op \in Operations,
         NEW id \in Notes \cup {Reserved}, NEW seq \in Nat \ {0}, NEW org \in Origins,
         Rank(m.origin) <= Rank(org)
  PROVE  ~Settled(NewMarker(op, id, seq, org))
BY DEF Settled, NewMarker, Marker, Rank, Origins

\* ... and keeps it.
LEMMA OutrankingKeeps ==
  ASSUME NEW queue, NEW m \in Marker, ~Settled(m), NEW op \in Operations, NEW id \in Notes,
         NEW seq \in Nat \ {0}, m.sequence < seq, NEW org \in Origins,
         Rank(m.origin) <= Rank(org), NewMarker(op, id, seq, org) \in queue,
         id = m.noteId \/ m.noteId = Reserved
  PROVE  Keeps(queue, m)
<1> DEFINE new == NewMarker(op, id, seq, org)
<1>1. new \in Blocking(queue)
  BY OutrankingBlocks DEF Blocking
<1>2. new.sequence = seq /\ new.noteId = id /\ new.origin = org
  BY DEF NewMarker
<1> HIDE DEF new
<1>3. m.sequence \in Nat /\ Rank(m.origin) \in Nat /\ Rank(org) \in Nat
  BY DEF Marker, Rank, Origins
<1> QED BY <1>1, <1>2, <1>3 DEF Keeps

-----------------------------------------------------------------------------
(* The queues that the operations compute, from the memory of a daemon that *)
(* runs.  Whether the save of one succeeds or fails late, it is sound and   *)
(* keeps what blocks.                                                       *)

\* What a step may assume of the queue in memory.
LEMMA PendingFacts ==
  ASSUME CoordinatorInv
  PROVE  /\ pending \in SUBSET Marker /\ stored \in SUBSET Marker
         /\ nextSequence \in Nat \ {0}
         /\ IsFiniteSet(pending) /\ Cardinality(pending) \in Nat
         /\ Cardinality(pending) <= MaxPending
         /\ \A m \in pending : m.sequence \in Nat
         /\ up => \A m \in pending : m.sequence < nextSequence
BY FS_CardinalityType
   DEF CoordinatorInv, CoordinatorTypeOK, Sound, NextIsFresh, Writes, Marker

\* `next` is the queue with one new write, under the next sequence.
Adds(next, new) ==
  /\ Sound(next)
  /\ next \subseteq pending \cup {new}
  /\ new \in Marker /\ new.sequence = nextSequence /\ ~new.approved

\* What is left to show of an operation that adds a write.
LEMMA AddsOne ==
  ASSUME CoordinatorInv, up, NEW next, NEW new \in Marker, new.sequence = nextSequence,
         ~new.approved, next \subseteq pending \cup {new},
         new.noteId \in Notes => OriginTops(new, pending), Cardinality(next) <= MaxPending
  PROVE  Adds(next, new)
<1>1. IsFiniteSet(pending \cup {new})
  BY PendingFacts, FS_AddElement
<1>2. IsFiniteSet(next)
  BY <1>1, FS_Subset
<1>3. next \in SUBSET Marker /\ DerivesWith(next, pending, new)
  BY PendingFacts DEF DerivesWith, SameWrite
<1>4. Sound(pending) /\ \A k \in pending : k.sequence < new.sequence
  BY PendingFacts DEF CoordinatorInv
<1>5. Sound(next)
  BY <1>2, <1>3, <1>4, NewWriteIsSound
<1> QED BY <1>5 DEF Adds

LEMMA CommitNext ==
  ASSUME CoordinatorInv, up, NEW op \in Operations, NEW id \in Notes, NEW org \in Origins,
         NEW next, next = Committed(pending, nextSequence, op, id, org),
         Cardinality(next) <= MaxPending
  PROVE  /\ \E new : Adds(next, new)
         /\ \A m \in Blocking(pending) : Keeps(next, m)
<1> DEFINE sticky == StickyOrigin(pending, id, org)
           new == NewMarker(op, id, nextSequence, sticky)
<1>1. pending \in SUBSET Marker /\ nextSequence \in Nat \ {0}
  BY PendingFacts
<1>2. sticky \in Origins /\ \A k \in pending : k.noteId = id => Rank(k.origin) <= Rank(sticky)
  BY <1>1, StickyOriginTops
<1>3. new \in next
  BY DEF Committed
<1>4. /\ next \subseteq pending \cup {new} /\ new \in Marker /\ new.sequence = nextSequence
      /\ OriginTops(new, pending)
  <2> HIDE DEF new, sticky
  <2>1. new = NewMarker(op, id, nextSequence, StickyOrigin(pending, id, org))
    BY DEF new, sticky
  <2> QED BY <1>1, <2>1, CommittedDerives
<1>5. ~new.approved
  BY DEF NewMarker
<1>6. \E x : Adds(next, x)
  <2> HIDE DEF new
  <2> QED BY <1>4, <1>5, AddsOne
<1>7. ASSUME NEW m \in Blocking(pending) PROVE Keeps(next, m)
  <2>1. m \in pending /\ m \in Marker /\ ~Settled(m) /\ m.sequence < nextSequence
    BY <1>1, PendingFacts DEF Blocking
  <2>2. CASE m \in next
    BY <2>2 DEF Keeps
  <2>3. CASE m \notin next
    <3>1. m.noteId = id
      BY <2>1, <2>3 DEF Committed
    <3> HIDE DEF sticky
    <3> QED BY <1>1, <1>2, <1>3, <2>1, <3>1, OutrankingKeeps
  <2> QED BY <2>2, <2>3
<1> QED BY <1>6, <1>7

\* Room for one more: the queue with one marker added is within the bound.
LEMMA RoomForOne ==
  ASSUME CoordinatorInv, HasRoom(pending), NEW new
  PROVE  Cardinality(pending \cup {new}) <= MaxPending
<1>1. Cardinality(pending \cup {new}) = IF new \in pending THEN Cardinality(pending)
                                                          ELSE Cardinality(pending) + 1
  BY PendingFacts, FS_AddElement
<1> QED BY <1>1, PendingFacts, MaxPendingAssumption DEF HasRoom

\* A queue that nothing left keeps everything.
LEMMA SupersetKeeps ==
  ASSUME NEW queue, NEW next, queue \subseteq next, NEW m \in Blocking(queue)
  PROVE  Keeps(next, m)
BY DEF Blocking, Keeps

LEMMA IntendNext ==
  ASSUME CoordinatorInv, up, HasRoom(pending),
         NEW op \in Operations, NEW id \in Notes, NEW org \in Origins,
         NEW next, next = Intended(pending, nextSequence, op, id, org),
         NEW new, new = NewMarker(op, id, nextSequence, StickyOrigin(pending, id, org))
  PROVE  /\ Adds(next, new) /\ next = pending \cup {new}
         /\ \A m \in Blocking(pending) : Keeps(next, m)
<1>1. next = pending \cup {new}
  BY DEF Intended
<1>2. new \in Marker /\ new.sequence = nextSequence /\ OriginTops(new, pending)
  <2>1. pending \in SUBSET Marker /\ nextSequence \in Nat \ {0}
    BY PendingFacts
  <2>2. /\ StickyOrigin(pending, id, org) \in Origins
        /\ \A k \in pending : k.noteId = id =>
             Rank(k.origin) <= Rank(StickyOrigin(pending, id, org))
    BY <2>1, StickyOriginTops
  <2> QED BY <2>1, <2>2, NewMarkerType DEF OriginTops
<1>3. ~new.approved
  BY DEF NewMarker
<1>4. Adds(next, new)
  BY <1>1, <1>2, <1>3, RoomForOne, AddsOne
<1> QED BY <1>1, <1>4, SupersetKeeps

LEMMA CreateIntendNext ==
  ASSUME CoordinatorInv, up, HasRoom(pending), NEW org \in Origins,
         NEW next, next = CreateIntended(pending, nextSequence, org),
         NEW new, new = NewMarker("create", Reserved, nextSequence, org)
  PROVE  /\ Adds(next, new) /\ next = pending \cup {new}
         /\ \A m \in Blocking(pending) : Keeps(next, m)
<1>1. next = pending \cup {new}
  BY DEF CreateIntended
<1>2. new \in Marker /\ new.sequence = nextSequence /\ new.noteId \notin Notes
  BY PendingFacts, NewMarkerType, ReservedAssumption DEF Operations
<1>3. ~new.approved
  BY DEF NewMarker
<1>4. Adds(next, new)
  BY <1>1, <1>2, <1>3, RoomForOne, AddsOne
<1> QED BY <1>1, <1>4, SupersetKeeps

LEMMA ResolveNext ==
  ASSUME CoordinatorInv, up, NEW token \in Marker, NEW id \in Notes,
         Placeholder(pending, token) # {},
         NEW next, next = Resolved(pending, nextSequence, token, id)
  PROVE  /\ \E new : Adds(next, new)
         /\ \A m \in Blocking(pending) : Keeps(next, m)
<1> DEFINE gone == CHOOSE k \in Placeholder(pending, token) : TRUE
           sticky == StickyOrigin(pending, id, gone.origin)
           new == NewMarker("create", id, nextSequence, sticky)
<1>1. pending \in SUBSET Marker /\ nextSequence \in Nat \ {0}
  BY PendingFacts
<1>2. gone \in pending /\ gone.noteId = Reserved /\ gone.origin \in Origins
  <2>1. gone \in Placeholder(pending, token)
    OBVIOUS
  <2> HIDE DEF gone
  <2> QED BY <1>1, <2>1 DEF Placeholder, Marker
<1>3. next = {m \in pending \ {gone} : m.operation # "create" \/ m.noteId # id} \cup {new}
  BY DEF Resolved
<1> HIDE DEF gone
<1>4. /\ sticky \in Origins /\ Rank(gone.origin) <= Rank(sticky)
      /\ \A k \in pending : k.noteId = id => Rank(k.origin) <= Rank(sticky)
  BY <1>1, <1>2, StickyOriginTops
<1>5. /\ new \in Marker /\ new.sequence = nextSequence /\ new.noteId = id
      /\ new.origin = sticky
  <2> HIDE DEF sticky
  <2> QED BY <1>1, <1>4, NewMarkerType DEF Operations
<1>6. ~new.approved
  BY DEF NewMarker
<1>7. ASSUME NEW m \in Blocking(pending) PROVE Keeps(next, m)
  <2>1. m \in pending /\ m \in Marker /\ ~Settled(m) /\ m.sequence < nextSequence
    BY <1>1, PendingFacts DEF Blocking
  <2>2. CASE m \in next
    BY <2>2 DEF Keeps
  <2>3. CASE m \notin next
    <3>1. m = gone \/ m.noteId = id
      BY <1>3, <2>1, <2>3
    <3>2. Rank(m.origin) <= Rank(sticky) /\ (id = m.noteId \/ m.noteId = Reserved)
      BY <1>2, <1>4, <2>1, <3>1
    <3>3. new \in next /\ "create" \in Operations
      BY <1>3 DEF Operations
    <3> HIDE DEF sticky
    <3> QED BY <1>1, <1>4, <2>1, <3>2, <3>3, OutrankingKeeps
  <2> QED BY <2>2, <2>3
<1> HIDE DEF new, sticky
<1>8. OriginTops(new, pending)
  BY <1>4, <1>5 DEF OriginTops
<1>9. Cardinality(next) <= MaxPending
  <2> DEFINE rest == pending \ {gone}
  <2>1. IsFiniteSet(rest) /\ Cardinality(rest) = Cardinality(pending) - 1
    BY <1>2, PendingFacts, FS_RemoveElement
  <2>2. next \in SUBSET (rest \cup {new})
    BY <1>3
  <2> HIDE DEF rest
  <2>3. /\ IsFiniteSet(rest \cup {new})
        /\ Cardinality(rest \cup {new}) = IF new \in rest THEN Cardinality(rest)
                                                         ELSE Cardinality(rest) + 1
    BY <2>1, FS_AddElement
  <2>4. Cardinality(next) <= Cardinality(rest \cup {new}) /\ IsFiniteSet(next)
    BY <2>2, <2>3, FS_Subset
  <2>5. Cardinality(next) \in Nat /\ Cardinality(rest \cup {new}) \in Nat
    BY <2>3, <2>4, FS_CardinalityType
  <2> QED BY <2>1, <2>3, <2>4, <2>5, PendingFacts, MaxPendingAssumption
<1>10. next \subseteq pending \cup {new}
  BY <1>3
<1>11. Adds(next, new)
  BY <1>5, <1>6, <1>8, <1>9, <1>10, AddsOne
<1> QED BY <1>7, <1>11

\* releaseIntent() keeps every write but the token's, #removeBatch() every
\* write but the batch's.
LEMMA RemovalNext ==
  ASSUME CoordinatorInv, NEW token, NEW batch
  PROVE  /\ Sound(Released(pending, token)) /\ Derives(Released(pending, token), pending)
         /\ Sound(WithoutBatch(pending, batch)) /\ Derives(WithoutBatch(pending, batch), pending)
         /\ \A m \in pending : m \in Released(pending, token) \/ m.sequence = token.sequence
         /\ \A m \in pending : \/ m \in WithoutBatch(pending, batch)
                               \/ \E b \in batch : b.sequence = m.sequence
<1>1. Released(pending, token) \in SUBSET pending /\ WithoutBatch(pending, batch) \in SUBSET pending
  BY RemovalsAreSubsets
<1>2. Sound(pending)
  BY DEF CoordinatorInv
<1>3. /\ Sound(Released(pending, token)) /\ Derives(Released(pending, token), pending)
      /\ Sound(WithoutBatch(pending, batch)) /\ Derives(WithoutBatch(pending, batch), pending)
  BY <1>1, <1>2, SubsetIsSound
<1> QED BY <1>3 DEF Released, WithoutBatch

LEMMA ApproveNext ==
  ASSUME CoordinatorInv, NEW through
  PROVE  /\ Sound(Approved(pending, through)) /\ Derives(Approved(pending, through), pending)
         /\ \A m \in Blocking(pending) : Keeps(Approved(pending, through), m)
<1> DEFINE next == Approved(pending, through)
<1>1. /\ next \in SUBSET Marker /\ Derives(next, pending)
      /\ IsFiniteSet(next) /\ Cardinality(next) <= Cardinality(pending)
  BY PendingFacts, ApprovedDerives
<1>2. \A m \in pending : m \in next \/ [m EXCEPT !.approved = TRUE] \in next
  BY DEF Approved
<1> HIDE DEF next
<1>3. Cardinality(next) <= MaxPending
  BY <1>1, PendingFacts, FS_CardinalityType, MaxPendingAssumption
<1>4. Sound(next)
  BY <1>1, <1>3, DerivedIsSound DEF CoordinatorInv
<1>5. \A m \in Blocking(pending) : Keeps(next, m)
  BY <1>2 DEF Blocking, Keeps
<1> QED BY <1>1, <1>4, <1>5 DEF next

-----------------------------------------------------------------------------
(* The steps.                                                              *)

LEMMA InitInv == CoordinatorInit => CoordinatorInv
<1> SUFFICES ASSUME CoordinatorInit PROVE CoordinatorInv
  OBVIOUS
<1> USE DEF CoordinatorInit
<1>1. NextSequence({}) = 1
  BY DEF NextSequence, Highest
<1>2. Sound({})
  BY FS_EmptySet, MaxPendingAssumption DEF Sound
<1>3. CoordinatorTypeOK
  <2>1. NoFlight \in Flight
    BY DEF NoFlight, Flight, Phases, Policies
  <2>2. crashes \in 0 .. CrashBound
    BY CrashBoundAssumption
  <2>3. up \in BOOLEAN /\ hold \in BOOLEAN
    OBVIOUS
  <2>4. nextSequence \in Nat \ {0}
    BY <1>1
  <2> QED BY <2>1, <2>2, <2>3, <2>4 DEF CoordinatorTypeOK
<1> QED BY <1>2, <1>3
        DEF CoordinatorInv, NothingSurvivesStop, NextIsFresh, SequenceNamesOneWrite, Writes, NoFlight

\* A drain exists only in a daemon that runs, and ends in no drain.
LEMMA FlightFacts ==
  ASSUME CoordinatorInv
  PROVE  /\ flight.phase # "idle" => up
         /\ NoFlight \in Flight /\ NoFlight.batch = {} /\ NoFlight.phase = "idle"
         /\ flight \in Flight /\ flight.batch \subseteq Marker /\ hold \in BOOLEAN
BY DEF CoordinatorInv, CoordinatorTypeOK, NothingSurvivesStop, NoFlight, Flight, Phases, Policies

\* A save took a queue with one new write.
LEMMA AddedInv ==
  ASSUME CoordinatorInv, up, UNCHANGED <<up, crashes, flight, hold>>,
         NEW next, NEW new, Adds(next, new), Save(next),
         nextSequence' = nextSequence + 1, intents' \subseteq intents \cup {new}
  PROVE  CoordinatorInv'
<1>1. stored' = next /\ pending' = next
  BY DEF Save
<1>2. /\ nextSequence \in Nat \ {0} /\ Sound(next) /\ next \subseteq pending \cup {new}
      /\ new \in Marker /\ new.sequence = nextSequence
  BY PendingFacts DEF Adds
<1>3. CoordinatorTypeOK'
  <2>1. next \subseteq Marker
    BY <1>2 DEF Sound
  <2> QED BY <1>1, <1>2, <2>1 DEF CoordinatorInv, CoordinatorTypeOK
<1>4. \A m \in Writes : m.sequence < nextSequence /\ m.sequence \in Nat
  BY FlightFacts DEF CoordinatorInv, NextIsFresh, Writes, CoordinatorTypeOK, Marker
<1>5. \A m \in Writes' : m = new \/ m \in Writes
  BY <1>1, <1>2 DEF Writes
<1>6. NextIsFresh'
  BY <1>2, <1>4, <1>5 DEF NextIsFresh
<1>7. SequenceNamesOneWrite'
  <2> SUFFICES ASSUME NEW m \in next, NEW k \in Writes', m.sequence = k.sequence
               PROVE  m.operation = k.operation /\ m.noteId = k.noteId /\ m.origin = k.origin
    BY <1>1 DEF SequenceNamesOneWrite, Writes
  <2>1. CASE m = new \/ k = new
    <3>1. m \in Writes'
      BY <1>1 DEF Writes
    <3>2. m = k
      BY <1>2, <1>4, <1>5, <2>1, <3>1
    <3> QED BY <3>2
  <2>2. CASE m # new /\ k # new
    <3>1. m \in pending /\ k \in Writes
      BY <1>2, <1>5, <2>2
    <3> QED BY <3>1 DEF CoordinatorInv, SequenceNamesOneWrite, Writes
  <2> QED BY <2>1, <2>2
<1> QED BY <1>1, <1>2, <1>3, <1>6, <1>7 DEF CoordinatorInv, NothingSurvivesStop

\* A step that brings no new write into the memory, whatever sound queue it
\* puts into the row.
LEMMA NothingAddedInv ==
  ASSUME CoordinatorInv, up, UNCHANGED <<up, crashes, nextSequence>>,
         Sound(pending'), Derives(pending', pending), Sound(stored'),
         hold' \in BOOLEAN, flight' \in Flight,
         flight'.batch \subseteq flight.batch \cup pending, intents' \subseteq intents
  PROVE  CoordinatorInv'
<1>1. CoordinatorTypeOK'
  BY DEF CoordinatorInv, CoordinatorTypeOK, Sound
<1>2. \A m \in pending' : \E k \in pending : SameWrite(m, k)
  BY DEF Derives
<1>3. \A m \in Writes' : \E k \in Writes : SameWrite(m, k)
  BY <1>2 DEF Writes, SameWrite
<1>4. NextIsFresh'
  BY <1>3 DEF CoordinatorInv, NextIsFresh, SameWrite
<1>5. SequenceNamesOneWrite'
  <2> SUFFICES ASSUME NEW m \in pending', NEW k \in Writes', m.sequence = k.sequence
               PROVE  m.operation = k.operation /\ m.noteId = k.noteId /\ m.origin = k.origin
    BY DEF SequenceNamesOneWrite, Writes
  <2>1. PICK a \in pending : SameWrite(m, a)
    BY <1>2
  <2>2. PICK b \in Writes : SameWrite(k, b)
    BY <1>3
  <2> QED BY <2>1, <2>2 DEF CoordinatorInv, SequenceNamesOneWrite, Writes, SameWrite
<1> QED BY <1>1, <1>4, <1>5 DEF CoordinatorInv, NothingSurvivesStop

\* ... with the memory as it was.
LEMMA MemoryUntouchedInv ==
  ASSUME CoordinatorInv, up, UNCHANGED <<up, crashes, pending, nextSequence>>, Sound(stored'),
         hold' \in BOOLEAN, flight' \in Flight,
         flight'.batch \subseteq flight.batch \cup pending, intents' \subseteq intents
  PROVE  CoordinatorInv'
<1>1. Sound(pending') /\ Derives(pending', pending)
  BY DEF CoordinatorInv, Derives, SameWrite
<1> QED BY <1>1, NothingAddedInv

\* ... a save that took a queue without a new write, or failed late.
LEMMA DerivedInv ==
  ASSUME CoordinatorInv, up, UNCHANGED <<up, crashes, nextSequence>>,
         NEW next, Sound(next), Derives(next, pending),
         \/ Save(next)
         \/ SaveFails(next)
         \/ UNCHANGED <<pending, stored>>,
         hold' \in BOOLEAN, flight' \in Flight,
         flight'.batch \subseteq flight.batch, intents' \subseteq intents
  PROVE  CoordinatorInv'
<1>1. CASE Save(next)
  BY <1>1, NothingAddedInv DEF Save
<1>2. CASE ~Save(next)
  <2>1. UNCHANGED pending /\ (stored' = stored \/ stored' = next)
    BY <1>2 DEF SaveFails, SaveThrowsLate
  <2>2. Sound(stored')
    BY <2>1 DEF CoordinatorInv
  <2> QED BY <2>1, <2>2, MemoryUntouchedInv
<1> QED BY <1>1, <1>2

\* A save of a queue with a new write failed late: the row has it, the memory
\* goes on without.
LEMMA ThrownLateInv ==
  ASSUME CoordinatorInv, up, UNCHANGED <<up, crashes, flight, hold>>,
         NEW next, Sound(next), SaveThrowsLate(next), intents' \subseteq intents
  PROVE  CoordinatorInv'
<1>1. stored' = next /\ UNCHANGED <<pending, nextSequence>>
  BY DEF SaveThrowsLate
<1> QED BY <1>1, FlightFacts, MemoryUntouchedInv

-----------------------------------------------------------------------------
(* The callers.                                                            *)

LEMMA RecordLocalCommitInv ==
  ASSUME CoordinatorInv, NEW op \in Operations, NEW id \in Notes, NEW org \in Origins,
         RecordLocalCommit(op, id, org), intents' \subseteq intents, Untouched
  PROVE  CoordinatorInv'
<1> DEFINE next == Committed(pending, nextSequence, op, id, org)
<1>1. /\ up /\ Cardinality(next) <= MaxPending /\ Save(next)
      /\ nextSequence' = nextSequence + 1 /\ UNCHANGED <<up, crashes, flight, hold>>
  BY DEF RecordLocalCommit, Untouched, drainVars
<1>2. PICK new : Adds(next, new)
  BY <1>1, CommitNext
<1> HIDE DEF next
<1> QED BY <1>1, <1>2, AddedInv

LEMMA RecordIntentInv ==
  ASSUME CoordinatorInv, NEW op \in Operations, NEW id \in Notes, NEW org \in Origins,
         RecordIntent(op, id, org), Untouched
  PROVE  CoordinatorInv'
<1> DEFINE next == Intended(pending, nextSequence, op, id, org)
           new == NewMarker(op, id, nextSequence, StickyOrigin(pending, id, org))
<1>1. /\ up /\ HasRoom(pending) /\ Save(next) /\ intents' = intents \cup {new}
      /\ nextSequence' = nextSequence + 1 /\ UNCHANGED <<up, crashes, flight, hold>>
  BY DEF RecordIntent, Untouched, drainVars
<1>2. Adds(next, new)
  BY <1>1, IntendNext
<1> HIDE DEF next, new
<1> QED BY <1>1, <1>2, AddedInv

LEMMA RecordCreateIntentInv ==
  ASSUME CoordinatorInv, NEW org \in Origins, RecordCreateIntent(org), Untouched
  PROVE  CoordinatorInv'
<1> DEFINE next == CreateIntended(pending, nextSequence, org)
           new == NewMarker("create", Reserved, nextSequence, org)
<1>1. /\ up /\ HasRoom(pending) /\ Save(next) /\ intents' = intents \cup {new}
      /\ nextSequence' = nextSequence + 1 /\ UNCHANGED <<up, crashes, flight, hold>>
  BY DEF RecordCreateIntent, Untouched, drainVars
<1>2. Adds(next, new)
  BY <1>1, CreateIntendNext
<1> HIDE DEF next, new
<1> QED BY <1>1, <1>2, AddedInv

LEMMA ResolveCreateIntentInv ==
  ASSUME CoordinatorInv, NEW token \in Marker, NEW id \in Notes,
         ResolveCreateIntent(token, id), intents' \subseteq intents, Untouched
  PROVE  CoordinatorInv'
<1>1. up /\ UNCHANGED <<up, crashes, flight, hold>>
  BY DEF ResolveCreateIntent, Untouched, drainVars
<1>2. CASE Placeholder(pending, token) = {}
  <2>1. UNCHANGED <<pending, stored, nextSequence>>
    BY <1>2 DEF ResolveCreateIntent
  <2>2. Sound(stored')
    BY <2>1 DEF CoordinatorInv
  <2> QED BY <1>1, <2>1, <2>2, FlightFacts, MemoryUntouchedInv
<1>3. CASE Placeholder(pending, token) # {}
  <2> DEFINE next == Resolved(pending, nextSequence, token, id)
  <2>1. Save(next) /\ nextSequence' = nextSequence + 1
    BY <1>3 DEF ResolveCreateIntent
  <2>2. PICK new : Adds(next, new)
    BY <1>1, <1>3, ResolveNext
  <2> HIDE DEF next
  <2> QED BY <1>1, <2>1, <2>2, AddedInv
<1> QED BY <1>2, <1>3

LEMMA ReleaseIntentInv ==
  ASSUME CoordinatorInv, NEW token, ReleaseIntent(token), intents' \subseteq intents, Untouched
  PROVE  CoordinatorInv'
<1>1. up /\ UNCHANGED <<up, crashes, nextSequence, flight, hold>>
  BY DEF ReleaseIntent, Untouched, drainVars
<1>2. Sound(Released(pending, token)) /\ Derives(Released(pending, token), pending)
  BY RemovalNext
<1>3. Save(Released(pending, token)) \/ UNCHANGED <<pending, stored>>
  BY DEF ReleaseIntent
<1> QED BY <1>1, <1>2, <1>3, FlightFacts, DerivedInv

LEMMA ApprovePendingInv ==
  ASSUME CoordinatorInv, NEW through, ApprovePending(through), UNCHANGED intents, Untouched
  PROVE  CoordinatorInv'
<1>1. up /\ UNCHANGED <<up, crashes, nextSequence, flight, hold>>
  BY DEF ApprovePending, Untouched, drainVars
<1>2. Sound(Approved(pending, through)) /\ Derives(Approved(pending, through), pending)
  BY ApproveNext
<1>3. Save(Approved(pending, through)) \/ UNCHANGED <<pending, stored>>
  BY DEF ApprovePending
<1> QED BY <1>1, <1>2, <1>3, FlightFacts, DerivedInv

\* The queues of the saves that fail late are those of the operations.
LEMMA FailingNext ==
  ASSUME CoordinatorInv, RecordingFails \/ ResolvingFails
  PROVE  /\ \E new : Adds(stored', new)
         /\ \A m \in Blocking(pending) : Keeps(stored', m)
<1>1. up /\ intents \subseteq Marker
  BY DEF RecordingFails, ResolvingFails, CoordinatorInv, CoordinatorTypeOK
<1>2. Kinds \cup {"create"} \subseteq Operations /\ Kinds \subseteq Operations /\ Claims \subseteq Origins
  BY KindsAssumption, ClaimsAssumption DEF Operations
<1>3. ASSUME NEW op \in Kinds \cup {"create"}, NEW id \in Notes, NEW org \in Claims,
             Cardinality(Committed(pending, nextSequence, op, id, org)) <= MaxPending,
             SaveThrowsLate(Committed(pending, nextSequence, op, id, org))
      PROVE  (\E new : Adds(stored', new)) /\ \A m \in Blocking(pending) : Keeps(stored', m)
  <2>1. stored' = Committed(pending, nextSequence, op, id, org)
    BY <1>3 DEF SaveThrowsLate
  <2>2. op \in Operations /\ org \in Origins
    BY <1>2
  <2> QED BY <1>1, <1>3, <2>1, <2>2, CommitNext
<1>4. ASSUME NEW op \in Kinds, NEW id \in Notes, NEW org \in Claims, HasRoom(pending),
             SaveThrowsLate(Intended(pending, nextSequence, op, id, org))
      PROVE  (\E new : Adds(stored', new)) /\ \A m \in Blocking(pending) : Keeps(stored', m)
  <2>1. stored' = Intended(pending, nextSequence, op, id, org)
    BY <1>4 DEF SaveThrowsLate
  <2>2. op \in Operations /\ org \in Origins
    BY <1>2
  <2> QED BY <1>1, <1>4, <2>1, <2>2, IntendNext
<1>5. ASSUME NEW org \in Claims, HasRoom(pending),
             SaveThrowsLate(CreateIntended(pending, nextSequence, org))
      PROVE  (\E new : Adds(stored', new)) /\ \A m \in Blocking(pending) : Keeps(stored', m)
  <2>1. stored' = CreateIntended(pending, nextSequence, org)
    BY <1>5 DEF SaveThrowsLate
  <2>2. org \in Origins
    BY <1>2
  <2> QED BY <1>1, <1>5, <2>1, <2>2, CreateIntendNext
<1>6. ASSUME NEW token \in intents, NEW id \in Notes, Placeholder(pending, token) # {},
             SaveThrowsLate(Resolved(pending, nextSequence, token, id))
      PROVE  (\E new : Adds(stored', new)) /\ \A m \in Blocking(pending) : Keeps(stored', m)
  <2>1. stored' = Resolved(pending, nextSequence, token, id)
    BY <1>6 DEF SaveThrowsLate
  <2>2. token \in Marker
    BY <1>1
  <2> QED BY <1>1, <1>6, <2>1, <2>2, ResolveNext
<1>7. CASE RecordingFails
  BY <1>3, <1>4, <1>5, <1>7 DEF RecordingFails
<1>8. CASE ResolvingFails
  BY <1>6, <1>8 DEF ResolvingFails
<1> QED BY <1>7, <1>8

LEMMA FailuresInv ==
  CoordinatorInv /\ (RecordingFails \/ ResolvingFails \/ ReleasingFails \/ ApprovingFails)
    => CoordinatorInv'
<1> SUFFICES ASSUME CoordinatorInv,
                    RecordingFails \/ ResolvingFails \/ ReleasingFails \/ ApprovingFails
             PROVE  CoordinatorInv'
  OBVIOUS
<1>1. up /\ UNCHANGED <<up, crashes, flight, hold, intents>> /\ UNCHANGED <<pending, nextSequence>>
  BY DEF RecordingFails, ResolvingFails, ReleasingFails, ApprovingFails, SaveThrowsLate,
         Untouched, drainVars
<1>2. Sound(stored')
  <2>1. CASE RecordingFails \/ ResolvingFails
    BY <2>1, FailingNext DEF Adds
  <2>2. CASE ReleasingFails
    BY <2>2, RemovalNext DEF ReleasingFails, SaveThrowsLate
  <2>3. CASE ApprovingFails
    BY <2>3, ApproveNext DEF ApprovingFails, SaveThrowsLate
  <2> QED BY <2>1, <2>2, <2>3
<1> QED BY <1>1, <1>2, FlightFacts, MemoryUntouchedInv

\* Whatever the callers do, in any order, with any token they still hold.
LEMMA CallersInv ==
  CoordinatorInv /\ (\/ CallerCommits \/ CallerIntends \/ CallerIntendsCreate
                     \/ CallerResolves \/ CallerReleases \/ CallerApproves)
    => CoordinatorInv'
<1> SUFFICES ASSUME CoordinatorInv PROVE
      (\/ CallerCommits \/ CallerIntends \/ CallerIntendsCreate
       \/ CallerResolves \/ CallerReleases \/ CallerApproves) => CoordinatorInv'
  OBVIOUS
<1>1. /\ Kinds \cup {"create"} \subseteq Operations /\ Kinds \subseteq Operations
      /\ Claims \subseteq Origins
  BY KindsAssumption, ClaimsAssumption DEF Operations
<1>2. intents \subseteq Marker
  BY DEF CoordinatorInv, CoordinatorTypeOK
<1>3. CASE CallerCommits
  BY <1>1, <1>3, RecordLocalCommitInv DEF CallerCommits
<1>4. CASE CallerIntends
  BY <1>1, <1>4, RecordIntentInv DEF CallerIntends
<1>5. CASE CallerIntendsCreate
  BY <1>1, <1>5, RecordCreateIntentInv DEF CallerIntendsCreate
<1>6. CASE CallerResolves
  BY <1>2, <1>6, ResolveCreateIntentInv DEF CallerResolves
<1>7. CASE CallerReleases
  BY <1>7, ReleaseIntentInv DEF CallerReleases
<1>8. CASE CallerApproves
  BY <1>8, ApprovePendingInv DEF CallerApproves
<1> QED BY <1>3, <1>4, <1>5, <1>6, <1>7, <1>8

LEMMA ForgetsInv == CoordinatorInv /\ CallerForgets => CoordinatorInv'
<1> SUFFICES ASSUME CoordinatorInv, CallerForgets PROVE CoordinatorInv'
  OBVIOUS
<1>1. up /\ UNCHANGED <<up, crashes, pending, nextSequence, stored, flight, hold>>
        /\ intents' \subseteq intents
  BY DEF CallerForgets, Untouched, drainVars
<1>2. Sound(stored')
  BY <1>1 DEF CoordinatorInv
<1> QED BY <1>1, <1>2, FlightFacts, MemoryUntouchedInv

-----------------------------------------------------------------------------
(* The drain.                                                              *)

LEMMA RequestsSyncInv == CoordinatorInv /\ CallerRequestsSync => CoordinatorInv'
<1> SUFFICES ASSUME CoordinatorInv, NEW policy \in Requested, RequestSync(policy)
             PROVE  CoordinatorInv'
  BY DEF CallerRequestsSync
<1>1. /\ up /\ UNCHANGED <<up, crashes, pending, nextSequence, stored, hold, intents>>
      /\ flight' = [phase |-> IF hold THEN "gap" ELSE "gate", batch |-> pending,
                    policy |-> policy, attempt |-> 1]
  BY DEF RequestSync, queueVars
<1>2. flight' \in Flight /\ flight'.batch \subseteq flight.batch \cup pending
  BY <1>1, PendingFacts, RequestedAssumption DEF Flight, Phases, Policies
<1>3. Sound(stored') /\ hold' \in BOOLEAN
  BY <1>1, FlightFacts DEF CoordinatorInv
<1> QED BY <1>1, <1>2, <1>3, MemoryUntouchedInv

LEMMA DrainInv ==
  CoordinatorInv /\ (ExecutorGate \/ UploadAnswers \/ Timers \/ HoldElapses) => CoordinatorInv'
<1> SUFFICES ASSUME CoordinatorInv, ExecutorGate \/ UploadAnswers \/ Timers \/ HoldElapses
             PROVE  CoordinatorInv'
  OBVIOUS
<1>1. CASE UploadConfirmed \/ UploadConfirmedUnsaved
  <2> DEFINE next == WithoutBatch(pending, flight.batch)
  <2>1. /\ Save(next) \/ SaveFails(next)
        /\ up /\ UNCHANGED <<up, crashes, intents, nextSequence>>
        /\ flight' = NoFlight /\ hold' = TRUE
    BY <1>1, FlightFacts
       DEF UploadConfirmed, UploadConfirmedUnsaved, SaveFails, SaveThrowsLate, FlightEnds
  <2>2. Sound(next) /\ Derives(next, pending)
    BY RemovalNext
  <2>3. flight' \in Flight /\ flight'.batch \subseteq flight.batch /\ hold' \in BOOLEAN
    BY <2>1, FlightFacts
  <2> HIDE DEF next
  <2> QED BY <2>1, <2>2, <2>3, DerivedInv
<1>2. CASE ~(UploadConfirmed \/ UploadConfirmedUnsaved)
  <2>1. up /\ UNCHANGED <<up, crashes, pending, nextSequence, stored, intents>>
    BY <1>2, FlightFacts
       DEF ExecutorGate, GatePasses, GateRefuses, UploadAnswers, UploadFails, UploadRetries, Timers,
           GapElapses, BackoffElapses, SleepFails, HoldElapses, queueVars
  <2>2. Sound(stored') /\ flight \in Flight /\ hold \in BOOLEAN
    BY <2>1, FlightFacts DEF CoordinatorInv
  <2>3. CASE flight' = NoFlight /\ hold' = TRUE
    BY <2>1, <2>2, <2>3, FlightFacts, MemoryUntouchedInv
  <2>4. ASSUME NEW phase \in Phases, flight' = [flight EXCEPT !.phase = phase], hold' \in BOOLEAN
        PROVE  CoordinatorInv'
    <3>1. flight' \in Flight /\ flight'.batch = flight.batch
      BY <2>2, <2>4 DEF Flight
    <3> QED BY <2>1, <2>2, <2>4, <3>1, MemoryUntouchedInv
  <2>5. CASE BackoffElapses
    <3>1. /\ flight' = [flight EXCEPT !.phase = "gate", !.attempt = flight.attempt + 1]
          /\ hold' = hold
      BY <2>5 DEF BackoffElapses
    <3>2. flight' = [phase |-> "gate", batch |-> flight.batch, policy |-> flight.policy,
                     attempt |-> flight.attempt + 1]
      BY <2>2, <3>1 DEF Flight
    <3>3. flight' \in Flight /\ flight'.batch = flight.batch
      BY <2>2, <3>2 DEF Flight, Phases
    <3> QED BY <2>1, <2>2, <3>1, <3>3, MemoryUntouchedInv
  <2>6. CASE HoldElapses
    BY <2>1, <2>2, <2>6, MemoryUntouchedInv DEF HoldElapses
  <2>7. CASE ExecutorGate
    BY <2>2, <2>3, <2>4, <2>7 DEF ExecutorGate, GatePasses, GateRefuses, FlightEnds, Phases
  <2>8. CASE UploadFails \/ UploadRetries
    BY <2>2, <2>3, <2>4, <2>8 DEF UploadFails, UploadRetries, FlightEnds, Phases
  <2>9. CASE GapElapses \/ SleepFails
    BY <2>3, <2>4, <2>9 DEF GapElapses, SleepFails, FlightEnds, Phases
  <2> QED BY <1>2, <2>5, <2>6, <2>7, <2>8, <2>9 DEF UploadAnswers, Timers
<1> QED BY <1>1, <1>2

-----------------------------------------------------------------------------
(* Crash and restart.                                                      *)

LEMMA CrashInv == CoordinatorInv /\ Crash => CoordinatorInv'
<1> SUFFICES ASSUME CoordinatorInv, Crash PROVE CoordinatorInv'
  OBVIOUS
<1>1. /\ up' = FALSE /\ pending' = {} /\ nextSequence' = NextSequence({})
      /\ flight' = NoFlight /\ hold' = FALSE /\ intents' = {} /\ stored' = stored
      /\ crashes < CrashBound /\ crashes' = crashes + 1
  BY DEF Crash
<1>2. NextSequence({}) = 1
  BY DEF NextSequence, Highest
<1>3. Sound({}) /\ Sound(stored)
  BY FS_EmptySet, MaxPendingAssumption DEF Sound, CoordinatorInv
<1>4. CoordinatorTypeOK'
  <2>1. crashes' \in 0 .. CrashBound
    BY <1>1, CrashBoundAssumption DEF CoordinatorInv, CoordinatorTypeOK
  <2>2. nextSequence' \in Nat \ {0}
    BY <1>1, <1>2
  <2>3. up' \in BOOLEAN /\ hold' \in BOOLEAN
    BY <1>1
  <2> QED BY <1>1, PendingFacts, <2>1, <2>2, <2>3, FlightFacts DEF CoordinatorTypeOK
<1> QED BY <1>1, <1>3, <1>4
        DEF CoordinatorInv, NothingSurvivesStop, NextIsFresh, SequenceNamesOneWrite

LEMMA RestartInv == CoordinatorInv /\ Restart => CoordinatorInv'
<1> SUFFICES ASSUME CoordinatorInv, Restart PROVE CoordinatorInv'
  OBVIOUS
<1>1. /\ ~up /\ up' = TRUE /\ pending' = stored /\ nextSequence' = NextSequence(stored)
      /\ UNCHANGED <<stored, flight, hold, intents, crashes>>
  BY DEF Restart, drainVars
<1>2. flight = NoFlight /\ intents = {} /\ stored \in SUBSET Marker /\ Sound(stored)
  BY <1>1, PendingFacts DEF CoordinatorInv, NothingSurvivesStop
<1>3. PICK b \in Nat : \A m \in stored : m.sequence <= b
  BY <1>2 DEF Sound
<1>4. Highest(stored) \in Nat /\ \A m \in stored : m.sequence <= Highest(stored)
  BY <1>2, <1>3, HighestType
<1>5. nextSequence' \in Nat \ {0} /\ \A m \in stored : m.sequence < nextSequence'
  BY <1>1, <1>2, <1>4 DEF NextSequence, Marker
<1>6. Writes' = stored
  BY <1>1, <1>2 DEF Writes, NoFlight
<1>7. NextIsFresh' /\ SequenceNamesOneWrite'
  BY <1>1, <1>2, <1>5, <1>6 DEF NextIsFresh, SequenceNamesOneWrite, Writes, Sound, SameWrite
<1>8. CoordinatorTypeOK'
  <2>1. up' \in BOOLEAN
    BY <1>1
  <2> QED BY <1>1, <1>2, <1>5, <2>1 DEF CoordinatorInv, CoordinatorTypeOK
<1> QED BY <1>1, <1>2, <1>7, <1>8 DEF CoordinatorInv, NothingSurvivesStop

-----------------------------------------------------------------------------
(* The theorems.                                                           *)

\* Every step of the coordinator, its callers and its process keeps the
\* inductive invariant.
LEMMA StepInv == CoordinatorInv /\ [CoordinatorNext]_coordinatorVars => CoordinatorInv'
<1> SUFFICES ASSUME CoordinatorInv, [CoordinatorNext]_coordinatorVars PROVE CoordinatorInv'
  OBVIOUS
<1>1. CASE CoordinatorNext
  BY <1>1, CallersInv, ForgetsInv, FailuresInv, RequestsSyncInv, DrainInv, CrashInv, RestartInv
     DEF CoordinatorNext
<1>2. CASE UNCHANGED coordinatorVars
  <2>1. UNCHANGED <<up, pending, nextSequence, stored, intents, flight, hold, crashes>>
    BY <1>2 DEF coordinatorVars, queueVars, drainVars
  <2> QED BY <2>1
          DEF CoordinatorInv, CoordinatorTypeOK, NothingSurvivesStop, NextIsFresh,
              SequenceNamesOneWrite, Writes
<1> QED BY <1>1, <1>2

LEMMA AlwaysInv == CoordinatorSpec => []CoordinatorInv
BY InitInv, StepInv, PTL DEF CoordinatorSpec

\* Every variable keeps its type, whatever callers, the network and the
\* process do.
THEOREM TypeCorrect == CoordinatorSpec => []CoordinatorTypeOK
<1>1. CoordinatorInv => CoordinatorTypeOK
  BY DEF CoordinatorInv
<1> QED BY <1>1, AlwaysInv, PTL

\* The persisted queue always stays within MAX_PENDING_MARKERS, so that the
\* daemon can load it again: also the one that a failed save has left there.
THEOREM RestartCanLoad == CoordinatorSpec => []QueueLoadable
<1>1. CoordinatorInv => QueueLoadable
  BY DEF CoordinatorInv, Sound, QueueLoadable
<1> QED BY <1>1, AlwaysInv, PTL

\* A sequence number that a batch in flight or a caller's token carries
\* names the same write in the queue, through every release, resolution,
\* failed save, crash and restart.
THEOREM SequencesNameWrites == CoordinatorSpec => []SequenceNamesOneWrite
<1>1. CoordinatorInv => SequenceNamesOneWrite
  BY DEF CoordinatorInv
<1> QED BY <1>1, AlwaysInv, PTL

\* A note never sheds the strongest origin queued for it.
THEOREM OriginsNeverWeaken == CoordinatorSpec => []OriginNeverWeakens
<1>1. CoordinatorInv => OriginNeverWeakens
  BY DEF CoordinatorInv, Sound, OriginNeverWeakens
<1> QED BY <1>1, AlwaysInv, PTL

-----------------------------------------------------------------------------
(* What a single step may never do.                                        *)

\* A caller's step leaves the drain alone.
LEMMA CallersLeaveDrain ==
  ASSUME \/ CallerCommits \/ CallerIntends \/ CallerIntendsCreate
         \/ CallerResolves \/ CallerReleases \/ CallerForgets \/ CallerApproves
         \/ RecordingFails \/ ResolvingFails \/ ReleasingFails \/ ApprovingFails
  PROVE  flight' = flight
BY DEF CallerCommits, CallerIntends, CallerIntendsCreate, CallerResolves, CallerReleases,
       CallerForgets, CallerApproves, RecordingFails, ResolvingFails, ReleasingFails,
       ApprovingFails, Untouched, drainVars

\* A step that touches neither the memory nor the row.
LEMMA QueueRests ==
  ASSUME CoordinatorInv,
         \/ UploadFails \/ UploadRetries \/ ExecutorGate \/ Timers \/ HoldElapses
         \/ CallerRequestsSync \/ CallerForgets \/ UNCHANGED coordinatorVars
  PROVE  pending' = pending /\ stored' = stored
BY DEF UploadFails, UploadRetries, ExecutorGate, GatePasses, GateRefuses, Timers, GapElapses,
       BackoffElapses, SleepFails, HoldElapses, CallerRequestsSync, RequestSync, CallerForgets,
       coordinatorVars, queueVars

\* A step that saves `next`, or fails to, leaves it or what there was.
LEMMA LeftBehind ==
  ASSUME NEW next, Save(next) \/ SaveFails(next) \/ UNCHANGED <<pending, stored>>,
         NEW queue \in Taken \cup Written
  PROVE  queue = next \/ queue = pending
BY DEF Taken, Written, Save, SaveFails, SaveThrowsLate

\* The end of an upload leaves the queue without the batch, or as it was.
LEMMA UploadLeaves ==
  ASSUME CoordinatorInv, UploadConfirmed \/ UploadConfirmedUnsaved,
         NEW queue \in Taken \cup Written, NEW m \in pending
  PROVE  /\ flight.phase = "uploading"
         /\ m \in queue \/ \E b \in flight.batch : b.sequence = m.sequence
<1>1. /\ flight.phase = "uploading"
      /\ \/ Save(WithoutBatch(pending, flight.batch))
         \/ SaveFails(WithoutBatch(pending, flight.batch))
  BY DEF UploadConfirmed, UploadConfirmedUnsaved
<1> QED BY <1>1, LeftBehind, RemovalNext

\* A drain that ends takes from the queue only markers of its own batch, and
\* only once its upload was started.
THEOREM DrainsTakeOnlyTheirBatch == CoordinatorSpec => DrainTakesOnlyItsBatch
<1> DEFINE Takes ==
      flight.phase # "idle" /\ flight'.phase = "idle" /\ up' =>
        \A queue \in Taken \cup Written : \A m \in pending \ queue :
          flight.phase = "uploading" /\ \E b \in flight.batch : b.sequence = m.sequence
<1>1. CoordinatorInv /\ [CoordinatorNext]_coordinatorVars => Takes
  <2> SUFFICES ASSUME CoordinatorInv, [CoordinatorNext]_coordinatorVars,
                      flight.phase # "idle", flight'.phase = "idle", up',
                      NEW queue \in Taken \cup Written, NEW m \in pending \ queue
               PROVE  flight.phase = "uploading" /\ \E b \in flight.batch : b.sequence = m.sequence
    OBVIOUS
  <2>1. CASE UploadConfirmed \/ UploadConfirmedUnsaved
    BY <2>1, UploadLeaves
  <2>2. CASE \/ UploadFails \/ UploadRetries \/ ExecutorGate \/ Timers \/ HoldElapses
             \/ CallerRequestsSync \/ UNCHANGED coordinatorVars
    BY <2>2, QueueRests DEF Taken, Written
  <2>3. CASE Crash \/ Restart
    BY <2>3, FlightFacts DEF Crash, Restart
  <2>4. CASE \/ CallerCommits \/ CallerIntends \/ CallerIntendsCreate
             \/ CallerResolves \/ CallerReleases \/ CallerForgets \/ CallerApproves
             \/ RecordingFails \/ ResolvingFails \/ ReleasingFails \/ ApprovingFails
    BY <2>4, CallersLeaveDrain
  <2> QED BY <2>1, <2>2, <2>3, <2>4 DEF CoordinatorNext, UploadAnswers
<1> QED BY <1>1, AlwaysInv, PTL DEF CoordinatorSpec, DrainTakesOnlyItsBatch

\* What becomes of a blocking marker in one step.
Persists(queue, m) ==
  \/ Keeps(queue, m)
  \/ \E b \in flight.batch : b.sequence = m.sequence /\ flight.phase = "uploading"
  \/ (CallerReleases \/ ReleasingFails) /\ \E t \in intents : t.sequence = m.sequence

\* Recording and resolving keep every blocking marker, or put one in its place
\* that blocks as strongly, also when the save fails late.
LEMMA RecordingKeeps ==
  ASSUME CoordinatorInv,
         \/ CallerCommits \/ CallerIntends \/ CallerIntendsCreate \/ CallerResolves
         \/ RecordingFails \/ ResolvingFails,
         NEW m \in Blocking(pending), NEW queue \in Taken \cup Written
  PROVE  Keeps(queue, m)
<1>1. /\ Kinds \cup {"create"} \subseteq Operations /\ Kinds \subseteq Operations
      /\ Claims \subseteq Origins /\ intents \subseteq Marker
  BY KindsAssumption, ClaimsAssumption DEF Operations, CoordinatorInv, CoordinatorTypeOK
<1>2. Keeps(pending, m)
  BY SupersetKeeps
<1>3. CASE CallerCommits
  <2>1. PICK op \in Operations, id \in Notes, org \in Origins : RecordLocalCommit(op, id, org)
    BY <1>1, <1>3 DEF CallerCommits
  <2> DEFINE next == Committed(pending, nextSequence, op, id, org)
  <2>2. up /\ Save(next) /\ Cardinality(next) <= MaxPending
    BY <2>1 DEF RecordLocalCommit
  <2>3. Keeps(next, m)
    BY <2>2, CommitNext
  <2> HIDE DEF next
  <2> QED BY <1>2, <2>2, <2>3, LeftBehind
<1>4. CASE CallerIntends
  <2>1. PICK op \in Operations, id \in Notes, org \in Origins : RecordIntent(op, id, org)
    BY <1>1, <1>4 DEF CallerIntends
  <2> DEFINE next == Intended(pending, nextSequence, op, id, org)
  <2>2. up /\ Save(next) /\ HasRoom(pending)
    BY <2>1 DEF RecordIntent
  <2>3. Keeps(next, m)
    BY <2>2, IntendNext
  <2> HIDE DEF next
  <2> QED BY <1>2, <2>2, <2>3, LeftBehind
<1>5. CASE CallerIntendsCreate
  <2>1. PICK org \in Origins : RecordCreateIntent(org)
    BY <1>1, <1>5 DEF CallerIntendsCreate
  <2> DEFINE next == CreateIntended(pending, nextSequence, org)
  <2>2. up /\ Save(next) /\ HasRoom(pending)
    BY <2>1 DEF RecordCreateIntent
  <2>3. Keeps(next, m)
    BY <2>2, CreateIntendNext
  <2> HIDE DEF next
  <2> QED BY <1>2, <2>2, <2>3, LeftBehind
<1>6. CASE CallerResolves
  <2>1. PICK token \in intents, id \in Notes : ResolveCreateIntent(token, id)
    BY <1>6 DEF CallerResolves
  <2>2. CASE Placeholder(pending, token) = {}
    BY <1>2, <2>1, <2>2, LeftBehind DEF ResolveCreateIntent
  <2>3. CASE Placeholder(pending, token) # {}
    <3> DEFINE next == Resolved(pending, nextSequence, token, id)
    <3>1. up /\ Save(next)
      BY <2>1, <2>3 DEF ResolveCreateIntent
    <3>2. token \in Marker
      BY <1>1
    <3>3. Keeps(next, m)
      BY <2>3, <3>1, <3>2, ResolveNext
    <3> HIDE DEF next
    <3> QED BY <1>2, <3>1, <3>3, LeftBehind
  <2> QED BY <2>2, <2>3
<1>7. CASE RecordingFails \/ ResolvingFails
  <2>1. Keeps(stored', m) /\ pending' = pending
    BY <1>7, FailingNext DEF RecordingFails, ResolvingFails, SaveThrowsLate
  <2> QED BY <1>2, <2>1 DEF Taken, Written
<1> QED BY <1>3, <1>4, <1>5, <1>6, <1>7

\* A marker that blocks an upload goes on blocking, in memory and in the row,
\* until it is approved, uploaded in a batch, or withdrawn by a release of its
\* token: what a commit, an intent or the resolution of a placeholder puts in
\* its place blocks as strongly, also when the save fails late.
THEOREM BlockersPersist == CoordinatorSpec => BlockingPersists
<1> DEFINE Blocked == up => \A queue \in Taken \cup Written : \A m \in Blocking(pending) :
                                Persists(queue, m)
<1>1. CoordinatorInv /\ [CoordinatorNext]_coordinatorVars => Blocked
  <2> SUFFICES ASSUME CoordinatorInv, [CoordinatorNext]_coordinatorVars, up,
                      NEW queue \in Taken \cup Written, NEW m \in Blocking(pending)
               PROVE  Persists(queue, m)
    OBVIOUS
  <2>1. Keeps(pending, m) /\ m \in pending
    BY SupersetKeeps DEF Blocking
  <2>2. CASE \/ CallerCommits \/ CallerIntends \/ CallerIntendsCreate \/ CallerResolves
             \/ RecordingFails \/ ResolvingFails
    BY <2>2, RecordingKeeps DEF Persists
  <2>3. CASE CallerReleases \/ ReleasingFails
    <3>1. PICK token \in intents : \/ Save(Released(pending, token))
                                   \/ SaveFails(Released(pending, token))
                                   \/ UNCHANGED <<pending, stored>>
      BY <2>3 DEF CallerReleases, ReleaseIntent, ReleasingFails, SaveFails
    <3>2. queue = Released(pending, token) \/ queue = pending
      BY <3>1, LeftBehind
    <3>3. m \in queue \/ m.sequence = token.sequence
      BY <2>1, <3>2, RemovalNext
    <3> QED BY <2>3, <3>3 DEF Persists, Keeps
  <2>4. CASE CallerApproves \/ ApprovingFails
    <3>1. \E through : \/ Save(Approved(pending, through))
                       \/ SaveFails(Approved(pending, through))
                       \/ UNCHANGED <<pending, stored>>
      BY <2>4 DEF CallerApproves, ApprovePending, ApprovingFails, SaveFails
    <3>2. PICK through : queue = Approved(pending, through) \/ queue = pending
      BY <3>1, LeftBehind
    <3> QED BY <2>1, <3>2, ApproveNext DEF Persists
  <2>5. CASE UploadConfirmed \/ UploadConfirmedUnsaved
    BY <2>1, <2>5, UploadLeaves DEF Persists, Keeps
  <2>6. CASE \/ UploadFails \/ UploadRetries \/ ExecutorGate \/ Timers \/ HoldElapses
             \/ CallerRequestsSync \/ CallerForgets \/ UNCHANGED coordinatorVars
    BY <2>1, <2>6, QueueRests DEF Taken, Written, Persists
  <2>7. CASE Crash \/ Restart
    BY <2>7 DEF Crash, Restart, Taken, Written
  <2> QED BY <2>2, <2>3, <2>4, <2>5, <2>6, <2>7 DEF CoordinatorNext, UploadAnswers
<1>2. Blocked <=> (up => \A queue \in Taken \cup Written : \A m \in Blocking(pending) :
       \/ m \in queue
       \/ [m EXCEPT !.approved = TRUE] \in queue
       \/ \E k \in Blocking(queue) :
            /\ k.sequence > m.sequence
            /\ Rank(k.origin) >= Rank(m.origin)
            /\ k.noteId = m.noteId \/ m.noteId = Reserved
       \/ \E b \in flight.batch : b.sequence = m.sequence /\ flight.phase = "uploading"
       \/ (CallerReleases \/ ReleasingFails) /\ \E t \in intents : t.sequence = m.sequence)
  BY DEF Persists, Keeps
<1> HIDE DEF Blocked
<1> QED BY <1>1, <1>2, AlwaysInv, PTL DEF CoordinatorSpec, BlockingPersists
=============================================================================
