------------------------- MODULE LocalWrites_proofs -------------------------
(***************************************************************************)
(* The safety of the daemon's write path, for any notes, writers, queue     *)
(* bound and number of crashes: what is not upstream and not MCP's has a    *)
(* durable marker, and an upload carries only what was released.            *)
(***************************************************************************)
EXTENDS LocalWrites, SyncCoordinator_proofs

Types ==
  /\ write \in [Writers -> [phase : WritePhases, op : Operations, note : Notes \cup {Nobody}]]
  /\ holder \in Writers \cup {Syncer, Nobody}
  /\ dirty \in [Notes -> SUBSET Origins]
  /\ exists \subseteq Notes
  /\ cradle \in [Notes -> Nat]
  /\ writes \in 0 .. WriteBound

\* The gate: whoever is at work holds it.
Alone ==
  /\ \A w \in Writers : write[w].phase # "idle" => holder = w /\ up
  /\ flight.phase # "idle" => holder = Syncer

Pending(w) == write[w].phase \in {"mutating", "changed"}

\* Token t is the write-ahead marker of w's write, and it is queued: in the
\* memory, and in the row.
TokenOf(t, w) ==
  /\ t.operation = write[w].op
  /\ t.noteId = IF write[w].op = "create" THEN Reserved ELSE write[w].note
  /\ Rank(OriginOf[w]) <= Rank(t.origin)
  /\ \E m \in pending : SameWrite(m, t)
  /\ \E m \in stored : SameWrite(m, t)

\* There is a token exactly while a write that needs one is pending.
Tokens ==
  /\ (\A w \in Writers : ~Pending(w)) => intents = {}
  /\ \A w \in Writers : Pending(w) =>
       IF WriteAhead(write[w].op, OriginOf[w])
         THEN \E t \in intents : intents = {t} /\ TokenOf(t, w)
         ELSE intents = {}

Targets ==
  \A w \in Writers :
    /\ write[w].phase = "mutating" => write[w].op = "create" \/ write[w].note \in Notes
    /\ write[w].phase \in {"changed", "resolved"} => write[w].note \in Notes
    /\ write[w].phase = "changed" /\ write[w].op = "create" =>
         \A t \in intents : cradle[write[w].note] = t.sequence

\* Only notes that exist have changes.
Clean == \A n \in Notes : dirty[n] # {} => n \in exists

\* The marker of a pending write may yet be withdrawn, or turn into that of
\* another note: until the write has changed note n, m is not to count for n.
Tentative(m, n) ==
  /\ \E t \in intents : t.sequence = m.sequence
  /\ ~\E w \in Writers : write[w].phase = "changed" /\ write[w].note = n

MarkedIn(queue) ==
  \A n \in Notes : \A o \in dirty[n] \ {"mcp"} :
    \E m \in queue : Covers(m, n) /\ Rank(o) <= Rank(m.origin) /\ ~Tentative(m, n)

\* The row and the memory may differ, after a save that failed late: each of
\* them marks every change.
Marked == MarkedIn(stored) /\ (up => MarkedIn(pending))

\* A drain's batch is the queue, approvals given meanwhile apart.
BatchMatches ==
  flight.phase # "idle" =>
    /\ Derives(pending, flight.batch)
    /\ Derives(flight.batch, pending)

LocalInv ==
  /\ CoordinatorInv
  /\ Types /\ Alone /\ Tokens /\ Targets /\ Clean /\ Marked
  /\ BatchMatches /\ OnlyReleasedLeaves /\ EmptyDrainSendsNothing

-----------------------------------------------------------------------------
(* Consequences of the invariant.                                          *)

\* A writer at work is the only one, the daemon runs and no drain does.
LEMMA SingleWriter ==
  ASSUME Alone, Types, NEW w \in Writers, write[w].phase # "idle"
  PROVE  /\ up /\ holder = w /\ flight.phase = "idle"
         /\ \A v \in Writers : v # w => write[v].phase = "idle"
BY HolderAssumption DEF Alone

\* Nobody at work: no tokens.
LEMMA NoWriterNoToken ==
  ASSUME Alone, Tokens, holder \notin Writers
  PROVE  intents = {} /\ \A w \in Writers : write[w].phase = "idle"
BY DEF Alone, Tokens, Pending

\* A change that is not MCP's is covered by the marker of someone else.
LEMMA CoverIsNotMcp ==
  ASSUME NEW m \in Marker, NEW o \in Origins \ {"mcp"}, Rank(o) <= Rank(m.origin)
  PROVE  m.origin # "mcp"
BY DEF Rank, Origins, Marker

LEMMA InvImpliesUnsyncedIsMarked == LocalInv => UnsyncedIsMarked
<1> SUFFICES ASSUME LocalInv, NEW n \in Notes, NEW o \in dirty[n] \ {"mcp"},
                    NEW queue \in {stored} \cup (IF up THEN {pending} ELSE {})
             PROVE  \E m \in queue : Covers(m, n) /\ Rank(m.origin) >= Rank(o)
  BY DEF UnsyncedIsMarked
<1>1. PICK m \in queue : Covers(m, n) /\ Rank(o) <= Rank(m.origin)
  BY DEF LocalInv, Marked, MarkedIn
<1>2. m \in Marker /\ o \in Origins
  BY PendingFacts DEF LocalInv, Types
<1>3. Rank(m.origin) \in Nat /\ Rank(o) \in Nat
  BY <1>2 DEF Rank, Origins, Marker
<1> QED BY <1>1, <1>3

LEMMA InvImpliesBatchIsTheQueue == LocalInv => BatchIsTheQueue
BY DEF LocalInv, BatchMatches, BatchIsTheQueue, Derives, SameWrite

-----------------------------------------------------------------------------
(* Initially.                                                              *)

LEMMA LocalInit == Init => LocalInv
<1> SUFFICES ASSUME Init PROVE LocalInv
  OBVIOUS
<1> USE DEF Init
<1>1. CoordinatorInv
  BY InitInv
<1>2. flight.phase = "idle" /\ intents = {} /\ \A w \in Writers : write[w].phase = "idle"
  BY DEF CoordinatorInit, NoFlight, Idle
<1>3. Types
  <2>1. Idle \in [phase : WritePhases, op : Operations, note : Notes \cup {Nobody}]
    BY DEF Idle, WritePhases, Operations
  <2>2. writes \in 0 .. WriteBound
    BY WriteBoundAssumption
  <2> QED BY <2>1, <2>2, ExistingAssumption DEF Types
<1>4. Alone /\ Tokens /\ Targets
  BY <1>2 DEF Alone, Tokens, Targets, Pending
<1>5. Clean /\ Marked
  BY DEF Clean, Marked, MarkedIn
<1>6. BatchMatches /\ OnlyReleasedLeaves /\ EmptyDrainSendsNothing
  BY <1>2 DEF BatchMatches, OnlyReleasedLeaves, EmptyDrainSendsNothing
<1> QED BY <1>1, <1>3, <1>4, <1>5, <1>6 DEF LocalInv

-----------------------------------------------------------------------------
(* The steps of a write.                                                   *)

\* While a writer is at work there is no drain, so nothing to say of one.
LEMMA NoDrain ==
  ASSUME flight'.phase = "idle"
  PROVE  BatchMatches' /\ OnlyReleasedLeaves' /\ EmptyDrainSendsNothing'
BY DEF BatchMatches, OnlyReleasedLeaves, EmptyDrainSendsNothing

\* The gate, and the phase of the writers, when w alone goes on or returns.
LEMMA WriterKeepsAlone ==
  ASSUME Alone, Types, NEW w \in Writers, holder \in {w, Nobody}, up' , flight' = flight,
         flight.phase = "idle",
         NEW next, write' = [write EXCEPT ![w] = next],
         \/ holder' = w
         \/ holder' = Nobody /\ next.phase = "idle"
  PROVE  Alone' /\ \A v \in Writers : v # w => write'[v].phase = "idle"
<1>1. \A v \in Writers : v # w => write'[v] = write[v] /\ write[v].phase = "idle"
  BY HolderAssumption DEF Alone, Types
<1>2. write'[w] = next
  BY DEF Types
<1> QED BY <1>1, <1>2 DEF Alone

LEMMA BeginsInv ==
  ASSUME LocalInv, NEW w \in Writers, NEW op \in Operations, NEW n \in Notes \cup {Nobody},
         op = "create" \/ n \in Notes, Begins(w, op, n)
  PROVE  LocalInv'
<1> DEFINE next == [phase |-> "mutating", op |-> op, note |-> n]
<1> USE DEF LocalInv
<1>1. /\ up /\ up' = up /\ holder = Nobody /\ holder' = w /\ HasRoom(pending)
      /\ write' = [write EXCEPT ![w] = next]
      /\ flight' = flight /\ hold' = hold /\ crashes' = crashes /\ Untouched
      /\ dirty' = dirty /\ exists' = exists /\ cradle' = cradle
      /\ writes' = writes + 1 /\ writes < WriteBound
  BY DEF Begins, drainVars, databaseVars, Untouched
<1>2. intents = {} /\ flight.phase = "idle" /\ \A v \in Writers : write[v].phase = "idle"
  BY <1>1, HolderAssumption, NoWriterNoToken DEF Alone
<1>3. OriginOf[w] \in Origins
  BY OriginOfAssumption
<1>4. Alone' /\ \A v \in Writers : v # w => write'[v].phase = "idle"
  BY <1>1, <1>2, WriterKeepsAlone
<1>5. write'[w] = next
  BY <1>1 DEF Types
<1>6. Types'
  <2>1. next \in [phase : WritePhases, op : Operations, note : Notes \cup {Nobody}]
    BY DEF WritePhases
  <2>2. writes' \in 0 .. WriteBound
    BY <1>1, WriteBoundAssumption DEF Types
  <2> QED BY <1>1, <2>1, <2>2 DEF Types
<1>7. /\ CoordinatorInv'
      /\ IF WriteAhead(op, OriginOf[w])
           THEN \E t \in intents' : /\ intents' = {t}
                                    /\ stored' = pending' /\ pending' = pending \cup {t}
                                    /\ t.sequence = nextSequence
                                    /\ t.operation = op
                                    /\ t.noteId = IF op = "create" THEN Reserved ELSE n
                                    /\ Rank(OriginOf[w]) <= Rank(t.origin)
           ELSE intents' = {} /\ UNCHANGED <<pending, stored>>
  <2>2. CASE ~WriteAhead(op, OriginOf[w])
    <3>1. UNCHANGED queueVars
      BY <2>2 DEF Begins
    <3>2. Sound(stored')
      BY <3>1 DEF CoordinatorInv, queueVars
    <3>3. CoordinatorInv'
      BY <1>1, <3>1, <3>2, FlightFacts, MemoryUntouchedInv DEF queueVars
    <3> QED BY <1>2, <2>2, <3>1, <3>3 DEF queueVars
  <2>3. CASE WriteAhead(op, OriginOf[w]) /\ op = "create"
    <3>1. RecordCreateIntent(OriginOf[w])
      BY <2>3 DEF Begins
    <3>2. CoordinatorInv'
      BY <1>1, <1>3, <3>1, RecordCreateIntentInv
    <3> DEFINE new == NewMarker("create", Reserved, nextSequence, OriginOf[w])
    <3>3. intents' = {new} /\ stored' = pending' /\ pending' = pending \cup {new}
      BY <1>2, <3>1 DEF RecordCreateIntent, Save, CreateIntended
    <3>4. /\ new.operation = op /\ new.noteId = Reserved /\ new.origin = OriginOf[w]
          /\ new.sequence = nextSequence
      BY <2>3 DEF NewMarker
    <3> HIDE DEF new
    <3>5. Rank(OriginOf[w]) <= Rank(new.origin)
      BY <1>3, <3>4 DEF Rank, Origins
    <3> QED BY <2>3, <3>2, <3>3, <3>4, <3>5
  <2>4. CASE WriteAhead(op, OriginOf[w]) /\ op # "create"
    <3>1. RecordIntent(op, n, OriginOf[w]) /\ n \in Notes
      BY <2>4 DEF Begins
    <3>2. CoordinatorInv'
      BY <1>1, <1>3, <3>1, RecordIntentInv
    <3> DEFINE sticky == StickyOrigin(pending, n, OriginOf[w])
               new == NewMarker(op, n, nextSequence, sticky)
    <3>3. intents' = {new} /\ stored' = pending' /\ pending' = pending \cup {new}
      BY <1>2, <3>1 DEF RecordIntent, Save, Intended
    <3>4. Rank(OriginOf[w]) <= Rank(sticky)
      BY <1>3, PendingFacts, StickyOriginTops
    <3> HIDE DEF sticky
    <3>5. /\ new.operation = op /\ new.noteId = n /\ new.origin = sticky
          /\ new.sequence = nextSequence
      BY DEF NewMarker
    <3> HIDE DEF new
    <3> QED BY <2>4, <3>2, <3>3, <3>4, <3>5
  <2> QED BY <2>2, <2>3, <2>4
<1>8. Tokens'
  <2>1. Pending(w)' /\ \A v \in Writers : v # w => ~Pending(v)'
    BY <1>4, <1>5 DEF Pending
  <2>2. IF WriteAhead(op, OriginOf[w])
          THEN \E t \in intents' : intents' = {t} /\ TokenOf(t, w)'
          ELSE intents' = {}
    BY <1>5, <1>7 DEF TokenOf, SameWrite
  <2> QED BY <1>5, <2>1, <2>2 DEF Tokens
<1>9. Targets'
  BY <1>4, <1>5 DEF Targets
<1>10. Clean'
  BY <1>1 DEF Clean
<1>11. Marked'
  <2>1. CASE WriteAhead(op, OriginOf[w])
    <3>1. PICK t : /\ intents' = {t} /\ t.sequence = nextSequence
                   /\ stored' = pending' /\ pending' = pending \cup {t}
      BY <1>7, <2>1
    <3>2. \A m \in pending : m.sequence < nextSequence /\ m.sequence \in Nat
      BY <1>1, PendingFacts
    <3>3. \A m \in pending : ~\E x \in intents' : x.sequence = m.sequence
      BY <3>1, <3>2
    <3>4. MarkedIn(pending)
      BY <1>1 DEF Marked
    <3>5. MarkedIn(pending)'
      BY <1>1, <3>1, <3>3, <3>4 DEF MarkedIn, Covers, Tentative
    <3>6. MarkedIn(stored)'
      BY <3>1, <3>5 DEF MarkedIn, Covers, Tentative
    <3> QED BY <3>5, <3>6 DEF Marked
  <2>2. CASE ~WriteAhead(op, OriginOf[w])
    <3>1. intents' = {} /\ UNCHANGED <<pending, stored>>
      BY <1>7, <2>2
    <3> QED BY <1>1, <3>1 DEF Marked, MarkedIn, Covers, Tentative
  <2> QED BY <2>1, <2>2
<1>12. BatchMatches' /\ OnlyReleasedLeaves' /\ EmptyDrainSendsNothing'
  BY <1>1, <1>2, NoDrain
<1> QED BY <1>4, <1>6, <1>7, <1>8, <1>9, <1>10, <1>11, <1>12

LEMMA MutatesInv ==
  ASSUME LocalInv, NEW w \in Writers, NEW n \in Notes, Mutates(w, n)
  PROVE  LocalInv'
<1> DEFINE next == [phase |-> "changed", op |-> write[w].op, note |-> n]
<1> USE DEF LocalInv
<1>1. /\ write[w].phase = "mutating" /\ UNCHANGED coordinatorVars
      /\ holder' = holder /\ writes' = writes /\ exists' = exists \cup {n}
      /\ dirty' = [dirty EXCEPT ![n] = @ \cup {OriginOf[w]}]
      /\ IF write[w].op = "create" THEN n \notin exists ELSE n = write[w].note
  BY DEF Mutates
<1>2. UNCHANGED <<up, pending, nextSequence, stored, flight, hold, intents, crashes>>
  BY <1>1 DEF coordinatorVars, queueVars, drainVars
<1>3. /\ up /\ holder = w /\ flight.phase = "idle" /\ Pending(w)
      /\ \A v \in Writers : v # w => write[v].phase = "idle"
  BY <1>1, SingleWriter DEF Pending
<1>4. write' = [write EXCEPT ![w] = next] /\ write[w].op \in Operations
  <2>1. /\ write \in [Writers -> [phase : WritePhases, op : Operations, note : Notes \cup {Nobody}]]
        /\ write' = [write EXCEPT ![w].phase = "changed", ![w].note = n]
    BY DEF Mutates, Types
  <2>2. /\ write'[w] = [write[w] EXCEPT !.phase = "changed", !.note = n]
        /\ write[w] \in [phase : WritePhases, op : Operations, note : Notes \cup {Nobody}]
    BY <2>1
  <2>3. write'[w] = next /\ write[w].op \in Operations
    BY <2>2
  <2>4. write' = [v \in Writers |-> IF v = w THEN write'[w] ELSE write[v]]
    BY <2>1
  <2> HIDE DEF next
  <2> QED BY <2>1, <2>3, <2>4
<1>5. write'[w] = next
  BY <1>4 DEF Types
<1>6. CoordinatorInv'
  BY <1>1, StepInv
<1>7. Alone' /\ \A v \in Writers : v # w => write'[v].phase = "idle"
  BY <1>1, <1>2, <1>3, <1>4, WriterKeepsAlone
<1>8. IF WriteAhead(write[w].op, OriginOf[w])
        THEN \E t \in intents : intents = {t} /\ TokenOf(t, w)
        ELSE intents = {}
  BY <1>3 DEF Tokens
<1>9. /\ write[w].op = "create" => \A t \in intents : cradle'[n] = t.sequence
      /\ write[w].op # "create" => cradle' = cradle
      /\ \A k \in Notes : k # n => cradle'[k] = cradle[k]
      /\ cradle' \in [Notes -> Nat]
  <2>1. cradle \in [Notes -> Nat] /\ \A t \in intents : t.sequence \in Nat
    BY DEF Types, CoordinatorInv, CoordinatorTypeOK, Marker
  <2>2. CASE write[w].op = "create" /\ intents # {}
    <3>1. PICK t \in intents : intents = {t}
      BY <1>8, <2>2
    <3>2. (CHOOSE s \in intents : TRUE) = t
      BY <3>1
    <3>3. cradle' = [cradle EXCEPT ![n] = t.sequence]
      BY <2>2, <3>2 DEF Mutates
    <3> QED BY <2>1, <2>2, <3>1, <3>3
  <2>3. CASE ~(write[w].op = "create" /\ intents # {})
    <3>1. cradle' = cradle
      BY <2>1, <2>3 DEF Mutates
    <3> QED BY <2>1, <2>3, <3>1
  <2> QED BY <2>2, <2>3
<1>10. Types'
  <2>1. next \in [phase : WritePhases, op : Operations, note : Notes \cup {Nobody}]
    BY <1>4 DEF WritePhases
  <2>2. dirty' \in [Notes -> SUBSET Origins]
    BY <1>1, OriginOfAssumption DEF Types
  <2> QED BY <1>1, <1>4, <1>9, <2>1, <2>2 DEF Types
<1>11. Tokens'
  <2>1. Pending(w)' /\ \A v \in Writers : v # w => ~Pending(v)'
    BY <1>5, <1>7 DEF Pending
  <2>2. \A t : TokenOf(t, w) => TokenOf(t, w)'
    BY <1>1, <1>2, <1>5 DEF TokenOf
  <2> QED BY <1>2, <1>5, <1>8, <2>1, <2>2 DEF Tokens
<1>12. Targets'
  BY <1>2, <1>5, <1>7, <1>9 DEF Targets
<1>13. Clean'
  BY <1>1 DEF Clean, Types
<1>14. ASSUME NEW queue, MarkedIn(queue),
              \A t \in intents : TokenOf(t, w) => \E m \in queue : SameWrite(m, t),
              NEW k \in Notes, NEW o \in dirty'[k] \ {"mcp"}
       PROVE  \E m \in queue : /\ Covers(m, k)' /\ Rank(o) <= Rank(m.origin)
                               /\ ~Tentative(m, k)'
  <2>1. CASE k # n
    <3>1. o \in dirty[k]
      BY <1>1, <1>14, <2>1 DEF Types
    <3>2. PICK m \in queue : Covers(m, k) /\ Rank(o) <= Rank(m.origin) /\ ~Tentative(m, k)
      BY <1>14, <3>1 DEF MarkedIn
    <3>3. ~\E t \in intents : t.sequence = m.sequence
      BY <1>1, <1>3, <3>2 DEF Tentative
    <3> QED BY <1>2, <1>9, <2>1, <3>2, <3>3 DEF Covers, Tentative
  <2>2. CASE k = n
    <3>1. \A m : ~Tentative(m, k)'
      BY <1>5, <2>2 DEF Tentative
    <3>2. CASE o \in dirty[k]
      <4>1. write[w].op # "create"
        BY <1>1, <2>2, <3>2 DEF Clean
      <4>2. PICK m \in queue : Covers(m, k) /\ Rank(o) <= Rank(m.origin)
        BY <1>14, <3>2 DEF MarkedIn
      <4> QED BY <1>9, <3>1, <4>1, <4>2 DEF Covers
    <3>3. CASE o \notin dirty[k]
      <4>1. o = OriginOf[w] /\ o # "mcp"
        BY <1>1, <1>14, <2>2, <3>3 DEF Types
      <4>2. PICK t \in intents : TokenOf(t, w)
        BY <1>8, <4>1 DEF WriteAhead
      <4>3. PICK m \in queue : SameWrite(m, t)
        BY <1>14, <4>2
      <4>4. Rank(o) <= Rank(m.origin)
        BY <4>1, <4>2, <4>3 DEF TokenOf, SameWrite
      <4>5. Covers(m, k)'
        BY <1>1, <1>9, <2>2, <4>2, <4>3 DEF TokenOf, SameWrite, Covers
      <4> QED BY <3>1, <4>4, <4>5
    <3> QED BY <3>2, <3>3
  <2> QED BY <2>1, <2>2
<1>15. Marked'
  <2>1. MarkedIn(stored) /\ MarkedIn(pending)
    BY <1>3 DEF Marked
  <2>2. \A t \in intents : TokenOf(t, w) => /\ \E m \in stored : SameWrite(m, t)
                                         /\ \E m \in pending : SameWrite(m, t)
    BY DEF TokenOf
  <2>3. MarkedIn(stored)'
    BY <1>2, <1>14, <2>1, <2>2 DEF MarkedIn
  <2>4. MarkedIn(pending)'
    BY <1>2, <1>14, <2>1, <2>2 DEF MarkedIn
  <2> QED BY <2>3, <2>4 DEF Marked
<1>16. BatchMatches' /\ OnlyReleasedLeaves' /\ EmptyDrainSendsNothing'
  BY <1>2, <1>3, NoDrain
<1> QED BY <1>6, <1>7, <1>10, <1>11, <1>12, <1>13, <1>15, <1>16

\* A write whose token is settled: it returns, or goes on to its success.
LEMMA SettlesInv ==
  ASSUME LocalInv, NEW w \in Writers, write[w].phase # "idle",
         NEW next \in [phase : {"idle", "resolved"}, op : Operations, note : Notes \cup {Nobody}],
         write' = [write EXCEPT ![w] = next], next.phase = "resolved" => next.note \in Notes,
         \/ holder' = holder
         \/ holder' = Nobody /\ next.phase = "idle",
         UNCHANGED <<up, flight, writes, dirty, exists>>, cradle' \in [Notes -> Nat],
         intents' = {}, CoordinatorInv', Marked'
  PROVE  LocalInv'
<1> USE DEF LocalInv
<1>1. up /\ holder = w /\ flight.phase = "idle"
  BY SingleWriter
<1>2. Alone' /\ \A v \in Writers : v # w => write'[v].phase = "idle"
  BY <1>1, WriterKeepsAlone
<1>3. write'[w] = next
  BY DEF Types
<1>4. Types'
  <2>1. next \in [phase : WritePhases, op : Operations, note : Notes \cup {Nobody}]
    BY DEF WritePhases
  <2> QED BY <1>1, <2>1 DEF Types
<1>5. Tokens' /\ Targets' /\ Clean'
  BY <1>2, <1>3 DEF Tokens, Pending, Targets, Clean
<1>6. BatchMatches' /\ OnlyReleasedLeaves' /\ EmptyDrainSendsNothing'
  BY <1>1, NoDrain
<1> QED BY <1>2, <1>4, <1>5, <1>6

\* A queue with a marker for every change, without tokens.
Covered(queue) ==
  \A n \in Notes : \A o \in dirty[n] \ {"mcp"} :
    \E m \in queue : Covers(m, n) /\ Rank(o) <= Rank(m.origin)

\* Without tokens, what is covered is marked for good.
LEMMA MarkedWithoutTokens ==
  ASSUME intents' = {}, UNCHANGED <<dirty, cradle>>,
         Covered(stored'), up' => Covered(pending')
  PROVE  Marked'
BY DEF Marked, MarkedIn, Covered, Covers, Tentative

LEMMA MarkedIsCovered ==
  ASSUME NEW queue, MarkedIn(queue)
  PROVE  Covered(queue)
BY DEF MarkedIn, Covered

\* The write returns.
LEMMA ReturnsInv ==
  ASSUME LocalInv, NEW w \in Writers, write[w].phase # "idle", Returns(w),
         UNCHANGED <<up, flight, writes, databaseVars>>,
         intents' = {}, CoordinatorInv', Marked'
  PROVE  LocalInv'
<1>1. Idle \in [phase : {"idle", "resolved"}, op : Operations, note : Notes \cup {Nobody}]
  BY DEF Idle, Operations
<1>2. write' = [write EXCEPT ![w] = Idle] /\ holder' = Nobody /\ Idle.phase = "idle"
  BY DEF Returns, Idle
<1>3. UNCHANGED <<dirty, exists, cradle>> /\ cradle \in [Notes -> Nat]
  BY DEF databaseVars, LocalInv, Types
<1> QED BY <1>1, <1>2, <1>3, SettlesInv

\* Origins have ranks, which are ordered.
LEMMA RankIsTransitive ==
  ASSUME NEW a \in Origins, NEW b \in Origins, NEW c \in Origins,
         Rank(a) <= Rank(b), Rank(b) <= Rank(c)
  PROVE  Rank(a) <= Rank(c)
BY DEF Rank, Origins

\* The queue of a commit covers what the memory covers: what it replaces, the
\* new marker tops.
LEMMA CommittedCovers ==
  ASSUME LocalInv, up, NEW op \in Operations, NEW id \in Notes, NEW org \in Origins
  PROVE  Covered(Committed(pending, nextSequence, op, id, org))
<1> DEFINE sticky == StickyOrigin(pending, id, org)
           new == NewMarker(op, id, nextSequence, sticky)
           next == Committed(pending, nextSequence, op, id, org)
<1>1. pending \in SUBSET Marker /\ dirty \in [Notes -> SUBSET Origins]
  BY PendingFacts DEF LocalInv, Types
<1>2. next = {m \in pending : m.operation # op \/ m.noteId # id} \cup {new}
  BY DEF Committed
<1>3. new.noteId = id /\ new.origin = sticky
  BY DEF NewMarker
<1>4. /\ sticky \in Origins
      /\ \A k \in pending : k.noteId = id => Rank(k.origin) <= Rank(sticky)
  BY <1>1, StickyOriginTops
<1> HIDE DEF sticky, new, next
<1>5. ASSUME NEW k \in Notes, NEW o \in dirty[k] \ {"mcp"}
      PROVE  \E m \in next : Covers(m, k) /\ Rank(o) <= Rank(m.origin)
  <2>1. PICK m \in pending : Covers(m, k) /\ Rank(o) <= Rank(m.origin)
    BY DEF LocalInv, Marked, MarkedIn
  <2>2. CASE m \in next
    BY <2>1, <2>2
  <2>3. CASE m \notin next
    <3>1. m.noteId = id /\ k = id
      BY <1>2, <2>1, <2>3, ReservedAssumption DEF Covers
    <3>2. Rank(o) <= Rank(sticky)
      BY <1>1, <1>4, <2>1, <3>1, RankIsTransitive DEF Marker
    <3>3. new \in next /\ Covers(new, k)
      BY <1>2, <1>3, <3>1 DEF Covers
    <3> QED BY <1>3, <3>2, <3>3
  <2> QED BY <2>2, <2>3
<1> QED BY <1>5 DEF Covered, next

\* The queued placeholder of a create.
LEMMA TokenIsQueued ==
  ASSUME LocalInv, NEW w \in Writers, write[w].phase = "changed", write[w].op = "create",
         NEW t \in intents
  PROVE  /\ intents = {t} /\ t \in Marker /\ cradle[write[w].note] = t.sequence
         /\ Placeholder(pending, t) # {}
<1>1. /\ intents = {t} /\ TokenOf(t, w) /\ cradle[write[w].note] = t.sequence
      /\ t \in Marker
  BY DEF LocalInv, Tokens, Pending, Targets, CoordinatorInv, CoordinatorTypeOK
<1>2. PICK m \in pending : SameWrite(m, t)
  BY <1>1 DEF TokenOf
<1>3. m \in Placeholder(pending, t)
  BY <1>1, <1>2 DEF TokenOf, SameWrite, Placeholder
<1> QED BY <1>1, <1>3

\* The queue of a resolution covers what the memory covers: the placeholder's
\* note by the note's own marker, whatever the cradle says from then on.
LEMMA ResolvedCovers ==
  ASSUME LocalInv, NEW w \in Writers, write[w].phase = "changed", write[w].op = "create",
         NEW t \in intents, NEW k \in Notes, NEW o \in dirty[k] \ {"mcp"}
  PROVE  \E m \in Resolved(pending, nextSequence, t, write[w].note) :
           /\ Rank(o) <= Rank(m.origin)
           /\ m.noteId = k \/ (k # write[w].note /\ Covers(m, k))
<1> DEFINE id == write[w].note
           gone == CHOOSE x \in Placeholder(pending, t) : TRUE
           sticky == StickyOrigin(pending, id, gone.origin)
           new == NewMarker("create", id, nextSequence, sticky)
           next == Resolved(pending, nextSequence, t, id)
<1>1. /\ up /\ \A v \in Writers : v # w => write[v].phase = "idle"
      /\ pending \in SUBSET Marker /\ id \in Notes /\ dirty \in [Notes -> SUBSET Origins]
  BY PendingFacts, SingleWriter DEF LocalInv, Types, Targets
<1>2. intents = {t} /\ cradle[id] = t.sequence /\ Placeholder(pending, t) # {}
  BY TokenIsQueued
<1>3. next = {m \in pending \ {gone} : m.operation # "create" \/ m.noteId # id} \cup {new}
  BY DEF Resolved
<1>4. gone \in pending /\ gone.sequence = t.sequence /\ gone.noteId = Reserved
  <2>1. gone \in Placeholder(pending, t)
    BY <1>2
  <2> HIDE DEF gone
  <2> QED BY <2>1 DEF Placeholder
<1> HIDE DEF gone, next, id
<1>5. /\ sticky \in Origins /\ Rank(gone.origin) <= Rank(sticky)
      /\ \A x \in pending : x.noteId = id => Rank(x.origin) <= Rank(sticky)
  <2>1. gone.origin \in Origins
    BY <1>1, <1>4 DEF Marker
  <2> QED BY <1>1, <2>1, StickyOriginTops
<1>6. new.noteId = id /\ new.origin = sticky
  BY DEF NewMarker
<1> HIDE DEF sticky, new
<1>7. PICK m \in pending : Covers(m, k) /\ Rank(o) <= Rank(m.origin) /\ ~Tentative(m, k)
  BY <1>1 DEF LocalInv, Marked, MarkedIn
<1>8. CASE k = id
  <2>1. Rank(m.origin) <= Rank(sticky)
    <3>1. CASE m.noteId = id
      BY <1>5, <3>1
    <3>2. CASE m.noteId # id
      <4>1. m.sequence = gone.sequence
        BY <1>2, <1>4, <1>7, <1>8, <3>2 DEF Covers
      <4>2. m.origin = gone.origin
        BY <1>4, <4>1 DEF LocalInv, CoordinatorInv, SequenceNamesOneWrite
      <4> QED BY <1>5, <4>2
    <3> QED BY <3>1, <3>2
  <2>2. Rank(o) <= Rank(sticky)
    BY <1>1, <1>5, <1>7, <2>1, RankIsTransitive DEF Marker
  <2>3. new \in next
    BY <1>3
  <2> QED BY <1>6, <1>8, <2>2, <2>3 DEF next, id
<1>9. CASE k # id
  <2>1. ~\E v \in Writers : write[v].phase = "changed" /\ write[v].note = k
    BY <1>1, <1>9 DEF id
  <2>2. m # gone
    BY <1>4, <1>7, <2>1 DEF Tentative
  <2>3. m.noteId # id
    BY <1>1, <1>7, <1>9, ReservedAssumption DEF Covers
  <2>4. m \in next
    BY <1>3, <2>2, <2>3
  <2> QED BY <1>7, <1>9, <2>4 DEF next, id
<1> QED BY <1>8, <1>9

\* The queue without a token of a write that changed nothing covers what the
\* memory covers.
LEMMA ReleasedCovers ==
  ASSUME LocalInv, up, \A v \in Writers : write[v].phase # "changed", NEW t \in intents
  PROVE  Covered(Released(pending, t))
<1> SUFFICES ASSUME NEW k \in Notes, NEW o \in dirty[k] \ {"mcp"}
             PROVE  \E m \in Released(pending, t) : Covers(m, k) /\ Rank(o) <= Rank(m.origin)
  BY DEF Covered
<1>1. PICK m \in pending : Covers(m, k) /\ Rank(o) <= Rank(m.origin) /\ ~Tentative(m, k)
  BY DEF LocalInv, Marked, MarkedIn
<1>2. m.sequence # t.sequence
  BY <1>1 DEF Tentative
<1> QED BY <1>1, <1>2 DEF Released

\* The marker of a failed write stays in the queue: in the memory, whatever a
\* save that failed late has put into the row.
LEMMA FailsInv ==
  ASSUME LocalInv, NEW w \in Writers, AdapterFails(w) \/ MarkerFails(w)
  PROVE  LocalInv'
<1>1. /\ write[w].phase # "idle" /\ intents' = {} /\ Returns(w)
      /\ UNCHANGED <<up, pending, nextSequence, flight, hold, crashes, writes>>
      /\ UNCHANGED databaseVars /\ UNCHANGED <<dirty, cradle>>
  BY DEF AdapterFails, MarkerFails, SaveThrowsLate, drainVars, databaseVars
<1>2. up /\ CoordinatorInv /\ Covered(stored) /\ Covered(pending)
  BY <1>1, SingleWriter, MarkedIsCovered DEF LocalInv, Marked
<1>3. Sound(stored') /\ Covered(stored')
  <2>1. CASE stored' = stored
    BY <1>2, <2>1 DEF CoordinatorInv
  <2>2. CASE stored' # stored
    <3>1. /\ write[w].phase \in {"changed", "resolved"} /\ stored' = Marking(w)
          /\ Cardinality(Marking(w)) <= MaxPending
      BY <2>2 DEF AdapterFails, MarkerFails, SaveThrowsLate
    <3>2. write[w].op \in Operations /\ write[w].note \in Notes /\ OriginOf[w] \in Origins
      BY <3>1, OriginOfAssumption DEF LocalInv, Types, Targets
    <3>3. CASE ReadyToRecord(w)
      <4>1. stored' = Committed(pending, nextSequence, write[w].op, write[w].note, OriginOf[w])
        BY <3>1, <3>3 DEF Marking
      <4>2. Sound(stored')
        BY <1>2, <3>1, <3>2, <3>3, <4>1, CommitNext DEF Adds
      <4> QED BY <1>2, <3>2, <4>1, <4>2, CommittedCovers
    <3>4. CASE ~ReadyToRecord(w)
      <4> DEFINE t == CHOOSE x \in intents : TRUE
      <4>1. write[w].phase = "changed" /\ write[w].op = "create" /\ t \in intents
        BY <3>1, <3>4 DEF ReadyToRecord
      <4>2. stored' = Resolved(pending, nextSequence, t, write[w].note)
        BY <3>1, <3>4 DEF Marking
      <4> HIDE DEF t
      <4>3. t \in Marker /\ Placeholder(pending, t) # {}
        BY <4>1, TokenIsQueued
      <4>4. Sound(stored')
        BY <1>2, <3>2, <4>2, <4>3, ResolveNext DEF Adds
      <4>5. Covered(stored')
        BY <4>1, <4>2, ResolvedCovers DEF Covered, Covers
      <4> QED BY <4>4, <4>5
    <3> QED BY <3>3, <3>4
  <2> QED BY <2>1, <2>2
<1>4. CoordinatorInv'
  BY <1>1, <1>2, <1>3, FlightFacts, MemoryUntouchedInv
<1>5. Covered(pending')
  BY <1>1, <1>2
<1>6. Marked'
  BY <1>1, <1>3, <1>5, MarkedWithoutTokens
<1> QED BY <1>1, <1>4, <1>6, ReturnsInv

\* A refused write withdraws its marker, which counts for nothing else.
LEMMA RefusesInv ==
  ASSUME LocalInv, NEW w \in Writers, AdapterRefuses(w)
  PROVE  LocalInv'
<1>1. /\ write[w].phase = "mutating" /\ intents' = {} /\ Returns(w)
      /\ UNCHANGED <<up, flight, hold, crashes, writes>> /\ UNCHANGED databaseVars
      /\ UNCHANGED <<dirty, cradle>>
      /\ \/ \E t \in intents : ReleaseIntent(t) \/ SaveFails(Released(pending, t))
         \/ UNCHANGED <<pending, nextSequence, stored>>
  BY DEF AdapterRefuses, drainVars, databaseVars
<1>2. /\ up /\ \A v \in Writers : write[v].phase # "changed"
      /\ CoordinatorInv /\ Covered(stored) /\ Covered(pending)
  BY <1>1, SingleWriter, MarkedIsCovered DEF LocalInv, Marked
<1>3. CASE UNCHANGED <<pending, nextSequence, stored>>
  <2>1. Sound(stored') /\ Covered(stored') /\ Covered(pending')
    BY <1>2, <1>3 DEF CoordinatorInv
  <2>2. CoordinatorInv'
    BY <1>1, <1>2, <1>3, <2>1, FlightFacts, MemoryUntouchedInv
  <2>3. Marked'
    BY <1>1, <2>1, MarkedWithoutTokens
  <2> QED BY <1>1, <2>2, <2>3, ReturnsInv
<1>4. ASSUME NEW t \in intents, ReleaseIntent(t) \/ SaveFails(Released(pending, t))
      PROVE  LocalInv'
  <2> DEFINE next == Released(pending, t)
  <2>1. /\ \/ Save(next)
           \/ SaveFails(next)
           \/ UNCHANGED <<pending, stored>>
        /\ UNCHANGED nextSequence
    BY <1>4 DEF ReleaseIntent, SaveFails, SaveThrowsLate
  <2>2. Sound(next) /\ Derives(next, pending) /\ Covered(next)
    BY <1>2, RemovalNext, ReleasedCovers
  <2> HIDE DEF next
  <2>3. CoordinatorInv'
    BY <1>1, <1>2, <2>1, <2>2, FlightFacts, DerivedInv
  <2>4. pending' \in {pending, next} /\ stored' \in {stored, next}
    BY <2>1 DEF Save, SaveFails, SaveThrowsLate
  <2>5. Covered(stored') /\ Covered(pending')
    BY <1>2, <2>2, <2>4
  <2>6. Marked'
    BY <1>1, <2>5, MarkedWithoutTokens
  <2> QED BY <1>1, <2>3, <2>6, ReturnsInv
<1> QED BY <1>1, <1>3, <1>4

\* A write that was turned away may have left its marker in the row.
LEMMA TurnedAwayInv ==
  ASSUME LocalInv, NEW w \in Writers, NEW op \in Operations, NEW n \in Notes \cup {Nobody},
         op = "create" \/ n \in Notes, TurnedAway(w, op, n)
  PROVE  LocalInv'
<1> DEFINE next == IF op = "create" THEN CreateIntended(pending, nextSequence, OriginOf[w])
                                    ELSE Intended(pending, nextSequence, op, n, OriginOf[w])
<1>1. /\ up /\ holder = Nobody /\ HasRoom(pending) /\ SaveThrowsLate(next)
      /\ UNCHANGED <<up, pending, nextSequence, flight, hold, crashes, intents>>
      /\ UNCHANGED <<write, holder, writes, dirty, exists, cradle>>
  BY DEF TurnedAway, SaveThrowsLate, drainVars, writerVars, databaseVars
<1>2. CoordinatorInv /\ OriginOf[w] \in Origins
  BY OriginOfAssumption DEF LocalInv
<1>3. intents = {} /\ \A v \in Writers : write[v].phase = "idle"
  BY <1>1, HolderAssumption, NoWriterNoToken DEF LocalInv
<1>4. Sound(next) /\ pending \subseteq next
  <2>1. CASE op = "create"
    BY <1>1, <1>2, <2>1, CreateIntendNext DEF Adds
  <2>2. CASE op # "create"
    BY <1>1, <1>2, <2>2, IntendNext DEF Adds
  <2> QED BY <2>1, <2>2
<1> HIDE DEF next
<1>5. CoordinatorInv'
  BY <1>1, <1>2, <1>4, ThrownLateInv
<1>6. Covered(pending) /\ stored' = next
  BY <1>1, MarkedIsCovered DEF LocalInv, Marked, SaveThrowsLate
<1>7. Covered(stored') /\ Covered(pending')
  BY <1>1, <1>4, <1>6 DEF Covered
<1>8. Marked'
  BY <1>1, <1>3, <1>7, MarkedWithoutTokens
<1>9. Types' /\ Alone' /\ Tokens' /\ Targets' /\ Clean'
  BY <1>1, <1>3 DEF LocalInv, Types, Alone, Tokens, Pending, Targets, Clean
<1>10. BatchMatches' /\ OnlyReleasedLeaves' /\ EmptyDrainSendsNothing'
  BY <1>1 DEF LocalInv, BatchMatches, OnlyReleasedLeaves, EmptyDrainSendsNothing, Unsynced, Covers
<1> QED BY <1>5, <1>8, <1>9, <1>10 DEF LocalInv

\* The success of a write replaces markers of its note by one that tops them.
LEMMA RecordsCommitInv ==
  ASSUME LocalInv, NEW w \in Writers, RecordsCommit(w)
  PROVE  LocalInv'
<1>1. /\ write[w].phase \in {"changed", "resolved"} /\ intents' = {} /\ Returns(w)
      /\ RecordLocalCommit(write[w].op, write[w].note, OriginOf[w]) /\ Untouched
      /\ UNCHANGED <<up, flight, writes>> /\ UNCHANGED databaseVars
      /\ UNCHANGED <<dirty, cradle>>
  BY DEF RecordsCommit, ReadyToRecord, Untouched, drainVars, databaseVars
<1> DEFINE next == Committed(pending, nextSequence, write[w].op, write[w].note, OriginOf[w])
<1>2. /\ up /\ write[w].op \in Operations /\ write[w].note \in Notes /\ OriginOf[w] \in Origins
      /\ CoordinatorInv /\ stored' = next /\ pending' = next
  BY <1>1, OriginOfAssumption DEF LocalInv, Types, Targets, RecordLocalCommit, Save
<1>3. CoordinatorInv'
  BY <1>1, <1>2, RecordLocalCommitInv
<1>4. Covered(next)
  BY <1>2, CommittedCovers
<1> HIDE DEF next
<1>5. Marked'
  BY <1>1, <1>2, <1>4, MarkedWithoutTokens
<1> QED BY <1>1, <1>3, <1>5, ReturnsInv

\* A create's placeholder gives way to the marker of the note it became.
LEMMA ResolvesInv ==
  ASSUME LocalInv, NEW w \in Writers, ResolvesCreate(w)
  PROVE  LocalInv'
<1> DEFINE id == write[w].note
           next == [phase |-> "resolved", op |-> write[w].op, note |-> id]
<1>1. PICK t \in intents : ResolveCreateIntent(t, id)
  BY DEF ResolvesCreate
<1>2. /\ write[w].phase = "changed" /\ write[w].op = "create" /\ intents' = {}
      /\ cradle' = [cradle EXCEPT ![id] = 0]
      /\ UNCHANGED <<up, flight, hold, crashes, holder, writes, dirty, exists>>
  BY DEF ResolvesCreate, drainVars
<1>3. up /\ id \in Notes /\ intents \subseteq Marker /\ cradle \in [Notes -> Nat]
  BY <1>1, <1>2
     DEF LocalInv, Types, Targets, CoordinatorInv, CoordinatorTypeOK, ResolveCreateIntent
<1>4. CoordinatorInv'
  BY <1>1, <1>2, <1>3, ResolveCreateIntentInv DEF LocalInv, Untouched, drainVars
<1>5. /\ stored' = Resolved(pending, nextSequence, t, id)
      /\ pending' = Resolved(pending, nextSequence, t, id)
  <2>1. Placeholder(pending, t) # {}
    BY <1>1, <1>2, TokenIsQueued
  <2> QED BY <1>1, <2>1 DEF ResolveCreateIntent, Save
<1>6. ASSUME NEW k \in Notes, NEW o \in dirty[k] \ {"mcp"}
      PROVE  \E m \in Resolved(pending, nextSequence, t, id) :
               Covers(m, k)' /\ Rank(o) <= Rank(m.origin)
  BY <1>1, <1>2, <1>3, ResolvedCovers DEF Covers
<1>7. Marked'
  BY <1>2, <1>5, <1>6 DEF Marked, MarkedIn, Tentative
<1>8. write' = [write EXCEPT ![w] = next] /\ write[w].op \in Operations
  <2>1. /\ write \in [Writers -> [phase : WritePhases, op : Operations, note : Notes \cup {Nobody}]]
        /\ write' = [write EXCEPT ![w].phase = "resolved"]
    BY DEF ResolvesCreate, LocalInv, Types
  <2>2. /\ write'[w] = [write[w] EXCEPT !.phase = "resolved"]
        /\ write[w] \in [phase : WritePhases, op : Operations, note : Notes \cup {Nobody}]
    BY <2>1
  <2>3. write'[w] = next /\ write[w].op \in Operations
    BY <2>2
  <2>4. write' = [v \in Writers |-> IF v = w THEN write'[w] ELSE write[v]]
    BY <2>1
  <2> HIDE DEF next
  <2> QED BY <2>1, <2>3, <2>4
<1>9. /\ next \in [phase : {"idle", "resolved"}, op : Operations, note : Notes \cup {Nobody}]
      /\ next.note \in Notes
  BY <1>3, <1>8
<1>10. cradle' \in [Notes -> Nat]
  BY <1>2, <1>3
<1> HIDE DEF next, id
<1> QED BY <1>2, <1>4, <1>7, <1>8, <1>9, <1>10, SettlesInv

-----------------------------------------------------------------------------
(* The steps of a drain.                                                   *)

\* What is marked stays so while changes only leave the database, and the
\* memory at most goes.
LEMMA MarkedKept ==
  ASSUME Marked, UNCHANGED <<stored, intents, write, cradle>>,
         up' => up /\ pending' = pending,
         \A n \in Notes : dirty'[n] \subseteq dirty[n]
  PROVE  Marked'
<1>1. ASSUME NEW queue, MarkedIn(queue), NEW n \in Notes, NEW o \in dirty'[n] \ {"mcp"}
      PROVE  \E m \in queue : /\ Covers(m, n)' /\ Rank(o) <= Rank(m.origin)
                              /\ ~Tentative(m, n)'
  <2>1. PICK m \in queue : Covers(m, n) /\ Rank(o) <= Rank(m.origin) /\ ~Tentative(m, n)
    BY <1>1 DEF MarkedIn
  <2>2. Covers(m, n)' /\ ~Tentative(m, n)'
    BY <2>1 DEF Covers, Tentative
  <2> QED BY <2>1, <2>2
<1>2. MarkedIn(stored)'
  BY <1>1 DEF Marked, MarkedIn
<1>3. up' => MarkedIn(pending)'
  BY <1>1 DEF Marked, MarkedIn
<1> QED BY <1>2, <1>3 DEF Marked

\* The drain goes on or ends; nobody else is at work.
LEMMA DrainGoesOn ==
  ASSUME LocalInv, flight.phase # "idle", HandsBack, CoordinatorInv', Marked',
         UNCHANGED <<up, intents, write, writes, exists, cradle>>,
         dirty' \in [Notes -> SUBSET Origins], \A n \in Notes : dirty'[n] \subseteq dirty[n],
         BatchMatches', OnlyReleasedLeaves', EmptyDrainSendsNothing'
  PROVE  LocalInv'
<1> USE DEF LocalInv
<1>1. holder = Syncer
  BY DEF Alone
<1>2. intents = {} /\ \A w \in Writers : write[w].phase = "idle"
  BY <1>1, HolderAssumption, NoWriterNoToken
<1>3. holder' \in {Syncer, Nobody} /\ (flight'.phase # "idle" => holder' = Syncer)
  BY <1>1 DEF HandsBack
<1>4. Types' /\ Alone'
  BY <1>2, <1>3 DEF Types, Alone
<1>5. Tokens' /\ Targets' /\ Clean'
  BY <1>2 DEF Tokens, Pending, Targets, Clean
<1> QED BY <1>4, <1>5

\* The drain ends, or waits, with the queue and the database as they were.
LEMMA DrainRests ==
  ASSUME LocalInv, flight.phase # "idle", HandsBack, CoordinatorInv',
         UNCHANGED <<up, pending, stored, intents, write, writes, dirty, exists, cradle>>,
         \/ flight'.phase = "idle"
         \/ flight'.phase # "uploading" /\ flight'.batch = flight.batch
  PROVE  LocalInv'
<1>1. Marked' /\ dirty' \in [Notes -> SUBSET Origins]
  BY MarkedKept DEF LocalInv, Types
<1>2. BatchMatches' /\ OnlyReleasedLeaves' /\ EmptyDrainSendsNothing'
  BY DEF LocalInv, BatchMatches, OnlyReleasedLeaves, EmptyDrainSendsNothing
<1> QED BY <1>1, <1>2, DrainGoesOn

LEMMA SyncBeginsInv ==
  ASSUME LocalInv, NEW policy \in Requested, SyncBegins(policy)
  PROVE  LocalInv'
<1> USE DEF LocalInv
<1>1. /\ holder = Nobody /\ holder' = Syncer /\ up /\ flight.phase = "idle"
      /\ UNCHANGED <<up, pending, stored, intents, write, writes, dirty, exists, cradle>>
      /\ flight' = [phase |-> IF hold THEN "gap" ELSE "gate", batch |-> pending,
                    policy |-> policy, attempt |-> 1]
  BY DEF SyncBegins, RequestSync, queueVars, databaseVars
<1>2. CoordinatorInv'
  BY RequestsSyncInv DEF SyncBegins, CallerRequestsSync
<1>3. intents = {} /\ \A w \in Writers : write[w].phase = "idle"
  BY <1>1, HolderAssumption, NoWriterNoToken
<1>4. Types' /\ Alone'
  BY <1>1, <1>3 DEF Types, Alone
<1>5. Tokens' /\ Targets' /\ Clean'
  BY <1>1, <1>3 DEF Tokens, Pending, Targets, Clean
<1>6. Marked'
  BY <1>1, MarkedKept
<1>7. flight'.batch = pending /\ flight'.phase # "uploading"
  BY <1>1
<1>8. BatchMatches'
  BY <1>1, <1>7 DEF BatchMatches, Derives, SameWrite
<1>9. OnlyReleasedLeaves' /\ EmptyDrainSendsNothing'
  BY <1>7 DEF OnlyReleasedLeaves, EmptyDrainSendsNothing
<1> QED BY <1>2, <1>4, <1>5, <1>6, <1>8, <1>9

LEMMA SyncWaitsInv ==
  ASSUME LocalInv, SyncWaits \/ UploadStops
  PROVE  LocalInv'
<1>1. /\ GapElapses \/ BackoffElapses \/ SleepFails \/ UploadFails \/ UploadRetries
      /\ HandsBack /\ UNCHANGED <<write, writes, dirty, exists, cradle>>
  BY DEF SyncWaits, UploadStops, databaseVars
<1>2. CoordinatorInv'
  BY <1>1, DrainInv DEF LocalInv, Timers, UploadAnswers
<1>3. flight \in Flight
  BY FlightFacts DEF LocalInv
<1>4. /\ flight.phase # "idle" /\ UNCHANGED <<up, pending, stored, intents>>
      /\ \/ flight'.phase = "idle"
         \/ flight'.phase # "uploading" /\ flight'.batch = flight.batch
  <2>1. CASE SleepFails \/ UploadFails
    BY <2>1 DEF SleepFails, UploadFails, FlightEnds, NoFlight, queueVars
  <2>2. CASE GapElapses
    BY <1>3, <2>2 DEF GapElapses, queueVars, Flight
  <2>3. CASE BackoffElapses
    <3>1. /\ flight' = [flight EXCEPT !.phase = "gate", !.attempt = @ + 1]
          /\ flight.phase = "backoff" /\ UNCHANGED <<up, pending, stored, intents>>
      BY <2>3 DEF BackoffElapses, queueVars
    <3>2. flight'.phase = "gate" /\ flight'.batch = flight.batch
      BY <1>3, <3>1 DEF Flight
    <3> QED BY <3>1, <3>2
  <2>4. CASE UploadRetries
    <3>1. /\ flight' = NoFlight \/ flight' = [flight EXCEPT !.phase = "backoff"]
          /\ flight.phase # "idle" /\ UNCHANGED <<up, pending, stored, intents>>
      BY <2>4 DEF UploadRetries, FlightEnds, queueVars
    <3> QED BY <1>3, <3>1 DEF Flight, NoFlight
  <2> QED BY <1>1, <2>1, <2>2, <2>3, <2>4
<1> QED BY <1>1, <1>2, <1>4, DrainRests

\* A released batch covers whatever is not MCP's and not yet upstream.
LEMMA ReleasedBatchCovers ==
  ASSUME LocalInv, flight.phase # "idle", flight.policy # "allow",
         Releasable(flight.batch, flight.policy, Unsynced), NEW n \in Notes
  PROVE  dirty[n] \subseteq {"mcp"} \/ \E m \in flight.batch : Covers(m, n) /\ m.approved
<1> USE DEF LocalInv
<1>1. SUFFICES ASSUME NEW o \in dirty[n] \ {"mcp"}
               PROVE  \E m \in flight.batch : Covers(m, n) /\ m.approved
  OBVIOUS
<1>2. PICK k \in pending : Covers(k, n) /\ Rank(o) <= Rank(k.origin)
  BY FlightFacts DEF Marked, MarkedIn
<1>3. k \in Marker /\ o \in Origins \ {"mcp"}
  BY DEF CoordinatorInv, CoordinatorTypeOK, Types
<1>4. k.origin # "mcp"
  BY <1>2, <1>3, CoverIsNotMcp
<1>5. PICK m \in flight.batch : SameWrite(k, m)
  BY DEF BatchMatches, Derives
<1>6. Settled(m)
  BY DEF Releasable
<1> QED BY <1>2, <1>4, <1>5, <1>6 DEF Settled, SameWrite, Covers

LEMMA SyncGateInv ==
  ASSUME LocalInv, SyncGate
  PROVE  LocalInv'
<1>1. /\ GatePasses(Unsynced) \/ GateRefuses(Unsynced)
      /\ HandsBack /\ UNCHANGED <<write, writes, dirty, exists, cradle>>
      /\ Unsynced \in BOOLEAN
  BY DEF SyncGate, databaseVars, Unsynced
<1>2. CoordinatorInv'
  BY <1>1, DrainInv DEF LocalInv, ExecutorGate
<1>3. flight \in Flight
  BY FlightFacts DEF LocalInv
<1>4. CASE GateRefuses(Unsynced)
  <2>1. /\ flight.phase # "idle" /\ UNCHANGED <<up, pending, stored, intents>>
        /\ flight'.phase = "idle"
    BY <1>4 DEF GateRefuses, FlightEnds, NoFlight, queueVars
  <2> QED BY <1>1, <1>2, <2>1, DrainRests
<1>5. CASE GatePasses(Unsynced)
  <2>1. /\ flight.phase = "gate" /\ UNCHANGED <<up, pending, stored, intents>>
        /\ Releasable(flight.batch, flight.policy, Unsynced)
        /\ flight'.phase = "uploading" /\ flight'.batch = flight.batch
        /\ flight'.policy = flight.policy
    BY <1>3, <1>5 DEF GatePasses, queueVars, Flight
  <2>2. Marked' /\ dirty' \in [Notes -> SUBSET Origins]
    BY <1>1, <2>1, MarkedKept DEF LocalInv, Types
  <2>3. BatchMatches'
    BY <2>1 DEF LocalInv, BatchMatches
  <2>4. EmptyDrainSendsNothing'
    BY <1>1, <2>1 DEF Releasable, EmptyDrainSendsNothing, Unsynced
  <2>5. OnlyReleasedLeaves'
    BY <1>1, <2>1, ReleasedBatchCovers DEF OnlyReleasedLeaves, Covers
  <2> QED BY <1>1, <1>2, <2>1, <2>2, <2>3, <2>4, <2>5, DrainGoesOn
<1> QED BY <1>1, <1>4, <1>5

LEMMA UploadSendsInv ==
  ASSUME LocalInv, NEW n \in Notes, UploadSends(n)
  PROVE  LocalInv'
<1>1. /\ flight.phase = "uploading" /\ dirty' = [dirty EXCEPT ![n] = {}]
      /\ UNCHANGED coordinatorVars /\ UNCHANGED <<write, holder, writes, exists, cradle>>
  BY DEF UploadSends, writerVars
<1>2. UNCHANGED <<up, pending, stored, flight, intents>>
  BY <1>1 DEF coordinatorVars, queueVars, drainVars
<1>3. CoordinatorInv'
  BY <1>1, StepInv DEF LocalInv
<1>4. dirty' \in [Notes -> SUBSET Origins] /\ \A k \in Notes : dirty'[k] \subseteq dirty[k]
  BY <1>1 DEF LocalInv, Types
<1>5. Marked'
  BY <1>1, <1>2, <1>4, MarkedKept DEF LocalInv
<1>6. BatchMatches'
  BY <1>2 DEF LocalInv, BatchMatches
<1>7. OnlyReleasedLeaves' /\ EmptyDrainSendsNothing'
  BY <1>1, <1>2, <1>4
     DEF LocalInv, OnlyReleasedLeaves, EmptyDrainSendsNothing, Unsynced, Covers
<1>8. HandsBack
  BY <1>1, <1>2 DEF HandsBack
<1> QED BY <1>1, <1>2, <1>3, <1>4, <1>5, <1>6, <1>7, <1>8, DrainGoesOn

LEMMA UploadFinishesInv ==
  ASSUME LocalInv, UploadFinishes
  PROVE  LocalInv'
<1>1. /\ UploadConfirmed \/ UploadConfirmedUnsaved
      /\ HandsBack /\ UNCHANGED <<write, writes, exists, cradle>>
      /\ dirty' = [n \in Notes |-> {}]
  BY DEF UploadFinishes
<1>2. CoordinatorInv'
  BY <1>1, DrainInv DEF LocalInv, UploadAnswers
<1>3. /\ flight.phase # "idle" /\ UNCHANGED <<up, intents>>
      /\ flight'.phase = "idle"
  BY <1>1
     DEF UploadConfirmed, UploadConfirmedUnsaved, FlightEnds, NoFlight
<1>4. Marked' /\ dirty' \in [Notes -> SUBSET Origins] /\ \A n \in Notes : dirty'[n] = {}
  BY <1>1 DEF Marked, MarkedIn
<1> QED BY <1>1, <1>2, <1>3, <1>4, NoDrain, DrainGoesOn

-----------------------------------------------------------------------------
(* Everything else.                                                        *)

LEMMA ThrottleElapsesInv ==
  ASSUME LocalInv, ThrottleElapses
  PROVE  LocalInv'
<1>1. /\ HoldElapses
      /\ UNCHANGED <<up, pending, stored, flight, intents, write, holder, writes, dirty, exists, cradle>>
  BY DEF ThrottleElapses, HoldElapses, queueVars, writerVars, databaseVars
<1>2. CoordinatorInv'
  BY <1>1, DrainInv DEF LocalInv
<1>3. Marked'
  BY <1>1, MarkedKept DEF LocalInv
<1> QED BY <1>1, <1>2, <1>3
        DEF LocalInv, Types, Alone, Tokens, TokenOf, Pending, Targets, Clean, BatchMatches,
            OnlyReleasedLeaves, EmptyDrainSendsNothing, Unsynced, Covers

\* An approval leaves every write in the queue, under its sequence.
LEMMA ApprovedKeepsWrites ==
  ASSUME CoordinatorInv, NEW through
  PROVE  /\ Derives(Approved(pending, through), pending)
         /\ Derives(pending, Approved(pending, through))
<1>1. ASSUME NEW m \in pending PROVE \E k \in Approved(pending, through) : SameWrite(m, k)
  <2>1. m \in Marker
    BY PendingFacts
  <2>2. m \in Approved(pending, through) \/ [m EXCEPT !.approved = TRUE] \in Approved(pending, through)
    BY DEF Approved
  <2>3. SameWrite(m, m) /\ SameWrite(m, [m EXCEPT !.approved = TRUE])
    BY <2>1 DEF SameWrite, Marker
  <2> QED BY <2>2, <2>3
<1>2. Derives(Approved(pending, through), pending)
  BY ApproveNext
<1> QED BY <1>1, <1>2 DEF Derives

\* A queue with the writes of the memory marks what the memory marks.
LEMMA SameWritesMark ==
  ASSUME MarkedIn(pending), NEW queue, Derives(pending, queue)
  PROVE  MarkedIn(queue)
<1> SUFFICES ASSUME NEW n \in Notes, NEW o \in dirty[n] \ {"mcp"}
             PROVE  \E m \in queue : Covers(m, n) /\ Rank(o) <= Rank(m.origin) /\ ~Tentative(m, n)
  BY DEF MarkedIn
<1>1. PICK k \in pending : Covers(k, n) /\ Rank(o) <= Rank(k.origin) /\ ~Tentative(k, n)
  BY DEF MarkedIn
<1>2. PICK m \in queue : SameWrite(k, m)
  BY DEF Derives
<1>3. Covers(m, n) /\ ~Tentative(m, n)
  BY <1>1, <1>2 DEF Covers, Tentative, SameWrite
<1> QED BY <1>1, <1>2, <1>3 DEF SameWrite

\* ... whether it was saved, or failed late.
LEMMA ApprovesInv ==
  ASSUME LocalInv, (\E through \in 1 .. Highest(pending) : Approves(through)) \/ ApprovalFails
  PROVE  LocalInv'
<1> USE DEF LocalInv
<1>1. /\ up /\ UNCHANGED <<up, intents, flight, write, holder, writes, dirty, exists, cradle>>
      /\ \E through : \/ ApprovePending(through) /\ Untouched
                      \/ ApprovingFails /\ SaveThrowsLate(Approved(pending, through))
  BY DEF Approves, ApprovePending, ApprovalFails, ApprovingFails, Untouched, drainVars,
         writerVars, databaseVars
<1>2. PICK through : \/ ApprovePending(through) /\ Untouched
                     \/ ApprovingFails /\ SaveThrowsLate(Approved(pending, through))
  BY <1>1
<1> DEFINE next == Approved(pending, through)
<1>3. CoordinatorInv'
  BY <1>1, <1>2, ApprovePendingInv, FailuresInv
<1>4. Derives(next, pending) /\ Derives(pending, next) /\ Derives(pending, pending)
  BY ApprovedKeepsWrites DEF Derives, SameWrite
<1>5. pending' \in {pending, next} /\ stored' \in {stored, next}
  BY <1>2 DEF ApprovePending, Save, SaveThrowsLate
<1> HIDE DEF next
<1>6. Types' /\ Alone' /\ Targets' /\ Clean' /\ OnlyReleasedLeaves' /\ EmptyDrainSendsNothing'
  BY <1>1
     DEF Types, Alone, Targets, Clean, OnlyReleasedLeaves, EmptyDrainSendsNothing, Unsynced, Covers
<1>7. Tokens'
  <2>1. ASSUME NEW t, NEW w, TokenOf(t, w) PROVE TokenOf(t, w)'
    <3>1. (\E m \in pending : SameWrite(m, t)) /\ \E m \in stored : SameWrite(m, t)
      BY <2>1 DEF TokenOf
    <3>2. \E m \in next : SameWrite(m, t)
      BY <1>4, <3>1 DEF Derives, SameWrite
    <3> QED BY <1>1, <1>5, <2>1, <3>1, <3>2 DEF TokenOf
  <2> QED BY <1>1, <2>1 DEF Tokens, Pending
<1>8. Marked'
  <2>1. MarkedIn(stored) /\ MarkedIn(pending) /\ MarkedIn(next)
    BY <1>1, <1>4, SameWritesMark DEF Marked
  <2>2. MarkedIn(stored') /\ MarkedIn(pending')
    BY <1>5, <2>1
  <2> QED BY <1>1, <2>2 DEF Marked, MarkedIn, Covers, Tentative
<1>9. BatchMatches'
  <2>1. Derives(pending', pending) /\ Derives(pending, pending')
    BY <1>4, <1>5
  <2> QED BY <1>1, <2>1 DEF BatchMatches, Derives, SameWrite
<1> QED BY <1>3, <1>6, <1>7, <1>8, <1>9

\* Death leaves no writer, no token and no drain: the store's markers are
\* all that is left, and they are enough.
LEMMA DiesInv ==
  ASSUME LocalInv, Dies
  PROVE  LocalInv'
<1> USE DEF LocalInv
<1>1. /\ Crash /\ holder' = Nobody /\ intents' = {} /\ flight' = NoFlight
      /\ write' = [w \in Writers |-> Idle]
      /\ UNCHANGED <<stored, writes, dirty, exists, cradle>>
  BY DEF Dies, Crash, databaseVars
<1>2. CoordinatorInv'
  BY <1>1, CrashInv
<1>3. \A w \in Writers : write'[w].phase = "idle"
  BY <1>1 DEF Idle
<1>4. Idle \in [phase : WritePhases, op : Operations, note : Notes \cup {Nobody}]
  BY DEF Idle, WritePhases, Operations
<1>5. Types' /\ Clean'
  BY <1>1, <1>4 DEF Types, Clean
<1>6. Alone' /\ Tokens' /\ Targets'
  BY <1>1, <1>3 DEF Alone, Tokens, Pending, Targets, NoFlight
<1>7. Marked'
  <2>1. Covered(stored') /\ ~up'
    BY <1>1, MarkedIsCovered DEF Marked, Crash
  <2> QED BY <1>1, <2>1, MarkedWithoutTokens
<1>8. BatchMatches' /\ OnlyReleasedLeaves' /\ EmptyDrainSendsNothing'
  BY <1>1, NoDrain DEF NoFlight
<1> QED BY <1>2, <1>5, <1>6, <1>7, <1>8

LEMMA RestartsInv ==
  ASSUME LocalInv, Restarts
  PROVE  LocalInv'
<1> USE DEF LocalInv
<1>1. /\ Restart /\ ~up /\ pending' = stored
      /\ UNCHANGED <<stored, flight, intents, write, holder, writes, dirty, exists, cradle>>
  BY DEF Restarts, Restart, drainVars, writerVars, databaseVars
<1>2. CoordinatorInv'
  BY <1>1, RestartInv
<1>3. flight.phase = "idle" /\ \A w \in Writers : write[w].phase = "idle"
  BY <1>1, FlightFacts DEF Alone
<1>4. Types' /\ Alone' /\ Tokens' /\ Targets' /\ Clean'
  BY <1>1, <1>3 DEF Types, Alone, Tokens, Pending, Targets, Clean
<1>5. Marked'
  BY <1>1 DEF Marked, MarkedIn, Covers, Tentative
<1>6. BatchMatches' /\ OnlyReleasedLeaves' /\ EmptyDrainSendsNothing'
  BY <1>1, <1>3, NoDrain
<1> QED BY <1>2, <1>4, <1>5, <1>6

-----------------------------------------------------------------------------
(* The theorems.                                                           *)

LEMMA LocalStep == LocalInv /\ [Next]_vars => LocalInv'
<1> SUFFICES ASSUME LocalInv, [Next]_vars PROVE LocalInv'
  OBVIOUS
<1>1. ASSUME NEW w \in Writers, WriterStep(w) PROVE LocalInv'
  <2>1. ASSUME NEW op \in Kinds, NEW n \in Notes, Begins(w, op, n) PROVE LocalInv'
    BY <2>1, KindsAssumption, BeginsInv DEF Operations
  <2>2. CASE Begins(w, "create", Nobody) \/ TurnedAway(w, "create", Nobody)
    BY <2>2, BeginsInv, TurnedAwayInv DEF Operations
  <2>3. ASSUME NEW n \in Notes, Mutates(w, n) PROVE LocalInv'
    BY <2>3, MutatesInv
  <2>4. ASSUME NEW op \in Kinds, NEW n \in Notes, TurnedAway(w, op, n) PROVE LocalInv'
    BY <2>4, KindsAssumption, TurnedAwayInv DEF Operations
  <2> QED BY <1>1, <2>1, <2>2, <2>3, <2>4, FailsInv, RefusesInv, ResolvesInv, RecordsCommitInv
          DEF WriterStep
<1>2. CASE SyncStep
  BY <1>2, SyncBeginsInv, SyncWaitsInv, SyncGateInv, UploadSendsInv, UploadFinishesInv,
     ThrottleElapsesInv DEF SyncStep
<1>3. CASE UNCHANGED vars
  <2>1. UNCHANGED coordinatorVars
        /\ UNCHANGED <<up, pending, stored, flight, intents, write, holder, writes, dirty, exists, cradle>>
    BY <1>3
       DEF vars, coordinatorVars, queueVars, drainVars, writerVars, databaseVars
  <2>2. CoordinatorInv'
    BY <2>1, StepInv DEF LocalInv
  <2>3. Marked'
    BY <2>1, MarkedKept DEF LocalInv
  <2> QED BY <2>1, <2>2, <2>3
          DEF LocalInv, Types, Alone, Tokens, TokenOf, Pending, Targets, Clean, BatchMatches,
              OnlyReleasedLeaves, EmptyDrainSendsNothing, Unsynced, Covers
<1> QED BY <1>1, <1>2, <1>3, ApprovesInv, DiesInv, RestartsInv DEF Next

LEMMA AlwaysLocalInv == Spec => []LocalInv
BY LocalInit, LocalStep, PTL DEF Spec

-----------------------------------------------------------------------------
(* Room in the queue.                                                      *)

\* A marker of the same operation and note, which a commit replaces.
Replaceable(queue, op, id) == \E m \in queue : m.operation = op /\ m.noteId = id

\* The place that the capacity probe found is still free until the write's
\* marker takes it, and then that marker makes place for the commit's.
RoomKept ==
  \A w \in Writers :
    /\ Pending(w) /\ ~WriteAhead(write[w].op, OriginOf[w]) => HasRoom(pending)
    /\ write[w].phase = "resolved" => Replaceable(pending, write[w].op, write[w].note)

\* A commit fits into a queue with room, or with a marker that it replaces.
LEMMA CommittedFits ==
  ASSUME NEW queue, IsFiniteSet(queue), Cardinality(queue) <= MaxPending,
         NEW seq, NEW op, NEW id, NEW org, HasRoom(queue) \/ Replaceable(queue, op, id)
  PROVE  Cardinality(Committed(queue, seq, op, id, org)) <= MaxPending
<1> DEFINE stay == {m \in queue : m.operation # op \/ m.noteId # id}
           new == NewMarker(op, id, seq, StickyOrigin(queue, id, org))
<1>1. stay \in SUBSET queue /\ Cardinality(queue) \in Nat
  BY FS_CardinalityType
<1>2. IsFiniteSet(stay) /\ Cardinality(stay) <= Cardinality(queue) /\ Cardinality(stay) \in Nat
  <2> HIDE DEF stay
  <2>1. IsFiniteSet(stay) /\ Cardinality(stay) <= Cardinality(queue)
    BY <1>1, FS_Subset
  <2> QED BY <2>1, FS_CardinalityType
<1>3. Cardinality(stay) < MaxPending
  <2>1. CASE HasRoom(queue)
    BY <1>1, <1>2, <2>1, MaxPendingAssumption DEF HasRoom
  <2>2. CASE Replaceable(queue, op, id)
    <3>1. PICK m \in queue : m.operation = op /\ m.noteId = id
      BY <2>2 DEF Replaceable
    <3>2. IsFiniteSet(queue \ {m}) /\ Cardinality(queue \ {m}) = Cardinality(queue) - 1
      BY FS_RemoveElement
    <3>3. stay \in SUBSET (queue \ {m})
      BY <3>1
    <3> HIDE DEF stay
    <3>4. Cardinality(stay) <= Cardinality(queue \ {m})
      BY <3>2, <3>3, FS_Subset
    <3> QED BY <1>1, <1>2, <3>2, <3>4, MaxPendingAssumption
  <2> QED BY <2>1, <2>2
<1>4. Committed(queue, seq, op, id, org) = stay \cup {new}
  BY DEF Committed
<1> HIDE DEF stay, new
<1>5. Cardinality(stay \cup {new}) = IF new \in stay THEN Cardinality(stay) ELSE Cardinality(stay) + 1
  BY <1>2, FS_AddElement
<1> QED BY <1>2, <1>3, <1>4, <1>5, MaxPendingAssumption

\* The placeholder's place is taken by the note's marker.
LEMMA ResolvedFits ==
  ASSUME NEW queue, IsFiniteSet(queue), Cardinality(queue) <= MaxPending,
         NEW seq, NEW token, NEW id, Placeholder(queue, token) # {}
  PROVE  /\ IsFiniteSet(Resolved(queue, seq, token, id))
         /\ Cardinality(Resolved(queue, seq, token, id)) <= MaxPending
         /\ Replaceable(Resolved(queue, seq, token, id), "create", id)
<1> DEFINE gone == CHOOSE m \in Placeholder(queue, token) : TRUE
           stay == {m \in queue \ {gone} : m.operation # "create" \/ m.noteId # id}
           new == NewMarker("create", id, seq, StickyOrigin(queue, id, gone.origin))
<1>1. gone \in queue
  <2>1. gone \in Placeholder(queue, token)
    OBVIOUS
  <2> HIDE DEF gone
  <2> QED BY <2>1 DEF Placeholder
<1>2. Resolved(queue, seq, token, id) = stay \cup {new}
  BY DEF Resolved
<1>3. new.operation = "create" /\ new.noteId = id
  BY DEF NewMarker
<1> HIDE DEF gone
<1>4. stay \in SUBSET (queue \ {gone})
  OBVIOUS
<1> HIDE DEF stay, new
<1>5. /\ IsFiniteSet(queue \ {gone}) /\ Cardinality(queue \ {gone}) = Cardinality(queue) - 1
      /\ Cardinality(queue) \in Nat
  BY <1>1, FS_RemoveElement, FS_CardinalityType
<1>6. IsFiniteSet(stay) /\ Cardinality(stay) <= Cardinality(queue) - 1
  BY <1>4, <1>5, FS_Subset
<1>7. /\ IsFiniteSet(stay \cup {new})
      /\ Cardinality(stay \cup {new}) <= Cardinality(stay) + 1
      /\ Cardinality(stay) \in Nat /\ Cardinality(stay \cup {new}) \in Nat
  <2>1. /\ IsFiniteSet(stay \cup {new}) /\ Cardinality(stay) \in Nat
        /\ Cardinality(stay \cup {new}) = IF new \in stay THEN Cardinality(stay)
                                                          ELSE Cardinality(stay) + 1
    BY <1>6, FS_AddElement, FS_CardinalityType
  <2> QED BY <2>1
<1>8. Cardinality(stay \cup {new}) <= MaxPending
  BY <1>5, <1>6, <1>7, MaxPendingAssumption
<1>9. Replaceable(stay \cup {new}, "create", id)
  BY <1>3 DEF Replaceable
<1> QED BY <1>2, <1>7, <1>8, <1>9

LEMMA RoomImpliesCommitHasRoom == LocalInv /\ RoomKept => CommitHasRoom
<1> SUFFICES ASSUME LocalInv, RoomKept, NEW w \in Writers, write[w].phase \in {"changed", "resolved"}
             PROVE  LET op == write[w].op
                        n  == write[w].note
                        queue == IF ReadyToRecord(w) THEN pending
                                   ELSE Resolved(pending, nextSequence, CHOOSE t \in intents : TRUE, n)
                    IN  Cardinality(Committed(queue, nextSequence, op, n, OriginOf[w])) <= MaxPending
  BY DEF CommitHasRoom
<1> DEFINE op == write[w].op
           n == write[w].note
           queue == IF ReadyToRecord(w) THEN pending
                      ELSE Resolved(pending, nextSequence, CHOOSE t \in intents : TRUE, n)
<1>1. up
  BY SingleWriter DEF LocalInv
<1>2. IsFiniteSet(pending) /\ Cardinality(pending) <= MaxPending
  BY PendingFacts DEF LocalInv
<1>3. /\ IsFiniteSet(queue) /\ Cardinality(queue) <= MaxPending
      /\ HasRoom(queue) \/ Replaceable(queue, op, n)
  <2>1. CASE ReadyToRecord(w)
    <3>1. queue = pending
      BY <1>2, <2>1
    <3>2. CASE write[w].phase = "resolved"
      BY <1>2, <3>1, <3>2 DEF RoomKept
    <3>3. CASE write[w].phase = "changed"
      <4>1. Pending(w) /\ ~(op = "create" /\ intents # {})
        BY <2>1, <3>3 DEF Pending, ReadyToRecord
      <4>2. CASE ~WriteAhead(op, OriginOf[w])
        BY <1>2, <3>1, <4>1, <4>2 DEF RoomKept
      <4>3. CASE WriteAhead(op, OriginOf[w])
        <5>1. PICK t \in intents : TokenOf(t, w)
          BY <4>1, <4>3 DEF LocalInv, Tokens
        <5>2. Replaceable(pending, op, n)
          BY <4>1, <5>1 DEF TokenOf, SameWrite, Replaceable
        <5> QED BY <1>2, <3>1, <5>2
      <4> QED BY <4>2, <4>3
    <3> QED BY <3>2, <3>3
  <2>2. CASE ~ReadyToRecord(w)
    <3>1. write[w].phase = "changed" /\ op = "create" /\ intents # {}
      BY <2>2 DEF ReadyToRecord
    <3> DEFINE t == CHOOSE x \in intents : TRUE
    <3>2. t \in intents
      BY <3>1
    <3>3. queue = Resolved(pending, nextSequence, t, n)
      BY <1>2, <2>2
    <3> HIDE DEF t
    <3>4. Placeholder(pending, t) # {}
      BY <3>1, <3>2, TokenIsQueued
    <3> HIDE DEF queue, n
    <3> QED BY <1>2, <3>1, <3>3, <3>4, ResolvedFits
  <2> QED BY <2>1, <2>2
<1> HIDE DEF queue, op, n
<1>4. Cardinality(Committed(queue, nextSequence, op, n, OriginOf[w])) <= MaxPending
  BY <1>3, CommittedFits
<1> QED BY <1>4 DEF queue, op, n
\* Only the writer at work goes by the room that it found.
LEMMA WriterRoom ==
  ASSUME NEW w \in Writers, \A v \in Writers : v # w => write'[v].phase = "idle",
         write'[w].phase \in {"mutating", "changed"} /\ ~WriteAhead(write'[w].op, OriginOf[w])
           => HasRoom(pending'),
         write'[w].phase = "resolved" => Replaceable(pending', write'[w].op, write'[w].note)
  PROVE  RoomKept'
BY DEF RoomKept, Pending, HasRoom, Replaceable

LEMMA NobodyNeedsRoom ==
  ASSUME \A w \in Writers : write'[w].phase = "idle"
  PROVE  RoomKept'
BY DEF RoomKept, Pending

LEMMA WriterStepRoom ==
  ASSUME LocalInv, RoomKept, NEW w \in Writers, WriterStep(w)
  PROVE  RoomKept'
<1>1. write \in [Writers -> [phase : WritePhases, op : Operations, note : Notes \cup {Nobody}]]
  BY DEF LocalInv, Types
<1>2. ASSUME \A v \in Writers : v # w => write[v].phase = "idle" /\ write'[v] = write[v],
             write'[w].phase = "idle"
      PROVE  RoomKept'
  BY <1>2, NobodyNeedsRoom
<1>3. ASSUME write[w].phase # "idle", Returns(w) PROVE RoomKept'
  <2>1. write'[w].phase = "idle" /\ \A v \in Writers : v # w => write'[v] = write[v]
    BY <1>1, <1>3 DEF Returns, Idle
  <2>2. \A v \in Writers : v # w => write[v].phase = "idle"
    BY <1>3, SingleWriter DEF LocalInv
  <2> QED BY <1>2, <2>1, <2>2
<1>4. ASSUME NEW op, NEW n, Begins(w, op, n) PROVE RoomKept'
  <2>1. /\ up /\ holder = Nobody /\ HasRoom(pending)
        /\ ~WriteAhead(op, OriginOf[w]) => pending' = pending
        /\ write' = [write EXCEPT ![w] = [phase |-> "mutating", op |-> op, note |-> n]]
    BY <1>4 DEF Begins, queueVars
  <2>2. \A v \in Writers : write[v].phase = "idle"
    BY <2>1, HolderAssumption DEF LocalInv, Alone
  <2>3. /\ write'[w].phase = "mutating" /\ write'[w].op = op
        /\ \A v \in Writers : v # w => write'[v] = write[v]
    BY <1>1, <2>1
  <2> QED BY <2>1, <2>2, <2>3, WriterRoom
<1>5. ASSUME NEW n \in Notes, Mutates(w, n) PROVE RoomKept'
  <2>1. /\ write[w].phase = "mutating" /\ pending' = pending
        /\ write' = [write EXCEPT ![w].phase = "changed", ![w].note = n]
    BY <1>5 DEF Mutates, coordinatorVars, queueVars
  <2>2. /\ write'[w].phase = "changed" /\ write'[w].op = write[w].op
        /\ \A v \in Writers : v # w => write'[v] = write[v]
    BY <1>1, <2>1
  <2>3. \A v \in Writers : v # w => write[v].phase = "idle"
    BY <2>1, SingleWriter DEF LocalInv
  <2>4. ~WriteAhead(write[w].op, OriginOf[w]) => HasRoom(pending)
    BY <2>1 DEF RoomKept, Pending
  <2> QED BY <2>1, <2>2, <2>3, <2>4, WriterRoom
<1>6. CASE ResolvesCreate(w)
  <2>1. /\ write[w].phase = "changed" /\ write[w].op = "create"
        /\ write' = [write EXCEPT ![w].phase = "resolved"]
    BY <1>6 DEF ResolvesCreate
  <2>2. PICK t \in intents : ResolveCreateIntent(t, write[w].note)
    BY <1>6 DEF ResolvesCreate
  <2>3. IsFiniteSet(pending) /\ Cardinality(pending) <= MaxPending
    BY PendingFacts DEF LocalInv
  <2>4. Placeholder(pending, t) # {}
    BY <2>1, TokenIsQueued
  <2>5. pending' = Resolved(pending, nextSequence, t, write[w].note)
    BY <2>2, <2>3, <2>4 DEF ResolveCreateIntent, Save
  <2>6. Replaceable(pending', "create", write[w].note)
    BY <2>3, <2>4, <2>5, ResolvedFits
  <2>7. /\ write'[w].phase = "resolved" /\ write'[w].op = "create" /\ write'[w].note = write[w].note
        /\ \A v \in Writers : v # w => write'[v] = write[v]
    BY <1>1, <2>1
  <2>8. \A v \in Writers : v # w => write[v].phase = "idle"
    BY <2>1, SingleWriter DEF LocalInv
  <2> QED BY <2>6, <2>7, <2>8, WriterRoom
<1>7. CASE AdapterFails(w) \/ AdapterRefuses(w) \/ RecordsCommit(w) \/ MarkerFails(w)
  <2>1. write[w].phase # "idle" /\ Returns(w)
    BY <1>7 DEF AdapterFails, AdapterRefuses, RecordsCommit, ReadyToRecord, MarkerFails
  <2> QED BY <1>3, <2>1
<1>8. ASSUME NEW op, NEW n, TurnedAway(w, op, n) PROVE RoomKept'
  <2>1. write' = write /\ pending' = pending
    BY <1>8 DEF TurnedAway, SaveThrowsLate, writerVars
  <2> QED BY <2>1 DEF RoomKept, Pending, HasRoom, Replaceable
<1> QED BY <1>4, <1>5, <1>6, <1>7, <1>8 DEF WriterStep

\* A sync leaves the queue alone while a writer is at work: they exclude each
\* other.
LEMMA SyncStepRoom ==
  ASSUME LocalInv, RoomKept, SyncStep
  PROVE  RoomKept'
<1>1. write' = write
  BY DEF SyncStep, SyncBegins, SyncWaits, SyncGate, UploadSends, UploadFinishes, UploadStops,
         ThrottleElapses, writerVars
<1>2. pending' = pending \/ flight.phase # "idle"
  BY DEF SyncStep, SyncBegins, RequestSync, SyncWaits, GapElapses, BackoffElapses, SleepFails,
         SyncGate, GatePasses, GateRefuses, UploadSends, UploadFinishes, UploadConfirmed,
         UploadConfirmedUnsaved, UploadStops, UploadFails, UploadRetries, ThrottleElapses,
         HoldElapses, SaveFails, SaveThrowsLate, coordinatorVars, queueVars
<1>3. CASE pending' = pending
  BY <1>1, <1>3 DEF RoomKept, Pending, HasRoom, Replaceable
<1>4. CASE flight.phase # "idle"
  <2>1. \A w \in Writers : write[w].phase = "idle"
    BY <1>4, HolderAssumption DEF LocalInv, Alone
  <2> QED BY <1>1, <2>1, NobodyNeedsRoom
<1> QED BY <1>2, <1>3, <1>4

\* An approval changes no place in the queue.
LEMMA ApprovesRoom ==
  ASSUME LocalInv, RoomKept, NEW through, Approves(through)
  PROVE  RoomKept'
<1>1. /\ up /\ write' = write
      /\ pending' = pending \/ pending' = Approved(pending, through)
  BY DEF Approves, ApprovePending, Save, writerVars
<1>2. pending \in SUBSET Marker /\ IsFiniteSet(pending)
  BY PendingFacts DEF LocalInv
<1>3. CASE pending' = pending
  BY <1>1, <1>3 DEF RoomKept, Pending, HasRoom, Replaceable
<1>4. CASE pending' = Approved(pending, through)
  <2>1. HasRoom(pending) => HasRoom(pending')
    <3>1. IsFiniteSet(pending') /\ Cardinality(pending') <= Cardinality(pending)
      BY <1>2, <1>4, ApprovedDerives
    <3>2. Cardinality(pending) \in Nat /\ Cardinality(pending') \in Nat
      BY <1>2, <3>1, FS_CardinalityType
    <3> QED BY <3>1, <3>2, MaxPendingAssumption DEF HasRoom
  <2>2. ASSUME NEW op, NEW id, Replaceable(pending, op, id) PROVE Replaceable(pending', op, id)
    <3>1. PICK m \in pending : m.operation = op /\ m.noteId = id
      BY <2>2 DEF Replaceable
    <3>2. PICK k \in pending' : k.operation = m.operation /\ k.noteId = m.noteId
      <4> DEFINE k == IF m \in Approvable(pending, through) THEN [m EXCEPT !.approved = TRUE] ELSE m
      <4>1. k \in pending'
        BY <1>4 DEF Approved
      <4>2. k.operation = m.operation /\ k.noteId = m.noteId
        BY <1>2 DEF Marker
      <4> QED BY <4>1, <4>2
    <3> QED BY <3>1, <3>2 DEF Replaceable
  <2> QED BY <1>1, <2>1, <2>2 DEF RoomKept, Pending, HasRoom, Replaceable
<1> QED BY <1>1, <1>2, <1>3, <1>4

LEMMA StepRoom == LocalInv /\ RoomKept /\ [Next]_vars => RoomKept'
<1> SUFFICES ASSUME LocalInv, RoomKept, [Next]_vars PROVE RoomKept'
  OBVIOUS
<1>1. CASE Dies
  <2>1. write' = [w \in Writers |-> Idle]
    BY <1>1 DEF Dies
  <2> QED BY <2>1, NobodyNeedsRoom DEF Idle
<1>2. CASE Restarts
  <2>1. ~up /\ write' = write
    BY <1>2 DEF Restarts, Restart, writerVars
  <2>2. \A w \in Writers : write[w].phase = "idle"
    BY <2>1 DEF LocalInv, Alone
  <2> QED BY <2>1, <2>2, NobodyNeedsRoom
<1>3. CASE UNCHANGED vars
  <2>1. write' = write /\ pending' = pending
    BY <1>3 DEF vars, coordinatorVars, queueVars, writerVars
  <2> QED BY <2>1 DEF RoomKept, Pending, HasRoom, Replaceable
<1>4. CASE ApprovalFails
  <2>1. write' = write /\ pending' = pending
    BY <1>4 DEF ApprovalFails, ApprovingFails, SaveThrowsLate, writerVars
  <2> QED BY <2>1 DEF RoomKept, Pending, HasRoom, Replaceable
<1> QED BY <1>1, <1>2, <1>3, <1>4, WriterStepRoom, SyncStepRoom, ApprovesRoom DEF Next

LEMMA AlwaysRoom == Spec => [](LocalInv /\ RoomKept)
<1>1. Init => RoomKept
  <2> SUFFICES ASSUME Init PROVE RoomKept
    OBVIOUS
  <2>1. write = [w \in Writers |-> Idle]
    BY DEF Init
  <2> QED BY <2>1 DEF RoomKept, Pending, Idle
<1> QED BY <1>1, LocalInit, LocalStep, StepRoom, PTL DEF Spec

\* Every variable keeps its type, in every behaviour of the daemon.
THEOREM WritePathTypeCorrect == Spec => []TypeOK
<1>1. LocalInv => TypeOK
  BY DEF LocalInv, CoordinatorInv, Types, TypeOK
<1> QED BY <1>1, AlwaysLocalInv, PTL

\* A change that is not MCP's and is not upstream has a durable marker that
\* ranks as high as its origin: no failed save, failed adapter call, refused
\* write, approval, drain, crash or restart leaves it without one.
THEOREM UnsyncedIsAlwaysMarked == Spec => []UnsyncedIsMarked
BY InvImpliesUnsyncedIsMarked, AlwaysLocalInv, PTL

\* No upload carries a change that is not MCP's unless the operator approved
\* a marker of it, or the request's policy allows everything.
THEOREM UploadsCarryOnlyWhatWasReleased == Spec => []OnlyReleasedLeaves
<1>1. LocalInv => OnlyReleasedLeaves
  BY DEF LocalInv
<1> QED BY <1>1, AlwaysLocalInv, PTL

\* An upload with an empty batch has nothing to send.
THEOREM EmptyDrainsSendNothing == Spec => []EmptyDrainSendsNothing
<1>1. LocalInv => EmptyDrainSendsNothing
  BY DEF LocalInv
<1> QED BY <1>1, AlwaysLocalInv, PTL

\* A write that was let in can always queue its success.
THEOREM CommitsAlwaysHaveRoom == Spec => []CommitHasRoom
BY RoomImpliesCommitHasRoom, AlwaysRoom, PTL

\* Nothing is queued behind the back of a drain: its batch is the queue.
THEOREM BatchIsAlwaysTheQueue == Spec => []BatchIsTheQueue
BY InvImpliesBatchIsTheQueue, AlwaysLocalInv, PTL
=============================================================================
