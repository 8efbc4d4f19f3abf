--------------------------- MODULE DatabaseMutex ---------------------------
(***************************************************************************)
(* The per-database gate of src/core/notesnook-database-mutex.ts: a         *)
(* reader-writer lock whose waiters queue in arrival order, with a cap on   *)
(* the waiters of either mode.  A client is a call of withMutex or          *)
(* withSharedMutex; it may call again once its function has settled.        *)
(***************************************************************************)
EXTENDS Naturals, Sequences, FiniteSets

CONSTANTS
  Clients,
  MaxDepth,        \* MAX_DEPTH: exclusive waiters
  MaxSharedDepth   \* MAX_SHARED_DEPTH: shared waiters

ASSUME ClientsAssumption == IsFiniteSet(Clients)
ASSUME MaxDepthAssumption == MaxDepth \in Nat
ASSUME MaxSharedDepthAssumption == MaxSharedDepth \in Nat

VARIABLES
  exclusive,         \* MutexState.exclusive
  shared,            \* MutexState.shared
  waiters,           \* MutexState.waiters
  exclusiveWaiting,  \* MutexState.exclusiveWaiting
  sharedWaiting,     \* MutexState.sharedWaiting
  side               \* the side a client holds

mutexVars == <<exclusive, shared, waiters, exclusiveWaiting, sharedWaiting, side>>

Modes == {"exclusive", "shared"}
Waiter == [mode : Modes, client : Clients]

Init ==
  /\ exclusive = FALSE
  /\ shared = 0
  /\ waiters = <<>>
  /\ exclusiveWaiting = 0
  /\ sharedWaiting = 0
  /\ side = [c \in Clients |-> "none"]

Queued(c) == \E i \in 1 .. Len(waiters) : waiters[i].client = c
Out(c) == side[c] = "none" /\ ~Queued(c)

AdmitsBeside(mode) == ~exclusive

\* admits().
Admits(mode) == ~exclusive /\ (mode = "shared" \/ shared = 0)

\* take().
Take(mode) ==
  IF mode = "exclusive" THEN exclusive' = TRUE /\ UNCHANGED shared
                        ELSE shared' = shared + 1 /\ UNCHANGED exclusive

HasDepth(mode) ==
  IF mode = "exclusive" THEN exclusiveWaiting < MaxDepth ELSE sharedWaiting < MaxSharedDepth

EntersJumping(c, mode) ==
  /\ Out(c)
  /\ HasDepth(mode)
  /\ Admits(mode)
  /\ Take(mode)
  /\ side' = [side EXCEPT ![c] = mode]
  /\ UNCHANGED <<waiters, exclusiveWaiting, sharedWaiting>>

\* acquire(): the gate is free for the mode and nobody is queued.  The depth
\* check comes first; at the cap the call is rejected and nothing changes.
Enters(c, mode) ==
  /\ Out(c)
  /\ HasDepth(mode)
  /\ waiters = <<>>
  /\ Admits(mode)
  /\ Take(mode)
  /\ side' = [side EXCEPT ![c] = mode]
  /\ UNCHANGED <<waiters, exclusiveWaiting, sharedWaiting>>

\* acquire(): otherwise the call queues.
Queues(c, mode) ==
  /\ Out(c)
  /\ HasDepth(mode)
  /\ ~(waiters = <<>> /\ Admits(mode))
  /\ waiters' = Append(waiters, [mode |-> mode, client |-> c])
  /\ exclusiveWaiting' = exclusiveWaiting + (IF mode = "exclusive" THEN 1 ELSE 0)
  /\ sharedWaiting' = sharedWaiting + (IF mode = "shared" THEN 1 ELSE 0)
  /\ UNCHANGED <<exclusive, shared, side>>

GrantedOne(readers) == IF waiters = <<>> THEN 0 ELSE 1

\* How many waiters release() lets in when `readers` shared holders remain:
\* the exclusive head if there are none, or every shared waiter up to the
\* next exclusive one.
Granted(readers) ==
  CHOOSE k \in 0 .. Len(waiters) :
    IF waiters # <<>> /\ waiters[1].mode = "exclusive"
      THEN k = IF readers = 0 THEN 1 ELSE 0
      ELSE /\ \A i \in 1 .. k : waiters[i].mode = "shared"
           /\ k < Len(waiters) => waiters[k + 1].mode = "exclusive"

\* release(): the holder leaves and the queue head is let in.
Releases(c) ==
  /\ side[c] # "none"
  /\ LET readers == IF side[c] = "shared" THEN shared - 1 ELSE shared
         k == Granted(readers)
         let == {waiters[i].client : i \in 1 .. k}
         alone == k > 0 /\ waiters[1].mode = "exclusive"
     IN  /\ exclusive' = alone
         /\ shared' = IF alone THEN readers ELSE readers + k
         /\ waiters' = SubSeq(waiters, k + 1, Len(waiters))
         /\ exclusiveWaiting' = IF alone THEN exclusiveWaiting - 1 ELSE exclusiveWaiting
         /\ sharedWaiting' = IF alone THEN sharedWaiting ELSE sharedWaiting - k
         /\ side' = [d \in Clients |->
                       IF d \in let THEN (IF alone THEN "exclusive" ELSE "shared")
                       ELSE IF d = c THEN "none" ELSE side[d]]

Next == \E c \in Clients :
  \/ \E mode \in Modes : Enters(c, mode) \/ Queues(c, mode)
  \/ Releases(c)

Spec == Init /\ [][Next]_mutexVars

\* Every function run under the gate settles.
Fairness == \A c \in Clients : WF_mutexVars(Releases(c))

FairSpec == Spec /\ Fairness
-----------------------------------------------------------------------------
(* Properties.                                                             *)

Waiting(mode) == {i \in 1 .. Len(waiters) : waiters[i].mode = mode}
Holding(mode) == {c \in Clients : side[c] = mode}

\* Every variable has its type.
TypeOK ==
  /\ exclusive \in BOOLEAN
  /\ shared \in Nat
  /\ waiters \in Seq(Waiter)
  /\ exclusiveWaiting \in 0 .. MaxDepth
  /\ sharedWaiting \in 0 .. MaxSharedDepth
  /\ side \in [Clients -> {"none", "shared", "exclusive"}]

\* The gate's own bookkeeping agrees with who is inside and who waits: a
\* drifting counter would wedge the gate or let two writers in.
CountersAgree ==
  /\ exclusive <=> Holding("exclusive") # {}
  /\ shared = Cardinality(Holding("shared"))
  /\ exclusiveWaiting = Cardinality(Waiting("exclusive"))
  /\ sharedWaiting = Cardinality(Waiting("shared"))

\* No wake-up is lost: whenever someone waits, the head of the queue is kept
\* out by a client that is inside and will release.
HeadIsBlocked == waiters # <<>> => ~Admits(waiters[1].mode)

\* A client waits once, and never while it is inside.
WaitsOutside ==
  /\ \A i, j \in 1 .. Len(waiters) : waiters[i].client = waiters[j].client => i = j
  /\ \A i \in 1 .. Len(waiters) : side[waiters[i].client] = "none"

\* What acquire() and release() rely on at every call: types, counters that
\* agree with who is inside and who waits, a head of the queue that is kept out
\* by somebody who will release, nobody queued twice or while inside.
MutexInv == TypeOK /\ CountersAgree /\ HeadIsBlocked /\ WaitsOutside

\* Arrival order: a client that gets in had nobody of an earlier arrival left
\* behind it in the queue.
NoOvertaking ==
  [][\A c \in Clients : side[c] = "none" /\ side'[c] # "none" =>
       \A i \in 1 .. Len(waiters') : \E j \in 1 .. Len(waiters) :
         /\ waiters[j] = waiters'[i]
         /\ \A k \in 1 .. Len(waiters) : waiters[k].client = c => k < j
         /\ Queued(c)]_mutexVars

\* The gate implements DatabaseGate.
Gate == INSTANCE DatabaseGate WITH held <- side
ImplementsGate == Gate!GateSpec

\* Nobody waits forever, writer or reader.
EveryWaiterEnters == \A c \in Clients : Queued(c) ~> side[c] # "none"
=============================================================================
