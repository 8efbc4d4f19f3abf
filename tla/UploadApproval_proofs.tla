------------------------ MODULE UploadApproval_proofs ------------------------
(***************************************************************************)
(* What an operator's approval covers, for any notes, any queue, any number *)
(* of restarts, and whatever the daemon does between the preview and the    *)
(* approval.                                                               *)
(***************************************************************************)
EXTENDS UploadApproval, SyncCoordinator_proofs

\* The dialogue's variables.
DialogTypeOK ==
  /\ dialog \in {"none", "shown"}
  /\ shown \subseteq Marker
  /\ bound \in Nat
  /\ life \in 0 .. CrashBound /\ life <= crashes
  /\ reply \in Replies
  /\ faulted \in BOOLEAN

\* No marker is queued both approved and not, in the memory or in the row.
Once(queue) == \A m, k \in queue : m.sequence = k.sequence => m = k
QueuedOnce == Once(pending) /\ Once(stored)

\* While the daemon lives that answered the preview, what it would approve
\* under the displayed number is what it showed.
ScreenCovers ==
  dialog = "shown" /\ life = crashes =>
    /\ up
    /\ bound < nextSequence
    /\ \A m \in Blocking(pending) : m.sequence <= bound => m \in shown

ApprovalInv == CoordinatorInv /\ DialogTypeOK /\ QueuedOnce /\ ScreenCovers

\* What a step of a running daemon makes of its queue, but for approvals.
Grows(queue) ==
  \/ queue \subseteq pending
  \/ up /\ \E new : Adds(queue, new)

Callers ==
  \/ CallerCommits \/ CallerIntends \/ CallerIntendsCreate
  \/ CallerResolves \/ CallerReleases \/ CallerForgets
  \/ RecordingFails \/ ResolvingFails \/ ReleasingFails

DaemonWorks ==
  \/ Callers
  \/ CallerRequestsSync
  \/ ExecutorGate \/ UploadAnswers \/ Timers \/ HoldElapses
  \/ Crash \/ Restart
-----------------------------------------------------------------------------
(* Steps of the daemon.                                                    *)

\* A step that saves a queue, or fails to, leaves it or what there was.
LEMMA SavingGrows ==
  ASSUME NEW next, Grows(next), Save(next) \/ SaveFails(next) \/ UNCHANGED <<pending, stored>>
  PROVE  Grows(pending') /\ (stored' = stored \/ Grows(stored'))
BY DEF Save, SaveFails, SaveThrowsLate, Grows

\* The callers' steps run in a daemon that goes on running, under a sequence
\* that never goes back, and add one unapproved marker at most.
LEMMA CallersAdd ==
  ASSUME CoordinatorInv, Callers
  PROVE  /\ Grows(pending') /\ (stored' = stored \/ Grows(stored'))
         /\ up /\ up' = up /\ crashes' = crashes /\ nextSequence' >= nextSequence
<1>1. /\ Kinds \cup {"create"} \subseteq Operations /\ Kinds \subseteq Operations
      /\ Claims \subseteq Origins /\ intents \subseteq Marker /\ nextSequence \in Nat
  BY KindsAssumption, ClaimsAssumption DEF Operations, CoordinatorInv, CoordinatorTypeOK
<1>2. CASE CallerCommits
  <2>1. PICK op \in Operations, id \in Notes, org \in Origins :
          RecordLocalCommit(op, id, org) /\ Untouched
    BY <1>1, <1>2 DEF CallerCommits
  <2> DEFINE next == Committed(pending, nextSequence, op, id, org)
  <2>2. /\ up /\ Save(next) /\ Cardinality(next) <= MaxPending
        /\ up' = up /\ crashes' = crashes /\ nextSequence' = nextSequence + 1
    BY <2>1 DEF RecordLocalCommit, Untouched
  <2>3. Grows(next)
    BY <2>2, CommitNext DEF Grows
  <2> HIDE DEF next
  <2> QED BY <1>1, <2>2, <2>3, SavingGrows
<1>3. CASE CallerIntends
  <2>1. PICK op \in Operations, id \in Notes, org \in Origins : RecordIntent(op, id, org) /\ Untouched
    BY <1>1, <1>3 DEF CallerIntends
  <2> DEFINE next == Intended(pending, nextSequence, op, id, org)
  <2>2. /\ up /\ Save(next) /\ HasRoom(pending)
        /\ up' = up /\ crashes' = crashes /\ nextSequence' = nextSequence + 1
    BY <2>1 DEF RecordIntent, Untouched
  <2>3. Grows(next)
    BY <2>2, IntendNext DEF Grows
  <2> HIDE DEF next
  <2> QED BY <1>1, <2>2, <2>3, SavingGrows
<1>4. CASE CallerIntendsCreate
  <2>1. PICK org \in Origins : RecordCreateIntent(org) /\ Untouched
    BY <1>1, <1>4 DEF CallerIntendsCreate
  <2> DEFINE next == CreateIntended(pending, nextSequence, org)
  <2>2. /\ up /\ Save(next) /\ HasRoom(pending)
        /\ up' = up /\ crashes' = crashes /\ nextSequence' = nextSequence + 1
    BY <2>1 DEF RecordCreateIntent, Untouched
  <2>3. Grows(next)
    BY <2>2, CreateIntendNext DEF Grows
  <2> HIDE DEF next
  <2> QED BY <1>1, <2>2, <2>3, SavingGrows
<1>5. CASE CallerResolves
  <2>1. PICK token \in intents, id \in Notes : ResolveCreateIntent(token, id) /\ Untouched
    BY <1>5 DEF CallerResolves
  <2>2. up /\ up' = up /\ crashes' = crashes
    BY <2>1 DEF ResolveCreateIntent, Untouched
  <2>3. CASE Placeholder(pending, token) = {}
    BY <1>1, <2>1, <2>2, <2>3 DEF ResolveCreateIntent, Grows
  <2>4. CASE Placeholder(pending, token) # {}
    <3> DEFINE next == Resolved(pending, nextSequence, token, id)
    <3>1. Save(next) /\ nextSequence' = nextSequence + 1
      BY <2>1, <2>4 DEF ResolveCreateIntent
    <3>2. token \in Marker
      BY <1>1
    <3>3. Grows(next)
      BY <2>2, <2>4, <3>2, ResolveNext DEF Grows
    <3> HIDE DEF next
    <3> QED BY <1>1, <2>2, <3>1, <3>3, SavingGrows
  <2> QED BY <2>3, <2>4
<1>6. CASE CallerReleases \/ ReleasingFails
  <2>1. PICK token \in intents : /\ \/ Save(Released(pending, token))
                                    \/ SaveFails(Released(pending, token))
                                    \/ UNCHANGED <<pending, stored>>
                                 /\ up /\ UNCHANGED nextSequence /\ Untouched
    BY <1>6 DEF CallerReleases, ReleaseIntent, ReleasingFails, SaveFails, SaveThrowsLate
  <2>2. Grows(Released(pending, token))
    BY RemovalsAreSubsets DEF Grows
  <2> QED BY <1>1, <2>1, <2>2, SavingGrows DEF Untouched
<1>7. CASE CallerForgets
  BY <1>1, <1>7 DEF CallerForgets, Untouched, Grows
<1>8. CASE RecordingFails \/ ResolvingFails
  <2>1. /\ up /\ up' = up /\ crashes' = crashes /\ nextSequence' = nextSequence
        /\ pending' = pending
    BY <1>8 DEF RecordingFails, ResolvingFails, SaveThrowsLate, Untouched
  <2>2. Grows(stored')
    BY <1>8, <2>1, FailingNext DEF Grows
  <2> QED BY <1>1, <2>1, <2>2 DEF Grows
<1> QED BY <1>2, <1>3, <1>4, <1>5, <1>6, <1>7, <1>8 DEF Callers

\* The drain only takes away; a stop is seen in the number of crashes, and
\* only a restart brings back the row.
LEMMA DaemonAdds ==
  ASSUME CoordinatorInv, DaemonWorks
  PROVE  /\ Grows(pending') \/ (~up /\ pending' = stored)
         /\ stored' = stored \/ Grows(stored')
         /\ crashes' \in {crashes, crashes + 1}
         /\ up /\ crashes' = crashes => up' /\ nextSequence' >= nextSequence
<1>1. nextSequence \in Nat /\ crashes \in Nat /\ (flight.phase # "idle" => up)
  BY FlightFacts DEF CoordinatorInv, CoordinatorTypeOK
<1>2. CASE Callers
  BY <1>1, <1>2, CallersAdd
<1>3. CASE UploadConfirmed \/ UploadConfirmedUnsaved
  <2>1. /\ \/ Save(WithoutBatch(pending, flight.batch))
           \/ SaveFails(WithoutBatch(pending, flight.batch))
        /\ UNCHANGED <<up, nextSequence, crashes>>
    BY <1>3 DEF UploadConfirmed, UploadConfirmedUnsaved, SaveFails, SaveThrowsLate
  <2>2. Grows(WithoutBatch(pending, flight.batch))
    BY RemovalsAreSubsets DEF Grows
  <2> QED BY <1>1, <2>1, <2>2, SavingGrows
<1>4. CASE UploadFails \/ UploadRetries
  BY <1>1, <1>4 DEF UploadFails, UploadRetries, queueVars, Grows
<1>5. CASE CallerRequestsSync \/ ExecutorGate
  BY <1>1, <1>5 DEF CallerRequestsSync, RequestSync, ExecutorGate, GatePasses, GateRefuses,
                    queueVars, Grows
<1>6. CASE Timers \/ HoldElapses
  BY <1>1, <1>6 DEF Timers, HoldElapses, GapElapses, BackoffElapses, SleepFails, queueVars, Grows
<1>7. CASE Crash
  BY <1>1, <1>7 DEF Crash, Grows
<1>8. CASE Restart
  BY <1>1, <1>8 DEF Restart
<1> QED BY <1>2, <1>3, <1>4, <1>5, <1>6, <1>7, <1>8 DEF DaemonWorks, UploadAnswers
-----------------------------------------------------------------------------
(* The invariant of the dialogue.                                          *)

LEMMA InitApproval == ApprovalInit => ApprovalInv
<1> SUFFICES ASSUME ApprovalInit PROVE ApprovalInv
  OBVIOUS
<1>1. CoordinatorInv
  BY InitInv DEF ApprovalInit
<1>2. stored = {} /\ pending = {} /\ crashes = 0
  BY DEF ApprovalInit, CoordinatorInit
<1>3. DialogTypeOK
  <2>1. life \in 0 .. CrashBound /\ life <= crashes /\ bound \in Nat
    BY <1>2, CrashBoundAssumption DEF ApprovalInit
  <2> QED BY <2>1 DEF ApprovalInit, DialogTypeOK, Replies
<1> QED BY <1>1, <1>2, <1>3 DEF ApprovalInit, ApprovalInv, QueuedOnce, Once, ScreenCovers

\* A step that leaves the coordinator alone keeps its invariant.
LEMMA StutterInv ==
  ASSUME ApprovalInv, UNCHANGED coordinatorVars
  PROVE  CoordinatorInv' /\ QueuedOnce' /\ crashes' = crashes /\ crashes \in Nat
<1>1. CoordinatorInv'
  BY StepInv DEF ApprovalInv
<1>2. crashes' = crashes /\ stored' = stored /\ pending' = pending /\ crashes \in Nat
  BY DEF coordinatorVars, queueVars, ApprovalInv, CoordinatorInv, CoordinatorTypeOK
<1> QED BY <1>1, <1>2 DEF ApprovalInv, QueuedOnce, Once

\* A dialogue that is over promises nothing.
LEMMA DialogEndsInv ==
  ASSUME CoordinatorInv', DialogEnds, reply' \in Replies, faulted' \in BOOLEAN
  PROVE  DialogTypeOK' /\ ScreenCovers'
<1>1. crashes' \in Nat /\ CrashBound \in Nat
  BY CrashBoundAssumption DEF CoordinatorInv, CoordinatorTypeOK
<1> QED BY <1>1 DEF DialogEnds, DialogTypeOK, ScreenCovers

\* The preview shows every blocking marker, and its number is the highest of
\* theirs.
LEMMA PreviewInv == ApprovalInv /\ Preview => ApprovalInv'
<1> SUFFICES ASSUME ApprovalInv, Preview PROVE ApprovalInv'
  OBVIOUS
<1> DEFINE blocking == Blocking(pending)
<1>1. /\ CoordinatorInv' /\ QueuedOnce' /\ crashes' = crashes /\ crashes \in Nat
      /\ up /\ UNCHANGED <<up, pending, nextSequence>> /\ faulted' = FALSE
  BY StutterInv DEF Preview, coordinatorVars, queueVars
<1>2. /\ blocking \in SUBSET Marker /\ nextSequence \in Nat \ {0}
      /\ \A m \in blocking : m.sequence \in Nat /\ m.sequence < nextSequence
  BY <1>1, PendingFacts DEF ApprovalInv, Blocking
<1>3. CASE Cardinality(blocking) = 0
  <2>1. UNCHANGED <<dialog, shown, bound, life>> /\ reply' = "nothing"
    BY <1>3 DEF Preview, BlockingSummary, dialogVars
  <2>2. DialogTypeOK'
    BY <1>1, <2>1 DEF ApprovalInv, DialogTypeOK, Replies
  <2>3. ScreenCovers'
    BY <1>1, <2>1 DEF ApprovalInv, ScreenCovers
  <2> QED BY <1>1, <2>2, <2>3 DEF ApprovalInv
<1>4. CASE Cardinality(blocking) # 0
  <2>1. dialog' = "shown" /\ shown' = blocking /\ bound' = Highest(blocking) /\ life' = crashes
          /\ reply' = "none"
    BY <1>4 DEF Preview, BlockingSummary
  <2>2. blocking # {}
    BY <1>4, FS_EmptySet
  <2>3. Highest(blocking) \in Nat /\ Highest(blocking) < nextSequence
    <3> DEFINE S == {m.sequence : m \in blocking}
    <3>1. S \in SUBSET Nat /\ S # {} /\ \A s \in S : s <= nextSequence /\ s < nextSequence
      BY <1>2, <2>2
    <3>2. Highest(blocking) = Max(S)
      BY <2>2 DEF Highest
    <3> HIDE DEF S, blocking
    <3>3. Max(S) \in S
      BY <1>2, <3>1, BoundedMax
    <3> QED BY <3>1, <3>2, <3>3
  <2> HIDE DEF blocking
  <2>4. DialogTypeOK'
    <3>1. life' \in 0 .. CrashBound /\ life' <= crashes'
      BY <1>1, <2>1 DEF ApprovalInv, CoordinatorInv, CoordinatorTypeOK
    <3>2. bound' \in Nat /\ shown' \subseteq Marker
      BY <1>2, <2>1, <2>3
    <3> QED BY <1>1, <2>1, <3>1, <3>2 DEF DialogTypeOK, Replies
  <2>5. ScreenCovers'
    BY <1>1, <2>1, <2>3 DEF ScreenCovers, blocking
  <2> QED BY <1>1, <2>4, <2>5 DEF ApprovalInv
<1> HIDE DEF blocking
<1> QED BY <1>3, <1>4

\* The operator leaves, or the daemon has nothing to approve.
LEMMA UnapprovedInv ==
  ApprovalInv /\ (Abandons \/ ApprovalOutOfBound \/ ApprovalUnanswered) => ApprovalInv'
<1> SUFFICES ASSUME ApprovalInv, Abandons \/ ApprovalOutOfBound \/ ApprovalUnanswered
             PROVE  ApprovalInv'
  OBVIOUS
<1>1. UNCHANGED coordinatorVars /\ DialogEnds
  BY DEF Abandons, ApprovalOutOfBound, ApprovalUnanswered
<1>2. reply' \in Replies /\ faulted' \in BOOLEAN
  BY DEF Abandons, ApprovalOutOfBound, ApprovalUnanswered, NoReply, Replies
<1> QED BY <1>1, <1>2, StutterInv, DialogEndsInv DEF ApprovalInv

\* What an approval makes of the queue: each marker once, the ones at or below
\* the displayed number approved.
LEMMA ApprovedQueue ==
  ASSUME ApprovalInv, NEW m \in Approved(pending, bound)
  PROVE  \E k \in pending :
           /\ m.sequence = k.sequence
           /\ m = IF k \in Approvable(pending, bound) THEN [k EXCEPT !.approved = TRUE] ELSE k
<1>1. pending \subseteq Marker
  BY PendingFacts DEF ApprovalInv
<1>2. PICK k \in pending :
        m = IF k \in Approvable(pending, bound) THEN [k EXCEPT !.approved = TRUE] ELSE k
  BY DEF Approved
<1>3. [k EXCEPT !.approved = TRUE].sequence = k.sequence
  BY <1>1 DEF Marker
<1> QED BY <1>2, <1>3

LEMMA ApprovedOnce == ApprovalInv => Once(Approved(pending, bound))
<1> SUFFICES ASSUME ApprovalInv, NEW m \in Approved(pending, bound),
                    NEW k \in Approved(pending, bound), m.sequence = k.sequence
             PROVE  m = k
  BY DEF Once
<1>1. PICK a \in pending : /\ m.sequence = a.sequence
                           /\ m = IF a \in Approvable(pending, bound)
                                    THEN [a EXCEPT !.approved = TRUE] ELSE a
  BY ApprovedQueue
<1>2. PICK b \in pending : /\ k.sequence = b.sequence
                           /\ k = IF b \in Approvable(pending, bound)
                                    THEN [b EXCEPT !.approved = TRUE] ELSE b
  BY ApprovedQueue
<1>3. a = b
  BY <1>1, <1>2 DEF ApprovalInv, QueuedOnce, Once
<1> QED BY <1>1, <1>2, <1>3

\* The daemon saves the approval, or tries to.
Approving == ApprovalSaved \/ ApprovalUnsaved

LEMMA ApprovingSaves ==
  ASSUME Approving
  PROVE  /\ \/ Save(Approved(pending, bound))
            \/ SaveFails(Approved(pending, bound))
            \/ UNCHANGED <<pending, stored>>
         /\ up /\ UNCHANGED <<up, crashes, nextSequence, intents, flight, hold>>
         /\ DialogEnds /\ reply' \in {"approved", "sync_failed"} /\ faulted' \in BOOLEAN
BY DEF Approving, ApprovalSaved, ApprovalUnsaved, ApprovePending, SaveFails, SaveThrowsLate,
       drainVars

LEMMA ApprovingInv == ApprovalInv /\ Approving => ApprovalInv'
<1> SUFFICES ASSUME ApprovalInv, Approving PROVE ApprovalInv'
  OBVIOUS
<1>1. CoordinatorInv'
  BY ApprovingSaves, ApproveNext, FlightFacts, DerivedInv DEF ApprovalInv
<1>2. /\ pending' = pending \/ pending' = Approved(pending, bound)
      /\ stored' = stored \/ stored' = Approved(pending, bound)
  BY ApprovingSaves DEF Save, SaveFails, SaveThrowsLate
<1>3. QueuedOnce'
  BY <1>2, ApprovedOnce DEF ApprovalInv, QueuedOnce, Once
<1>4. reply' \in Replies
  BY ApprovingSaves DEF Replies
<1> QED BY <1>1, <1>3, <1>4, ApprovingSaves, DialogEndsInv DEF ApprovalInv

\* Whatever the daemon does meanwhile, what comes to block does so under a
\* number above the displayed one.
LEMMA WorksInv == ApprovalInv /\ CoordinatorWorks => ApprovalInv'
<1> SUFFICES ASSUME ApprovalInv, CoordinatorWorks PROVE ApprovalInv'
  OBVIOUS
<1>1. DaemonWorks /\ CoordinatorInv /\ UNCHANGED <<dialog, shown, bound, life>>
  BY DEF CoordinatorWorks, DaemonWorks, Callers, dialogVars, ApprovalInv
<1>2. CoordinatorInv'
  BY <1>1, StepInv DEF DaemonWorks, Callers, CoordinatorNext
<1>3. /\ Grows(pending') \/ (~up /\ pending' = stored)
      /\ stored' = stored \/ Grows(stored')
      /\ crashes' \in {crashes, crashes + 1} /\ crashes \in Nat
      /\ up /\ crashes' = crashes => up' /\ nextSequence' >= nextSequence
  BY <1>1, DaemonAdds DEF CoordinatorInv, CoordinatorTypeOK
<1>4. /\ nextSequence \in Nat /\ nextSequence' \in Nat
      /\ up => \A m \in pending : m.sequence \in Nat /\ m.sequence < nextSequence
  BY <1>1, <1>2, PendingFacts DEF CoordinatorInv, CoordinatorTypeOK
<1>5. QueuedOnce'
  <2>1. ASSUME NEW queue, Grows(queue) PROVE Once(queue)
    <3>1. CASE queue \subseteq pending
      BY <3>1 DEF ApprovalInv, QueuedOnce, Once
    <3>2. CASE ~(queue \subseteq pending)
      <4>1. PICK new : new.sequence = nextSequence /\ queue \subseteq pending \cup {new} /\ up
        BY <2>1, <3>2 DEF Grows, Adds
      <4>2. \A m \in pending : m.sequence # nextSequence
        BY <1>4, <4>1
      <4> QED BY <4>1, <4>2 DEF ApprovalInv, QueuedOnce, Once
    <3> QED BY <3>1, <3>2
  <2> QED BY <1>3, <2>1 DEF ApprovalInv, QueuedOnce, Once
<1>6. DialogTypeOK'
  <2>1. life \in 0 .. CrashBound /\ life <= crashes /\ life <= crashes'
    BY <1>3 DEF ApprovalInv, DialogTypeOK
  <2>2. reply' \in Replies /\ faulted' \in BOOLEAN
    BY DEF CoordinatorWorks, NoReply, Replies
  <2> QED BY <1>1, <2>1, <2>2 DEF ApprovalInv, DialogTypeOK
<1>7. ScreenCovers'
  <2> SUFFICES ASSUME dialog = "shown", life = crashes'
               PROVE  /\ up' /\ bound < nextSequence'
                      /\ \A m \in Blocking(pending') : m.sequence <= bound => m \in shown
    BY <1>1 DEF ScreenCovers
  <2>1. crashes' = crashes /\ life = crashes /\ bound \in Nat
    BY <1>3 DEF ApprovalInv, DialogTypeOK
  <2>2. /\ up /\ bound < nextSequence
        /\ \A m \in Blocking(pending) : m.sequence <= bound => m \in shown
    BY <2>1 DEF ApprovalInv, ScreenCovers
  <2>3. up' /\ bound < nextSequence' /\ Grows(pending')
    BY <1>3, <1>4, <2>1, <2>2
  <2>4. ASSUME NEW m \in Blocking(pending'), m.sequence <= bound PROVE m \in shown
    <3>1. m \in pending' /\ ~Settled(m)
      BY DEF Blocking
    <3>2. CASE m \in pending
      BY <2>2, <2>4, <3>1, <3>2 DEF Blocking
    <3>3. CASE m \notin pending
      <4>1. m.sequence = nextSequence
        BY <2>3, <3>1, <3>3 DEF Grows, Adds
      <4> QED BY <1>4, <2>1, <2>2, <2>4, <4>1
    <3> QED BY <3>2, <3>3
  <2> QED BY <2>3, <2>4
<1> QED BY <1>2, <1>5, <1>6, <1>7 DEF ApprovalInv

LEMMA StepApproval == ApprovalInv /\ [ApprovalNext]_approvalVars => ApprovalInv'
<1> SUFFICES ASSUME ApprovalInv, [ApprovalNext]_approvalVars PROVE ApprovalInv'
  OBVIOUS
<1>1. CASE UNCHANGED approvalVars
  <2>1. UNCHANGED coordinatorVars /\ UNCHANGED <<dialog, shown, bound, life, reply, faulted>>
    BY <1>1 DEF approvalVars, dialogVars, replyVars
  <2>2. UNCHANGED <<up, pending, nextSequence, crashes>>
    BY <2>1 DEF coordinatorVars, queueVars
  <2> QED BY <2>1, <2>2, StutterInv DEF ApprovalInv, DialogTypeOK, ScreenCovers
<1> QED BY <1>1, PreviewInv, UnapprovedInv, ApprovingInv, WorksInv
        DEF ApprovalNext, OperatorStep, Approving

LEMMA AlwaysApproval == ApprovalSpec => []ApprovalInv
BY InitApproval, StepApproval, PTL DEF ApprovalSpec
-----------------------------------------------------------------------------
(* The theorems.                                                           *)

\* Nothing but an approval brings an approved marker into the memory of a
\* running daemon, or into the row.
LEMMA NothingElseApproves ==
  ASSUME ApprovalInv, [ApprovalNext]_approvalVars, ~Approving, NEW m, m.approved
  PROVE  /\ m \in pending' => m \in pending \/ (~up /\ m \in stored)
         /\ m \in stored' => m \in pending \/ m \in stored
         /\ m \in stored' /\ stored' # stored => m \in pending
<1>1. CASE CoordinatorWorks
  <2>1. /\ Grows(pending') \/ (~up /\ pending' = stored)
        /\ stored' = stored \/ Grows(stored')
    BY <1>1, DaemonAdds DEF CoordinatorWorks, DaemonWorks, Callers, ApprovalInv
  <2>2. ASSUME NEW queue, Grows(queue), m \in queue PROVE m \in pending
    BY <2>2 DEF Grows, Adds
  <2> QED BY <2>1, <2>2
<1>2. CASE ~CoordinatorWorks
  <2>1. UNCHANGED coordinatorVars
    BY <1>2 DEF ApprovalNext, OperatorStep, approvalVars, Preview, Abandons, ApprovalOutOfBound,
                ApprovalUnanswered, Approving
  <2> QED BY <2>1 DEF coordinatorVars, queueVars
<1> QED BY <1>1, <1>2

\* An approval covers only markers that the operator's preview counted,
\* whatever the daemon queued, drained or released between the preview and the
\* approval, as long as it was not restarted in between.
THEOREM ApprovalsWereShown == ApprovalSpec => ApprovesOnlyWhatWasShown
<1> DEFINE Shown == \A m \in pending, queue \in Taken \cup Written :
                      ~m.approved /\ [m EXCEPT !.approved = TRUE] \in queue
                        => m \in shown \/ crashes # life
<1>1. ApprovalInv /\ [ApprovalNext]_approvalVars => Shown
  <2> SUFFICES ASSUME ApprovalInv, [ApprovalNext]_approvalVars,
                      NEW m \in pending, NEW queue \in Taken \cup Written,
                      ~m.approved, [m EXCEPT !.approved = TRUE] \in queue, crashes = life
               PROVE  m \in shown
    OBVIOUS
  <2> DEFINE copy == [m EXCEPT !.approved = TRUE]
  <2>1. m \in Marker /\ up
    BY PendingFacts DEF ApprovalInv, CoordinatorInv, NothingSurvivesStop
  <2>2. copy.approved /\ copy.sequence = m.sequence /\ copy \in queue
    BY <2>1 DEF Marker
  <2> HIDE DEF copy
  <2>3. copy \notin pending
    BY <2>2 DEF ApprovalInv, QueuedOnce, Once
  <2>4. Approving
    BY <2>1, <2>2, <2>3, NothingElseApproves DEF Taken, Written
  <2>5. copy \in Approved(pending, bound)
    BY <2>2, <2>3, <2>4, ApprovingSaves, LeftBehind
  <2>6. PICK k \in pending : /\ copy.sequence = k.sequence
                             /\ copy = IF k \in Approvable(pending, bound)
                                         THEN [k EXCEPT !.approved = TRUE] ELSE k
    BY <2>5, ApprovedQueue
  <2>7. k = m
    BY <2>2, <2>6 DEF ApprovalInv, QueuedOnce, Once
  <2>8. m \in Approvable(pending, bound)
    BY <2>3, <2>6, <2>7
  <2>9. m \in Blocking(pending) /\ m.sequence <= bound
    BY <2>8 DEF Approvable, Blocking
  <2>10. dialog = "shown"
    BY <2>4 DEF Approving, ApprovalSaved, ApprovalUnsaved
  <2> QED BY <2>9, <2>10 DEF ApprovalInv, ScreenCovers
<1> QED BY <1>1, AlwaysApproval, PTL DEF ApprovalSpec, ApprovesOnlyWhatWasShown

\* Nothing but an approval approves a marker: the running daemon takes one for
\* approved only in the step that answers so, and the row holds one only from
\* such a step or from an approval whose save failed late.
THEOREM ApprovalIsAnswered == ApprovalSpec => OnlyApprovalApproves
<1> DEFINE Answered ==
      /\ Anew(stored') => dialog = "shown" /\ reply' \in {"approved", "sync_failed"}
      /\ Anew(pending') => reply' = "approved"
<1>1. ApprovalInv /\ [ApprovalNext]_approvalVars => Answered
  <2> SUFFICES ASSUME ApprovalInv, [ApprovalNext]_approvalVars PROVE Answered
    OBVIOUS
  <2>1. CASE Approving
    <3>1. dialog = "shown" /\ reply' \in {"approved", "sync_failed"}
      BY <2>1, ApprovingSaves DEF Approving, ApprovalSaved, ApprovalUnsaved
    <3>2. CASE ApprovalSaved
      BY <3>1, <3>2 DEF ApprovalSaved
    <3>3. CASE ApprovalUnsaved
      <4>1. pending' = pending
        BY <3>3 DEF ApprovalUnsaved, SaveFails, SaveThrowsLate
      <4> QED BY <3>1, <4>1 DEF Anew
    <3> QED BY <2>1, <3>2, <3>3 DEF Approving
  <2>2. CASE ~Approving
    BY <2>2, NothingElseApproves DEF Anew
  <2> QED BY <2>1, <2>2
<1> QED BY <1>1, AlwaysApproval, PTL DEF ApprovalSpec, OnlyApprovalApproves

\* The dialogue's variables and the coordinator's keep their types.
THEOREM ApprovalTypeCorrect == ApprovalSpec => []ApprovalTypeOK
<1>1. ApprovalInv => ApprovalTypeOK
  BY DEF ApprovalInv, CoordinatorInv, DialogTypeOK, ApprovalTypeOK
<1> QED BY <1>1, AlwaysApproval, PTL

\* A store that refuses approved markers never holds one, and the daemon over
\* it never takes one for approved: no approval takes effect, whatever the
\* operator was answered.
THEOREM RefusedApprovalsNeverStick ==
  ASSUME ~KeepsApproval
  PROVE  ApprovalSpec => [](\A m \in pending \cup stored : ~m.approved)
<1> DEFINE Unapproved == \A m \in pending \cup stored : ~m.approved
<1>1. ApprovalInit => Unapproved
  BY DEF ApprovalInit, CoordinatorInit
<1>2. ASSUME ApprovalInv, Unapproved, [ApprovalNext]_approvalVars PROVE Unapproved'
  <2>1. CASE Approving
    BY <1>2, <2>1, ApprovingSaves DEF Save, SaveFails, SaveThrowsLate, Storable
  <2>2. CASE ~Approving
    BY <1>2, <2>2, NothingElseApproves
  <2> QED BY <2>1, <2>2
<1> HIDE DEF Unapproved
<1>3. ApprovalSpec => []Unapproved
  BY <1>1, <1>2, AlwaysApproval, PTL DEF ApprovalSpec
<1> QED BY <1>3 DEF Unapproved
=============================================================================
