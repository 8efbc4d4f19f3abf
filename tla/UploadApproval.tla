--------------------------- MODULE UploadApproval ---------------------------
(***************************************************************************)
(* Operator approval of uploads: `nookctl notes approve-upload`             *)
(* (runApproveUpload in src/operator/notes-cli.ts) asks the daemon for a     *)
(* preview of what blocks, shows it, has the operator type the highest       *)
(* sequence, and sends that sequence back                                    *)
(* (src/service/operator-upload-approval-runtime.ts).  Preview and approval  *)
(* are two requests: anything the daemon does may come between them, a       *)
(* restart included.                                                        *)
(***************************************************************************)
EXTENDS SyncCoordinator

VARIABLES
  dialog,   \* "none", or "shown": the CLI waits for the operator to type
  shown,    \* the blocking markers that the displayed preview counted
  bound,    \* the displayed highestSequence
  life,     \* the life of the daemon that answered the preview
  reply,    \* the daemon's answer, right after a request of the dialogue
  faulted   \* the storage failed under that request

dialogVars == <<dialog, shown, bound, life>>
replyVars == <<reply, faulted>>
approvalVars == <<coordinatorVars, dialogVars, replyVars>>

Replies == {"none", "nothing", "approved", "invalid_input", "sync_failed", "unavailable"}

ApprovalInit ==
  /\ CoordinatorInit
  /\ dialog = "none" /\ shown = {} /\ bound = 0 /\ life = 0
  /\ reply = "none" /\ faulted = FALSE

NoReply == reply' = "none" /\ faulted' = FALSE

DialogEnds == dialog' = "none" /\ shown' = {} /\ bound' = 0 /\ life' = 0

\* blockingSummary() is displayed; with nothing blocking the command is over.
Preview ==
  /\ dialog = "none"
  /\ up
  /\ LET summary == BlockingSummary(pending) IN
       IF summary.total = 0
         THEN UNCHANGED dialogVars /\ reply' = "nothing"
         ELSE /\ dialog' = "shown"
              /\ shown' = Blocking(pending)
              /\ bound' = summary.highestSequence
              /\ life' = crashes
              /\ reply' = "none"
  /\ faulted' = FALSE
  /\ UNCHANGED coordinatorVars

\* The operator types something else, or leaves.
Abandons ==
  /\ dialog = "shown"
  /\ DialogEnds
  /\ NoReply
  /\ UNCHANGED coordinatorVars

\* The typed sequence reaches the daemon and the approval is saved.
ApprovalSaved ==
  /\ dialog = "shown"
  /\ ApprovePending(bound)
  /\ DialogEnds
  /\ reply' = "approved" /\ faulted' = FALSE
  /\ UNCHANGED <<intents, up, drainVars, crashes>>

\* The bound is above every sequence of the queue.
ApprovalOutOfBound ==
  /\ dialog = "shown"
  /\ up
  /\ bound > Highest(pending)
  /\ DialogEnds
  /\ reply' = "invalid_input" /\ faulted' = FALSE
  /\ UNCHANGED coordinatorVars

\* The save fails: the storage does, early or late, or the store refuses the
\* queue.
ApprovalUnsaved ==
  /\ dialog = "shown"
  /\ up
  /\ bound <= Highest(pending)
  /\ Approvable(pending, bound) # {}
  /\ DialogEnds
  /\ SaveFails(Approved(pending, bound))
  /\ reply' = "sync_failed"
  /\ faulted' \in IF Storable(Approved(pending, bound)) THEN {TRUE} ELSE BOOLEAN
  /\ UNCHANGED <<intents, up, drainVars, crashes>>

\* The daemon is not there to answer.
ApprovalUnanswered ==
  /\ dialog = "shown"
  /\ ~up
  /\ DialogEnds
  /\ reply' = "unavailable" /\ faulted' = FALSE
  /\ UNCHANGED coordinatorVars

\* Everything the coordinator does, except approving on its own.
CoordinatorWorks ==
  /\ \/ CallerCommits \/ CallerIntends \/ CallerIntendsCreate
     \/ CallerResolves \/ CallerReleases \/ CallerForgets
     \/ RecordingFails \/ ResolvingFails \/ ReleasingFails
     \/ CallerRequestsSync
     \/ ExecutorGate \/ UploadAnswers \/ Timers \/ HoldElapses
     \/ Crash \/ Restart
  /\ NoReply
  /\ UNCHANGED dialogVars

OperatorStep ==
  \/ Preview \/ Abandons
  \/ ApprovalSaved \/ ApprovalOutOfBound \/ ApprovalUnsaved \/ ApprovalUnanswered

ApprovalNext == OperatorStep \/ CoordinatorWorks

ApprovalSpec == ApprovalInit /\ [][ApprovalNext]_approvalVars
-----------------------------------------------------------------------------
(* Properties.                                                             *)

\* Every variable has its type.
ApprovalTypeOK ==
  /\ CoordinatorTypeOK
  /\ dialog \in {"none", "shown"}
  /\ shown \subseteq Marker
  /\ bound \in Nat
  /\ life \in 0 .. CrashBound
  /\ reply \in Replies
  /\ faulted \in BOOLEAN

\* An approval covers only what the operator was shown: every marker that
\* becomes approved, in memory or in the row that a restart loads, was counted
\* by the preview on the operator's screen, as long as the daemon that answered
\* the preview is the one that approves.  (After a restart the sequence may
\* name another write: see README.)
ApprovesOnlyWhatWasShown ==
  [][\A m \in pending, queue \in Taken \cup Written :
       ~m.approved /\ [m EXCEPT !.approved = TRUE] \in queue
         => m \in shown \/ crashes # life]_approvalVars

\* A marker is approved by an approval and by nothing else: not by what
\* replaces it, not by a restart.  The running daemon takes it for approved
\* only after it answered so; an approval answered sync_failed may be in the
\* row, when the save failed late, and then holds after a restart.
Anew(queue) == \E m \in queue : m.approved /\ m \notin pending \cup stored
OnlyApprovalApproves ==
  [][/\ Anew(stored') => dialog = "shown" /\ reply' \in {"approved", "sync_failed"}
     /\ Anew(pending') => reply' = "approved"]_approvalVars

\* An approval of what the queue holds is saved on its markers: it is
\* answered sync_failed only when the storage itself failed.
ApprovalPersists == reply = "sync_failed" => faulted
=============================================================================
