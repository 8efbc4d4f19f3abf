----------------------------- MODULE StateLock -----------------------------
(***************************************************************************)
(* The lock file of a state directory (src/config/lock.ts), shared by the   *)
(* daemon and the recovery commands.                                       *)
(*                                                                         *)
(* A lock file is known by the process that made it, which is what inode    *)
(* and holder record tell; `Stale` is any file whose maker is gone.  Files   *)
(* under a `.release-*` name are at nobody's path: those of live processes  *)
(* are `aside` while the release that renamed them is at work, and `residue` *)
(* once it gave up.                                                        *)
(***************************************************************************)
EXTENDS Naturals, FiniteSets

CONSTANTS
  Procs,          \* names for processes, one process at a time each
  None,           \* no file
  Stale,          \* a file whose maker is gone
  CarelessBound   \* bound: removals by hand of a lock that is held

ASSUME LockAssumption ==
  /\ None \notin Procs /\ Stale \notin Procs /\ None # Stale
  /\ CarelessBound \in Nat

VARIABLES
  lock,     \* the file at the lock's path
  hold,     \* what each process makes of the lock: none, held, releasing
  aside,    \* the file that its release has renamed
  residue,  \* makers of files left under a `.release-*` name
  removed   \* removals by hand of a lock that was held, and whose they were

lockVars == <<lock, hold, aside, residue, removed>>

LockInit ==
  /\ lock = None
  /\ hold = [p \in Procs |-> "none"]
  /\ aside = [p \in Procs |-> None]
  /\ residue = {}
  /\ removed = [count |-> 0, of |-> {}]

\* tryAcquireLock(): an exclusive create.
Acquires(p) ==
  /\ hold[p] = "none"
  /\ lock = None
  /\ lock' = p
  /\ hold' = [hold EXCEPT ![p] = "held"]
  /\ UNCHANGED <<aside, residue, removed>>

\* The file exists: refused, whoever made it.
AcquireRefused(p) == hold[p] = "none" /\ lock # None /\ UNCHANGED lockVars

\* The inode or the holder record cannot be had, or its file not be removed:
\* refused, and the new file stays for an operator.
AcquireLeavesFile(p) ==
  /\ hold[p] = "none"
  /\ lock = None
  /\ lock' = Stale
  /\ UNCHANGED <<hold, aside, residue, removed>>

\* The process has done with the lock or is gone, and leaves `path` at the
\* lock's path and `left` under a `.release-*` name: no file is its own now.
Ends(p, path, left) ==
  /\ hold' = [hold EXCEPT ![p] = "none"]
  /\ lock' = IF path = p THEN Stale ELSE path
  /\ aside' = [q \in Procs |-> IF q = p THEN None ELSE IF aside[q] = p THEN Stale ELSE aside[q]]
  /\ residue' = (residue \cup left) \ {p}
  /\ removed' = [removed EXCEPT !.of = @ \ {p}]

\* releaseOwnedLockFile(): whatever is at the path is renamed first.
SetsAside(p) ==
  /\ hold[p] = "held"
  /\ lock # None
  /\ aside' = [aside EXCEPT ![p] = lock]
  /\ lock' = None
  /\ hold' = [hold EXCEPT ![p] = "releasing"]
  /\ UNCHANGED <<residue, removed>>

\* Nothing is there, or it cannot be renamed.
LeavesLock(p) == hold[p] = "held" /\ Ends(p, lock, {})

DropsAnyLock(p) == hold[p] = "releasing" /\ Ends(p, lock, {})

\* Only then is it looked at: its own file is removed, any other is linked
\* back, if the path is still free and the link succeeds.
DropsOwnLock(p) ==
  /\ hold[p] = "releasing"
  /\ \/ aside[p] = p /\ Ends(p, lock, {})
     \/ aside[p] # p /\ lock = None /\ Ends(p, aside[p], {})
     \/ aside[p] # p /\ Ends(p, lock, {aside[p]} \cap Procs)

\* A process that dies leaves its file, and what its release had set aside.
Dies(p) == hold[p] # "none" /\ Ends(p, lock, {aside[p]} \cap Procs)

\* An operator, having made sure that nobody runs, removes the file by hand.
OperatorUnlocks ==
  /\ lock = Stale
  /\ lock' = None
  /\ UNCHANGED <<hold, aside, residue, removed>>

\* ... or not having made sure.
OperatorUnlocksHolder ==
  /\ lock \in Procs
  /\ removed.count < CarelessBound
  /\ removed' = [count |-> removed.count + 1, of |-> removed.of \cup {lock}]
  /\ lock' = None
  /\ UNCHANGED <<hold, aside, residue>>
-----------------------------------------------------------------------------
(* Properties.                                                             *)

Careful == removed.count = 0

\* Every variable has its type.
LockTypeOK ==
  /\ lock \in Procs \cup {None, Stale}
  /\ hold \in [Procs -> {"none", "held", "releasing"}]
  /\ aside \in [Procs -> Procs \cup {None, Stale}]
  /\ residue \subseteq Procs
  /\ removed \in [count : Nat, of : SUBSET Procs]

\* No release takes away the lock of another process: the file of whoever
\* holds the lock is at the path, set aside, or left for an operator to see,
\* unless an operator removed that very file.
LockFileIsKept ==
  \A p \in Procs : hold[p] = "held" =>
    \/ lock = p \/ p \in removed.of \/ p \in residue
    \/ \E q \in Procs : aside[q] = p
=============================================================================
