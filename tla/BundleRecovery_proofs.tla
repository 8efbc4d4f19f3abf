----------------------- MODULE BundleRecovery_proofs -----------------------
(***************************************************************************)
(* The lock and the recovery of a bundle, for any processes, any members    *)
(* and optional files, and any number of deaths and failures.              *)
(***************************************************************************)
EXTENDS BundleRecovery, TLAPS

\* What a release has set aside is known only while it is at work.
Tidy == \A p \in Procs : hold[p] # "releasing" => aside[p] = None

\* Nobody took a lock from its holder: who holds it has its file at the path,
\* who gives it back has set its own aside, and nobody else is at work.
Exclusive ==
  \A p \in Procs :
    /\ hold[p] = "held" => lock = p
    /\ hold[p] = "releasing" => aside[p] = p /\ run[p].at = "leaving"
    /\ hold[p] = "none" <=> run[p].at \in {"idle", "starting"}

Works(r) == r.at \notin {"idle", "starting", "leaving"}

\* Before the first move a run knows of none.
Fresh(r) ==
  r.at \in {"starting", "scanning", "entering", "planning"} => r.way = "in" /\ r.done = {}
-----------------------------------------------------------------------------
(* The disk, whoever is at work.                                           *)

NoFiles == manifest.status \in {"none", "bare"}
Under(f) == manifest.items[f]

\* An entry's files are listed, all required members are, and what is listed
\* is somewhere.
EntryKept ==
  IF NoFiles
    THEN \A f \in Files : entry[f] = 0
    ELSE \A f \in Files :
           /\ f \in Required => Under(f) # "unlisted"
           /\ Under(f) = "unlisted" => entry[f] = 0
           /\ Under(f) # "unlisted" => root[f] # 0 \/ entry[f] # 0

\* The original of a required member is in the state directory or the entry,
\* and only a member whose original is in the entry has a fresh one.
OriginalKept ==
  \A f \in Required :
    /\ entry[f] \in {0, 1} /\ root[f] \in {0, 1, 2}
    /\ root[f] = 1 \/ entry[f] = 1

\* Fresh members come after every listed file is in the entry alone.
AllMoved ==
  manifest.status = "initializing" =>
    \A f \in Files : Under(f) # "unlisted" =>
      Under(f) = "moved" /\ entry[f] # 0 /\ root[f] # entry[f]

\* What no daemon has meddled with.
Unmixed == \A f, g \in Required : ~(root[f] = 1 /\ root[g] > 1)
OnlyListed ==
  manifest.status \in {"incomplete", "initializing"} =>
    \A f \in Files : Under(f) = "unlisted" => root[f] = 0
OneInode ==
  manifest.status = "incomplete" =>
    \A f \in Files : root[f] = 0 \/ entry[f] = 0 \/ root[f] = entry[f]

Disk ==
  /\ EntryKept /\ OriginalKept /\ AllMoved
  /\ ~meddled => Unmixed /\ OnlyListed /\ OneInode

\* What was moved is in the entry, unless a rollback took it back.
Settled ==
  ~unfinished /\ manifest.status = "incomplete" =>
    \A f \in Files : Under(f) = "moved" => entry[f] # 0
-----------------------------------------------------------------------------
(* The disk, as whoever is at work knows it.                               *)

In(f) == root[f] = 0 /\ entry[f] # 0
Out(f) == root[f] # 0 /\ entry[f] = 0
Both(f) == root[f] # 0 /\ root[f] = entry[f]

\* The item in hand, if any.
InHand(r) == IF r.at \in {"linking", "unlinking", "noting"} THEN {r.item} ELSE {}

\* Before the first move the members are complete.
Begins(r) ==
  /\ r.task = "reinitialize"
  /\ manifest.status = IF r.at = "entering" THEN "none" ELSE "bare"
  /\ Required \subseteq Present(root)

\* Items that were visited are in the entry, and noted.
MovesIn(r) ==
  /\ r.task = "reinitialize" /\ r.way = "in" /\ r.manifest = manifest
  /\ manifest.status = "incomplete" \/ (manifest.status = "initializing" /\ r.at = "moving")
  /\ manifest.status = "incomplete" =>
       \A f \in Files : Under(f) # "unlisted" /\ f \notin r.todo \cup InHand(r) =>
         Under(f) = "moved" /\ In(f)
  /\ r.todo \subseteq Listed(manifest.items)
  /\ InHand(r) \subseteq Listed(manifest.items) /\ InHand(r) \cap r.todo = {}
  /\ r.at = "noting" => In(r.item)
  /\ r.at = "linking" => Under(r.item) = "pending" /\ Out(r.item)
  /\ r.at = "unlinking" => Under(r.item) = "pending" /\ Both(r.item)

Freshens(r) ==
  /\ r.task = "reinitialize" /\ r.manifest = manifest /\ manifest.status = "initializing"
  /\ r.at = "completing" => Required \subseteq Present(root)

\* A rollback began over an empty state directory.  What it has restored is
\* in the state directory alone; what it has not is in the entry, and so it
\* is again with what was restored once that was taken back.
MovesOut(r) ==
  /\ r.task = "rollback" /\ r.manifest = manifest
  /\ manifest.status \in {"incomplete", "complete"}
  /\ \A f \in Required : root[f] # 2
  /\ \A f \in Files : Under(f) = "unlisted" => root[f] = 0
  /\ \A f \in r.done : Under(f) # "unlisted" /\ Out(f)
  /\ r.done \cap InHand(r) = {} /\ InHand(r) \subseteq Listed(manifest.items)
  /\ r.at = "unlinking" => Both(r.item)
  /\ IF r.way = "out"
       THEN /\ r.at # "undoing"
            /\ r.at = "linking" => In(r.item)
            /\ r.todo \subseteq Listed(manifest.items)
            /\ r.todo \cap (r.done \cup InHand(r)) = {}
            /\ \A f \in r.todo : In(f)
            /\ Listed(manifest.items) \subseteq r.todo \cup r.done \cup InHand(r)
       ELSE /\ r.at # "restoring"
            /\ r.at = "linking" => Out(r.item)
            /\ unfinished \/ \A f \in Listed(manifest.items) \ (r.done \cup InHand(r)) : entry[f] # 0

Phase(r) ==
  /\ r.at \in {"entering", "planning"} => Begins(r)
  /\ r.at \in {"moving", "noting"} => MovesIn(r)
  /\ r.at \in {"linking", "unlinking"} => MovesIn(r) \/ MovesOut(r)
  /\ r.at \in {"creating", "completing"} => Freshens(r)
  /\ r.at \in {"restoring", "undoing"} => MovesOut(r)

Recovered ==
  /\ Disk
  /\ (\A p \in Procs : ~Restoring(run[p])) => Settled
  /\ \A p \in Procs : Works(run[p]) => Phase(run[p])

BundleInv ==
  /\ TypeOK /\ Tidy /\ LockFileIsKept
  /\ \A p \in Procs : Fresh(run[p])
  /\ Careful => Exclusive /\ Recovered
-----------------------------------------------------------------------------
(* Types.                                                                  *)

LEMMA NewFileType ==
  ASSUME TypeOK, NEW f \in Files
  PROVE  NewFile(f) \in Nat /\ NewFile(f) > root[f] /\ NewFile(f) > entry[f]
           /\ (root[f] = 0 /\ entry[f] = 1 => NewFile(f) = 2)
<1>1. root[f] \in Nat /\ entry[f] \in Nat
  BY DEF TypeOK
<1>2. \E x \in {root[f], entry[f]} : \A y \in {root[f], entry[f]} : x >= y
  BY <1>1
<1>3. /\ Max({root[f], entry[f]}) \in {root[f], entry[f]}
      /\ \A y \in {root[f], entry[f]} : Max({root[f], entry[f]}) >= y
  BY <1>2 DEF Max
<1>4. \A m : /\ m \in {root[f], entry[f]}
             /\ m >= root[f] /\ m >= entry[f]
             => /\ 1 + m \in Nat /\ 1 + m > root[f] /\ 1 + m > entry[f]
                /\ (root[f] = 0 /\ entry[f] = 1 => 1 + m = 2)
  BY <1>1
<1> QED BY <1>3, <1>4 DEF NewFile

LEMMA IdleType == Idle \in Run
<1>1. \E f \in Files : TRUE
  BY BundleAssumption DEF Files
<1>2. (CHOOSE f \in Files : TRUE) \in Files
  BY <1>1
<1> QED BY <1>2 DEF Idle, Run, Tasks, Manifest, NoEntry, NoItems

LEMMA ManifestTypes ==
  ASSUME TypeOK
  PROVE  /\ NoEntry \in Manifest /\ [NoEntry EXCEPT !.status = "bare"] \in Manifest
         /\ Plan \in [Files -> {"unlisted", "pending"}]
         /\ [status |-> "incomplete", items |-> Plan] \in Manifest
         /\ Scanned \in Manifest
         /\ \A m \in Manifest : Listed(m.items) \subseteq Files
         /\ \A files : Discarded(files, manifest) \in Manifest
BY DEF NoEntry, NoItems, Manifest, Plan, Scanned, Listed, Discarded, TypeOK

\* A process goes on, and keeps its type.
LEMMA GoesType ==
  ASSUME TypeOK, NEW p \in Procs, NEW r \in Run, Goes(p, r)
  PROVE  run' \in [Procs -> Run] /\ run'[p] = r /\ \A q \in Procs : q # p => run'[q] = run[q]
BY DEF Goes, TypeOK

LEMMA AnswersType ==
  ASSUME TypeOK, NEW p \in Procs,
         NEW answer \in {"error", "reinitialized", "rolled-back", "served"}, Answers(p, answer)
  PROVE  /\ run' \in [Procs -> Run] /\ run'[p] = [run[p] EXCEPT !.at = "leaving", !.answer = answer]
         /\ run'[p].at = "leaving" /\ run'[p].answer = answer
         /\ \A q \in Procs : q # p => run'[q] = run[q]
<1>1. run[p] \in Run
  BY DEF TypeOK
<1> DEFINE r == [run[p] EXCEPT !.at = "leaving", !.answer = answer]
<1>2. r \in Run /\ r.at = "leaving" /\ r.answer = answer
  BY <1>1 DEF Run
<1>3. Goes(p, r)
  BY DEF Answers
<1> HIDE DEF r
<1>4. run' \in [Procs -> Run] /\ run'[p] = r /\ \A q \in Procs : q # p => run'[q] = run[q]
  BY <1>2, <1>3, GoesType
<1> QED BY <1>2, <1>4 DEF r
-----------------------------------------------------------------------------
(* The lock.                                                               *)

\* Who ends has no file left of its own; the files of all others stay where
\* they were, on the path that it leaves, or among the residue.
LEMMA EndsKeeps ==
  ASSUME LockTypeOK, Tidy, LockFileIsKept, NEW p \in Procs,
         NEW path \in Procs \cup {None, Stale}, NEW left \in SUBSET Procs, Ends(p, path, left),
         \A q \in Procs \ {p} : lock = q \/ aside[p] = q => path = q \/ q \in left
  PROVE  /\ LockTypeOK' /\ Tidy' /\ LockFileIsKept'
         /\ hold'[p] = "none" /\ \A q \in Procs : q # p => hold'[q] = hold[q]
         /\ \A q \in Procs : q # p /\ aside[q] = q => aside'[q] = q
         /\ lock' = IF path = p THEN Stale ELSE path
         /\ removed'.count = removed.count
<1>1. /\ hold' = [hold EXCEPT ![p] = "none"]
      /\ lock' = IF path = p THEN Stale ELSE path
      /\ aside' = [q \in Procs |-> IF q = p THEN None ELSE IF aside[q] = p THEN Stale ELSE aside[q]]
      /\ residue' = (residue \cup left) \ {p}
      /\ removed' = [removed EXCEPT !.of = @ \ {p}]
  BY DEF Ends
<1>2. hold'[p] = "none" /\ \A q \in Procs : q # p => hold'[q] = hold[q]
  BY <1>1 DEF LockTypeOK
<1>3. removed'.of = removed.of \ {p} /\ removed'.count = removed.count
        /\ removed' \in [count : Nat, of : SUBSET Procs]
  BY <1>1 DEF LockTypeOK
<1>4. LockTypeOK'
  BY <1>1, <1>3 DEF LockTypeOK
<1>5. Tidy'
  BY <1>1, <1>2, LockAssumption DEF Tidy
<1>6. LockFileIsKept'
  <2> SUFFICES ASSUME NEW q \in Procs, hold'[q] = "held"
               PROVE  \/ lock' = q \/ q \in removed'.of \/ q \in residue'
                      \/ \E x \in Procs : aside'[x] = q
    BY DEF LockFileIsKept
  <2>1. q # p /\ hold[q] = "held"
    BY <1>2
  <2>2. lock = q \/ aside[p] = q => lock' = q \/ q \in residue'
    BY <1>1, <2>1
  <2>3. q \in removed.of => q \in removed'.of
    BY <1>3, <2>1
  <2>4. q \in residue => q \in residue'
    BY <1>1, <2>1
  <2>5. \A x \in Procs : x # p /\ aside[x] = q => aside'[x] = q
    BY <1>1, <2>1
  <2> QED BY <2>1, <2>2, <2>3, <2>4, <2>5 DEF LockFileIsKept
<1> QED BY <1>1, <1>2, <1>3, <1>4, <1>5, <1>6

\* What a process may do to the lock.
LockKept == LockTypeOK /\ Tidy /\ LockFileIsKept

LEMMA AcquiresKeeps ==
  ASSUME LockKept, NEW p \in Procs, Acquires(p) \/ AcquireRefused(p) \/ AcquireLeavesFile(p)
  PROVE  LockKept'
<1>1. CASE Acquires(p)
  BY <1>1 DEF LockKept, LockTypeOK, Tidy, LockFileIsKept, Acquires
<1>2. CASE AcquireRefused(p)
  BY <1>2 DEF LockKept, LockTypeOK, Tidy, LockFileIsKept, AcquireRefused, lockVars
<1>3. CASE AcquireLeavesFile(p)
  BY <1>3, LockAssumption DEF LockKept, LockTypeOK, Tidy, LockFileIsKept, AcquireLeavesFile
<1> QED BY <1>1, <1>2, <1>3

LEMMA SetsAsideKeeps ==
  ASSUME LockKept, NEW p \in Procs, SetsAside(p)
  PROVE  LockKept'
<1>1. /\ hold[p] = "held" /\ lock # None /\ aside' = [aside EXCEPT ![p] = lock]
      /\ lock' = None /\ hold' = [hold EXCEPT ![p] = "releasing"]
      /\ UNCHANGED <<residue, removed>>
  BY DEF SetsAside
<1>2. aside'[p] = lock /\ \A q \in Procs : q # p => aside'[q] = aside[q] /\ hold'[q] = hold[q]
  BY <1>1 DEF LockKept, LockTypeOK
<1>3. hold'[p] = "releasing" /\ aside[p] = None
  BY <1>1 DEF LockKept, LockTypeOK, Tidy
<1>4. LockTypeOK'
  BY <1>1 DEF LockKept, LockTypeOK
<1>5. Tidy'
  BY <1>2, <1>3 DEF LockKept, Tidy
<1>6. LockFileIsKept'
  BY <1>1, <1>2, <1>3, LockAssumption DEF LockKept, LockFileIsKept
<1> QED BY <1>4, <1>5, <1>6 DEF LockKept

LEMMA ReleasesKeeps ==
  ASSUME LockKept, NEW p \in Procs, LeavesLock(p) \/ DropsOwnLock(p) \/ Dies(p)
  PROVE  /\ LockKept' /\ hold'[p] = "none" /\ removed'.count = removed.count
         /\ \A q \in Procs : q # p => hold'[q] = hold[q] /\ (aside[q] = q => aside'[q] = q)
         /\ \A q \in Procs : q # p /\ lock = q => lock' = q
<1>1. lock \in Procs \cup {None, Stale} /\ aside[p] \in Procs \cup {None, Stale}
  BY DEF LockKept, LockTypeOK
<1>2. {aside[p]} \cap Procs \in SUBSET Procs /\ {} \in SUBSET Procs
  OBVIOUS
<1>3. ASSUME NEW path \in Procs \cup {None, Stale}, NEW left \in SUBSET Procs, Ends(p, path, left),
             \A q \in Procs \ {p} : lock = q \/ aside[p] = q => path = q \/ q \in left
      PROVE  /\ LockKept' /\ hold'[p] = "none" /\ removed'.count = removed.count
             /\ \A q \in Procs : q # p => hold'[q] = hold[q] /\ (aside[q] = q => aside'[q] = q)
             /\ lock' = IF path = p THEN Stale ELSE path
  BY <1>3, EndsKeeps DEF LockKept
<1>4. CASE LeavesLock(p)
  <2>1. Ends(p, lock, {}) /\ hold[p] = "held" /\ aside[p] = None
    BY <1>4 DEF LeavesLock, LockKept, Tidy
  <2> QED BY <1>1, <1>2, <1>3, <2>1, LockAssumption
<1>5. CASE Dies(p)
  <2>1. Ends(p, lock, {aside[p]} \cap Procs)
    BY <1>5 DEF Dies
  <2> QED BY <1>1, <1>2, <1>3, <2>1
<1>6. CASE DropsOwnLock(p)
  <2>1. CASE aside[p] = p /\ Ends(p, lock, {})
    BY <1>1, <1>2, <1>3, <2>1
  <2>2. CASE aside[p] # p /\ lock = None /\ Ends(p, aside[p], {})
    BY <1>1, <1>2, <1>3, <2>2, LockAssumption
  <2>3. CASE aside[p] # p /\ Ends(p, lock, {aside[p]} \cap Procs)
    BY <1>1, <1>2, <1>3, <2>3
  <2> QED BY <1>6, <2>1, <2>2, <2>3 DEF DropsOwnLock
<1> QED BY <1>4, <1>5, <1>6

LEMMA OperatorKeeps ==
  ASSUME LockKept, OperatorUnlocks \/ OperatorUnlocksHolder
  PROVE  LockKept'
<1>1. CASE OperatorUnlocks
  BY <1>1, LockAssumption DEF LockKept, LockTypeOK, Tidy, LockFileIsKept, OperatorUnlocks
<1>2. CASE OperatorUnlocksHolder
  <2>1. /\ lock \in Procs /\ lock' = None /\ UNCHANGED <<hold, aside, residue>>
        /\ removed'.of = removed.of \cup {lock} /\ removed' \in [count : Nat, of : SUBSET Procs]
    BY <1>2 DEF OperatorUnlocksHolder, LockKept, LockTypeOK
  <2> QED BY <2>1 DEF LockKept, LockTypeOK, Tidy, LockFileIsKept
<1> QED BY <1>1, <1>2

-----------------------------------------------------------------------------
(* Every step keeps the types.                                             *)

DiskTypes ==
  /\ root \in [Files -> Nat] /\ entry \in [Files -> Nat] /\ manifest \in Manifest
  /\ meddled \in BOOLEAN /\ unfinished \in BOOLEAN /\ deaths \in Nat /\ failures \in Nat

LEMMA FailsType == ASSUME TypeOK, Fails \/ Succeeds PROVE failures' \in Nat
BY DEF Fails, Succeeds, TypeOK

\* The fields of a process that goes on.
LEMMA RunFields ==
  ASSUME NEW r \in Run
  PROVE  /\ r.at \in {"idle", "starting", "scanning", "entering", "planning", "moving", "noting",
                      "creating", "completing", "restoring", "undoing", "linking", "unlinking",
                      "serving", "leaving"}
         /\ r.task \in Tasks \cup {"none"} /\ r.manifest \in Manifest
         /\ r.todo \in SUBSET Files /\ r.done \in SUBSET Files /\ r.item \in Files
         /\ r.way \in {"in", "out"}
BY DEF Run

LEMMA StartsType ==
  ASSUME TypeOK, NEW p \in Procs, NEW task \in Tasks, Starts(p, task)
  PROVE  TypeOK' /\ run'[p].at = "starting" /\ \A q \in Procs : q # p => run'[q] = run[q]
<1> DEFINE r == [Idle EXCEPT !.task = task, !.at = "starting",
                             !.saw = IF task = "reinitialize" THEN Presence ELSE @]
<1>1. Presence \in {"complete", "partial", "missing"}
  BY DEF Presence
<1>2. r \in Run /\ r.at = "starting"
  BY <1>1, IdleType DEF Run
<1>3. Goes(p, r) /\ UNCHANGED <<lockVars, diskVars, ghostVars, boundVars>>
  BY DEF Starts
<1> HIDE DEF r
<1>4. run' \in [Procs -> Run] /\ run'[p] = r /\ \A q \in Procs : q # p => run'[q] = run[q]
  BY <1>2, <1>3, GoesType
<1> QED BY <1>2, <1>3, <1>4
        DEF TypeOK, LockTypeOK, lockVars, diskVars, ghostVars, boundVars

\* A process goes to another place, and no more.
LEMMA AtType ==
  ASSUME TypeOK, NEW p \in Procs,
         NEW where \in {"scanning", "entering", "planning", "completing", "serving", "unlinking"},
         At(p, where)
  PROVE  /\ run' \in [Procs -> Run] /\ run'[p] = [run[p] EXCEPT !.at = where]
         /\ \A q \in Procs : q # p => run'[q] = run[q]
<1> DEFINE r == [run[p] EXCEPT !.at = where]
<1>1. run[p] \in Run
  BY DEF TypeOK
<1>2. r \in Run
  BY <1>1 DEF Run
<1>3. Goes(p, r)
  BY DEF At
<1> HIDE DEF r
<1>4. run' \in [Procs -> Run] /\ run'[p] = r /\ \A q \in Procs : q # p => run'[q] = run[q]
  BY <1>2, <1>3, GoesType
<1> QED BY <1>4 DEF r

LEMMA IdlesType ==
  ASSUME TypeOK, NEW p \in Procs, Goes(p, Idle)
  PROVE  /\ run' \in [Procs -> Run] /\ run'[p].at = "idle" /\ run'[p].task = "none"
         /\ \A q \in Procs : q # p => run'[q] = run[q]
<1>1. run'[p] = Idle /\ run' \in [Procs -> Run] /\ \A q \in Procs : q # p => run'[q] = run[q]
  BY IdleType, GoesType
<1> QED BY <1>1 DEF Idle

LEMMA LocksType ==
  ASSUME TypeOK, NEW p \in Procs, Locks(p)
  PROVE  /\ run' \in [Procs -> Run] /\ DiskTypes'
         /\ \A q \in Procs : q # p => run'[q] = run[q]
         /\ \/ Acquires(p) /\ run'[p].at = "scanning"
            \/ (AcquireRefused(p) \/ AcquireLeavesFile(p)) /\ run'[p].at = "idle"
<1>1. DiskTypes'
  BY DEF Locks, DiskTypes, TypeOK, diskVars, ghostVars, boundVars
<1>2. CASE Acquires(p) /\ At(p, "scanning")
  <2>1. run' \in [Procs -> Run] /\ run'[p] = [run[p] EXCEPT !.at = "scanning"]
          /\ \A q \in Procs : q # p => run'[q] = run[q]
    BY <1>2, AtType
  <2>2. run[p] \in Run
    BY DEF TypeOK
  <2>3. [run[p] EXCEPT !.at = "scanning"].at = "scanning"
    BY <2>2 DEF Run
  <2> QED BY <1>1, <1>2, <2>1, <2>3
<1>3. CASE (AcquireRefused(p) \/ AcquireLeavesFile(p)) /\ Goes(p, Idle)
  BY <1>1, <1>3, IdlesType
<1> QED BY <1>2, <1>3 DEF Locks

-----------------------------------------------------------------------------
(* The steps of whoever is at work.                                        *)

\* Under the lock there is one of them.
LEMMA WorkerIsAlone ==
  ASSUME TypeOK, Exclusive, NEW p \in Procs, Works(run[p]), NEW q \in Procs, q # p
  PROVE  ~Works(run[q]) /\ ~Restoring(run[q])
<1>1. \A x \in Procs : Works(run[x]) => hold[x] = "held"
  BY DEF TypeOK, LockTypeOK, Exclusive, Works
<1>2. ~Works(run[q])
  BY <1>1 DEF Exclusive
<1> QED BY <1>2 DEF Restoring, Works

LEMMA WorkFacts ==
  ASSUME BundleInv, Careful, NEW p \in Procs, Works(run[p])
  PROVE  /\ Disk /\ Phase(run[p])
         /\ ~Restoring(run[p]) => Settled
<1>1. TypeOK /\ Exclusive /\ Recovered
  BY DEF BundleInv
<1>2. \A q \in Procs : q # p => ~Restoring(run[q])
  BY <1>1, WorkerIsAlone
<1> QED BY <1>1, <1>2 DEF Recovered

LEMMA WorkStep ==
  ASSUME BundleInv, NEW p \in Procs, Works(run[p]), UNCHANGED lockVars, DiskTypes',
         run' \in [Procs -> Run], \A q \in Procs : q # p => run'[q] = run[q],
         run'[p].at \notin {"idle", "starting"}, Fresh(run'[p]),
         Careful => /\ Disk' /\ (~Restoring(run'[p]) => Settled')
                    /\ Works(run'[p]) => Phase(run[p])'
  PROVE  BundleInv'
<1>1. TypeOK'
  BY DEF BundleInv, TypeOK, LockTypeOK, DiskTypes, lockVars
<1>2. Tidy' /\ LockFileIsKept'
  BY DEF BundleInv, Tidy, LockFileIsKept, lockVars
<1>3. (Careful' <=> Careful) /\ \A q \in Procs : Fresh(run'[q])
  BY DEF Careful, lockVars, BundleInv
<1>4. ASSUME Careful PROVE Exclusive' /\ Recovered'
  <2>1. TypeOK /\ Exclusive
    BY <1>4 DEF BundleInv
  <2>2. hold[p] = "held" /\ UNCHANGED <<lock, hold, aside>>
    BY <2>1 DEF TypeOK, LockTypeOK, Exclusive, Works, lockVars
  <2>3. Exclusive'
    BY <2>1, <2>2 DEF Exclusive
  <2>4. \A q \in Procs : q # p => ~Works(run'[q])
    BY <2>1, WorkerIsAlone
  <2>5. (\A q \in Procs : ~Restoring(run'[q])) => Settled'
    BY <1>4
  <2>6. \A q \in Procs : Works(run'[q]) => Phase(run[q])'
    <3> SUFFICES ASSUME NEW q \in Procs, Works(run'[q]) PROVE Phase(run[q])'
      OBVIOUS
    <3>1. q = p
      BY <2>4
    <3> QED BY <1>4, <3>1
  <2>7. Recovered'
    BY <1>4, <2>5, <2>6 DEF Recovered
  <2> QED BY <2>3, <2>7
<1> QED BY <1>1, <1>2, <1>3, <1>4 DEF BundleInv

\* The disk as it is.
LEMMA SameDisk ==
  ASSUME UNCHANGED <<root, entry, manifest>>
  PROVE  /\ EntryKept' <=> EntryKept
         /\ OriginalKept' <=> OriginalKept
         /\ AllMoved' <=> AllMoved
         /\ Unmixed' <=> Unmixed
         /\ OnlyListed' <=> OnlyListed
         /\ OneInode' <=> OneInode
         /\ UNCHANGED unfinished => (Settled' <=> Settled)
         /\ unfinished' => Settled'
         /\ UNCHANGED meddled => (Disk' <=> Disk)
BY DEF EntryKept, OriginalKept, AllMoved, Unmixed, OnlyListed, OneInode, Settled, Disk, NoFiles, Under

\* A worker is done, or gives up, over a disk that it leaves as it is.
LEMMA LeavesInv ==
  ASSUME BundleInv, NEW p \in Procs, Works(run[p]),
         NEW answer \in {"error", "reinitialized", "rolled-back", "served"}, Answers(p, answer),
         UNCHANGED <<lockVars, root, entry, manifest, meddled, deaths>>,
         unfinished' \in BOOLEAN, failures' \in Nat,
         Careful => Settled'
  PROVE  BundleInv'
<1>1. TypeOK
  BY DEF BundleInv
<1>2. /\ run' \in [Procs -> Run] /\ run'[p].at = "leaving"
      /\ \A q \in Procs : q # p => run'[q] = run[q]
  BY <1>1, AnswersType
<1>3. DiskTypes'
  BY <1>1 DEF TypeOK, DiskTypes
<1>4. Careful => Disk'
  BY SameDisk, WorkFacts
<1> QED BY <1>2, <1>3, <1>4, WorkStep DEF Works, lockVars, Fresh

\* It refuses before a rollback has moved anything, or in a reinitialize.
LEMMA RefusesInv ==
  ASSUME BundleInv, NEW p \in Procs, Works(run[p]), ~Restoring(run[p]), Refuses(p),
         UNCHANGED <<lockVars, root, entry, manifest, ghostVars, deaths>>, failures' \in Nat
  PROVE  BundleInv'
<1>1. UNCHANGED <<meddled, unfinished>> /\ unfinished \in BOOLEAN
  BY DEF BundleInv, TypeOK, ghostVars
<1>2. Careful => Settled'
  BY <1>1, SameDisk, WorkFacts
<1> QED BY <1>1, <1>2, LeavesInv DEF Refuses

-----------------------------------------------------------------------------
(* reinitialize, its moves apart.                                          *)

\* Nothing is known to be moved of an entry that has no files.
LEMMA NoFilesDisk ==
  ASSUME TypeOK, Disk, NoFiles, UNCHANGED <<root, entry, meddled>>, NoFiles'
  PROVE  Disk' /\ Settled'
<1>1. \A f \in Files : entry[f] = 0
  BY DEF Disk, EntryKept
<1> QED BY <1>1 DEF Disk, EntryKept, OriginalKept, AllMoved, Unmixed, OnlyListed, OneInode, Settled,
                    NoFiles

LEMMA ScansToReinitializeInv ==
  ASSUME BundleInv, NEW p \in Procs, ScansToReinitialize(p)
  PROVE  BundleInv'
<1> DEFINE r == run[p]
<1>1. /\ r.at = "scanning" /\ r.task = "reinitialize" /\ manifest' = Scanned
      /\ UNCHANGED <<lockVars, root, entry, ghostVars, boundVars>>
  BY DEF ScansToReinitialize
<1>2. TypeOK /\ r \in Run /\ Works(r) /\ ~Restoring(r) /\ Fresh(r)
  BY <1>1 DEF BundleInv, TypeOK, Works, Restoring
<1>3. DiskTypes' /\ UNCHANGED <<meddled, unfinished, deaths, failures>>
  BY <1>1, <1>2, ManifestTypes DEF TypeOK, DiskTypes, ghostVars, boundVars
<1>4. manifest.status # "bare" => manifest' = manifest
  BY <1>1 DEF Scanned
<1>5. manifest.status = "bare" => NoFiles /\ NoFiles'
  BY <1>1 DEF Scanned, NoEntry, NoFiles
<1>6. Careful => Disk' /\ Settled'
  <2> SUFFICES ASSUME Careful PROVE Disk' /\ Settled'
    OBVIOUS
  <2>1. Disk /\ Settled
    BY <1>2, WorkFacts
  <2>2. CASE manifest.status = "bare"
    BY <1>1, <1>2, <1>3, <1>5, <2>1, <2>2, NoFilesDisk
  <2>3. CASE manifest.status # "bare"
    BY <1>1, <1>3, <1>4, <2>1, <2>3, SameDisk
  <2> QED BY <2>2, <2>3
<1>7. CASE Refuses(p)
  <2>1. /\ run' \in [Procs -> Run] /\ run'[p].at = "leaving"
        /\ \A q \in Procs : q # p => run'[q] = run[q]
    BY <1>2, <1>7, AnswersType DEF Refuses
  <2> QED BY <1>1, <1>2, <1>3, <1>6, <2>1, WorkStep DEF Works, Fresh
<1>8. CASE manifest'.status = "none" /\ Presence = "complete" /\ At(p, "entering")
  <2>1. /\ run' \in [Procs -> Run] /\ run'[p] = [r EXCEPT !.at = "entering"]
        /\ \A q \in Procs : q # p => run'[q] = run[q]
    BY <1>2, <1>8, AtType
  <2>2. /\ run'[p].at = "entering" /\ run'[p].task = "reinitialize"
        /\ run'[p].way = r.way /\ run'[p].done = r.done
    BY <1>1, <1>2, <2>1 DEF Run
  <2>3. Required \subseteq Present(root)'
    BY <1>1, <1>8 DEF Presence, Present
  <2>4. Phase(run[p])'
    BY <1>8, <2>2, <2>3 DEF Phase, Begins
  <2> QED BY <1>1, <1>2, <1>3, <1>6, <2>1, <2>2, <2>4, WorkStep DEF Works, Restoring, Fresh
<1>9. CASE Resumes(manifest) /\ Goes(p, [r EXCEPT !.at = "moving", !.manifest = manifest,
                                                  !.todo = Listed(manifest.items)])
  <2> DEFINE q == [r EXCEPT !.at = "moving", !.manifest = manifest, !.todo = Listed(manifest.items)]
  <2>1. /\ q \in Run /\ q.at = "moving" /\ q.task = "reinitialize" /\ q.way = "in"
        /\ q.manifest = manifest /\ q.todo = Listed(manifest.items)
    <3>1. r.way = "in"
      BY <1>1, <1>2 DEF Fresh
    <3> QED BY <1>1, <1>2, <3>1, ManifestTypes DEF Run, TypeOK
  <2> HIDE DEF q
  <2>2. /\ run' \in [Procs -> Run] /\ run'[p] = q
        /\ \A x \in Procs : x # p => run'[x] = run[x]
    BY <1>2, <1>9, <2>1, GoesType DEF q
  <2>3. manifest' = manifest /\ manifest.status \in {"incomplete", "initializing"}
    BY <1>4, <1>9 DEF Resumes
  <2>4. MovesIn(run[p])'
    BY <2>1, <2>2, <2>3 DEF MovesIn, InHand, Listed, Under
  <2>5. Phase(run[p])'
    BY <2>1, <2>2, <2>4 DEF Phase
  <2> QED BY <1>1, <1>2, <1>3, <1>6, <2>1, <2>2, <2>5, WorkStep DEF Works, Restoring, Fresh
<1> QED BY <1>7, <1>8, <1>9 DEF ScansToReinitialize, ProbeRefuses

LEMMA MakesEntryInv ==
  ASSUME BundleInv, NEW p \in Procs, MakesEntry(p)
  PROVE  BundleInv'
<1> DEFINE r == run[p]
<1>1. /\ r.at = "entering" /\ UNCHANGED <<lockVars, root, entry, ghostVars, deaths>>
      /\ Succeeds \/ Fails
  BY DEF MakesEntry
<1>2. TypeOK /\ r \in Run /\ Works(r) /\ ~Restoring(r) /\ Fresh(r) /\ failures' \in Nat
  BY <1>1, FailsType DEF BundleInv, TypeOK, Works, Restoring
<1>3. CASE UNCHANGED manifest /\ Refuses(p)
  BY <1>1, <1>2, <1>3, RefusesInv
<1>4. CASE manifest' = [NoEntry EXCEPT !.status = "bare"] /\ At(p, "planning")
  <2>1. /\ run' \in [Procs -> Run] /\ run'[p] = [r EXCEPT !.at = "planning"]
        /\ \A q \in Procs : q # p => run'[q] = run[q]
    BY <1>2, <1>4, AtType
  <2>2. /\ run'[p].at = "planning" /\ run'[p].task = r.task
        /\ run'[p].way = r.way /\ run'[p].done = r.done
    BY <1>1, <1>2, <2>1 DEF Run
  <2>3. DiskTypes' /\ UNCHANGED <<meddled, unfinished>>
    BY <1>1, <1>2, <1>4, ManifestTypes DEF TypeOK, DiskTypes, ghostVars
  <2>4. manifest'.status = "bare"
    BY <1>4 DEF NoEntry
  <2>5. ASSUME Careful PROVE Disk' /\ Settled' /\ Phase(run[p])'
    <3>1. Disk /\ Begins(r)
      BY <1>1, <1>2, <2>5, WorkFacts DEF Phase
    <3>2. Disk' /\ Settled'
      BY <1>1, <1>2, <2>3, <2>4, <3>1, NoFilesDisk DEF Begins, NoFiles
    <3>3. Phase(run[p])'
      BY <1>1, <2>2, <2>4, <3>1 DEF Phase, Begins, Present
    <3> QED BY <3>2, <3>3
  <2> QED BY <1>1, <1>2, <2>1, <2>2, <2>3, <2>5, WorkStep DEF Works, Fresh
<1> QED BY <1>3, <1>4 DEF MakesEntry

LEMMA PlansMovesInv ==
  ASSUME BundleInv, NEW p \in Procs, PlansMoves(p)
  PROVE  BundleInv'
<1> DEFINE r == run[p]
           m == [status |-> "incomplete", items |-> Plan]
           q == [r EXCEPT !.at = "moving", !.manifest = m, !.todo = Listed(Plan)]
<1>1. /\ r.at = "planning" /\ UNCHANGED <<lockVars, root, entry, ghostVars, deaths>>
      /\ Succeeds \/ Fails
  BY DEF PlansMoves
<1>2. TypeOK /\ r \in Run /\ Works(r) /\ ~Restoring(r) /\ Fresh(r) /\ failures' \in Nat
  BY <1>1, FailsType DEF BundleInv, TypeOK, Works, Restoring
<1>3. Careful => Disk /\ Begins(r) /\ NoFiles
  BY <1>1, <1>2, WorkFacts DEF Phase, Begins, NoFiles
<1>4. UNCHANGED <<meddled, unfinished>>
  BY <1>1 DEF ghostVars
<1>5. CASE manifest' = Discarded(entry, manifest) /\ Refuses(p)
  <2>1. /\ run' \in [Procs -> Run] /\ run'[p].at = "leaving"
        /\ \A x \in Procs : x # p => run'[x] = run[x]
    BY <1>2, <1>5, AnswersType DEF Refuses
  <2>2. DiskTypes'
    BY <1>1, <1>2, <1>4, <1>5, ManifestTypes DEF TypeOK, DiskTypes
  <2>3. NoFiles => NoFiles'
    BY <1>5 DEF NoFiles, Discarded, NoEntry
  <2>4. Careful => Disk' /\ Settled'
    BY <1>1, <1>2, <1>3, <1>4, <2>3, NoFilesDisk
  <2> QED BY <1>1, <1>2, <2>1, <2>2, <2>4, WorkStep DEF Works, Fresh
<1>6. CASE manifest' = m /\ Goes(p, q)
  <2>1. m \in Manifest /\ Listed(Plan) \in SUBSET Files
    BY <1>2, ManifestTypes DEF Listed
  <2>2. /\ q \in Run /\ q.at = "moving" /\ q.task = r.task /\ q.way = "in"
        /\ q.manifest = m /\ q.todo = Listed(Plan)
    <3>1. r.way = "in"
      BY <1>1, <1>2 DEF Fresh
    <3> QED BY <1>2, <2>1, <3>1 DEF Run
  <2> HIDE DEF q
  <2>3. /\ run' \in [Procs -> Run] /\ run'[p] = q
        /\ \A x \in Procs : x # p => run'[x] = run[x]
    BY <1>2, <1>6, <2>2, GoesType
  <2>4. DiskTypes'
    BY <1>1, <1>2, <1>4, <1>6, <2>1 DEF TypeOK, DiskTypes
  <2>5. ASSUME Careful PROVE Disk' /\ Settled' /\ Phase(run[p])'
    <3>1. \A f \in Files : entry[f] = 0 /\ (f \in Required => root[f] # 0)
      BY <1>3, <2>5 DEF Disk, EntryKept, Begins, Present
    <3>2. manifest'.status = "incomplete" /\ ~NoFiles'
      BY <1>6 DEF NoFiles
    <3>3. \A f \in Files : /\ Under(f)' = IF f \in Required \/ root[f] # 0
                                            THEN "pending" ELSE "unlisted"
      BY <1>6 DEF Under, Plan, Present
    <3>4. EntryKept'
      BY <1>1, <3>1, <3>2, <3>3 DEF EntryKept
    <3>5. AllMoved' /\ OnlyListed' /\ OneInode' /\ Settled'
      BY <1>1, <3>1, <3>2, <3>3 DEF AllMoved, OnlyListed, OneInode, Settled
    <3>6. Disk'
      BY <1>1, <1>3, <1>4, <2>5, <3>4, <3>5 DEF Disk, OriginalKept, Unmixed
    <3>7. MovesIn(run[p])'
      BY <1>3, <1>6, <2>2, <2>3, <2>5, <3>2 DEF MovesIn, InHand, Listed, Under, Begins
    <3> QED BY <2>2, <2>3, <3>5, <3>6, <3>7 DEF Phase
  <2> QED BY <1>1, <1>2, <2>2, <2>3, <2>4, <2>5, WorkStep DEF Works, Fresh
<1> QED BY <1>5, <1>6 DEF PlansMoves

-----------------------------------------------------------------------------
(* What a change of one file does to the disk.                             *)

\* A file leaves the state directory whose like is in the entry, or which the
\* entry does not list.
LEMMA RootLowered ==
  ASSUME TypeOK, Disk, UNCHANGED <<entry, manifest>>,
         \A f \in Files : \/ root'[f] = root[f]
                          \/ root'[f] = 0 /\ (entry[f] # 0 \/ (~NoFiles /\ Under(f) = "unlisted"))
  PROVE  /\ EntryKept' /\ OriginalKept' /\ AllMoved'
         /\ ~meddled => Unmixed' /\ OnlyListed' /\ OneInode'
         /\ UNCHANGED unfinished => (Settled' <=> Settled)
<1>1. (NoFiles' <=> NoFiles) /\ \A f \in Files : Under(f)' = Under(f) /\ entry'[f] = entry[f]
  BY DEF NoFiles, Under
<1>2. \A f \in Files : root[f] \in Nat /\ entry[f] \in Nat
  BY DEF TypeOK
<1>3. \A f \in Required : f \in Files /\ (root'[f] = root[f] \/ (root'[f] = 0 /\ entry[f] = 1))
  BY <1>1, <1>2 DEF Disk, EntryKept, OriginalKept, Files
<1>4. EntryKept'
  BY <1>1, <1>2 DEF Disk, EntryKept
<1>5. OriginalKept'
  BY <1>1, <1>3 DEF Disk, OriginalKept
<1>6. AllMoved'
  BY <1>1 DEF Disk, AllMoved
<1>7. ~meddled => Unmixed'
  <2> SUFFICES ASSUME ~meddled, NEW f \in Required, NEW g \in Required, root'[f] = 1, root'[g] > 1
               PROVE  FALSE
    BY DEF Unmixed
  <2>1. root[f] = 1 /\ root[g] > 1
    BY <1>3
  <2> QED BY <2>1 DEF Disk, Unmixed
<1>8. ~meddled => OnlyListed' /\ OneInode'
  BY <1>1 DEF Disk, OnlyListed, OneInode
<1>9. UNCHANGED unfinished => (Settled' <=> Settled)
  BY <1>1 DEF Settled
<1> QED BY <1>4, <1>5, <1>6, <1>7, <1>8, <1>9

\* A listed file gets a second link in the entry.
LEMMA EntryLinked ==
  ASSUME TypeOK, Disk, NEW f \in Files, Out(f), Under(f) # "unlisted",
         manifest.status \in {"incomplete", "complete"},
         entry' = [entry EXCEPT ![f] = root[f]], UNCHANGED <<root, manifest, meddled>>
  PROVE  /\ Disk' /\ Both(f)'
         /\ \A g \in Files : g # f => entry'[g] = entry[g]
         /\ \A g \in Files : entry[g] # 0 => entry'[g] # 0
<1>1. entry'[f] = root[f] /\ \A g \in Files : g # f => entry'[g] = entry[g]
  BY DEF TypeOK
<1>2. (NoFiles' <=> NoFiles) /\ ~NoFiles /\ \A g \in Files : Under(g)' = Under(g)
  BY DEF NoFiles, Under
<1>3. EntryKept'
  BY <1>1, <1>2 DEF Disk, EntryKept, Out
<1>4. OriginalKept'
  BY <1>1 DEF Disk, OriginalKept, Out, Files
<1>5. AllMoved' /\ (OneInode => OneInode') /\ (OnlyListed => OnlyListed') /\ (Unmixed => Unmixed')
  BY <1>1, <1>2 DEF AllMoved, OneInode, OnlyListed, Unmixed
<1> QED BY <1>1, <1>3, <1>4, <1>5 DEF Disk, Both, Out

\* ... in the state directory, where no member is a fresh one.
LEMMA RootLinked ==
  ASSUME TypeOK, Disk, NEW f \in Files, In(f), Under(f) # "unlisted",
         manifest.status \in {"incomplete", "complete"}, \A g \in Required : root[g] # 2,
         root' = [root EXCEPT ![f] = entry[f]], UNCHANGED <<entry, manifest, meddled>>
  PROVE  /\ Disk' /\ Both(f)'
         /\ \A g \in Files : g # f => root'[g] = root[g]
         /\ \A g \in Required : root'[g] # 2
<1>1. root'[f] = entry[f] /\ \A g \in Files : g # f => root'[g] = root[g]
  BY DEF TypeOK
<1>2. (NoFiles' <=> NoFiles) /\ ~NoFiles /\ \A g \in Files : Under(g)' = Under(g)
  BY DEF NoFiles, Under
<1>3. EntryKept'
  BY <1>1, <1>2 DEF Disk, EntryKept, In
<1>4. OriginalKept' /\ \A g \in Required : root'[g] \in {0, 1}
  BY <1>1 DEF Disk, OriginalKept, In, Files
<1>5. AllMoved' /\ (OneInode => OneInode') /\ (OnlyListed => OnlyListed') /\ Unmixed'
  BY <1>1, <1>2, <1>4 DEF AllMoved, OneInode, OnlyListed, Unmixed
<1> QED BY <1>1, <1>3, <1>4, <1>5 DEF Disk, Both, In

\* One of the two links of a listed file leaves the entry.
LEMMA EntryUnlinked ==
  ASSUME TypeOK, Disk, NEW f \in Files, Both(f), Under(f) # "unlisted",
         manifest.status \in {"incomplete", "complete"},
         entry' = [entry EXCEPT ![f] = 0], UNCHANGED <<root, manifest, meddled>>
  PROVE  Disk' /\ Out(f)' /\ \A g \in Files : g # f => entry'[g] = entry[g]
<1>1. entry'[f] = 0 /\ \A g \in Files : g # f => entry'[g] = entry[g]
  BY DEF TypeOK
<1>2. (NoFiles' <=> NoFiles) /\ ~NoFiles /\ \A g \in Files : Under(g)' = Under(g)
  BY DEF NoFiles, Under
<1>3. EntryKept'
  BY <1>1, <1>2 DEF Disk, EntryKept, Both
<1>4. OriginalKept'
  BY <1>1 DEF Disk, OriginalKept, Both, Files
<1>5. AllMoved' /\ (OneInode => OneInode') /\ (OnlyListed => OnlyListed') /\ (Unmixed => Unmixed')
  BY <1>1, <1>2 DEF AllMoved, OneInode, OnlyListed, Unmixed
<1> QED BY <1>1, <1>3, <1>4, <1>5 DEF Disk, Both, Out

\* ... or the state directory.
LEMMA RootUnlinked ==
  ASSUME TypeOK, Disk, NEW f \in Files, Both(f),
         root' = [root EXCEPT ![f] = 0], UNCHANGED <<entry, manifest, meddled>>
  PROVE  /\ Disk' /\ In(f)'
         /\ \A g \in Files : g # f => root'[g] = root[g]
         /\ UNCHANGED unfinished => (Settled' <=> Settled)
<1>1. root'[f] = 0 /\ \A g \in Files : g # f => root'[g] = root[g]
  BY DEF TypeOK
<1>2. \A g \in Files : root'[g] = root[g] \/ (root'[g] = 0 /\ entry[g] # 0)
  BY <1>1 DEF Both
<1> QED BY <1>1, <1>2, RootLowered DEF Disk, Both, In

\* A file is made where none was, next to whatever is in the entry.
LEMMA RootCreated ==
  ASSUME TypeOK, Disk, NEW f \in Files, root[f] = 0,
         root' = [root EXCEPT ![f] = NewFile(f)], UNCHANGED <<entry, manifest>>,
         meddled' \in BOOLEAN, meddled => meddled',
         ~meddled' => \/ f \notin Required \/ \A g \in Required : root[g] # 1,
         ~meddled' => Under(f) # "unlisted" \/ NoFiles,
         ~meddled' => manifest.status # "incomplete"
  PROVE  /\ Disk' /\ root'[f] # 0 /\ \A g \in Files : g # f => root'[g] = root[g]
         /\ UNCHANGED unfinished => (Settled' <=> Settled)
<1>1. /\ root'[f] = NewFile(f) /\ NewFile(f) \in Nat /\ NewFile(f) > 0 /\ NewFile(f) # entry[f]
      /\ \A g \in Files : g # f => root'[g] = root[g]
      /\ entry[f] = 1 => NewFile(f) = 2
  BY NewFileType DEF TypeOK
<1>2. (NoFiles' <=> NoFiles) /\ \A g \in Files : Under(g)' = Under(g) /\ entry'[g] = entry[g]
  BY DEF NoFiles, Under
<1>3. EntryKept'
  BY <1>1, <1>2 DEF Disk, EntryKept
<1>4. OriginalKept' /\ (f \in Required => root'[f] = 2)
  BY <1>1 DEF Disk, OriginalKept, Files
<1>5. AllMoved'
  BY <1>1, <1>2 DEF Disk, AllMoved
<1>6. ~meddled' => Unmixed'
  <2> SUFFICES ASSUME ~meddled', NEW g \in Required, NEW h \in Required, root'[g] = 1, root'[h] > 1
               PROVE  FALSE
    BY DEF Unmixed
  <2>1. root[g] = 1
    BY <1>1, <1>4 DEF Files
  <2>2. h # f /\ root[h] > 1
    BY <1>1, <2>1 DEF Files
  <2> QED BY <2>1, <2>2 DEF Disk, Unmixed
<1>7. ~meddled' => OnlyListed' /\ OneInode'
  BY <1>1, <1>2 DEF Disk, OnlyListed, OneInode, NoFiles
<1>8. UNCHANGED unfinished => (Settled' <=> Settled)
  BY <1>2 DEF Settled
<1> QED BY <1>1, <1>3, <1>4, <1>5, <1>6, <1>7, <1>8 DEF Disk

\* A reinitialize goes on to the next item.
LEMMA VisitType ==
  ASSUME TypeOK, NEW p \in Procs, NEW f \in run[p].todo, NEW where \in {"moving", "linking", "noting"},
         Goes(p, [run[p] EXCEPT !.at = where, !.item = f, !.todo = @ \ {f}])
  PROVE  /\ run' \in [Procs -> Run] /\ \A x \in Procs : x # p => run'[x] = run[x]
         /\ run'[p].at = where /\ run'[p].task = run[p].task /\ run'[p].way = run[p].way
         /\ run'[p].manifest = run[p].manifest /\ run'[p].done = run[p].done
         /\ run'[p].item = f /\ run'[p].todo = run[p].todo \ {f}
<1> DEFINE q == [run[p] EXCEPT !.at = where, !.item = f, !.todo = @ \ {f}]
<1>1. run[p] \in Run /\ f \in Files
  BY RunFields DEF TypeOK
<1>2. /\ q \in Run /\ q.at = where /\ q.task = run[p].task /\ q.way = run[p].way
      /\ q.manifest = run[p].manifest /\ q.done = run[p].done
      /\ q.item = f /\ q.todo = run[p].todo \ {f}
  BY <1>1 DEF Run
<1> HIDE DEF q
<1>3. run' \in [Procs -> Run] /\ run'[p] = q /\ \A x \in Procs : x # p => run'[x] = run[x]
  BY <1>2, GoesType DEF q
<1> QED BY <1>2, <1>3

LEMMA VisitsItemInv ==
  ASSUME BundleInv, NEW p \in Procs, VisitsItem(p)
  PROVE  BundleInv'
<1> DEFINE r == run[p]
<1>1. /\ r.at = "moving" /\ UNCHANGED <<lockVars, entry, manifest, ghostVars, deaths>>
  BY DEF VisitsItem
<1>2. TypeOK /\ r \in Run /\ Works(r) /\ ~Restoring(r)
  BY <1>1 DEF BundleInv, TypeOK, Works, Restoring
<1>3. Careful => Disk /\ Settled /\ MovesIn(r) /\ InHand(r) = {}
  BY <1>1, <1>2, WorkFacts DEF Phase, InHand
<1>4. UNCHANGED <<meddled, unfinished>>
  BY <1>1 DEF ghostVars
<1>5. ASSUME (Succeeds \/ Fails) /\ Refuses(p) /\ UNCHANGED root
      PROVE  BundleInv'
  BY <1>1, <1>2, <1>5, FailsType, RefusesInv
<1>6. ASSUME NEW f \in r.todo, NEW where \in {"moving", "linking", "noting"}, Succeeds,
             Goes(p, [r EXCEPT !.at = where, !.item = f, !.todo = @ \ {f}]),
             root' = root \/ root' = [root EXCEPT ![f] = 0],
             Careful => /\ Disk' /\ Settled'
                        /\ where = "moving" => manifest.status = "initializing"
                        /\ where = "noting" => In(f)'
                        /\ where = "linking" => Under(f) = "pending" /\ Out(f)'
                        /\ \A g \in Files : g # f => root'[g] = root[g]
                        /\ where # "moving" => manifest.status = "incomplete"
      PROVE  BundleInv'
  <2>1. /\ run' \in [Procs -> Run] /\ \A x \in Procs : x # p => run'[x] = run[x]
        /\ run'[p].at = where /\ run'[p].task = r.task /\ run'[p].way = r.way
        /\ run'[p].manifest = r.manifest /\ run'[p].done = r.done
        /\ run'[p].item = f /\ run'[p].todo = r.todo \ {f}
    BY <1>2, <1>6, VisitType
  <2>2. DiskTypes' /\ f \in Files
    BY <1>1, <1>2, <1>4, <1>6, FailsType, RunFields DEF TypeOK, DiskTypes
  <2>3. ASSUME Careful PROVE MovesIn(run[p])'
    <3>1. MovesIn(r) /\ InHand(r) = {} /\ f \in Listed(manifest.items)
      BY <1>3, <2>3 DEF MovesIn
    <3>2. InHand(run[p])' = IF where = "moving" THEN {} ELSE {f}
      BY <2>1 DEF InHand
    <3>3. manifest.status = "incomplete" =>
            \A g \in Files : Under(g) # "unlisted" /\ g \notin run'[p].todo \cup InHand(run[p])' =>
              Under(g) = "moved" /\ In(g)'
      BY <1>1, <1>6, <2>1, <2>3, <3>1, <3>2 DEF MovesIn, In
    <3>4. /\ run'[p].todo \subseteq Listed(manifest.items)
          /\ InHand(run[p])' \subseteq Listed(manifest.items) /\ InHand(run[p])' \cap run'[p].todo = {}
      BY <2>1, <3>1, <3>2 DEF MovesIn
    <3> QED BY <1>1, <1>6, <2>1, <2>3, <3>1, <3>3, <3>4 DEF MovesIn, Listed, Under
  <2>4. Careful => Phase(run[p])'
    BY <2>1, <2>3 DEF Phase
  <2> QED BY <1>1, <1>2, <1>6, <2>1, <2>2, <2>4, WorkStep DEF Works, Fresh
<1>7. PICK f \in r.todo :
        IF r.manifest.status = "initializing"
         THEN /\ Succeeds
              /\ IF r.manifest.items[f] = "moved" /\ entry[f] # 0
                   THEN Goes(p, [r EXCEPT !.at = "moving", !.item = f, !.todo = @ \ {f}]) ELSE Refuses(p)
              /\ UNCHANGED root
         ELSE \/ Verdict(f, r.manifest.items[f]) = "inconsistent" /\ Succeeds /\ Refuses(p) /\ UNCHANGED root
              \/ /\ Verdict(f, r.manifest.items[f]) = "move" /\ Succeeds /\ UNCHANGED root
                 /\ Goes(p, [r EXCEPT !.at = "linking", !.item = f, !.todo = @ \ {f}])
              \/ /\ Verdict(f, r.manifest.items[f]) = "moved" /\ Succeeds /\ UNCHANGED root
                 /\ Goes(p, [r EXCEPT !.at = "noting", !.item = f, !.todo = @ \ {f}])
              \/ /\ Verdict(f, r.manifest.items[f]) = "complete" /\ Succeeds /\ root' = [root EXCEPT ![f] = 0]
                 /\ Goes(p, [r EXCEPT !.at = "noting", !.item = f, !.todo = @ \ {f}])
              \/ Verdict(f, r.manifest.items[f]) = "complete" /\ Fails /\ Refuses(p) /\ UNCHANGED root
  BY DEF VisitsItem
<1>8. f \in Files
  BY <1>2, RunFields
<1>9. UNCHANGED root /\ Careful => Disk' /\ Settled'
  BY <1>1, <1>3, <1>4, SameDisk
<1>10. r.manifest.status # "initializing" /\ Careful => manifest.status = "incomplete"
  BY <1>3 DEF MovesIn
<1>11. CASE r.manifest.status = "initializing" /\ Succeeds /\ UNCHANGED root
             /\ Goes(p, [r EXCEPT !.at = "moving", !.item = f, !.todo = @ \ {f}])
  <2>1. Careful => manifest.status = "initializing"
    BY <1>3, <1>11 DEF MovesIn
  <2> QED BY <1>6, <1>9, <1>11, <2>1
<1>12. CASE /\ r.manifest.status # "initializing" /\ Verdict(f, r.manifest.items[f]) = "move"
            /\ Succeeds /\ UNCHANGED root
            /\ Goes(p, [r EXCEPT !.at = "linking", !.item = f, !.todo = @ \ {f}])
  <2>1. Careful => Under(f) = "pending"
    BY <1>3, <1>12 DEF MovesIn, Under, Verdict
  <2>2. Out(f)'
    BY <1>1, <1>12 DEF Out, Verdict
  <2> QED BY <1>6, <1>9, <1>10, <1>12, <2>1, <2>2
<1>13. CASE /\ r.manifest.status # "initializing" /\ Verdict(f, r.manifest.items[f]) = "moved"
            /\ Succeeds /\ UNCHANGED root
            /\ Goes(p, [r EXCEPT !.at = "noting", !.item = f, !.todo = @ \ {f}])
  <2>1. In(f)'
    BY <1>1, <1>13 DEF In, Verdict
  <2> QED BY <1>6, <1>9, <1>10, <1>13, <2>1
<1>14. CASE /\ r.manifest.status # "initializing" /\ Verdict(f, r.manifest.items[f]) = "complete"
            /\ Succeeds /\ root' = [root EXCEPT ![f] = 0]
            /\ Goes(p, [r EXCEPT !.at = "noting", !.item = f, !.todo = @ \ {f}])
  <2>1. Both(f)
    BY <1>14 DEF Both, Verdict, SameInode
  <2>2. Careful => Disk' /\ In(f)' /\ Settled' /\ \A g \in Files : g # f => root'[g] = root[g]
    BY <1>1, <1>2, <1>3, <1>4, <1>8, <1>14, <2>1, RootUnlinked
  <2> QED BY <1>6, <1>10, <1>14, <2>2
<1> QED BY <1>5, <1>7, <1>11, <1>12, <1>13, <1>14

LEMMA NotesItemInv ==
  ASSUME BundleInv, NEW p \in Procs, NotesItem(p)
  PROVE  BundleInv'
<1> DEFINE r == run[p]
           m == [r.manifest EXCEPT !.items[r.item] = "moved"]
           q == [r EXCEPT !.at = "moving", !.manifest = m]
<1>1. r.at = "noting" /\ UNCHANGED <<lockVars, root, entry, ghostVars, deaths>> /\ (Succeeds \/ Fails)
  BY DEF NotesItem, Writes
<1>2. TypeOK /\ r \in Run /\ Works(r) /\ ~Restoring(r) /\ failures' \in Nat
  BY <1>1, FailsType DEF BundleInv, TypeOK, Works, Restoring
<1>3. Careful => Disk /\ Settled /\ MovesIn(r) /\ InHand(r) = {r.item}
  BY <1>1, <1>2, WorkFacts DEF Phase, InHand
<1>4. UNCHANGED <<meddled, unfinished>>
  BY <1>1 DEF ghostVars
<1>5. CASE UNCHANGED manifest /\ Refuses(p)
  BY <1>1, <1>2, <1>5, RefusesInv
<1>6. CASE manifest' = m /\ Goes(p, q)
  <2>1. /\ m \in Manifest /\ m.status = r.manifest.status
        /\ \A g \in Files : m.items[g] = IF g = r.item THEN "moved" ELSE r.manifest.items[g]
    BY <1>2, RunFields DEF Manifest
  <2>2. /\ q \in Run /\ q.at = "moving" /\ q.task = r.task /\ q.way = r.way
        /\ q.manifest = m /\ q.todo = r.todo
    BY <1>2, <2>1 DEF Run
  <2> HIDE DEF q, m
  <2>3. /\ run' \in [Procs -> Run] /\ run'[p] = q
        /\ \A x \in Procs : x # p => run'[x] = run[x]
    BY <1>2, <1>6, <2>2, GoesType
  <2>4. DiskTypes'
    BY <1>1, <1>2, <1>4, <1>6, <2>1 DEF TypeOK, DiskTypes
  <2>5. ASSUME Careful PROVE Disk' /\ Settled' /\ MovesIn(run[p])'
    <3>1. /\ manifest.status = "incomplete" /\ manifest'.status = "incomplete"
          /\ r.item \in Files /\ Under(r.item) # "unlisted" /\ In(r.item) /\ r.item \notin r.todo
          /\ \A g \in Files : Under(g)' = IF g = r.item THEN "moved" ELSE Under(g)
      BY <1>1, <1>2, <1>3, <1>6, <2>1, <2>5, RunFields DEF MovesIn, Listed, Under
    <3>2. Disk
      BY <1>3, <2>5
    <3>3. EntryKept'
      BY <1>1, <3>1, <3>2 DEF Disk, EntryKept, NoFiles
    <3>4. AllMoved' /\ (OnlyListed => OnlyListed') /\ (OneInode => OneInode')
      BY <1>1, <3>1 DEF AllMoved, OnlyListed, OneInode
    <3>5. Disk' /\ Settled'
      BY <1>1, <1>3, <1>4, <2>5, <3>1, <3>2, <3>3, <3>4 DEF Disk, Settled, In, OriginalKept, Unmixed
    <3>6. InHand(run[p])' = {}
      BY <2>2, <2>3 DEF InHand
    <3>7. \A g \in Files : Under(g)' # "unlisted" /\ g \notin run'[p].todo =>
            Under(g)' = "moved" /\ In(g)'
      BY <1>1, <1>3, <2>2, <2>3, <2>5, <3>1 DEF MovesIn, In
    <3>8. run'[p].todo \subseteq Listed(manifest.items)'
      BY <1>3, <2>2, <2>3, <2>5, <3>1 DEF MovesIn, Listed, Under
    <3> QED BY <1>3, <1>6, <2>2, <2>3, <2>5, <3>1, <3>5, <3>6, <3>7, <3>8 DEF MovesIn
  <2>6. Careful => Phase(run[p])'
    BY <2>2, <2>3, <2>5 DEF Phase
  <2> QED BY <1>1, <1>2, <2>2, <2>3, <2>4, <2>5, <2>6, WorkStep DEF Works, Fresh
<1> QED BY <1>5, <1>6 DEF NotesItem, Writes

LEMMA BeginsFreshInv ==
  ASSUME BundleInv, NEW p \in Procs, BeginsFresh(p)
  PROVE  BundleInv'
<1> DEFINE r == run[p]
           m == [r.manifest EXCEPT !.status = "initializing"]
           q == [r EXCEPT !.at = "creating", !.manifest = m]
<1>1. /\ r.at = "moving" /\ r.todo = {} /\ UNCHANGED <<lockVars, root, entry, ghostVars, deaths>>
      /\ Succeeds \/ Fails
  BY DEF BeginsFresh, Writes
<1>2. TypeOK /\ r \in Run /\ Works(r) /\ ~Restoring(r) /\ failures' \in Nat
  BY <1>1, FailsType DEF BundleInv, TypeOK, Works, Restoring
<1>3. Careful => Disk /\ MovesIn(r) /\ InHand(r) = {}
  BY <1>1, <1>2, WorkFacts DEF Phase, InHand
<1>4. UNCHANGED <<meddled, unfinished>>
  BY <1>1 DEF ghostVars
<1>5. CASE UNCHANGED manifest /\ Refuses(p)
  BY <1>1, <1>2, <1>5, RefusesInv
<1>6. CASE manifest' = m /\ Goes(p, q)
  <2>1. m \in Manifest /\ m.status = "initializing" /\ m.items = r.manifest.items
    BY <1>2, RunFields DEF Manifest
  <2>2. q \in Run /\ q.at = "creating" /\ q.task = r.task /\ q.manifest = m
    BY <1>2, <2>1 DEF Run
  <2> HIDE DEF q, m
  <2>3. /\ run' \in [Procs -> Run] /\ run'[p] = q
        /\ \A x \in Procs : x # p => run'[x] = run[x]
    BY <1>2, <1>6, <2>2, GoesType
  <2>4. DiskTypes'
    BY <1>1, <1>2, <1>4, <1>6, <2>1 DEF TypeOK, DiskTypes
  <2>5. ASSUME Careful PROVE Disk' /\ Settled' /\ Freshens(run[p])'
    <3>1. /\ manifest'.status = "initializing"
          /\ manifest.status \in {"incomplete", "initializing"}
          /\ \A g \in Files : Under(g)' = Under(g)
      BY <1>3, <1>6, <2>1, <2>5 DEF MovesIn, Under
    <3>2. Disk /\ MovesIn(r) /\ InHand(r) = {}
      BY <1>3, <2>5
    <3>3. EntryKept'
      BY <1>1, <3>1, <3>2 DEF Disk, EntryKept, NoFiles
    <3>4. AllMoved'
      <4>1. CASE manifest.status = "incomplete"
        BY <1>1, <3>1, <3>2, <4>1 DEF MovesIn, In, AllMoved
      <4>2. CASE manifest.status = "initializing"
        BY <1>1, <3>1, <3>2, <4>2 DEF Disk, AllMoved
      <4> QED BY <3>1, <4>1, <4>2
    <3>5. OnlyListed => OnlyListed'
      BY <1>1, <3>1 DEF OnlyListed
    <3>6. Disk' /\ Settled'
      BY <1>1, <1>4, <3>1, <3>2, <3>3, <3>4, <3>5
         DEF Disk, Settled, OriginalKept, Unmixed, OneInode
    <3> QED BY <1>6, <2>2, <2>3, <3>1, <3>2, <3>6 DEF Freshens, MovesIn
  <2>6. Careful => Phase(run[p])'
    BY <2>2, <2>3, <2>5 DEF Phase
  <2> QED BY <1>1, <1>2, <2>2, <2>3, <2>4, <2>5, <2>6, WorkStep DEF Works, Fresh
<1> QED BY <1>5, <1>6 DEF BeginsFresh, Writes

LEMMA CreatesFreshInv ==
  ASSUME BundleInv, NEW p \in Procs, CreatesFresh(p)
  PROVE  BundleInv'
<1> DEFINE r == run[p]
<1>1. r.at = "creating" /\ UNCHANGED <<lockVars, entry, manifest, ghostVars, deaths>>
      /\ (Succeeds \/ Fails)
  BY DEF CreatesFresh
<1>2. TypeOK /\ r \in Run /\ Works(r) /\ ~Restoring(r) /\ failures' \in Nat
  BY <1>1, FailsType DEF BundleInv, TypeOK, Works, Restoring
<1>3. Careful => Disk /\ Settled /\ Freshens(r)
  BY <1>1, <1>2, WorkFacts DEF Phase
<1>4. UNCHANGED <<meddled, unfinished>>
  BY <1>1 DEF ghostVars
<1>5. CASE UNCHANGED root /\ Refuses(p)
  BY <1>1, <1>2, <1>5, RefusesInv
<1>6. CASE Missing = {} /\ At(p, "completing") /\ UNCHANGED root
  <2>1. /\ run' \in [Procs -> Run] /\ run'[p] = [r EXCEPT !.at = "completing"]
        /\ \A q \in Procs : q # p => run'[q] = run[q]
    BY <1>2, <1>6, AtType
  <2>2. run'[p].at = "completing" /\ run'[p].task = r.task /\ run'[p].manifest = r.manifest
    BY <1>2, <2>1 DEF Run
  <2>3. DiskTypes'
    BY <1>1, <1>2, <1>4, <1>6 DEF TypeOK, DiskTypes
  <2>4. ASSUME Careful PROVE Disk' /\ Settled' /\ Phase(run[p])'
    <3>1. Disk' /\ Settled'
      BY <1>1, <1>3, <1>4, <1>6, <2>4, SameDisk
    <3>2. Required \subseteq Present(root)'
      BY <1>6 DEF Missing, Present
    <3> QED BY <1>1, <1>3, <2>2, <2>4, <3>1, <3>2 DEF Phase, Freshens
  <2> QED BY <1>1, <1>2, <2>1, <2>2, <2>3, <2>4, WorkStep DEF Works, Fresh
<1>7. CASE (\E f \in Missing : root' = [root EXCEPT ![f] = NewFile(f)]) /\ UNCHANGED run
  <2>1. PICK f \in Missing : root' = [root EXCEPT ![f] = NewFile(f)]
    BY <1>7
  <2>2. f \in Required /\ f \in Files /\ root[f] = 0
    BY <2>1 DEF Missing, Present, Files
  <2>3. DiskTypes'
    BY <1>1, <1>2, <1>4, <2>1, <2>2, NewFileType DEF TypeOK, DiskTypes
  <2>4. ASSUME Careful PROVE Disk' /\ Settled' /\ Phase(run[p])'
    <3>1. manifest.status = "initializing"
      BY <1>3, <2>4 DEF Freshens
    <3>2. \A g \in Required : g \in Files /\ Under(g) # "unlisted"
      BY <1>3, <2>4, <3>1 DEF Disk, EntryKept, NoFiles, Files
    <3>3. \A g \in Required : entry[g] # 0 /\ root[g] # entry[g]
      BY <1>3, <2>4, <3>1, <3>2 DEF Disk, AllMoved
    <3>4. \A g \in Required : root[g] # 1
      BY <1>3, <2>4, <3>3 DEF Disk, OriginalKept
    <3>5. meddled' \in BOOLEAN /\ (meddled => meddled')
      BY <1>2, <1>4 DEF TypeOK
    <3>6. Disk' /\ Settled'
      BY <1>1, <1>2, <1>3, <1>4, <2>1, <2>2, <2>4, <3>1, <3>2, <3>4, <3>5, RootCreated
    <3> QED BY <1>1, <1>3, <1>7, <2>4, <3>6 DEF Phase, Freshens
  <2>5. run \in [Procs -> Run] /\ Fresh(run'[p])
    BY <1>2, <1>7 DEF TypeOK, BundleInv
  <2> QED BY <1>1, <1>2, <1>7, <2>3, <2>4, <2>5, WorkStep DEF Works
<1> QED BY <1>5, <1>6, <1>7 DEF CreatesFresh

LEMMA CompletesInv ==
  ASSUME BundleInv, NEW p \in Procs, Completes(p)
  PROVE  BundleInv'
<1> DEFINE r == run[p]
           m == [r.manifest EXCEPT !.status = "complete"]
<1>1. r.at = "completing" /\ UNCHANGED <<lockVars, root, entry, ghostVars, deaths>>
      /\ (Succeeds \/ Fails)
  BY DEF Completes
<1>2. TypeOK /\ r \in Run /\ Works(r) /\ ~Restoring(r) /\ failures' \in Nat
  BY <1>1, FailsType DEF BundleInv, TypeOK, Works, Restoring
<1>3. Careful => Disk /\ Freshens(r)
  BY <1>1, <1>2, WorkFacts DEF Phase
<1>4. UNCHANGED <<meddled, unfinished>>
  BY <1>1 DEF ghostVars
<1>5. CASE UNCHANGED manifest /\ Refuses(p)
  BY <1>1, <1>2, <1>5, RefusesInv
<1>6. CASE manifest' = m /\ Answers(p, "reinitialized")
  <2>1. m \in Manifest /\ m.status = "complete" /\ m.items = r.manifest.items
    BY <1>2, RunFields DEF Manifest
  <2> HIDE DEF m
  <2>2. /\ run' \in [Procs -> Run] /\ run'[p].at = "leaving"
        /\ \A q \in Procs : q # p => run'[q] = run[q]
    BY <1>2, <1>6, AnswersType
  <2>3. DiskTypes'
    BY <1>1, <1>2, <1>4, <1>6, <2>1 DEF TypeOK, DiskTypes
  <2>4. ASSUME Careful PROVE Disk' /\ Settled'
    <3>1. manifest.status = "initializing" /\ manifest'.status = "complete"
          /\ \A f \in Files : Under(f)' = Under(f)
      BY <1>3, <1>6, <2>1, <2>4 DEF Freshens, Under
    <3>2. EntryKept'
      BY <1>1, <1>3, <2>4, <3>1 DEF Disk, EntryKept, NoFiles
    <3> QED BY <1>1, <1>3, <1>4, <2>4, <3>1, <3>2
            DEF Disk, OriginalKept, AllMoved, Unmixed, OnlyListed, OneInode, Settled
  <2> QED BY <1>1, <1>2, <2>2, <2>3, <2>4, WorkStep DEF Works, Fresh
<1> QED BY <1>5, <1>6 DEF Completes

-----------------------------------------------------------------------------
(* rollback, its moves apart.                                              *)

LEMMA ScansToRestoreInv ==
  ASSUME BundleInv, NEW p \in Procs, ScansToRestore(p)
  PROVE  BundleInv'
<1> DEFINE r == run[p]
           q == [r EXCEPT !.at = "restoring", !.manifest = manifest,
                          !.todo = Listed(manifest.items), !.way = "out"]
<1>1. /\ r.at = "scanning" /\ r.task = "rollback"
      /\ UNCHANGED <<lockVars, diskVars, ghostVars, boundVars>>
  BY DEF ScansToRestore
<1>2. TypeOK /\ r \in Run /\ Works(r) /\ ~Restoring(r) /\ r.done = {}
  BY <1>1 DEF BundleInv, TypeOK, Works, Restoring, Fresh
<1>3. Careful => Disk
  BY <1>2, WorkFacts
<1>4. UNCHANGED <<root, entry, manifest, meddled, unfinished, deaths, failures>>
  BY <1>1 DEF diskVars, ghostVars, boundVars
<1>5. CASE Refuses(p)
  <2>1. failures' \in Nat /\ UNCHANGED ghostVars
    BY <1>1, <1>2, <1>4 DEF TypeOK
  <2> QED BY <1>1, <1>2, <1>4, <1>5, <2>1, RefusesInv
<1>6. CASE Restores(manifest) /\ Goes(p, q)
  <2>1. /\ q \in Run /\ q.at = "restoring" /\ q.task = r.task /\ q.way = "out"
        /\ q.manifest = manifest /\ q.todo = Listed(manifest.items) /\ q.done = {}
    BY <1>2, ManifestTypes DEF Run, TypeOK
  <2> HIDE DEF q
  <2>2. /\ run' \in [Procs -> Run] /\ run'[p] = q
        /\ \A x \in Procs : x # p => run'[x] = run[x]
    BY <1>2, <1>6, <2>1, GoesType
  <2>3. DiskTypes'
    BY <1>2, <1>4 DEF TypeOK, DiskTypes
  <2>4. ASSUME Careful PROVE Disk' /\ Phase(run[p])'
    <3>1. manifest.status \in {"incomplete", "complete"} /\ ~NoFiles
      BY <1>6 DEF Restores, NoFiles
    <3>2. \A f \in Listed(manifest.items) : f \in Files /\ In(f)
      BY <1>6 DEF Restores, Listed, Present, In
    <3>3. \A f \in Files : Under(f) = "unlisted" => root[f] = 0
      BY <1>6 DEF Restores, Unlisted, Listed, Under, Present
    <3>4. \A f \in Required : root[f] = 0
      BY <1>3, <2>4, <3>1, <3>2 DEF Disk, EntryKept, Listed, Under, Files, In
    <3>5. InHand(run[p])' = {}
      BY <2>1, <2>2 DEF InHand
    <3>6. \A f \in Files : Under(f)' = Under(f) /\ In(f)' = In(f)
      BY <1>4 DEF Under, In
    <3>7. MovesOut(run[p])'
      BY <1>1, <1>4, <2>1, <2>2, <3>1, <3>2, <3>3, <3>4, <3>5, <3>6 DEF MovesOut
    <3>8. Disk'
      BY <1>3, <1>4, <2>4, SameDisk
    <3> QED BY <2>1, <2>2, <3>7, <3>8 DEF Phase
  <2>5. Restoring(run'[p]) /\ Fresh(run'[p])
    BY <1>1, <2>1, <2>2 DEF Restoring, Fresh
  <2> QED BY <1>1, <1>2, <2>1, <2>2, <2>3, <2>4, <2>5, WorkStep
<1> QED BY <1>5, <1>6 DEF ScansToRestore

LEMMA RestoresItemInv ==
  ASSUME BundleInv, NEW p \in Procs, RestoresItem(p)
  PROVE  BundleInv'
<1> DEFINE r == run[p]
<1>1. r.at = "restoring" /\ UNCHANGED <<lockVars, diskVars, ghostVars, boundVars>>
  BY DEF RestoresItem
<1>2. TypeOK /\ r \in Run /\ Works(r) /\ InHand(r) = {}
  BY <1>1 DEF BundleInv, TypeOK, Works, InHand
<1>3. Careful => Disk /\ MovesOut(r)
  BY <1>1, <1>2, WorkFacts DEF Phase
<1>4. UNCHANGED <<root, entry, manifest, meddled, unfinished, deaths, failures>>
  BY <1>1 DEF diskVars, ghostVars, boundVars
<1>5. PICK f \in r.todo : Goes(p, [r EXCEPT !.at = "linking", !.item = f, !.todo = @ \ {f}])
  BY DEF RestoresItem
<1>6. /\ run' \in [Procs -> Run] /\ \A x \in Procs : x # p => run'[x] = run[x]
      /\ run'[p].at = "linking" /\ run'[p].task = r.task /\ run'[p].way = r.way
      /\ run'[p].manifest = r.manifest /\ run'[p].done = r.done
      /\ run'[p].item = f /\ run'[p].todo = r.todo \ {f}
  BY <1>2, <1>5, VisitType
<1>7. DiskTypes'
  BY <1>2, <1>4 DEF TypeOK, DiskTypes
<1>8. ASSUME Careful PROVE Disk' /\ MovesOut(run[p])'
  <2>1. MovesOut(r) /\ r.way = "out" /\ In(f)
    BY <1>1, <1>3, <1>8 DEF MovesOut
  <2>2. InHand(run[p])' = {f}
    BY <1>6 DEF InHand
  <2>3. \A g \in Files : Under(g)' = Under(g) /\ In(g)' = In(g) /\ Out(g)' = Out(g)
    BY <1>4 DEF Under, In, Out
  <2>4. r.todo \subseteq Files /\ r.done \subseteq Files /\ f \in Files
    BY <1>2, RunFields
  <2>5. f \in Listed(manifest.items) /\ f \notin r.done
    BY <1>2, <2>1 DEF MovesOut
  <2>6. MovesOut(run[p])'
    BY <1>2, <1>4, <1>6, <2>1, <2>2, <2>3, <2>4, <2>5 DEF MovesOut
  <2> QED BY <1>3, <1>4, <1>8, <2>6, SameDisk
<1>9. Careful => Phase(run[p])' /\ Restoring(run'[p])
  BY <1>3, <1>6, <1>8 DEF Phase, MovesOut, Restoring
<1> QED BY <1>1, <1>2, <1>6, <1>7, <1>8, <1>9, WorkStep DEF Fresh

LEMMA RestoredInv ==
  ASSUME BundleInv, NEW p \in Procs, Restored(p)
  PROVE  BundleInv'
<1> DEFINE r == run[p]
<1>1. /\ r.at = "restoring" /\ r.todo = {} /\ Answers(p, "rolled-back")
      /\ UNCHANGED <<lockVars, root, entry, meddled, deaths>> /\ (Succeeds \/ Fails)
  BY DEF Restored
<1>2. TypeOK /\ r \in Run /\ Works(r) /\ InHand(r) = {} /\ failures' \in Nat
  BY <1>1, FailsType DEF BundleInv, TypeOK, Works, InHand
<1>3. Careful => Disk /\ MovesOut(r)
  BY <1>1, <1>2, WorkFacts DEF Phase
<1>4. CASE UNCHANGED manifest /\ unfinished' = TRUE
  <2>1. unfinished' \in BOOLEAN /\ Settled'
    BY <1>4 DEF Settled
  <2> QED BY <1>1, <1>2, <1>4, <2>1, LeavesInv
<1>5. CASE manifest' = Discarded(entry, manifest) /\ UNCHANGED unfinished
  <2>1. /\ run' \in [Procs -> Run] /\ run'[p].at = "leaving"
        /\ \A q \in Procs : q # p => run'[q] = run[q]
    BY <1>1, <1>2, AnswersType
  <2>2. DiskTypes'
    BY <1>1, <1>2, <1>5, ManifestTypes DEF TypeOK, DiskTypes
  <2>3. ASSUME Careful PROVE Disk' /\ Settled'
    <3>1. Disk /\ MovesOut(r) /\ r.way = "out"
      BY <1>1, <1>3, <2>3 DEF MovesOut
    <3>2. \A f \in Files : Under(f) # "unlisted" => f \in r.done
      BY <1>1, <1>2, <3>1 DEF MovesOut, Listed, Under
    <3>3. \A f \in Files : entry[f] = 0
      BY <3>1, <3>2 DEF MovesOut, Out, Disk, EntryKept
    <3>4. manifest'.status = "none"
      BY <1>5, <3>3 DEF Discarded, NoEntry
    <3> QED BY <1>1, <3>1, <3>3, <3>4
            DEF Disk, EntryKept, NoFiles, OriginalKept, AllMoved, Unmixed, OnlyListed, OneInode, Settled
  <2> QED BY <1>1, <1>2, <2>1, <2>2, <2>3, WorkStep DEF Works, Fresh
<1> QED BY <1>4, <1>5 DEF Restored

LEMMA UndoesItemInv ==
  ASSUME BundleInv, NEW p \in Procs, UndoesItem(p)
  PROVE  BundleInv'
<1> DEFINE r == run[p]
<1>1. r.at = "undoing" /\ UNCHANGED <<lockVars, diskVars, ghostVars, boundVars>>
  BY DEF UndoesItem
<1>2. TypeOK /\ r \in Run /\ Works(r) /\ InHand(r) = {}
  BY <1>1 DEF BundleInv, TypeOK, Works, InHand
<1>3. Careful => Disk /\ MovesOut(r) /\ r.way # "out"
  BY <1>1, <1>2, WorkFacts DEF Phase, MovesOut
<1>4. UNCHANGED <<root, entry, manifest, meddled, unfinished, deaths, failures>>
  BY <1>1 DEF diskVars, ghostVars, boundVars
<1>5. CASE r.done = {} /\ Refuses(p)
  <2>1. ASSUME Careful PROVE Settled
    <3>1. unfinished \/ \A f \in Files : Under(f) # "unlisted" => entry[f] # 0
      BY <1>2, <1>3, <1>5, <2>1 DEF MovesOut, Listed, Under
    <3> QED BY <3>1 DEF Settled
  <2>2. Careful => Settled'
    BY <1>4, <2>1, SameDisk
  <2>3. unfinished' \in BOOLEAN /\ failures' \in Nat
    BY <1>2, <1>4 DEF TypeOK
  <2> QED BY <1>1, <1>2, <1>4, <1>5, <2>2, <2>3, LeavesInv DEF Refuses
<1>6. ASSUME NEW f \in r.done, Goes(p, [r EXCEPT !.at = "linking", !.item = f, !.done = @ \ {f}])
      PROVE  BundleInv'
  <2> DEFINE q == [r EXCEPT !.at = "linking", !.item = f, !.done = @ \ {f}]
  <2>1. /\ q \in Run /\ q.at = "linking" /\ q.task = r.task /\ q.way = r.way
        /\ q.manifest = r.manifest /\ q.done = r.done \ {f} /\ q.item = f
    BY <1>2 DEF Run
  <2> HIDE DEF q
  <2>2. run' \in [Procs -> Run] /\ run'[p] = q /\ \A x \in Procs : x # p => run'[x] = run[x]
    BY <1>2, <1>6, <2>1, GoesType DEF q
  <2>3. DiskTypes'
    BY <1>2, <1>4 DEF TypeOK, DiskTypes
  <2>4. ASSUME Careful PROVE Disk' /\ MovesOut(run[p])'
    <3>1. InHand(run[p])' = {f}
      BY <2>1, <2>2 DEF InHand
    <3>2. \A g \in Files : Under(g)' = Under(g) /\ In(g)' = In(g) /\ Out(g)' = Out(g)
      BY <1>4 DEF Under, In, Out
    <3>3. r.done \subseteq Files /\ f \in Files
      BY <1>2, RunFields
    <3>4. Under(f) # "unlisted" /\ Out(f) /\ f \in Listed(manifest.items)
      BY <1>3, <2>4, <3>3 DEF MovesOut, Listed, Under
    <3>5. \A g \in Listed(manifest.items) \ (q.done \cup {f}) : g \notin r.done
      BY <2>1
    <3>6. MovesOut(run[p])'
      BY <1>2, <1>3, <1>4, <2>1, <2>2, <2>4, <3>1, <3>2, <3>3, <3>4, <3>5 DEF MovesOut
    <3> QED BY <1>3, <1>4, <2>4, <3>6, SameDisk
  <2>5. Careful => Phase(run[p])' /\ Restoring(run'[p])
    BY <1>3, <2>1, <2>2, <2>4 DEF Phase, MovesOut, Restoring
  <2> QED BY <1>1, <1>2, <2>1, <2>2, <2>3, <2>4, <2>5, WorkStep DEF Fresh
<1> QED BY <1>5, <1>6 DEF UndoesItem

-----------------------------------------------------------------------------
(* A move.                                                                 *)

\* A failed move of a reinitialize: the entry stays, or it is given up with
\* the last file that was linked into it.
LEMMA DiscardsInv ==
  ASSUME BundleInv, NEW p \in Procs, Works(run[p]), ~Restoring(run[p]), Refuses(p),
         UNCHANGED <<lockVars, root, meddled, unfinished, deaths>>, failures' \in Nat,
         manifest' = Discarded(entry', manifest), entry' \in [Files -> Nat],
         NEW f \in Files,
         Careful => \/ entry' = entry
                    \/ /\ Both(f) /\ Under(f) = "pending" /\ manifest.status = "incomplete"
                       /\ entry' = [entry EXCEPT ![f] = 0]
  PROVE  BundleInv'
<1>1. TypeOK
  BY DEF BundleInv
<1>2. /\ run' \in [Procs -> Run] /\ run'[p].at = "leaving"
      /\ \A q \in Procs : q # p => run'[q] = run[q]
  BY <1>1, AnswersType DEF Refuses
<1>3. DiskTypes'
  BY <1>1, ManifestTypes DEF TypeOK, DiskTypes
<1>4. ASSUME Careful PROVE Disk' /\ Settled'
  <2>1. Disk /\ Settled
    BY <1>4, WorkFacts
  <2>2. CASE \A g \in Files : entry'[g] = 0
    <3>1. manifest'.status = "none"
      BY <2>2 DEF Discarded, NoEntry
    <3>2. \A g \in Files : entry[g] # 0 => Both(g)
      BY <1>1, <1>4, <2>2 DEF TypeOK
    <3>3. OriginalKept'
      BY <2>1, <2>2, <3>2 DEF Disk, OriginalKept, Both, Files
    <3> QED BY <2>1, <2>2, <3>1, <3>3
            DEF Disk, EntryKept, NoFiles, AllMoved, Unmixed, OnlyListed, OneInode, Settled
  <2>3. CASE ~(\A g \in Files : entry'[g] = 0)
    <3>1. manifest' = manifest
      BY <2>3 DEF Discarded
    <3>2. CASE entry' = entry
      BY <2>1, <3>1, <3>2, SameDisk
    <3>3. CASE /\ Both(f) /\ Under(f) = "pending" /\ manifest.status = "incomplete"
               /\ entry' = [entry EXCEPT ![f] = 0]
      <4>1. Disk' /\ \A g \in Files : g # f => entry'[g] = entry[g]
        BY <1>1, <2>1, <3>1, <3>3, EntryUnlinked
      <4> QED BY <2>1, <3>1, <3>3, <4>1 DEF Settled, Under
    <3> QED BY <1>4, <3>2, <3>3
  <2> QED BY <2>2, <2>3
<1> QED BY <1>2, <1>3, <1>4, WorkStep DEF Works, Fresh

\* A failed move of a rollback: what went through is taken back.
LEMMA TakesBackInv ==
  ASSUME BundleInv, NEW p \in Procs, run[p].at \in {"linking", "unlinking"},
         Goes(p, [run[p] EXCEPT !.at = "undoing", !.way = "in"]),
         unfinished' = (unfinished \/ run[p].way = "in"),
         UNCHANGED <<lockVars, manifest, meddled, deaths>>, failures' \in Nat,
         root' \in [Files -> Nat], entry' \in [Files -> Nat],
         Careful => /\ MovesOut(run[p]) /\ Disk'
                    /\ \A g \in Files : g # run[p].item => root'[g] = root[g] /\ entry'[g] = entry[g]
                    /\ root'[run[p].item] \in {0, root[run[p].item]}
                    /\ run[p].way = "out" => entry'[run[p].item] # 0
  PROVE  BundleInv'
<1> DEFINE r == run[p]
           q == [r EXCEPT !.at = "undoing", !.way = "in"]
<1>1. TypeOK /\ r \in Run /\ Works(r) /\ InHand(r) = {r.item}
  BY DEF BundleInv, TypeOK, Works, InHand
<1>2. /\ q \in Run /\ q.at = "undoing" /\ q.task = r.task /\ q.way = "in"
      /\ q.manifest = r.manifest /\ q.done = r.done
  BY <1>1 DEF Run
<1> HIDE DEF q
<1>3. run' \in [Procs -> Run] /\ run'[p] = q /\ \A x \in Procs : x # p => run'[x] = run[x]
  BY <1>1, <1>2, GoesType DEF q
<1>4. DiskTypes'
  BY <1>1 DEF TypeOK, DiskTypes
<1>5. ASSUME Careful PROVE MovesOut(run[p])'
  <2>1. MovesOut(r) /\ r.item \notin r.done /\ r.item \in Listed(manifest.items)
    BY <1>1, <1>5 DEF MovesOut
  <2>2. InHand(run[p])' = {}
    BY <1>2, <1>3 DEF InHand
  <2>3. /\ \A g \in Files : Under(g)' = Under(g)
        /\ \A g \in Files : g # r.item => In(g)' = In(g) /\ Out(g)' = Out(g)
    BY <1>5 DEF Under, In, Out
  <2>4. r.done \subseteq Files /\ r.item \in Files
    BY <1>1, RunFields
  <2>5. \A g \in r.done : Under(g)' # "unlisted" /\ Out(g)'
    BY <2>1, <2>3, <2>4 DEF MovesOut
  <2>6. \A g \in Required : g \in Files /\ root'[g] # 2
    BY <1>5, <2>1 DEF MovesOut, Files
  <2>7. \A g \in Files : Under(g) = "unlisted" => root'[g] = 0
    BY <1>5, <2>1 DEF MovesOut, Listed, Under
  <2>8. unfinished' \/ \A g \in Listed(manifest.items) \ r.done : entry'[g] # 0
    <3>1. CASE r.way = "in"
      BY <3>1
    <3>2. CASE r.way = "out"
      <4>1. \A g \in Listed(manifest.items) \ r.done : g = r.item \/ (g \in r.todo /\ g # r.item)
        BY <1>1, <2>1, <3>2 DEF MovesOut
      <4>2. r.todo \subseteq Files /\ \A g \in r.todo : In(g)
        BY <1>1, <2>1, <3>2, RunFields DEF MovesOut
      <4> QED BY <1>5, <3>2, <4>1, <4>2 DEF In
    <3> QED BY <1>1, <3>1, <3>2, RunFields
  <2> QED BY <1>2, <1>3, <2>1, <2>2, <2>3, <2>5, <2>6, <2>7, <2>8 DEF MovesOut
<1>6. Careful => Phase(run[p])' /\ Restoring(run'[p])
  BY <1>2, <1>3, <1>5 DEF Phase, MovesOut, Restoring
<1> QED BY <1>1, <1>2, <1>3, <1>4, <1>5, <1>6, WorkStep DEF Fresh

LEMMA MoveFacts ==
  ASSUME BundleInv, NEW p \in Procs, run[p].at \in {"linking", "unlinking"}
  PROVE  /\ TypeOK /\ run[p] \in Run /\ Works(run[p]) /\ run[p].item \in Files
         /\ InHand(run[p]) = {run[p].item} /\ run[p].way \in {"in", "out"}
         /\ run[p].task = "reinitialize" => ~Restoring(run[p])
         /\ Careful => /\ Disk /\ Under(run[p].item) # "unlisted" /\ run[p].manifest = manifest
                       /\ \/ /\ run[p].task = "reinitialize" /\ MovesIn(run[p]) /\ Settled
                             /\ manifest.status = "incomplete" /\ run[p].way = "in"
                             /\ Under(run[p].item) = "pending"
                          \/ /\ run[p].task = "rollback" /\ MovesOut(run[p])
                             /\ manifest.status \in {"incomplete", "complete"}
                       /\ run[p].at = "linking" => IF run[p].way = "in" THEN Out(run[p].item)
                                                                      ELSE In(run[p].item)
                       /\ run[p].at = "unlinking" => Both(run[p].item)
<1> DEFINE r == run[p]
<1>1. /\ TypeOK /\ r \in Run /\ Works(r) /\ r.item \in Files
      /\ InHand(r) = {r.item} /\ r.way \in {"in", "out"}
      /\ r.task = "reinitialize" => ~Restoring(r)
  BY RunFields DEF BundleInv, TypeOK, Works, InHand, Restoring
<1>2. ASSUME Careful
      PROVE  /\ Disk /\ Under(r.item) # "unlisted" /\ r.manifest = manifest
             /\ \/ /\ r.task = "reinitialize" /\ MovesIn(r) /\ Settled
                   /\ manifest.status = "incomplete" /\ r.way = "in" /\ Under(r.item) = "pending"
                \/ /\ r.task = "rollback" /\ MovesOut(r)
                   /\ manifest.status \in {"incomplete", "complete"}
             /\ r.at = "linking" => IF r.way = "in" THEN Out(r.item) ELSE In(r.item)
             /\ r.at = "unlinking" => Both(r.item)
  <2>1. Disk /\ (MovesIn(r) \/ MovesOut(r))
    BY <1>1, <1>2, WorkFacts DEF Phase
  <2>2. CASE MovesIn(r)
    <3>1. Settled
      BY <1>1, <1>2, <2>2, WorkFacts DEF MovesIn
    <3> QED BY <1>1, <2>1, <2>2, <3>1 DEF MovesIn, Listed, Under
  <2>3. CASE MovesOut(r)
    BY <1>1, <2>1, <2>3 DEF MovesOut, Listed, Under
  <2> QED BY <2>1, <2>2, <2>3
<1> QED BY <1>1, <1>2

LEMMA LinksInv ==
  ASSUME BundleInv, NEW p \in Procs, Links(p)
  PROVE  BundleInv'
<1> DEFINE r == run[p]
<1>0. PICK f \in Files : f = r.item
  BY MoveFacts DEF Links
<1>1. /\ r.at = "linking" /\ UNCHANGED <<lockVars, meddled, deaths>> /\ (Succeeds \/ Fails)
  BY DEF Links
<1>2. /\ TypeOK /\ r \in Run /\ Works(r) /\ f \in Files /\ failures' \in Nat
      /\ f = r.item /\ InHand(r) = {f} /\ r.way \in {"in", "out"}
      /\ r.task = "reinitialize" => ~Restoring(r)
  BY <1>0, <1>1, FailsType, MoveFacts
<1>3. Careful => /\ Disk /\ Under(f) # "unlisted" /\ r.manifest = manifest
                 /\ \/ /\ r.task = "reinitialize" /\ MovesIn(r) /\ Settled
                       /\ manifest.status = "incomplete" /\ r.way = "in" /\ Under(f) = "pending"
                    \/ /\ r.task = "rollback" /\ MovesOut(r)
                       /\ manifest.status \in {"incomplete", "complete"}
                 /\ IF r.way = "in" THEN Out(f) ELSE In(f)
  BY <1>0, <1>1, MoveFacts
<1>4. CASE UNCHANGED <<root, entry>> /\ MoveFails(p, entry)
  <2>1. root' \in [Files -> Nat] /\ entry' \in [Files -> Nat]
    BY <1>2, <1>4 DEF TypeOK
  <2>2. CASE r.task = "reinitialize"
    BY <1>1, <1>2, <1>4, <2>1, <2>2, DiscardsInv DEF MoveFails
  <2>3. CASE r.task # "reinitialize"
    <3>1. /\ Goes(p, [r EXCEPT !.at = "undoing", !.way = "in"]) /\ UNCHANGED manifest
          /\ unfinished' = (unfinished \/ r.way = "in")
      BY <1>4, <2>3 DEF MoveFails
    <3>2. ASSUME Careful
          PROVE  MovesOut(r) /\ Disk' /\ (r.way = "out" => entry'[f] # 0)
      BY <1>1, <1>3, <1>4, <2>3, <3>1, <3>2, SameDisk DEF In
    <3> QED BY <1>1, <1>2, <1>4, <2>1, <3>1, <3>2, TakesBackInv, <1>0
  <2> QED BY <2>2, <2>3
<1>5. CASE /\ SetsTarget(p, Source(p)) /\ At(p, "unlinking") /\ UNCHANGED <<manifest, unfinished>>
  <2>1. /\ run' \in [Procs -> Run] /\ run'[p] = [r EXCEPT !.at = "unlinking"]
        /\ \A q \in Procs : q # p => run'[q] = run[q]
    BY <1>2, <1>5, AtType
  <2>2. /\ run'[p].at = "unlinking" /\ run'[p].task = r.task /\ run'[p].way = r.way
        /\ run'[p].manifest = r.manifest /\ run'[p].todo = r.todo /\ run'[p].done = r.done
        /\ run'[p].item = f /\ InHand(run[p])' = {f}
    BY <1>2, <2>1 DEF Run, InHand
  <2>3. \/ r.way = "in" /\ entry' = [entry EXCEPT ![f] = root[f]] /\ UNCHANGED root
        \/ r.way = "out" /\ root' = [root EXCEPT ![f] = entry[f]] /\ UNCHANGED entry
    BY <1>2, <1>5 DEF SetsTarget, Source
  <2>4. DiskTypes'
    BY <1>1, <1>2, <1>5, <2>3 DEF TypeOK, DiskTypes
  <2>5. \A g \in Files : Under(g)' = Under(g)
    BY <1>5 DEF Under
  <2>6. ASSUME Careful, r.task = "reinitialize" PROVE Disk' /\ Settled' /\ MovesIn(run[p])'
    <3>1. /\ MovesIn(r) /\ Settled /\ manifest.status = "incomplete" /\ r.way = "in"
          /\ Under(f) = "pending" /\ Out(f)
      BY <1>3, <2>6
    <3>2. /\ Disk' /\ Both(f)'
          /\ \A g \in Files : g # f => entry'[g] = entry[g]
          /\ \A g \in Files : entry[g] # 0 => entry'[g] # 0
      BY <1>1, <1>2, <1>3, <1>5, <2>3, <2>6, <3>1, EntryLinked
    <3>3. Settled'
      BY <1>5, <2>5, <3>1, <3>2 DEF Settled
    <3>4. \A g \in Files : Under(g) # "unlisted" /\ g \notin r.todo \cup {f} =>
            Under(g) = "moved" /\ In(g)'
      BY <1>2, <2>3, <3>1, <3>2 DEF MovesIn, In
    <3> QED BY <1>2, <1>5, <2>2, <2>5, <3>1, <3>2, <3>3, <3>4 DEF MovesIn
  <2>7. ASSUME Careful, r.task # "reinitialize" PROVE Disk' /\ MovesOut(run[p])'
    <3>1. /\ MovesOut(r) /\ manifest.status \in {"incomplete", "complete"}
          /\ IF r.way = "in" THEN Out(f) ELSE In(f)
      BY <1>3, <2>7
    <3>2. r.done \subseteq Files /\ r.todo \subseteq Files /\ f \notin r.done /\ Required \subseteq Files
      BY <1>2, <3>1, RunFields DEF MovesOut, Files
    <3>3. CASE r.way = "in"
      <4>1. /\ Disk' /\ Both(f)' /\ UNCHANGED root
            /\ \A g \in Files : g # f => entry'[g] = entry[g]
            /\ \A g \in Files : entry[g] # 0 => entry'[g] # 0
        BY <1>1, <1>2, <1>3, <1>5, <2>3, <2>7, <3>1, <3>3, EntryLinked
      <4>2. \A g \in r.done : Under(g) # "unlisted" /\ Out(g)'
        BY <3>1, <3>2, <4>1 DEF MovesOut, Out
      <4>3. unfinished' \/ \A g \in Listed(manifest.items) \ (r.done \cup {f}) : entry'[g] # 0
        BY <1>2, <1>5, <3>1, <3>3, <4>1 DEF MovesOut, Listed
      <4> QED BY <1>2, <1>5, <2>2, <2>5, <3>1, <3>2, <3>3, <4>1, <4>2, <4>3 DEF MovesOut
    <3>4. CASE r.way = "out"
      <4>1. /\ Disk' /\ Both(f)' /\ UNCHANGED entry
            /\ \A g \in Files : g # f => root'[g] = root[g]
            /\ \A g \in Required : root'[g] # 2
        <5>1. \A g \in Required : root[g] # 2
          BY <3>1 DEF MovesOut
        <5> QED BY <1>1, <1>2, <1>3, <1>5, <2>3, <2>7, <3>1, <3>4, <5>1, RootLinked
      <4>2. \A g \in r.done : Under(g) # "unlisted" /\ Out(g)'
        BY <3>1, <3>2, <4>1 DEF MovesOut, Out
      <4>3. \A g \in r.todo : In(g)'
        BY <1>2, <3>1, <3>2, <3>4, <4>1 DEF MovesOut, In
      <4>4. \A g \in Files : Under(g) = "unlisted" => root'[g] = 0
        BY <1>3, <2>7, <3>1, <4>1 DEF MovesOut
      <4> QED BY <1>2, <1>5, <2>2, <2>5, <3>1, <3>2, <3>4, <4>1, <4>2, <4>3, <4>4 DEF MovesOut
    <3> QED BY <1>2, <3>3, <3>4
  <2>8. Careful => Phase(run[p])' /\ Disk' /\ (Restoring(run'[p]) \/ Settled')
    BY <1>3, <2>2, <2>6, <2>7 DEF Phase, Restoring
  <2> QED BY <1>1, <1>2, <2>1, <2>2, <2>4, <2>8, WorkStep DEF Works, Fresh
<1> QED BY <1>4, <1>5 DEF Links

LEMMA UnlinksInv ==
  ASSUME BundleInv, NEW p \in Procs, Unlinks(p)
  PROVE  BundleInv'
<1> DEFINE r == run[p]
<1>0. PICK f \in Files : f = r.item
  BY MoveFacts DEF Unlinks
<1>1. /\ r.at = "unlinking" /\ UNCHANGED <<lockVars, meddled, deaths>> /\ (Succeeds \/ Fails)
  BY DEF Unlinks
<1>2. /\ TypeOK /\ r \in Run /\ Works(r) /\ f \in Files /\ failures' \in Nat
      /\ f = r.item /\ InHand(r) = {f} /\ r.way \in {"in", "out"}
      /\ r.task = "reinitialize" => ~Restoring(r)
  BY <1>0, <1>1, FailsType, MoveFacts
<1>3. Careful => /\ Disk /\ Under(f) # "unlisted" /\ r.manifest = manifest /\ Both(f)
                 /\ \/ /\ r.task = "reinitialize" /\ MovesIn(r) /\ Settled
                       /\ manifest.status = "incomplete" /\ r.way = "in" /\ Under(f) = "pending"
                    \/ /\ r.task = "rollback" /\ MovesOut(r)
                       /\ manifest.status \in {"incomplete", "complete"}
  BY <1>0, <1>1, MoveFacts
<1>4. CASE UNCHANGED <<root, entry>> /\ MoveFails(p, entry)
  <2>1. root' \in [Files -> Nat] /\ entry' \in [Files -> Nat]
    BY <1>2, <1>4 DEF TypeOK
  <2>2. CASE r.task = "reinitialize"
    BY <1>1, <1>2, <1>4, <2>1, <2>2, DiscardsInv DEF MoveFails
  <2>3. CASE r.task # "reinitialize"
    <3>1. /\ Goes(p, [r EXCEPT !.at = "undoing", !.way = "in"]) /\ UNCHANGED manifest
          /\ unfinished' = (unfinished \/ r.way = "in")
      BY <1>4, <2>3 DEF MoveFails
    <3>2. ASSUME Careful
          PROVE  MovesOut(r) /\ Disk' /\ (r.way = "out" => entry'[f] # 0)
      BY <1>1, <1>3, <1>4, <2>3, <3>1, <3>2, SameDisk DEF Both
    <3> QED BY <1>1, <1>2, <1>4, <2>1, <3>1, <3>2, TakesBackInv, <1>0
  <2> QED BY <2>2, <2>3
<1>5. CASE SetsTarget(p, 0) /\ MoveFails(p, entry')
  <2>1. \/ r.way = "in" /\ entry' = [entry EXCEPT ![f] = 0] /\ UNCHANGED root
        \/ r.way = "out" /\ root' = [root EXCEPT ![f] = 0] /\ UNCHANGED entry
    BY <1>2, <1>5 DEF SetsTarget
  <2>2. root' \in [Files -> Nat] /\ entry' \in [Files -> Nat]
    BY <1>2, <2>1 DEF TypeOK
  <2>3. CASE r.task = "reinitialize" /\ r.way = "in"
    <3>1. /\ Refuses(p) /\ manifest' = Discarded(entry', manifest) /\ UNCHANGED unfinished
      BY <1>5, <2>3 DEF MoveFails
    <3> QED BY <1>1, <1>2, <1>3, <2>1, <2>2, <2>3, <3>1, DiscardsInv
  <2>4. CASE r.task = "reinitialize" /\ r.way # "in"
    <3>1. ~Careful
      BY <1>3, <2>4
    <3>2. Refuses(p) /\ manifest' = Discarded(entry', manifest) /\ UNCHANGED unfinished
      BY <1>5, <2>4 DEF MoveFails
    <3>3. /\ run' \in [Procs -> Run] /\ run'[p].at = "leaving"
          /\ \A q \in Procs : q # p => run'[q] = run[q]
      BY <1>2, <3>2, AnswersType DEF Refuses
    <3>4. DiskTypes'
      BY <1>1, <1>2, <2>2, <3>2, ManifestTypes DEF TypeOK, DiskTypes
    <3> QED BY <1>1, <1>2, <3>1, <3>3, <3>4, WorkStep DEF Works, Fresh
  <2>5. CASE r.task # "reinitialize"
    <3>1. /\ Goes(p, [r EXCEPT !.at = "undoing", !.way = "in"]) /\ UNCHANGED manifest
          /\ unfinished' = (unfinished \/ r.way = "in")
      BY <1>5, <2>5 DEF MoveFails
    <3>2. ASSUME Careful
          PROVE  /\ MovesOut(r) /\ Disk'
                 /\ \A g \in Files : g # f => root'[g] = root[g] /\ entry'[g] = entry[g]
                 /\ root'[f] \in {0, root[f]} /\ (r.way = "out" => entry'[f] # 0)
      <4>1. /\ MovesOut(r) /\ Both(f) /\ manifest.status \in {"incomplete", "complete"}
            /\ Disk /\ Under(f) # "unlisted"
        BY <1>3, <2>5, <3>2
      <4>2. CASE r.way = "in"
        BY <1>1, <1>2, <2>1, <3>1, <4>1, <4>2, EntryUnlinked
      <4>3. CASE r.way = "out"
        <5>1. Disk' /\ In(f)' /\ \A g \in Files : g # f => root'[g] = root[g]
          BY <1>1, <1>2, <2>1, <3>1, <4>1, <4>3, RootUnlinked
        <5> QED BY <2>1, <4>1, <4>3, <5>1 DEF In
      <4> QED BY <1>2, <4>2, <4>3
    <3> QED BY <1>1, <1>2, <2>2, <3>1, <3>2, TakesBackInv, <1>0
  <2> QED BY <1>2, <2>3, <2>4, <2>5
<1>6. CASE SetsSource(p, 0) /\ Moved(p)
  <2>1. \/ r.way = "in" /\ root' = [root EXCEPT ![f] = 0] /\ UNCHANGED entry
        \/ r.way = "out" /\ entry' = [entry EXCEPT ![f] = 0] /\ UNCHANGED root
    BY <1>2, <1>6 DEF SetsSource
  <2> DEFINE q == IF r.task = "reinitialize" THEN [r EXCEPT !.at = "noting"]
                  ELSE IF r.way = "out" THEN [r EXCEPT !.at = "restoring", !.done = @ \cup {f}]
                  ELSE [r EXCEPT !.at = "undoing"]
  <2>2. Goes(p, q) /\ UNCHANGED <<manifest, unfinished>>
    BY <1>2, <1>6 DEF Moved
  <2>3. r.done \cup {f} \in SUBSET Files
    BY <1>2, RunFields
  <2>4. /\ q \in Run /\ q.task = r.task /\ q.way = r.way /\ q.manifest = r.manifest
        /\ q.todo = r.todo /\ q.item = f
        /\ q.at = IF r.task = "reinitialize" THEN "noting"
                  ELSE IF r.way = "out" THEN "restoring" ELSE "undoing"
        /\ q.done = IF r.task # "reinitialize" /\ r.way = "out" THEN r.done \cup {f} ELSE r.done
    <3>1. CASE r.task = "reinitialize"
      BY <1>2, <3>1 DEF Run
    <3>2. CASE r.task # "reinitialize" /\ r.way = "out"
      BY <1>2, <2>3, <3>2 DEF Run
    <3>3. CASE r.task # "reinitialize" /\ r.way # "out"
      BY <1>2, <3>3 DEF Run
    <3> QED BY <3>1, <3>2, <3>3
  <2> HIDE DEF q
  <2>5. run' \in [Procs -> Run] /\ run'[p] = q /\ \A x \in Procs : x # p => run'[x] = run[x]
    BY <1>2, <2>2, <2>4, GoesType
  <2>6. DiskTypes'
    BY <1>1, <1>2, <2>1, <2>2 DEF TypeOK, DiskTypes
  <2>7. \A g \in Files : Under(g)' = Under(g)
    BY <2>2 DEF Under
  <2>8. ASSUME Careful, r.task = "reinitialize" PROVE Disk' /\ Settled' /\ MovesIn(run[p])'
    <3>1. /\ MovesIn(r) /\ Settled /\ manifest.status = "incomplete" /\ r.way = "in"
          /\ Under(f) = "pending" /\ Both(f)
      BY <1>3, <2>8
    <3>2. /\ Disk' /\ In(f)' /\ Settled' /\ UNCHANGED entry
          /\ \A g \in Files : g # f => root'[g] = root[g]
      BY <1>1, <1>2, <1>3, <2>1, <2>2, <2>8, <3>1, RootUnlinked
    <3>3. InHand(run[p])' = {f}
      BY <2>4, <2>5, <2>8 DEF InHand
    <3>4. \A g \in Files : Under(g) # "unlisted" /\ g \notin r.todo \cup {f} =>
            Under(g) = "moved" /\ In(g)'
      BY <1>2, <3>1, <3>2 DEF MovesIn, In
    <3> QED BY <1>2, <2>2, <2>4, <2>5, <2>7, <2>8, <3>1, <3>2, <3>3, <3>4 DEF MovesIn
  <2>9. ASSUME Careful, r.task # "reinitialize" PROVE Disk' /\ MovesOut(run[p])'
    <3>1. /\ MovesOut(r) /\ manifest.status \in {"incomplete", "complete"} /\ Both(f) /\ Disk
          /\ Under(f) # "unlisted"
      BY <1>3, <2>9
    <3>2. r.done \subseteq Files /\ r.todo \subseteq Files /\ f \notin r.done /\ Required \subseteq Files
      BY <1>2, <3>1, RunFields DEF MovesOut, Files
    <3>3. InHand(run[p])' = {} /\ f \in Listed(manifest.items)
      BY <1>2, <2>4, <2>5, <2>9, <3>1 DEF InHand, MovesOut
    <3>4. CASE r.way = "in"
      <4>1. /\ Disk' /\ In(f)' /\ UNCHANGED entry
            /\ \A g \in Files : g # f => root'[g] = root[g]
        BY <1>1, <1>2, <2>1, <2>2, <3>1, <3>4, RootUnlinked
      <4>2. \A g \in r.done : Under(g) # "unlisted" /\ Out(g)'
        BY <3>1, <3>2, <4>1 DEF MovesOut, Out
      <4>3. unfinished' \/ \A g \in Listed(manifest.items) \ r.done : entry'[g] # 0
        BY <1>2, <2>2, <3>1, <3>4, <4>1 DEF MovesOut, In
      <4>4. \A g \in Files : root'[g] = 0 \/ root'[g] = root[g]
        BY <4>1 DEF In
      <4> QED BY <2>2, <2>4, <2>5, <2>7, <2>9, <3>1, <3>2, <3>3, <3>4, <4>1, <4>2, <4>3, <4>4
              DEF MovesOut
    <3>5. CASE r.way = "out"
      <4>1. Disk' /\ Out(f)' /\ UNCHANGED root /\ \A g \in Files : g # f => entry'[g] = entry[g]
        BY <1>1, <1>2, <2>1, <2>2, <3>1, <3>5, EntryUnlinked
      <4>2. \A g \in r.done \cup {f} : Under(g) # "unlisted" /\ Out(g)'
        BY <3>1, <3>2, <4>1 DEF MovesOut, Out
      <4>3. f \notin r.todo /\ \A g \in r.todo : In(g)'
        BY <1>2, <3>1, <3>2, <3>5, <4>1 DEF MovesOut, In
      <4>4. /\ r.todo \subseteq Listed(manifest.items) /\ r.todo \cap (r.done \cup {f}) = {}
            /\ Listed(manifest.items) \subseteq r.todo \cup (r.done \cup {f})
        BY <1>2, <3>1, <3>5 DEF MovesOut
      <4> QED BY <2>2, <2>4, <2>5, <2>7, <2>9, <3>1, <3>2, <3>3, <3>5, <4>1, <4>2, <4>3, <4>4
              DEF MovesOut
    <3> QED BY <1>2, <3>4, <3>5
  <2>10. Careful => Phase(run[p])' /\ Disk' /\ (Restoring(run'[p]) \/ Settled')
    BY <1>2, <1>3, <2>4, <2>5, <2>8, <2>9 DEF Phase, Restoring
  <2>11. run'[p].at \in {"noting", "restoring", "undoing"}
    BY <2>4, <2>5
  <2> QED BY <1>1, <1>2, <2>5, <2>6, <2>10, <2>11, WorkStep DEF Works, Fresh
<1> QED BY <1>4, <1>5, <1>6 DEF Unlinks

-----------------------------------------------------------------------------
(* The daemon, the lock, the operator, and death.                          *)

LEMMA ServesInv ==
  ASSUME BundleInv, NEW p \in Procs, Serves(p)
  PROVE  BundleInv'
<1> DEFINE r == run[p]
<1>1. r.at = "scanning" /\ UNCHANGED <<lockVars, entry, manifest, unfinished, boundVars>>
  BY DEF Serves
<1>2. TypeOK /\ r \in Run /\ Works(r) /\ ~Restoring(r)
  BY <1>1 DEF BundleInv, TypeOK, Works, Restoring
<1>3. Careful => Disk /\ Settled
  BY <1>2, WorkFacts
<1>4. UNCHANGED <<deaths, failures>> /\ failures' \in Nat
  BY <1>1, <1>2 DEF boundVars, TypeOK
<1>5. CASE Refuses(p) /\ UNCHANGED <<root, meddled>>
  BY <1>1, <1>2, <1>4, <1>5, RefusesInv DEF ghostVars
<1>6. CASE At(p, "serving") /\ UNCHANGED <<root, meddled>>
  <2>1. /\ run' \in [Procs -> Run] /\ run'[p] = [r EXCEPT !.at = "serving"]
        /\ \A q \in Procs : q # p => run'[q] = run[q]
    BY <1>2, <1>6, AtType
  <2>2. run'[p].at = "serving"
    BY <1>2, <2>1 DEF Run
  <2>3. DiskTypes'
    BY <1>1, <1>2, <1>4, <1>6 DEF TypeOK, DiskTypes
  <2>4. Careful => Disk' /\ Settled' /\ Phase(run[p])'
    BY <1>1, <1>3, <1>6, <2>2, SameDisk DEF Phase
  <2> QED BY <1>1, <1>2, <2>1, <2>2, <2>3, <2>4, WorkStep DEF Works, Fresh
<1>7. CASE /\ \E f \in Missing \cup (Extra \ Present(root)) : root' = [root EXCEPT ![f] = NewFile(f)]
           /\ meddled' = (meddled \/ manifest.status # "none") /\ UNCHANGED run
  <2>1. PICK f \in Missing \cup (Extra \ Present(root)) : root' = [root EXCEPT ![f] = NewFile(f)]
    BY <1>7
  <2>2. f \in Files /\ root[f] = 0
    BY <2>1 DEF Missing, Present, Files
  <2>3. DiskTypes'
    BY <1>1, <1>2, <1>4, <1>7, <2>1, <2>2, NewFileType DEF TypeOK, DiskTypes
  <2>4. ASSUME Careful PROVE Disk' /\ Settled'
    <3>1. ~meddled' => manifest.status = "none" /\ NoFiles
      BY <1>7 DEF NoFiles
    <3>2. ~meddled' => f \notin Required
      BY <1>3, <2>2, <2>4, <3>1 DEF Disk, EntryKept, OriginalKept, Files
    <3>3. meddled' \in BOOLEAN /\ (meddled => meddled')
      BY <1>2, <1>7 DEF TypeOK
    <3> QED BY <1>1, <1>2, <1>3, <2>1, <2>2, <2>4, <3>1, <3>2, <3>3, RootCreated
  <2>5. run' \in [Procs -> Run] /\ Fresh(run'[p])
    BY <1>2, <1>7 DEF TypeOK, BundleInv
  <2>6. Careful => Phase(run[p])'
    BY <1>1, <1>7 DEF Phase
  <2> QED BY <1>1, <1>2, <1>7, <2>3, <2>4, <2>5, <2>6, WorkStep
<1> QED BY <1>5, <1>6, <1>7 DEF Serves

LEMMA StopsServingInv ==
  ASSUME BundleInv, NEW p \in Procs, StopsServing(p)
  PROVE  BundleInv'
<1>1. /\ run[p].at = "serving" /\ Answers(p, "served")
      /\ UNCHANGED <<lockVars, root, entry, manifest, meddled, unfinished, deaths, failures>>
  BY DEF StopsServing, diskVars, ghostVars, boundVars
<1>2. Works(run[p]) /\ ~Restoring(run[p]) /\ unfinished' \in BOOLEAN /\ failures' \in Nat
  BY <1>1 DEF BundleInv, TypeOK, Works, Restoring
<1>3. Careful => Settled'
  BY <1>1, <1>2, WorkFacts, SameDisk
<1> QED BY <1>1, <1>2, <1>3, LeavesInv

\* The disk is left alone: what a process knows of it stays so.
LEMMA PhaseKept ==
  ASSUME NEW q \in Procs, run'[q] = run[q], Phase(run[q]), unfinished => unfinished',
         UNCHANGED <<root, entry, manifest>>
  PROVE  Phase(run[q])'
<1>1. /\ \A f \in Files : /\ Under(f)' = Under(f) /\ In(f)' = In(f) /\ Out(f)' = Out(f)
                          /\ Both(f)' = Both(f)
      /\ InHand(run[q])' = InHand(run[q])
  BY DEF Under, In, Out, Both, InHand
<1>2. Begins(run[q]) => Begins(run[q])'
  BY DEF Begins, Present
<1>3. MovesIn(run[q]) => MovesIn(run[q])'
  BY <1>1 DEF MovesIn, In, Out, Both, Under
<1>4. Freshens(run[q]) => Freshens(run[q])'
  BY DEF Freshens, Present
<1>5. MovesOut(run[q]) => MovesOut(run[q])'
  BY <1>1 DEF MovesOut, In, Out, Both, Under
<1> QED BY <1>2, <1>3, <1>4, <1>5 DEF Phase

\* A process that moves nothing starts, takes the lock, gives it up or dies.
LEMMA OtherStep ==
  ASSUME BundleInv, NEW p \in Procs, LockKept',
         run' \in [Procs -> Run], \A q \in Procs : q # p => run'[q] = run[q],
         run'[p].at \in {"idle", "starting", "scanning", "leaving"}, Fresh(run'[p]),
         UNCHANGED <<root, entry, manifest, meddled>>,
         unfinished' = (unfinished \/ Restoring(run[p])), deaths' \in Nat, failures' \in Nat,
         Careful' => Careful /\ Exclusive'
  PROVE  BundleInv'
<1>1. TypeOK' /\ Tidy' /\ LockFileIsKept'
  BY DEF BundleInv, TypeOK, LockKept
<1>2. \A q \in Procs : Fresh(run'[q])
  BY DEF BundleInv
<1>3. ASSUME Careful' PROVE Recovered'
  <2>1. Recovered
    BY <1>3 DEF BundleInv
  <2>2. Disk'
    BY <2>1, SameDisk DEF Recovered
  <2>3. (\A q \in Procs : ~Restoring(run'[q])) => Settled'
    <3>1. CASE Restoring(run[p])
      BY <3>1 DEF Settled
    <3>2. CASE ~Restoring(run[p])
      <4>1. UNCHANGED unfinished
        BY <3>2 DEF BundleInv, TypeOK
      <4> QED BY <2>1, <3>2, <4>1, SameDisk DEF Recovered
    <3> QED BY <3>1, <3>2
  <2>4. \A q \in Procs : Works(run'[q]) => Phase(run[q])'
    <3>1. Phase(run[p])'
      BY DEF Phase
    <3>2. ASSUME NEW q \in Procs, q # p, Works(run'[q]) PROVE Phase(run[q])'
      <4>1. run'[q] = run[q] /\ Phase(run[q])
        BY <2>1, <3>2 DEF Recovered
      <4> QED BY <4>1, PhaseKept
    <3> QED BY <3>1, <3>2
  <2> QED BY <2>2, <2>3, <2>4 DEF Recovered
<1> QED BY <1>1, <1>2, <1>3 DEF BundleInv

LEMMA StartsInv ==
  ASSUME BundleInv, NEW p \in Procs, NEW task \in Tasks, Starts(p, task)
  PROVE  BundleInv'
<1>1. /\ run[p].at = "idle" /\ UNCHANGED <<lockVars, diskVars, ghostVars, boundVars>>
      /\ Goes(p, [Idle EXCEPT !.task = task, !.at = "starting",
                          !.saw = IF task = "reinitialize" THEN Presence ELSE @])
  BY DEF Starts
<1>2. TypeOK /\ LockKept /\ ~Restoring(run[p])
  BY <1>1 DEF BundleInv, TypeOK, LockKept, Restoring
<1>3. TypeOK' /\ run'[p].at = "starting" /\ \A q \in Procs : q # p => run'[q] = run[q]
  BY <1>2, StartsType
<1>4. run'[p].way = "in" /\ run'[p].done = {}
  BY <1>1, <1>2 DEF Goes, TypeOK, Idle
<1>5. LockKept'
  BY <1>1, <1>2 DEF LockKept, LockTypeOK, Tidy, LockFileIsKept, lockVars
<1>6. Careful' => Careful /\ Exclusive'
  <2>1. (Careful' <=> Careful) /\ UNCHANGED <<lock, hold, aside>>
    BY <1>1 DEF Careful, lockVars
  <2>2. ASSUME Careful, NEW q \in Procs
        PROVE  /\ hold'[q] = "held" => lock' = q
               /\ hold'[q] = "releasing" => aside'[q] = q /\ run'[q].at = "leaving"
               /\ hold'[q] = "none" <=> run'[q].at \in {"idle", "starting"}
    <3>1. /\ hold[q] = "held" => lock = q
          /\ hold[q] = "releasing" => aside[q] = q /\ run[q].at = "leaving"
          /\ hold[q] = "none" <=> run[q].at \in {"idle", "starting"}
      BY <2>2 DEF BundleInv, Exclusive
    <3> QED BY <1>1, <1>3, <2>1, <3>1
  <2> QED BY <2>1, <2>2 DEF Exclusive
<1> QED BY <1>1, <1>2, <1>3, <1>4, <1>5, <1>6, OtherStep
        DEF TypeOK, Fresh, diskVars, ghostVars, boundVars

LEMMA LocksInv ==
  ASSUME BundleInv, NEW p \in Procs, Locks(p)
  PROVE  BundleInv'
<1>1. run[p].at = "starting" /\ UNCHANGED <<diskVars, ghostVars, boundVars>>
  BY DEF Locks
<1>2. TypeOK /\ LockKept /\ ~Restoring(run[p]) /\ Fresh(run[p])
  BY <1>1 DEF BundleInv, TypeOK, LockKept, Restoring
<1>3. /\ run' \in [Procs -> Run] /\ DiskTypes'
      /\ \A q \in Procs : q # p => run'[q] = run[q]
      /\ \/ Acquires(p) /\ run'[p].at = "scanning"
         \/ (AcquireRefused(p) \/ AcquireLeavesFile(p)) /\ run'[p].at = "idle"
  BY <1>2, LocksType
<1>4. LockKept'
  BY <1>2, <1>3, AcquiresKeeps
<1>5. Fresh(run'[p])
  <2>1. CASE run'[p].at = "idle"
    BY <2>1 DEF Fresh
  <2>2. CASE run'[p].at = "scanning"
    <3>1. At(p, "scanning")
      <4>1. ~Goes(p, Idle)
        BY <1>2, <2>2, IdlesType
      <4> QED BY <4>1 DEF Locks
    <3>2. run'[p] = [run[p] EXCEPT !.at = "scanning"] /\ run[p] \in Run
      BY <1>2, <3>1, AtType DEF TypeOK
    <3>3. run'[p].way = run[p].way /\ run'[p].done = run[p].done
      BY <3>2 DEF Run
    <3> QED BY <1>1, <1>2, <3>3 DEF Fresh
  <2> QED BY <1>3, <2>1, <2>2
<1>6. Careful' => Careful /\ Exclusive'
  <2>1. Careful' <=> Careful
    BY <1>3 DEF Careful, Acquires, AcquireRefused, AcquireLeavesFile, lockVars
  <2> SUFFICES ASSUME Careful PROVE Exclusive'
    BY <2>1
  <2>2. Exclusive /\ hold[p] = "none"
    BY <1>1 DEF BundleInv, Exclusive
  <2>3. hold \in [Procs -> {"none", "held", "releasing"}]
    BY <1>2 DEF LockKept, LockTypeOK
  <2>4. CASE Acquires(p) /\ run'[p].at = "scanning"
    <3>1. /\ lock = None /\ lock' = p /\ hold' = [hold EXCEPT ![p] = "held"] /\ UNCHANGED aside
      BY <2>4 DEF Acquires
    <3>2. \A q \in Procs : hold[q] # "held"
      BY <2>2, <3>1, LockAssumption DEF Exclusive
    <3>3. hold'[p] = "held" /\ \A q \in Procs : q # p => hold'[q] = hold[q]
      BY <2>3, <3>1
    <3> QED BY <1>3, <2>2, <2>4, <3>1, <3>2, <3>3 DEF Exclusive
  <2>5. CASE (AcquireRefused(p) \/ AcquireLeavesFile(p)) /\ run'[p].at = "idle"
    <3>1. /\ UNCHANGED <<hold, aside>> /\ (lock' = lock \/ lock = None)
      BY <2>5 DEF AcquireRefused, AcquireLeavesFile, lockVars
    <3>2. \A q \in Procs : hold[q] = "held" => lock' = q
      BY <2>2, <3>1, LockAssumption DEF Exclusive
    <3> QED BY <1>3, <2>2, <2>5, <3>1, <3>2 DEF Exclusive
  <2> QED BY <1>3, <2>4, <2>5
<1> QED BY <1>1, <1>2, <1>3, <1>4, <1>5, <1>6, OtherStep
        DEF TypeOK, diskVars, ghostVars, boundVars

\* Who gives the lock up is idle; the others have theirs.
LEMMA ReleasesExclusive ==
  ASSUME LockKept, Exclusive, NEW p \in Procs, LeavesLock(p) \/ DropsOwnLock(p) \/ Dies(p),
         run'[p].at = "idle", \A q \in Procs : q # p => run'[q] = run[q]
  PROVE  Exclusive'
<1>1. /\ hold'[p] = "none"
      /\ \A q \in Procs : q # p => hold'[q] = hold[q] /\ (aside[q] = q => aside'[q] = q)
      /\ \A q \in Procs : q # p /\ lock = q => lock' = q
  BY ReleasesKeeps
<1> SUFFICES ASSUME NEW q \in Procs
             PROVE  /\ hold'[q] = "held" => lock' = q
                    /\ hold'[q] = "releasing" => aside'[q] = q /\ run'[q].at = "leaving"
                    /\ hold'[q] = "none" <=> run'[q].at \in {"idle", "starting"}
  BY DEF Exclusive
<1>2. CASE q = p
  BY <1>1, <1>2
<1>3. CASE q # p
  BY <1>1, <1>3 DEF Exclusive
<1> QED BY <1>2, <1>3

LEMMA UnlocksInv ==
  ASSUME BundleInv, NEW p \in Procs, Unlocks(p)
  PROVE  BundleInv'
<1>1. run[p].at = "leaving" /\ UNCHANGED <<diskVars, ghostVars, boundVars>>
  BY DEF Unlocks
<1>2. TypeOK /\ LockKept /\ ~Restoring(run[p]) /\ Fresh(run[p])
  BY <1>1 DEF BundleInv, TypeOK, LockKept, Restoring
<1>3. CASE SetsAside(p) /\ UNCHANGED run
  <2>1. LockKept'
    BY <1>2, <1>3, SetsAsideKeeps
  <2>2. Careful' => Careful /\ Exclusive'
    <3>1. /\ hold[p] = "held" /\ aside' = [aside EXCEPT ![p] = lock]
          /\ lock' = None /\ hold' = [hold EXCEPT ![p] = "releasing"] /\ UNCHANGED removed
      BY <1>3 DEF SetsAside
    <3>2. /\ hold'[p] = "releasing" /\ aside'[p] = lock
          /\ \A q \in Procs : q # p => hold'[q] = hold[q] /\ aside'[q] = aside[q]
      BY <1>2, <3>1 DEF LockKept, LockTypeOK
    <3>3. ASSUME Careful PROVE Exclusive'
      <4>1. Exclusive /\ lock = p
        BY <3>1, <3>3 DEF BundleInv, Exclusive
      <4>2. \A q \in Procs : q # p => hold[q] # "held"
        BY <4>1 DEF Exclusive
      <4> QED BY <1>1, <1>3, <3>2, <4>1, <4>2 DEF Exclusive
    <3> QED BY <3>1, <3>3 DEF Careful
  <2>3. run' \in [Procs -> Run] /\ run'[p].at = "leaving" /\ Fresh(run'[p])
    BY <1>1, <1>2, <1>3 DEF TypeOK
  <2> QED BY <1>1, <1>2, <1>3, <2>1, <2>2, <2>3, OtherStep
          DEF TypeOK, diskVars, ghostVars, boundVars
<1>4. CASE (LeavesLock(p) \/ DropsOwnLock(p)) /\ Goes(p, Idle)
  <2>1. /\ run' \in [Procs -> Run] /\ run'[p].at = "idle"
        /\ \A q \in Procs : q # p => run'[q] = run[q]
    BY <1>2, <1>4, IdlesType
  <2>2. LockKept' /\ removed'.count = removed.count
    BY <1>2, <1>4, ReleasesKeeps
  <2>3. Careful' => Careful /\ Exclusive'
    BY <1>2, <1>4, <2>1, <2>2, ReleasesExclusive DEF Careful, BundleInv
  <2> QED BY <1>1, <1>2, <2>1, <2>2, <2>3, OtherStep
          DEF TypeOK, Fresh, diskVars, ghostVars, boundVars
<1> QED BY <1>3, <1>4 DEF Unlocks

LEMMA ProcessDiesInv ==
  ASSUME BundleInv, NEW p \in Procs, ProcessDies(p)
  PROVE  BundleInv'
<1>1. /\ Dies(p) /\ Goes(p, Idle) /\ deaths' = deaths + 1
      /\ unfinished' = (unfinished \/ Restoring(run[p])) /\ UNCHANGED <<diskVars, meddled, failures>>
  BY DEF ProcessDies
<1>2. TypeOK /\ LockKept
  BY DEF BundleInv, TypeOK, LockKept
<1>3. /\ run' \in [Procs -> Run] /\ run'[p].at = "idle"
      /\ \A q \in Procs : q # p => run'[q] = run[q]
  BY <1>1, <1>2, IdlesType
<1>4. LockKept' /\ removed'.count = removed.count
  BY <1>1, <1>2, ReleasesKeeps
<1>5. Careful' => Careful /\ Exclusive'
  BY <1>1, <1>2, <1>3, <1>4, ReleasesExclusive DEF Careful, BundleInv
<1> QED BY <1>1, <1>2, <1>3, <1>4, <1>5, OtherStep DEF TypeOK, Fresh, diskVars

\* What the operator takes away is in the entry too, or no part of it; once
\* nothing stands in the way, no daemon has meddled with what is left.
LEMMA OperatorClearsInv ==
  ASSUME BundleInv, OperatorClears
  PROVE  BundleInv'
<1>1. /\ Unlocked /\ ~NoFiles
      /\ UNCHANGED <<lockVars, entry, manifest, run, unfinished, boundVars>>
  BY DEF OperatorClears, NoFiles
<1>2. PICK some \in SUBSET Blocking :
        /\ root' = [f \in Files |-> IF f \in some THEN 0 ELSE root[f]]
        /\ meddled' = (meddled /\ some # Blocking)
  BY DEF OperatorClears
<1>3. TypeOK
  BY DEF BundleInv
<1>4. TypeOK' /\ Tidy' /\ LockFileIsKept' /\ (Careful' <=> Careful) /\ \A p \in Procs : Fresh(run'[p])
  BY <1>1, <1>2, <1>3 DEF BundleInv, TypeOK, LockTypeOK, Tidy, LockFileIsKept, Careful,
                          lockVars, boundVars
<1>5. ASSUME Careful PROVE Exclusive' /\ Recovered'
  <2>1. Exclusive /\ Disk /\ Settled
    BY <1>1, <1>5 DEF BundleInv, Recovered, Unlocked, Restoring
  <2>2. Exclusive'
    BY <1>1, <2>1 DEF Exclusive, lockVars
  <2>3. \A f \in Files : \/ root'[f] = root[f]
                         \/ root'[f] = 0 /\ (entry[f] # 0 \/ (~NoFiles /\ Under(f) = "unlisted"))
    BY <1>1, <1>2 DEF Blocking, Under
  <2>4. /\ EntryKept' /\ OriginalKept' /\ AllMoved' /\ Settled'
        /\ ~meddled => Unmixed' /\ OnlyListed' /\ OneInode'
    BY <1>1, <1>3, <2>1, <2>3, RootLowered
  <2>5. some = Blocking => Unmixed' /\ OnlyListed' /\ OneInode'
    <3> SUFFICES ASSUME some = Blocking PROVE Unmixed' /\ OnlyListed' /\ OneInode'
      OBVIOUS
    <3>1. \A f \in Files : root'[f] # 0 =>
            root'[f] = root[f] /\ (root[f] = entry[f] \/ (entry[f] = 0 /\ Under(f) # "unlisted"))
      BY <1>2 DEF Blocking, Present, SameInode, Under
    <3>2. \A f \in Files : Under(f) = "unlisted" => entry[f] = 0
      BY <1>1, <2>1 DEF Disk, EntryKept
    <3>3. \A f \in Required : f \in Files /\ root'[f] \in {0, 1}
      BY <2>1, <3>1 DEF Disk, OriginalKept, Files
    <3> QED BY <1>1, <3>1, <3>2, <3>3 DEF Unmixed, OnlyListed, OneInode, Under
  <2>6. ~meddled' => Unmixed' /\ OnlyListed' /\ OneInode'
    BY <1>2, <1>3, <2>4, <2>5 DEF TypeOK
  <2>7. \A p \in Procs : ~Works(run'[p])
    BY <1>1 DEF Unlocked, Works
  <2> QED BY <2>2, <2>4, <2>6, <2>7 DEF Recovered, Disk
<1> QED BY <1>4, <1>5 DEF BundleInv

LEMMA OperatorLockInv ==
  ASSUME BundleInv, OperatorRemovesLock \/ OperatorTakesLock
  PROVE  BundleInv'
<1>1. UNCHANGED <<diskVars, run, ghostVars, boundVars>> /\ (OperatorUnlocks \/ OperatorUnlocksHolder)
  BY DEF OperatorRemovesLock, OperatorTakesLock
<1>2. TypeOK /\ LockKept
  BY DEF BundleInv, TypeOK, LockKept
<1>3. LockKept'
  BY <1>1, <1>2, OperatorKeeps
<1>4. TypeOK' /\ \A p \in Procs : Fresh(run'[p])
  BY <1>1, <1>2, <1>3 DEF BundleInv, TypeOK, LockKept, diskVars, ghostVars, boundVars
<1>5. ASSUME Careful' PROVE Exclusive' /\ Recovered'
  <2>1. CASE OperatorUnlocksHolder
    <3>1. removed'.count = removed.count + 1 /\ removed.count \in Nat
      BY <1>2, <2>1 DEF OperatorUnlocksHolder, LockKept, LockTypeOK
    <3> QED BY <1>5, <3>1 DEF Careful
  <2>2. CASE OperatorUnlocks
    <3>1. /\ Careful /\ lock = Stale /\ UNCHANGED <<hold, aside>>
          /\ UNCHANGED <<root, entry, manifest, run, meddled, unfinished>>
      BY <1>1, <1>5, <2>2 DEF OperatorUnlocks, Careful, diskVars, ghostVars
    <3>2. Exclusive /\ Recovered
      BY <3>1 DEF BundleInv
    <3>3. Exclusive'
      BY <3>1, <3>2, LockAssumption DEF Exclusive
    <3>4. Disk' /\ (Settled' <=> Settled)
      BY <3>1, <3>2, SameDisk DEF Recovered
    <3>5. \A q \in Procs : Works(run'[q]) => Phase(run[q])'
      BY <3>1, <3>2, PhaseKept DEF Recovered
    <3> QED BY <3>1, <3>2, <3>3, <3>4, <3>5 DEF Recovered
  <2> QED BY <1>1, <2>1, <2>2
<1> QED BY <1>3, <1>4, <1>5 DEF BundleInv, LockKept

-----------------------------------------------------------------------------
(* Every step keeps the invariant.                                         *)

LEMMA InitBundle == Init => BundleInv
<1> SUFFICES ASSUME Init PROVE BundleInv
  OBVIOUS
<1>1. /\ LockInit /\ entry = [f \in Files |-> 0] /\ manifest = NoEntry
      /\ run = [p \in Procs |-> Idle] /\ meddled = FALSE /\ unfinished = FALSE
      /\ deaths = 0 /\ failures = 0
  BY DEF Init
<1>2. PICK more \in SUBSET Extra : root = [f \in Files |-> IF f \in Required \cup more THEN 1 ELSE 0]
  BY DEF Init
<1>3. LockTypeOK /\ Tidy /\ LockFileIsKept
  BY <1>1, LockAssumption DEF LockInit, LockTypeOK, Tidy, LockFileIsKept
<1>4. NoEntry \in Manifest /\ manifest.status = "none"
  BY <1>1 DEF NoEntry, NoItems, Manifest
<1>5. TypeOK
  BY <1>1, <1>2, <1>3, <1>4, IdleType DEF TypeOK
<1>6. \A p \in Procs : run[p].at = "idle" /\ hold[p] = "none"
  BY <1>1 DEF Idle, LockInit
<1>7. Exclusive /\ \A p \in Procs : Fresh(run[p]) /\ ~Works(run[p])
  BY <1>6 DEF Exclusive, Fresh, Works
<1>8. Disk /\ Settled
  BY <1>1, <1>2, <1>4 DEF Disk, EntryKept, NoFiles, OriginalKept, AllMoved, Unmixed, OnlyListed,
                          OneInode, Settled, Files
<1> QED BY <1>3, <1>5, <1>7, <1>8 DEF BundleInv, Recovered

LEMMA StutterBundle == BundleInv /\ UNCHANGED vars => BundleInv'
<1> SUFFICES ASSUME BundleInv, UNCHANGED vars PROVE BundleInv'
  OBVIOUS
<1>1. /\ UNCHANGED <<lock, hold, aside, residue, removed>>
      /\ UNCHANGED <<root, entry, manifest, run, meddled, unfinished, deaths, failures>>
  BY DEF vars, lockVars, diskVars, ghostVars, boundVars
<1>2. TypeOK' /\ Tidy' /\ LockFileIsKept' /\ (Careful' <=> Careful)
  BY <1>1 DEF BundleInv, TypeOK, LockTypeOK, Tidy, LockFileIsKept, Careful
<1>3. \A p \in Procs : Fresh(run'[p])
  BY <1>1 DEF BundleInv
<1>4. ASSUME Careful PROVE Exclusive' /\ Recovered'
  <2>1. Exclusive /\ Recovered
    BY <1>4 DEF BundleInv
  <2>2. Exclusive'
    BY <1>1, <2>1 DEF Exclusive
  <2>3. Disk' /\ (Settled' <=> Settled)
    BY <1>1, <2>1, SameDisk DEF Recovered
  <2>4. \A q \in Procs : Works(run'[q]) => Phase(run[q])'
    BY <1>1, <2>1, PhaseKept DEF Recovered
  <2> QED BY <1>1, <2>1, <2>2, <2>3, <2>4 DEF Recovered
<1> QED BY <1>2, <1>3, <1>4 DEF BundleInv

LEMMA StepBundle == BundleInv /\ [Next]_vars => BundleInv'
<1> SUFFICES ASSUME BundleInv, [Next]_vars PROVE BundleInv'
  OBVIOUS
<1>1. CASE UNCHANGED vars
  BY <1>1, StutterBundle
<1>2. ASSUME NEW p \in Procs, NEW task \in Tasks, Starts(p, task) PROVE BundleInv'
  BY <1>2, StartsInv
<1>3. ASSUME NEW p \in Procs, Locks(p) \/ Unlocks(p) \/ ProcessDies(p) PROVE BundleInv'
  BY <1>3, LocksInv, UnlocksInv, ProcessDiesInv
<1>4. ASSUME NEW p \in Procs,
             \/ ScansToReinitialize(p) \/ MakesEntry(p) \/ PlansMoves(p) \/ VisitsItem(p)
             \/ NotesItem(p) \/ BeginsFresh(p) \/ CreatesFresh(p) \/ Completes(p)
      PROVE  BundleInv'
  BY <1>4, ScansToReinitializeInv, MakesEntryInv, PlansMovesInv, VisitsItemInv, NotesItemInv,
     BeginsFreshInv, CreatesFreshInv, CompletesInv
<1>5. ASSUME NEW p \in Procs,
             ScansToRestore(p) \/ RestoresItem(p) \/ Restored(p) \/ UndoesItem(p)
      PROVE  BundleInv'
  BY <1>5, ScansToRestoreInv, RestoresItemInv, RestoredInv, UndoesItemInv
<1>6. ASSUME NEW p \in Procs, Links(p) \/ Unlinks(p) PROVE BundleInv'
  BY <1>6, LinksInv, UnlinksInv
<1>7. ASSUME NEW p \in Procs, Serves(p) \/ StopsServing(p) PROVE BundleInv'
  BY <1>7, ServesInv, StopsServingInv
<1>8. CASE OperatorClears \/ OperatorRemovesLock \/ OperatorTakesLock
  BY <1>8, OperatorClearsInv, OperatorLockInv
<1> QED BY <1>1, <1>2, <1>3, <1>4, <1>5, <1>6, <1>7, <1>8 DEF Next

LEMMA AlwaysBundle == Spec => []BundleInv
<1>1. Init => BundleInv
  BY InitBundle
<1>2. BundleInv /\ [Next]_vars => BundleInv'
  BY StepBundle
<1> QED BY <1>1, <1>2, PTL DEF Spec

\* Every variable keeps its type.
THEOREM BundleTypes == Spec => []TypeOK
<1>1. BundleInv => TypeOK
  BY DEF BundleInv
<1> QED BY <1>1, AlwaysBundle, PTL

\* releaseOwnedLockFile() takes away no lock of another process, whatever
\* processes die in between: the file of every holder is at the path, set
\* aside, or left for an operator, who alone can remove it.
THEOREM LocksAreKept == Spec => []LockFileIsKept
<1>1. BundleInv => LockFileIsKept
  BY DEF BundleInv
<1> QED BY <1>1, AlwaysBundle, PTL

\* No death and no failure of reinitialize or rollback leaves a state directory
\* with originals and fresh members both, unless a daemon was started on it.
THEOREM BundlesAreNeverMixed == Spec => []NeverMixed
<1>1. BundleInv => NeverMixed
  BY DEF BundleInv, Recovered, Disk, Unmixed, NeverMixed
<1> QED BY <1>1, AlwaysBundle, PTL

LEMMA ResumesFromDisk == BundleInv => AlwaysResumable
<1> SUFFICES ASSUME BundleInv, Unlocked, Careful, ~meddled, ~unfinished PROVE CanGoOn
  BY DEF AlwaysResumable
<1>1. \A p \in Procs : ~Restoring(run[p])
  BY DEF Unlocked, Restoring
<1>2. /\ TypeOK /\ EntryKept /\ OriginalKept /\ AllMoved /\ OnlyListed /\ OneInode /\ Settled
  BY <1>1 DEF BundleInv, Recovered, Disk
<1>3. manifest.status \in {"none", "bare", "incomplete", "initializing", "complete"}
  BY <1>2 DEF TypeOK, Manifest
<1>4. CASE manifest.status \in {"none", "bare"}
  <2>1. \A f \in Required : f \in Files /\ root[f] # 0
    BY <1>2, <1>4 DEF EntryKept, NoFiles, OriginalKept, Files
  <2>2. Presence = "complete"
    BY <2>1 DEF Presence, Present
  <2> QED BY <1>4, <2>2 DEF CanGoOn
<1>5. CASE manifest.status = "complete"
  BY <1>5 DEF CanGoOn
<1>6. CASE manifest.status \in {"incomplete", "initializing"}
  <2>1. ~NoFiles /\ \A f \in Files : Under(f) \in {"unlisted", "pending", "moved"}
    BY <1>2, <1>6 DEF NoFiles, TypeOK, Manifest, Under
  <2>2. Resumes(manifest)
    BY <1>2, <1>6, <2>1 DEF Resumes, Unlisted, Present, Listed, EntryKept, OnlyListed, Under
  <2>3. CASE manifest.status = "initializing"
    BY <1>2, <2>2, <2>3 DEF CanGoOn, AllMoved, Listed, Under
  <2>4. CASE manifest.status = "incomplete"
    <3>1. ASSUME NEW f \in Listed(manifest.items) PROVE Verdict(f, Under(f)) # "inconsistent"
      <4>1. f \in Files /\ Under(f) \in {"pending", "moved"} /\ (root[f] # 0 \/ entry[f] # 0)
        BY <1>2, <2>1, <3>1 DEF Listed, Under, EntryKept
      <4>2. root[f] = 0 \/ entry[f] = 0 \/ root[f] = entry[f]
        BY <1>2, <2>4, <4>1 DEF OneInode
      <4>3. Under(f) = "moved" => entry[f] # 0
        BY <1>2, <2>4, <4>1 DEF Settled
      <4> QED BY <4>1, <4>2, <4>3 DEF Verdict, SameInode
    <3> QED BY <2>2, <2>4, <3>1 DEF CanGoOn, Under
  <2> QED BY <1>6, <2>3, <2>4
<1> QED BY <1>3, <1>4, <1>5, <1>6

\* Whatever was on the disk when a reinitialize died or failed, the next one
\* is not refused: reconcileItem() has a verdict on every item, and nothing
\* unlisted is in the way.
THEOREM ReinitializeResumes == Spec => []AlwaysResumable
<1> QED BY ResumesFromDisk, AlwaysBundle, PTL

-----------------------------------------------------------------------------
(* What a step may do to the files, and what it may answer.                *)

LEMMA NoLoss ==
  ASSUME BundleInv, Careful, [Next]_vars, NEW f \in Files, Loses(f)
  PROVE  OperatorClears
<1>1. \/ root'[f] # root[f] /\ root[f] # 0 /\ root[f] \notin {root'[f], entry'[f]}
      \/ entry'[f] # entry[f] /\ entry[f] # 0 /\ entry[f] \notin {root'[f], entry'[f]}
  BY DEF Loses
<1>2. TypeOK
  BY DEF BundleInv
<1>3. ~(UNCHANGED <<root, entry>>)
  BY <1>1
<1>4. ASSUME NEW p \in Procs, VisitsItem(p) PROVE FALSE
  <2>1. PICK g \in run[p].todo : \/ UNCHANGED root
                                 \/ /\ Verdict(g, run[p].manifest.items[g]) = "complete"
                                    /\ root' = [root EXCEPT ![g] = 0]
    BY <1>4 DEF VisitsItem
  <2>2. UNCHANGED entry
    BY <1>4 DEF VisitsItem
  <2>3. root[g] = entry[g] /\ root' = [root EXCEPT ![g] = 0]
    BY <1>3, <2>1, <2>2 DEF Verdict, SameInode
  <2> QED BY <1>1, <1>2, <2>2, <2>3 DEF TypeOK
<1>5. ASSUME NEW p \in Procs, CreatesFresh(p) \/ Serves(p) PROVE FALSE
  <2>1. UNCHANGED entry
    BY <1>5 DEF CreatesFresh, Serves
  <2>2. PICK g \in Files : root[g] = 0 /\ root' = [root EXCEPT ![g] = NewFile(g)]
    BY <1>3, <1>5, <2>1 DEF CreatesFresh, Serves, Missing, Present, Files
  <2> QED BY <1>1, <1>2, <2>1, <2>2 DEF TypeOK
<1>6. ASSUME NEW p \in Procs, Links(p) PROVE FALSE
  <2>1. Target(p) = 0 /\ SetsTarget(p, Source(p))
    BY <1>3, <1>6 DEF Links
  <2> QED BY <1>1, <1>2, <2>1 DEF TypeOK, SetsTarget, Target
<1>7. ASSUME NEW p \in Procs, Unlinks(p) PROVE FALSE
  <2>1. run[p].at = "unlinking" /\ (SetsSource(p, 0) \/ SetsTarget(p, 0))
    BY <1>3, <1>7 DEF Unlinks
  <2>2. root[run[p].item] = entry[run[p].item]
    BY <2>1, MoveFacts DEF Both
  <2> QED BY <1>1, <1>2, <2>1, <2>2 DEF TypeOK, SetsSource, SetsTarget
<1>8. ASSUME NEW p \in Procs,
             \/ \E task \in Tasks : Starts(p, task)
             \/ Locks(p) \/ Unlocks(p) \/ ProcessDies(p) \/ StopsServing(p)
             \/ ScansToReinitialize(p) \/ MakesEntry(p) \/ PlansMoves(p) \/ NotesItem(p)
             \/ BeginsFresh(p) \/ Completes(p)
             \/ ScansToRestore(p) \/ RestoresItem(p) \/ Restored(p) \/ UndoesItem(p)
      PROVE  FALSE
  BY <1>3, <1>8
     DEF Starts, Locks, Unlocks, ProcessDies, StopsServing, ScansToReinitialize, MakesEntry, PlansMoves,
         NotesItem, BeginsFresh, Completes, ScansToRestore, RestoresItem, Restored, UndoesItem, diskVars
<1>9. ~OperatorRemovesLock /\ ~OperatorTakesLock
  BY <1>3 DEF OperatorRemovesLock, OperatorTakesLock, diskVars
<1>10. Next
  BY <1>3 DEF vars, diskVars
<1> QED BY <1>4, <1>5, <1>6, <1>7, <1>8, <1>9, <1>10 DEF Next

\* No step of reinitialize, rollback or the daemon removes the last link of a
\* file or overwrites one, wherever earlier runs died.
THEOREM NoFileIsLost == Spec => NothingIsLost
<1>1. BundleInv /\ [Next]_vars => [Careful /\ (\E f \in Files : Loses(f)) => OperatorClears]_vars
  BY NoLoss
<1> QED BY <1>1, AlwaysBundle, PTL DEF Spec, NothingIsLost

\* Only two steps answer with success.
LEMMA OtherAnswers ==
  ASSUME TypeOK, [Next]_vars, NEW q \in Procs, ~Completes(q), ~Restored(q)
  PROVE  run'[q].answer \in {run[q].answer, "none", "error", "served"}
<1> DEFINE Plain(p) == run'[p].answer \in {run[p].answer, "none", "error", "served"}
<1>1. run \in [Procs -> Run] /\ run[q] \in Run
  BY DEF TypeOK
<1>2. ASSUME NEW p \in Procs, NEW r, Goes(p, r), p # q PROVE Plain(q)
  BY <1>1, <1>2 DEF Goes
<1>3. ASSUME NEW r, Goes(q, r), r.answer \in {run[q].answer, "none", "error", "served"} PROVE Plain(q)
  BY <1>1, <1>3 DEF Goes
<1>4. UNCHANGED run => Plain(q)
  OBVIOUS
<1>5. ASSUME NEW p \in Procs, Refuses(p) \/ Answers(p, "served") PROVE Plain(q)
  <2>1. PICK answer \in {"error", "served"} : Answers(p, answer)
    BY <1>5 DEF Refuses
  <2>2. [run[q] EXCEPT !.at = "leaving", !.answer = answer].answer = answer
    BY <1>1 DEF Run
  <2> QED BY <1>2, <1>3, <2>1, <2>2 DEF Answers
<1>6. ASSUME NEW p \in Procs, NEW where, At(p, where) PROVE Plain(q)
  <2>1. [run[q] EXCEPT !.at = where].answer = run[q].answer
    BY <1>1 DEF Run
  <2> QED BY <1>2, <1>3, <1>6, <2>1 DEF At
<1>7. ASSUME NEW p \in Procs, Goes(p, Idle) PROVE Plain(q)
  <2>1. Idle.answer = "none"
    BY DEF Idle
  <2> QED BY <1>2, <1>3, <1>7, <2>1
<1>8. ASSUME NEW p \in Procs, NEW task \in Tasks, Starts(p, task) PROVE Plain(q)
  <2> DEFINE r == [Idle EXCEPT !.task = task, !.at = "starting",
                               !.saw = IF task = "reinitialize" THEN Presence ELSE @]
  <2>1. r.answer = "none" /\ Goes(p, r)
    BY <1>8 DEF Idle, Starts
  <2> HIDE DEF r
  <2> QED BY <1>2, <1>3, <2>1
<1>9. ASSUME NEW p \in Procs, NEW where, NEW m, NEW todo, NEW way,
             Goes(p, [run[p] EXCEPT !.at = where, !.manifest = m, !.todo = todo, !.way = way])
      PROVE  Plain(q)
  <2>1. [run[q] EXCEPT !.at = where, !.manifest = m, !.todo = todo, !.way = way].answer = run[q].answer
    BY <1>1 DEF Run
  <2> QED BY <1>2, <1>3, <1>9, <2>1
<1>10. ASSUME NEW p \in Procs, NEW where, NEW m, NEW todo,
              Goes(p, [run[p] EXCEPT !.at = where, !.manifest = m, !.todo = todo])
       PROVE  Plain(q)
  <2>1. [run[q] EXCEPT !.at = where, !.manifest = m, !.todo = todo].answer = run[q].answer
    BY <1>1 DEF Run
  <2> QED BY <1>2, <1>3, <1>10, <2>1
<1>11. ASSUME NEW p \in Procs, NEW m, NEW where, Writes(p, m, where) PROVE Plain(q)
  <2>1. [run[q] EXCEPT !.at = where, !.manifest = m].answer = run[q].answer
    BY <1>1 DEF Run
  <2> QED BY <1>2, <1>3, <1>11, <2>1 DEF Writes
<1>12. ASSUME NEW p \in Procs, NEW where, NEW f,
              \/ Goes(p, [run[p] EXCEPT !.at = where, !.item = f, !.todo = @ \ {f}])
              \/ Goes(p, [run[p] EXCEPT !.at = where, !.item = f, !.done = @ \ {f}])
       PROVE  Plain(q)
  <2>1. /\ [run[q] EXCEPT !.at = where, !.item = f, !.todo = @ \ {f}].answer = run[q].answer
        /\ [run[q] EXCEPT !.at = where, !.item = f, !.done = @ \ {f}].answer = run[q].answer
    BY <1>1 DEF Run
  <2> QED BY <1>2, <1>3, <1>12, <2>1
<1>13. ASSUME NEW p \in Procs, Moved(p) PROVE Plain(q)
  <2>1. /\ [run[q] EXCEPT !.at = "noting"].answer = run[q].answer
        /\ [run[q] EXCEPT !.at = "restoring", !.done = @ \cup {run[q].item}].answer = run[q].answer
        /\ [run[q] EXCEPT !.at = "undoing"].answer = run[q].answer
    BY <1>1 DEF Run
  <2> QED BY <1>2, <1>3, <1>13, <2>1 DEF Moved
<1>14. ASSUME NEW p \in Procs, NEW files, MoveFails(p, files) PROVE Plain(q)
  <2>1. [run[q] EXCEPT !.at = "undoing", !.way = "in"].answer = run[q].answer
    BY <1>1 DEF Run
  <2> QED BY <1>2, <1>3, <1>5, <1>14, <2>1 DEF MoveFails
<1>15. ASSUME NEW p \in Procs, ScansToReinitialize(p) \/ MakesEntry(p) \/ PlansMoves(p) PROVE Plain(q)
  BY <1>5, <1>6, <1>10, <1>15 DEF ScansToReinitialize, ProbeRefuses, MakesEntry, PlansMoves
<1>16. ASSUME NEW p \in Procs, VisitsItem(p) \/ RestoresItem(p) \/ UndoesItem(p) PROVE Plain(q)
  BY <1>5, <1>12, <1>16 DEF VisitsItem, RestoresItem, UndoesItem
<1>17. ASSUME NEW p \in Procs, NotesItem(p) \/ BeginsFresh(p) PROVE Plain(q)
  BY <1>5, <1>11, <1>17 DEF NotesItem, BeginsFresh
<1>18. ASSUME NEW p \in Procs, Links(p) \/ Unlinks(p) PROVE Plain(q)
  BY <1>6, <1>13, <1>14, <1>18 DEF Links, Unlinks
<1>19. ASSUME NEW p \in Procs, Locks(p) \/ Unlocks(p) \/ ProcessDies(p) PROVE Plain(q)
  BY <1>4, <1>6, <1>7, <1>19 DEF Locks, Unlocks, ProcessDies
<1>20. ASSUME NEW p \in Procs, CreatesFresh(p) \/ Serves(p) \/ StopsServing(p) PROVE Plain(q)
  BY <1>4, <1>5, <1>6, <1>20 DEF CreatesFresh, Serves, StopsServing
<1>21. ASSUME NEW p \in Procs, ScansToRestore(p) PROVE Plain(q)
  BY <1>5, <1>9, <1>21 DEF ScansToRestore
<1>22. ASSUME NEW p \in Procs, Completes(p) \/ Restored(p) PROVE Plain(q)
  <2>1. p # q
    BY <1>22
  <2> QED BY <1>2, <1>22, <2>1 DEF Completes, Restored, Answers, Refuses
<1>23. OperatorClears \/ OperatorRemovesLock \/ OperatorTakesLock \/ UNCHANGED vars => UNCHANGED run
  BY DEF OperatorClears, OperatorRemovesLock, OperatorTakesLock, vars
<1> HIDE DEF Plain
<1>24. Plain(q)
  <2>1. CASE OperatorClears \/ OperatorRemovesLock \/ OperatorTakesLock \/ UNCHANGED vars
    BY <1>4, <1>23, <2>1
  <2>2. ASSUME NEW p \in Procs,
               \/ \E task \in Tasks : Starts(p, task)
               \/ Locks(p) \/ Unlocks(p)
               \/ ScansToReinitialize(p) \/ MakesEntry(p) \/ PlansMoves(p) \/ VisitsItem(p) \/ NotesItem(p)
               \/ BeginsFresh(p) \/ CreatesFresh(p) \/ Completes(p)
               \/ ScansToRestore(p) \/ RestoresItem(p) \/ Restored(p) \/ UndoesItem(p)
               \/ Links(p) \/ Unlinks(p)
               \/ Serves(p) \/ StopsServing(p) \/ ProcessDies(p)
        PROVE  Plain(q)
    BY <1>8, <1>15, <1>16, <1>17, <1>18, <1>19, <1>20, <1>21, <1>22, <2>2
  <2> QED BY <2>1, <2>2 DEF Next
<1> QED BY <1>24 DEF Plain

LEMMA TrueAnswers ==
  ASSUME BundleInv, [Next]_vars, NEW p \in Procs, Careful, run'[p].answer # run[p].answer
  PROVE  LET items == run[p].manifest.items IN
         /\ run'[p].answer = "reinitialized" =>
              /\ Listed(items) = Present(entry)
              /\ \A f \in Required : root[f] # 0 /\ root[f] # entry[f]
         /\ run'[p].answer = "rolled-back" =>
              Listed(items) = Present(root) /\ Present(entry) = {}
<1> DEFINE r == run[p]
<1>1. TypeOK /\ r \in Run
  BY DEF BundleInv, TypeOK
<1>2. CASE ~Completes(p) /\ ~Restored(p)
  BY <1>1, <1>2, OtherAnswers
<1>3. CASE Completes(p)
  <2>1. r.at = "completing" /\ run'[p].answer \in {"error", "reinitialized"}
    BY <1>1, <1>3, AnswersType DEF Completes, Refuses
  <2>2. Disk /\ Freshens(r)
    BY <2>1, WorkFacts DEF Works, Phase
  <2>3. /\ manifest.status = "initializing" /\ ~NoFiles /\ r.manifest = manifest
        /\ \A f \in Required : root[f] # 0
    BY <2>1, <2>2 DEF Freshens, NoFiles, Present
  <2>4. \A f \in Files : Under(f) # "unlisted" <=> entry[f] # 0
    BY <2>2, <2>3 DEF Disk, EntryKept, AllMoved
  <2>5. \A f \in Required : f \in Files /\ root[f] # entry[f]
    BY <2>2, <2>3 DEF Disk, EntryKept, AllMoved, Files
  <2>6. Listed(r.manifest.items) = Present(entry)
    BY <2>3, <2>4 DEF Listed, Present, Under
  <2> QED BY <2>1, <2>3, <2>5, <2>6
<1>4. CASE Restored(p)
  <2>1. r.at = "restoring" /\ r.todo = {} /\ InHand(r) = {} /\ run'[p].answer = "rolled-back"
    BY <1>1, <1>4, AnswersType DEF Restored, InHand
  <2>2. Disk /\ MovesOut(r) /\ r.way = "out"
    BY <2>1, WorkFacts DEF Works, Phase, MovesOut
  <2>3. \A f \in Files : Under(f) # "unlisted" => f \in r.done
    BY <2>1, <2>2 DEF MovesOut, Listed, Under
  <2>4. \A f \in Files : entry[f] = 0 /\ (Under(f) # "unlisted" <=> root[f] # 0)
    BY <2>2, <2>3 DEF MovesOut, Out, Disk, EntryKept
  <2>5. r.manifest = manifest
    BY <2>2 DEF MovesOut
  <2>6. Listed(r.manifest.items) = Present(root) /\ Present(entry) = {}
    BY <2>4, <2>5 DEF Listed, Present, Under
  <2> QED BY <2>1, <2>6
<1> QED BY <1>2, <1>3, <1>4

\* Whatever died or failed before: after `reinitialized` the entry keeps every
\* listed file and the members are fresh, after `rolled-back` every listed
\* file is back and the entry is empty.
THEOREM AnswersAreTrue == Spec => SuccessIsTrue
<1> DEFINE True ==
      \A p \in Procs : Careful /\ run'[p].answer # run[p].answer =>
        LET items == run[p].manifest.items IN
        /\ run'[p].answer = "reinitialized" =>
             /\ Listed(items) = Present(entry)
             /\ \A f \in Required : root[f] # 0 /\ root[f] # entry[f]
        /\ run'[p].answer = "rolled-back" =>
             Listed(items) = Present(root) /\ Present(entry) = {}
<1>1. BundleInv /\ [Next]_vars => [True]_vars
  BY TrueAnswers
<1>2. SuccessIsTrue <=> [][True]_vars
  BY DEF SuccessIsTrue
<1> QED BY <1>1, <1>2, AlwaysBundle, PTL DEF Spec

=============================================================================
