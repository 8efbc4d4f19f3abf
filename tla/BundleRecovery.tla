--------------------------- MODULE BundleRecovery ---------------------------
(***************************************************************************)
(* Recovery of the production database bundle                              *)
(* (src/operator/recover-bundle.ts): `reinitialize` moves every file into a *)
(* quarantine entry and starts over with fresh members, `rollback` moves    *)
(* them back.  Both, and the daemon, take the lock of StateLock; each of    *)
(* them may die after any change on the disk.                               *)
(*                                                                         *)
(* There is one entry at a time.  A file is known by its generation, which  *)
(* is what the inode tells: 0 is no file, 1 an original, more what was made *)
(* since.  Left out: symlinks and other unsafe files, and the sidecars that  *)
(* SQLite makes and removes itself while a database is open.               *)
(***************************************************************************)
EXTENDS StateLock, FiniteSetsExt

CONSTANTS
  Required,      \* the members a bundle must have
  Extra,         \* the optional member and sidecars
  DeathBound,    \* bound: deaths of a process
  FailureBound   \* bound: file operations that fail

ASSUME BundleAssumption ==
  Required # {} /\ Required \cap Extra = {} /\ DeathBound \in Nat /\ FailureBound \in Nat

VARIABLES
  root,        \* the files of the state directory
  entry,       \* the files of the quarantine entry
  manifest,    \* the entry's manifest: no entry, an entry without one, its status
  run,         \* what each process is doing
  meddled,     \* the daemon made a file beside an entry
  unfinished,  \* a rollback left the entry without all of its files
  deaths,      \* deaths so far
  failures     \* failures so far

diskVars == <<root, entry, manifest>>
ghostVars == <<meddled, unfinished>>
boundVars == <<deaths, failures>>
vars == <<lockVars, diskVars, run, ghostVars, boundVars>>

Files == Required \cup Extra
Present(dir) == {f \in Files : dir[f] # 0}
NoItems == [f \in Files |-> "unlisted"]
NoEntry == [status |-> "none", items |-> NoItems]
Listed(items) == {f \in Files : items[f] # "unlisted"}

\* `manifest` is the process's own copy; `todo` the items still to visit,
\* `done` those restored; `way` the direction of the move of `item`.
Idle == [task |-> "none", at |-> "idle", saw |-> "complete", manifest |-> NoEntry,
         todo |-> {}, done |-> {}, item |-> CHOOSE f \in Files : TRUE, way |-> "in", answer |-> "none"]

\* memberPresence().
Presence ==
  IF Required \subseteq Present(root) THEN "complete"
  ELSE IF Present(root) # {} THEN "partial" ELSE "missing"

\* planBundleItems().
Plan == [f \in Files |-> IF f \in Required \cup Present(root) THEN "pending" ELSE "unlisted"]

Unlisted(items) == ~(Present(root) \cup Present(entry) \subseteq Listed(items))
SameInode(f) == root[f] # 0 /\ root[f] = entry[f]

VerdictByNames(f, state) ==
  IF root[f] # 0 /\ entry[f] # 0 THEN "complete"
  ELSE IF root[f] = 0 /\ entry[f] # 0 THEN "moved"
  ELSE IF root[f] # 0 /\ entry[f] = 0 /\ state = "pending" THEN "move"
  ELSE "inconsistent"

VerdictStrict(f, state) ==
  IF root[f] = 0 /\ entry[f] # 0 THEN "moved"
  ELSE IF root[f] # 0 /\ entry[f] = 0 /\ state = "pending" THEN "move"
  ELSE "inconsistent"

\* reconcileItem(), its removal of the source's second link apart.
Verdict(f, state) ==
  IF SameInode(f) THEN "complete"
  ELSE IF root[f] = 0 /\ entry[f] # 0 THEN "moved"
  ELSE IF root[f] # 0 /\ entry[f] = 0 /\ state = "pending" THEN "move"
  ELSE "inconsistent"

\* readIncompleteManifest(), and the checks of the unlisted.
Resumes(m) == m.status \in {"incomplete", "initializing"} /\ ~Unlisted(m.items)

RestoresBesideUnlisted(m) ==
  /\ m.status \in {"incomplete", "complete"}
  /\ Listed(m.items) \subseteq Present(entry)
  /\ Present(root) \cap Listed(m.items) = {}

\* What restoreBundleEntry() asks of the entry and of the state directory.
Restores(m) ==
  /\ m.status \in {"incomplete", "complete"}
  /\ Listed(m.items) \subseteq Present(entry)
  /\ ~Unlisted(m.items)
  /\ Present(root) \cap Listed(m.items) = {}

Goes(p, r) == run' = [run EXCEPT ![p] = r]
At(p, where) == Goes(p, [run[p] EXCEPT !.at = where])
Answers(p, answer) == Goes(p, [run[p] EXCEPT !.at = "leaving", !.answer = answer])
Refuses(p) == Answers(p, "error")

Init ==
  /\ LockInit
  /\ root \in {[f \in Files |-> IF f \in Required \cup more THEN 1 ELSE 0] : more \in SUBSET Extra}
  /\ entry = [f \in Files |-> 0]
  /\ manifest = NoEntry
  /\ run = [p \in Procs |-> Idle]
  /\ meddled = FALSE
  /\ unfinished = FALSE
  /\ deaths = 0
  /\ failures = 0
-----------------------------------------------------------------------------
(* Every command: the state directory is looked at, then locked.           *)

Tasks == {"reinitialize", "rollback", "serve"}

Busy == {p \in Procs : run[p].at # "idle"}
OnlyDaemons == \A p \in Procs : run[p].task \in {"none", "serve"}

\* (Bounds: a third process, and any after a lock was taken from its holder,
\* only if all of them are the daemon.)
Starts(p, task) ==
  /\ run[p].at = "idle"
  /\ (Careful /\ Cardinality(Busy) < 2) \/ (OnlyDaemons /\ task = "serve")
  /\ Goes(p, [Idle EXCEPT !.task = task, !.at = "starting",
                          !.saw = IF task = "reinitialize" THEN Presence ELSE @])
  /\ UNCHANGED <<lockVars, diskVars, ghostVars, boundVars>>

Locks(p) ==
  /\ run[p].at = "starting"
  /\ \/ Acquires(p) /\ At(p, "scanning")
     \/ AcquireRefused(p) /\ Goes(p, Idle)
     \/ AcquireLeavesFile(p) /\ Goes(p, Idle)
  /\ UNCHANGED <<diskVars, ghostVars, boundVars>>

Unlocks(p) ==
  /\ run[p].at = "leaving"
  /\ \/ SetsAside(p) /\ UNCHANGED run
     \/ LeavesLock(p) /\ Goes(p, Idle)
     \/ DropsOwnLock(p) /\ Goes(p, Idle)
  /\ UNCHANGED <<diskVars, ghostVars, boundVars>>

\* A file operation fails.
Fails == failures < FailureBound /\ failures' = failures + 1
Succeeds == UNCHANGED failures

\* discardEmptyEntry(): only an entry with nothing but its manifest.
Discarded(files, m) == IF \A f \in Files : files[f] = 0 THEN NoEntry ELSE m
-----------------------------------------------------------------------------
(* reinitializeProductionBundle().                                         *)

\* scanQuarantine() removes an entry that has nothing, not even a manifest.
Scanned == IF manifest.status = "bare" THEN NoEntry ELSE manifest

\* The required members that are not moved yet turn out to be unreadable.
ProbeRefuses(p) == Refuses(p)

\* What the scan found, what was seen before the lock, and a last look.
ScansToReinitialize(p) ==
  LET r == run[p] IN
  /\ r.at = "scanning" /\ r.task = "reinitialize"
  /\ manifest' = Scanned
  /\ \/ /\ manifest'.status = "none" /\ r.saw = "complete" /\ Presence = "complete"
        /\ (At(p, "entering") \/ ProbeRefuses(p))
     \/ /\ Resumes(manifest)
        /\ \/ Goes(p, [r EXCEPT !.at = "moving", !.manifest = manifest, !.todo = Listed(manifest.items)])
           \/ ProbeRefuses(p)
     \/ /\ ~(manifest'.status = "none" /\ r.saw = "complete" /\ Presence = "complete")
        /\ ~Resumes(manifest)
        /\ Refuses(p)
  /\ UNCHANGED <<lockVars, root, entry, ghostVars, boundVars>>

MakesEntry(p) ==
  /\ run[p].at = "entering"
  /\ \/ Succeeds /\ manifest' = [NoEntry EXCEPT !.status = "bare"] /\ At(p, "planning")
     \/ Fails /\ UNCHANGED manifest /\ Refuses(p)
  /\ UNCHANGED <<lockVars, root, entry, ghostVars, deaths>>

\* writeManifest(): a rename, or nothing.
Writes(p, m, where) ==
  /\ Succeeds
  /\ manifest' = m
  /\ Goes(p, [run[p] EXCEPT !.at = where, !.manifest = m])

\* The first manifest is there before the first move.
PlansMoves(p) ==
  LET m == [status |-> "incomplete", items |-> Plan] IN
  /\ run[p].at = "planning"
  /\ \/ /\ Succeeds
        /\ manifest' = m
        /\ Goes(p, [run[p] EXCEPT !.at = "moving", !.manifest = m, !.todo = Listed(Plan)])
     \/ Fails /\ manifest' = Discarded(entry, manifest) /\ Refuses(p)
  /\ UNCHANGED <<lockVars, root, entry, ghostVars, deaths>>

\* The next item, in any order: the code has one.
VisitsItem(p) ==
  LET r == run[p] IN
  /\ r.at = "moving"
  /\ \E f \in r.todo :
       LET verdict == Verdict(f, r.manifest.items[f])
           visit(where) == Goes(p, [r EXCEPT !.at = where, !.item = f, !.todo = @ \ {f}]) IN
       IF r.manifest.status = "initializing"
         THEN /\ Succeeds
              /\ IF r.manifest.items[f] = "moved" /\ entry[f] # 0
                   THEN visit("moving") ELSE Refuses(p)
              /\ UNCHANGED root
         ELSE \/ verdict = "inconsistent" /\ Succeeds /\ Refuses(p) /\ UNCHANGED root
              \/ verdict = "move" /\ Succeeds /\ visit("linking") /\ UNCHANGED root
              \/ verdict = "moved" /\ Succeeds /\ visit("noting") /\ UNCHANGED root
              \/ verdict = "complete" /\ Succeeds /\ visit("noting") /\ root' = [root EXCEPT ![f] = 0]
              \/ verdict = "complete" /\ Fails /\ Refuses(p) /\ UNCHANGED root
  /\ UNCHANGED <<lockVars, entry, manifest, ghostVars, deaths>>

\* The checkpoint of one item.
NotesItem(p) ==
  /\ run[p].at = "noting"
  /\ \/ Writes(p, [run[p].manifest EXCEPT !.items[run[p].item] = "moved"], "moving")
     \/ Fails /\ UNCHANGED manifest /\ Refuses(p)
  /\ UNCHANGED <<lockVars, root, entry, ghostVars, deaths>>

BeginsFreshEarly(p) ==
  /\ run[p].at = "moving"
  /\ Writes(p, [run[p].manifest EXCEPT !.status = "initializing"], "creating")
  /\ UNCHANGED <<lockVars, root, entry, ghostVars, deaths>>

\* Every item has been visited: `initializing` is on the disk before the
\* first fresh member is.
BeginsFresh(p) ==
  /\ run[p].at = "moving" /\ run[p].todo = {}
  /\ \/ Writes(p, [run[p].manifest EXCEPT !.status = "initializing"], "creating")
     \/ Fails /\ UNCHANGED manifest /\ Refuses(p)
  /\ UNCHANGED <<lockVars, root, entry, ghostVars, deaths>>

NewFile(f) == 1 + Max({root[f], entry[f]})
Missing == Required \ Present(root)

\* A member that is there is opened, one that is not is made.
CreatesFresh(p) ==
  /\ run[p].at = "creating"
  /\ \/ /\ Missing # {} /\ Succeeds /\ UNCHANGED run
        /\ \E f \in Missing : root' = [root EXCEPT ![f] = NewFile(f)]
     \/ Missing = {} /\ Succeeds /\ At(p, "completing") /\ UNCHANGED root
     \/ Fails /\ UNCHANGED root /\ Refuses(p)
  /\ UNCHANGED <<lockVars, entry, manifest, ghostVars, deaths>>

Completes(p) ==
  LET m == [run[p].manifest EXCEPT !.status = "complete"] IN
  /\ run[p].at = "completing"
  /\ \/ Succeeds /\ manifest' = m /\ Answers(p, "reinitialized")
     \/ Fails /\ UNCHANGED manifest /\ Refuses(p)
  /\ UNCHANGED <<lockVars, root, entry, ghostVars, deaths>>
-----------------------------------------------------------------------------
(* rollbackProductionBundle().                                             *)

ScansToRestore(p) ==
  LET r == run[p] IN
  /\ r.at = "scanning" /\ r.task = "rollback"
  /\ IF Restores(manifest)
       THEN Goes(p, [r EXCEPT !.at = "restoring", !.manifest = manifest,
                              !.todo = Listed(manifest.items), !.way = "out"])
       ELSE Refuses(p)
  /\ UNCHANGED <<lockVars, diskVars, ghostVars, boundVars>>

\* The required members first.
RestoresItem(p) ==
  LET r == run[p]
      next == IF r.todo \cap Required # {} THEN r.todo \cap Required ELSE r.todo IN
  /\ r.at = "restoring"
  /\ \E f \in next : Goes(p, [r EXCEPT !.at = "linking", !.item = f, !.todo = @ \ {f}])
  /\ UNCHANGED <<lockVars, diskVars, ghostVars, boundVars>>

\* discardEmptyEntry() is best effort.
Restored(p) ==
  /\ run[p].at = "restoring" /\ run[p].todo = {}
  /\ Answers(p, "rolled-back")
  /\ \/ Succeeds /\ manifest' = Discarded(entry, manifest) /\ UNCHANGED unfinished
     \/ Fails /\ UNCHANGED manifest /\ unfinished' = TRUE
  /\ UNCHANGED <<lockVars, root, entry, meddled, deaths>>

\* After a failed move those that went through are taken back.
UndoesItem(p) ==
  LET r == run[p] IN
  /\ r.at = "undoing"
  /\ IF r.done = {} THEN Refuses(p)
     ELSE \E f \in r.done : Goes(p, [r EXCEPT !.at = "linking", !.item = f, !.done = @ \ {f}])
  /\ UNCHANGED <<lockVars, diskVars, ghostVars, boundVars>>
-----------------------------------------------------------------------------
(* moveNoReplace(): a link that fails if the destination exists, then an    *)
(* unlink of the source.  `in` is into the entry, `out` is out of it.       *)

\* What the caller does with a move that went through, or that failed.
Moved(p) ==
  LET r == run[p] IN
  /\ Goes(p, IF r.task = "reinitialize" THEN [r EXCEPT !.at = "noting"]
             ELSE IF r.way = "out" THEN [r EXCEPT !.at = "restoring", !.done = @ \cup {r.item}]
             ELSE [r EXCEPT !.at = "undoing"])
  /\ UNCHANGED <<manifest, unfinished>>

MoveFails(p, files) ==
  LET r == run[p] IN
  IF r.task = "reinitialize"
    THEN Refuses(p) /\ manifest' = Discarded(files, manifest) /\ UNCHANGED unfinished
    ELSE /\ Goes(p, [r EXCEPT !.at = "undoing", !.way = "in"])
         /\ unfinished' = (unfinished \/ r.way = "in")
         /\ UNCHANGED manifest

Source(p) == IF run[p].way = "in" THEN root[run[p].item] ELSE entry[run[p].item]
Target(p) == IF run[p].way = "in" THEN entry[run[p].item] ELSE root[run[p].item]
SetsSource(p, file) ==
  IF run[p].way = "in" THEN root' = [root EXCEPT ![run[p].item] = file] /\ UNCHANGED entry
                       ELSE entry' = [entry EXCEPT ![run[p].item] = file] /\ UNCHANGED root
SetsTarget(p, file) ==
  IF run[p].way = "in" THEN entry' = [entry EXCEPT ![run[p].item] = file] /\ UNCHANGED root
                       ELSE root' = [root EXCEPT ![run[p].item] = file] /\ UNCHANGED entry

Links(p) ==
  /\ run[p].at = "linking"
  /\ \/ /\ Source(p) # 0 /\ Target(p) = 0
        /\ Succeeds
        /\ SetsTarget(p, Source(p))
        /\ At(p, "unlinking")
        /\ UNCHANGED <<manifest, unfinished>>
     \/ /\ IF Source(p) # 0 /\ Target(p) = 0 THEN Fails ELSE Succeeds
        /\ UNCHANGED <<root, entry>>
        /\ MoveFails(p, entry)
  /\ UNCHANGED <<lockVars, meddled, deaths>>

\* When the source cannot be unlinked, or is gone, the new link is taken back.
Unlinks(p) ==
  /\ run[p].at = "unlinking"
  /\ \/ /\ Source(p) # 0
        /\ Succeeds
        /\ SetsSource(p, 0)
        /\ Moved(p)
     \/ /\ IF Source(p) # 0 THEN Fails ELSE Succeeds
        /\ SetsTarget(p, 0)
        /\ MoveFails(p, entry')
     \/ /\ IF Source(p) # 0 THEN Fails ELSE Succeeds
        /\ UNCHANGED <<root, entry>>
        /\ MoveFails(p, entry)
  /\ UNCHANGED <<lockVars, meddled, deaths>>
-----------------------------------------------------------------------------
(* The daemon, the operator, and death.                                    *)

\* The daemon makes the members it does not find, perhaps an optional file,
\* and never looks at the quarantine.
Serves(p) ==
  /\ run[p].at = "scanning" /\ run[p].task = "serve"
  /\ \/ /\ \E f \in Missing \cup (Extra \ Present(root)) : root' = [root EXCEPT ![f] = NewFile(f)]
        /\ meddled' = (meddled \/ manifest.status # "none")
        /\ UNCHANGED run
     \/ Missing = {} /\ At(p, "serving") /\ UNCHANGED <<root, meddled>>
     \/ Refuses(p) /\ UNCHANGED <<root, meddled>>
  /\ UNCHANGED <<lockVars, entry, manifest, unfinished, boundVars>>

StopsServing(p) ==
  /\ run[p].at = "serving"
  /\ Answers(p, "served")
  /\ UNCHANGED <<lockVars, diskVars, ghostVars, boundVars>>

\* A rollback that has begun to move is not journaled.
Restoring(r) ==
  r.task = "rollback" /\ r.at \in {"restoring", "linking", "unlinking", "undoing"}

ProcessDies(p) ==
  /\ deaths < DeathBound
  /\ Dies(p)
  /\ Goes(p, Idle)
  /\ deaths' = deaths + 1
  /\ unfinished' = (unfinished \/ Restoring(run[p]))
  /\ UNCHANGED <<diskVars, meddled, failures>>

Unlocked == lock = None /\ \A p \in Procs : run[p].at \in {"idle", "starting"}

\* What stands in the way of the entry's files; an operator takes away some
\* of it by hand.
Blocking == {f \in Present(root) : ~SameInode(f) /\ (entry[f] # 0 \/ manifest.items[f] = "unlisted")}

OperatorClears ==
  /\ Unlocked
  /\ manifest.status \notin {"none", "bare"}
  /\ \E some \in SUBSET Blocking \ {{}} :
       /\ root' = [f \in Files |-> IF f \in some THEN 0 ELSE root[f]]
       /\ meddled' = (meddled /\ some # Blocking)
  /\ UNCHANGED <<lockVars, entry, manifest, run, unfinished, boundVars>>

OperatorRemovesLock == OperatorUnlocks /\ UNCHANGED <<diskVars, run, ghostVars, boundVars>>

\* (Bound: this befalls daemons, before any recovery.)
OperatorTakesLock ==
  /\ manifest.status = "none" /\ OnlyDaemons
  /\ OperatorUnlocksHolder
  /\ UNCHANGED <<diskVars, run, ghostVars, boundVars>>

Next ==
  \/ \E p \in Procs :
       \/ \E task \in Tasks : Starts(p, task)
       \/ Locks(p) \/ Unlocks(p)
       \/ ScansToReinitialize(p) \/ MakesEntry(p) \/ PlansMoves(p) \/ VisitsItem(p) \/ NotesItem(p)
       \/ BeginsFresh(p) \/ CreatesFresh(p) \/ Completes(p)
       \/ ScansToRestore(p) \/ RestoresItem(p) \/ Restored(p) \/ UndoesItem(p)
       \/ Links(p) \/ Unlinks(p)
       \/ Serves(p) \/ StopsServing(p) \/ ProcessDies(p)
  \/ OperatorClears \/ OperatorRemovesLock \/ OperatorTakesLock

Spec == Init /\ [][Next]_vars
-----------------------------------------------------------------------------
(* Properties.                                                             *)

Manifest ==
  [status : {"none", "bare", "incomplete", "initializing", "complete"},
   items : [Files -> {"unlisted", "pending", "moved"}]]

Run ==
  [task : Tasks \cup {"none"},
   at : {"idle", "starting", "scanning", "entering", "planning", "moving", "noting", "creating",
         "completing", "restoring", "undoing", "linking", "unlinking", "serving", "leaving"},
   saw : {"complete", "partial", "missing"}, manifest : Manifest,
   todo : SUBSET Files, done : SUBSET Files, item : Files, way : {"in", "out"},
   answer : {"none", "error", "reinitialized", "rolled-back", "served"}]

\* Every variable has its type.
TypeOK ==
  /\ LockTypeOK
  /\ root \in [Files -> Nat] /\ entry \in [Files -> Nat]
  /\ manifest \in Manifest
  /\ run \in [Procs -> Run]
  /\ meddled \in BOOLEAN /\ unfinished \in BOOLEAN
  /\ deaths \in Nat /\ failures \in Nat

\* Of the file f a generation disappears.
Loses(f) == ~({root[f], entry[f]} \ {0} \subseteq {root'[f], entry'[f]})

\* No step of a recovery or of the daemon removes the last link of a file or
\* overwrites one, wherever earlier runs died.  (A lock that an operator took
\* from its holder lets two recoveries undo each other's links.)
NothingIsLost ==
  [][Careful /\ (\E f \in Files : Loses(f)) => OperatorClears]_vars

\* Originals and fresh members never serve together: the state directory
\* holds no mixture of both, unless the daemon was started on top of an entry.
NeverMixed ==
  Careful /\ ~meddled => ~\E f, g \in Required : root[f] = 1 /\ root[g] > 1

CanGoOn ==
  \/ manifest.status \in {"none", "bare"} /\ Presence = "complete"
  \/ manifest.status = "complete"
  \/ /\ Resumes(manifest)
     /\ \A f \in Listed(manifest.items) :
          IF manifest.status = "initializing" THEN manifest.items[f] = "moved" /\ entry[f] # 0
          ELSE Verdict(f, manifest.items[f]) # "inconsistent"

\* Wherever a reinitialize died or failed, the next one is not refused.
AlwaysResumable == Unlocked /\ Careful /\ ~meddled /\ ~unfinished => CanGoOn

\* What a command answers is so: after `reinitialized` every listed file is
\* kept in the entry and the members are fresh ones, after `rolled-back` every
\* listed file is back and the entry has none.
SuccessIsTrue ==
  [][\A p \in Procs : Careful /\ run'[p].answer # run[p].answer =>
       LET items == run[p].manifest.items IN
       /\ run'[p].answer = "reinitialized" =>
            /\ Listed(items) = Present(entry)
            /\ \A f \in Required : root[f] # 0 /\ root[f] # entry[f]
       /\ run'[p].answer = "rolled-back" =>
            Listed(items) = Present(root) /\ Present(entry) = {}]_vars
=============================================================================
