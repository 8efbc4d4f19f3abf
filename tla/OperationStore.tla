--------------------------- MODULE OperationStore ---------------------------
(***************************************************************************)
(* The daemon's store of operation records (src/service/notes-undo-store.ts *)
(* over src/service/notes-operation-store-fs.ts): one file per record,      *)
(* replaced by write, fsync, rename, fsync of the directory.                *)
(*                                                                         *)
(* `disk` is the directory as the running system sees it, `stable` what a   *)
(* power loss is sure to leave.  The records that the store holds in memory *)
(* are `disk` whenever it is open and no replacement is under way, so they  *)
(* are not a variable.  A temporary file is never read back, so it is not    *)
(* one either.                                                             *)
(***************************************************************************)
EXTENDS Naturals, FiniteSets

CONSTANTS
  OpBound,     \* bound: operation handles minted
  None,        \* no record, and nobody
  Size,        \* the length of a frame, by what it depends on
  MaxRecords,  \* quota: records
  MaxBytes     \* quota: bytes of all records and of the temporary file

ASSUME OpBoundAssumption == OpBound \in Nat
ASSUME QuotaAssumption == MaxRecords \in Nat \ {0} /\ MaxBytes \in Nat \ {0}

VARIABLES
  disk,     \* the record files
  stable,   \* the record files a power loss leaves
  open,     \* the store is usable: opened, and no i/o failed since
  syncing,  \* whose replacement is renamed and waits for the directory's fsync
  minted,   \* handles 1..minted have been given out
  aged      \* handles 1..aged are past their expiry

storeVars == <<disk, stable, open, syncing, minted, aged>>

Handles == 1..OpBound
States == {"prepared", "committing", "committed", "unresolved", "undone", "aborted"}

\* transitions: what may follow each state.
Allowed(s) ==
  CASE s = "prepared"   -> {"committing", "aborted"}
    [] s = "committing" -> {"committed", "unresolved", "aborted"}
    [] s = "committed"  -> {"undone", "unresolved"}
    [] s = "unresolved" -> {"committed", "aborted"}
    [] OTHER            -> {}

StateOf(files, h) == IF files[h] = None THEN "missing" ELSE files[h].state

\* A frame holds the name of the state and the payload, which a commit
\* rewrites: an edit's gains the revision it left, a create's names the note
\* instead of the notebook.  A transition may lengthen the frame or shorten it;
\* "committing" and "unresolved" happen to be equally long.
Forms == States \X {"create", "edit"} \X BOOLEAN
ASSUME SizeAssumption ==
  /\ Size \in [Forms -> Nat \ {0}]
  /\ \A kind \in {"create", "edit"}, known \in BOOLEAN :
       Size[<<"committing", kind, known>>] = Size[<<"unresolved", kind, known>>]

Bytes(r) == Size[<<r.state, r.kind, r.post # 0>>]

Held(files) == {h \in Handles : files[h] # None}

\* The lengths of the files, added up: as many units of each as it is long.
Units(files) == UNION {{h} \X (1..Bytes(files[h])) : h \in Held(files)}
Total(files) == Cardinality(Units(files))

\* What opening checks, before it reads a single record.
WithinBounds(files) == Cardinality(Held(files)) <= MaxRecords /\ Total(files) <= MaxBytes

AdmitsOneTooMany(files, h, r) ==
  /\ h \in Held(files) \/ Cardinality(Held(files)) <= MaxRecords
  /\ Total(files) + Bytes(r) <= MaxBytes

\* persist(): both the replaced frame and its replacement count.
Admits(files, h, r) ==
  /\ h \in Held(files) \/ Cardinality(Held(files)) < MaxRecords
  /\ Total(files) + Bytes(r) <= MaxBytes
-----------------------------------------------------------------------------
(* Every store operation runs alone, and starts by removing what expired.  *)

Ready == open /\ syncing = None

ExpirableAll == States

\* A record with an uncertain outcome never expires.
Expirable == {"prepared", "aborted", "undone", "committed"}
Expired(files) == {h \in 1..aged : StateOf(files, h) \in Expirable}
Without(files, hs) == [h \in Handles |-> IF h \in hs THEN None ELSE files[h]]
Kept(files) == Without(files, Expired(files))

\* expire(): each removal is followed by an fsync of the directory.
Expires ==
  /\ disk' = Kept(disk)
  /\ stable' = IF Expired(disk) = {} THEN stable ELSE Kept(disk)

\* get(), list(), and every operation that is refused after expire().
Reads == Ready /\ Expires /\ UNCHANGED <<open, syncing, minted, aged>>

\* insert() and transition() up to the rename: what expired is gone durably,
\* the new record is in the directory, the directory is not yet synced.
Renames(by, h, r) ==
  /\ Ready
  /\ Admits(Kept(disk), h, r)
  /\ disk' = [Kept(disk) EXCEPT ![h] = r]
  /\ stable' = IF Expired(disk) = {} THEN stable ELSE Kept(disk)
  /\ syncing' = by
  /\ UNCHANGED <<open, aged>>

SyncsDirectoryNot ==
  /\ syncing' = None
  /\ UNCHANGED <<disk, stable, open, minted, aged>>

\* syncDirectory(): the replacement is durable, and the caller is answered.
SyncsDirectory ==
  /\ stable' = disk
  /\ syncing' = None
  /\ UNCHANGED <<disk, open, minted, aged>>

\* io(): any failure closes the store.  It may strike between two removals
\* of expire(), before the rename, or after it.
Poisons ==
  /\ open
  /\ open' = FALSE
  /\ \E hs \in IF syncing = None THEN SUBSET Expired(disk) ELSE {{}} :
       /\ disk' = Without(disk, hs)
       /\ stable' \in {stable} \cup {disk' : x \in hs}
  /\ syncing' = None
  /\ UNCHANGED <<minted, aged>>

\* acknowledge(): the daemon has no caller of it yet.
Acknowledges(h) ==
  /\ Ready
  /\ StateOf(Kept(disk), h) \in {"aborted", "undone"}
  /\ disk' = Without(Kept(disk), {h})
  /\ stable' = disk'
  /\ UNCHANGED <<open, syncing, minted, aged>>

Ages ==
  /\ aged < minted
  /\ aged' = aged + 1
  /\ UNCHANGED <<disk, stable, open, syncing, minted>>
-----------------------------------------------------------------------------
(* Stopping and opening.                                                   *)

\* The process ends: a kill leaves the directory, a power loss may take back
\* any change that was not synced.
Stops(powerLost) ==
  /\ open' = FALSE
  /\ syncing' = None
  /\ \E hs \in IF powerLost THEN SUBSET {h \in Handles : disk[h] # stable[h]} ELSE {{}} :
       disk' = [h \in Handles |-> IF h \in hs THEN stable[h] ELSE disk[h]]
  /\ stable' = IF powerLost THEN disk' ELSE stable
  /\ UNCHANGED <<minted, aged>>

Interrupted == {h \in Handles : StateOf(disk, h) = "committing"}
Resolving(hs) == [h \in Handles |-> IF h \in hs THEN [disk[h] EXCEPT !.state = "unresolved"]
                                                ELSE disk[h]]

\* The directory is within the bounds, and so is the replacement of every
\* record found in `committing`.
Openable == WithinBounds(disk) /\ \A h \in Interrupted : Admits(disk, h, disk[h])

\* Every record found in `committing` is persisted as `unresolved`, and only
\* then does what expired make room.
Opens ==
  /\ Openable
  /\ open' = TRUE
  /\ disk' = Kept(Resolving(Interrupted))
  /\ stable' \in IF disk' = disk THEN {stable, disk'} ELSE {disk'}
  /\ UNCHANGED <<syncing, minted, aged>>

\* A failed open stops at the bounds, at the first record it cannot persist,
\* or at an i/o failure anywhere.
OpenFails(ioFails) ==
  /\ ioFails \/ ~Openable
  /\ open' = FALSE
  /\ \/ \E hs \in SUBSET Interrupted :
          /\ hs # {} => WithinBounds(disk)
          /\ \A h \in hs : Admits(disk, h, disk[h])
          /\ disk' = Resolving(hs)
     \/ \E hs \in SUBSET Expired(Resolving(Interrupted)) :
          /\ ioFails /\ Openable
          /\ disk' = Without(Resolving(Interrupted), hs)
  /\ stable' \in {stable, disk'}
  /\ UNCHANGED <<syncing, minted, aged>>
=============================================================================
