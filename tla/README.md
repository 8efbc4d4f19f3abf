# NookBridge: models, checks and proofs

NookBridge runs a daemon, `nookd`, around an upstream Notesnook database. MCP
clients and the operator's tools read and write notes through it. A write is
local first: it goes into the database, and a durable *marker* goes into a queue
of writes that are not yet upstream. Only an explicit sync uploads, and an upload
is refused while it would carry a write that neither MCP made nor the operator
approved. This directory models that core (the queue and its drain, the gate
around the database, the sagas that change a note, the approval dialogue), and
what stands around it: the operator's reversible edits and their record store,
the sockets from start to shutdown, the lock of the state directory, and the
recovery of the database bundle.

All paths below are relative to the repository's `src/`. Line numbers of every
modelled definition are in `PROJECT.json` under `map`.

## 1. The system and its parts

| Part | State it keeps | Operations | Talks to |
|---|---|---|---|
| **Sync coordinator** `core/notesnook-sync-coordinator.ts` | the queue `#pending`, `#nextSequence`, the drain `#inFlight`, the throttle `#notBefore` | `recordLocalCommit`, `recordIntent`, `recordCreateIntent`, `resolveCreateIntent`, `releaseIntent`, `approvePending`, `blockingSummary`, `checkCapacity`, `requestSync` | state store (save, load), executor |
| **Sync state store** `core/notesnook-sync-state-store.ts` | one key-value row | `save`, `load` | storage |
| **Live remote sync** `core/notesnook-live-remote-sync.ts` | none | the executor with its upload gate; the capability that takes the database gate around a drain | coordinator, upstream `start()`, mutex |
| **Write composition** `core/notesnook-write-composition.ts` | none that lasts | `runLocalOperation`: capacity probe, write-ahead intent, adapter, release or record | coordinator, adapter, mutex |
| **Database mutex** `core/notesnook-database-mutex.ts` | holder flags, waiters, two counters, per database | `withMutex`, `withSharedMutex` | everything that touches the database |
| **Write adapter** `core/notesnook-write-adapter.ts` | none that lasts; a saga's locals | create, append, update, delete | upstream mutators, recovery journal |
| **Recovery journal** `core/notesnook-recovery-journal.ts` | at most 64 markers | `record`, `snapshot` | storage |
| **Upload approval** `operator/notes-cli.ts`, `service/operator-upload-approval-runtime.ts` | the number on the operator's screen | preview, approve | coordinator, over the operator socket |
| **Live factory and wiring** `core/notesnook-live-factory.ts`, `core/notesnook-live-write-capability.ts`, `core/notesnook-write-wiring.ts` | one coordinator, one database, a capability per origin | compose, open, close | all of the above |
| **Operator transactions and operation store** `service/notes-operator-write-runtime.ts`, `service/notes-undo-store.ts`, `service/notes-operation-store-fs.ts` | operation records on disk, a poison flag | prepare, commit, abort, undo, reopen | write capability, file system |
| **Server** `service/nookd-server.ts` and its bounds | admission tokens, connections with their frames and timers, operations, those without a connection | admit, serve, time out, start, shut down | rpc handler, runtime |
| **Operator socket and authorization** `service/operator-*.ts` | connections in flight | authorize, handle one request, close | operator runtimes |
| **RPC protocol and handler** `service/rpc-*.ts`, `service/service-runtime.ts` | none | frame, validate, dispatch | capabilities |
| **Policy and settings** `settings/*`, `service/service-policy.ts`, `service/discovery-visibility.ts`, `service/exact-note-path-resolver.ts` | an index built at boot | evaluate, resolve | read only |
| **State recovery** `operator/recover-*.ts` | a quarantine entry and its manifest | reinitialize, rollback, inspect | file system, state lock |
| **State lock and configuration** `config/*` | a lock file | acquire, release | file system; taken by the daemon and by recovery |
| **Read-only adapter, content codec, conflict tools, MCP proxy, authentication, storage, keystore, command line, health and logging** | mostly none | projections, conversions, one-shot commands | |

How a write travels. A capability has a fixed origin: `mcp`, `operator`, or none
(`unknown`). Inside the exclusive side of the mutex the composition probes the
queue's capacity, makes an intent durable (except for a create by MCP), and calls
the adapter. The adapter issues several mutators; when one is refused it issues
the inverses of those that went through and journals what it could not undo. On
success the composition replaces the intent by the marker of the commit; on a
failure that proves that nothing was mutated it releases the intent; on any other
failure it leaves it queued. A sync takes the same mutex, copies the queue as its
batch, waits for the throttle, asks the upload gate, and hands the database to
upstream. When upstream confirms, the batch is removed from the queue *by
sequence number*.

### What is hard, and what must hold

- **Crash and failed save between the change and its marker.** Write-ahead
  intents are there for this. What must hold: a change that MCP did not make and
  that is not upstream has a durable marker at every instant.
- **A decision taken before an await and used after it.** The batch is copied
  before the throttle wait, the gate is asked before `start()`, a retry reuses
  the first batch, an approval comes at any time, and the approval itself is two
  requests with the operator's typing between them. What must hold: an upload
  carries only what was released, a drain removes only what it carried, an
  approval covers only what was on the screen.
- **Identity by number.** Removal and release go by sequence; after a restart the
  sequence starts above the highest still queued, and so repeats numbers that
  left. What must hold: within a life a number names one write.
- **Origins over long histories.** Markers replace each other. What must hold: no
  sequence of writes makes a blocking note stop blocking unapproved.
- **Bounds.** A queue above `MAX_PENDING_MARKERS` is refused when loaded, so one
  save too many stops the daemon for good. A journal that is full is silent.
- **Sagas.** Six mutators and six inverses, each of which can be refused. What
  must hold: whole, undone, or on record; and a revision names one body, for it is
  the token of optimistic concurrency.
- **The mutex.** Exclusion, arrival order, no lost hand-over, no starvation.
- **Records of what may have happened.** An edit is announced on disk before the
  note is touched and settled afterwards; the daemon can be killed, the machine
  can lose power, the store can fail or be full at each point. What must hold: a
  change that reached the note has a record that survives, a record never
  predicts, and an uncertain one is never evicted.
- **Operations that outlive their connection.** A request times out, its
  operation does not. What must hold: operations stay bounded, shutdown waits
  for them and releases the database once, nothing begins afterwards, and no
  connection keeps its place for ever.
- **Files moved one by one.** A recovery dies between a link and an unlink,
  between a move and its note in the manifest. What must hold: no file loses its
  last link, originals and fresh members do not mix, what was interrupted can
  go on, and what a command reports is so.
- **A lock that is a file.** A release looks at the file only after it renamed
  it. What must hold: nobody's release takes the lock of another away unseen.

`PROJECT.json` lists every hazard at its line with the property that watches it,
or with a note that says why none does.

## 2. The modules

```
SyncQueue            the queue as a set of markers; operators from queue to queue
  SyncCoordinator    the coordinator, its drain and its store; arbitrary callers
    LocalWrites      + writers, adapter outcomes, the gate's holder, a crash: the daemon
    UploadApproval   + the operator's two-step dialogue
DatabaseGate         abstract: one exclusive holder or many shared ones
  DatabaseMutex      the waiter queue of the code, shown to implement DatabaseGate
WriteAdapter         the four operations as sagas, with the recovery journal
OperationStore       the record files: replacement, expiry, quota, poisoning, opening
  OperatorWrites     + the operator's requests, the note, other writers, stops
RuntimeLease         abstract: released once, cleanly or early, and not used anew afterwards
  NookdServer        sockets, timers, operations, start and shutdown; implements RuntimeLease
StateLock            the lock file
  BundleRecovery     + reinitialize, rollback, the daemon, an operator, deaths and failures

SyncCoordinator_proofs, LocalWrites_proofs, UploadApproval_proofs, DatabaseMutex_proofs,
WriteAdapter_proofs, OperatorWrites_proofs, NookdServer_proofs, BundleRecovery_proofs
                     theorems about the module they extend
```

**SyncQueue.** The code keeps an array that grows at its end with growing
sequence numbers; nothing depends on positions, so a queue is a set of markers
`[operation, noteId, sequence, origin, approved]`. A create that has no id yet is
queued under a reserved id `nb-pending-create-<sequence>`: one value `Reserved`,
told apart by the sequence. Each operator is the queue that the operation of that
name tries to persist: `Committed`, `Intended`, `CreateIntended`, `Resolved`,
`Released`, `Approved`, `WithoutBatch`. `Releasable` is the upload gate.

**SyncCoordinator.** `pending` and `nextSequence` are the object's fields,
`stored` what the store would load. Every operation saves the next queue before
it takes it (`Save`). A save that fails leaves the memory as it was, but not always
the row: `run()` of the SQLite storage restores file permissions in a `finally`
(`storage/sqlite-storage.ts:145-151`) and can throw after the row was replaced
(`SaveThrowsLate`). Memory and row then differ until the next save or restart, so
the properties of the queue are stated of both. The operations with such a save are
`RecordingFails`, `ResolvingFails`, `ReleasingFails`, `ApprovingFails` and, in a
drain, `UploadConfirmedUnsaved`; a save that fails early changes nothing and needs
no action except in the drain, whose flight it ends. `flight` walks through `gap`
(the throttle), `gate`, `uploading` and `backoff`; time is only "elapsed or not", which covers any clock
and any jitter. Callers are arbitrary: they record and release while a drain
runs, which the coordinator's interface permits though the daemon's composition
does not. `Crash` drops memory, `Restart` loads the store.

**LocalWrites.** The daemon: writers with their origins, one syncer, approvals
outside the gate, a crash anywhere. `holder` is the exclusive side of the mutex,
an abstraction DatabaseMutex justifies. A write goes `mutating` (intent durable,
adapter called), `changed` (the first mutator committed), `resolved` (a create's
placeholder was replaced). `dirty[n]` holds the origins of the changes of note
`n` that are not upstream, `cradle[n]` the sequence of a placeholder still
standing for its create. Both are what the database and the write *are*, not
fields of the code; the properties compare the queue with them. The adapter is
reduced to its outcomes: a `NOTHING_MUTATED_CODES` refusal (possible only before
the first mutator, as WriteAdapter and the source have it), another failure
before or after the change, or success. A write whose intent was refused by a late
failure (`TurnedAway`) leaves the intent in the row, `MarkerFails` the marker that the
caller was told is missing, `ApprovalFails` the approval.

**UploadApproval.** The coordinator with the dialogue of `notes approve-upload`
over it. `shown` is the set the preview counted and `bound` the number it
displayed; `life` remembers which run of the daemon answered.

**DatabaseMutex.** Transcribes `acquire` and `release` with their counters and
caps, with `side[c]` for what a client holds. `ImplementsGate` is the refinement
of DatabaseGate with `held <- side`.

**WriteAdapter.** A call is a record of the mutators still to come and the locals
of its saga. Each mutator is a step that goes through or is refused; a tag
rewrite can stop after any subset in the order the code has (removals first). The
inverses of one compensation are one step in which any subset is refused: calls
hold the exclusive gate, so nobody sees between them. `journal` is the recovery
journal, `torn` the notes that a crash or a failing journal storage left, for
which the code promises nothing.

**OperationStore, OperatorWrites.** `disk` is the directory as the running daemon
sees it, `stable` what a power loss is sure to leave; a replacement is a rename
(`Renames`), then the directory's fsync (`SyncsDirectory`), and an i/o failure
anywhere closes the store for good (`Poisons`). Every store operation expires
first, as in the code. Opening refuses a directory beyond the quota before it reads
a record (`Openable`), then turns `committing` records into `unresolved`, one by
one, within the quota. `Size` gives the length of a frame, by the state, the kind
and whether it names the revision that the edit left: the code encrypts the whole
record, state name and payload included, so a transition may lengthen the frame or
shorten it. It is a parameter: nothing is assumed of it but that lengths are
positive and that `committing` and `unresolved`, ten letters each, make frames of one
length. (`maxRecordBytes`, the limit on a single record, is not modelled.) A request
walks through `asking` (for a state to be recorded; `want` says which), `calling`
the write source and `called`. The source's update and its read-back of the revision are two steps
(`SourceWrites`, `SourceReturns`), because the gate is free between them. A
power loss may take back any record change that was not synced, each on its own.
Records of one operator stand for all: the store answers another operator's
handle as missing.

**RuntimeLease, NookdServer.** A step runs to the next await, as the event loop
has it. `loop` is where `processConnection` awaits: `peer`, `running` (the
operation), `writing` (the answer), or `off`; `timer` is the idle timer; `ops`
the operation a connection has started and that has not settled. `Closes`
forgets the connection and moves its operation to `detached`. RuntimeLease tells two
kinds of use apart: `inUse` (an operation of a connection that is there, or an
operator's handler, is at work) and `orphans` (an operation that outlived its
connection is). A shutdown that runs to its end (`released`) waits for both.
`abandoned` is the other path: the start was given up, or the path of the daemon's
own socket could not be unlinked at `service/nookd-server.ts:421` (the operator
socket's removal cannot fail: `service/operator-socket-server.ts:177` swallows it), and
`nookd` runs the cleanup itself (`nookd.ts:786-811`) without having waited for the
orphans. The lease covers both: `ReleasesCleanly` needs that nothing is at work,
`ReleasesEarly` leaves orphans to end by themselves (`OrphansEnd`), and after either
nobody begins. Section 5 has what the code's comment says of it.

**StateLock, BundleRecovery.** A lock file is known by who made it, a bundle's
file by its generation: 1 for an original, more for what was made since. The
link and the unlink of a move are steps of their own, so is each write of the
manifest, and a process may die after any of them. Items are visited in any
order, the reads of one phase are one step. The daemon makes what it misses and
never looks at the quarantine (`meddled` notes when that happened beside an
entry); a rollback keeps no journal (`unfinished` notes when one stopped half
way). An operator may remove a lock, of somebody who is gone or of somebody who
is not (`removed` keeps how often, and whose), and may clear files that stand in the way of an entry.

## 3. What is checked

| Run | Instance | Shows |
|---|---|---|
| `sync_coordinator` | 2 notes (symmetric), queue of 2, 3 sequences, 2 attempts, 1 crash, policies none and allow, origins mcp and operator | the store stays loadable; a sequence names one write; origins never weaken; drains take only their batch; a blocking marker persists, in memory and row, whichever way a save fails |
| `local_writes` | the writers `mcp` and `operator` that the daemon is wired with; 2 notes, one existing; 3 writes, queue of 2, 2 attempts, 1 crash, policy none | unsynced content that MCP did not make is marked, in memory and row; uploads carry only what was released; a committed write can always be queued; the batch is the queue; the gate is handed back |
| `upload_approval` | 1 note, queue of 2, 3 sequences, 1 crash, a store that accepts `approved` | an approval covers what was shown, nothing else approves, in memory or row |
| `database_mutex` | 4 clients, depth 2 of either mode | the gate refines DatabaseGate; counters agree, nobody is forgotten or queued twice (`MutexInv`); nobody overtakes or starves |
| `write_adapter` | 2 notes, 2 notebooks, 2 tags, 2 values, 2 calls | failure is rolled back or on record; success is the whole patch; a revision names one body |
| `operator_writes` | 2 requests at a time (symmetric), 3 operations, 2 records, 5 bytes, frames of 1 to 3 bytes that grow and shrink (`MCSize`), 1 failure, 1 stop, revisions to 2 by others | a change has a record that survives; a record never predicts; the directory stays within the bounds that opening enforces; uncertain records stay; an undo replaces the revision it names |
| `nookd_server` | 2 connections, 1 of the operator, 2 places, 2 requests each, 1 pending frame | operations bounded; no frame stranded, no silence unwatched; nothing begins after shutdown; the runtime is released as RuntimeLease says; places come back, but for half-closed clients who do not read; shutdown ends |
| `state_recovery` | 3 processes (symmetric), 2 members, 1 optional file, 1 death, 1 failure, 1 careless removal of a lock | the lock is kept; no file is lost; no mixture; what died can go on; answers are true |
| `approval_production_store` | as `upload_approval` with the store the daemon is wired with | **violated**: see findings |
| `adapter_reattach` | as `write_adapter`, a patch may name the note's own notebook | **violated** |
| `adapter_journal_full` | as `write_adapter`, a journal of one marker | **violated** |
| `undo_readback` | as `operator_writes`, one request, no failure, no stop | **violated** |

**The bounds and why they are enough.** `MaxPending = 2` makes every way of
filling the queue happen: two markers of one note, an intent beside a foreign
marker, a full queue under a resolution. `SequenceBound = 3` lets a queue fill,
drain and be extended, so that a repeated number would meet an old batch or
token; LocalWrites is bounded by `WriteBound = 3` instead and its `SequenceBound`
of 9 is never reached (a write takes at most three numbers). Two attempts give
one retry after a failed attempt; the third of the code's default adds nothing to
the state. A writer without an
origin differs from the operator's in rank only, so two origins do; the theorems
hold for all three and for any writers. LocalWrites' requests carry the policy `none`:
under `allow` the gate does not ask, which SyncCoordinator's run has. One crash
suffices for the safety invariants, which talk of one instant, and TLAPS proves them for any number. In DatabaseMutex four clients
fill one mode's queue of two behind a holder and leave one to arrive late. In
WriteAdapter two calls are what it takes for one to meet what another left
behind, and the second value, tag and notebook what it takes to see a wrong one.
The counters `crashes`, `writes` and `calls` exist to bound the runs.

In OperatorWrites the quota of two records and five bytes is smaller than three
operations, so inserting and settling are both refused at it. With `MCSize` an edit's
frame grows when it is announced, grows again when it is committed (it then carries
the revision it left) and shrinks when it is undone or aborted; a create's shrinks on
its commit. One stop is enough for every state of a record to be interrupted. The
exception that `DirectoryWithinBounds` names needs two: a kill that leaves a removal or
a shortening unsynced, and, after the reopened store has given the room away, a power
loss that takes it back. The run does not reach it; the theorem has no bound on stops.
Two requests meet in the store; an undo meets an edit, another undo and another
writer. In NookdServer two places for two connections and their detached
operations make the admission refuse; one pending frame is enough because the
loop takes one at a time, and the second request of a connection meets its
budget. In BundleRecovery two members are what a mixture takes, the optional file
is what a manifest may or may not list; a third process, and any after a lock was
taken from a live holder, is the daemon only (`Starts`, `OperatorTakesLock`): two
recoveries at the same time would undo each other's links, which the careless
operator and not the code is to blame for, so the file properties are stated for
`Careful` histories and `LockFileIsKept` for all.

**Fairness.** `DatabaseMutex!FairSpec` assumes that each function run under the
gate settles: weak fairness of `Releases`, which stays enabled until it happens.
Nothing is assumed of callers that come or queue. `LocalWrites!FairSpec` assumes
weak fairness of `HolderProgress`, the steps of whoever holds the gate: a writer
that was let in, or the drain. They are the promises the code awaits under the
gate. Node resolves timers, the adapter's calls are local, and upstream's
`start()` is the one external assumption: the code puts no deadline on it, and if
it never settled the gate would never be handed back. Restart, approvals, new writes and
new syncs are not fair. `NookdServer!FairSpec` assumes that what the loop waits
for arrives or its timer fires (`Loop`), that operations settle, that a socket
that was destroyed or failed reports `close`, and that the steps of shutdown, which
follow from promises, are taken. `Loop` is the waits of a connection that a timer
ends: for the peer, for the operation, for data. The write of an answer is not among
them. A client need not send, read or leave: one that is silent, or does not read,
meets the idle timer; one that sends for ever meets the budget of requests or the
bound on pending bytes. The exception is a client that half-closed: `end` disarms the
idle timer and `armIdleTimer()` refuses to arm it again
(`service/nookd-server.ts:347-351`, 480), so if it leaves its answer unread
(`Unread`) no timer watches it and it keeps its place until shutdown, which
`PlacesComeBack` excepts by name.

**Deadlock** is checked everywhere but in WriteAdapter and OperatorWrites, whose
bounded numbers of calls and operations end, and in NookdServer, which stops when
it is shut down.

## 4. What is proved

The theorems hold for every set of notes and writers, every queue bound, every
number of attempts, crashes and sequences. Assumed of the constants: `Reserved`
is no note's id, `MaxPending` and `MaxAttempts` are positive, the bounds are
natural numbers, the patches on offer are patches and `None` is no value, `OriginOf` gives each writer an origin, syncer, writers, notes
and `Nobody` differ. TLC evaluates each of these assumptions in the runs. The
sets of notes need not be finite; that the queue is finite follows from how it
grows.

*SyncCoordinator_proofs* begins with the lemmas on the queue: `Highest` bounds every sequence
of a finite queue, `StickyOrigin` ranks at least as high as the request and as
every marker of the note, and each operation's queue *derives* from the old one:
every marker in it is an old one (up to approval) or the new one under the next
sequence.

It then proves `CoordinatorInv`: types; no tokens, memory or flight survive a stop
(`NothingSurvivesStop`); the queue in memory and the one in the row, which late
failures make two, are each `Sound`: finite, within the bound, one write to a number,
and of two markers of a note the later ranks at least as high; everything queued, in
the batch or held as a token lies below `nextSequence` (`NextIsFresh`); and
`SequenceNamesOneWrite`. That alone is not inductive: a fresh number is fresh only
because all numbers lie below `nextSequence`, also after a restart recomputes it
from the row, which is why tokens and batches must not survive the stop. From
the invariant follow, as theorems of `CoordinatorSpec`, type correctness, all of
the run's safety invariants, and both action properties (`DrainsTakeOnlyTheirBatch`,
`BlockersPersist`), the latter by one case per way a marker can leave: for the memory,
and for the row that a save replaced, if it then failed or not.

*LocalWrites_proofs* proves `LocalInv`, which adds to `CoordinatorInv`: whoever
works holds the gate (`Alone`); there is one token exactly while a write that
needs one is pending, and its marker is in memory and in the row (`Tokens`); a
write's note is what its phase says (`Targets`); notes that do not exist have no changes (`Clean`); the
batch of a drain is the queue up to approvals (`BatchMatches`); and `Marked`, the
strengthening of `UnsyncedIsMarked`, of the row and of the memory each. `Marked` asks
for a covering marker that is not *tentative*: the intent of a write in progress may yet be released, so it must
not be what covers an earlier change of that note, unless that write has already
changed the note. Without it releasing an intent would not preserve the
invariant. From `LocalInv` follow type correctness, `UnsyncedIsMarked`,
`OnlyReleasedLeaves`, `EmptyDrainSendsNothing` and `BatchIsTheQueue`.
`CommitHasRoom` needs a second invariant, `RoomKept`: the place that the capacity
probe found is still free while a write without an intent is pending, and a resolved
create has its own marker to replace. It holds because the gate keeps every other
step that enlarges the queue out, and an approval changes no marker's key; the rest
is arithmetic of cardinalities (`CommittedFits`, `ResolvedFits`).

*UploadApproval_proofs* proves `ApprovalInv`, which adds to `CoordinatorInv`: the
dialogue's state has its type; no marker is queued both approved and not
(`QueuedOnce`); and what is on the screen covers what is queued (`ScreenCovers`):
while the daemon lives that answered the preview, every blocking marker up to the
displayed sequence was shown. The last is what makes the second step of the
dialogue sound although callers and the drain move the queue between the steps. From
it follow `ApprovesOnlyWhatWasShown` and `OnlyApprovalApproves`. One more theorem has
a hypothesis on the store: with the one of production no queued or stored marker is
ever approved (`RefusedApprovalsNeverStick`), which is finding 1 for every queue,
history and number of attempts.

*DatabaseMutex_proofs* proves `MutexInv` together with `Gate!Lawful`, the
abstract gate's own invariant under the refinement mapping: that the head of the
queue is blocked, and that counters and sets agree, is what rules out that an
arrival is admitted past a waiter. `MutexImplementsGate` is the refinement
theorem: initial states map to initial states and each step, including a release
that admits several readers at once, to a step of the gate or a stutter.
`NobodyOvertakes` is an action property of the same invariant.

*NookdServer_proofs* proves `ServerInv`. For each connection (`Attended`):
unless its socket is gone, whoever has a frame has a loop, whoever has no loop
has a timer and an open client, and an operation runs exactly while the loop waits
for it. For the server (`LateCloses`): once shutdown has begun to close, every
connection that is left is closing. And the sum of connections and
detached operations stays within the limit. From it follow the four invariants of
the run and `NoLateOperation`. A second invariant, `Drained`, gives
`ReleasedIsUnused`: on whichever path the runtime was released, no connection and no
operator's handler is left and none comes after, and when shutdown ran to its end no
detached operation is left either. It is also what maps the steps of the server to
those of RuntimeLease (`ServerImplementsLease`): the step that ends the draining is a
`ReleasesCleanly`, the ones that abandon are `ReleasesEarly`, and no later step is a
use. `inUse` and `orphans` say whether anybody is at work, not how many: the lease
does not count.

*OperatorWrites_proofs* proves `WritesInv`. Its core is `Truthful`: for a record
in either directory, the one that runs and the one a power loss leaves, the state
says what happened to the note (`Says`: `prepared` and `aborted` that nothing did,
`committed` and `undone` that it did, `missing` after a change only when it
expired or was undone). That is not inductive without what the handlers know: who
calls the source has its record in `committing` in *both* directories; who asks
for `committed` is past its write; an undo goes by the record it found, also if
another request has settled that record meanwhile; a handle belongs to the one
handler that minted it; and whoever waits for the directory's fsync asked for the
state that it holds. A store step that only removes (`Trimmed`: expiry,
acknowledgement, a failure in the middle, an fsync) keeps all of it, for what it
removes is never uncertain. From the invariant follow `OutcomeIsTrue`,
`ChangeIsRecorded`, and the action properties `UncertainIsKept` and
`UndoReplacesItsRevision`, for any number of handlers, operations, failures,
kills and power losses, and any quota. Assumed: `None` is no handler and no record.

`DirectoryWithinBounds` is an action property, because the state predicate it
replaces is false: a removal, or a replacement by a shorter frame, that a kill left
unsynced is what the store finds when it opens again; its room is given away, and a
power loss then restores the removed or longer file beside the new one, so the next
opening is refused. What is proved, for any lengths, is that this is the only way: a
step that leaves the bounds is a power loss that brings back such a file
(`Unsynced`). The argument compares directories (`Fits`: each file of the one is in
the other and no shorter there). Every step but a replacement and such a power loss
leaves a directory that fits the running one, and a durable one that is the old durable
or the new running one; a replacement was admitted beside the frame it replaces, so
the result is within the bounds whatever the two lengths are.

*BundleRecovery_proofs* proves `BundleInv`. For all histories: types, `Tidy` (only a
release has set something aside) and `LockFileIsKept`. While no operator took the
lock from its holder (`Careful`), the lock excludes (`Exclusive`: one process works,
with its file at the path, or gives it back), and the invariant of the files is
that of the one process at work. `Disk` says what holds whoever works: what a
manifest lists is somewhere (`EntryKept`), each required member's original is in
the state directory or in the entry (`OriginalKept`), members are made only after
all originals were moved (`AllMoved`), and, unless a daemon meddled, a name has one
inode (`OneInode`) and nothing unlisted is about (`OnlyListed`). `Settled` is what
the *next* reinitialize relies on: an item noted as moved is in the entry. A
rollback breaks it while it works and restores it when it takes its steps back, or
dies and leaves `unfinished`. `Phase` is what the process at work knows beyond that:
which items it has visited and where their links are, with the one in hand between
link and unlink (`MovesIn`, `MovesOut`), and that the manifest it holds is the one on
disk, which is only so because it is alone. A death at any step falls back to `Disk`
and `Settled`; that is why each of them must hold in the middle of a move. From the
invariant follow `NeverMixed`, `AlwaysResumable` (every item has a verdict in
`reconcileItem()`), and the action properties `NothingIsLost` and `SuccessIsTrue`,
for any number of processes, files, deaths and failures. Assumed: `None` and
`Stale` are no processes, and there is a required member.

*WriteAdapter_proofs* proves `AdapterInv`. While a call runs, `Running` holds of
its locals and the note: either the row is exactly what the finished mutators made
of the row before, in their order (`Reached`), or a mutator was refused and the
locals say precisely what there is to take back (`Undoing`: the tags removed and
added, whether the membership is new, whether the body was written). `SuccessIsWhole`
is `Reached` with nothing left to do, and holds without condition. `RolledBackOrRecorded`
comes from the inverses: one that is not refused restores its field exactly, and one
that is leaves a marker. That needs the two hypotheses whose failure findings 2 and
3 show: no patch names a notebook the note is in (`~Reattach`), and the journal has
room. `RevisionNamesBody` comes from `Seen`: what any reader has seen is of an earlier
revision than the note has, or of its body, or the note has a marker or was torn; it
is stated of the row *before* the running call, for the call's own row may stand
half written. It too holds as long as the journal has room.

`CoordinatorTypeOK`, `EmptyDrainSendsNothing`, `ReleasedIsUnused`, `ApprovalTypeOK`,
the `TypeOK` of WriteAdapter and of BundleRecovery, and the conclusion of
`RefusedApprovalsNeverStick` are theorems that no run checks.

**Only model-checked.** The liveness properties `GateIsHandedBack`, `EveryWaiterEnters`,
`PlacesComeBack` and `ShutdownEnds` need fairness and ENABLED, which are out of the
prover's reach. Every other property of a passing run is a theorem; the
properties of the four runs that expect a violation are refuted there by TLC.

## 5. Findings

1. **An approval can never be saved in production.** `normalizeState` of the
   persistent store (`core/notesnook-sync-state-store.ts:61`) throws on any marker
   key but operation, noteId, sequence and origin; an approved marker carries
   `approved`. With that store `approvePending` fails with `sync_failed` whenever
   it would approve something. `docs/implementation-plan-v1.5.md:2871-2872` says
   an approval persists on those markers. Run `approval_production_store`. The
   other runs set `KeepsApproval = TRUE`, that is, a store as documented.
2. **A failed update can take a note out of a notebook it was in.** The saga
   notes "attached" when `notebookAddNote` resolves, also for a note that was in
   that notebook before; its compensation then removes it and records nothing.
   Run `adapter_reattach`, against the contract in the doc comment at
   `core/notesnook-write-adapter.ts:590-597`.
3. **A full recovery journal forgets silently.** `record()` throws at its bound,
   no code removes a marker, and the adapter swallows the throw. Run
   `adapter_journal_full`, against the same comment.
4. **An undo can take back another writer's change.** The write source of
   `nookd.ts:213-218` reads the revision that an edit left after the gate was
   given back. If somebody changes the note in between, the record names *their*
   revision, the undo's guard finds it, and the old content replaces their change.
   Run `undo_readback`, against the test "refuses undo after a concurrent change
   and retains the record" (`tests/stage-9-notes-operator-write-runtime.test.ts:839`)
   and `docs/engineering/stages/stage-9-source-evidence.md:96`.
   `UndoReplacesItsRevision` shows that the guard itself is sound: it is the
   recorded revision that may be the wrong one.

Observations that contradict no single sentence of the repository, or where the
repository is of two minds; the models have the code's behaviour:

- An undo whose outcome is uncertain is recorded `unresolved`, but when the store
  has failed, or the daemon stops first, its record still says `committed`
  (`docs/implementation-plan-v1.5.md:2683`: "uncertain mutations leave the daemon
  in `unresolved`").
- An `unresolved` record never expires and nothing in the daemon settles it, so
  enough of them fill the quota for good.
- At the byte bound a `committing` record can be replaced by none: it is not
  settled, and the store does not open again (`OpenFails`).
- Opening does not sync the directory it finds. A removal, or a replacement by a
  shorter frame, that a kill left unsynced gives its room to another record, and a
  power loss that takes it back leaves a directory beyond the quota, with which the
  store does not open again (`DirectoryWithinBounds` excepts this case and, as a
  theorem, no other).
- An operation that was answered `sync_failed` may have taken effect in the row,
  when the save failed late: a refused write leaves its intent, an approval the
  operator was told had failed holds after a restart (`OnlyApprovalApproves` says
  so). No change loses its marker by it.
- When the start of the operator's socket fails, or the daemon's own socket cannot be
  unlinked, `nookd` cleans up the runtime although operations whose client has gone may
  be at work. The comment at `service/nookd-server.ts:422-425` says that the runtime
  "is released only once every runtime op has settled"; it stands on the path that
  does wait, and is not true of the daemon as a whole (`ReleasesEarly`).
- A client that half-closes and does not read its answer keeps its place until
  shutdown: no timer watches it (`PlacesComeBack` excepts it).
- A daemon started over half a quarantined bundle makes fresh members beside the
  originals; recovery then refuses until an operator clears them (`meddled`).
- A rollback that died half way can be neither resumed nor repeated (`unfinished`).

## 6. Assumptions

- A sequence number can be used again after a restart, once its marker left the
  queue. `ApprovesOnlyWhatWasShown` therefore excepts a restart between preview
  and approval; the code promises nothing there.
- Upstream's full sync, when it resolves true, has sent everything; while it runs
  it acknowledges notes one by one, in any order. A mutator that is refused has
  changed nothing. These are assumptions about code outside this repository.
- Nobody asks for the mutex while inside it: the module forbids it and does not
  check. The composition's `localDepth` guard, copies against accessor-valued
  inputs, validation of field sizes, the encoding of content, counters and
  timestamps in results, jitter and clock values are left out.
- An fsync that returned holds across a power loss, a rename is all or nothing,
  and a revision names one state of a note (WriteAdapter's `RevisionNamesBody`).
- In NookdServer a destroyed or failed socket reports `close`; the operator's handlers that outlive their socket are counted
  by shutdown but by no bound on connections.
- In BundleRecovery a process may die anywhere but the file system loses nothing:
  neither manifest nor links are fsynced, and the repository's documents list
  durability under power loss as unproven. Files are regular and private;
  SQLite's own sidecars do not come and go meanwhile; one entry at a time.

## 7. Not modelled, and why

- **Read-only projection, content codec, framing, field validation** (about a
  third of the source): pure functions from unbounded text or records to text or
  records. A model would be the parser once more, smaller only by being less true;
  what such code needs is a round-trip test over documents.
- **RPC handler and MCP proxy**: no state between requests. What they call is
  modelled where it has state: the gate, revisions, the sagas, the operations that
  outlive a request. A permission is decided from a note that is read before the
  write; what guards the time between is the revision, and whether a move to
  another notebook changes it is upstream's.
- **Settings evaluator, policy, visibility, path resolution**: loaded at boot,
  evaluated by pure functions over strings and globs.
- **Command line, authentication, keystore, doctor, provisioning, health,
  logging, administrative probes**: one-shot and sequential, or prompts.
- **The older single-database recovery** (`operator/recover-local-state.ts`):
  sequential, superseded by the bundle's.
- **SQLite**: a synchronous row, used as such.

The map covers the lines that these models translate. It is a small share of the
repository because most of the repository is of the kinds above, and each mapped
line is one that a definition stands for.

## 8. Running

```
tlc -workers 2 -config MCLocalWrites.cfg MCLocalWrites
tlapm LocalWrites_proofs.tla
```

`MCOperatorWrites` explores about 2.6 million states, `MCSyncCoordinator` 1.8
million, `MCUploadApproval` 1.5 million, `MCBundleRecovery` 1.4 million,
`MCLocalWrites` 430 thousand and `MCNookdServer` 230 thousand (these two with
liveness properties), the others fewer; each takes at most a few minutes.
