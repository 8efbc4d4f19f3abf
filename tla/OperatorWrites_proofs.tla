------------------------ MODULE OperatorWrites_proofs ------------------------
(***************************************************************************)
(* What the operation records say of the note is so, for any handlers at    *)
(* work at the same time, any quota, any number of failures, kills and      *)
(* power losses, and any other writers.                                    *)
(***************************************************************************)
EXTENDS OperatorWrites, FiniteSetTheorems, TLAPS

Files == [Handles -> RecordType \cup {None}]

ReqType(n) == [step : Steps, op : Kinds \cup {"undo"}, h : 0..n, want : States, image : Change, got : Nat]

\* What a record's state says of its operation, when the revisions `l`
\* landed, the operations `u` were undone, and 1..a have expired.
Says(s, h, l, u, a) ==
  /\ s \in {"prepared", "aborted"} => l[h] = 0
  /\ s \in {"committed", "undone"} => l[h] # 0
  /\ s = "undone" => h \in u
  /\ s = "missing" /\ l[h] # 0 => h <= a \/ h \in u

Truthful(d, l, u, a) == \A h \in Handles : Says(StateOf(d, h), h, l, u, a)

\* The handler is past its write, or short of it.
Done(r) == r.step = "called" \/ (r.step = "asking" /\ r.want = "committed")
NotDone(r) ==
  r.step = "calling" \/ (r.step = "asking" /\ r.want \in {"prepared", "committing", "aborted"})

\* The handler of an edit or a create: while it calls the source its record
\* says `committing`, also after a power loss.
MakerOK(r, d, s, l) ==
  r.op # "undo" =>
    /\ r.step # "found" /\ r.want # "undone"
    /\ r.step \in {"calling", "called"} \/ (r.step = "asking" /\ r.want # "prepared") => r.h # 0
    /\ r.h # 0 /\ Done(r) => l[r.h] # 0
    /\ r.h # 0 /\ NotDone(r) => l[r.h] = 0
    /\ r.step = "calling" => StateOf(d, r.h) = "committing" /\ StateOf(s, r.h) = "committing"

\* The handler of an undo: it goes by what the record said when it was found.
UndoerOK(r, d, u) ==
  r.op = "undo" =>
    /\ r.step # "idle" /\ r.h # 0
    /\ r.step \in {"found", "calling"} /\ d[r.h] # None =>
         /\ d[r.h].state \in {"committed", "unresolved", "undone"}
         /\ r.image.rev = d[r.h].post /\ r.image.body = d[r.h].pre.body
    /\ r.step = "called" => r.h \in u
    /\ r.step = "asking" => r.want = "unresolved" \/ (r.want = "undone" /\ r.h \in u)

RequestOK(r, d, s, l, u) ==
  /\ MakerOK(r, d, s, l)
  /\ UndoerOK(r, d, u)
  /\ r.step = "idle" => r = Idle

\* A handle belongs to the one handler that minted it.
Distinct ==
  \A c, d \in Requests :
    /\ c # d /\ request[c].op # "undo" /\ request[d].op # "undo"
    /\ request[c].h = request[d].h
    => request[c].h = 0

\* Who waits for the directory's fsync asked for the state that it holds.
Syncing ==
  syncing # None =>
    /\ open /\ syncing \in Requests
    /\ request[syncing].step = "asking" /\ request[syncing].h # 0
    /\ StateOf(disk, request[syncing].h) = request[syncing].want

DownIsIdle == ~up => syncing = None /\ \A c \in Requests : request[c] = Idle

\* Every variable holds a value of its kind.
TypesOK ==
  /\ disk \in Files /\ stable \in Files
  /\ minted \in Nat /\ minted <= OpBound /\ aged \in Nat /\ aged <= minted
  /\ request \in [Requests -> ReqType(minted)]
  /\ note \in Change
  /\ landed \in [Handles -> Nat]
  /\ undone \in SUBSET Handles

WritesInv ==
  /\ TypesOK
  /\ Truthful(disk, landed, undone, aged) /\ Truthful(stable, landed, undone, aged)
  /\ \A h \in Handles : h > minted => landed[h] = 0
  /\ \A c \in Requests : RequestOK(request[c], disk, stable, landed, undone)
  /\ Distinct
  /\ Syncing
  /\ DownIsIdle
-----------------------------------------------------------------------------
(* What goes from the directory.                                           *)

\* What may be removed: nobody's outcome is in doubt, and it is old enough or
\* settled.
Disposable(s, h, a) ==
  \/ s \in {"prepared", "committed"} /\ h <= a
  \/ s \in {"aborted", "undone"}

\* The directory loses nothing else, and the disk catches up with it.
Trimmed ==
  /\ disk' \in Files /\ stable' \in Files
  /\ \A h \in Handles :
       /\ disk'[h] = disk[h] \/ (disk'[h] = None /\ Disposable(StateOf(disk, h), h, aged))
       /\ stable'[h] = stable[h] \/ stable'[h] = disk'[h]

LEMMA NoneIsNoRecord == \A r \in RecordType : r # None
BY RequestsAssumption

LEMMA StateFacts ==
  ASSUME NEW d \in Files, NEW h \in Handles
  PROVE  /\ StateOf(d, h) \in States \cup {"missing"}
         /\ StateOf(d, h) = "missing" <=> d[h] = None
         /\ d[h] # None => d[h] \in RecordType /\ StateOf(d, h) = d[h].state
<1>1. d[h] \in RecordType \cup {None}
  BY DEF Files
<1>2. CASE d[h] = None
  BY <1>2 DEF StateOf
<1>3. CASE d[h] # None
  <2>1. d[h] \in RecordType /\ d[h].state \in States /\ StateOf(d, h) = d[h].state
    BY <1>1, <1>3 DEF RecordType, StateOf
  <2> QED BY <1>3, <2>1 DEF States
<1> QED BY <1>2, <1>3

\* Removing what is disposable leaves the truth.
LEMMA TrimmedTruthful ==
  ASSUME NEW d \in Files, NEW e \in Files, NEW l \in [Handles -> Nat], NEW u, NEW a,
         Truthful(d, l, u, a),
         \A h \in Handles : e[h] = d[h] \/ (e[h] = None /\ Disposable(StateOf(d, h), h, a))
  PROVE  Truthful(e, l, u, a)
<1> SUFFICES ASSUME NEW h \in Handles PROVE Says(StateOf(e, h), h, l, u, a)
  BY DEF Truthful
<1>1. Says(StateOf(d, h), h, l, u, a)
  BY DEF Truthful
<1>2. CASE e[h] = d[h]
  BY <1>1, <1>2 DEF StateOf
<1>3. CASE e[h] = None /\ Disposable(StateOf(d, h), h, a)
  <2>1. StateOf(e, h) = "missing"
    BY <1>3 DEF StateOf
  <2> QED BY <1>1, <1>3, <2>1 DEF Says, Disposable
<1> QED BY <1>2, <1>3

\* Each record from one of two truthful directories.
LEMMA MixedTruthful ==
  ASSUME NEW d, NEW s, NEW e, NEW l, NEW u, NEW a, Truthful(d, l, u, a), Truthful(s, l, u, a),
         \A h \in Handles : e[h] = d[h] \/ e[h] = s[h]
  PROVE  Truthful(e, l, u, a)
BY DEF Truthful, StateOf

LEMMA TrimmedStore ==
  ASSUME WritesInv, Trimmed
  PROVE  /\ Truthful(disk', landed, undone, aged)
         /\ Truthful(stable', landed, undone, aged)
<1>1. Truthful(disk', landed, undone, aged)
  BY TrimmedTruthful DEF WritesInv, TypesOK, Trimmed
<1>2. Truthful(stable', landed, undone, aged)
  BY <1>1, MixedTruthful DEF WritesInv, Trimmed
<1> QED BY <1>1, <1>2

LEMMA HandleType ==
  ASSUME TypesOK
  PROVE  \A r \in ReqType(minted) : r.h \in 0..minted /\ (r.h # 0 => r.h \in Handles)
<1>1. \A r \in ReqType(minted) : r.h \in 0..minted
  BY DEF ReqType
<1>2. minted \in Nat /\ minted <= OpBound
  BY DEF TypesOK
<1> QED BY <1>1, <1>2, OpBoundAssumption DEF Handles

\* A handler's record is not disposed of while it calls the source.
LEMMA TrimmedRequest ==
  ASSUME WritesInv, Trimmed, NEW r \in ReqType(minted), RequestOK(r, disk, stable, landed, undone)
  PROVE  RequestOK(r, disk', stable', landed, undone)
<1>1. r.h # 0 => r.h \in Handles
  BY HandleType DEF WritesInv
<1>2. MakerOK(r, disk', stable', landed)
  <2>1. CASE r.op # "undo" /\ r.step = "calling"
    <3>1. r.h \in Handles /\ StateOf(disk, r.h) = "committing" /\ StateOf(stable, r.h) = "committing"
      BY <1>1, <2>1 DEF RequestOK, MakerOK
    <3>2. disk'[r.h] = disk[r.h]
      BY <3>1 DEF Trimmed, Disposable
    <3>3. StateOf(disk', r.h) = "committing" /\ StateOf(stable', r.h) = "committing"
      BY <3>1, <3>2 DEF Trimmed, StateOf
    <3> QED BY <3>3 DEF RequestOK, MakerOK
  <2>2. CASE ~(r.op # "undo" /\ r.step = "calling")
    BY <2>2 DEF RequestOK, MakerOK
  <2> QED BY <2>1, <2>2
<1>3. UndoerOK(r, disk', undone)
  <2>1. CASE r.op = "undo"
    <3>1. disk'[r.h] = disk[r.h] \/ disk'[r.h] = None
      BY <1>1, <2>1 DEF Trimmed, RequestOK, UndoerOK
    <3> QED BY <2>1, <3>1 DEF RequestOK, UndoerOK
  <2>2. CASE r.op # "undo"
    BY <2>2 DEF UndoerOK
  <2> QED BY <2>1, <2>2
<1> QED BY <1>2, <1>3 DEF RequestOK

LEMMA IdleOK == \A d, s, l, u : RequestOK(Idle, d, s, l, u)
BY DEF Idle, Image, RequestOK, MakerOK, UndoerOK, Done, NotDone

LEMMA IdleType == \A n \in Nat : Idle \in ReqType(n) /\ Idle.h = 0 /\ Idle.op = "edit" /\ Idle.step = "idle"
BY DEF Idle, Image, ReqType, Steps, Kinds, States, Change
-----------------------------------------------------------------------------
(* Steps of one handler that replace no record.                            *)

\* The handler goes on with its operation, or with none.
GoesOn(q, r) == q.op = "undo" \/ q.h = 0 \/ (q.h = r.h /\ r.op # "undo")

LEMMA HandlerStep ==
  ASSUME WritesInv, Trimmed, UNCHANGED <<noteVars, minted, aged>>, NEW c \in Requests,
         request' \in [Requests -> ReqType(minted)],
         \A d \in Requests : d # c => request'[d] = request[d],
         RequestOK(request'[c], disk', stable', landed, undone),
         GoesOn(request'[c], request[c]),
         syncing' = None \/ (syncing' = syncing /\ syncing # c /\ disk' = disk /\ open' = open),
         up' = up, up
  PROVE  WritesInv'
<1>1. TypesOK'
  BY DEF WritesInv, TypesOK, Trimmed, noteVars
<1>2. Truthful(disk', landed', undone', aged') /\ Truthful(stable', landed', undone', aged')
  BY TrimmedStore DEF noteVars
<1>3. ASSUME NEW d \in Requests
      PROVE  RequestOK(request'[d], disk', stable', landed', undone')
  <2>1. CASE d = c
    BY <2>1 DEF noteVars
  <2>2. CASE d # c
    <3>1. request[d] \in ReqType(minted) /\ RequestOK(request[d], disk, stable, landed, undone)
      BY DEF WritesInv, TypesOK
    <3> QED BY <2>2, <3>1, TrimmedRequest DEF noteVars
  <2> QED BY <2>1, <2>2
<1>4. Distinct'
  <2> SUFFICES ASSUME NEW a \in Requests, NEW b \in Requests, a # b,
                      request'[a].op # "undo", request'[b].op # "undo",
                      request'[a].h = request'[b].h
               PROVE  request'[a].h = 0
    BY DEF Distinct
  <2>1. CASE a # c /\ b # c
    BY <2>1 DEF WritesInv, Distinct
  <2>2. CASE a = c
    BY <2>2 DEF WritesInv, Distinct, GoesOn
  <2>3. CASE b = c
    BY <2>3 DEF WritesInv, Distinct, GoesOn
  <2> QED BY <2>1, <2>2, <2>3
<1>5. Syncing'
  BY DEF WritesInv, Syncing
<1>6. DownIsIdle'
  BY DEF DownIsIdle
<1>7. \A h \in Handles : h > minted' => landed'[h] = 0
  BY DEF WritesInv, noteVars
<1> QED BY <1>1, <1>2, <1>3, <1>4, <1>5, <1>6, <1>7 DEF WritesInv

\* Nothing goes from a directory that is left alone.
LEMMA UnchangedTrims == ASSUME WritesInv, disk' = disk, stable' = stable PROVE Trimmed
BY DEF WritesInv, TypesOK, Trimmed

\* ... or synced.
LEMMA SyncTrims == ASSUME WritesInv, disk' = disk, stable' = disk PROVE Trimmed
BY DEF WritesInv, TypesOK, Trimmed

LEMMA ExpiredFacts ==
  ASSUME NEW files \in Files, NEW hs \in SUBSET Expired(files)
  PROVE  /\ Without(files, hs) \in Files
         /\ \A h \in Handles :
              \/ Without(files, hs)[h] = files[h]
              \/ Without(files, hs)[h] = None /\ Disposable(StateOf(files, h), h, aged)
<1>1. \A h \in Handles : Without(files, hs)[h] = IF h \in hs THEN None ELSE files[h]
  BY DEF Without
<1>2. Without(files, hs) \in Files
  BY DEF Without, Files
<1>3. \A h \in hs : StateOf(files, h) \in Expirable /\ h <= aged
  BY DEF Expired
<1> QED BY <1>1, <1>2, <1>3 DEF Expirable, Disposable

\* expire() removes what is disposable.
LEMMA ExpiresTrims == ASSUME WritesInv, Expires PROVE Trimmed
<1>1. disk' = Without(disk, Expired(disk)) /\ (stable' = stable \/ stable' = disk')
  BY DEF Expires, Kept
<1>2. stable \in Files /\ disk \in Files
  BY DEF WritesInv, TypesOK
<1> QED BY <1>1, <1>2, ExpiredFacts DEF Trimmed

LEMMA AsksFields ==
  ASSUME TypesOK, NEW c \in Requests, NEW s \in States, Asks(c, s)
  PROVE  /\ request' \in [Requests -> ReqType(minted)]
         /\ \A d \in Requests : d # c => request'[d] = request[d]
         /\ request'[c].step = "asking" /\ request'[c].want = s
         /\ request'[c].op = request[c].op /\ request'[c].h = request[c].h
<1> DEFINE q == [request[c] EXCEPT !.step = "asking", !.want = s]
<1>1. request \in [Requests -> ReqType(minted)] /\ request[c] \in ReqType(minted)
  BY DEF TypesOK
<1>2. request' = [request EXCEPT ![c] = q]
  BY <1>1 DEF Asks, ReqType
<1>3. /\ q \in ReqType(minted) /\ q.step = "asking" /\ q.want = s
      /\ q.op = request[c].op /\ q.h = request[c].h
  BY <1>1 DEF ReqType, Steps
<1> HIDE DEF q
<1> QED BY <1>1, <1>2, <1>3

LEMMA ReturnsFields ==
  ASSUME TypesOK, NEW c \in Requests, Returns(c)
  PROVE  /\ request' \in [Requests -> ReqType(minted)]
         /\ \A d \in Requests : d # c => request'[d] = request[d]
         /\ request'[c] = Idle
BY IdleType DEF Returns, TypesOK

\* A handler that returns is done with its operation.
LEMMA ReturnsInv ==
  ASSUME WritesInv, Trimmed, UNCHANGED <<noteVars, minted, aged>>, NEW c \in Requests, Returns(c),
         syncing' = None \/ (syncing' = syncing /\ syncing # c /\ disk' = disk /\ open' = open),
         up' = up, up
  PROVE  WritesInv'
<1>1. /\ request' \in [Requests -> ReqType(minted)]
      /\ \A d \in Requests : d # c => request'[d] = request[d]
      /\ request'[c] = Idle
  BY ReturnsFields DEF WritesInv
<1>2. GoesOn(request'[c], request[c])
  BY <1>1, IdleType DEF GoesOn
<1>3. RequestOK(request'[c], disk', stable', landed, undone)
  BY <1>1, IdleOK
<1> QED BY <1>1, <1>2, <1>3, HandlerStep

\* A handler asks for another state, if that state would be true.
LEMMA AsksInv ==
  ASSUME WritesInv, Trimmed, UNCHANGED <<noteVars, minted, aged>>, NEW c \in Requests,
         NEW s \in States, Asks(c, s), request[c].step # "idle",
         request[c].op = "undo" => s = "unresolved" \/ (s = "undone" /\ request[c].h \in undone),
         request[c].op # "undo" =>
           /\ s \notin {"prepared", "undone"} /\ request[c].h # 0
           /\ s = "committed" => landed[request[c].h] # 0
           /\ s \in {"committing", "aborted"} => landed[request[c].h] = 0,
         syncing' = None \/ (syncing' = syncing /\ syncing # c /\ disk' = disk /\ open' = open),
         up' = up, up
  PROVE  WritesInv'
<1>1. /\ request' \in [Requests -> ReqType(minted)]
      /\ \A d \in Requests : d # c => request'[d] = request[d]
      /\ request'[c].step = "asking" /\ request'[c].want = s
      /\ request'[c].op = request[c].op /\ request'[c].h = request[c].h
  BY AsksFields DEF WritesInv
<1>2. RequestOK(request[c], disk, stable, landed, undone)
  BY DEF WritesInv
<1>3. MakerOK(request'[c], disk', stable', landed)
  BY <1>1 DEF MakerOK, Done, NotDone
<1>4. UndoerOK(request'[c], disk', undone)
  BY <1>1, <1>2 DEF RequestOK, UndoerOK
<1>5. GoesOn(request'[c], request[c])
  BY <1>1 DEF GoesOn
<1> QED BY <1>1, <1>3, <1>4, <1>5, HandlerStep DEF RequestOK
-----------------------------------------------------------------------------
(* The handlers' steps.                                                    *)

\* Somebody's step: the daemon runs, and its own fsync is not under way.
LEMMA BusyFacts ==
  ASSUME WritesInv, NEW c \in Requests, request[c].step # "idle"
  PROVE  up /\ (request[c].step # "asking" => syncing # c)
<1>1. up
  BY IdleType DEF WritesInv, DownIsIdle, Idle
<1>2. syncing = c => request[c].step = "asking"
  BY RequestsAssumption DEF WritesInv, Syncing
<1> QED BY <1>1, <1>2

LEMMA StartsInv ==
  \A c \in Requests, kind \in Kinds : WritesInv /\ Starts(c, kind) => WritesInv'
<1> SUFFICES ASSUME NEW c \in Requests, NEW kind \in Kinds, WritesInv, Starts(c, kind)
             PROVE  WritesInv'
  OBVIOUS
<1> DEFINE q == [Idle EXCEPT !.step = "asking", !.op = kind,
                             !.image = IF kind = "edit" THEN note ELSE @]
<1>1. /\ up /\ request[c].step = "idle" /\ request' = [request EXCEPT ![c] = q]
      /\ UNCHANGED <<storeVars, up, noteVars, boundVars>>
  BY DEF Starts
<1>2. minted \in Nat /\ request \in [Requests -> ReqType(minted)] /\ note \in Change
  BY DEF WritesInv, TypesOK
<1>3. /\ q \in ReqType(minted) /\ q.step = "asking" /\ q.op = kind /\ q.want = "prepared" /\ q.h = 0
  <2> DEFINE idle == Idle
  <2>1. idle \in ReqType(minted) /\ idle.h = 0 /\ idle.want = "prepared"
    BY <1>2, IdleType DEF Idle
  <2>2. q = [idle EXCEPT !.step = "asking", !.op = kind,
                         !.image = IF kind = "edit" THEN note ELSE idle.image]
    OBVIOUS
  <2> HIDE DEF idle, q
  <2> QED BY <1>2, <2>1, <2>2 DEF ReqType, Steps
<1> HIDE DEF q
<1>4. kind # "undo"
  BY DEF Kinds
<1>5. request' \in [Requests -> ReqType(minted)] /\ request'[c] = q
        /\ \A d \in Requests : d # c => request'[d] = request[d]
  BY <1>1, <1>2, <1>3
<1>6. RequestOK(q, disk', stable', landed, undone)
  BY <1>3, <1>4 DEF RequestOK, MakerOK, UndoerOK
<1>7. syncing # c
  BY <1>1, RequestsAssumption DEF WritesInv, Syncing
<1>8. Trimmed
  BY <1>1, UnchangedTrims DEF storeVars
<1> QED BY <1>1, <1>3, <1>5, <1>6, <1>7, <1>8, HandlerStep DEF storeVars, GoesOn

LEMMA FindsUndoInv ==
  \A c \in Requests, h \in Handles : WritesInv /\ FindsUndo(c, h) => WritesInv'
<1> SUFFICES ASSUME NEW c \in Requests, NEW h \in Handles, WritesInv, FindsUndo(c, h)
             PROVE  WritesInv'
  OBVIOUS
<1> DEFINE q == [Idle EXCEPT !.step = "found", !.op = "undo", !.h = h,
                             !.image = Image(disk[h].post, disk[h].pre.body)]
<1>1. /\ up /\ request[c].step = "idle" /\ Ready /\ StateOf(Kept(disk), h) = "committed" /\ Expires
      /\ request' = [request EXCEPT ![c] = q]
      /\ UNCHANGED <<open, syncing, minted, aged, up, noteVars, boundVars>>
  BY DEF FindsUndo
<1>2. /\ minted \in Nat /\ request \in [Requests -> ReqType(minted)] /\ disk \in Files
      /\ minted <= OpBound /\ h \in 1..OpBound
  BY DEF WritesInv, TypesOK, Handles
<1>3. Trimmed /\ disk' = Kept(disk)
  BY <1>1, ExpiresTrims DEF Expires
<1>4. Kept(disk)[h] = disk[h] /\ disk[h] # None /\ disk[h] \in RecordType /\ disk[h].state = "committed"
  <2>1. Kept(disk)[h] = disk[h] \/ Kept(disk)[h] = None
    BY DEF Kept, Without
  <2>2. Kept(disk)[h] # None
    BY <1>1 DEF StateOf
  <2>3. StateOf(disk, h) = "committed"
    BY <1>1, <2>1, <2>2 DEF StateOf
  <2> QED BY <1>2, <2>1, <2>2, <2>3, StateFacts
<1>5. h <= minted
  <2>1. landed[h] # 0
    BY <1>2, <1>4, StateFacts DEF WritesInv, Truthful, Says
  <2> QED BY <1>2, <2>1 DEF WritesInv
<1>6. disk[h].post \in Nat /\ disk[h].pre.body \in Nat
  BY <1>4 DEF RecordType, Change
<1>7. /\ q \in ReqType(minted) /\ q.step = "found" /\ q.op = "undo" /\ q.h = h
      /\ q.image = Image(disk[h].post, disk[h].pre.body)
  <2> DEFINE idle == Idle
             image == Image(disk[h].post, disk[h].pre.body)
  <2>1. idle \in ReqType(minted)
    BY <1>2, IdleType
  <2>2. image \in Change
    BY <1>6 DEF Image, Change
  <2>3. h \in 0..minted
    BY <1>2, <1>5
  <2> HIDE DEF idle, image
  <2> QED BY <2>1, <2>2, <2>3 DEF ReqType, Steps, idle, image
<1> HIDE DEF q
<1>8. q.image.rev = disk[h].post /\ q.image.body = disk[h].pre.body
  BY <1>7 DEF Image
<1>9. RequestOK(q, disk', stable', landed, undone)
  <2>1. h # 0
    BY <1>2
  <2>2. UndoerOK(q, disk', undone)
    BY <1>3, <1>4, <1>7, <1>8, <2>1 DEF UndoerOK
  <2> QED BY <1>7, <2>2 DEF RequestOK, MakerOK
<1>10. request' \in [Requests -> ReqType(minted)] /\ request'[c] = q
         /\ \A d \in Requests : d # c => request'[d] = request[d]
  BY <1>1, <1>2, <1>7
<1> QED BY <1>1, <1>3, <1>7, <1>9, <1>10, HandlerStep DEF Ready, GoesOn

\* A step of a handler over a store that does not move.
LEMMA MovesInv ==
  ASSUME WritesInv, NEW c \in Requests, NEW s \in {"calling", "called"},
         request[c].step \notin {"idle", "asking"}, UNCHANGED <<storeVars, up, noteVars>>,
         request' = [request EXCEPT ![c].step = s],
         RequestOK([request[c] EXCEPT !.step = s], disk, stable, landed, undone)
  PROVE  WritesInv'
<1> DEFINE q == [request[c] EXCEPT !.step = s]
<1>1. request \in [Requests -> ReqType(minted)]
  BY DEF WritesInv, TypesOK
<1>2. q \in ReqType(minted) /\ q.op = request[c].op /\ q.h = request[c].h
  BY <1>1 DEF ReqType, Steps
<1>3. request' = [request EXCEPT ![c] = q]
  BY <1>1
<1> HIDE DEF q
<1>4. request' \in [Requests -> ReqType(minted)] /\ request'[c] = q
        /\ \A d \in Requests : d # c => request'[d] = request[d]
  BY <1>1, <1>2, <1>3
<1>5. Trimmed
  BY UnchangedTrims DEF storeVars
<1>6. RequestOK(q, disk', stable', landed, undone)
  BY DEF q, storeVars
<1>7. GoesOn(q, request[c])
  BY <1>2 DEF GoesOn
<1>8. up /\ syncing # c
  BY BusyFacts
<1> QED BY <1>4, <1>5, <1>6, <1>7, <1>8, HandlerStep DEF storeVars

LEMMA GuardsUndoInv == \A c \in Requests : WritesInv /\ GuardsUndo(c) => WritesInv'
<1> SUFFICES ASSUME NEW c \in Requests, WritesInv, GuardsUndo(c) PROVE WritesInv'
  OBVIOUS
<1>1. request[c].step = "found" /\ UNCHANGED <<storeVars, up, noteVars, boundVars>>
  BY DEF GuardsUndo
<1>2. up /\ syncing # c
  BY <1>1, BusyFacts
<1>3. request[c] \in ReqType(minted) /\ RequestOK(request[c], disk, stable, landed, undone)
  BY DEF WritesInv, TypesOK
<1>4. CASE Returns(c)
  BY <1>1, <1>2, <1>4, ReturnsInv, UnchangedTrims DEF storeVars
<1>5. CASE ~Returns(c)
  <2> DEFINE q == [request[c] EXCEPT !.step = "calling"]
  <2>1. request' = [request EXCEPT ![c].step = "calling"]
    BY <1>5 DEF GuardsUndo
  <2>2. q.step = "calling" /\ q.op = request[c].op /\ q.h = request[c].h /\ q.image = request[c].image
    BY <1>3 DEF ReqType
  <2>3. request[c].op = "undo"
    BY <1>1, <1>3 DEF RequestOK, MakerOK
  <2> HIDE DEF q
  <2>4. RequestOK(q, disk, stable, landed, undone)
    BY <1>1, <1>3, <2>2, <2>3 DEF RequestOK, MakerOK, UndoerOK
  <2> QED BY <1>1, <2>1, <2>4, MovesInv DEF q
<1> QED BY <1>4, <1>5

\* The record is durable before the source is called, and its outcome before
\* the handler returns.
LEMMA RecordEndsInv == \A c \in Requests : WritesInv /\ RecordEnds(c) => WritesInv'
<1> SUFFICES ASSUME NEW c \in Requests, WritesInv, RecordEnds(c) PROVE WritesInv'
  OBVIOUS
<1> DEFINE r == request[c]
<1>1. /\ syncing = c /\ stable' = disk /\ syncing' = None
      /\ UNCHANGED <<disk, open, minted, aged, up, noteVars, boundVars>>
  BY DEF RecordEnds, SyncsDirectory
<1>2. r.step = "asking" /\ r.h # 0 /\ StateOf(disk, r.h) = r.want
  BY <1>1, RequestsAssumption DEF WritesInv, Syncing
<1>3. up /\ Trimmed
  BY <1>1, <1>2, BusyFacts, SyncTrims
<1>4. r \in ReqType(minted) /\ RequestOK(r, disk, stable, landed, undone)
        /\ request \in [Requests -> ReqType(minted)]
  BY DEF WritesInv, TypesOK
<1>5. CASE r.want = "prepared"
  <2>1. Asks(c, "committing")
    BY <1>5 DEF RecordEnds
  <2>2. r.op # "undo" /\ landed[r.h] = 0
    BY <1>2, <1>4, <1>5 DEF RequestOK, MakerOK, UndoerOK, NotDone
  <2> QED BY <1>1, <1>2, <1>3, <2>1, <2>2, AsksInv DEF States
<1>6. CASE r.want = "committing"
  <2> DEFINE q == [r EXCEPT !.step = "calling"]
  <2>1. request' = [request EXCEPT ![c] = q]
    BY <1>4, <1>6 DEF RecordEnds
  <2>2. q \in ReqType(minted) /\ q.step = "calling" /\ q.op = r.op /\ q.h = r.h /\ q.want = r.want
    BY <1>4 DEF ReqType, Steps
  <2>3. r.op # "undo" /\ landed[r.h] = 0
    BY <1>2, <1>4, <1>6 DEF RequestOK, MakerOK, UndoerOK, NotDone
  <2> HIDE DEF q
  <2>4. StateOf(disk', q.h) = "committing" /\ StateOf(stable', q.h) = "committing"
    BY <1>1, <1>2, <1>6, <2>2
  <2>5. RequestOK(q, disk', stable', landed, undone)
    BY <1>2, <1>6, <2>2, <2>3, <2>4 DEF RequestOK, MakerOK, UndoerOK, Done
  <2>6. request' \in [Requests -> ReqType(minted)] /\ request'[c] = q
          /\ \A d \in Requests : d # c => request'[d] = request[d]
    BY <1>4, <2>1, <2>2
  <2>7. GoesOn(q, r)
    BY <2>2, <2>3 DEF GoesOn
  <2> QED BY <1>1, <1>3, <2>5, <2>6, <2>7, HandlerStep
<1>7. CASE r.want \notin {"prepared", "committing"}
  <2>1. Returns(c)
    BY <1>7 DEF RecordEnds
  <2> QED BY <1>1, <1>3, <2>1, ReturnsInv
<1> QED BY <1>5, <1>6, <1>7

\* An outcome that could not be recorded is recorded as uncertain.
LEMMA GivesUpInv ==
  ASSUME WritesInv, Trimmed, UNCHANGED <<noteVars, minted, aged>>, NEW c \in Requests,
         request[c].step = "asking", GivesUp(c), syncing' = None, up' = up
  PROVE  WritesInv'
<1>1. up
  BY BusyFacts
<1>2. CASE request[c].want \in {"committed", "undone"}
  <2>1. Asks(c, "unresolved")
    BY <1>2 DEF GivesUp
  <2>2. RequestOK(request[c], disk, stable, landed, undone)
    BY DEF WritesInv
  <2>3. request[c].op # "undo" => request[c].h # 0
    BY <1>2, <2>2 DEF RequestOK, MakerOK
  <2> QED BY <1>1, <2>1, <2>3, AsksInv DEF States
<1>3. CASE request[c].want \notin {"committed", "undone"}
  BY <1>1, <1>3, ReturnsInv DEF GivesUp
<1> QED BY <1>2, <1>3

LEMMA RecordNotMadeInv ==
  \A c \in Requests : WritesInv /\ (RecordRefused(c) \/ RecordFails(c)) => WritesInv'
<1> SUFFICES ASSUME NEW c \in Requests, WritesInv, RecordRefused(c) \/ RecordFails(c)
             PROVE  WritesInv'
  OBVIOUS
<1>1. CASE RecordRefused(c)
  <2>1. /\ request[c].step = "asking" /\ Ready /\ Expires /\ GivesUp(c)
        /\ UNCHANGED <<syncing, minted, aged, up, noteVars>>
    BY <1>1 DEF RecordRefused
  <2> QED BY <2>1, GivesUpInv, ExpiresTrims DEF Ready
<1>2. CASE RecordFails(c)
  <2>1. request[c].step = "asking" /\ ~open /\ GivesUp(c) /\ UNCHANGED <<storeVars, up, noteVars>>
    BY <1>2 DEF RecordFails
  <2>2. UNCHANGED <<disk, stable, syncing, minted, aged>> /\ syncing = None
    BY <2>1 DEF storeVars, WritesInv, Syncing
  <2> QED BY <2>1, <2>2, GivesUpInv, UnchangedTrims
<1> QED BY <1>1, <1>2

LEMMA SourceAnswersInv ==
  \A c \in Requests :
    WritesInv /\ (SourceReturns(c) \/ SourceFails(c) \/ SourceRefuses(c)) => WritesInv'
<1> SUFFICES ASSUME NEW c \in Requests, WritesInv,
                    SourceReturns(c) \/ SourceFails(c) \/ SourceRefuses(c)
             PROVE  WritesInv'
  OBVIOUS
<1> DEFINE r == request[c]
<1>1. r.step \in {"calling", "called"} /\ UNCHANGED <<storeVars, up, noteVars>>
  BY DEF SourceReturns, SourceFails, SourceRefuses
<1>2. /\ up /\ syncing # c /\ Trimmed
      /\ UNCHANGED <<disk, stable, open, syncing, minted, aged, up, noteVars>>
  BY <1>1, BusyFacts, UnchangedTrims DEF storeVars
<1>3. /\ r \in ReqType(minted) /\ RequestOK(r, disk, stable, landed, undone)
      /\ request \in [Requests -> ReqType(minted)] /\ note \in Change
  BY DEF WritesInv, TypesOK
<1>4. r.h # 0
  BY <1>1, <1>3 DEF RequestOK, MakerOK, UndoerOK
<1>5. CASE SourceFails(c)
  <2>1. Asks(c, "unresolved")
    BY <1>5 DEF SourceFails
  <2> QED BY <1>1, <1>2, <1>4, <2>1, AsksInv DEF States
<1>6. CASE SourceRefuses(c)
  <2>1. CASE r.op = "undo"
    BY <1>2, <1>6, <2>1, ReturnsInv DEF SourceRefuses
  <2>2. CASE r.op # "undo"
    <3>1. Asks(c, "aborted") /\ r.step = "calling"
      BY <1>6, <2>2 DEF SourceRefuses
    <3>2. landed[r.h] = 0
      BY <1>3, <1>4, <2>2, <3>1 DEF RequestOK, MakerOK, NotDone
    <3> QED BY <1>1, <1>2, <1>4, <2>2, <3>1, <3>2, AsksInv DEF States
  <2> QED BY <2>1, <2>2
<1>7. CASE SourceReturns(c)
  <2> DEFINE s == IF r.op = "undo" THEN "undone" ELSE "committed"
             q == [r EXCEPT !.step = "asking", !.want = s, !.got = note.rev]
  <2>1. request' = [request EXCEPT ![c] = q] /\ r.step = "called"
    BY <1>3, <1>7 DEF SourceReturns
  <2>2. s \in States /\ note.rev \in Nat
    BY <1>3 DEF States, Change
  <2>3. /\ q \in ReqType(minted) /\ q.step = "asking" /\ q.want = s /\ q.op = r.op /\ q.h = r.h
    BY <1>3, <2>2 DEF ReqType, Steps
  <2>4. (r.op = "undo" => r.h \in undone) /\ (r.op # "undo" => landed[r.h] # 0)
    BY <1>3, <1>4, <2>1 DEF RequestOK, MakerOK, UndoerOK, Done
  <2> HIDE DEF q
  <2>5. RequestOK(q, disk', stable', landed, undone)
    BY <1>4, <2>3, <2>4 DEF RequestOK, MakerOK, UndoerOK, NotDone
  <2>6. request' \in [Requests -> ReqType(minted)] /\ request'[c] = q
          /\ \A d \in Requests : d # c => request'[d] = request[d]
    BY <1>3, <2>1, <2>3
  <2>7. GoesOn(q, r)
    BY <2>3 DEF GoesOn
  <2> QED BY <1>2, <2>5, <2>6, <2>7, HandlerStep
<1> QED BY <1>5, <1>6, <1>7
-----------------------------------------------------------------------------
(* Steps of the store alone.                                               *)

LEMMA LaterTruthful ==
  ASSUME NEW d, NEW l, NEW u, NEW v, NEW a \in Nat, NEW b \in Nat, Truthful(d, l, u, a),
         u \subseteq v, a <= b
  PROVE  Truthful(d, l, v, b)
<1> SUFFICES ASSUME NEW h \in Handles PROVE Says(StateOf(d, h), h, l, v, b)
  BY DEF Truthful
<1>1. Says(StateOf(d, h), h, l, u, a)
  BY DEF Truthful
<1>2. h <= a => h <= b
  BY OpBoundAssumption DEF Handles
<1> QED BY <1>1, <1>2 DEF Says

LEMMA StoreStep ==
  ASSUME WritesInv, Trimmed, UNCHANGED <<request, noteVars, minted, up>>,
         aged' \in Nat, aged <= aged', aged' <= minted,
         syncing' = None \/ (syncing' = syncing /\ disk' = disk /\ open' = open)
  PROVE  WritesInv'
<1>1. TypesOK'
  BY DEF WritesInv, TypesOK, Trimmed, noteVars
<1>2. Truthful(disk', landed', undone', aged') /\ Truthful(stable', landed', undone', aged')
  BY TrimmedStore, LaterTruthful DEF noteVars, WritesInv, TypesOK
<1>3. ASSUME NEW d \in Requests
      PROVE  RequestOK(request'[d], disk', stable', landed', undone')
  <2>1. request[d] \in ReqType(minted) /\ RequestOK(request[d], disk, stable, landed, undone)
    BY DEF WritesInv, TypesOK
  <2> QED BY <2>1, TrimmedRequest DEF noteVars
<1>4. Distinct' /\ Syncing' /\ DownIsIdle'
  BY DEF WritesInv, Distinct, Syncing, DownIsIdle
<1>5. \A h \in Handles : h > minted' => landed'[h] = 0
  BY DEF WritesInv, noteVars
<1> QED BY <1>1, <1>2, <1>3, <1>4, <1>5 DEF WritesInv

\* What acknowledge() and a failing store remove is disposable.
LEMMA AcknowledgesTrims ==
  ASSUME WritesInv, NEW h \in Handles, Acknowledges(h)
  PROVE  Trimmed
<1>1. /\ StateOf(Kept(disk), h) \in {"aborted", "undone"}
      /\ disk' = Without(Kept(disk), {h}) /\ stable' = disk'
  BY DEF Acknowledges
<1>2. disk \in Files
  BY DEF WritesInv, TypesOK
<1>3. /\ Kept(disk) \in Files
      /\ \A k \in Handles : \/ Kept(disk)[k] = disk[k]
                            \/ Kept(disk)[k] = None /\ Disposable(StateOf(disk, k), k, aged)
  BY <1>2, ExpiredFacts DEF Kept
<1>4. \A k \in Handles : disk'[k] = IF k = h THEN None ELSE Kept(disk)[k]
  BY <1>1 DEF Without
<1>5. disk' \in Files
  BY <1>1, <1>3 DEF Without, Files
<1>6. Kept(disk)[h] = disk[h] /\ StateOf(disk, h) \in {"aborted", "undone"}
  <2>1. Kept(disk)[h] # None
    BY <1>1 DEF StateOf
  <2>2. Kept(disk)[h] = disk[h]
    BY <1>3, <2>1
  <2> QED BY <1>1, <2>2 DEF StateOf
<1> QED BY <1>1, <1>3, <1>4, <1>5, <1>6 DEF Trimmed, Disposable

LEMMA PoisonsTrims == ASSUME WritesInv, Poisons PROVE Trimmed
<1>1. PICK hs \in IF syncing = None THEN SUBSET Expired(disk) ELSE {{}} :
        disk' = Without(disk, hs) /\ stable' \in {stable} \cup {disk' : x \in hs}
  BY DEF Poisons
<1>2. hs \in SUBSET Expired(disk) /\ disk \in Files /\ stable \in Files
  BY DEF WritesInv, TypesOK
<1>3. stable' = stable \/ stable' = disk'
  BY <1>1
<1> QED BY <1>1, <1>2, <1>3, ExpiredFacts DEF Trimmed

LEMMA StoreInv ==
  WritesInv /\ (ReadsStore \/ (\E h \in Handles : Acknowledge(h)) \/ TimePasses \/ StoreBreaks)
    => WritesInv'
<1> SUFFICES ASSUME WritesInv,
                    ReadsStore \/ (\E h \in Handles : Acknowledge(h)) \/ TimePasses \/ StoreBreaks
             PROVE  WritesInv'
  OBVIOUS
<1>1. aged \in Nat /\ aged <= minted /\ minted \in Nat
  BY DEF WritesInv, TypesOK
<1>2. aged <= aged
  BY <1>1
<1>3. CASE ReadsStore
  <2>1. Ready /\ Expires /\ UNCHANGED <<open, syncing, minted, aged, up, request, noteVars>>
    BY <1>3 DEF ReadsStore, Reads
  <2> QED BY <1>1, <1>2, <2>1, ExpiresTrims, StoreStep DEF Ready
<1>4. CASE \E h \in Handles : Acknowledge(h)
  <2>1. PICK h \in Handles : Acknowledge(h)
    BY <1>4
  <2>2. Acknowledges(h) /\ Ready /\ UNCHANGED <<open, syncing, minted, aged, up, request, noteVars>>
    BY <2>1 DEF Acknowledge, Acknowledges
  <2> QED BY <1>1, <1>2, <2>2, AcknowledgesTrims, StoreStep DEF Ready
<1>5. CASE TimePasses
  <2>1. /\ aged < minted /\ aged' = aged + 1
        /\ UNCHANGED <<disk, stable, open, syncing, minted, up, request, noteVars>>
    BY <1>5 DEF TimePasses, Ages
  <2>2. aged' \in Nat /\ aged <= aged' /\ aged' <= minted
    BY <1>1, <2>1
  <2> QED BY <2>1, <2>2, UnchangedTrims, StoreStep
<1>6. CASE StoreBreaks
  <2>1. Poisons /\ syncing' = None /\ UNCHANGED <<minted, aged, up, request, noteVars>>
    BY <1>6 DEF StoreBreaks, Poisons
  <2> QED BY <1>1, <1>2, <2>1, PoisonsTrims, StoreStep
<1> QED BY <1>3, <1>4, <1>5, <1>6
-----------------------------------------------------------------------------
(* The note changes.                                                       *)

LEMMA OthersWriteInv == WritesInv /\ OthersWrite => WritesInv'
<1> SUFFICES ASSUME WritesInv, OthersWrite PROVE WritesInv'
  OBVIOUS
<1>1. /\ note' = Image(NextRev, Others)
      /\ UNCHANGED <<disk, stable, open, syncing, minted, aged, up, request, landed, undone>>
  BY DEF OthersWrite, storeVars
<1>2. note' \in Change
  BY <1>1 DEF Image, Change, NextRev, Others, WritesInv, TypesOK
<1> QED BY <1>1, <1>2 DEF WritesInv, TypesOK, Distinct, Syncing, DownIsIdle

\* Whoever writes the note has a record that says `committing`, or the undo's.
LEMMA SourceWritesInv == \A c \in Requests : WritesInv /\ SourceWrites(c) => WritesInv'
<1> SUFFICES ASSUME NEW c \in Requests, WritesInv, SourceWrites(c) PROVE WritesInv'
  OBVIOUS
<1> DEFINE r == request[c]
           q == [r EXCEPT !.step = "called"]
           made == IF r.op = "edit" THEN NextRev ELSE 1
<1>1. /\ r.step = "calling" /\ request' = [request EXCEPT ![c].step = "called"]
      /\ UNCHANGED <<disk, stable, open, syncing, minted, aged, up>>
      /\ note' = IF r.op = "create" THEN note ELSE Image(NextRev, BodyOf(r))
      /\ landed' = IF r.op = "undo" THEN landed ELSE [landed EXCEPT ![r.h] = made]
      /\ undone' = IF r.op = "undo" THEN undone \cup {r.h} ELSE undone
  BY DEF SourceWrites, storeVars
<1>2. /\ r \in ReqType(minted) /\ RequestOK(r, disk, stable, landed, undone)
      /\ request \in [Requests -> ReqType(minted)] /\ note \in Change
      /\ landed \in [Handles -> Nat] /\ undone \in SUBSET Handles /\ TypesOK
      /\ minted \in Nat /\ aged \in Nat
  BY DEF WritesInv, TypesOK
<1>3. r.h # 0 /\ r.h \in Handles /\ r.h \in 0..minted
  BY <1>1, <1>2, HandleType DEF RequestOK, MakerOK, UndoerOK
<1>4. r.image.body \in Nat /\ NextRev \in Nat /\ NextRev # 0
  BY <1>2 DEF ReqType, Change, NextRev
<1>5. made \in Nat /\ made # 0
  BY <1>4
<1> HIDE DEF made
<1>6. note' \in Change
  <2>1. BodyOf(r) \in Nat
    BY <1>3, <1>4 DEF BodyOf
  <2> QED BY <1>1, <1>2, <1>4, <2>1 DEF Image, Change
<1>7. landed' \in [Handles -> Nat] /\ undone' \in SUBSET Handles /\ undone \subseteq undone'
  BY <1>1, <1>2, <1>3, <1>5
<1>8. /\ q \in ReqType(minted) /\ q.step = "called" /\ q.op = r.op /\ q.h = r.h /\ q.want = r.want
  BY <1>2 DEF ReqType, Steps
<1>9. request' = [request EXCEPT ![c] = q]
  BY <1>1, <1>2
<1> HIDE DEF q
<1>10. request' \in [Requests -> ReqType(minted)] /\ request'[c] = q
         /\ \A d \in Requests : d # c => request'[d] = request[d]
  BY <1>2, <1>8, <1>9
<1>11. TypesOK'
  BY <1>1, <1>6, <1>7, <1>10 DEF WritesInv, TypesOK
<1>12. \A h \in Handles : /\ landed'[h] = landed[h] \/ (r.op # "undo" /\ h = r.h /\ landed'[h] # 0)
                          /\ r.op # "undo" => landed'[r.h] # 0
                          /\ r.op = "undo" => r.h \in undone' /\ landed' = landed
  BY <1>1, <1>2, <1>3, <1>5
<1>13. r.op # "undo" => StateOf(disk, r.h) = "committing" /\ StateOf(stable, r.h) = "committing"
  BY <1>1, <1>2 DEF RequestOK, MakerOK
<1>14. ASSUME NEW files \in {disk, stable}
       PROVE  Truthful(files, landed', undone', aged)
  <2> SUFFICES ASSUME NEW h \in Handles PROVE Says(StateOf(files, h), h, landed', undone', aged)
    BY DEF Truthful
  <2>1. Says(StateOf(files, h), h, landed, undone, aged)
    BY DEF WritesInv, Truthful
  <2>2. CASE landed'[h] = landed[h]
    BY <1>7, <2>1, <2>2 DEF Says
  <2>3. CASE landed'[h] # landed[h]
    <3>1. StateOf(files, h) = "committing"
      BY <1>12, <1>13, <2>3
    <3> QED BY <3>1 DEF Says
  <2> QED BY <2>2, <2>3
<1>15. ASSUME NEW d \in Requests
       PROVE  RequestOK(request'[d], disk, stable, landed', undone')
  <2>1. CASE d = c
    <3>1. r.op # "undo" => r.want # "undone"
      BY <1>2 DEF RequestOK, MakerOK
    <3>2. MakerOK(q, disk, stable, landed')
      BY <1>3, <1>8, <1>12, <3>1 DEF MakerOK, NotDone
    <3>3. UndoerOK(q, disk, undone')
      BY <1>3, <1>8, <1>12 DEF UndoerOK
    <3> QED BY <1>8, <1>10, <2>1, <3>2, <3>3 DEF RequestOK
  <2>2. CASE d # c
    <3> DEFINE p == request[d]
    <3>1. request'[d] = p /\ p \in ReqType(minted) /\ RequestOK(p, disk, stable, landed, undone)
      BY <1>10, <2>2 DEF WritesInv, TypesOK
    <3>2. p.h # 0 => p.h \in Handles
      BY <1>2, <3>1, HandleType
    <3>3. p.op # "undo" /\ p.h # 0 => landed'[p.h] = landed[p.h]
      BY <1>3, <1>12, <2>2, <3>2 DEF WritesInv, Distinct
    <3> HIDE DEF p
    <3>4. MakerOK(p, disk, stable, landed')
      BY <3>1, <3>3 DEF RequestOK, MakerOK
    <3>5. UndoerOK(p, disk, undone')
      BY <1>7, <3>1 DEF RequestOK, UndoerOK
    <3> QED BY <3>1, <3>4, <3>5 DEF RequestOK
  <2> QED BY <2>1, <2>2
<1>16. Distinct'
  BY <1>8, <1>10 DEF WritesInv, Distinct
<1>17. syncing # c
  BY <1>1, BusyFacts
<1>18. Syncing'
  BY <1>1, <1>10, <1>17 DEF WritesInv, Syncing
<1>19. up
  BY <1>1, BusyFacts
<1>20. DownIsIdle'
  BY <1>1, <1>19 DEF DownIsIdle
<1>21. \A h \in Handles : h > minted' => landed'[h] = 0
  <2> SUFFICES ASSUME NEW h \in Handles, h > minted PROVE landed'[h] = 0
    BY <1>1
  <2>1. landed[h] = 0 /\ h # r.h
    BY <1>2, <1>3 DEF WritesInv
  <2> QED BY <1>12, <2>1
<1> QED BY <1>1, <1>11, <1>14, <1>15, <1>16, <1>18, <1>20, <1>21 DEF WritesInv
-----------------------------------------------------------------------------
(* The daemon stops and starts.                                            *)

LEMMA QuietInv ==
  ASSUME WritesInv, disk' \in Files, stable' \in Files,
         Truthful(disk', landed, undone, aged), Truthful(stable', landed, undone, aged),
         syncing' = None, UNCHANGED <<minted, aged, noteVars>>,
         request' \in [Requests -> ReqType(minted)], \A c \in Requests : request'[c] = Idle
  PROVE  WritesInv'
<1>1. TypesOK'
  BY DEF WritesInv, TypesOK, noteVars
<1>2. \A c \in Requests : RequestOK(request'[c], disk', stable', landed', undone')
  BY IdleOK
<1>3. Distinct'
  BY IdleType DEF WritesInv, TypesOK, Distinct
<1>4. Syncing' /\ DownIsIdle'
  BY DEF Syncing, DownIsIdle
<1> QED BY <1>1, <1>2, <1>3, <1>4 DEF WritesInv, noteVars

LEMMA StopInv == \A b \in BOOLEAN : WritesInv /\ Stop(b) => WritesInv'
<1> SUFFICES ASSUME NEW b \in BOOLEAN, WritesInv, Stop(b) PROVE WritesInv'
  OBVIOUS
<1>1. /\ syncing' = None /\ UNCHANGED <<minted, aged, noteVars>>
      /\ stable' = IF b THEN disk' ELSE stable
      /\ request' = [c \in Requests |-> Idle]
  BY DEF Stop, Stops
<1>2. PICK hs : disk' = [h \in Handles |-> IF h \in hs THEN stable[h] ELSE disk[h]]
  BY DEF Stop, Stops
<1>3. disk \in Files /\ stable \in Files /\ minted \in Nat
  BY DEF WritesInv, TypesOK
<1>4. disk' \in Files /\ \A h \in Handles : disk'[h] = disk[h] \/ disk'[h] = stable[h]
  BY <1>2, <1>3 DEF Files
<1>5. Truthful(disk', landed, undone, aged)
  BY <1>4, MixedTruthful DEF WritesInv
<1>6. stable' \in Files /\ Truthful(stable', landed, undone, aged)
  BY <1>1, <1>3, <1>4, <1>5 DEF WritesInv
<1> QED BY <1>1, <1>3, <1>4, <1>5, <1>6, IdleType, QuietInv

\* What was interrupted becomes uncertain: that is no lie.
LEMMA ResolvingTruthful ==
  ASSUME WritesInv, NEW hs \in SUBSET Interrupted
  PROVE  Resolving(hs) \in Files /\ Truthful(Resolving(hs), landed, undone, aged)
<1>1. disk \in Files
  BY DEF WritesInv, TypesOK
<1>2. ASSUME NEW h \in hs
      PROVE  /\ h \in Handles /\ [disk[h] EXCEPT !.state = "unresolved"] \in RecordType
             /\ [disk[h] EXCEPT !.state = "unresolved"].state = "unresolved"
  <2>1. h \in Handles /\ StateOf(disk, h) = "committing"
    BY DEF Interrupted
  <2>2. disk[h] \in RecordType
    BY <1>1, <2>1, StateFacts
  <2> QED BY <2>1, <2>2 DEF RecordType, States
<1>3. Resolving(hs) \in Files
  BY <1>1, <1>2 DEF Resolving, Files
<1>4. ASSUME NEW h \in Handles
      PROVE  Says(StateOf(Resolving(hs), h), h, landed, undone, aged)
  <2>1. CASE h \in hs
    <3>1. Resolving(hs)[h] = [disk[h] EXCEPT !.state = "unresolved"]
      BY <2>1 DEF Resolving
    <3>2. StateOf(Resolving(hs), h) = "unresolved"
      BY <1>2, <2>1, <3>1, NoneIsNoRecord DEF StateOf
    <3> QED BY <3>2 DEF Says
  <2>2. CASE h \notin hs
    <3>1. Resolving(hs)[h] = disk[h]
      BY <2>2 DEF Resolving
    <3> QED BY <3>1 DEF WritesInv, Truthful, StateOf
  <2> QED BY <2>1, <2>2
<1> QED BY <1>3, <1>4 DEF Truthful

LEMMA WithoutTruthful ==
  ASSUME WritesInv, NEW files \in Files, Truthful(files, landed, undone, aged),
         NEW hs \in SUBSET Expired(files)
  PROVE  Without(files, hs) \in Files /\ Truthful(Without(files, hs), landed, undone, aged)
BY ExpiredFacts, TrimmedTruthful DEF WritesInv, TypesOK

\* What a failed or a successful opening leaves of the directory.
LEMMA OpenedDirectory ==
  ASSUME Start \/ \E b \in BOOLEAN : StartWithoutStore(b)
  PROVE  \E hs \in SUBSET Interrupted : \E gone \in SUBSET Expired(Resolving(hs)) :
           disk' = Resolving(hs) \/ disk' = Without(Resolving(hs), gone)
<1>1. CASE Start
  <2>1. disk' = Without(Resolving(Interrupted), Expired(Resolving(Interrupted)))
    BY <1>1 DEF Start, Opens, Kept
  <2> QED BY <2>1
<1>2. CASE \E b \in BOOLEAN : StartWithoutStore(b)
  BY <1>2 DEF StartWithoutStore, OpenFails
<1> QED BY <1>1, <1>2

LEMMA StartInv == WritesInv /\ (Start \/ \E b \in BOOLEAN : StartWithoutStore(b)) => WritesInv'
<1> SUFFICES ASSUME WritesInv, Start \/ \E b \in BOOLEAN : StartWithoutStore(b) PROVE WritesInv'
  OBVIOUS
<1>1. ~up /\ UNCHANGED <<request, noteVars, syncing, minted, aged>>
        /\ (stable' = stable \/ stable' = disk')
  BY DEF Start, StartWithoutStore, Opens, OpenFails
<1>2. PICK hs \in SUBSET Interrupted : \E gone \in SUBSET Expired(Resolving(hs)) :
        disk' = Resolving(hs) \/ disk' = Without(Resolving(hs), gone)
  BY OpenedDirectory
<1>3. disk' \in Files /\ Truthful(disk', landed, undone, aged)
  BY <1>2, ResolvingTruthful, WithoutTruthful
<1>4. stable' \in Files /\ Truthful(stable', landed, undone, aged)
  BY <1>1, <1>3 DEF WritesInv, TypesOK
<1>5. syncing = None /\ (\A c \in Requests : request[c] = Idle) /\ request \in [Requests -> ReqType(minted)]
  BY <1>1 DEF WritesInv, DownIsIdle, TypesOK
<1> QED BY <1>1, <1>3, <1>4, <1>5, QuietInv
-----------------------------------------------------------------------------
(* A handler records a state.                                              *)

\* What expire() left of the directory `d`.
Left(d, e) ==
  \A h \in Handles : e[h] = d[h] \/ (e[h] = None /\ Disposable(StateOf(d, h), h, aged))

\* The record of `T` is replaced: for a handler of another operation nothing
\* changes, and an undo that found the record still finds what it goes by.
LEMMA PlacedRequest ==
  ASSUME WritesInv, NEW p \in ReqType(minted), RequestOK(p, disk, stable, landed, undone),
         NEW e \in Files, Left(disk, e), NEW T \in Handles, NEW W \in RecordType,
         NEW s, s = stable \/ s = e,
         p.op # "undo" /\ p.step = "calling" => p.h # T,
         p.op = "undo" /\ p.step \in {"found", "calling"} /\ p.h = T =>
           /\ W.state \in {"committed", "unresolved", "undone"}
           /\ p.image.rev = W.post /\ p.image.body = W.pre.body
  PROVE  RequestOK(p, [e EXCEPT ![T] = W], s, landed, undone)
<1> DEFINE d == [e EXCEPT ![T] = W]
<1>1. p.h # 0 => p.h \in Handles
  BY HandleType DEF WritesInv
<1>2. \A h \in Handles : d[h] = IF h = T THEN W ELSE e[h]
  BY DEF Files
<1> HIDE DEF d
<1>3. MakerOK(p, d, s, landed)
  <2>1. CASE p.op # "undo" /\ p.step = "calling"
    <3>1. p.h \in Handles /\ StateOf(disk, p.h) = "committing" /\ StateOf(stable, p.h) = "committing"
      BY <1>1, <2>1 DEF RequestOK, MakerOK
    <3>2. e[p.h] = disk[p.h] /\ d[p.h] = e[p.h]
      BY <1>2, <2>1, <3>1 DEF Left, Disposable
    <3>3. StateOf(d, p.h) = "committing" /\ StateOf(s, p.h) = "committing"
      BY <3>1, <3>2 DEF StateOf
    <3> QED BY <3>3 DEF RequestOK, MakerOK
  <2>2. CASE ~(p.op # "undo" /\ p.step = "calling")
    BY <2>2 DEF RequestOK, MakerOK
  <2> QED BY <2>1, <2>2
<1>4. UndoerOK(p, d, undone)
  <2>1. CASE p.op = "undo" /\ p.h = T
    BY <1>2, <2>1 DEF RequestOK, UndoerOK
  <2>2. CASE p.op = "undo" /\ p.h # T
    <3>1. d[p.h] = disk[p.h] \/ d[p.h] = None
      BY <1>1, <1>2, <2>2 DEF Left, RequestOK, UndoerOK
    <3> QED BY <2>2, <3>1 DEF RequestOK, UndoerOK
  <2>3. CASE p.op # "undo"
    BY <2>3 DEF UndoerOK
  <2> QED BY <2>1, <2>2, <2>3
<1> QED BY <1>3, <1>4 DEF RequestOK, d

\* Handler `c` puts the record `W` of operation `T` in the directory `e`; its
\* request is then `q`.
Places(c, T, W, e, q) ==
  /\ up /\ open /\ T \in Handles /\ W \in RecordType /\ e \in Files /\ Left(disk, e)
  /\ up' = up /\ open' = open /\ aged' = aged /\ UNCHANGED noteVars
  /\ disk' = [e EXCEPT ![T] = W] /\ (stable' = stable \/ stable' = e) /\ syncing' = c
  /\ minted' \in Nat /\ minted <= minted' /\ minted' <= OpBound
  /\ request' = [request EXCEPT ![c] = q] /\ q \in ReqType(minted')
  /\ q.h = T /\ q.step = "asking" /\ q.want = W.state /\ q.op = request[c].op

\* A true record in a truthful directory, asked for by its own handler.
LEMMA PlacedInv ==
  ASSUME WritesInv, NEW c \in Requests, NEW T, NEW W, NEW e, NEW q, Places(c, T, W, e, q),
         Says(W.state, T, landed, undone, aged),
         RequestOK(q, disk', stable', landed, undone),
         \A p \in Requests : p # c =>
           /\ RequestOK(request[p], disk', stable', landed, undone)
           /\ request[p].op # "undo" /\ q.op # "undo" => request[p].h # T
  PROVE  WritesInv'
<1> USE DEF Places
<1>1. /\ request \in [Requests -> ReqType(minted)] /\ minted \in Nat /\ aged \in Nat
      /\ aged <= minted /\ T # 0
  BY OpBoundAssumption DEF WritesInv, TypesOK, Handles
<1>2. ReqType(minted) \subseteq ReqType(minted')
  <2>1. 0..minted \subseteq 0..(minted')
    BY <1>1
  <2> QED BY <2>1 DEF ReqType
<1>3. request' \in [Requests -> ReqType(minted')] /\ request'[c] = q
        /\ \A p \in Requests : p # c => request'[p] = request[p]
  BY <1>1, <1>2
<1>4. disk' \in Files /\ \A h \in Handles : disk'[h] = IF h = T THEN W ELSE e[h]
  BY DEF Files
<1>5. StateOf(disk', T) = W.state
  BY <1>4, NoneIsNoRecord DEF StateOf
<1>6. TypesOK'
  <2>1. aged' \in Nat /\ aged' <= minted'
    BY <1>1
  <2>2. stable' \in Files /\ note' \in Change /\ landed' \in [Handles -> Nat] /\ undone' \in SUBSET Handles
    BY DEF WritesInv, TypesOK, noteVars
  <2> QED BY <1>3, <1>4, <2>1, <2>2 DEF TypesOK
<1>7. Truthful(e, landed, undone, aged)
  BY TrimmedTruthful DEF WritesInv, TypesOK, Left
<1>8. Truthful(disk', landed, undone, aged)
  <2> SUFFICES ASSUME NEW h \in Handles PROVE Says(StateOf(disk', h), h, landed, undone, aged)
    BY DEF Truthful
  <2>1. CASE h = T
    BY <1>5, <2>1
  <2>2. CASE h # T
    <3>1. StateOf(disk', h) = StateOf(e, h)
      BY <1>4, <2>2 DEF StateOf
    <3> QED BY <1>7, <3>1 DEF Truthful
  <2> QED BY <2>1, <2>2
<1>9. Truthful(stable', landed, undone, aged)
  BY <1>7 DEF WritesInv
<1>10. \A p \in Requests : RequestOK(request'[p], disk', stable', landed, undone)
  BY <1>3
<1>11. Distinct'
  <2> SUFFICES ASSUME NEW a \in Requests, NEW b \in Requests, a # b,
                      request'[a].op # "undo", request'[b].op # "undo",
                      request'[a].h = request'[b].h
               PROVE  request'[a].h = 0
    BY DEF Distinct
  <2>1. a # c /\ b # c
    BY <1>3
  <2> QED BY <1>3, <2>1 DEF WritesInv, Distinct
<1>12. Syncing'
  BY <1>1, <1>3, <1>5 DEF Syncing
<1>13. DownIsIdle'
  BY DEF DownIsIdle
<1>14. \A h \in Handles : h > minted' => landed'[h] = 0
  <2> SUFFICES ASSUME NEW h \in Handles, h > minted' PROVE landed'[h] = 0
    OBVIOUS
  <2>1. h > minted
    BY <1>1, OpBoundAssumption DEF Handles
  <2> QED BY <2>1 DEF WritesInv, noteVars
<1> QED BY <1>6, <1>8, <1>9, <1>10, <1>11, <1>12, <1>13, <1>14 DEF WritesInv, noteVars

LEMMA RecordStartsInv == \A c \in Requests : WritesInv /\ RecordStarts(c) => WritesInv'
<1> SUFFICES ASSUME NEW c \in Requests, WritesInv, RecordStarts(c) PROVE WritesInv'
  OBVIOUS
<1> DEFINE r == request[c]
           T == Target(r)
           W == Wanted(r)
           e == Kept(disk)
           q == [r EXCEPT !.h = T]
<1>1. /\ r.step = "asking" /\ open /\ syncing = None /\ T \in Handles
      /\ StateOf(e, T) = Expected(r)
      /\ disk' = [e EXCEPT ![T] = W] /\ (stable' = stable \/ stable' = e) /\ syncing' = c
      /\ minted' = IF r.want = "prepared" THEN minted + 1 ELSE minted
      /\ request' = [request EXCEPT ![c].h = T]
      /\ UNCHANGED <<open, aged, up, noteVars>>
  BY DEF RecordStarts, Recordable, Ready, Renames
<1>2. up
  BY <1>1, BusyFacts
<1>3. /\ r \in ReqType(minted) /\ RequestOK(r, disk, stable, landed, undone)
      /\ request \in [Requests -> ReqType(minted)]
      /\ disk \in Files /\ minted \in Nat /\ minted <= OpBound
      /\ landed \in [Handles -> Nat] /\ undone \in SUBSET Handles
  BY DEF WritesInv, TypesOK
<1>4. e \in Files /\ Left(disk, e)
  BY <1>3, ExpiredFacts DEF Kept, Left
<1>5. request' = [request EXCEPT ![c] = q]
  BY <1>1, <1>3
<1>6. T \in Nat /\ T # 0 /\ T <= OpBound
  BY <1>1, OpBoundAssumption DEF Handles
<1>7. T <= minted' /\ minted' \in Nat /\ minted <= minted' /\ minted' <= OpBound
  <2>1. CASE r.want = "prepared"
    BY <1>1, <1>3, <1>6, <2>1 DEF Target
  <2>2. CASE r.want # "prepared"
    <3>1. r.h \in 0..minted
      BY <1>3, HandleType DEF WritesInv
    <3> QED BY <1>1, <1>3, <2>2, <3>1 DEF Target
  <2> QED BY <2>1, <2>2
<1>8. /\ q \in ReqType(minted') /\ q.h = T /\ q.op = r.op /\ q.step = r.step /\ q.want = r.want
  <2>1. T \in 0..minted'
    BY <1>6, <1>7
  <2> QED BY <1>3, <2>1 DEF ReqType
<1> HIDE DEF q
<1>9. r.want \in States /\ r.op \in Kinds \cup {"undo"} /\ r.image \in Change /\ r.got \in Nat
  BY <1>3 DEF ReqType
<1>10. CASE r.want = "prepared"
  <2>1. r.op # "undo" /\ T = minted + 1 /\ r.op \in Kinds
    BY <1>1, <1>3, <1>9, <1>10 DEF RequestOK, UndoerOK, Target
  <2>2. W \in RecordType /\ W.state = "prepared"
    BY <1>9, <1>10, <2>1 DEF Wanted, RecordType, States
  <2>3. landed[T] = 0
    BY <1>1, <1>3, <2>1 DEF WritesInv
  <2>4. Says(W.state, T, landed, undone, aged)
    BY <2>2, <2>3 DEF Says
  <2>5. RequestOK(q, disk', stable', landed, undone)
    BY <1>1, <1>6, <1>8, <1>10, <2>1, <2>3 DEF RequestOK, MakerOK, UndoerOK, Done
  <2>6. ASSUME NEW p \in Requests, p # c
        PROVE  /\ RequestOK(request[p], disk', stable', landed, undone)
               /\ request[p].h # T
    <3>1. request[p] \in ReqType(minted) /\ RequestOK(request[p], disk, stable, landed, undone)
      BY DEF WritesInv, TypesOK
    <3>2. request[p].h \in 0..minted
      BY <3>1, HandleType DEF WritesInv
    <3>3. request[p].h # T
      BY <1>3, <2>1, <3>2
    <3> HIDE DEF T, W, e
    <3> QED BY <1>1, <1>4, <2>2, <3>1, <3>3, PlacedRequest
  <2>7. T \in Handles /\ W \in RecordType /\ W.state = r.want /\ q.step = "asking"
    BY <1>1, <1>8, <1>10, <2>2
  <2> HIDE DEF r, T, W, e
  <2>8. Places(c, T, W, e, q)
    BY <1>1, <1>2, <1>4, <1>5, <1>7, <1>8, <2>7 DEF Places, r
  <2> QED BY <2>4, <2>5, <2>6, <2>8, PlacedInv
<1>11. CASE r.want # "prepared"
  <2>1. T = r.h
    BY <1>11 DEF Target
  <2>2. Expected(r) # "missing"
    BY <1>11 DEF Expected
  <2>3. disk[T] = e[T] /\ disk[T] \in RecordType /\ disk[T].state = Expected(r) /\ disk[T] # None
          /\ StateOf(disk, T) = Expected(r)
    <3>1. e[T] # None
      BY <1>1, <2>2 DEF StateOf
    <3>2. disk[T] = e[T]
      BY <1>1, <1>4, <3>1 DEF Left
    <3> QED BY <1>1, <1>3, <3>1, <3>2, StateFacts DEF StateOf
  <2>4. W = [disk[T] EXCEPT !.state = r.want,
                            !.post = IF r.want = "committed" /\ r.op = "edit" THEN r.got ELSE @]
    BY <1>11, <2>1 DEF Wanted
  <2>5. /\ W \in RecordType /\ W.state = r.want /\ W.pre = disk[T].pre
        /\ r.want # "committed" => W.post = disk[T].post
    <3> DEFINE x == disk[T]
    <3>1. x \in RecordType
      BY <2>3
    <3> HIDE DEF x
    <3>2. [x EXCEPT !.state = r.want, !.post = IF r.want = "committed" /\ r.op = "edit" THEN r.got ELSE @]
            \in RecordType
      BY <1>9, <3>1 DEF RecordType
    <3> QED BY <2>4, <3>1, <3>2 DEF x, RecordType
  <2>6. \A h \in Handles : Says(StateOf(disk, h), h, landed, undone, aged)
    BY DEF WritesInv, Truthful
  <2>7. Says(W.state, T, landed, undone, aged)
    <3>1. CASE r.op # "undo"
      BY <1>1, <1>3, <1>6, <1>9, <1>11, <2>1, <2>5, <3>1
         DEF RequestOK, MakerOK, Done, NotDone, Says, States
    <3>2. CASE r.op = "undo"
      <4>1. r.want \in {"unresolved", "undone"}
        BY <1>1, <1>3, <3>2 DEF RequestOK, UndoerOK
      <4>2. StateOf(disk, T) = "committed"
        BY <2>3, <3>2, <4>1 DEF Expected
      <4>3. landed[T] # 0
        BY <1>1, <2>6, <4>2 DEF Says
      <4> QED BY <1>1, <1>3, <2>1, <2>5, <3>2, <4>1, <4>3 DEF RequestOK, UndoerOK, Says
    <3> QED BY <3>1, <3>2
  <2>8. RequestOK(q, disk', stable', landed, undone)
    BY <1>1, <1>3, <1>6, <1>8, <1>11, <2>1 DEF RequestOK, MakerOK, UndoerOK, Done, NotDone
  <2>9. ASSUME NEW p \in Requests, p # c
        PROVE  /\ RequestOK(request[p], disk', stable', landed, undone)
               /\ request[p].op # "undo" /\ q.op # "undo" => request[p].h # T
    <3> DEFINE o == request[p]
    <3>1. o \in ReqType(minted) /\ RequestOK(o, disk, stable, landed, undone)
      BY DEF WritesInv, TypesOK
    <3>2. o.op # "undo" /\ r.op # "undo" => o.h # T
      BY <1>6, <2>1, <2>9 DEF WritesInv, Distinct
    <3>3. o.op # "undo" /\ o.step = "calling" => o.h # T
      <4> SUFFICES ASSUME o.op # "undo", o.step = "calling", o.h = T PROVE FALSE
        OBVIOUS
      <4>1. Expected(r) = "committing"
        BY <2>3, <3>1 DEF RequestOK, MakerOK
      <4>2. r.op = "undo"
        BY <3>2
      <4>3. r.want \in {"unresolved", "undone"}
        BY <1>1, <1>3, <4>2 DEF RequestOK, UndoerOK
      <4> QED BY <4>1, <4>2, <4>3 DEF Expected
    <3>4. o.op = "undo" /\ o.step \in {"found", "calling"} /\ o.h = T =>
            /\ W.state \in {"committed", "unresolved", "undone"}
            /\ o.image.rev = W.post /\ o.image.body = W.pre.body
      <4> SUFFICES ASSUME o.op = "undo", o.step \in {"found", "calling"}, o.h = T
                   PROVE  /\ W.state \in {"committed", "unresolved", "undone"}
                          /\ o.image.rev = W.post /\ o.image.body = W.pre.body
        OBVIOUS
      <4>1. /\ Expected(r) \in {"committed", "unresolved", "undone"}
            /\ o.image.rev = disk[T].post /\ o.image.body = disk[T].pre.body
        BY <2>3, <3>1 DEF RequestOK, UndoerOK
      <4>2. r.op = "undo"
        BY <4>1, <1>11 DEF Expected
      <4>3. r.want \in {"unresolved", "undone"}
        BY <1>1, <1>3, <4>2 DEF RequestOK, UndoerOK
      <4> QED BY <2>5, <4>1, <4>3
    <3> HIDE DEF T, W, e
    <3>5. RequestOK(o, disk', stable', landed, undone)
      BY <1>1, <1>4, <2>5, <3>1, <3>3, <3>4, PlacedRequest
    <3> QED BY <1>8, <3>2, <3>5
  <2>10. T \in Handles /\ W \in RecordType /\ W.state = r.want /\ q.step = "asking"
    BY <1>1, <1>8, <2>5
  <2> HIDE DEF r, T, W, e
  <2>11. Places(c, T, W, e, q)
    BY <1>1, <1>2, <1>4, <1>5, <1>7, <1>8, <2>10 DEF Places, r
  <2> QED BY <2>7, <2>8, <2>9, <2>11, PlacedInv
<1> QED BY <1>10, <1>11
-----------------------------------------------------------------------------
(* Every state and every step.                                             *)

LEMMA InitWrites == Init => WritesInv
<1> SUFFICES ASSUME Init PROVE WritesInv
  OBVIOUS
<1>1. /\ disk = [h \in Handles |-> None] /\ stable = disk /\ syncing = None /\ minted = 0 /\ aged = 0
      /\ up = TRUE /\ request = [c \in Requests |-> Idle] /\ note = Image(1, Others)
      /\ landed = [h \in Handles |-> 0] /\ undone = {}
  BY DEF Init
<1>2. TypesOK
  <2>1. disk \in Files /\ stable \in Files
    BY <1>1 DEF Files
  <2>2. note \in Change
    BY <1>1 DEF Image, Change, Others
  <2>3. minted \in Nat /\ minted <= OpBound /\ aged \in Nat /\ aged <= minted
    BY <1>1, OpBoundAssumption
  <2>4. request \in [Requests -> ReqType(minted)]
    BY <1>1, <2>3, IdleType
  <2> QED BY <1>1, <2>1, <2>2, <2>3, <2>4 DEF TypesOK
<1>3. Truthful(disk, landed, undone, aged) /\ Truthful(stable, landed, undone, aged)
  <2> SUFFICES ASSUME NEW h \in Handles PROVE Says("missing", h, landed, undone, aged)
    BY <1>1 DEF Truthful, StateOf
  <2> QED BY <1>1 DEF Says
<1>4. \A c \in Requests : RequestOK(request[c], disk, stable, landed, undone)
  BY <1>1, IdleOK
<1>5. Distinct /\ Syncing /\ DownIsIdle
  BY <1>1, IdleType DEF Distinct, Syncing, DownIsIdle
<1> QED BY <1>1, <1>2, <1>3, <1>4, <1>5 DEF WritesInv

LEMMA StutterWrites == WritesInv /\ UNCHANGED vars => WritesInv'
<1> SUFFICES ASSUME WritesInv, UNCHANGED vars PROVE WritesInv'
  OBVIOUS
<1>1. UNCHANGED <<disk, stable, open, syncing, minted, aged, up, request, note, landed, undone>>
  BY DEF vars, storeVars, noteVars
<1> QED BY <1>1 DEF WritesInv, TypesOK, Distinct, Syncing, DownIsIdle

LEMMA StepWrites == WritesInv /\ [Next]_vars => WritesInv'
<1> SUFFICES ASSUME WritesInv, [Next]_vars PROVE WritesInv'
  OBVIOUS
<1>1. ASSUME NEW c \in Requests, RecordStarts(c) PROVE WritesInv'
  BY <1>1, RecordStartsInv
<1>2. ASSUME NEW c \in Requests, RecordEnds(c) PROVE WritesInv'
  BY <1>2, RecordEndsInv
<1>3. ASSUME NEW c \in Requests, RecordRefused(c) \/ RecordFails(c) PROVE WritesInv'
  BY <1>3, RecordNotMadeInv
<1>4. ASSUME NEW c \in Requests, NEW kind \in Kinds, Starts(c, kind) PROVE WritesInv'
  BY <1>4, StartsInv
<1>5. ASSUME NEW c \in Requests, NEW h \in Handles, FindsUndo(c, h) PROVE WritesInv'
  BY <1>5, FindsUndoInv
<1>6. ASSUME NEW c \in Requests, GuardsUndo(c) PROVE WritesInv'
  BY <1>6, GuardsUndoInv
<1>7. ASSUME NEW c \in Requests, SourceWrites(c) PROVE WritesInv'
  BY <1>7, SourceWritesInv
<1>8. ASSUME NEW c \in Requests, SourceReturns(c) \/ SourceFails(c) \/ SourceRefuses(c)
      PROVE  WritesInv'
  BY <1>8, SourceAnswersInv
<1>9. CASE ReadsStore \/ (\E h \in Handles : Acknowledge(h)) \/ TimePasses \/ StoreBreaks
  BY <1>9, StoreInv
<1>10. CASE OthersWrite
  BY <1>10, OthersWriteInv
<1>11. CASE Start \/ \E b \in BOOLEAN : StartWithoutStore(b)
  BY <1>11, StartInv
<1>12. ASSUME NEW b \in BOOLEAN, Stop(b) PROVE WritesInv'
  BY <1>12, StopInv
<1>13. CASE UNCHANGED vars
  BY <1>13, StutterWrites
<1> QED BY <1>1, <1>2, <1>3, <1>4, <1>5, <1>6, <1>7, <1>8, <1>9, <1>10, <1>11, <1>12, <1>13 DEF Next

LEMMA AlwaysWrites == Spec => []WritesInv
BY InitWrites, StepWrites, PTL DEF Spec
-----------------------------------------------------------------------------
(* Theorems.                                                               *)

\* What a record says of the note is so, also in the directory that a power
\* loss leaves.
THEOREM RecordsTellTheTruth == Spec => []OutcomeIsTrue
<1>1. WritesInv => OutcomeIsTrue
  BY DEF WritesInv, Truthful, Says, OutcomeIsTrue
<1> QED BY <1>1, AlwaysWrites, PTL

\* A change that reached the note has a durable record that does not deny it,
\* until the record was settled and went.
THEOREM ChangesAreRecorded == Spec => []ChangeIsRecorded
<1>1. ASSUME WritesInv PROVE ChangeIsRecorded
  <2> SUFFICES ASSUME NEW h \in Handles, landed[h] # 0
               PROVE  \/ StateOf(stable, h) \in {"committing", "committed", "unresolved", "undone"}
                      \/ StateOf(stable, h) = "missing" /\ (h <= aged \/ h \in undone)
    BY DEF ChangeIsRecorded
  <2>1. StateOf(stable, h) \in States \cup {"missing"}
    BY <1>1, StateFacts DEF WritesInv, TypesOK
  <2>2. Says(StateOf(stable, h), h, landed, undone, aged)
    BY <1>1 DEF WritesInv, Truthful
  <2> QED BY <2>1, <2>2 DEF Says, States
<1> QED BY <1>1, AlwaysWrites, PTL

\* A step that replaces no record only disposes of records.
LEMMA StepTrims ==
  ASSUME WritesInv, Next
  PROVE  \/ Trimmed
         \/ \E c \in Requests : RecordStarts(c)
         \/ Start \/ \E b \in BOOLEAN : Stop(b) \/ StartWithoutStore(b)
<1>1. ASSUME NEW c \in Requests, RecordEnds(c) PROVE Trimmed
  BY <1>1, SyncTrims DEF RecordEnds, SyncsDirectory
<1>2. ASSUME Expires PROVE Trimmed
  BY <1>2, ExpiresTrims
<1>3. ASSUME UNCHANGED storeVars PROVE Trimmed
  BY <1>3, UnchangedTrims DEF storeVars
<1>4. ASSUME NEW c \in Requests, RecordRefused(c) \/ \E h \in Handles : FindsUndo(c, h)
      PROVE  Trimmed
  BY <1>2, <1>4 DEF RecordRefused, FindsUndo
<1>5. CASE ReadsStore
  BY <1>2, <1>5 DEF ReadsStore, Reads
<1>6. ASSUME NEW c \in Requests,
             \/ RecordFails(c) \/ GuardsUndo(c)
             \/ SourceWrites(c) \/ SourceReturns(c) \/ SourceFails(c) \/ SourceRefuses(c)
             \/ \E kind \in Kinds : Starts(c, kind)
      PROVE  Trimmed
  BY <1>3, <1>6 DEF RecordFails, GuardsUndo, SourceWrites, SourceReturns, SourceFails,
                    SourceRefuses, Starts
<1>7. CASE OthersWrite
  BY <1>3, <1>7 DEF OthersWrite
<1>8. CASE TimePasses
  BY <1>8, UnchangedTrims DEF TimePasses, Ages
<1>9. CASE StoreBreaks
  BY <1>9, PoisonsTrims DEF StoreBreaks
<1>10. ASSUME NEW h \in Handles, Acknowledge(h) PROVE Trimmed
  BY <1>10, AcknowledgesTrims DEF Acknowledge
<1> QED BY <1>1, <1>4, <1>5, <1>6, <1>7, <1>8, <1>9, <1>10 DEF Next

\* The record of an uncertain operation in a directory `d` is kept by `e`.
Keeps(d, s, e, h) ==
  StateOf(d, h) \in Uncertain /\ StateOf(s, h) \in Uncertain =>
    StateOf(e, h) \in Uncertain \cup {"committed", "aborted"}

LEMMA RecordKeeps ==
  \A c \in Requests, h \in Handles :
    WritesInv /\ RecordStarts(c) => Keeps(disk, stable, disk', h) /\ Keeps(disk, stable, stable', h)
<1> SUFFICES ASSUME NEW c \in Requests, NEW h \in Handles, WritesInv, RecordStarts(c),
                    StateOf(disk, h) \in Uncertain, StateOf(stable, h) \in Uncertain
             PROVE  /\ StateOf(disk', h) \in Uncertain \cup {"committed", "aborted"}
                    /\ StateOf(stable', h) \in Uncertain \cup {"committed", "aborted"}
  BY DEF Keeps
<1> DEFINE r == request[c]
           T == Target(r)
           W == Wanted(r)
           e == Kept(disk)
<1>1. /\ T \in Handles /\ StateOf(e, T) = Expected(r)
      /\ r.want # "prepared" => r.want \in Allowed(Expected(r))
      /\ disk' = [e EXCEPT ![T] = W] /\ (stable' = stable \/ stable' = e)
  BY DEF RecordStarts, Recordable, Renames
<1>2. disk \in Files /\ e \in Files /\ Left(disk, e)
  BY ExpiredFacts DEF WritesInv, TypesOK, Kept, Left
<1>3. e[h] = disk[h] /\ StateOf(e, h) = StateOf(disk, h)
  BY <1>2 DEF Left, Disposable, Uncertain, StateOf
<1>4. \A k \in Handles : disk'[k] = IF k = T THEN W ELSE e[k]
  BY <1>1, <1>2 DEF Files
<1>5. StateOf(stable', h) \in Uncertain
  BY <1>1, <1>3 DEF StateOf
<1>6. CASE h # T
  BY <1>3, <1>4, <1>5, <1>6 DEF StateOf
<1>7. CASE h = T
  <2>1. Expected(r) \in Uncertain
    BY <1>1, <1>3, <1>7
  <2>2. r.want # "prepared" /\ Expected(r) = "committing"
    BY <2>1 DEF Expected, Uncertain
  <2>3. r.want \in {"committed", "unresolved", "aborted"}
    BY <1>1, <2>2 DEF Allowed
  <2>4. T = r.h /\ disk[T] \in RecordType
    BY <1>2, <1>7, <2>2, StateFacts DEF Target, Uncertain
  <2>5. W.state = r.want
    BY <2>2, <2>4 DEF Wanted, RecordType
  <2>6. StateOf(disk', T) \in {W.state, "missing"} /\ disk'[T] = W
    BY <1>1, <1>4 DEF StateOf
  <2>7. W # None
    <3> DEFINE x == disk[T]
    <3>1. x \in RecordType /\ r.got \in Nat
      BY <2>4 DEF WritesInv, TypesOK, ReqType
    <3>2. W = [x EXCEPT !.state = r.want,
                        !.post = IF r.want = "committed" /\ r.op = "edit" THEN r.got ELSE @]
      BY <2>2, <2>4 DEF Wanted
    <3> HIDE DEF W, x
    <3>3. W \in RecordType
      BY <2>3, <3>1, <3>2 DEF RecordType, States
    <3> QED BY <3>3, NoneIsNoRecord
  <2>8. StateOf(disk', T) = r.want
    BY <2>5, <2>6, <2>7 DEF StateOf
  <2> QED BY <1>5, <1>7, <2>3, <2>8 DEF Uncertain
<1> QED BY <1>6, <1>7

LEMMA DaemonKeeps ==
  \A h \in Handles :
    WritesInv /\ (Start \/ \E b \in BOOLEAN : Stop(b) \/ StartWithoutStore(b)) =>
      Keeps(disk, stable, disk', h) /\ Keeps(disk, stable, stable', h)
<1> SUFFICES ASSUME NEW h \in Handles, WritesInv,
                    Start \/ \E b \in BOOLEAN : Stop(b) \/ StartWithoutStore(b),
                    StateOf(disk, h) \in Uncertain, StateOf(stable, h) \in Uncertain
             PROVE  StateOf(disk', h) \in Uncertain /\ StateOf(stable', h) \in Uncertain
  BY DEF Keeps
<1>1. disk \in Files
  BY DEF WritesInv, TypesOK
<1>2. ASSUME NEW b \in BOOLEAN, Stop(b)
      PROVE  StateOf(disk', h) \in Uncertain /\ StateOf(stable', h) \in Uncertain
  <2>1. disk'[h] \in {disk[h], stable[h]} /\ (stable' = disk' \/ stable' = stable)
    BY <1>2 DEF Stop, Stops
  <2> QED BY <2>1 DEF StateOf
<1>3. CASE Start \/ \E b \in BOOLEAN : StartWithoutStore(b)
  <2>1. PICK hs \in SUBSET Interrupted : \E gone \in SUBSET Expired(Resolving(hs)) :
          disk' = Resolving(hs) \/ disk' = Without(Resolving(hs), gone)
    BY <1>3, OpenedDirectory
  <2>2. stable' = stable \/ stable' = disk'
    BY <1>3 DEF Start, StartWithoutStore, Opens, OpenFails
  <2>3. StateOf(Resolving(hs), h) \in Uncertain
    <3>1. CASE h \in hs
      <4>1. disk[h] \in RecordType
        BY <1>1, StateFacts DEF Uncertain
      <4>2. [disk[h] EXCEPT !.state = "unresolved"] \in RecordType
        BY <4>1 DEF RecordType, States
      <4>3. Resolving(hs)[h] = [disk[h] EXCEPT !.state = "unresolved"]
        BY <3>1 DEF Resolving
      <4>4. Resolving(hs)[h] # None /\ Resolving(hs)[h].state = "unresolved"
        BY <4>1, <4>2, <4>3, NoneIsNoRecord DEF RecordType
      <4> QED BY <4>4 DEF StateOf, Uncertain
    <3>2. CASE h \notin hs
      BY <3>2 DEF Resolving, StateOf
    <3> QED BY <3>1, <3>2
  <2>4. h \notin Expired(Resolving(hs))
    BY <2>3 DEF Expired, Expirable, Uncertain
  <2>5. StateOf(disk', h) \in Uncertain
    BY <2>1, <2>3, <2>4 DEF Without, StateOf
  <2> QED BY <2>2, <2>5
<1> QED BY <1>2, <1>3

\* A record whose outcome is uncertain is left only for a state that settles it.
THEOREM UncertainRecordsStay == Spec => UncertainIsKept
<1> DEFINE Stays == \A h \in Handles :
             StateOf(disk, h) \in Uncertain /\ StateOf(stable, h) \in Uncertain =>
               /\ StateOf(disk', h) \in Uncertain \cup {"committed", "aborted"}
               /\ StateOf(stable', h) \in Uncertain \cup {"committed", "aborted"}
<1>1. WritesInv /\ [Next]_vars => Stays
  <2> SUFFICES ASSUME WritesInv, [Next]_vars, NEW h \in Handles
               PROVE  Keeps(disk, stable, disk', h) /\ Keeps(disk, stable, stable', h)
    BY DEF Keeps
  <2>1. CASE Trimmed
    <3>1. StateOf(disk, h) \in Uncertain => disk'[h] = disk[h]
      BY <2>1 DEF Trimmed, Disposable, Uncertain
    <3> QED BY <2>1, <3>1 DEF Trimmed, Keeps, StateOf
  <2>2. CASE UNCHANGED vars
    <3>1. Trimmed
      BY <2>2, UnchangedTrims DEF vars, storeVars
    <3> QED BY <2>1, <3>1
  <2>3. CASE Next
    BY <2>1, <2>3, StepTrims, RecordKeeps, DaemonKeeps
  <2> QED BY <2>2, <2>3
<1>2. WritesInv /\ [Next]_vars => [Stays]_vars
  BY <1>1
<1> HIDE DEF Stays
<1>3. Spec => [][Stays]_vars
  BY <1>2, AlwaysWrites, PTL DEF Spec
<1> QED BY <1>3 DEF Stays, UncertainIsKept

\* An undo replaces only the revision that its record names, by the content
\* that was captured.
THEOREM UndoFollowsItsRecord == Spec => UndoReplacesItsRevision
<1> DEFINE Follows == \A h \in undone' \ undone : disk[h] # None =>
                        note.rev = disk[h].post /\ note'.body = disk[h].pre.body
<1>1. WritesInv /\ [Next]_vars => Follows
  <2> SUFFICES ASSUME WritesInv, [Next]_vars PROVE Follows
    OBVIOUS
  <2>1. ASSUME NEW c \in Requests, SourceWrites(c) PROVE Follows
    <3> DEFINE r == request[c]
    <3>1. /\ r.step = "calling" /\ (r.op = "create" \/ note.rev = r.image.rev)
          /\ note' = IF r.op = "create" THEN note ELSE Image(NextRev, BodyOf(r))
          /\ undone' = IF r.op = "undo" THEN undone \cup {r.h} ELSE undone
      BY <2>1 DEF SourceWrites
    <3>2. UndoerOK(r, disk, undone)
      BY DEF WritesInv, RequestOK
    <3>3. CASE r.op = "undo"
      <4>1. note'.body = r.image.body /\ note.rev = r.image.rev
        BY <3>1, <3>3 DEF Image, BodyOf
      <4>2. disk[r.h] # None => r.image.rev = disk[r.h].post /\ r.image.body = disk[r.h].pre.body
        BY <3>1, <3>2, <3>3 DEF UndoerOK
      <4>3. undone' = undone \cup {r.h}
        BY <3>1, <3>3
      <4> QED BY <4>1, <4>2, <4>3
    <3>4. CASE r.op # "undo"
      BY <3>1, <3>4
    <3> QED BY <3>3, <3>4
  <2>2. CASE undone' = undone
    BY <2>2
  <2>3. (\E c \in Requests : SourceWrites(c)) \/ undone' = undone
    BY DEF Next, vars, noteVars, RecordStarts, RecordEnds, RecordRefused, RecordFails, Starts,
           FindsUndo, GuardsUndo, SourceReturns, SourceFails, SourceRefuses, Acknowledge, ReadsStore,
           OthersWrite, TimePasses, StoreBreaks, Start, Stop, StartWithoutStore
  <2> QED BY <2>1, <2>2, <2>3
<1>2. WritesInv /\ [Next]_vars => [Follows]_vars
  BY <1>1
<1> HIDE DEF Follows
<1>3. Spec => [][Follows]_vars
  BY <1>2, AlwaysWrites, PTL DEF Spec
<1> QED BY <1>3 DEF Follows, UndoReplacesItsRevision
-----------------------------------------------------------------------------
(* The bounds of the directory.                                            *)

\* Every record of `e` has one in `d` that is at least as long.
Fits(e, d) == \A h \in Handles : e[h] # None => d[h] # None /\ Bytes(e[h]) <= Bytes(d[h])

LEMMA BytesType ==
  ASSUME NEW r \in RecordType
  PROVE  Bytes(r) \in Nat \ {0}
<1>1. <<r.state, r.kind, r.post # 0>> \in Forms
  BY DEF RecordType, Kinds, Forms
<1> QED BY <1>1, SizeAssumption DEF Bytes

LEMMA HeldFacts ==
  ASSUME NEW files
  PROVE  IsFiniteSet(Held(files)) /\ Cardinality(Held(files)) \in Nat
<1>1. IsFiniteSet(Handles)
  BY FS_Interval, OpBoundAssumption DEF Handles
<1>2. Held(files) \in SUBSET Handles
  BY DEF Held
<1> QED BY <1>1, <1>2, FS_Subset, FS_CardinalityType

\* All that a directory can hold, one unit at a time.
LEMMA UnitsFacts ==
  ASSUME NEW files \in Files
  PROVE  IsFiniteSet(Units(files)) /\ Total(files) \in Nat
<1> DEFINE own == [h \in Held(files) |-> {h} \X (1..Bytes(files[h]))]
           All == {own[h] : h \in Held(files)}
<1>1. ASSUME NEW h \in Held(files) PROVE IsFiniteSet(own[h])
  <2> DEFINE b == Bytes(files[h])
  <2>1. b \in Nat
    BY BytesType, StateFacts DEF Held
  <2> HIDE DEF b
  <2>2. IsFiniteSet(1..b)
    BY <2>1, FS_Interval
  <2>3. IsFiniteSet({h})
    BY FS_Singleton
  <2>4. IsFiniteSet({h} \X (1..b))
    BY <2>2, <2>3, FS_Product
  <2> QED BY <2>4 DEF b
<1>2. \A S \in All : IsFiniteSet(S)
  BY <1>1
<1>3. IsFiniteSet(All)
  <2>1. own \in Surjection(Held(files), All)
    BY DEF Surjection
  <2> QED BY <2>1, HeldFacts, FS_Surjection
<1>5. Units(files) = UNION All
  BY DEF Units
<1> HIDE DEF own, All
<1>4. IsFiniteSet(Units(files))
  BY <1>2, <1>3, <1>5, FS_UNION
<1> QED BY <1>4, FS_CardinalityType DEF Total

\* What fits into a directory within the bounds is within them.
LEMMA FitsWithin ==
  ASSUME NEW e \in Files, NEW d \in Files, Fits(e, d)
  PROVE  WithinBounds(d) => WithinBounds(e)
<1>1. Held(e) \in SUBSET Held(d)
  BY DEF Held, Fits
<1>2. Units(e) \in SUBSET Units(d)
  <2> SUFFICES ASSUME NEW h \in Held(e), NEW u \in 1..Bytes(e[h]) PROVE <<h, u>> \in Units(d)
    BY DEF Units
  <2>1. h \in Held(d) /\ Bytes(e[h]) \in Nat /\ Bytes(d[h]) \in Nat /\ Bytes(e[h]) <= Bytes(d[h])
    BY <1>1, BytesType, StateFacts DEF Held, Fits
  <2>2. u \in 1..Bytes(d[h])
    BY <2>1
  <2> QED BY <2>1, <2>2 DEF Units
<1>3. Cardinality(Held(e)) <= Cardinality(Held(d))
  BY <1>1, HeldFacts, FS_Subset
<1>4. Total(e) <= Total(d)
  BY <1>2, UnitsFacts, FS_Subset DEF Total
<1>5. /\ Cardinality(Held(e)) \in Nat /\ Cardinality(Held(d)) \in Nat
      /\ Total(e) \in Nat /\ Total(d) \in Nat
  BY HeldFacts, UnitsFacts
<1> QED BY <1>3, <1>4, <1>5, QuotaAssumption DEF WithinBounds

\* A record that is admitted keeps the directory within the bounds: whatever it
\* replaces was counted beside it.
LEMMA AdmittedWithin ==
  ASSUME NEW e \in Files, NEW h \in Handles, NEW r \in RecordType, r # None,
         WithinBounds(e), Admits(e, h, r),
         NEW f \in Files, f = [e EXCEPT ![h] = r]
  PROVE  WithinBounds(f)
<1> DEFINE k == Cardinality(Held(e))
           n == Cardinality(Held(f))
           b == Bytes(r)
           own == {h} \X (1..b)
<1>1. \A g \in Handles : f[g] = IF g = h THEN r ELSE e[g]
  BY DEF Files
<1>2. k \in Nat /\ n \in Nat /\ b \in Nat /\ Total(e) \in Nat /\ Total(f) \in Nat
  BY HeldFacts, UnitsFacts, BytesType
<1>3. n <= k + 1 /\ (h \in Held(e) => n <= k)
  <2>1. Held(f) \subseteq Held(e) \cup {h}
    BY <1>1 DEF Held
  <2>2. /\ IsFiniteSet(Held(e) \cup {h})
        /\ Cardinality(Held(e) \cup {h}) = IF h \in Held(e) THEN k ELSE k + 1
    BY HeldFacts, FS_AddElement
  <2>3. n <= Cardinality(Held(e) \cup {h})
    BY <2>1, <2>2, FS_Subset
  <2> QED BY <1>2, <2>2, <2>3
<1>4. Total(f) <= Total(e) + b
  <2>1. Units(f) \in SUBSET (Units(e) \cup own)
    <3> SUFFICES ASSUME NEW g \in Held(f), NEW p \in {g} \X (1..Bytes(f[g])) PROVE p \in Units(e) \cup own
      BY DEF Units
    <3>1. CASE g = h
      BY <1>1, <3>1 DEF Held
    <3>2. CASE g # h
      <4>1. g \in Held(e) /\ f[g] = e[g]
        BY <1>1, <3>2 DEF Held
      <4> QED BY <4>1 DEF Units
    <3> QED BY <3>1, <3>2
  <2>2. IsFiniteSet(own) /\ Cardinality(own) = b
    <3>1. IsFiniteSet({h}) /\ Cardinality({h}) = 1
      BY FS_Singleton
    <3>2. IsFiniteSet(1..b) /\ Cardinality(1..b) = b
      BY <1>2, FS_Interval
    <3> HIDE DEF b
    <3> QED BY <1>2, <3>1, <3>2, FS_Product
  <2>3. IsFiniteSet(Units(e))
    BY UnitsFacts
  <2> HIDE DEF own, b
  <2>4. /\ IsFiniteSet(Units(e) \cup own)
        /\ Cardinality(Units(e) \cup own)
             = Cardinality(Units(e)) + Cardinality(own) - Cardinality(Units(e) \cap own)
    BY <2>2, <2>3, FS_Union
  <2>5. Cardinality(Units(e) \cap own) \in Nat
    BY <2>3, FS_Intersection, FS_CardinalityType
  <2>6. Total(f) <= Cardinality(Units(e) \cup own)
    BY <2>1, <2>4, FS_Subset DEF Total
  <2>7. Total(e) = Cardinality(Units(e))
    BY DEF Total
  <2> QED BY <1>2, <2>2, <2>4, <2>5, <2>6, <2>7
<1>5. k <= MaxRecords /\ (h \in Held(e) \/ k < MaxRecords) /\ Total(e) + b <= MaxBytes
  BY DEF WithinBounds, Admits
<1> HIDE DEF k, n, b
<1>6. n <= MaxRecords /\ Total(f) <= MaxBytes
  BY <1>2, <1>3, <1>4, <1>5, QuotaAssumption
<1> QED BY <1>6 DEF n, WithinBounds

\* Opening places nothing: what was interrupted keeps its length.
LEMMA OpenedFits ==
  ASSUME WritesInv, Start \/ \E b \in BOOLEAN : StartWithoutStore(b)
  PROVE  Fits(disk', disk)
<1>1. PICK hs \in SUBSET Interrupted : \E gone \in SUBSET Expired(Resolving(hs)) :
        disk' = Resolving(hs) \/ disk' = Without(Resolving(hs), gone)
  BY OpenedDirectory
<1>2. disk \in Files
  BY DEF WritesInv, TypesOK
<1> SUFFICES ASSUME NEW h \in Handles, disk'[h] # None
             PROVE  disk[h] # None /\ Bytes(disk'[h]) <= Bytes(disk[h])
  BY DEF Fits
<1>3. disk'[h] = Resolving(hs)[h]
  BY <1>1 DEF Without
<1>4. CASE h \in hs
  <2>1. disk'[h] = [disk[h] EXCEPT !.state = "unresolved"]
    BY <1>3, <1>4 DEF Resolving
  <2>2. disk[h] \in RecordType /\ disk[h] # None /\ disk[h].state = "committing"
    BY <1>2, <1>4, StateFacts DEF Interrupted, StateOf
  <2>3. /\ disk'[h].state = "unresolved" /\ disk'[h].kind = disk[h].kind
        /\ disk'[h].post = disk[h].post
    BY <2>1, <2>2 DEF RecordType
  <2>4. disk[h].kind \in {"create", "edit"} /\ (disk[h].post # 0) \in BOOLEAN
    BY <2>2 DEF RecordType, Kinds
  <2>5. Bytes(disk'[h]) = Bytes(disk[h])
    BY <2>2, <2>3, <2>4, SizeAssumption DEF Bytes
  <2> QED BY <2>2, <2>5, BytesType
<1>5. CASE h \notin hs
  <2>1. disk'[h] = disk[h]
    BY <1>3, <1>5 DEF Resolving
  <2> QED BY <1>2, <2>1, BytesType, StateFacts
<1> QED BY <1>4, <1>5

\* A power loss takes back what was not synced.
TakesBack == \E h \in Unsynced : disk'[h] = stable[h]

LEMMA StopFits ==
  ASSUME WritesInv, NEW b \in BOOLEAN, Stop(b)
  PROVE  /\ Fits(disk', disk) \/ TakesBack
         /\ stable' = disk' \/ stable' = stable
<1>1. /\ \A h \in Handles : disk'[h] = disk[h] \/ disk'[h] = stable[h]
      /\ stable' = disk' \/ stable' = stable
  BY DEF Stop, Stops
<1>2. ASSUME ~TakesBack PROVE Fits(disk', disk)
  <2> SUFFICES ASSUME NEW h \in Handles, disk'[h] # None
               PROVE  disk[h] # None /\ Bytes(disk'[h]) <= Bytes(disk[h])
    BY DEF Fits
  <2>1. disk \in Files /\ stable \in Files
    BY DEF WritesInv, TypesOK
  <2>2. CASE disk'[h] = disk[h]
    BY <2>1, <2>2, BytesType, StateFacts
  <2>3. CASE disk'[h] = stable[h]
    <3>1. h \in Held(stable) /\ h \notin Unsynced
      BY <1>2, <2>3 DEF Held, TakesBack, Unsynced
    <3>2. disk[h] # None /\ ~(Bytes(disk[h]) < Bytes(stable[h]))
      BY <3>1 DEF Unsynced
    <3>3. Bytes(disk[h]) \in Nat /\ Bytes(stable[h]) \in Nat
      BY <2>1, <2>3, <3>2, BytesType, StateFacts
    <3> QED BY <2>3, <3>2, <3>3
  <2> QED BY <1>1, <2>2, <2>3
<1> QED BY <1>1, <1>2

LEMMA StepSyncs ==
  ASSUME Next
  PROVE  stable' = stable \/ stable' = disk' \/ \E c \in Requests : RecordStarts(c)
<1>1. ASSUME NEW c \in Requests,
             \/ RecordEnds(c) \/ RecordRefused(c) \/ RecordFails(c)
             \/ (\E kind \in Kinds : Starts(c, kind)) \/ (\E h \in Handles : FindsUndo(c, h))
             \/ GuardsUndo(c)
             \/ SourceWrites(c) \/ SourceReturns(c) \/ SourceFails(c) \/ SourceRefuses(c)
      PROVE  stable' = stable \/ stable' = disk'
  BY <1>1 DEF RecordEnds, SyncsDirectory, RecordRefused, RecordFails, Starts, FindsUndo, Expires,
              GuardsUndo, SourceWrites, SourceReturns, SourceFails, SourceRefuses, storeVars
<1>2. ASSUME \/ (\E h \in Handles : Acknowledge(h))
             \/ ReadsStore \/ OthersWrite \/ TimePasses \/ StoreBreaks \/ Start
             \/ \E b \in BOOLEAN : Stop(b) \/ StartWithoutStore(b)
      PROVE  stable' = stable \/ stable' = disk'
  BY <1>2 DEF Acknowledge, Acknowledges, ReadsStore, Reads, Expires, OthersWrite, TimePasses, Ages,
              StoreBreaks, Poisons, Start, Opens, Stop, Stops, StartWithoutStore, OpenFails, storeVars
<1> QED BY <1>1, <1>2 DEF Next

\* Both directories have the same bounds.
LEMMA BothWithin ==
  ASSUME BothWithinBounds, WithinBounds(disk'), stable' = stable \/ stable' = disk'
  PROVE  BothWithinBounds'
BY DEF BothWithinBounds, WithinBounds, Total, Units, Held

\* A record that replaces another, or is new, is one the store admits.
LEMMA RecordBounds ==
  ASSUME WritesInv, WritesInv', BothWithinBounds, NEW c \in Requests, RecordStarts(c)
  PROVE  BothWithinBounds'
<1> DEFINE T == Target(request[c])
           W == Wanted(request[c])
           e == Kept(disk)
<1>1. /\ T \in Handles /\ Admits(e, T, W)
      /\ disk' = [e EXCEPT ![T] = W] /\ (stable' = stable \/ stable' = e)
  BY DEF RecordStarts, Recordable, Renames
<1>2. disk \in Files /\ stable \in Files /\ disk' \in Files
  BY DEF WritesInv, TypesOK
<1>3. e \in Files /\ Left(disk, e)
  BY <1>2, ExpiredFacts DEF Kept, Left
<1>4. Fits(e, disk)
  BY <1>2, <1>3, BytesType, StateFacts DEF Fits, Left
<1>5. WithinBounds(e) /\ WithinBounds(stable)
  BY <1>2, <1>3, <1>4, FitsWithin DEF BothWithinBounds
<1> HIDE DEF T, W, e
<1>6. W = disk'[T]
  BY <1>1, <1>3 DEF Files
<1>7. WithinBounds(disk')
  <2>1. CASE W = None
    <3>1. Fits(disk', e)
      BY <1>1, <1>2, <1>3, <2>1, BytesType, StateFacts DEF Fits, Files
    <3> QED BY <1>2, <1>3, <1>5, <3>1, FitsWithin
  <2>2. CASE W # None
    <3>1. W \in RecordType
      BY <1>1, <1>2, <1>6, <2>2, StateFacts
    <3> QED BY <1>1, <1>2, <1>3, <1>5, <2>2, <3>1, AdmittedWithin
  <2> QED BY <2>1, <2>2
<1>8. WithinBounds(stable')
  BY <1>1, <1>5
<1> QED BY <1>7, <1>8 DEF BothWithinBounds, WithinBounds, Total, Units, Held

LEMMA StepBounds ==
  ASSUME WritesInv, WritesInv', BothWithinBounds, [Next]_vars
  PROVE  BothWithinBounds' \/ (up /\ ~up' /\ TakesBack)
<1>0. disk \in Files /\ disk' \in Files
  BY DEF WritesInv, TypesOK
<1>1. ASSUME Fits(disk', disk), stable' = stable \/ stable' = disk' PROVE BothWithinBounds'
  <2>1. WithinBounds(disk')
    BY <1>0, <1>1, FitsWithin DEF BothWithinBounds
  <2> QED BY <1>1, <2>1, BothWithin
<1>2. ASSUME Trimmed PROVE Fits(disk', disk)
  BY <1>0, <1>2, BytesType, StateFacts DEF Trimmed, Fits
<1>3. CASE Start \/ \E b \in BOOLEAN : StartWithoutStore(b)
  <2>1. stable' = stable \/ stable' = disk'
    BY <1>3 DEF Start, StartWithoutStore, Opens, OpenFails
  <2> QED BY <1>1, <1>3, <2>1, OpenedFits
<1>4. ASSUME NEW b \in BOOLEAN, Stop(b) PROVE BothWithinBounds' \/ (up /\ ~up' /\ TakesBack)
  <2>1. up /\ ~up'
    BY <1>4 DEF Stop
  <2> QED BY <1>1, <1>4, <2>1, StopFits
<1>5. ASSUME NEW c \in Requests, RecordStarts(c) PROVE BothWithinBounds'
  BY <1>5, RecordBounds
<1>6. CASE UNCHANGED vars
  <2>1. Trimmed /\ stable' = stable
    BY <1>6, UnchangedTrims DEF vars, storeVars
  <2> QED BY <1>1, <1>2, <2>1
<1>7. CASE Next
  BY <1>1, <1>2, <1>3, <1>4, <1>5, <1>7, StepTrims, StepSyncs
<1> QED BY <1>6, <1>7

\* The directory, and what a power loss leaves of it, leave the bounds that the
\* next opening enforces only when a power loss takes back a removal or a
\* shortening that was not synced.  Frames may grow and shrink in any way.
THEOREM BoundsAreKept == Spec => DirectoryWithinBounds
<1> DEFINE Leaves == ~BothWithinBounds' =>
                       \/ ~BothWithinBounds
                       \/ up /\ ~up' /\ \E h \in Unsynced : disk'[h] = stable[h]
<1>1. WritesInv /\ WritesInv' /\ [Next]_vars => [Leaves]_vars
  BY StepBounds DEF TakesBack
<1> HIDE DEF Leaves
<1>2. Spec => []WritesInv
  BY InitWrites, StepWrites, PTL DEF Spec
<1>3. Spec => [][Leaves]_vars
  BY <1>1, <1>2, PTL DEF Spec
<1> QED BY <1>3 DEF Leaves, DirectoryWithinBounds
=============================================================================
