------------------------- MODULE NookdServer_proofs -------------------------
(***************************************************************************)
(* The safety of the daemon's sockets, for any connections, any limits and  *)
(* any number of operations that outlive their connection.                 *)
(***************************************************************************)
EXTENDS NookdServer, FiniteSetTheorems, TLAPS

\* A socket between two events, or in the middle of one: its loop awaits the
\* one operation it has, or it has none unless the socket is gone.
OneOperation(s) ==
  /\ s \in ConnStates
  /\ s.on
  /\ s.loop = "running" => s.ops = 1
  /\ ~Dead(s) /\ s.loop # "running" => s.ops = 0

\* ... and nothing is forgotten between two events.
Attended(s) ==
  /\ OneOperation(s)
  /\ ~Dead(s) /\ s.frames > 0 => s.loop # "off"
  /\ ~Dead(s) /\ s.loop = "off" => s.timer /\ ~s.ended

\* A socket that is being destroyed stays so, and takes on nothing new.
Follows(t, s) ==
  /\ s.closing => t.closing
  /\ t.ops > s.ops => ~Dead(s)

LEMMA DestroyedAttended ==
  ASSUME NEW s, OneOperation(s)
  PROVE  Attended(Destroyed(s)) /\ Follows(Destroyed(s), s)
<1> DEFINE t == Destroyed(s)
<1>1. s \in ConnStates /\ s.on
  BY DEF OneOperation
<1>2. t \in ConnStates
  BY <1>1 DEF Destroyed, ConnStates, Loops
<1>3. /\ t.on = s.on /\ t.closing = TRUE /\ t.ops = s.ops
      /\ t.loop = IF s.loop = "running" THEN "running" ELSE "off"
  BY <1>1 DEF Destroyed, ConnStates
<1>4. s.ops \in 0..1
  BY <1>1 DEF ConnStates
<1> HIDE DEF t
<1>5. Dead(t)
  BY <1>3 DEF Dead
<1>6. Attended(t)
  BY <1>1, <1>2, <1>3, <1>5 DEF Attended, OneOperation
<1>7. ~(t.ops > s.ops)
  BY <1>3, <1>4
<1>8. Follows(t, s)
  BY <1>3, <1>7 DEF Follows
<1> QED BY <1>6, <1>8 DEF t

LEMMA BreaksAttended ==
  ASSUME NEW s, s \in ConnStates, s.on
  PROVE  Attended(Breaks(s)) /\ Breaks(s).ops = s.ops /\ Breaks(s).closing
<1> DEFINE u == [s EXCEPT !.loop = "off"]
           d == Destroyed(u)
           t == Breaks(s)
<1>1. u \in ConnStates /\ u.on /\ u.ops = s.ops /\ u.loop = "off"
  BY DEF ConnStates, Loops
<1> HIDE DEF u
<1>2. d \in ConnStates /\ d.on /\ d.ops = s.ops /\ d.loop = "off" /\ d.closing = TRUE
  BY <1>1 DEF Destroyed, ConnStates, Loops
<1>3. t = Leaves(d)
  BY DEF Breaks, u
<1> HIDE DEF d
<1> DEFINE v == [d EXCEPT !.loop = "off"]
           w == [d EXCEPT !.loop = "off", !.timer = @ \/ ~Dead(d)]
<1>4. v \in ConnStates /\ v.on /\ v.ops = s.ops /\ v.loop = "off" /\ v.closing = TRUE
  BY <1>2 DEF ConnStates, Loops
<1>5. w \in ConnStates /\ w.on /\ w.ops = s.ops /\ w.loop = "off" /\ w.closing = TRUE
  BY <1>2 DEF ConnStates, Loops
<1>6. t = IF d.ended /\ ~d.closed THEN Destroyed(v) ELSE w
  BY <1>3 DEF Leaves
<1> HIDE DEF v, w, t
<1>7. /\ Destroyed(v) \in ConnStates /\ Destroyed(v).on /\ Destroyed(v).ops = s.ops
      /\ Destroyed(v).loop = "off" /\ Destroyed(v).closing = TRUE
  BY <1>4 DEF Destroyed, ConnStates, Loops
<1>8. t \in ConnStates /\ t.on /\ t.ops = s.ops /\ t.loop = "off" /\ t.closing = TRUE
  BY <1>5, <1>6, <1>7
<1>9. Dead(t)
  BY <1>8 DEF Dead
<1>10. Attended(t)
  BY <1>8, <1>9 DEF Attended, OneOperation
<1> QED BY <1>8, <1>10 DEF t

\* The loop ends with nothing left to serve, or with its socket gone.
LEMMA LeavesAttended ==
  ASSUME NEW s, s \in ConnStates, s.on, Dead(s) \/ (s.frames = 0 /\ s.ops = 0)
  PROVE  Attended(Leaves(s)) /\ Leaves(s).ops = s.ops /\ (s.closing => Leaves(s).closing)
<1> DEFINE v == [s EXCEPT !.loop = "off"]
           w == [s EXCEPT !.loop = "off", !.timer = @ \/ ~Dead(s)]
           t == Leaves(s)
<1>1. /\ v \in ConnStates /\ v.on /\ v.ops = s.ops /\ v.loop = "off"
  BY DEF ConnStates, Loops
<1>2. (s.timer \/ ~Dead(s)) \in BOOLEAN
  OBVIOUS
<1>3. /\ w \in ConnStates /\ w.on = s.on /\ w.ops = s.ops /\ w.loop = "off" /\ w.frames = s.frames
      /\ w.closing = s.closing /\ w.closed = s.closed /\ w.ended = s.ended
      /\ w.timer = (s.timer \/ ~Dead(s))
  BY <1>2 DEF ConnStates, Loops
<1>4. t = IF s.ended /\ ~s.closed THEN Destroyed(v) ELSE w
  BY DEF Leaves
<1> HIDE DEF v, w, t
<1>5. CASE s.ended /\ ~s.closed
  <2>1. /\ Destroyed(v) \in ConnStates /\ Destroyed(v).on /\ Destroyed(v).ops = s.ops
        /\ Destroyed(v).loop = "off" /\ Destroyed(v).closing = TRUE
    BY <1>1 DEF Destroyed, ConnStates, Loops
  <2>2. t = Destroyed(v)
    BY <1>4, <1>5
  <2>3. Dead(t)
    BY <2>1, <2>2 DEF Dead
  <2>4. Attended(t)
    BY <2>1, <2>2, <2>3 DEF Attended, OneOperation
  <2> QED BY <2>1, <2>2, <2>4 DEF t
<1>6. CASE ~(s.ended /\ ~s.closed)
  <2>1. t = w
    BY <1>4, <1>6
  <2>2. Dead(w) <=> Dead(s)
    BY <1>3 DEF Dead
  <2>3. ~Dead(w) => w.frames = 0 /\ w.ops = 0 /\ w.timer /\ ~w.ended
    BY <1>3, <1>6, <2>2 DEF Dead
  <2>4. Attended(w)
    BY <1>3, <2>3 DEF Attended, OneOperation
  <2> QED BY <1>3, <2>1, <2>4 DEF t
<1> QED BY <1>5, <1>6

LEMMA DispatchesAttended ==
  ASSUME NEW s, s \in ConnStates, s.on, s.frames # 0, s.handled < MaxRequests, s.ops = 0
  PROVE  Attended(Dispatches(s)) /\ (s.closing => Dispatches(s).closing)
<1> DEFINE t == Dispatches(s)
<1>1. s.frames - 1 \in 0..FrameBound /\ s.handled + 1 \in 0..MaxRequests /\ s.ops + 1 \in 0..1
  BY ServerAssumption DEF ConnStates
<1>2. t \in ConnStates
  BY <1>1 DEF Dispatches, ConnStates, Loops
<1>3. t.on = s.on /\ t.loop = "running" /\ t.ops = s.ops + 1 /\ t.closing = s.closing
  BY DEF Dispatches, ConnStates
<1> HIDE DEF t
<1>4. t.ops = 1
  BY <1>3
<1>5. Attended(t)
  BY <1>2, <1>3, <1>4 DEF Attended, OneOperation
<1> QED BY <1>3, <1>5 DEF t

\* One turn of the loop.
LEMMA TurnsAttended ==
  ASSUME NEW s, s \in ConnStates, s.on, ~Dead(s) => s.ops = 0, NEW t \in Turns(s)
  PROVE  Attended(t) /\ Follows(t, s)
<1>1. s.ops \in 0..1 /\ s.handled \in 0..MaxRequests
  BY DEF ConnStates
<1>2. CASE Dead(s)
  <2>1. t = Leaves(s)
    BY <1>2 DEF Turns
  <2>2. Attended(Leaves(s)) /\ Leaves(s).ops = s.ops /\ (s.closing => Leaves(s).closing)
    BY <1>2, LeavesAttended
  <2>3. ~(t.ops > s.ops)
    BY <1>1, <2>1, <2>2
  <2> QED BY <2>1, <2>2, <2>3 DEF Follows
<1>3. CASE ~Dead(s) /\ t = Breaks(s)
  BY <1>1, <1>3, BreaksAttended DEF Follows
<1>4. CASE ~Dead(s) /\ t # Breaks(s) /\ s.frames = 0
  <2>1. t = Leaves(s)
    BY <1>4 DEF Turns
  <2> QED BY <1>1, <1>4, <2>1, LeavesAttended DEF Follows
<1>5. CASE ~Dead(s) /\ t # Breaks(s) /\ s.frames # 0
  <2>1. t = Dispatches(s) /\ ~(s.handled >= MaxRequests)
    BY <1>5 DEF Turns
  <2>2. s.handled < MaxRequests
    BY <1>1, <2>1, ServerAssumption
  <2> QED BY <1>5, <2>1, <2>2, DispatchesAttended DEF Follows
<1> QED BY <1>2, <1>3, <1>4, <1>5

\* Data or the end of them wakes the loop, unless it runs.
LEMMA ProcessesAttended ==
  ASSUME NEW s, OneOperation(s), NEW t \in Processes(s)
  PROVE  Attended(t) /\ Follows(t, s)
<1>1. s \in ConnStates /\ s.on /\ s.ops \in 0..1
  BY DEF OneOperation, ConnStates
<1>2. CASE s.loop # "off" \/ Dead(s)
  <2>1. t = s
    BY <1>2 DEF Processes
  <2> QED BY <1>1, <1>2, <2>1 DEF Attended, Follows
<1>3. CASE ~(s.loop # "off" \/ Dead(s)) /\ s.waited
  <2>1. t \in Turns(s)
    BY <1>3 DEF Processes
  <2>2. s.ops = 0
    BY <1>3 DEF OneOperation
  <2> QED BY <1>1, <2>1, <2>2, TurnsAttended
<1>4. CASE ~(s.loop # "off" \/ Dead(s)) /\ ~s.waited
  <2>1. t = [s EXCEPT !.loop = "peer", !.waited = TRUE]
    BY <1>4 DEF Processes
  <2>2. /\ t \in ConnStates /\ t.on = s.on /\ t.loop = "peer" /\ t.ops = s.ops
        /\ t.closing = s.closing
    BY <1>1, <2>1 DEF ConnStates, Loops
  <2>3. s.ops = 0
    BY <1>4 DEF OneOperation
  <2> QED BY <1>1, <2>2, <2>3 DEF Attended, OneOperation, Follows
<1> QED BY <1>2, <1>3, <1>4
-----------------------------------------------------------------------------
(* The events of a socket.                                                 *)

\* What an event notes of a socket before its loop is looked at.
LEMMA NotedOneOperation ==
  ASSUME NEW s, OneOperation(s), NEW u \in ConnStates,
         u.on = s.on, u.loop = s.loop, u.ops = s.ops, u.closing = s.closing, u.closed = s.closed
  PROVE  OneOperation(u) /\ \A t : Follows(t, u) => Follows(t, s)
<1>1. Dead(u) <=> Dead(s)
  BY DEF Dead
<1> QED BY <1>1 DEF OneOperation, Follows

LEMMA ReceivesAttended ==
  ASSUME NEW c \in Conns, Attended(conn[c]), Receives(c)
  PROVE  \E t : /\ Attended(t) /\ Follows(t, conn[c])
                /\ conn' = [conn EXCEPT ![c] = t] /\ UNCHANGED <<phase, tokens, detached, operator>>
<1> DEFINE s == [conn[c] EXCEPT !.timer = TRUE]
           u == [s EXCEPT !.frames = @ + 1]
<1>1. OneOperation(conn[c]) /\ conn[c] \in ConnStates
  BY DEF Attended, OneOperation
<1>2. /\ s \in ConnStates /\ s.on = conn[c].on /\ s.loop = conn[c].loop /\ s.ops = conn[c].ops
      /\ s.closing = conn[c].closing /\ s.closed = conn[c].closed
  BY <1>1 DEF ConnStates
<1> DEFINE states == {Destroyed(s)} \cup Processes(s)
                       \cup (IF s.frames < FrameBound THEN Processes(u) ELSE {})
<1>3. Becomes(c, states)
  BY DEF Receives
<1>4. PICK t \in states : conn' = [conn EXCEPT ![c] = t]
                            /\ UNCHANGED <<phase, tokens, detached, operator>>
  BY <1>3 DEF Becomes
<1>5. s.frames < FrameBound =>
        /\ u \in ConnStates /\ u.on = s.on /\ u.loop = s.loop /\ u.ops = s.ops
        /\ u.closing = s.closing /\ u.closed = s.closed
  <2> SUFFICES ASSUME s.frames < FrameBound
               PROVE  /\ u \in ConnStates /\ u.on = s.on /\ u.loop = s.loop /\ u.ops = s.ops
                      /\ u.closing = s.closing /\ u.closed = s.closed
    OBVIOUS
  <2>1. s \in ConnStates
    BY <1>2
  <2> HIDE DEF s
  <2>2. s.frames + 1 \in 0..FrameBound
    BY <2>1, ServerAssumption DEF ConnStates
  <2> QED BY <2>1, <2>2 DEF ConnStates
<1> HIDE DEF s, u
<1>6. OneOperation(s) /\ \A x : Follows(x, s) => Follows(x, conn[c])
  BY <1>1, <1>2, NotedOneOperation
<1>7. Attended(t) /\ Follows(t, s)
  <2>1. CASE t = Destroyed(s)
    BY <1>6, <2>1, DestroyedAttended
  <2>2. CASE t \in Processes(s)
    BY <1>6, <2>2, ProcessesAttended
  <2>3. CASE s.frames < FrameBound /\ t \in Processes(u)
    <3>1. OneOperation(u) /\ \A x : Follows(x, u) => Follows(x, s)
      BY <1>5, <1>6, <2>3, NotedOneOperation
    <3> QED BY <2>3, <3>1, ProcessesAttended
  <2> QED BY <1>4, <2>1, <2>2, <2>3
<1> QED BY <1>4, <1>6, <1>7

LEMMA HalfClosesAttended ==
  ASSUME NEW c \in Conns, Attended(conn[c]), HalfCloses(c)
  PROVE  \E t : /\ Attended(t) /\ Follows(t, conn[c])
                /\ conn' = [conn EXCEPT ![c] = t] /\ UNCHANGED <<phase, tokens, detached, operator>>
<1> DEFINE s == [conn[c] EXCEPT !.ended = TRUE, !.timer = FALSE]
<1>1. OneOperation(conn[c]) /\ conn[c] \in ConnStates
  BY DEF Attended, OneOperation
<1>2. /\ s \in ConnStates /\ s.on = conn[c].on /\ s.loop = conn[c].loop /\ s.ops = conn[c].ops
      /\ s.closing = conn[c].closing /\ s.closed = conn[c].closed
  BY <1>1 DEF ConnStates
<1>3. Becomes(c, Processes(s))
  BY DEF HalfCloses
<1> HIDE DEF s
<1>4. PICK t \in Processes(s) : conn' = [conn EXCEPT ![c] = t]
                                  /\ UNCHANGED <<phase, tokens, detached, operator>>
  BY <1>3 DEF Becomes
<1>5. OneOperation(s) /\ \A x : Follows(x, s) => Follows(x, conn[c])
  BY <1>1, <1>2, NotedOneOperation
<1>6. Attended(t) /\ Follows(t, s)
  BY <1>5, ProcessesAttended
<1> QED BY <1>4, <1>5, <1>6

LEMMA ErrsAttended ==
  ASSUME NEW c \in Conns, Attended(conn[c]), Errs(c)
  PROVE  \E t : /\ Attended(t) /\ Follows(t, conn[c])
                /\ conn' = [conn EXCEPT ![c] = t] /\ UNCHANGED <<phase, tokens, detached, operator>>
<1> DEFINE s == [conn[c] EXCEPT !.closed = TRUE]
           t == IF s.loop = "writing" THEN Breaks(s) ELSE [s EXCEPT !.loop = "off"]
<1>1. conn[c] \in ConnStates /\ conn[c].on
  BY DEF Attended, OneOperation
<1>2. /\ s \in ConnStates /\ s.on /\ s.ops = conn[c].ops /\ s.closing = conn[c].closing
      /\ s.closed = TRUE
  BY <1>1 DEF ConnStates
<1>3. conn' = [conn EXCEPT ![c] = t] /\ UNCHANGED <<phase, tokens, detached, operator>>
  BY DEF Errs, Becomes
<1>4. s.ops \in 0..1
  BY <1>2 DEF ConnStates
<1> HIDE DEF s
<1>5. Attended(t) /\ t.ops = s.ops /\ (s.closing => t.closing)
  <2>1. CASE s.loop = "writing"
    BY <1>2, <2>1, BreaksAttended
  <2>2. CASE s.loop # "writing"
    <3> DEFINE u == [s EXCEPT !.loop = "off"]
    <3>1. /\ u \in ConnStates /\ u.on = s.on /\ u.ops = s.ops /\ u.closing = s.closing
          /\ u.closed = s.closed /\ u.loop = "off"
      BY <1>2 DEF ConnStates, Loops
    <3>2. t = u
      BY <2>2
    <3> HIDE DEF u, t
    <3>3. Dead(u)
      BY <1>2, <3>1 DEF Dead
    <3>4. Attended(u)
      BY <1>2, <3>1, <3>3 DEF Attended, OneOperation
    <3> QED BY <3>1, <3>2, <3>4
  <2> QED BY <2>1, <2>2
<1> HIDE DEF t
<1>6. ~(t.ops > conn[c].ops)
  BY <1>2, <1>4, <1>5
<1> QED BY <1>2, <1>3, <1>5, <1>6 DEF Follows

LEMMA IdleFiresAttended ==
  ASSUME NEW c \in Conns, Attended(conn[c]), IdleFires(c)
  PROVE  \E t : /\ Attended(t) /\ Follows(t, conn[c])
                /\ conn' = [conn EXCEPT ![c] = t] /\ UNCHANGED <<phase, tokens, detached, operator>>
<1> DEFINE s == conn[c]
           u == [s EXCEPT !.timer = FALSE]
<1>1. s \in ConnStates /\ OneOperation(s)
  BY DEF Attended, OneOperation
<1>2. /\ u \in ConnStates /\ u.on = s.on /\ u.loop = s.loop /\ u.ops = s.ops
      /\ u.closing = s.closing /\ u.closed = s.closed
  BY <1>1 DEF ConnStates
<1>3. /\ conn' = [conn EXCEPT ![c] = IF Dead(s) THEN u ELSE Destroyed(s)]
      /\ UNCHANGED <<phase, tokens, detached, operator>>
  BY DEF IdleFires, Becomes
<1>4. s.ops \in 0..1
  BY <1>1 DEF ConnStates
<1> HIDE DEF u
<1>5. CASE Dead(s)
  <2>1. OneOperation(u)
    BY <1>1, <1>2, NotedOneOperation
  <2>2. Dead(u)
    BY <1>2, <1>5 DEF Dead
  <2>3. ~(u.ops > s.ops)
    BY <1>2, <1>4
  <2>4. Attended(u) /\ Follows(u, s)
    BY <1>2, <2>1, <2>2, <2>3 DEF Attended, Follows
  <2> QED BY <1>3, <1>5, <2>4
<1>6. CASE ~Dead(s)
  <2>1. Attended(Destroyed(s)) /\ Follows(Destroyed(s), s)
    BY <1>1, DestroyedAttended
  <2> QED BY <1>3, <1>6, <2>1
<1> QED BY <1>5, <1>6

\* The loop goes on from one of its awaits.
LEMMA LoopAttended ==
  ASSUME NEW c \in Conns, Attended(conn[c]), PeerResolves(c) \/ RequestTimesOut(c) \/ Written(c)
  PROVE  \E t : /\ Attended(t) /\ Follows(t, conn[c])
                /\ conn' = [conn EXCEPT ![c] = t] /\ UNCHANGED <<phase, tokens, detached, operator>>
<1> DEFINE s == conn[c]
<1>1. s \in ConnStates /\ s.on /\ s.ops \in 0..1
  BY DEF Attended, OneOperation, ConnStates
<1>2. PICK t \in {Breaks(s)} \cup Turns(s) :
        /\ conn' = [conn EXCEPT ![c] = t] /\ UNCHANGED <<phase, tokens, detached, operator>>
        /\ t = Breaks(s) \/ s.loop # "running"
  BY DEF PeerResolves, RequestTimesOut, Written, Becomes
<1>3. CASE t = Breaks(s)
  <2>1. Attended(Breaks(s)) /\ Breaks(s).ops = s.ops /\ Breaks(s).closing
    BY <1>1, BreaksAttended
  <2>2. ~(Breaks(s).ops > s.ops)
    BY <1>1, <2>1
  <2> QED BY <1>2, <1>3, <2>1, <2>2 DEF Follows
<1>4. CASE t # Breaks(s)
  <2>1. t \in Turns(s) /\ (~Dead(s) => s.ops = 0)
    BY <1>2, <1>4 DEF Attended, OneOperation
  <2>2. Attended(t) /\ Follows(t, s)
    BY <1>1, <2>1, TurnsAttended
  <2> QED BY <1>2, <2>2
<1> QED BY <1>3, <1>4

LEMMA SettlesAttended ==
  ASSUME NEW c \in Conns, Attended(conn[c]), OperationSettles(c)
  PROVE  \E t : /\ Attended(t) /\ Follows(t, conn[c])
                /\ conn' = [conn EXCEPT ![c] = t] /\ UNCHANGED <<phase, tokens, detached, operator>>
<1> DEFINE s == [conn[c] EXCEPT !.ops = @ - 1]
           w == [s EXCEPT !.loop = "writing"]
           states == IF s.loop # "running" THEN {s}
                     ELSE IF Dead(s) THEN {Leaves(s)}
                     ELSE {Breaks(s), w}
<1>1. conn[c] \in ConnStates /\ conn[c].on /\ conn[c].ops \in 0..1 /\ conn[c].ops > 0
  BY DEF Attended, OneOperation, ConnStates, OperationSettles
<1>2. conn[c].ops - 1 \in 0..1 /\ conn[c].ops - 1 = 0 /\ conn[c].ops = 1
  BY <1>1
<1>3. /\ s \in ConnStates /\ s.on = conn[c].on /\ s.loop = conn[c].loop /\ s.ops = 0
      /\ s.closing = conn[c].closing /\ s.closed = conn[c].closed
  BY <1>1, <1>2 DEF ConnStates
<1>4. PICK t \in states : conn' = [conn EXCEPT ![c] = t]
                            /\ UNCHANGED <<phase, tokens, detached, operator>>
  BY DEF OperationSettles, Becomes
<1>5. Dead(s) <=> Dead(conn[c])
  BY <1>3 DEF Dead
<1> HIDE DEF s
<1>6. Attended(t) /\ t.ops = 0 /\ (s.closing => t.closing)
  <2>1. CASE s.loop # "running"
    <3>1. Dead(s)
      BY <1>2, <1>3, <1>5, <2>1 DEF Attended, OneOperation
    <3> QED BY <1>1, <1>3, <1>4, <2>1, <3>1 DEF Attended, OneOperation
  <2>2. CASE s.loop = "running" /\ Dead(s)
    <3>1. Attended(Leaves(s)) /\ Leaves(s).ops = s.ops /\ (s.closing => Leaves(s).closing)
      BY <1>1, <1>3, <2>2, LeavesAttended
    <3> QED BY <1>3, <1>4, <2>2, <3>1
  <2>3. CASE s.loop = "running" /\ ~Dead(s) /\ t = Breaks(s)
    BY <1>1, <1>3, <2>3, BreaksAttended
  <2>4. CASE s.loop = "running" /\ ~Dead(s) /\ t # Breaks(s)
    <3>1. t = w
      BY <1>4, <2>4
    <3>2. /\ w \in ConnStates /\ w.on = s.on /\ w.ops = s.ops /\ w.loop = "writing"
          /\ w.closing = s.closing
      BY <1>3 DEF ConnStates, Loops
    <3> HIDE DEF w
    <3>3. Attended(w)
      BY <1>1, <1>3, <3>2 DEF Attended, OneOperation
    <3> QED BY <1>3, <3>1, <3>2, <3>3
  <2> QED BY <2>1, <2>2, <2>3, <2>4
<1>7. ~(t.ops > conn[c].ops)
  BY <1>2, <1>6
<1> QED BY <1>3, <1>4, <1>6, <1>7 DEF Follows
-----------------------------------------------------------------------------
(* The inductive invariant.                                                *)

Socket(s) == s = Out \/ Attended(s)

\* Past the beginning of shutdown every connection is being destroyed.
Late == {"loops", "operators", "draining", "released"}
LateCloses == phase \in Late => \A c \in Conns : conn[c].on => conn[c].closing

OperatorTypes ==
  operator \in [Operators -> [socket : {"none", "idle", "busy"},
                              work : {"none", "waiting", "handling"}]]

ServerInv ==
  /\ phase \in Phases
  /\ tokens \in 0..Burst
  /\ conn \in [Conns -> ConnStates]
  /\ \A c \in Conns : Socket(conn[c])
  /\ detached \in Nat
  /\ OperatorTypes
  /\ OperationsAreBounded
  /\ LateCloses

LEMMA OutFacts == Out \in ConnStates /\ ~Out.on /\ Out.ops = 0 /\ Out.loop = "off" /\ ~Out.timer
BY ServerAssumption DEF Out, ConnStates, Loops

\* A socket is on exactly if there is something to attend to.
LEMMA OnAttended ==
  ASSUME NEW s, Socket(s)
  PROVE  /\ s.on => Attended(s)
         /\ s.ops > 0 \/ s.loop # "off" \/ s.timer => s.on /\ Attended(s)
<1>1. CASE s = Out
  <2>1. ~(s.ops > 0)
    BY <1>1, OutFacts
  <2> QED BY <1>1, <2>1, OutFacts
<1>2. CASE Attended(s)
  BY <1>2 DEF Attended, OneOperation
<1> QED BY <1>1, <1>2 DEF Socket

\* What happens to the sockets, and to nothing else.
Event(c) ==
  \/ Receives(c) \/ HalfCloses(c) \/ Errs(c) \/ IdleFires(c)
  \/ PeerResolves(c) \/ OperationSettles(c) \/ RequestTimesOut(c) \/ Written(c)

LEMMA EventAttended ==
  ASSUME ServerInv, NEW c \in Conns, Event(c)
  PROVE  /\ conn[c].on
         /\ \E t : /\ Attended(t) /\ Follows(t, conn[c])
                   /\ conn' = [conn EXCEPT ![c] = t] /\ UNCHANGED <<phase, tokens, detached, operator>>
<1>1. Socket(conn[c])
  BY DEF ServerInv
<1>2. conn[c].on \/ conn[c].ops > 0 \/ conn[c].loop # "off" \/ conn[c].timer
  BY DEF Event, Receives, HalfCloses, Errs, IdleFires, PeerResolves, OperationSettles,
         RequestTimesOut, Written
<1>3. conn[c].on /\ Attended(conn[c])
  BY <1>1, <1>2, OnAttended
<1> QED BY <1>3, ReceivesAttended, HalfClosesAttended, ErrsAttended, IdleFiresAttended,
           LoopAttended, SettlesAttended DEF Event

LEMMA EventInv == \A c \in Conns : ServerInv /\ Event(c) => ServerInv'
<1> SUFFICES ASSUME NEW c \in Conns, ServerInv, Event(c) PROVE ServerInv'
  OBVIOUS
<1>1. PICK t : /\ Attended(t) /\ Follows(t, conn[c])
               /\ conn' = [conn EXCEPT ![c] = t] /\ UNCHANGED <<phase, tokens, detached, operator>>
  BY EventAttended
<1>2. t \in ConnStates /\ t.on /\ conn[c].on
  BY <1>1, EventAttended DEF Attended, OneOperation
<1>3. conn' \in [Conns -> ConnStates] /\ \A d \in Conns : conn'[d] = IF d = c THEN t ELSE conn[d]
  BY <1>1, <1>2 DEF ServerInv
<1>4. \A d \in Conns : Socket(conn'[d])
  BY <1>1, <1>3 DEF ServerInv, Socket
<1>5. connections' = connections
  BY <1>2, <1>3 DEF connections
<1>6. LateCloses'
  BY <1>1, <1>2, <1>3 DEF ServerInv, LateCloses, Follows
<1>7. OperationsAreBounded'
  BY <1>1, <1>5 DEF ServerInv, OperationsAreBounded
<1>8. OperatorTypes'
  BY <1>1 DEF ServerInv, OperatorTypes
<1> QED BY <1>1, <1>3, <1>4, <1>6, <1>7, <1>8 DEF ServerInv

LEMMA ConnectionsFinite ==
  /\ IsFiniteSet(connections) /\ Cardinality(connections) \in Nat
  /\ (IsFiniteSet(connections) /\ Cardinality(connections) \in Nat)'
<1>1. connections \in SUBSET Conns /\ connections' \in SUBSET Conns
  BY DEF connections
<1>2. IsFiniteSet(connections) /\ IsFiniteSet(connections')
  BY <1>1, FS_Subset, ServerAssumption
<1> QED BY <1>2, FS_CardinalityType

LEMMA ConnectsInv == \A c \in Conns : ServerInv /\ Connects(c) => ServerInv'
<1> SUFFICES ASSUME NEW c \in Conns, ServerInv, Connects(c) PROVE ServerInv'
  OBVIOUS
<1> DEFINE new == [Out EXCEPT !.on = TRUE, !.timer = TRUE]
<1>1. /\ Listening /\ ~conn[c].on /\ Room /\ tokens > 0 /\ tokens' = tokens - 1
      /\ conn' = [conn EXCEPT ![c] = new] /\ UNCHANGED <<phase, detached, operator>>
  BY DEF Connects
<1>2. /\ new \in ConnStates /\ new.on = TRUE /\ new.timer = TRUE /\ new.loop = "off"
      /\ new.ops = 0 /\ new.frames = 0 /\ new.ended = FALSE
  <2>1. Out.frames = 0 /\ Out.ended = FALSE
    BY DEF Out
  <2> DEFINE out == Out
  <2>2. out \in ConnStates /\ out.loop = "off" /\ out.ops = 0 /\ out.frames = 0 /\ out.ended = FALSE
    BY <2>1, OutFacts
  <2>3. new = [out EXCEPT !.on = TRUE, !.timer = TRUE]
    OBVIOUS
  <2> HIDE DEF new, out
  <2> QED BY <2>2, <2>3 DEF ConnStates
<1> HIDE DEF new
<1>3. Attended(new)
  BY <1>2 DEF Attended, OneOperation
<1>4. conn' \in [Conns -> ConnStates] /\ \A d \in Conns : conn'[d] = IF d = c THEN new ELSE conn[d]
  BY <1>1, <1>2 DEF ServerInv
<1>5. \A d \in Conns : Socket(conn'[d])
  BY <1>3, <1>4 DEF ServerInv, Socket
<1>6. connections' = connections \cup {c}
  BY <1>1, <1>2, <1>4 DEF connections
<1>7. Cardinality(connections') = Cardinality(connections) + 1
  BY <1>1, <1>6, ConnectionsFinite, FS_AddElement DEF connections
<1>8. OperationsAreBounded'
  BY <1>1, <1>7, ConnectionsFinite, ServerAssumption DEF ServerInv, OperationsAreBounded, Room
<1>9. LateCloses'
  BY <1>1 DEF Listening, LateCloses, Late
<1>10. tokens' \in 0..Burst
  BY <1>1, ServerAssumption DEF ServerInv
<1> QED BY <1>1, <1>4, <1>5, <1>8, <1>9, <1>10 DEF ServerInv, OperatorTypes

\* The connection's operation goes on without it: the sum stays in bounds.
LEMMA ClosesInv == \A c \in Conns : ServerInv /\ Closes(c) => ServerInv'
<1> SUFFICES ASSUME NEW c \in Conns, ServerInv, Closes(c) PROVE ServerInv'
  OBVIOUS
<1>1. /\ conn[c].on /\ conn' = [conn EXCEPT ![c] = Out] /\ detached' = detached + conn[c].ops
      /\ UNCHANGED <<phase, tokens, operator>>
  BY DEF Closes
<1>2. conn[c].ops \in 0..1 /\ detached \in Nat
  BY DEF ServerInv, ConnStates
<1>3. conn' \in [Conns -> ConnStates] /\ \A d \in Conns : conn'[d] = IF d = c THEN Out ELSE conn[d]
  BY <1>1, OutFacts DEF ServerInv
<1>4. \A d \in Conns : Socket(conn'[d])
  BY <1>3 DEF ServerInv, Socket
<1>5. connections' = connections \ {c} /\ c \in connections
  BY <1>1, <1>3, OutFacts DEF connections
<1>6. Cardinality(connections') = Cardinality(connections) - 1
  BY <1>5, ConnectionsFinite, FS_RemoveElement
<1>7. detached' \in Nat /\ OperationsAreBounded'
  BY <1>1, <1>2, <1>6, ConnectionsFinite, ServerAssumption DEF ServerInv, OperationsAreBounded
<1>8. LateCloses'
  BY <1>1, <1>3, OutFacts DEF ServerInv, LateCloses
<1> QED BY <1>1, <1>3, <1>4, <1>7, <1>8 DEF ServerInv, OperatorTypes

LEMMA ShutsDownInv == ServerInv /\ ShutsDown => ServerInv'
<1> SUFFICES ASSUME ServerInv, ShutsDown PROVE ServerInv'
  OBVIOUS
<1>1. /\ phase' = "loops" /\ tokens' = 0 /\ UNCHANGED <<detached, operator>>
      /\ conn' = [c \in Conns |-> IF conn[c].on THEN Destroyed(conn[c]) ELSE conn[c]]
  BY DEF ShutsDown
<1>2. ASSUME NEW c \in Conns
      PROVE  /\ conn'[c] \in ConnStates /\ Socket(conn'[c]) /\ conn'[c].on = conn[c].on
             /\ conn'[c].on => conn'[c].closing
  <2>1. Socket(conn[c]) /\ conn[c] \in ConnStates
    BY DEF ServerInv
  <2>2. CASE conn[c].on
    <3>1. OneOperation(conn[c])
      BY <2>1, <2>2, OnAttended DEF Attended
    <3>2. Attended(Destroyed(conn[c]))
      BY <3>1, DestroyedAttended
    <3>3. Destroyed(conn[c]).on = conn[c].on /\ Destroyed(conn[c]).closing = TRUE
      BY <2>1 DEF Destroyed, ConnStates
    <3>4. conn'[c] = Destroyed(conn[c])
      BY <1>1, <2>2
    <3> QED BY <3>2, <3>3, <3>4 DEF Attended, OneOperation, Socket
  <2>3. CASE ~conn[c].on
    <3>1. conn'[c] = conn[c]
      BY <1>1, <2>3
    <3> QED BY <2>1, <2>3, <3>1
  <2> QED BY <2>2, <2>3
<1>3. conn' \in [Conns -> ConnStates]
  BY <1>1, <1>2
<1>4. connections' = connections
  BY <1>2 DEF connections
<1>5. OperationsAreBounded'
  BY <1>1, <1>4 DEF ServerInv, OperationsAreBounded
<1>6. LateCloses'
  BY <1>2 DEF LateCloses
<1>7. tokens' \in 0..Burst /\ phase' \in Phases
  BY <1>1, ServerAssumption DEF Phases
<1> QED BY <1>1, <1>2, <1>3, <1>5, <1>6, <1>7 DEF ServerInv, OperatorTypes

\* The steps that leave the sockets of the daemon alone.
LEMMA OthersInv ==
  ASSUME ServerInv, conn' = conn, tokens' \in 0..Burst, detached' \in Nat, detached' <= detached,
         phase' \in Phases, phase' \in Late => phase \in Late, OperatorTypes'
  PROVE  ServerInv'
<1>1. connections' = connections
  BY DEF connections
<1>2. OperationsAreBounded'
  BY <1>1, ConnectionsFinite, ServerAssumption DEF ServerInv, OperationsAreBounded
<1> QED BY <1>2 DEF ServerInv, LateCloses

OperatorEvent(o) ==
  OperatorConnects(o) \/ TakesFrame(o) \/ Handles(o) \/ WorkSettles(o) \/ SocketCloses(o)

LEMMA OperatorEventInv == \A o \in Operators : ServerInv /\ OperatorEvent(o) => ServerInv'
<1> SUFFICES ASSUME NEW o \in Operators, ServerInv, OperatorEvent(o) PROVE ServerInv'
  OBVIOUS
<1> DEFINE Sockets == [socket : {"none", "idle", "busy"}, work : {"none", "waiting", "handling"}]
<1>1. operator \in [Operators -> Sockets] /\ tokens \in 0..Burst /\ detached \in Nat /\ phase \in Phases
  BY DEF ServerInv, OperatorTypes
<1>2. PICK s \in Sockets : /\ operator' = [operator EXCEPT ![o] = s]
                           /\ UNCHANGED <<phase, tokens, conn, detached>>
  BY <1>1 DEF OperatorEvent, OperatorConnects, TakesFrame, Handles, WorkSettles, SocketCloses, Serves
<1> HIDE DEF Sockets
<1>3. operator' \in [Operators -> Sockets]
  BY <1>1, <1>2
<1>4. OperatorTypes'
  BY <1>3 DEF OperatorTypes, Sockets
<1> QED BY <1>1, <1>2, <1>4, OthersInv

DaemonStep ==
  \/ Refills \/ DetachedSettles \/ StartsAccepting \/ OpensOperatorSocket \/ StartFails
  \/ ClosesOperators \/ OperatorsClosed \/ ReleasesRuntime

LEMMA DaemonStepInv == ServerInv /\ DaemonStep => ServerInv'
<1> SUFFICES ASSUME ServerInv, DaemonStep PROVE ServerInv'
  OBVIOUS
<1>1. tokens \in 0..Burst /\ detached \in Nat /\ phase \in Phases /\ OperatorTypes
  BY DEF ServerInv
<1>2. conn' = conn
  BY DEF DaemonStep, Refills, DetachedSettles, StartsAccepting, OpensOperatorSocket, StartFails,
         ClosesOperators, OperatorsClosed, ReleasesRuntime
<1>3. tokens' \in 0..Burst /\ detached' \in Nat /\ detached' <= detached
  BY <1>1, ServerAssumption
     DEF DaemonStep, Refills, DetachedSettles, StartsAccepting, OpensOperatorSocket, StartFails,
         ClosesOperators, OperatorsClosed, ReleasesRuntime
<1>4. phase' \in Phases /\ (phase' \in Late => phase \in Late)
  BY <1>1
     DEF DaemonStep, Refills, DetachedSettles, StartsAccepting, OpensOperatorSocket, StartFails,
         ClosesOperators, OperatorsClosed, ReleasesRuntime, Phases, Late
<1>5. OperatorTypes'
  <2>1. CASE ClosesOperators
    BY <1>1, <2>1 DEF ClosesOperators, OperatorTypes, NoOperator
  <2>2. CASE ~ClosesOperators
    <3>1. operator' = operator
      BY <2>2 DEF DaemonStep, Refills, DetachedSettles, StartsAccepting, OpensOperatorSocket,
                  StartFails, OperatorsClosed, ReleasesRuntime
    <3> QED BY <1>1, <3>1 DEF OperatorTypes
  <2> QED BY <2>1, <2>2
<1> QED BY <1>2, <1>3, <1>4, <1>5, OthersInv

LEMMA InitServer == Init => ServerInv
<1> SUFFICES ASSUME Init PROVE ServerInv
  OBVIOUS
<1>1. /\ phase = "binding" /\ tokens = Burst /\ conn = [c \in Conns |-> Out] /\ detached = 0
      /\ operator = [o \in Operators |-> NoOperator]
  BY DEF Init
<1>2. connections = {}
  BY <1>1, OutFacts DEF connections
<1>3. OperationsAreBounded
  BY <1>1, <1>2, FS_EmptySet, ServerAssumption DEF OperationsAreBounded
<1>4. OperatorTypes
  BY <1>1 DEF OperatorTypes, NoOperator
<1>5. tokens \in 0..Burst /\ detached \in Nat
  BY <1>1, ServerAssumption
<1> QED BY <1>1, <1>3, <1>4, <1>5, OutFacts DEF ServerInv, Phases, Socket, LateCloses, Late

LEMMA StepServer == ServerInv /\ [Next]_vars => ServerInv'
<1> SUFFICES ASSUME ServerInv, [Next]_vars PROVE ServerInv'
  OBVIOUS
<1>1. CASE UNCHANGED vars
  <2>1. UNCHANGED <<phase, tokens, conn, detached, operator>> /\ detached \in Nat
    BY <1>1 DEF vars, ServerInv
  <2>2. detached' <= detached
    BY <2>1
  <2> QED BY <2>1, <2>2, OthersInv DEF ServerInv, OperatorTypes
<1>2. CASE Next
  BY <1>2, EventInv, ConnectsInv, ClosesInv, ShutsDownInv, OperatorEventInv, DaemonStepInv
     DEF Next, Event, OperatorEvent, DaemonStep
<1> QED BY <1>1, <1>2

LEMMA AlwaysServer == Spec => []ServerInv
BY InitServer, StepServer, PTL DEF Spec
-----------------------------------------------------------------------------
(* The theorems.                                                           *)

\* A connection runs one operation at a time, and every variable keeps its
\* type.
THEOREM OneOperationAtATime == Spec => []ServerTypeOK
<1>1. ServerInv => ServerTypeOK
  BY DEF ServerInv, OperatorTypes, ServerTypeOK
<1> QED BY <1>1, AlwaysServer, PTL

\* Connections and the operations that outlived theirs never exceed the
\* limit together.
THEOREM OperationsStayBounded == Spec => []OperationsAreBounded
<1>1. ServerInv => OperationsAreBounded
  BY DEF ServerInv
<1> QED BY <1>1, AlwaysServer, PTL

\* No complete frame is left on an open connection whose loop has ended.
THEOREM FramesAreServed == Spec => []NoFrameIsStranded
<1>1. ServerInv => NoFrameIsStranded
  <2> SUFFICES ASSUME ServerInv, NEW c \in connections, ~Dead(conn[c]), conn[c].frames > 0
               PROVE  conn[c].loop # "off"
    BY DEF NoFrameIsStranded
  <2>1. Attended(conn[c])
    BY OnAttended DEF ServerInv, connections
  <2> QED BY <2>1 DEF Attended
<1> QED BY <1>1, AlwaysServer, PTL

\* A connection whose loop has ended is watched by the idle timer, and its
\* client has not half-closed it.
THEOREM SilentAreWatched == Spec => []SilenceIsWatched
<1>1. ServerInv => SilenceIsWatched
  <2> SUFFICES ASSUME ServerInv, NEW c \in connections, ~Dead(conn[c]), conn[c].loop = "off"
               PROVE  conn[c].timer /\ ~conn[c].ended
    BY DEF SilenceIsWatched
  <2>1. Attended(conn[c])
    BY OnAttended DEF ServerInv, connections
  <2> QED BY <2>1 DEF Attended
<1> QED BY <1>1, AlwaysServer, PTL

\* Once shutdown has begun no request of the daemon's socket begins.
THEOREM NothingBeginsLate == Spec => NoLateOperation
<1> DEFINE NotLate == \A c \in Conns : Begins(c) =>
                        phase \notin {"loops", "operators", "draining", "released"}
<1>1. ServerInv /\ [Next]_vars => NotLate
  <2> SUFFICES ASSUME ServerInv, [Next]_vars, NEW c \in Conns, Begins(c), phase \in Late
               PROVE  FALSE
    BY DEF Late
  <2>1. conn \in [Conns -> ConnStates] /\ conn[c].ops \in 0..1 /\ conn'[c].ops > conn[c].ops
    BY DEF ServerInv, ConnStates, Begins
  <2>2. ~(\E d \in Conns : Event(d))
    <3> SUFFICES ASSUME NEW d \in Conns, Event(d) PROVE FALSE
      OBVIOUS
    <3>1. conn[d].on /\ \E t : Follows(t, conn[d]) /\ conn' = [conn EXCEPT ![d] = t]
      BY EventAttended
    <3>2. PICK t : Follows(t, conn[d]) /\ conn' = [conn EXCEPT ![d] = t]
      BY <3>1
    <3>3. Dead(conn[d])
      BY <3>1 DEF ServerInv, LateCloses, Dead
    <3>4. ~(t.ops > conn[d].ops)
      BY <3>2, <3>3 DEF Follows
    <3>5. CASE d = c
      BY <2>1, <3>2, <3>4, <3>5
    <3>6. CASE d # c
      <4>1. conn'[c] = conn[c]
        BY <2>1, <3>2, <3>6
      <4> QED BY <2>1, <4>1
    <3> QED BY <3>5, <3>6
  <2>3. conn'[c] # conn[c]
    BY <2>1
  <2>4. ~(\E d \in Conns : Closes(d))
    <3> SUFFICES ASSUME NEW d \in Conns, Closes(d) PROVE FALSE
      OBVIOUS
    <3>1. conn' = [conn EXCEPT ![d] = Out]
      BY DEF Closes
    <3>2. conn'[c] = Out
      BY <2>1, <2>3, <3>1
    <3> QED BY <2>1, <3>2, OutFacts
  <2>5. conn' = conn
    BY <2>2, <2>4 DEF Next, vars, Event, Connects, Listening, ShutsDown, OperatorConnects, TakesFrame,
                      Handles, WorkSettles, SocketCloses, Serves, Refills, DetachedSettles,
                      StartsAccepting, OpensOperatorSocket, StartFails, ClosesOperators,
                      OperatorsClosed, ReleasesRuntime, Late
  <2> QED BY <2>3, <2>5
<1> QED BY <1>1, AlwaysServer, PTL DEF Spec, NoLateOperation
-----------------------------------------------------------------------------
(* Start and shutdown go in stages; what has not come yet, and what each     *)
(* wait has waited for, is not there.                                      *)

Ended == {"released", "abandoned"}

Drained ==
  /\ phase \in {"binding", "operators", "draining"} \cup Ended => connections = {}
  /\ phase \in {"binding", "opening", "failing", "draining"} \cup Ended =>
       InFlight = {} /\ \A o \in Operators : operator[o] = NoOperator
  /\ phase = "released" => detached = 0

LEMMA StepDrained == ServerInv /\ Drained /\ [Next]_vars => Drained'
<1> SUFFICES ASSUME ServerInv, Drained, [Next]_vars PROVE Drained'
  OBVIOUS
<1>1. CASE \E c \in Conns : Event(c) \/ Closes(c) \/ Connects(c)
  <2>1. PICK c \in Conns : Event(c) \/ Closes(c) \/ Connects(c)
    BY <1>1
  <2>2. Event(c) => c \in connections /\ phase' = phase /\ operator' = operator
    BY EventAttended DEF connections
  <2>3. Closes(c) => c \in connections /\ phase' = phase /\ operator' = operator
    BY DEF Closes, connections
  <2>4. Connects(c) => phase \in {"opening", "serving"} /\ phase' = phase /\ operator' = operator
    BY DEF Connects, Listening, Accepting
  <2>5. /\ phase' = phase /\ operator' = operator
        /\ phase \notin {"binding", "operators", "draining"} \cup Ended
    BY <2>1, <2>2, <2>3, <2>4 DEF Drained, Ended
  <2> QED BY <2>5 DEF Drained, InFlight, Ended
<1>2. CASE \E o \in Operators : OperatorEvent(o)
  <2>1. PICK o \in Operators : OperatorEvent(o)
    BY <1>2
  <2>2. UNCHANGED <<phase, conn, detached>>
    BY <2>1 DEF OperatorEvent, OperatorConnects, TakesFrame, Handles, WorkSettles, SocketCloses, Serves
  <2>3. phase \notin {"binding", "opening", "failing", "draining"} \cup Ended
    <3> SUFFICES ASSUME phase \in {"binding", "opening", "failing", "draining"} \cup Ended PROVE FALSE
      OBVIOUS
    <3>1. operator[o].socket = "none" /\ operator[o].work = "none"
      BY DEF Drained, NoOperator
    <3> QED BY <2>1, <3>1
            DEF OperatorEvent, OperatorConnects, OperatorListening, TakesFrame, Handles,
                WorkSettles, SocketCloses, Ended
  <2> QED BY <2>2, <2>3 DEF Drained, connections, Ended
<1>3. CASE ClosesOperators \/ ShutsDown
  <2>1. phase' = "loops" \/ (phase' = "operators" /\ connections = {} /\ conn' = conn)
    BY <1>3 DEF ClosesOperators, ShutsDown
  <2> QED BY <2>1 DEF Drained, connections, Ended
<1>4. CASE OperatorsClosed
  <2>1. /\ phase' \in {"draining", "abandoned"} /\ connections = {}
        /\ \A o \in Operators : operator[o] = NoOperator
        /\ UNCHANGED <<conn, detached, operator>>
    BY <1>4 DEF OperatorsClosed, Drained
  <2>2. InFlight' = {}
    BY <2>1 DEF InFlight, NoOperator
  <2> QED BY <2>1, <2>2 DEF Drained, connections, Ended
<1>5. CASE ReleasesRuntime
  BY <1>5 DEF ReleasesRuntime, Drained, connections, InFlight, Ended
<1>6. CASE Refills \/ DetachedSettles
  <2>1. detached > 0 => detached # 0
    OBVIOUS
  <2> QED BY <1>6, <2>1 DEF Refills, DetachedSettles, Drained, connections, InFlight
<1>7. CASE StartsAccepting \/ OpensOperatorSocket \/ StartFails
  BY <1>7 DEF StartsAccepting, OpensOperatorSocket, StartFails, Drained, connections, InFlight, Ended
<1>8. CASE UNCHANGED vars
  BY <1>8 DEF vars, Drained, connections, InFlight
<1> QED BY <1>1, <1>2, <1>3, <1>4, <1>5, <1>6, <1>7, <1>8 DEF Next, Event, OperatorEvent

LEMMA AlwaysDrained == Spec => []Drained
<1>1. Init => Drained
  BY OutFacts DEF Init, Drained, connections, InFlight, NoOperator, Ended
<1> QED BY <1>1, AlwaysServer, StepDrained, PTL DEF Spec

\* When the runtime and its database have been released, on whatever path, no
\* connection is left and no handler of the operator's; when they have been
\* released by a shutdown that ran to its end, no operation runs on either.
ReleasedIsUnused ==
  /\ phase \in Ended => connections = {} /\ InFlight = {}
  /\ phase = "released" => detached = 0

\* The runtime is released when nobody is there who uses it, and nobody comes
\* after; only the operations that outlived their connection may run on, and
\* only where the start or the shutdown failed.
THEOREM RuntimeIsReleasedUnused == Spec => []ReleasedIsUnused
<1>1. Drained => ReleasedIsUnused
  BY DEF Drained, ReleasedIsUnused, Ended
<1> QED BY <1>1, AlwaysDrained, PTL

\* A connection that is not there has no operation.
LEMMA OffIsUnused ==
  ASSUME NEW s, Socket(s), ~s.on
  PROVE  ~(s.ops > 0)
<1>1. s = Out
  BY DEF Socket, Attended, OneOperation
<1> QED BY <1>1, OutFacts

\* No step leaves an ended phase: only a detached operation can still settle.
LEMMA EndedStays ==
  ASSUME ServerInv, Drained, [Next]_vars, phase \in Ended
  PROVE  /\ phase' = phase /\ conn' = conn /\ operator' = operator
         /\ detached' = detached \/ detached > 0
<1>1. \A c \in Conns : ~Event(c) /\ ~Closes(c) /\ ~Connects(c)
  BY EventAttended DEF Drained, connections, Closes, Connects, Listening, Ended
<1>2. \A o \in Operators : ~OperatorEvent(o)
  <2> SUFFICES ASSUME NEW o \in Operators, OperatorEvent(o) PROVE FALSE
    OBVIOUS
  <2>1. operator[o].socket = "none" /\ operator[o].work = "none"
    BY DEF Drained, NoOperator
  <2> QED BY <2>1 DEF OperatorEvent, OperatorConnects, OperatorListening, TakesFrame, Handles,
                      WorkSettles, SocketCloses, Ended
<1>3. CASE Refills \/ DetachedSettles \/ UNCHANGED vars
  BY <1>3 DEF Refills, DetachedSettles, vars
<1>4. ~(StartsAccepting \/ OpensOperatorSocket \/ StartFails \/ ShutsDown \/ ClosesOperators
        \/ OperatorsClosed \/ ReleasesRuntime)
  BY DEF StartsAccepting, OpensOperatorSocket, StartFails, ShutsDown, ClosesOperators,
         OperatorsClosed, ReleasesRuntime, Ended
<1> QED BY <1>1, <1>2, <1>3, <1>4 DEF Next, Event, OperatorEvent

LEMMA EndedIsUnused ==
  ASSUME ServerInv, Drained, phase \in Ended \cup {"draining"}
  PROVE  ~InUse
<1>1. \A c \in Conns : Socket(conn[c]) /\ ~conn[c].on
  BY DEF ServerInv, Drained, connections
<1> QED BY <1>1, OffIsUnused DEF InUse, Drained

\* What the server has made of the runtime.
Release == CASE phase = "released" -> "cleanly" [] phase = "abandoned" -> "early" [] OTHER -> "no"

LEMMA LeaseStep ==
  ASSUME ServerInv, Drained, ServerInv', Drained', [Next]_vars
  PROVE  [Lease!Uses \/ Lease!ReleasesCleanly \/ Lease!ReleasesEarly \/ Lease!OrphansEnd]_<<InUse, detached > 0, Release>>
<1>0. /\ InUse \in BOOLEAN /\ InUse' \in BOOLEAN
      /\ (detached > 0) \in BOOLEAN /\ (detached' > 0) \in BOOLEAN
  BY DEF InUse
<1>1. CASE phase = "released"
  <2>1. phase' = "released" /\ conn' = conn /\ operator' = operator
    BY <1>1, EndedStays DEF Ended
  <2>2. InUse' = InUse
    BY <2>1 DEF InUse, InFlight
  <2>3. detached = 0 /\ detached' = 0
    BY <1>1, <2>1 DEF Drained
  <2> QED BY <1>1, <2>1, <2>2, <2>3 DEF Release
<1>2. CASE phase = "abandoned"
  <2>1. phase' = "abandoned" /\ conn' = conn /\ operator' = operator
    BY <1>2, EndedStays DEF Ended
  <2>2. InUse' = InUse
    BY <2>1 DEF InUse, InFlight
  <2>3. detached' = detached \/ detached > 0
    BY <1>2, EndedStays DEF Ended
  <2> QED BY <1>0, <1>2, <2>1, <2>2, <2>3 DEF Release, Lease!OrphansEnd
<1>3. CASE phase \notin Ended /\ phase' = "released"
  <2>1. ReleasesRuntime
    BY <1>3 DEF Next, vars, Connects, Listening, Receives, HalfCloses, Errs, Closes, IdleFires,
                PeerResolves, OperationSettles, RequestTimesOut, Written, Becomes, OperatorConnects,
                TakesFrame, Handles, WorkSettles, SocketCloses, Serves, Refills, DetachedSettles,
                StartsAccepting, OpensOperatorSocket, StartFails, ShutsDown, ClosesOperators,
                OperatorsClosed, Ended
  <2>2. phase = "draining" /\ detached = 0 /\ UNCHANGED <<conn, detached, operator>>
    BY <2>1 DEF ReleasesRuntime
  <2>3. ~InUse
    BY <2>2, EndedIsUnused
  <2>4. InUse' = InUse
    BY <2>2 DEF InUse, InFlight
  <2>5. ~(detached > 0) /\ Release = "no" /\ Release' = "cleanly"
    BY <1>3, <2>2 DEF Release
  <2> QED BY <2>2, <2>3, <2>4, <2>5 DEF Lease!ReleasesCleanly, Release
<1>4. CASE phase \notin Ended /\ phase' = "abandoned"
  <2>1. StartsAccepting \/ StartFails \/ OperatorsClosed
    BY <1>4 DEF Next, vars, Connects, Listening, Receives, HalfCloses, Errs, Closes, IdleFires,
                PeerResolves, OperationSettles, RequestTimesOut, Written, Becomes, OperatorConnects,
                TakesFrame, Handles, WorkSettles, SocketCloses, Serves, Refills, DetachedSettles,
                OpensOperatorSocket, ShutsDown, ClosesOperators, ReleasesRuntime, Ended
  <2>2. UNCHANGED <<conn, detached, operator>>
    BY <2>1 DEF StartsAccepting, StartFails, OperatorsClosed
  <2>3. InUse' = InUse
    BY <2>2 DEF InUse, InFlight
  <2>4. ~InUse'
    <3>1. \A c \in Conns : Socket(conn'[c]) /\ ~conn'[c].on
      BY <1>4 DEF ServerInv, Drained, connections, Ended
    <3>2. \A c \in Conns : ~(conn'[c].ops > 0)
      BY <3>1, OffIsUnused
    <3> QED BY <1>4, <3>2 DEF InUse, Drained, Ended
  <2>5. Release = "no" /\ Release' = "early"
    BY <1>4 DEF Release, Ended
  <2> QED BY <2>2, <2>3, <2>4, <2>5 DEF Lease!ReleasesEarly, Release
<1>5. CASE phase \notin Ended /\ phase' \notin Ended
  <2>1. Release = "no" /\ Release' = "no"
    BY <1>5 DEF Release, Ended
  <2> QED BY <1>0, <2>1 DEF Lease!Uses, Release
<1> QED BY <1>1, <1>2, <1>3, <1>4, <1>5 DEF Ended

\* The daemon implements the lease: the runtime is released once, whatever
\* path it ends on, when no client that is there and no handler is at work in
\* it, and, when shutdown runs to its end, no operation that outlived its
\* client either; nothing begins in it afterwards.
THEOREM ServerImplementsLease == Spec => ReleasedWhenUnused
<1>1. Init => Lease!LeaseInit
  <2> SUFFICES ASSUME Init PROVE Lease!LeaseInit
    OBVIOUS
  <2>1. /\ phase = "binding" /\ detached = 0 /\ \A c \in Conns : conn[c] = Out
        /\ \A o \in Operators : operator[o] = NoOperator
    BY DEF Init
  <2>2. ~InUse
    BY <2>1, OutFacts DEF InUse, InFlight, NoOperator
  <2> QED BY <2>1, <2>2 DEF Lease!LeaseInit, InUse
<1>2. ServerInv /\ Drained /\ ServerInv' /\ Drained' /\ [Next]_vars
        => [Lease!Uses \/ Lease!ReleasesCleanly \/ Lease!ReleasesEarly \/ Lease!OrphansEnd]_(Lease!leaseVars)
  BY LeaseStep DEF Lease!leaseVars, Release
<1> QED BY <1>1, <1>2, AlwaysServer, AlwaysDrained, PTL DEF Spec, ReleasedWhenUnused, Lease!LeaseSpec
=============================================================================
