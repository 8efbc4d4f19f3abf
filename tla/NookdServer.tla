---------------------------- MODULE NookdServer ----------------------------
(***************************************************************************)
(* The daemon's sockets (src/service/nookd-server.ts and                    *)
(* src/service/operator-socket-server.ts): admission, the loop that serves  *)
(* one connection, operations that outlive their connection, the operator's *)
(* one-request connections, start and shutdown.                            *)
(*                                                                         *)
(* A step runs to the next await, as the event loop has it: an event of a   *)
(* socket or a promise that settles, with everything that follows at once.  *)
(* A name in Conns or Operators stands for one socket at a time.            *)
(***************************************************************************)
EXTENDS Naturals, FiniteSetsExt

CONSTANTS
  Conns,           \* names for connections of the daemon's socket
  Operators,       \* names for connections of the operator's socket
  MaxConnections,  \* connections and detached operations admitted
  MaxRequests,     \* requests served on one connection
  Burst,           \* admission tokens
  FrameBound       \* bound: complete frames that MAX_PENDING_BYTES holds

ASSUME ServerAssumption ==
  /\ IsFiniteSet(Conns)
  /\ MaxConnections \in Nat /\ MaxRequests \in Nat /\ Burst \in Nat /\ FrameBound \in Nat

VARIABLES
  phase,      \* how far the start or the shutdown is
  tokens,     \* admission tokens, in whole ones
  conn,       \* the connections
  detached,   \* running operations whose connection is gone
  operator    \* the operator's connections

vars == <<phase, tokens, conn, detached, operator>>

\* binding: bound, the group not applied; opening: the operator's socket is
\* being bound; failing: it could not be; loops, operators, draining: the
\* three waits of shutdown; abandoned: cleaned up on a failure's path.
Phases == {"binding", "opening", "serving", "failing", "loops", "operators",
           "draining", "released", "abandoned"}

Accepting == phase \in {"opening", "serving", "failing"}
Listening == phase \in {"binding", "opening", "serving"}
OperatorListeningLate == phase \in {"serving", "loops", "operators"}

OperatorListening == phase \in {"serving", "loops"}

\* `loop` is where processConnection() awaits: nowhere, the peer's identity,
\* its operation, or the write of the answer.
Loops == {"off", "peer", "running", "writing"}
Out == [on |-> FALSE, loop |-> "off", frames |-> 0, handled |-> 0, ops |-> 0, waited |-> FALSE,
        timer |-> FALSE, ended |-> FALSE, closing |-> FALSE, closed |-> FALSE]

connections == {c \in Conns : conn[c].on}
Dead(s) == s.closed \/ s.closing

NoOperator == [socket |-> "none", work |-> "none"]
InFlight == {o \in Operators : operator[o].work # "none"}

Init ==
  /\ phase = "binding"
  /\ tokens = Burst
  /\ conn = [c \in Conns |-> Out]
  /\ detached = 0
  /\ operator = [o \in Operators |-> NoOperator]
-----------------------------------------------------------------------------
(* One connection.                                                         *)

\* destroyConnection(): a loop that awaits its operation goes on until the
\* operation settles or the socket has closed, any other loop ends.
Destroyed(s) ==
  [s EXCEPT !.closing = TRUE, !.timer = FALSE, !.loop = IF @ = "running" THEN @ ELSE "off"]

LeavesEnded(s) == [s EXCEPT !.loop = "off", !.timer = @ \/ ~Dead(s)]

\* The finally clause of processConnection().
Leaves(s) ==
  IF s.ended /\ ~s.closed THEN Destroyed([s EXCEPT !.loop = "off"])
  ELSE [s EXCEPT !.loop = "off", !.timer = @ \/ ~Dead(s)]

Breaks(s) == Leaves(Destroyed([s EXCEPT !.loop = "off"]))

Dispatches(s) ==
  [s EXCEPT !.loop = "running", !.frames = @ - 1, !.handled = @ + 1, !.ops = @ + 1]

\* One turn of the loop, to its next await: the budget of requests or of time
\* is spent, no frame is complete, the frame is malformed, or it is served.
Turns(s) ==
  IF Dead(s) THEN {Leaves(s)}
  ELSE IF s.handled >= MaxRequests THEN {Breaks(s)}
  ELSE IF s.frames = 0 THEN {Leaves(s)}
  ELSE {Breaks(s), Dispatches(s)}

\* processConnection(): one loop at a time, which first awaits the peer.
Processes(s) ==
  IF s.loop # "off" \/ Dead(s) THEN {s}
  ELSE IF s.waited THEN Turns(s)
  ELSE {[s EXCEPT !.loop = "peer", !.waited = TRUE]}

Becomes(c, states) ==
  /\ \E s \in states : conn' = [conn EXCEPT ![c] = s]
  /\ UNCHANGED <<phase, tokens, detached, operator>>

RoomForConnections == Cardinality(connections) < MaxConnections

\* onConnection(): detachedOps() takes part in the bound.
Room == Cardinality(connections) + detached < MaxConnections

Connects(c) ==
  /\ Listening
  /\ ~conn[c].on
  /\ Accepting /\ Room /\ tokens > 0
  /\ tokens' = tokens - 1
  /\ conn' = [conn EXCEPT ![c] = [Out EXCEPT !.on = TRUE, !.timer = TRUE]]
  /\ UNCHANGED <<phase, detached, operator>>

Refills ==
  /\ tokens < Burst
  /\ tokens' = tokens + 1
  /\ UNCHANGED <<phase, conn, detached, operator>>

\* 'data': it completes a frame or does not, or overflows what may be pending.
Receives(c) ==
  LET s == [conn[c] EXCEPT !.timer = TRUE] IN
  /\ s.on /\ ~Dead(s) /\ ~s.ended /\ Accepting
  /\ Becomes(c, {Destroyed(s)} \cup Processes(s)
                \cup (IF s.frames < FrameBound THEN Processes([s EXCEPT !.frames = @ + 1]) ELSE {}))

HalfClosesQuietly(c) ==
  /\ conn[c].on /\ ~conn[c].ended /\ ~conn[c].closing
  /\ Becomes(c, {[conn[c] EXCEPT !.ended = TRUE, !.timer = FALSE]})

\* 'end'.
HalfCloses(c) ==
  /\ conn[c].on /\ ~conn[c].ended /\ ~conn[c].closing
  /\ Becomes(c, Processes([conn[c] EXCEPT !.ended = TRUE, !.timer = FALSE]))

\* 'error': what the loop awaits is cancelled, a write fails.
Errs(c) ==
  LET s == [conn[c] EXCEPT !.closed = TRUE] IN
  /\ s.on /\ ~conn[c].closed
  /\ Becomes(c, {IF s.loop = "writing" THEN Breaks(s) ELSE [s EXCEPT !.loop = "off"]})

\* 'close': the connection is forgotten, its operation is not.
Closes(c) ==
  /\ conn[c].on
  /\ conn' = [conn EXCEPT ![c] = Out]
  /\ detached' = detached + conn[c].ops
  /\ UNCHANGED <<phase, tokens, operator>>

\* The idle timer: it looks at the last data, not at what is being served.
IdleFires(c) ==
  /\ conn[c].timer
  /\ Becomes(c, {IF Dead(conn[c]) THEN [conn[c] EXCEPT !.timer = FALSE] ELSE Destroyed(conn[c])})

\* The peer is known, or the wait for it is over.
PeerResolves(c) == conn[c].loop = "peer" /\ Becomes(c, Turns(conn[c]))

\* The operation settles first: its answer is written, unless it failed, is
\* too long or spent the connection's time.
OperationSettles(c) ==
  LET s == [conn[c] EXCEPT !.ops = @ - 1] IN
  /\ conn[c].ops > 0
  /\ Becomes(c, IF s.loop # "running" THEN {s}
                ELSE IF Dead(s) THEN {Leaves(s)}
                ELSE {Breaks(s), [s EXCEPT !.loop = "writing"]})

RequestTimesOutGoesOn(c) ==
  conn[c].loop = "running" /\ Becomes(c, Turns([conn[c] EXCEPT !.loop = "off"]))

\* The timeout wins: the connection is destroyed, the operation runs on.
RequestTimesOut(c) == conn[c].loop = "running" /\ Becomes(c, {Breaks(conn[c])})

WrittenOnce(c) == conn[c].loop = "writing" /\ Becomes(c, {Leaves(conn[c])})

Written(c) == conn[c].loop = "writing" /\ Becomes(c, {Breaks(conn[c])} \cup Turns(conn[c]))

DetachedSettles ==
  /\ detached > 0
  /\ detached' = detached - 1
  /\ UNCHANGED <<phase, tokens, conn, operator>>
-----------------------------------------------------------------------------
(* The operator's socket: one request on each connection.                  *)

Serves(o, s) ==
  /\ operator' = [operator EXCEPT ![o] = s]
  /\ UNCHANGED <<phase, tokens, conn, detached>>

OperatorConnects(o) ==
  /\ OperatorListening
  /\ operator[o] = NoOperator
  /\ Serves(o, [socket |-> "idle", work |-> "none"])

\* The first complete frame: from here on shutdown does not drop the socket.
TakesFrame(o) ==
  /\ operator[o].socket = "idle"
  /\ Serves(o, [socket |-> "busy", work |-> "waiting"])

\* The peer is resolved and the request is allowed, its client may have left.
Handles(o) ==
  /\ operator[o].work = "waiting"
  /\ Serves(o, [operator[o] EXCEPT !.work = "handling"])

\* An unknown peer, a malformed or refused request, or the handler's end.
WorkSettles(o) ==
  /\ operator[o].work # "none"
  /\ Serves(o, [operator[o] EXCEPT !.work = "none"])

\* The client leaves, the idle window or the lifetime cap ends the socket: the
\* handler runs on.
SocketCloses(o) ==
  /\ operator[o].socket # "none"
  /\ Serves(o, [operator[o] EXCEPT !.socket = "none"])
-----------------------------------------------------------------------------
(* Start and shutdown.                                                     *)

\* The socket's group is applied and verified, or the start is given up.
StartsAccepting ==
  /\ phase = "binding"
  /\ phase' \in {"opening", "abandoned"}
  /\ UNCHANGED <<tokens, conn, detached, operator>>

\* The operator's socket is bound, or the start fails: the server is closed
\* for newcomers and goes on serving those it has.
OpensOperatorSocket ==
  /\ phase = "opening"
  /\ phase' \in {"serving", "failing"}
  /\ UNCHANGED <<tokens, conn, detached, operator>>

\* nookd cleans up as soon as the last connection is gone.
StartFails ==
  /\ phase = "failing"
  /\ connections = {}
  /\ phase' = "abandoned"
  /\ UNCHANGED <<tokens, conn, detached, operator>>

ShutsDownPolitely ==
  /\ phase = "serving"
  /\ phase' = "loops"
  /\ tokens' = 0
  /\ UNCHANGED <<conn, detached, operator>>

\* shutdown(): every connection is destroyed.
ShutsDown ==
  /\ phase = "serving"
  /\ phase' = "loops"
  /\ conn' = [c \in Conns |-> IF conn[c].on THEN Destroyed(conn[c]) ELSE conn[c]]
  /\ tokens' = 0
  /\ UNCHANGED <<detached, operator>>

\* The server has closed; the wait for the loops is bounded, and a loop ends
\* with its connection.  operatorServer.close() drops who sent no request.
ClosesOperators ==
  /\ phase = "loops"
  /\ connections = {}
  /\ phase' = "operators"
  /\ operator' = [o \in Operators |-> IF operator[o].socket = "idle" THEN NoOperator ELSE operator[o]]
  /\ UNCHANGED <<tokens, conn, detached>>

\* The operator's sockets are closed and its handlers have settled.  When the
\* path of the daemon's own socket cannot be unlinked, the rest of shutdown()
\* is skipped, the wait for the operations included, and nookd cleans up.
OperatorsClosed ==
  /\ phase = "operators"
  /\ \A o \in Operators : operator[o] = NoOperator
  /\ phase' \in {"draining", "abandoned"}
  /\ UNCHANGED <<tokens, conn, detached, operator>>

ReleasesRuntimeAtOnce ==
  /\ phase = "draining"
  /\ phase' = "released"
  /\ UNCHANGED <<tokens, conn, detached, operator>>

\* No operation is left: runtime.cleanup().
ReleasesRuntime ==
  /\ phase = "draining"
  /\ detached = 0
  /\ phase' = "released"
  /\ UNCHANGED <<tokens, conn, detached, operator>>

\* The waits of a connection that a timer ends.  The write of an answer is not
\* one of them.
Loop(c) == PeerResolves(c) \/ RequestTimesOut(c) \/ IdleFires(c)

Next ==
  \/ \E c \in Conns :
       \/ Connects(c) \/ Receives(c) \/ HalfCloses(c) \/ Errs(c) \/ Closes(c)
       \/ IdleFires(c) \/ PeerResolves(c) \/ OperationSettles(c)
       \/ RequestTimesOut(c) \/ Written(c)
  \/ \E o \in Operators :
       \/ OperatorConnects(o) \/ TakesFrame(o) \/ Handles(o) \/ WorkSettles(o) \/ SocketCloses(o)
  \/ Refills \/ DetachedSettles
  \/ StartsAccepting \/ OpensOperatorSocket \/ StartFails
  \/ ShutsDown \/ ClosesOperators \/ OperatorsClosed \/ ReleasesRuntime

Spec == Init /\ [][Next]_vars

\* Timers fire, a destroyed or failed socket closes, and operations settle.
\* Nothing is assumed of the clients: they need not send, read or leave.
FairSpec ==
  /\ Spec
  /\ \A c \in Conns :
       /\ WF_vars(Loop(c))
       /\ WF_vars(OperationSettles(c))
       /\ WF_vars(Dead(conn[c]) /\ Closes(c))
  /\ \A o \in Operators :
       /\ WF_vars(WorkSettles(o))
       /\ WF_vars(SocketCloses(o))
  /\ WF_vars(DetachedSettles)
  /\ WF_vars(ClosesOperators) /\ WF_vars(OperatorsClosed) /\ WF_vars(ReleasesRuntime)
  /\ WF_vars(StartFails)
-----------------------------------------------------------------------------
(* Properties.                                                             *)

ConnStates ==
  [on : BOOLEAN, loop : Loops, frames : 0..FrameBound, handled : 0..MaxRequests, ops : 0..1,
   waited : BOOLEAN, timer : BOOLEAN, ended : BOOLEAN, closing : BOOLEAN, closed : BOOLEAN]

\* Every variable holds a value of its kind; in particular a connection runs
\* one operation at a time, so its requests take effect in their order.
ServerTypeOK ==
  /\ phase \in Phases
  /\ tokens \in 0..Burst
  /\ conn \in [Conns -> ConnStates]
  /\ detached \in Nat
  /\ operator \in [Operators -> [socket : {"none", "idle", "busy"},
                                 work : {"none", "waiting", "handling"}]]

\* Connections and the operations that outlived theirs are bounded together:
\* a client that comes back after each timeout cannot pile up operations.
OperationsAreBounded == Cardinality(connections) + detached <= MaxConnections

\* A complete frame on a connection that is open is being served: no wake-up
\* is lost between the loop's last look and the next data.
NoFrameIsStranded ==
  \A c \in connections : ~Dead(conn[c]) /\ conn[c].frames > 0 => conn[c].loop # "off"

\* Whoever says nothing is watched by the idle timer, and whoever half-closed
\* is gone once served.
SilenceIsWatched ==
  \A c \in connections : ~Dead(conn[c]) /\ conn[c].loop = "off" =>
    conn[c].timer /\ ~conn[c].ended

Begins(c) == conn'[c].ops > conn[c].ops

\* Past the beginning of shutdown no request of the daemon's socket begins.
NoLateOperation ==
  [][\A c \in Conns : Begins(c) =>
       phase \notin {"loops", "operators", "draining", "released"}]_vars

\* The runtime and its database are released once, when every operation of a
\* connection that is there and every operator's handler has settled, and none
\* begins after that.  A shutdown that runs to its end has waited for the
\* operations that outlived their connection too; a failed start, or a socket
\* that cannot be unlinked, has not.
InUse == (\E c \in Conns : conn[c].ops > 0) \/ InFlight # {}
Lease == INSTANCE RuntimeLease WITH
  inUse <- InUse,
  orphans <- detached > 0,
  released <- CASE phase = "released" -> "cleanly" [] phase = "abandoned" -> "early" [] OTHER -> "no"
ReleasedWhenUnused == Lease!LeaseSpec

\* Every connection's place comes back, unless a client that half-closed
\* leaves its answer unread for ever: no timer watches that one.
Unread(c) == conn[c].ended /\ conn[c].loop = "writing"
PlacesComeBack == \A c \in Conns : conn[c].on ~> (~conn[c].on \/ []Unread(c))

\* Shutdown ends, and the runtime is cleaned up one way or the other, if the
\* operations settle.
ShutdownEnds == phase = "loops" ~> phase \in {"released", "abandoned"}
=============================================================================
