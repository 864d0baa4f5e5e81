-------------------------- MODULE WebSocketManager --------------------------
(***************************************************************************)
(* The connection lifecycle of WebSocketManager (websocket.go): connecting *)
(* on demand, reconnecting with backoff, explicit Reconnect / Disconnect,  *)
(* and the gapless rotation that warms a second socket and promotes it.    *)
(*                                                                         *)
(* Every goroutine that reads a socket is a member of Loops: a connectLoop *)
(* (started by EnsureConnected and Reconnect) or a serveHandoff (started   *)
(* by RotateConnection), which turns into a connectLoop once promoted. A   *)
(* handoff object h belongs to exactly one serveHandoff goroutine, so h is *)
(* named by that goroutine. An action is one critical section of m.mu, or  *)
(* one blocking call (dial, read, write, sleep) between two of them.       *)
(* Closing a socket is done in the critical section that decides it: the   *)
(* close only wakes the goroutine reading that socket, and what that       *)
(* goroutine does next is decided by the section, not by the close.        *)
(***************************************************************************)
EXTENDS Integers, FiniteSets

CONSTANTS
    Loops,          \* identities of socket-reading goroutines
    Conns,          \* identities of sockets
    None,           \* Go's nil, for sockets and handoffs
    AutoRotate,     \* TRUE iff cfg.lifetime > 0: rotations are scheduled
    MaxAttempts,    \* wsPromoteMaxAttempts
    MaxPending,     \* bound: requests awaiting a reply at once
    MaxFaults,      \* bound: network failures in a behaviour
    FaultKinds,     \* the failures the network may produce
    MaxGen          \* bound: the generation past which no goroutine starts

AllFaults == {"dial", "write", "drop", "error"}

ASSUME ConstantsOK ==
    /\ None \notin Loops
    /\ None \notin Conns
    /\ AutoRotate \in BOOLEAN
    /\ MaxAttempts \in Nat
    /\ MaxPending \in Nat
    /\ MaxFaults \in Nat
    /\ MaxGen \in Nat
    /\ FaultKinds \subseteq AllFaults

VARIABLES
    conn,           \* m.conn, the socket consumers are served from
    status,         \* m.status
    shouldConnect,  \* m.shouldConnect
    connecting,     \* m.connecting, the connect-loop slot
    gen,            \* m.gen
    handoff,        \* m.handoffState: the warming goroutine, or None
    rotationTimer,  \* the timer behind m.rotationTimer has yet to fire
    pending,        \* len(m.pending)
    pc,             \* where each goroutine is
    own,            \* the generation a goroutine serves (h.newGen); 0 if none
    base,           \* the generation a serveHandoff was started under
    lconn,          \* a goroutine's local variable conn
    hconn,          \* h.conn
    attempts,       \* h.attempts
    timeout,        \* h.timeout: off, armed, or fired and waiting for m.mu
    promote,        \* the handoffs whose h.promote is armed
    sched,          \* a timer goroutine's call of scheduleRotation, under way
    open,           \* sockets on which a read can still succeed
    faults          \* network failures so far

mgr == <<conn, status, shouldConnect, connecting, gen>>
rot == <<handoff, rotationTimer, attempts, timeout, promote, sched>>
loc == <<pc, own, base, lconn, hconn>>
env == <<pending, open, faults>>
vars == <<mgr, rot, loc, env>>

Statuses == {"connecting", "connected", "disconnected"}

ConnectPCs == {"begin", "dial", "install", "read", "handle", "arm", "serve", "end"}
WarmingPCs == {"warmDial", "warmInstall", "warmRead", "warmPong"}
WarmedPCs == {"warmArm", "warmed", "warmErr", "warmFail", "warmClear", "retry"}
PCs == {"idle"} \cup ConnectPCs \cup WarmingPCs \cup WarmedPCs

(* One type invariant for the module: the shape of the manager's fields,   *)
(* of the rotation's, of each goroutine's locals and of the environment.   *)
MgrOK ==
    /\ conn \in Conns \cup {None}
    /\ status \in Statuses
    /\ shouldConnect \in BOOLEAN
    /\ connecting \in BOOLEAN
    /\ gen \in Nat
RotOK ==
    /\ handoff \in Loops \cup {None}
    /\ rotationTimer \in BOOLEAN
    /\ attempts \in [Loops -> Nat]
    /\ timeout \in [Loops -> {"off", "armed", "fired"}]
    /\ promote \in SUBSET Loops
    /\ sched \in [Loops -> {"none", "next", "retry"}]
LocOK ==
    /\ pc \in [Loops -> PCs]
    /\ own \in [Loops -> Nat]
    /\ base \in [Loops -> Nat]
    /\ lconn \in [Loops -> Conns \cup {None}]
    /\ hconn \in [Loops -> Conns \cup {None}]
EnvOK ==
    /\ pending \in Nat
    /\ open \in SUBSET Conns
    /\ faults \in Nat
TypeOK == MgrOK /\ RotOK /\ LocOK /\ EnvOK

(* newWebSocketManager: nothing is connected until the first use. *)
Init ==
    /\ conn = None
    /\ status = "disconnected"
    /\ shouldConnect = FALSE
    /\ connecting = FALSE
    /\ gen = 0
    /\ handoff = None
    /\ rotationTimer = FALSE
    /\ pending = 0
    /\ pc = [p \in Loops |-> "idle"]
    /\ own = [p \in Loops |-> 0]
    /\ base = [p \in Loops |-> 0]
    /\ lconn = [p \in Loops |-> None]
    /\ hconn = [p \in Loops |-> None]
    /\ attempts = [p \in Loops |-> 0]
    /\ timeout = [p \in Loops |-> "off"]
    /\ promote = {}
    /\ sched = [p \in Loops |-> "none"]
    /\ open = {}
    /\ faults = 0

-----------------------------------------------------------------------------
(* Helpers.                                                                *)

(* A goroutine (and handoff) identity nothing refers to any more. *)
Free(p) ==
    /\ pc[p] = "idle"
    /\ handoff # p
    /\ timeout[p] = "off"
    /\ p \notin promote
    /\ sched[p] = "none"

(* A socket identity nothing refers to any more. *)
Fresh(c) ==
    /\ c \notin open
    /\ c # conn
    /\ \A p \in Loops : lconn[p] # c /\ hconn[p] # c

(* Mutants of Superseded: the fence forgotten, or on the intent alone. *)
MutNeverSuperseded(p) == FALSE
MutIntentOnly(p) == ~shouldConnect

(* The test every step of a connectLoop makes under m.mu. *)
Superseded(p) == ~shouldConnect \/ gen # own[p]

Goto(p, label) == pc' = [pc EXCEPT ![p] = label]

(* The goroutine returns: its locals are gone. *)
Exit(p) ==
    /\ Goto(p, "idle")
    /\ own' = [own EXCEPT ![p] = 0]
    /\ lconn' = [lconn EXCEPT ![p] = None]
    /\ hconn' = [hconn EXCEPT ![p] = None]
    /\ base' = [base EXCEPT ![p] = 0]

(* stopHandoffTimersLocked. A timer that has fired cannot be stopped any   *)
(* more. A promote timer that has fired finds the handoff gone and returns,*)
(* so stopping it is modelled as its end.                                  *)
StopHandoffTimers(h) ==
    /\ timeout' = [p \in Loops |-> IF p = h /\ timeout[p] = "armed" THEN "off" ELSE timeout[p]]
    /\ promote' = promote \ {h}

(* takeHandoffLocked. *)
TakeHandoff ==
    /\ handoff' = None
    /\ StopHandoffTimers(handoff)

(* Mutant of Warming: the taken socket is not handed to closeConn. *)
MutWarmingForgotten == {}

(* The socket takeHandoffLocked returns, as a set. *)
Warming == {hconn[p] : p \in {q \in Loops : q = handoff}}

(* What abortHandoffIf(h) does when it returns true. *)
AbortHandoff(h) ==
    /\ handoff = h
    /\ handoff' = None
    /\ StopHandoffTimers(h)
    /\ open' = open \ {hconn[h]}

(* A network failure of a kind the environment allows. *)
Fault(kind) ==
    /\ kind \in FaultKinds
    /\ faults < MaxFaults
    /\ faults' = faults + 1

-----------------------------------------------------------------------------
(* The public operations.                                                  *)

(* go m.connectLoop(gen + 1). *)
StartLoop(p) ==
    /\ Free(p)
    /\ gen < MaxGen
    /\ gen' = gen + 1
    /\ connecting' = TRUE
    /\ own' = [own EXCEPT ![p] = gen + 1]
    /\ Goto(p, "begin")

(* A call that finds a loop running only records the intent to connect,    *)
(* which is a stutter unless the intent was withdrawn.                     *)
EnsureConnected(p) ==
    /\ ~(shouldConnect /\ (connecting \/ status = "connected"))
    /\ shouldConnect' = TRUE
    /\ IF connecting
       THEN UNCHANGED <<connecting, gen, pc, own>>
       ELSE StartLoop(p)
    /\ UNCHANGED <<conn, status, rot, base, lconn, hconn, env>>

Reconnect(p) ==
    /\ shouldConnect
    /\ StartLoop(p)
    /\ conn' = None
    /\ rotationTimer' = FALSE
    /\ TakeHandoff
    /\ open' = open \ (Warming \cup {conn})
    /\ UNCHANGED <<status, shouldConnect, attempts, sched, base, lconn, hconn,
                   pending, faults>>

Disconnect ==
    /\ gen < MaxGen
    /\ shouldConnect' = FALSE
    /\ connecting' = FALSE
    /\ gen' = gen + 1
    /\ conn' = None
    /\ rotationTimer' = FALSE
    /\ TakeHandoff
    /\ status' = "disconnected"
    /\ open' = open \ (Warming \cup {conn})
    /\ UNCHANGED <<attempts, sched, loc, pending, faults>>

(* RotateConnection's early return. *)
CanRotate ==
    /\ shouldConnect
    /\ handoff = None
    /\ status = "connected"
    /\ conn # None

(* Mutant of ArmTimeout: the half-built handoff goes unwatched. *)
MutNoTimeout(p) == UNCHANGED timeout

ArmTimeout(p) == timeout' = [timeout EXCEPT ![p] = "armed"]

(* The rest of it: a new handoff, its timeout armed, go m.serveHandoff. *)
StartHandoff(p) ==
    /\ Free(p)
    /\ gen < MaxGen
    /\ handoff' = p
    /\ attempts' = [attempts EXCEPT ![p] = 0]
    /\ ArmTimeout(p)
    /\ base' = [base EXCEPT ![p] = gen]
    /\ Goto(p, "warmDial")
    /\ UNCHANGED <<promote, sched, own, lconn, hconn, mgr, env>>

(* A caller rotates by hand. This is also the rotation timer that had      *)
(* fired before it was cancelled.                                          *)
RotateConnection(p) ==
    /\ CanRotate
    /\ StartHandoff(p)
    /\ UNCHANGED rotationTimer

RotationTimerFires(p) ==
    /\ rotationTimer
    /\ rotationTimer' = FALSE
    /\ IF CanRotate
       THEN StartHandoff(p)
       ELSE UNCHANGED <<handoff, attempts, timeout, promote, sched, loc, mgr, env>>

-----------------------------------------------------------------------------
(* connectLoop: beginAttempt, dialAndServe, endAttempt.                    *)

(* Mutant of OwnsSlot: any loop that returns frees the slot. *)
MutOwnsSlot(p) == TRUE

(* The condition of clearConnectingLocked(own[p]). *)
OwnsSlot(p) == gen = own[p]

(* clearConnectingLocked, and the loop returns. *)
LeaveLoop(p) ==
    /\ connecting' = (connecting /\ ~OwnsSlot(p))
    /\ Exit(p)
    /\ UNCHANGED status

BeginAttempt(p) ==
    /\ pc[p] = "begin"
    /\ \/ /\ Superseded(p)
          /\ LeaveLoop(p)
       \/ /\ ~Superseded(p)
          /\ status' = "connecting"
          /\ Goto(p, "dial")
          /\ UNCHANGED <<connecting, own, base, lconn, hconn>>
    /\ UNCHANGED <<conn, shouldConnect, gen, rot, env>>

Dial(p, c) ==
    /\ pc[p] = "dial"
    /\ Fresh(c)
    /\ open' = open \cup {c}
    /\ lconn' = [lconn EXCEPT ![p] = c]
    /\ Goto(p, "install")
    /\ UNCHANGED <<mgr, rot, own, base, hconn, pending, faults>>

DialFails(p) ==
    /\ pc[p] = "dial"
    /\ Fault("dial")
    /\ Goto(p, "end")
    /\ UNCHANGED <<mgr, rot, own, base, lconn, hconn, pending, open>>

(* The dialled socket becomes m.conn unless a newer generation exists. *)
Install(p) ==
    /\ pc[p] = "install"
    /\ \/ /\ Superseded(p)
          /\ open' = open \ {lconn[p]}
          /\ Goto(p, "end")
          /\ UNCHANGED conn
       \/ /\ ~Superseded(p)
          /\ conn' = lconn[p]
          /\ Goto(p, "read")
          /\ UNCHANGED open
    /\ UNCHANGED <<status, shouldConnect, connecting, gen, rot,
                   own, base, lconn, hconn, pending, faults>>

(* The auth frame is written and its answer awaited at "read". Unlike a    *)
(* read error, a failed write leaves m.conn in place.                      *)
WriteAuthFails(p) ==
    /\ pc[p] = "read"
    /\ \/ Fault("write")
       \/ lconn[p] \notin open /\ UNCHANGED faults
    /\ open' = open \ {lconn[p]}
    /\ Goto(p, "end")
    /\ UNCHANGED <<mgr, rot, own, base, lconn, hconn, pending>>

(* The read loop's test of a message it has read. *)
Current(p) == gen = own[p] /\ conn = lconn[p]

(* The "authenticated" frame is read and found current... *)
ReadAuthenticated(p) ==
    /\ pc[p] = "read"
    /\ lconn[p] \in open
    /\ Current(p)
    /\ Goto(p, "handle")
    /\ UNCHANGED <<mgr, rot, own, base, lconn, hconn, env>>

(* ...and handled in a critical section of its own. onAuthenticated does   *)
(* not look at the generation again.                                       *)
OnAuthenticated(p) ==
    /\ pc[p] = "handle"
    /\ status' = "connected"
    /\ Goto(p, "arm")
    /\ UNCHANGED <<conn, shouldConnect, connecting, gen, rot,
                   own, base, lconn, hconn, env>>

(* scheduleRotation(0), after the subscriptions were re-issued. *)
Arm(p) ==
    /\ pc[p] = "arm"
    /\ rotationTimer' = AutoRotate
    /\ Goto(p, "serve")
    /\ UNCHANGED <<mgr, handoff, attempts, timeout, promote, sched,
                   own, base, lconn, hconn, env>>

(* A read fails: the socket is closed and given up if it is m.conn. *)
ReadFails(p) ==
    /\ pc[p] \in {"read", "serve"}
    /\ lconn[p] \notin open
    /\ conn' = IF conn = lconn[p] THEN None ELSE conn
    /\ Goto(p, "end")
    /\ UNCHANGED <<status, shouldConnect, connecting, gen, rot,
                   own, base, lconn, hconn, env>>

(* A read returns a message of a connection that is no longer current. *)
ReadStale(p) ==
    /\ pc[p] \in {"read", "serve"}
    /\ ~Current(p)
    /\ open' = open \ {lconn[p]}
    /\ Goto(p, "end")
    /\ UNCHANGED <<mgr, rot, own, base, lconn, hconn, pending, faults>>

(* The loss of the served connection. The backoff that follows a return of *)
(* true only delays "begin".                                               *)
EndAttempt(p) ==
    /\ pc[p] = "end"
    /\ \/ /\ Superseded(p)
          /\ LeaveLoop(p)
          /\ UNCHANGED <<handoff, rotationTimer, timeout, promote, pending, open>>
       \/ /\ ~Superseded(p)
          /\ rotationTimer' = FALSE
          /\ TakeHandoff
          /\ open' = open \ Warming
          /\ status' = "disconnected"
          /\ pending' = 0
          /\ Goto(p, "begin")
          /\ lconn' = [lconn EXCEPT ![p] = None]
          /\ hconn' = [hconn EXCEPT ![p] = None]
          /\ UNCHANGED <<connecting, own, base>>
    /\ UNCHANGED <<conn, shouldConnect, gen, attempts, sched, faults>>

-----------------------------------------------------------------------------
(* serveHandoff: warmAndServe, handleWarmMessage, promoteHandoff.          *)

WarmDial(p, c) ==
    /\ pc[p] = "warmDial"
    /\ Fresh(c)
    /\ open' = open \cup {c}
    /\ lconn' = [lconn EXCEPT ![p] = c]
    /\ Goto(p, "warmInstall")
    /\ UNCHANGED <<mgr, rot, own, base, hconn, pending, faults>>

WarmDialFails(p) ==
    /\ pc[p] = "warmDial"
    /\ Fault("dial")
    /\ Goto(p, "warmFail")
    /\ UNCHANGED <<mgr, rot, own, base, lconn, hconn, pending, open>>

WarmInstall(p) ==
    /\ pc[p] = "warmInstall"
    /\ LET superseded == handoff # p \/ ~shouldConnect \/ gen # base[p]
       IN  \/ /\ superseded
              /\ open' = open \ {lconn[p]}
              /\ Exit(p)
           \/ /\ ~superseded
              /\ hconn' = [hconn EXCEPT ![p] = lconn[p]]
              /\ Goto(p, "warmRead")
              /\ UNCHANGED <<open, own, base, lconn>>
    /\ UNCHANGED <<mgr, rot, pending, faults>>

WarmWriteAuthFails(p) ==
    /\ pc[p] = "warmRead"
    /\ \/ Fault("write")
       \/ lconn[p] \notin open /\ UNCHANGED faults
    /\ open' = open \ {lconn[p]}
    /\ Goto(p, "warmFail")
    /\ UNCHANGED <<mgr, rot, own, base, lconn, hconn, pending>>

(* The read loop's verdicts, taken under m.mu after every read. *)
Promoted(p) == conn = lconn[p]
Mine(p) == handoff = p

(* The server has answered "authenticated", upon which the subscriptions   *)
(* were re-issued and a ping queued behind them, and now "pong":           *)
(* clearHandoffTimeout, then promoteHandoff.                               *)
WarmPong(p) ==
    /\ pc[p] = "warmRead"
    /\ lconn[p] \in open
    /\ Mine(p) /\ ~Promoted(p)
    /\ timeout' = [timeout EXCEPT ![p] = IF @ = "armed" THEN "off" ELSE @]
    /\ Goto(p, "warmPong")
    /\ UNCHANGED <<mgr, handoff, rotationTimer, attempts, promote, sched,
                   own, base, lconn, hconn, env>>

(* "error": the server refuses; the abort follows. *)
WarmError(p) ==
    /\ pc[p] \in {"warmRead", "warmed"}
    /\ lconn[p] \in open
    /\ Mine(p) /\ ~Promoted(p)
    /\ Fault("error")
    /\ Goto(p, "warmErr")
    /\ UNCHANGED <<mgr, rot, own, base, lconn, hconn, pending, open>>

(* A read of the warming socket fails. Whether it had taken over is read   *)
(* once, here; the lock is released before the outcome is acted on.        *)
WarmReadFails(p) ==
    /\ pc[p] \in {"warmRead", "warmed"}
    /\ lconn[p] \notin open
    /\ Goto(p, IF Promoted(p) THEN "warmClear" ELSE "warmFail")
    /\ UNCHANGED <<mgr, rot, own, base, lconn, hconn, env>>

(* A read returns a message though another goroutine ended the handoff. *)
WarmReadStale(p) ==
    /\ pc[p] \in {"warmRead", "warmed"}
    /\ ~Mine(p) /\ ~Promoted(p)
    /\ open' = open \ {lconn[p]}
    /\ Exit(p)
    /\ UNCHANGED <<mgr, rot, pending, faults>>

(* A promoted socket was lost: serveHandoff goes on as a connectLoop. *)
ClearPromoted(p) ==
    /\ pc[p] = "warmClear"
    /\ conn' = IF Promoted(p) THEN None ELSE conn
    /\ Goto(p, "end")
    /\ UNCHANGED <<status, shouldConnect, connecting, gen, rot,
                   own, base, lconn, hconn, env>>

(* abortHandoffIf after a failed dial, write or read. *)
AbortFailed(p) ==
    /\ pc[p] = "warmFail"
    /\ \/ /\ AbortHandoff(p)
          /\ Goto(p, "retry")
          /\ UNCHANGED <<own, base, lconn, hconn>>
       \/ /\ handoff # p
          /\ Exit(p)
          /\ UNCHANGED <<handoff, timeout, promote, open>>
    /\ UNCHANGED <<mgr, rotationTimer, attempts, sched, pending, faults>>

(* abortHandoffIf after a refusal. Aborting closes the socket, so the read *)
(* loop it returns to can only fail and return.                            *)
AbortRefused(p) ==
    /\ pc[p] = "warmErr"
    /\ \/ /\ AbortHandoff(p)
          /\ Goto(p, "retry")
       \/ /\ handoff # p
          /\ Goto(p, "warmed")
          /\ UNCHANGED <<handoff, timeout, promote, open>>
    /\ UNCHANGED <<mgr, rotationTimer, attempts, sched,
                   own, base, lconn, hconn, pending, faults>>

(* Mutant of ScheduleRetry: a failed handoff is not tried again. *)
MutNoRetry == UNCHANGED rotationTimer

(* scheduleRotation(wsHandoffRetry): a delay arms whatever AutoRotate says. *)
ScheduleRetry == rotationTimer' = TRUE

Retry(p) ==
    /\ pc[p] = "retry"
    /\ ScheduleRetry
    /\ Exit(p)
    /\ UNCHANGED <<mgr, handoff, attempts, timeout, promote, sched, env>>

(* promoteHandoff finds requests unanswered and puts itself off. *)
PutOff(p) ==
    /\ pending > 0
    /\ attempts[p] < MaxAttempts
    /\ attempts' = [attempts EXCEPT ![p] = @ + 1]
    /\ promote' = promote \cup {p}
    /\ UNCHANGED <<mgr, handoff, timeout, own, open>>

(* Mutant of PromotedGen: h.newGen taken before m.gen is bumped. *)
MutStaleGen == gen

(* h.newGen. *)
PromotedGen == gen + 1

(* promoteHandoff moves delivery to the warmed socket, under a generation  *)
(* of its own.                                                             *)
TakeOver(p) ==
    /\ ~(pending > 0 /\ attempts[p] < MaxAttempts)
    /\ conn' = hconn[p]
    /\ gen' = gen + 1
    /\ connecting' = TRUE
    /\ own' = [own EXCEPT ![p] = PromotedGen]
    /\ StopHandoffTimers(p)
    /\ handoff' = None
    /\ open' = open \ {conn}
    /\ UNCHANGED <<status, shouldConnect, attempts>>

(* promoteHandoff's early return. *)
CanPromote(p) == handoff = p /\ hconn[p] # None

PromoteOnPong(p) ==
    /\ pc[p] = "warmPong"
    /\ \/ /\ ~CanPromote(p)
          /\ Goto(p, "warmed")
          /\ UNCHANGED <<mgr, handoff, attempts, timeout, promote, own, open>>
       \/ CanPromote(p) /\ PutOff(p) /\ Goto(p, "warmed")
       \/ CanPromote(p) /\ TakeOver(p) /\ Goto(p, "warmArm")
    /\ UNCHANGED <<rotationTimer, sched, base, lconn, hconn, pending, faults>>

(* The retry promoteHandoff left behind, on the timer's own goroutine. It  *)
(* goes on to scheduleRotation(0).                                         *)
PromoteOnTimer(p) ==
    /\ p \in promote
    /\ CanPromote(p)
    /\ \/ PutOff(p) /\ UNCHANGED sched
       \/ TakeOver(p) /\ sched' = [sched EXCEPT ![p] = "next"]
    /\ UNCHANGED <<rotationTimer, pc, base, lconn, hconn, pending, faults>>

(* scheduleRotation(0) after a promotion on the read goroutine. *)
WarmArm(p) ==
    /\ pc[p] = "warmArm"
    /\ rotationTimer' = AutoRotate
    /\ Goto(p, "warmed")
    /\ UNCHANGED <<mgr, handoff, attempts, timeout, promote, sched,
                   own, base, lconn, hconn, env>>

(* The handoff timeout fires... *)
HandoffTimeoutFires(p) ==
    /\ timeout[p] = "armed"
    /\ timeout' = [timeout EXCEPT ![p] = "fired"]
    /\ UNCHANGED <<mgr, handoff, rotationTimer, attempts, promote, sched, loc, env>>

(* ...and gets m.mu: abortHandoffIf(h). *)
HandoffTimeoutRuns(p) ==
    /\ timeout[p] = "fired"
    /\ timeout' = [timeout EXCEPT ![p] = "off"]
    /\ \/ /\ handoff = p
          /\ handoff' = None
          /\ promote' = promote \ {p}
          /\ open' = open \ {hconn[p]}
          /\ sched' = [sched EXCEPT ![p] = "retry"]
       \/ /\ handoff # p
          /\ UNCHANGED <<handoff, promote, open, sched>>
    /\ UNCHANGED <<mgr, rotationTimer, attempts, loc, pending, faults>>

(* scheduleRotation on a timer's goroutine: 0 after a promotion, the retry *)
(* delay after a timeout.                                                  *)
ScheduleRotation(p) ==
    /\ sched[p] # "none"
    /\ rotationTimer' = (sched[p] = "retry" \/ AutoRotate)
    /\ sched' = [sched EXCEPT ![p] = "none"]
    /\ UNCHANGED <<mgr, handoff, attempts, timeout, promote, loc, env>>

-----------------------------------------------------------------------------
(* The environment.                                                        *)

(* The network or the server ends a socket. *)
Drop(c) ==
    /\ c \in open
    /\ Fault("drop")
    /\ open' = open \ {c}
    /\ UNCHANGED <<mgr, rot, loc, pending>>

(* registerPending and resolvePending, by requests of any kind. *)
RegisterPending ==
    /\ pending < MaxPending
    /\ pending' = pending + 1
    /\ UNCHANGED <<mgr, rot, loc, open, faults>>

(* Mutant of ResolvePending: an answer nobody waits for counts too. *)
MutResolveUnknown ==
    /\ pending' = pending - 1
    /\ UNCHANGED <<mgr, rot, loc, open, faults>>

ResolvePending ==
    /\ pending > 0
    /\ pending' = pending - 1
    /\ UNCHANGED <<mgr, rot, loc, open, faults>>

-----------------------------------------------------------------------------
UserStep(p) ==
    \/ EnsureConnected(p)
    \/ Reconnect(p)
    \/ RotateConnection(p)

ConnectStep(p) ==
    \/ BeginAttempt(p)
    \/ \E c \in Conns : Dial(p, c)
    \/ DialFails(p)
    \/ Install(p)
    \/ WriteAuthFails(p)
    \/ ReadAuthenticated(p)
    \/ OnAuthenticated(p)
    \/ Arm(p)
    \/ ReadFails(p)
    \/ ReadStale(p)
    \/ EndAttempt(p)

WarmStep(p) ==
    \/ \E c \in Conns : WarmDial(p, c)
    \/ WarmDialFails(p)
    \/ WarmInstall(p)
    \/ WarmWriteAuthFails(p)
    \/ WarmError(p)
    \/ WarmReadFails(p)
    \/ WarmReadStale(p)
    \/ ClearPromoted(p)
    \/ AbortFailed(p)
    \/ AbortRefused(p)
    \/ Retry(p)
    \/ PromoteOnPong(p)
    \/ WarmArm(p)

TimerStep(p) ==
    \/ RotationTimerFires(p)
    \/ PromoteOnTimer(p)
    \/ HandoffTimeoutFires(p)
    \/ HandoffTimeoutRuns(p)
    \/ ScheduleRotation(p)

EnvStep ==
    \/ \E c \in Conns : Drop(c)
    \/ RegisterPending
    \/ ResolvePending

Next ==
    \/ \E p \in Loops : UserStep(p) \/ ConnectStep(p) \/ TimerStep(p)
                        \/ WarmStep(p) \/ WarmPong(p)
    \/ Disconnect
    \/ EnvStep

Spec == Init /\ [][Next]_vars

(* A goroutine that can run does, a timer that is armed fires, and the     *)
(* server answers an auth frame on a socket that stays up. It need not     *)
(* answer the barrier ping: the handoff timeout is there for that. Callers *)
(* owe nothing, nor does the network.                                      *)
Fairness ==
    \A p \in Loops :
        /\ WF_vars(ConnectStep(p))
        /\ WF_vars(WarmStep(p))
        /\ WF_vars(PromoteOnTimer(p))
        /\ WF_vars(HandoffTimeoutFires(p))
        /\ WF_vars(HandoffTimeoutRuns(p))
        /\ WF_vars(ScheduleRotation(p))

LiveSpec == Spec /\ Fairness

-----------------------------------------------------------------------------
(* Correctness.                                                            *)

(* While a connection is wanted the connect-loop slot is taken, so that    *)
(* EnsureConnected never starts a second loop next to a live one: only the *)
(* generation that owns the slot releases it (clearConnectingLocked).      *)
SlotHeld == shouldConnect => connecting

(* No two goroutines serve the same generation, so at most one of them     *)
(* passes the generation test behind every reconnect decision.             *)
UniqueOwner ==
    \A p, q \in Loops : own[p] # 0 /\ own[p] = own[q] => p = q

(* After Disconnect no goroutine still at work brings a socket, a handoff  *)
(* or the connect slot back.                                               *)
DisconnectSticks == ~shouldConnect => conn = None /\ handoff = None /\ ~connecting

(* A socket stays open only while it is m.conn, warms for the current      *)
(* handoff, or was dialled by a goroutine that has yet to offer it: every  *)
(* path that supersedes a socket closes it.                                *)
NoLeakedSocket ==
    /\ \A c \in open : \E p \in Loops : lconn[p] = c
    /\ \A p \in Loops : lconn[p] \in open =>
            \/ conn = lconn[p]
            \/ handoff = p
            \/ pc[p] \in {"install", "warmInstall"}

(* A warming connection never hangs around: until it takes over or is      *)
(* abandoned, a timer or the promotion itself is due to decide it.         *)
HandoffBounded ==
    \A p \in Loops : handoff = p =>
        timeout[p] # "off" \/ p \in promote \/ pc[p] = "warmPong"

(* With a lifetime configured, a connection consumers are served from is   *)
(* always on its way to a rotation: the timer is armed, a handoff is under *)
(* way, or some goroutine is about to arm the timer.                       *)
RotationArmed ==
    /\ AutoRotate
    /\ status = "connected"
    /\ \E p \in Loops : pc[p] \in {"serve", "warmed"} /\ Current(p)
    =>
        \/ rotationTimer
        \/ handoff # None
        \/ \E p \in Loops : sched[p] # "none" \/ pc[p] \in {"arm", "warmArm", "retry"}

(* While a connection is wanted, some goroutine serves the current         *)
(* generation and will notice when its socket fails.                       *)
Attended == shouldConnect => \E p \in Loops : own[p] = gen

(* The only way to lose that goroutine: it had already seen its socket     *)
(* fail when the promote timer put that socket in place. It returns, for   *)
(* it believes it was not promoted (warmAndServe, promoted), and nobody is *)
(* left to notice: DeadPromoted lasts until Reconnect, Disconnect or, when *)
(* a lifetime is configured, the next rotation.                            *)
DeadPromoted == conn # None /\ conn \notin open /\ \A p \in Loops : own[p] # gen
AttendedOrDead == shouldConnect /\ conn \in open => \E p \in Loops : own[p] = gen

(* One goroutine per generation owns the connect loop (UniqueOwner,        *)
(* SlotHeld, AttendedOrDead), Disconnect is final, no socket is left open  *)
(* (NoLeakedSocket), and a handoff is bounded.                             *)
LifecycleSound ==
    /\ TypeOK
    /\ UniqueOwner
    /\ SlotHeld
    /\ AttendedOrDead
    /\ DisconnectSticks
    /\ NoLeakedSocket
    /\ HandoffBounded

(* endAttempt: once another generation has taken over, the old goroutine   *)
(* exits without touching the manager. What it was handling when that      *)
(* happened (onAuthenticated) is finished first.                           *)
InertStep ==
    \A p \in Loops :
        /\ own[p] \notin {0, gen}
        /\ pc[p] \notin {"handle", "arm", "warmArm"}
        /\ pc'[p] # pc[p]
        => UNCHANGED <<mgr, handoff, rotationTimer, pending>>
SupersededInert == [][InertStep]_vars

(* A live socket is replaced only by promotion: under a new generation, by *)
(* the socket of the current handoff, which has passed its barrier, and    *)
(* with the status left as it was.                                         *)
SwapStep ==
    conn' # None /\ conn' # conn /\ conn \in open =>
         /\ status' = status
         /\ gen' = gen + 1
         /\ \E p \in Loops :
                /\ handoff = p
                /\ hconn[p] = conn'
                /\ pc[p] \in {"warmPong", "warmed", "warmErr", "warmFail"}
SeamlessSwap == [][SwapStep]_vars

(* "reconnects forever" (websocket.go:93-94): a wanted connection is       *)
(* eventually served, by a goroutine that owns the current generation, or  *)
(* no longer wanted, once the network stops failing; except that the       *)
(* promote timer may put a socket in place that had already failed.        *)
Recovers ==
    shouldConnect ~>
        \/ conn \in open /\ \E p \in Loops : pc[p] \in {"serve", "warmed"} /\ Current(p)
        \/ ~shouldConnect
        \/ DeadPromoted

(* A handoff ends, by promotion or abandonment. *)
HandoffEnds == \A p \in Loops : handoff = p ~> handoff # p
=============================================================================
