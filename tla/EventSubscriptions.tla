------------------------- MODULE EventSubscriptions -------------------------
(***************************************************************************)
(* Realm events subscribed by type: subscribeEvents, unsubscribeEvents,    *)
(* sendWhenConnected, onAuthenticatedOnce and resubscribe (websocket.go),  *)
(* against what the server has registered on each connection.              *)
(*                                                                         *)
(* The reference count changes in one critical section of m.mu; the        *)
(* message that tells the server is written later, on the connection that  *)
(* is current when send looks. The connection lifecycle (in full in        *)
(* WebSocketManager) is reduced to what the messages meet: one goroutine   *)
(* that dials, re-subscribes, runs the deferred messages and reads until   *)
(* its socket fails, and a rotation that re-issues on a second socket and  *)
(* takes over. A message written to a dead socket is lost. overlap records *)
(* what the properties tell apart; no action reads it.                     *)
(***************************************************************************)
EXTENDS Naturals, FiniteSets

CONSTANTS
    Owners,        \* the callers that take and release references
    Types,         \* event types
    Reader,        \* the goroutine serving the connection, as a sender
    None,          \* no connection
    MaxConns,      \* bound: connections in a behaviour
    MaxRotations   \* bound: rotations in a behaviour

VARIABLES
    refs,      \* m.eventTypeSubs
    owned,     \* the types each caller holds a reference on
    opc,       \* where each sender is inside a call
    msg,       \* the message it has yet to write: [subscribe, types]
    target,    \* the connection send picked for it
    deferred,  \* type sets waiting in m.authList
    conn,      \* m.conn
    connected, \* m.status = StatusConnected
    rpc,       \* where the goroutine serving conn is
    rconn,     \* the connection that goroutine re-subscribes on
    snap,      \* the types resubscribe read
    due,       \* the callbacks onAuthenticated has yet to run
    warm,      \* the connection of the handoff under way
    wpc,       \* how far it is
    wsnap,     \* the types its resubscribe read
    used,      \* connections made so far
    alive,     \* the sockets that still carry messages
    rotations, \* rotations so far
    overlap,   \* calls overlapped each other or a handoff on this connection
    server     \* the types the server has registered on each connection

calls == <<refs, owned, opc, msg, target>>
auth == <<rpc, rconn, snap>>
rotation == <<warm, wpc, wsnap, rotations>>
net == <<used, alive, server>>
vars == <<calls, deferred, due, conn, connected, auth, rotation, net, overlap>>

Senders == Owners \cup {Reader}

ConnIds == 1..MaxConns
NoMsg == [subscribe |-> FALSE, types |-> {}]

(* One type invariant for the module. *)
TypeOK ==
    /\ refs \in [Types -> Nat]
    /\ owned \in [Owners -> SUBSET Types]
    /\ opc \in [Senders -> {"idle", "check", "defer", "send", "write"}]
    /\ msg \in [Senders -> [subscribe : BOOLEAN, types : SUBSET Types]]
    /\ target \in [Senders -> ConnIds \cup {None}]
    /\ deferred \in SUBSET SUBSET Types
    /\ due \in SUBSET SUBSET Types
    /\ conn \in ConnIds \cup {None}
    /\ connected \in BOOLEAN
    /\ rpc \in {"down", "auth", "snapshot", "write", "callbacks", "serve", "end"}
    /\ rconn \in ConnIds \cup {None}
    /\ snap \in SUBSET Types
    /\ warm \in ConnIds \cup {None}
    /\ wpc \in {"none", "snapshot", "write", "ready"}
    /\ wsnap \in SUBSET Types
    /\ used \in Nat
    /\ alive \in SUBSET ConnIds
    /\ rotations \in Nat
    /\ server \in [ConnIds -> SUBSET Types]
    /\ overlap \in BOOLEAN

Init ==
    /\ refs = [t \in Types |-> 0]
    /\ owned = [o \in Owners |-> {}]
    /\ opc = [o \in Senders |-> "idle"]
    /\ msg = [o \in Senders |-> NoMsg]
    /\ target = [o \in Senders |-> None]
    /\ deferred = {} /\ due = {}
    /\ conn = None /\ connected = FALSE
    /\ rpc = "down" /\ rconn = None /\ snap = {}
    /\ warm = None /\ wpc = "none" /\ wsnap = {} /\ rotations = 0
    /\ used = 0 /\ alive = {}
    /\ server = [c \in ConnIds |-> {}]
    /\ overlap = FALSE

-----------------------------------------------------------------------------
(* Callers.                                                                *)

Calling == {o \in Owners : opc[o] # "idle"}

(* A call begins, perhaps while another is under way or a socket warms. *)
BeginCall(o) ==
    /\ opc[o] = "idle"
    /\ overlap' = (overlap \/ Calling # {} \/ warm # None)

Move(o, label) == opc' = [opc EXCEPT ![o] = label]

(* The call returns. *)
Return(o) ==
    /\ Move(o, "idle")
    /\ msg' = [msg EXCEPT ![o] = NoMsg]
    /\ target' = [target EXCEPT ![o] = None]

(* The call goes on to send message m, or returns when it is about nothing. *)
Announce(o, m, label) ==
    IF m.types = {}
    THEN UNCHANGED <<opc, msg>>
    ELSE Move(o, label) /\ msg' = [msg EXCEPT ![o] = m]

(* The types of ts nobody held so far. *)
Added(ts) == {t \in ts : refs[t] = 0}

(* Mutant of Dropped: every release is announced, the last one or not. *)
MutDropped(ts) == ts

(* The types of ts whose last owner leaves. *)
Dropped(ts) == {t \in ts : refs[t] = 1}

(* m.eventTypeSubs with a reference more on each type of ts. *)
Counted(ts) == [t \in Types |-> IF t \in ts THEN refs[t] + 1 ELSE refs[t]]

(* subscribeEvents, up to the unlock. *)
SubscribeEvents(o, ts) ==
    /\ BeginCall(o)
    /\ ts # {} /\ ts \cap owned[o] = {}
    /\ refs' = Counted(ts)
    /\ owned' = [owned EXCEPT ![o] = @ \cup ts]
    /\ Announce(o, [subscribe |-> TRUE, types |-> Added(ts)], "check")
    /\ UNCHANGED <<target, deferred, due, conn, connected, auth, rotation, net>>

(* unsubscribeEvents, up to the unlock. *)
UnsubscribeEvents(o, ts) ==
    /\ BeginCall(o)
    /\ ts # {} /\ ts \subseteq owned[o]
    /\ refs' = [t \in Types |-> IF t \in ts THEN refs[t] - 1 ELSE refs[t]]
    /\ owned' = [owned EXCEPT ![o] = @ \ ts]
    /\ Announce(o, [subscribe |-> FALSE, types |-> Dropped(ts)], "send")
    /\ UNCHANGED <<target, deferred, due, conn, connected, auth, rotation, net>>

(* sendWhenConnected looks at the status... *)
SendWhenConnected(o) ==
    /\ opc[o] = "check"
    /\ Move(o, IF connected THEN "send" ELSE "defer")
    /\ UNCHANGED <<refs, owned, msg, target, deferred, due, conn, connected, auth, rotation,
                   net, overlap>>

(* ...and registers with onAuthenticatedOnce in a later critical section. *)
Defer(o) ==
    /\ opc[o] = "defer"
    /\ deferred' = deferred \cup {msg[o].types}
    /\ Return(o)
    /\ UNCHANGED <<refs, owned, due, conn, connected, auth, rotation, net, overlap>>

(* send picks the connection under m.mu, or drops the message... *)
Send(o) ==
    /\ opc[o] = "send"
    /\ \/ /\ conn # None /\ connected
          /\ target' = [target EXCEPT ![o] = conn]
          /\ Move(o, "write")
          /\ UNCHANGED msg
       \/ /\ conn = None \/ ~connected
          /\ Return(o)
    /\ UNCHANGED <<refs, owned, deferred, due, conn, connected, auth, rotation, net, overlap>>

(* What a message written to socket c does to the registrations there. *)
Apply(c, m) ==
    /\ server' = IF c \in alive
                 THEN [server EXCEPT ![c] = IF m.subscribe THEN @ \cup m.types
                                                          ELSE @ \ m.types]
                 ELSE server
    /\ UNCHANGED <<used, alive>>

(* ...and writes to it. The server takes messages in the order written. *)
Write(o) ==
    /\ opc[o] = "write"
    /\ Apply(target[o], msg[o])
    /\ Return(o)
    /\ UNCHANGED <<refs, owned, deferred, due, conn, connected, auth, rotation, overlap>>

-----------------------------------------------------------------------------
(* The connection.                                                         *)

(* The event types resubscribe re-issues. *)
Wanted == {t \in Types : refs[t] > 0}

(* The server forgets what was registered on the sockets of cs. *)
Forget(cs) ==
    /\ alive' = alive \ cs
    /\ server' = [c \in ConnIds |-> IF c \in cs THEN {} ELSE server[c]]
    /\ UNCHANGED used

(* A connection is dialled and installed. *)
Connect ==
    /\ rpc = "down"
    /\ used < MaxConns
    /\ used' = used + 1
    /\ conn' = used + 1
    /\ alive' = alive \cup {used + 1}
    /\ rpc' = "auth"
    /\ overlap' = (overlap /\ Calling # {})
    /\ UNCHANGED <<calls, deferred, due, connected, rconn, snap, rotation, server>>

(* onAuthenticated: the status, and the callbacks to run later. *)
OnAuthenticated ==
    /\ rpc = "auth"
    /\ conn \in alive
    /\ connected' = TRUE
    /\ rconn' = conn
    /\ due' = deferred
    /\ rpc' = "snapshot"
    /\ UNCHANGED <<calls, deferred, conn, snap, rotation, net, overlap>>

(* resubscribe reads what is wanted... *)
Resubscribe ==
    /\ rpc = "snapshot"
    /\ snap' = Wanted
    /\ rpc' = "write"
    /\ UNCHANGED <<calls, deferred, due, conn, connected, rconn, rotation, net, overlap>>

(* ...and writes it. *)
ResubscribeWrites ==
    /\ rpc = "write"
    /\ Apply(rconn, [subscribe |-> TRUE, types |-> snap])
    /\ rpc' = "callbacks"
    /\ rconn' = None /\ snap' = {}
    /\ UNCHANGED <<calls, deferred, due, conn, connected, rotation, overlap>>

(* One deferred message: its entry of m.authList goes, then send(msg). *)
RunCallback(ts) ==
    /\ rpc = "callbacks"
    /\ opc[Reader] = "idle"
    /\ ts \in due
    /\ due' = due \ {ts}
    /\ deferred' = deferred \ {ts}
    /\ msg' = [msg EXCEPT ![Reader] = [subscribe |-> TRUE, types |-> ts]]
    /\ Move(Reader, "send")
    /\ UNCHANGED <<refs, owned, target, conn, connected, auth, rotation, net, overlap>>

CallbacksDone ==
    /\ rpc = "callbacks"
    /\ opc[Reader] = "idle"
    /\ due = {}
    /\ rpc' = "serve"
    /\ UNCHANGED <<calls, deferred, due, conn, connected, rconn, snap, rotation, net, overlap>>

(* A socket dies. *)
Drop(c) ==
    /\ c \in alive
    /\ Forget({c})
    /\ UNCHANGED <<calls, deferred, due, conn, connected, auth, rotation, overlap>>

(* The read loop notices, not before onAuthenticated has returned. (After a *)
(* promotion these may be two goroutines, and the code does not wait; here *)
(* the retired one finishes its callbacks first.)                          *)
ReadFails ==
    /\ rpc \in {"auth", "serve"}
    /\ conn \notin alive
    /\ conn' = None
    /\ rpc' = "end"
    /\ UNCHANGED <<calls, deferred, due, connected, rconn, snap, rotation, net, overlap>>

EndHandoff == warm' = None /\ wpc' = "none" /\ wsnap' = {}

(* ...and endAttempt takes the handoff under way along. *)
EndAttempt ==
    /\ rpc = "end"
    /\ connected' = FALSE
    /\ rpc' = "down"
    /\ EndHandoff
    /\ Forget({warm})
    /\ UNCHANGED <<calls, deferred, due, conn, rconn, snap, rotations, overlap>>

(* RotateConnection, up to the warm socket's "authenticated". *)
Rotate ==
    /\ connected /\ conn # None /\ warm = None
    /\ used < MaxConns /\ rotations < MaxRotations
    /\ used' = used + 1
    /\ alive' = alive \cup {used + 1}
    /\ rotations' = rotations + 1
    /\ warm' = used + 1
    /\ wpc' = "snapshot"
    /\ overlap' = (overlap \/ Calling # {})
    /\ UNCHANGED <<calls, deferred, due, conn, connected, auth, wsnap, server>>

WarmResubscribe ==
    /\ wpc = "snapshot"
    /\ wsnap' = Wanted
    /\ wpc' = "write"
    /\ UNCHANGED <<calls, deferred, due, conn, connected, auth, warm, rotations, net, overlap>>

WarmWrites ==
    /\ wpc = "write"
    /\ Apply(warm, [subscribe |-> TRUE, types |-> wsnap])
    /\ wpc' = "ready"
    /\ UNCHANGED <<calls, deferred, due, conn, connected, auth, warm, wsnap, rotations, overlap>>

(* abortHandoffIf: the warming socket fails. *)
AbortHandoff ==
    /\ warm # None
    /\ EndHandoff
    /\ Forget({warm})
    /\ UNCHANGED <<calls, deferred, due, conn, connected, auth, rotations, overlap>>

(* The pong queued behind the re-issued subscriptions has arrived. *)
Barrier == wpc = "ready"

(* promoteHandoff. *)
Promote ==
    /\ Barrier
    /\ warm \in alive
    /\ conn # None
    /\ conn' = warm
    /\ Forget({conn})
    /\ EndHandoff
    /\ UNCHANGED <<calls, deferred, due, connected, auth, rotations, overlap>>

-----------------------------------------------------------------------------
CallerStep(o) ==
    \/ \E ts \in SUBSET Types : SubscribeEvents(o, ts) \/ UnsubscribeEvents(o, ts)
    \/ SendWhenConnected(o)
    \/ Defer(o)

SenderStep(o) == Send(o) \/ Write(o)

ConnStep ==
    \/ Connect
    \/ OnAuthenticated
    \/ Resubscribe
    \/ ResubscribeWrites
    \/ \E ts \in due : RunCallback(ts)
    \/ CallbacksDone
    \/ ReadFails
    \/ EndAttempt
    \/ Rotate
    \/ WarmResubscribe
    \/ WarmWrites
    \/ AbortHandoff
    \/ Promote

Next ==
    \/ \E o \in Owners : CallerStep(o)
    \/ \E o \in Senders : SenderStep(o)
    \/ ConnStep
    \/ \E c \in ConnIds : Drop(c)

Spec == Init /\ [][Next]_vars

-----------------------------------------------------------------------------
(* Correctness.                                                            *)

(* Nothing is on its way to the server. *)
Quiet ==
    /\ conn \in alive
    /\ rpc = "serve"
    /\ \A o \in Senders : opc[o] = "idle"

(* eventTypeSubs: "Counted so one owner's release cannot unsubscribe a     *)
(* type another still needs. Re-issued on every reconnect." Once every     *)
(* message is out, what a caller holds is registered on the connection     *)
(* consumers are served from.                                              *)
Covered == Quiet => \A o \in Owners : owned[o] \subseteq server[conn]

(* It is, through failures, resubscribes and deferred messages, as long as *)
(* calls overlapped neither each other nor a handoff on this connection.   *)
CoveredApart == overlap \/ Covered

-----------------------------------------------------------------------------
(* What CoveredApart rests on: an inductive invariant.                     *)

(* The connection that is served is the one that is installed, and is      *)
(* authenticated; a handoff warms another, and none outlives the attempt.  *)
Linked ==
    /\ rpc \in {"down", "end"} <=> conn = None
    /\ rpc \in {"down", "auth"} => ~connected
    /\ rpc \in {"snapshot", "write", "callbacks", "serve"} => connected
    /\ rpc \in {"snapshot", "write"} <=> rconn # None
    /\ warm = None <=> wpc = "none"
    /\ warm # None => connected /\ warm # conn /\ warm # rconn
    /\ used <= MaxConns
    /\ conn # None => conn \in 1..used
    /\ rconn # None => rconn \in 1..used
    /\ warm # None => warm \in 1..used
    /\ \A o \in Senders : opc[o] = "write" => target[o] \in 1..used

(* A deferred message subscribes; unless calls overlapped, a type that is  *)
(* about to be unsubscribed is held by nobody.                             *)
Messages ==
    /\ opc[Reader] # "idle" => msg[Reader].subscribe
    /\ ~overlap =>
          \A o \in Owners : opc[o] # "idle" /\ ~msg[o].subscribe =>
              \A t \in msg[o].types : refs[t] = 0

(* A caller has yet to subscribe to t on the connection. *)
Comes(o, t) ==
    /\ msg[o].subscribe /\ t \in msg[o].types
    /\ opc[o] \in {"check", "send"} \/ (opc[o] = "write" /\ target[o] = conn)

(* What is held is registered on the connection, or is about to be: by the *)
(* resubscribe or by a caller.                                             *)
Covering ==
    ~overlap /\ connected /\ conn \in alive /\ ~(rpc = "snapshot" /\ rconn = conn) =>
        \A t \in Wanted :
            \/ t \in server[conn]
            \/ rpc = "write" /\ rconn = conn /\ t \in snap
            \/ \E o \in Owners : Comes(o, t)

(* A handoff nobody called during has it on the warm connection.           *)
Warming ==
    ~overlap /\ warm # None =>
        /\ Calling = {}
        /\ wpc = "write" => Wanted \subseteq wsnap
        /\ wpc = "ready" /\ warm \in alive => Wanted \subseteq server[warm]

HoldersOf(t) == {o \in Owners : t \in owned[o]}

(* The references of a type are its holders. *)
Accounted == \A t \in Types : refs[t] = Cardinality(HoldersOf(t))

EventsInv == TypeOK /\ Linked /\ Messages /\ Covering /\ Warming /\ Accounted
=============================================================================
