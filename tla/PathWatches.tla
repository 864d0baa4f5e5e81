----------------------------- MODULE PathWatches -----------------------------
(***************************************************************************)
(* The streams that watch a path: watchPath, requestPathSnapshot and       *)
(* unwatchPath (websocket.go) as WatchOperations, WatchBalances,           *)
(* WatchObject, WatchFills and WatchFunding (streams.go) call them, for    *)
(* one path. Opening a stream starts a goroutine that takes the reference, *)
(* asks for the snapshot and drops the answer; Close gives the reference   *)
(* back, whether the goroutine has taken it or not.                        *)
(*                                                                         *)
(* What an answer carries, and to which request it goes, is in             *)
(* SocketRequests. The connection is reduced as in MarketSubscriptions.    *)
(* early and overlap record what the properties tell apart; no action      *)
(* reads them.                                                             *)
(***************************************************************************)
EXTENDS Naturals, FiniteSets

CONSTANTS
    Streams,    \* the streams on the path, each opened at most once
    None,       \* no connection
    Reader,     \* the goroutine serving the connection, as a sender
    MaxConns    \* bound: connections in a behaviour

ConnIds == 1..MaxConns
Goroutines == {<<"watch", s>> : s \in Streams}
Closers == {<<"close", s>> : s \in Streams}
Senders == Goroutines \cup Closers \cup {Reader}

VARIABLES
    refs,       \* m.pathRefs of the path
    life,       \* each stream: not opened yet, open or closed
    taken,      \* the streams whose goroutine has taken its reference
    opc,        \* where each sender is
    target,     \* the connection send picked for it
    deferred,   \* the streams whose sendWatch waits in m.authList
    due,        \* those of them the goroutine serving conn has yet to run
    conn,       \* m.conn
    connected,  \* m.status = StatusConnected
    rpc,        \* where the goroutine serving conn is
    alive,      \* the sockets that still carry messages
    used,       \* connections made so far
    server,     \* the connections on which the server watches the path
    early,      \* a stream was closed before its goroutine had the reference
    overlap     \* an "unwatch" and a "watch" were on their way together

senders == <<opc, target>>
link == <<conn, connected, rpc, alive, used>>
vars == <<refs, life, taken, senders, deferred, due, link, server, early, overlap>>

(* One type invariant for the module. *)
TypeOK ==
    /\ refs \in Nat
    /\ life \in [Streams -> {"new", "open", "closed"}]
    /\ taken \in SUBSET Streams
    /\ opc \in [Senders -> {"idle", "take", "ask", "look", "send", "write", "wait"}]
    /\ target \in [Senders -> ConnIds \cup {None}]
    /\ deferred \in SUBSET Streams /\ due \in SUBSET Streams
    /\ conn \in ConnIds \cup {None}
    /\ connected \in BOOLEAN
    /\ rpc \in {"down", "auth", "snapshot", "callbacks", "serve", "end"}
    /\ alive \in SUBSET ConnIds
    /\ used \in Nat
    /\ server \in SUBSET ConnIds
    /\ early \in BOOLEAN /\ overlap \in BOOLEAN

Init ==
    /\ refs = 0
    /\ life = [s \in Streams |-> "new"]
    /\ taken = {}
    /\ opc = [p \in Senders |-> "idle"]
    /\ target = [p \in Senders |-> None]
    /\ deferred = {} /\ due = {}
    /\ conn = None /\ connected = FALSE /\ rpc = "down"
    /\ alive = {} /\ used = 0 /\ server = {}
    /\ early = FALSE /\ overlap = FALSE

-----------------------------------------------------------------------------
Watcher(s) == <<"watch", s>>
Closer(s) == <<"close", s>>

(* A message of one of ps is on its way, or about to be. *)
Sending(ps) == \E p \in ps : opc[p] \in {"ask", "look", "send", "write"}

(* A "watch" is: of a goroutine, deferred, or of the resubscribe. *)
WatchDue == Sending(Senders \ Closers) \/ deferred # {} \/ rpc = "snapshot"

(* An "unwatch" is. *)
UnwatchDue == Sending(Closers)

Move(p, label) == opc' = [opc EXCEPT ![p] = label]

(* A stream is opened: its goroutine starts, whatever else happens next. *)
Watch(s) ==
    /\ life[s] = "new"
    /\ life' = [life EXCEPT ![s] = "open"]
    /\ Move(Watcher(s), "take")
    /\ UNCHANGED <<refs, taken, target, deferred, due, link, server, early, overlap>>

(* watchPath takes the reference... *)
WatchPath(s) ==
    /\ opc[Watcher(s)] = "take"
    /\ refs' = refs + 1
    /\ taken' = taken \cup {s}
    /\ Move(Watcher(s), "ask")
    /\ overlap' = (overlap \/ UnwatchDue)
    /\ UNCHANGED <<life, target, deferred, due, link, server, early>>

(* ...requestPathSnapshot leaves sendWatch with onAuthenticatedOnce first... *)
RequestPathSnapshot(s) ==
    /\ opc[Watcher(s)] = "ask"
    /\ deferred' = deferred \cup {s}
    /\ Move(Watcher(s), "look")
    /\ UNCHANGED <<refs, life, taken, target, due, link, server, early, overlap>>

(* ...then looks at the status: it sends at once, or leaves it to that. *)
LookAtStatus(s) ==
    /\ opc[Watcher(s)] = "look"
    /\ IF connected
       THEN deferred' = deferred \ {s} /\ Move(Watcher(s), "send")
       ELSE UNCHANGED deferred /\ Move(Watcher(s), "wait")
    /\ UNCHANGED <<refs, life, taken, target, due, link, server, early, overlap>>

(* The snapshot, an error, a lost connection or the timeout: watchPath     *)
(* returns, and what it deferred goes. sendMu keeps it from returning in   *)
(* the middle of a sendWatch.                                              *)
WatchPathReturns(s) ==
    /\ opc[Watcher(s)] = "wait"
    /\ opc[Reader] = "idle"
    /\ deferred' = deferred \ {s}
    /\ Move(Watcher(s), "idle")
    /\ UNCHANGED <<refs, life, taken, target, due, link, server, early, overlap>>

(* Mutant of Released: the last reference stays. *)
MutReleased == IF refs <= 1 THEN refs ELSE refs - 1

(* What unwatchPath leaves of the count. *)
Released == IF refs <= 1 THEN 0 ELSE refs - 1

(* Mutant of LastOwner: nobody tells the server. *)
MutLastOwner == FALSE

(* unwatchPath tells the server. *)
LastOwner == refs <= 1

(* Close of a stream: unwatchPath, up to the unlock. *)
Close(s) ==
    /\ life[s] = "open"
    /\ life' = [life EXCEPT ![s] = "closed"]
    /\ refs' = Released
    /\ IF LastOwner
       THEN Move(Closer(s), "send") /\ overlap' = (overlap \/ WatchDue)
       ELSE UNCHANGED <<opc, overlap>>
    /\ early' = (early \/ s \notin taken)
    /\ UNCHANGED <<taken, target, deferred, due, link, server>>

(* What a sender does when its message is out or dropped. *)
After(p) == IF p \in Goroutines THEN "wait" ELSE "idle"

(* send picks the connection, or drops the message... *)
Send(p) ==
    /\ opc[p] = "send"
    /\ IF conn # None /\ connected
       THEN Move(p, "write") /\ target' = [target EXCEPT ![p] = conn]
       ELSE Move(p, After(p)) /\ UNCHANGED target
    /\ UNCHANGED <<refs, life, taken, deferred, due, link, server, early, overlap>>

(* ...and writes it: "unwatch" from a Close, "watch" from all others. *)
Write(p) ==
    /\ opc[p] = "write"
    /\ server' = IF p \in Closers THEN server \ {target[p]} ELSE server \cup ({target[p]} \cap alive)
    /\ Move(p, After(p))
    /\ target' = [target EXCEPT ![p] = None]
    /\ UNCHANGED <<refs, life, taken, deferred, due, link, early, overlap>>

-----------------------------------------------------------------------------
(* The connection.                                                         *)

Connect ==
    /\ rpc = "down"
    /\ used < MaxConns
    /\ used' = used + 1
    /\ conn' = used + 1
    /\ alive' = alive \cup {used + 1}
    /\ rpc' = "auth"
    /\ overlap' = (overlap /\ (WatchDue \/ UnwatchDue))
    /\ UNCHANGED <<refs, life, taken, senders, deferred, due, connected, server, early>>

(* onAuthenticated: the status, and the callbacks to run later. *)
OnAuthenticated ==
    /\ rpc = "auth" /\ conn \in alive
    /\ connected' = TRUE
    /\ due' = deferred
    /\ rpc' = "snapshot"
    /\ overlap' = (overlap \/ UnwatchDue)
    /\ UNCHANGED <<refs, life, taken, senders, deferred, conn, alive, used, server, early>>

(* Mutant of Wanted: the paths are not re-issued. *)
MutWanted == FALSE

(* The path is among those resubscribe re-issues. *)
Wanted == refs > 0

(* resubscribe reads the paths, and writes a watch for each. *)
Resubscribe ==
    /\ rpc = "snapshot"
    /\ rpc' = "callbacks"
    /\ IF Wanted
       THEN Move(Reader, "write") /\ target' = [target EXCEPT ![Reader] = conn]
       ELSE UNCHANGED senders
    /\ UNCHANGED <<refs, life, taken, deferred, due, conn, connected, alive, used, server, early,
                   overlap>>

(* A deferred sendWatch runs, unless its request has returned since. *)
RunCallback(s) ==
    /\ rpc = "callbacks" /\ opc[Reader] = "idle"
    /\ s \in due
    /\ due' = due \ {s}
    /\ deferred' = deferred \ {s}
    /\ IF s \in deferred
       THEN Move(Reader, "send")
       ELSE UNCHANGED opc
    /\ UNCHANGED <<refs, life, taken, target, link, server, early, overlap>>

CallbacksDone ==
    /\ rpc = "callbacks" /\ opc[Reader] = "idle"
    /\ due = {}
    /\ rpc' = "serve"
    /\ UNCHANGED <<refs, life, taken, senders, deferred, due, conn, connected, alive, used, server,
                   early, overlap>>

(* A socket dies, and the server's watch of it. *)
Drop(c) ==
    /\ c \in alive
    /\ alive' = alive \ {c}
    /\ server' = server \ {c}
    /\ UNCHANGED <<refs, life, taken, senders, deferred, due, conn, connected, rpc, used, early,
                   overlap>>

ReadFails ==
    /\ rpc \in {"auth", "serve"}
    /\ conn \notin alive
    /\ conn' = None
    /\ rpc' = "end"
    /\ UNCHANGED <<refs, life, taken, senders, deferred, due, connected, alive, used, server, early,
                   overlap>>

EndAttempt ==
    /\ rpc = "end"
    /\ connected' = FALSE
    /\ rpc' = "down"
    /\ UNCHANGED <<refs, life, taken, senders, deferred, due, conn, alive, used, server, early,
                   overlap>>

-----------------------------------------------------------------------------
StreamStep(s) ==
    \/ Watch(s)
    \/ WatchPath(s)
    \/ RequestPathSnapshot(s)
    \/ LookAtStatus(s)
    \/ WatchPathReturns(s)
    \/ Close(s)

ConnStep ==
    \/ Connect
    \/ OnAuthenticated
    \/ Resubscribe
    \/ \E s \in Streams : RunCallback(s)
    \/ CallbacksDone
    \/ \E c \in ConnIds : Drop(c)
    \/ ReadFails
    \/ EndAttempt

Next ==
    \/ \E s \in Streams : StreamStep(s)
    \/ \E p \in Senders : Send(p) \/ Write(p)
    \/ ConnStep

Spec == Init /\ [][Next]_vars

-----------------------------------------------------------------------------
(* Correctness.                                                            *)

(* The streams that hold a reference. *)
Holders == {s \in taken : life[s] = "open"}

(* Nothing is on its way to the server, and none crossed. *)
Quiet ==
    /\ conn \in alive /\ rpc = "serve"
    /\ ~Sending(Senders)
    /\ ~overlap /\ ~early

(* An open stream's path is watched once every message is out, whatever    *)
(* the connection did while the stream was opened.                         *)
Watched == Quiet /\ Holders # {} => conn \in server

(* A path nobody holds any more is not watched: unwatchPath or a reconnect *)
(* has ended it.                                                           *)
Unwatched == Quiet /\ Holders = {} => conn \notin server

(* As long as no stream is closed before its goroutine ran, the count is   *)
(* that of the streams holding the path: it neither leaks nor is given     *)
(* back twice.                                                             *)
Balanced == early \/ refs = Cardinality(Holders)
=============================================================================
