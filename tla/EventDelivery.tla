---------------------------- MODULE EventDelivery ----------------------------
(***************************************************************************)
(* How events reach consumers (websocket.go): the read loops of            *)
(* dialAndServe and warmAndServe, handleMessage, checkGap and emitGap, and *)
(* the swap of promoteHandoff. The server numbers what it sends on each    *)
(* connection (deliverySeq); it may lose an event after numbering it, which*)
(* leaves a hole, or before, which it announces with stream.resync.        *)
(*                                                                         *)
(* A consumer answers a gap, and every authentication, by fetching the     *)
(* current state over HTTP, so that it has everything published until      *)
(* then. The connection lifecycle is in WebSocketManager; here a goroutine *)
(* per socket reads a message, finds the socket current under m.mu, and    *)
(* handles the message after the unlock.                                   *)
(***************************************************************************)
EXTENDS Naturals, Sequences, FiniteSets

CONSTANTS
    None,          \* no connection, no message
    MaxEvents,     \* bound: events published
    MaxConns,      \* bound: connections in a behaviour
    MaxRotations,  \* bound: rotations in a behaviour
    MaxLosses      \* bound: events the server loses

ConnIds == 1..MaxConns
Events == 1..MaxEvents

VARIABLES
    published,       \* events published so far: 1..published
    sub,             \* the connections the server broadcasts on
    next,            \* the last deliverySeq the server used on each
    sent,            \* the last deliverySeq it really sent
    resync,          \* the connections that are owed a stream.resync
    inbox,           \* what each socket holds unread
    conn,            \* m.conn
    lastDeliverySeq, \* m.lastDeliverySeq
    hold,            \* the message each goroutine has found current
    warm,            \* the connection of the handoff under way
    ready,           \* TRUE once its pong has been read
    used,            \* connections made so far
    rotations,       \* rotations so far
    seen,            \* the events consumers have, dispatched or fetched
    dispatched,      \* the events dispatched to listeners
    twice,           \* those dispatched more than once
    missed,          \* the total checkGap has reported
    markers,         \* how often a marker was reported
    holes,           \* events lost after they were numbered
    overflows,       \* events lost before
    unread           \* events on sockets that were retired with them unread

serverVars == <<sub, next, sent, resync, inbox>>
readVars == <<conn, lastDeliverySeq, hold>>
rotVars == <<warm, ready, used, rotations>>
lossVars == <<holes, overflows, unread>>
outVars == <<seen, dispatched, twice, missed, markers>>
vars == <<published, serverVars, readVars, rotVars, lossVars, outVars>>

Message == [kind : {"event", "resync", "pong"}, ev : 0..MaxEvents, seq : Nat]
NoMessage == [kind |-> "pong", ev |-> 0, seq |-> 0]

(* One type invariant for the module. *)
TypeOK ==
    /\ published \in 0..MaxEvents
    /\ sub \in SUBSET ConnIds
    /\ next \in [ConnIds -> Nat] /\ sent \in [ConnIds -> Nat]
    /\ resync \in SUBSET ConnIds
    /\ inbox \in [ConnIds -> Seq(Message)]
    /\ conn \in ConnIds \cup {None}
    /\ lastDeliverySeq \in Nat
    /\ hold \in [ConnIds -> Message]
    /\ warm \in ConnIds \cup {None}
    /\ ready \in BOOLEAN
    /\ used \in Nat /\ rotations \in Nat
    /\ seen \in SUBSET Events /\ dispatched \in SUBSET seen /\ twice \in SUBSET dispatched
    /\ missed \in Nat /\ markers \in Nat
    /\ holes \in Nat /\ overflows \in Nat
    /\ unread \in SUBSET Events

Init ==
    /\ published = 0
    /\ sub = {} /\ resync = {}
    /\ next = [c \in ConnIds |-> 0] /\ sent = [c \in ConnIds |-> 0]
    /\ inbox = [c \in ConnIds |-> <<>>]
    /\ conn = None /\ lastDeliverySeq = 0
    /\ hold = [c \in ConnIds |-> NoMessage]
    /\ warm = None /\ ready = FALSE
    /\ used = 0 /\ rotations = 0
    /\ seen = {} /\ dispatched = {} /\ twice = {}
    /\ missed = 0 /\ markers = 0
    /\ holes = 0 /\ overflows = 0 /\ unread = {}

-----------------------------------------------------------------------------
(* The server.                                                             *)

Msg(kind, ev, seq) == [kind |-> kind, ev |-> ev, seq |-> seq]

(* An event is broadcast on every subscribed connection except those of    *)
(* skip, where it is lost.                                                 *)
Broadcast(skip) ==
    /\ published < MaxEvents
    /\ published' = published + 1
    /\ LET to == sub \ skip
       IN  /\ inbox' = [c \in ConnIds |->
                 IF c \in to THEN Append(inbox[c], Msg("event", published + 1, next[c] + 1))
                             ELSE inbox[c]]
           /\ sent' = [c \in ConnIds |-> IF c \in to THEN next[c] + 1 ELSE sent[c]]
    /\ UNCHANGED <<sub, readVars, rotVars, outVars, unread>>

Publish ==
    /\ Broadcast({})
    /\ next' = [c \in ConnIds |-> IF c \in sub THEN next[c] + 1 ELSE next[c]]
    /\ UNCHANGED <<resync, holes, overflows>>

(* Lost after it was numbered. A hole in front of the first message of a   *)
(* connection cannot be seen (checkGap has nothing to compare with) and is *)
(* left to the server.                                                     *)
PublishHole(c) ==
    /\ c \in sub /\ sent[c] > 0
    /\ holes + overflows < MaxLosses
    /\ Broadcast({c})
    /\ next' = [d \in ConnIds |-> IF d \in sub THEN next[d] + 1 ELSE next[d]]
    /\ holes' = holes + 1
    /\ UNCHANGED <<resync, overflows>>

(* Lost before it was numbered: a marker is owed. *)
PublishOverflow(c) ==
    /\ c \in sub
    /\ holes + overflows < MaxLosses
    /\ Broadcast({c})
    /\ next' = [d \in ConnIds |-> IF d \in sub \ {c} THEN next[d] + 1 ELSE next[d]]
    /\ resync' = resync \cup {c}
    /\ overflows' = overflows + 1
    /\ UNCHANGED holes

SendResync(c) ==
    /\ c \in resync
    /\ resync' = resync \ {c}
    /\ next' = [next EXCEPT ![c] = @ + 1]
    /\ sent' = [sent EXCEPT ![c] = next[c] + 1]
    /\ inbox' = [inbox EXCEPT ![c] = Append(@, Msg("resync", 0, next[c] + 1))]
    /\ UNCHANGED <<published, sub, readVars, rotVars, lossVars, outVars>>

(* The socket is closed, with what it still holds. *)
Close(cs) ==
    /\ sub' = sub \ cs
    /\ resync' = resync \ cs
    /\ inbox' = [c \in ConnIds |-> IF c \in cs THEN <<>> ELSE inbox[c]]

-----------------------------------------------------------------------------
(* The primary connection.                                                 *)

(* The consumers fetch the current state. *)
Refetch == seen' = 1..published

(* dialAndServe up to the end of onAuthenticated: the cursor is reset, the *)
(* subscriptions are re-issued, and OnAuthenticated's consumers recover    *)
(* once these are confirmed.                                               *)
OnAuthenticated ==
    /\ conn = None
    /\ used < MaxConns
    /\ used' = used + 1
    /\ conn' = used + 1
    /\ sub' = sub \cup {used + 1}
    /\ lastDeliverySeq' = 0
    /\ Refetch
    /\ UNCHANGED <<published, next, sent, resync, inbox, hold, warm, ready, rotations,
                   lossVars, dispatched, twice, missed, markers>>

(* A read returns, and the connection is found current. *)
Read(c) ==
    /\ c = conn
    /\ hold[c] = NoMessage
    /\ inbox[c] # <<>>
    /\ hold' = [hold EXCEPT ![c] = Head(inbox[c])]
    /\ inbox' = [inbox EXCEPT ![c] = Tail(@)]
    /\ UNCHANGED <<published, sub, next, sent, resync, conn, lastDeliverySeq, rotVars,
                   lossVars, outVars>>

(* checkGap's condition. *)
Gap(seq) == lastDeliverySeq > 0 /\ seq > lastDeliverySeq + 1

(* Mutant of MarkerCursor: the marker's own deliverySeq is not consumed. *)
MutMarkerCursor(seq) == lastDeliverySeq

(* The cursor checkGap leaves behind a stream.resync. *)
MarkerCursor(seq) == seq

(* checkGap reports what is missing in front of seq. *)
Report(seq) == missed' = IF Gap(seq) THEN missed + (seq - lastDeliverySeq - 1) ELSE missed

(* handleMessage for an event: checkGap, then dispatch. *)
HandleEvent(c) ==
    /\ hold[c].kind = "event"
    /\ Report(hold[c].seq)
    /\ lastDeliverySeq' = hold[c].seq
    /\ seen' = (IF Gap(hold[c].seq) THEN 1..published ELSE seen) \cup {hold[c].ev}
    /\ dispatched' = dispatched \cup {hold[c].ev}
    /\ twice' = twice \cup ({hold[c].ev} \cap dispatched)
    /\ hold' = [hold EXCEPT ![c] = NoMessage]
    /\ UNCHANGED <<published, serverVars, conn, rotVars, lossVars, markers>>

(* handleMessage for stream.resync: checkGap, then emitGap(1). *)
HandleResync(c) ==
    /\ hold[c].kind = "resync"
    /\ Report(hold[c].seq)
    /\ lastDeliverySeq' = MarkerCursor(hold[c].seq)
    /\ Refetch
    /\ markers' = markers + 1
    /\ hold' = [hold EXCEPT ![c] = NoMessage]
    /\ UNCHANGED <<published, serverVars, conn, rotVars, lossVars, dispatched, twice>>

(* The primary connection is lost; endAttempt takes the handoff along. *)
Lose ==
    /\ conn # None
    /\ hold[conn] = NoMessage
    /\ conn' = None
    /\ Close({conn, warm})
    /\ warm' = None /\ ready' = FALSE
    /\ UNCHANGED <<published, next, sent, lastDeliverySeq, hold, used, rotations,
                   lossVars, outVars>>

-----------------------------------------------------------------------------
(* The warming connection.                                                 *)

RotateConnection ==
    /\ conn # None /\ warm = None
    /\ used < MaxConns /\ rotations < MaxRotations
    /\ used' = used + 1
    /\ rotations' = rotations + 1
    /\ warm' = used + 1
    /\ UNCHANGED <<published, serverVars, readVars, ready, lossVars, outVars>>

(* The server has registered the re-issued subscriptions... *)
Register ==
    /\ warm # None /\ warm \notin sub
    /\ sub' = sub \cup {warm}
    /\ UNCHANGED <<published, next, sent, resync, inbox, readVars, rotVars, lossVars, outVars>>

(* Mutant of PongDue: the ping overtakes the subscriptions. *)
MutPongDue == warm # None

(* ...which the ping is queued behind... *)
PongDue == warm \in sub

(* ...so that its answer comes after them. *)
Pong ==
    /\ PongDue
    /\ ~ready
    /\ inbox' = [inbox EXCEPT ![warm] = Append(@, Msg("pong", 0, 0))]
    /\ ~ \E i \in DOMAIN inbox[warm] : inbox[warm][i].kind = "pong"
    /\ UNCHANGED <<published, sub, next, sent, resync, readVars, rotVars, lossVars, outVars>>

(* handleWarmMessage: all but the pong is dropped. *)
ReadWarm ==
    /\ warm # None
    /\ inbox[warm] # <<>>
    /\ ready' = (ready \/ Head(inbox[warm]).kind = "pong")
    /\ inbox' = [inbox EXCEPT ![warm] = Tail(@)]
    /\ UNCHANGED <<published, sub, next, sent, resync, readVars, warm, used, rotations,
                   lossVars, outVars>>

(* The events a queue holds. *)
EventsOf(q) == {q[i].ev : i \in 1..Len(q)} \ {0}

(* promoteHandoff, at the pong or when its retry timer fires. The retired  *)
(* socket is closed with what it holds unread; a message its goroutine has *)
(* found current already is still handled.                                 *)
Promote ==
    /\ ready
    /\ conn' = warm
    /\ lastDeliverySeq' = 0
    /\ unread' = unread \cup EventsOf(inbox[conn])
    /\ Close({conn})
    /\ warm' = None /\ ready' = FALSE
    /\ UNCHANGED <<published, next, sent, hold, used, rotations, holes, overflows, outVars>>

AbortHandoff ==
    /\ warm # None
    /\ Close({warm})
    /\ warm' = None /\ ready' = FALSE
    /\ UNCHANGED <<published, next, sent, readVars, used, rotations, lossVars, outVars>>

-----------------------------------------------------------------------------
ServerStep ==
    \/ Publish
    \/ \E c \in ConnIds : PublishHole(c) \/ PublishOverflow(c) \/ SendResync(c)

ReadStep ==
    \/ OnAuthenticated
    \/ Lose
    \/ \E c \in ConnIds : Read(c) \/ HandleEvent(c) \/ HandleResync(c)

WarmStep ==
    \/ RotateConnection
    \/ Register
    \/ Pong
    \/ ReadWarm
    \/ Promote
    \/ AbortHandoff

Next == ServerStep \/ ReadStep \/ WarmStep

Spec == Init /\ [][Next]_vars

-----------------------------------------------------------------------------
(* Correctness.                                                            *)

(* Everything sent has been handled, and the last number used was sent: a  *)
(* hole shows with the next message.                                       *)
Quiet ==
    /\ conn # None
    /\ inbox[conn] = <<>>
    /\ conn \notin resync
    /\ sent[conn] = next[conn]
    /\ \A c \in ConnIds : hold[c] = NoMessage

(* No event is lost in silence: once everything sent is handled, consumers *)
(* have every event, because each loss raised a gap or a reconnect.        *)
NoSilentLoss == Quiet => seen = 1..published

(* With a server that loses nothing, all a rotation can lose in silence is *)
(* what the retired socket held unread: nothing published while the new    *)
(* one warms up, or after the swap.                                        *)
LossConfined ==
    Quiet /\ holes + overflows = 0 => (1..published) \ seen \subseteq unread

(* OnGap: "a hole the client observed ... (missed is exact), and a         *)
(* server-announced stream.resync marker". As long as one socket is read   *)
(* at a time, through any number of reconnects: no event is lost in        *)
(* silence, no loss is reported that did not happen, and no event is       *)
(* dispatched twice.                                                       *)
OneStream ==
    rotations = 0 => NoSilentLoss /\ missed <= holes /\ markers <= overflows /\ twice = {}

-----------------------------------------------------------------------------
(* What a queue of messages holds.                                         *)

(* A message is an event among the first p, a numbered marker or a pong.   *)
Proper(m, p) ==
    /\ m.kind = "event" => m.ev \in 1..p /\ m.seq > 0
    /\ m.kind = "resync" => m.ev = 0 /\ m.seq > 0
    /\ m.kind = "pong" => m = NoMessage

AllProper(q, p) == \A i \in 1..Len(q) : Proper(q[i], p)

(* No two messages of q carry one event. *)
Distinct(q) == \A i, j \in 1..Len(q) : q[i].ev = q[j].ev /\ q[i].ev # 0 => i = j

(* The numbers of q grow from behind a, with room for those between them,  *)
(* up to n.                                                                *)
Numbered(q, a, n) ==
    /\ n >= a + Len(q)
    /\ \A i \in 1..Len(q) : q[i].seq >= a + i /\ n >= q[i].seq + (Len(q) - i)
    /\ \A i, j \in 1..Len(q) : i <= j => q[j].seq >= q[i].seq + (j - i)

(* The number before the next one used, the last being a or in q. *)
LastOf(q, a) == IF q = <<>> THEN a ELSE q[Len(q)].seq

(* The first number of q is 1, if n are used. *)
FromOne(q, n) == IF q = <<>> THEN n = 0 ELSE q[1].seq = 1

(* The numbers of the markers in q. *)
MarkersOf(q) == {q[i].seq : i \in {j \in 1..Len(q) : q[j].kind = "resync"}}

-----------------------------------------------------------------------------
(* What the properties rest on: an inductive invariant.                    *)

(* The server broadcasts on the connection consumers are served from, and  *)
(* on the warming one once its pong is due.                                *)
Linked ==
    /\ used <= MaxConns
    /\ conn # None => conn \in 1..used /\ conn \in sub
    /\ warm # None => warm \in 1..used /\ warm # conn /\ conn # None
    /\ ready => warm # None /\ warm \in sub
    /\ sub \subseteq 1..used /\ resync \subseteq sub
    /\ \A c \in ConnIds \ sub : \A i \in 1..Len(inbox[c]) : inbox[c][i].kind # "pong"
    /\ \A c \in ConnIds : c > used => next[c] = 0 /\ sent[c] = 0 /\ inbox[c] = <<>>
    /\ seen \subseteq 1..published

WellFormed ==
    \A c \in ConnIds : Proper(hold[c], published) /\ AllProper(inbox[c], published)

(* With a server that loses nothing, consumers have every event, or are    *)
(* about to; a rotation retires the rest.                                  *)
NoneAstray ==
    conn # None /\ holes + overflows = 0 =>
        1..published \subseteq
            seen \cup unread \cup {hold[c].ev : c \in ConnIds} \cup EventsOf(inbox[conn])

(* Before any rotation, one connection carries everything. *)
Alone ==
    rotations = 0 =>
        /\ warm = None
        /\ sub \subseteq {conn} /\ resync \subseteq {conn}
        /\ \A c \in ConnIds : c # conn => inbox[c] = <<>> /\ hold[c] = NoMessage

Single == rotations = 0 /\ conn # None

(* The number of the message before those unread. *)
Ahead == IF hold[conn] = NoMessage THEN lastDeliverySeq ELSE hold[conn].seq

InOrder ==
    Single =>
        /\ Numbered(inbox[conn], Ahead, next[conn])
        /\ sent[conn] = LastOf(inbox[conn], Ahead)
        /\ hold[conn] # NoMessage => hold[conn].seq > lastDeliverySeq
        /\ lastDeliverySeq = 0 => IF hold[conn] = NoMessage THEN FromOne(inbox[conn], next[conn])
                                                            ELSE hold[conn].seq = 1

(* The numbers nobody sent that checkGap has yet to notice. *)
Unreported ==
    (IF hold[conn] = NoMessage THEN 0 ELSE hold[conn].seq - lastDeliverySeq - 1)
        + (next[conn] - Ahead - Len(inbox[conn]))

(* checkGap reports no more than was lost. *)
MissedCounted == rotations = 0 => missed <= holes /\ (conn # None => missed + Unreported <= holes)

(* The numbers of the markers on their way. *)
Markers ==
    MarkersOf(inbox[conn]) \cup (IF hold[conn].kind = "resync" THEN {hold[conn].seq} ELSE {})

(* Every marker stands for an event lost before it was numbered. *)
MarkersCounted ==
    rotations = 0 =>
        /\ markers <= overflows
        /\ conn # None =>
              markers + Cardinality(Markers) + (IF conn \in resync THEN 1 ELSE 0) <= overflows

(* Consumers have every event, or are about to, unless a gap is about to   *)
(* be noticed or a marker is due.                                          *)
NoneSilent ==
    Single =>
        \/ Unreported > 0
        \/ conn \in resync \/ Markers # {}
        \/ 1..published \subseteq seen \cup {hold[conn].ev} \cup EventsOf(inbox[conn])

(* No event is on its way twice, or was dispatched before. *)
Once ==
    rotations = 0 =>
        /\ twice = {}
        /\ conn # None =>
              /\ Distinct(inbox[conn])
              /\ EventsOf(inbox[conn]) \cap (dispatched \cup {hold[conn].ev}) = {}
              /\ hold[conn].ev \notin dispatched

DeliveryInv ==
    /\ TypeOK /\ Linked /\ WellFormed /\ NoneAstray
    /\ Alone /\ InOrder /\ MissedCounted /\ MarkersCounted /\ NoneSilent /\ Once
=============================================================================
