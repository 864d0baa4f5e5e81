----------------------------- MODULE RealmFills -----------------------------
(***************************************************************************)
(* WatchRealmFills (streams.go): every fill of a realm, at least once. A   *)
(* replay loop drains the durable log from the stream's cursor; live       *)
(* fill.recorded events are delivered as they come. Both go through        *)
(* deliver, which drops recent duplicates and moves the cursor in one      *)
(* critical section and hands the fill to the consumer after it. A gap, an *)
(* authentication and the first consumer queue a replay.                   *)
(*                                                                         *)
(* A fill is its position in the log, a cursor the position it resumes     *)
(* after; 0 is the empty cursor. The consumer keeps the cursor it is       *)
(* handed with each fill, and resumes from it after a crash. seam and cut  *)
(* record the fills the properties set apart: those committed while the    *)
(* socket was up and its subscription not yet registered, and those a      *)
(* crash caught between the cursor and the consumer.                       *)
(***************************************************************************)
EXTENDS Naturals, Sequences, FiniteSets

CONSTANTS
    MaxFills,   \* bound: fills in the log
    MaxFaults,  \* bound: lost events, lost sockets, failed reads, crashes
    PageLimit,  \* realmFillsPageLimit
    Window      \* realmFillsDedupeWindow

VARIABLES
    log,        \* fills committed
    up, registered,
    wire,       \* events on the socket: [fill, stamped, gap]
    lossy,      \* an event was lost and the next one will show it
    open,       \* WatchRealmFills has returned
    started, cursor, replaying, replayQueued,
    seen,       \* seenOrder
    replayCh,   \* the channel holds a token
    state,      \* the stream's WatchState
    rpc,        \* where replayLoop is
    local,      \* runReplay's position
    at, to,     \* the rest of its page
    emitting,   \* what the live and the replaying goroutine are about to emit
    got,        \* fills the consumer has
    persisted,  \* the cursor it keeps
    floor,      \* the position it asked to start from
    faults, seam, cut

server == <<log, up, registered, wire, lossy>>
stream == <<started, cursor, replaying, replayQueued, seen, replayCh>>
loop == <<rpc, local, at, to>>
consumer == <<got, persisted, floor>>
ghosts == <<faults, seam, cut>>
vars == <<server, open, stream, state, loop, emitting, consumer, ghosts>>

Fills == 1..MaxFills
Cursors == 0..MaxFills
Nothing == [fill |-> 0, cursor |-> 0]

(* One type invariant for the module. *)
TypeOK ==
    /\ log \in Cursors /\ up \in BOOLEAN /\ registered \in BOOLEAN
    /\ wire \in Seq([fill : Fills, stamped : BOOLEAN, gap : BOOLEAN])
    /\ lossy \in BOOLEAN /\ open \in BOOLEAN
    /\ started \in BOOLEAN /\ cursor \in Cursors
    /\ replaying \in BOOLEAN /\ replayQueued \in BOOLEAN /\ replayCh \in BOOLEAN
    /\ seen \in Seq(Fills) /\ Len(seen) <= Window
    /\ state \in {"loading", "connected", "reconnecting"}
    /\ rpc \in {"off", "idle", "list", "page", "end"}
    /\ local \in Cursors /\ at \in Cursors /\ to \in Cursors
    /\ emitting \in [{"live", "replay"} -> [fill : Cursors, cursor : Cursors]]
    /\ got \in SUBSET Fills /\ persisted \in Cursors /\ floor \in Cursors
    /\ faults \in 0..MaxFaults /\ seam \in SUBSET Fills /\ cut \in SUBSET Fills

Closed ==
    /\ open = FALSE /\ started = FALSE
    /\ replaying = FALSE /\ replayQueued = FALSE /\ replayCh = FALSE
    /\ seen = <<>> /\ state = "loading"
    /\ rpc = "off" /\ local = 0 /\ at = 0 /\ to = 0
    /\ emitting = [g \in {"live", "replay"} |-> Nothing]

Init ==
    /\ log \in 0..1 /\ up = FALSE /\ registered = FALSE /\ wire = <<>> /\ lossy = FALSE
    /\ Closed /\ cursor = 0
    /\ got = {} /\ persisted = 0 /\ floor = 0
    /\ faults = 0 /\ seam = {} /\ cut = {}

Fault == faults < MaxFaults /\ faults' = faults + 1

-----------------------------------------------------------------------------
(* The log and the socket.                                                 *)

(* A fill is recorded; its event goes to the socket that registered. *)
Commit(stamped) ==
    /\ log < MaxFills
    /\ log' = log + 1
    /\ IF registered
       THEN /\ wire' = Append(wire, [fill |-> log + 1, stamped |-> stamped, gap |-> lossy])
            /\ lossy' = FALSE
       ELSE UNCHANGED <<wire, lossy>>
    /\ seam' = IF open /\ up /\ ~registered THEN seam \cup {log + 1} ELSE seam
    /\ UNCHANGED <<up, registered, open, stream, state, loop, emitting, consumer, faults, cut>>

(* Its event is lost on the way. *)
CommitLost ==
    /\ log < MaxFills /\ registered /\ Fault
    /\ log' = log + 1 /\ lossy' = TRUE
    /\ UNCHANGED <<up, registered, wire, open, stream, state, loop, emitting, consumer, seam, cut>>

(* The server processes the subscribe message. *)
Register ==
    /\ open /\ up /\ ~registered
    /\ registered' = TRUE
    /\ UNCHANGED <<log, up, wire, lossy, open, stream, state, loop, emitting, consumer, ghosts>>

Drop ==
    /\ up /\ Fault
    /\ up' = FALSE /\ registered' = FALSE /\ wire' = <<>> /\ lossy' = FALSE
    /\ UNCHANGED <<log, open, stream, state, loop, emitting, consumer, seam, cut>>

(* scheduleReplay. *)
Authenticate ==
    /\ ~up
    /\ up' = TRUE
    /\ IF open THEN replayQueued' = TRUE /\ replayCh' = TRUE
               ELSE UNCHANGED <<replayQueued, replayCh>>
    /\ UNCHANGED <<log, registered, wire, lossy, open, started, cursor, replaying, seen, state, loop,
                   emitting, consumer, ghosts>>

-----------------------------------------------------------------------------
(* Opening the stream.                                                     *)

(* From the cursor the consumer kept, or for the first time from the head  *)
(* of the log.                                                             *)
WatchRealmFills ==
    /\ ~open
    /\ open' = TRUE
    /\ \/ cursor' = persisted /\ UNCHANGED <<persisted, floor>>
       \/ /\ persisted = 0 /\ got = {} /\ cut = {}
          /\ cursor' = log /\ persisted' = log /\ floor' = log
    /\ UNCHANGED <<server, started, replaying, replayQueued, seen, replayCh, state, loop, emitting,
                   got, ghosts>>

(* start, at the first OnUpdate, Updates or Ready. *)
Start ==
    /\ open /\ ~started
    /\ started' = TRUE
    /\ rpc' = "idle"
    /\ replayQueued' = TRUE /\ replayCh' = TRUE
    /\ UNCHANGED <<server, open, cursor, replaying, seen, state, local, at, to, emitting, consumer,
                   ghosts>>

(* The process ends and starts again; what it was about to emit is cut. *)
Crash ==
    /\ open /\ Fault
    /\ open' = FALSE /\ started' = FALSE
    /\ replaying' = FALSE /\ replayQueued' = FALSE /\ replayCh' = FALSE
    /\ seen' = <<>> /\ state' = "loading"
    /\ rpc' = "off" /\ local' = 0 /\ at' = 0 /\ to' = 0 /\ cursor' = 0
    /\ emitting' = [g \in {"live", "replay"} |-> Nothing]
    /\ cut' = cut \cup ({emitting["live"].fill, emitting["replay"].fill} \ {0})
    /\ up' = FALSE /\ registered' = FALSE /\ wire' = <<>> /\ lossy' = FALSE
    /\ UNCHANGED <<log, consumer, seam>>

-----------------------------------------------------------------------------
(* Delivery.                                                               *)

(* Mutant of Moves: a live fill moves the cursor during a replay, too. *)
MutMoves(replayed) == TRUE

(* A live fill may be ahead of rows a replay has yet to scan. *)
Moves(replayed) == replayed \/ (~replaying /\ ~replayQueued')

Remembered(f) ==
    LET s == Append(seen, f) IN IF Len(s) > Window THEN Tail(s) ELSE s

Seen(f) == \E i \in 1..Len(seen) : seen[i] = f

(* deliver, up to its unlock, on goroutine g. *)
Deliver(g, f, stamped) ==
    /\ seen' = IF Seen(f) THEN seen ELSE Remembered(f)
    /\ cursor' = IF stamped /\ Moves(g = "replay") THEN f ELSE cursor
    /\ emitting' = IF Seen(f) THEN emitting
                   ELSE [emitting EXCEPT ![g] = [fill |-> f, cursor |-> cursor']]

(* checkGap comes before the event's own listeners. *)
Noticed(e) == e.gap

(* onLiveFill; an event before the first consumer is left to the log. *)
OnLiveFill ==
    /\ wire # <<>> /\ emitting["live"] = Nothing
    /\ wire' = Tail(wire)
    /\ LET e == Head(wire)
       IN  /\ replayQueued' = (replayQueued \/ (open /\ Noticed(e)))
           /\ replayCh' = (replayCh \/ (open /\ Noticed(e)))
           /\ IF started THEN Deliver("live", e.fill, e.stamped)
                         ELSE UNCHANGED <<seen, cursor, emitting>>
    /\ UNCHANGED <<log, up, registered, lossy, open, started, replaying, state, loop, consumer,
                   ghosts>>

(* The consumer's callback: it processes the fill and keeps the cursor. *)
Emit(g) ==
    /\ emitting[g] # Nothing
    /\ emitting' = [emitting EXCEPT ![g] = Nothing]
    /\ got' = got \cup {emitting[g].fill}
    /\ persisted' = emitting[g].cursor
    /\ state' = "connected"
    /\ UNCHANGED <<server, open, stream, loop, floor, ghosts>>

-----------------------------------------------------------------------------
(* replayLoop and runReplay.                                               *)

(* A run starts at the cursor, after the token or for a replay queued      *)
(* during the last run.                                                    *)
BeginReplay ==
    /\ rpc = "idle" /\ replayCh
    /\ replayCh' = FALSE
    /\ replayQueued' = FALSE /\ replaying' = TRUE
    /\ local' = cursor
    /\ rpc' = "list"
    /\ UNCHANGED <<server, open, started, cursor, seen, state, at, to, emitting, consumer, ghosts>>

(* The server serves a page of ListRealmFills after local. *)
ListRealmFills ==
    /\ rpc = "list"
    /\ at' = local
    /\ to' = IF local + PageLimit < log THEN local + PageLimit ELSE log
    /\ rpc' = "page"
    /\ UNCHANGED <<server, open, stream, state, local, emitting, consumer, ghosts>>

(* It fails; the loop tries again after its backoff. *)
ListFails ==
    /\ rpc = "list" /\ Fault
    /\ state' = "reconnecting"
    /\ UNCHANGED <<server, open, stream, loop, emitting, consumer, seam, cut>>

DeliverRow ==
    /\ rpc = "page" /\ at < to /\ emitting["replay"] = Nothing
    /\ at' = at + 1
    /\ UNCHANGED replayQueued
    /\ Deliver("replay", at + 1, TRUE)
    /\ UNCHANGED <<server, open, started, replaying, replayCh, state, rpc, local, to, consumer,
                   ghosts>>

(* Mutant of AtHead: any page ends the replay. *)
MutAtHead == TRUE

(* A partial page is the head of the log. *)
AtHead == to - local < PageLimit

PageDone ==
    /\ rpc = "page" /\ at = to /\ emitting["replay"] = Nothing
    /\ local' = to
    /\ rpc' = IF AtHead THEN "end" ELSE "list"
    /\ UNCHANGED <<server, open, stream, state, at, to, emitting, consumer, ghosts>>

EndReplay ==
    /\ rpc = "end"
    /\ cursor' = IF local # 0 THEN local ELSE cursor
    /\ IF replayQueued
       THEN /\ rpc' = "list"
            /\ replaying' = TRUE /\ replayQueued' = FALSE
            /\ local' = cursor'
       ELSE /\ rpc' = "idle"
            /\ replaying' = FALSE
            /\ UNCHANGED <<replayQueued, local>>
    /\ UNCHANGED <<server, open, started, seen, replayCh, state, at, to, emitting, consumer, ghosts>>

Next ==
    \/ \E stamped \in BOOLEAN : Commit(stamped)
    \/ CommitLost \/ Register \/ Drop \/ Authenticate
    \/ WatchRealmFills \/ Start \/ Crash
    \/ OnLiveFill \/ Emit("live") \/ Emit("replay")
    \/ BeginReplay \/ ListRealmFills \/ ListFails \/ DeliverRow \/ PageDone \/ EndReplay

(* A step of the replay loop that needs no luck. *)
ReplayStep == BeginReplay \/ ListRealmFills \/ DeliverRow \/ PageDone \/ EndReplay

-----------------------------------------------------------------------------
Skipped == {f \in Fills : floor < f /\ f <= persisted /\ f \notin got}
OnTheWay == {emitting["live"].fill, emitting["replay"].fill}

(* "Missing a fill is not [possible], as long as the consumer resumes from *)
(* its persisted cursor" (WatchRealmFills): whatever is lost, repeated or  *)
(* replayed, no cursor the consumer keeps is past a fill it has not seen   *)
(* and is not about to see. Fills of the seam and of a cut are set apart.  *)
NoSkip == Skipped \subseteq OnTheWay \cup seam \cup cut

(* The same of every fill: a cursor never outruns its fills. *)
NeverSkips == Skipped \subseteq OnTheWay

(* A fill after the consumer's floor reaches it in the end, live or        *)
(* replayed, while a consumer is attached: Owed(f) leads to Arrived(f).    *)
Owed(f) == started /\ floor < f /\ f <= log
Arrived(f) == f \in got \cup seam \cup cut
=============================================================================
