------------------------ MODULE MarketSubscriptions ------------------------
(***************************************************************************)
(* The market-data feeds of WebSocketManager (websocket.go): mids, trades, *)
(* candles and open interest. Each feed keeps what its owners hold, and a  *)
(* sync sends the WHOLE list, which replaces the one the server has. Mids  *)
(* and trades count their owners; candles and open interest mark a key.    *)
(* Mids also know "all coins", which outranks the list.                    *)
(*                                                                         *)
(* The four feeds share this module: Counted and All choose between them.  *)
(* A key is a coin, or a pair of a coin and an interval. The connection is *)
(* reduced as in EventSubscriptions, without rotation. overlap and wiped   *)
(* record what the properties tell apart; no action reads them.            *)
(***************************************************************************)
EXTENDS Naturals, FiniteSets

CONSTANTS
    Owners,     \* the streams that acquire and release keys
    Keys,       \* what can be acquired
    All,        \* the key that stands for all coins, in Keys or not
    None,       \* no connection
    Reader,     \* the goroutine serving the connection
    Counted,    \* TRUE: mids, trades; FALSE: candles, open interest
    MaxConns,   \* bound: connections in a behaviour
    MaxHeld     \* bound: keys that owners hold at a time, together

ConnIds == 1..MaxConns
Senders == Owners \cup {Reader}

VARIABLES
    refs,       \* midsCoins and midsAll, tradeRefs, candleRefs or oiRefs
    owned,      \* the keys each owner acquired and has yet to release
    opc,        \* where each sender is inside a sync
    list,       \* the list it has read and has yet to write
    target,     \* the connection send picked for it
    conn,       \* m.conn
    connected,  \* m.status = StatusConnected
    rpc,        \* where the goroutine serving conn is
    alive,      \* the sockets that still carry messages
    used,       \* connections made so far
    server,     \* the list the server has for each connection
    overlap,    \* the last calls overlapped each other or a resubscribe
    wiped       \* keys whose mark a release took off under another owner

calls == <<refs, owned, wiped, opc, list, target>>
link == <<conn, connected, rpc, alive, used>>
vars == <<calls, link, server, overlap>>

(* One type invariant for the module. *)
TypeOK ==
    /\ refs \in [Keys -> Nat]
    /\ owned \in [Owners -> SUBSET Keys] /\ wiped \in SUBSET Keys
    /\ opc \in [Senders -> {"idle", "sync", "send", "write"}]
    /\ list \in [Senders -> SUBSET Keys]
    /\ target \in [Senders -> ConnIds \cup {None}]
    /\ conn \in ConnIds \cup {None}
    /\ connected \in BOOLEAN
    /\ rpc \in {"down", "auth", "resubscribe", "serve", "end"}
    /\ alive \in SUBSET ConnIds
    /\ used \in Nat
    /\ server \in [ConnIds -> SUBSET Keys]
    /\ overlap \in BOOLEAN

Init ==
    /\ refs = [k \in Keys |-> 0]
    /\ owned = [o \in Owners |-> {}] /\ wiped = {}
    /\ opc = [s \in Senders |-> "idle"]
    /\ list = [s \in Senders |-> {}]
    /\ target = [s \in Senders |-> None]
    /\ conn = None /\ connected = FALSE /\ rpc = "down"
    /\ alive = {} /\ used = 0
    /\ server = [c \in ConnIds |-> {}]
    /\ overlap = FALSE

-----------------------------------------------------------------------------
(* Owners.                                                                 *)

Busy == \E s \in Senders : opc[s] # "idle"

(* A call begins, perhaps while another, or a resubscribe, is under way. *)
BeginCall(o) ==
    /\ opc[o] = "idle"
    /\ overlap' = (Busy \/ rpc = "resubscribe")

(* Candles and open interest name coins and intervals, which stands for    *)
(* every pair of the two.                                                  *)
Pairs(ks) == {k \in Keys : \E a, b \in ks : k = <<a[1], b[2]>>}

(* What one call can name.                                                 *)
Named(ks) ==
    /\ ks # {}
    /\ All \in ks => ks = {All}
    /\ ~Counted => ks = Pairs(ks)

Move(s, label) == opc' = [opc EXCEPT ![s] = label]

(* Acquiring ks counts an owner (mids, trades)... *)
Incremented(ks) == [k \in Keys |-> IF k \in ks THEN refs[k] + 1 ELSE refs[k]]

(* Mutant of Marked: the intervals a coin has are made anew with each call. *)
MutMarked(ks) ==
    [k \in Keys |-> IF k \in ks THEN 1 ELSE IF \E l \in ks : l[1] = k[1] THEN 0 ELSE refs[k]]

(* ...or marks the key (candles, open interest). *)
Marked(ks) == [k \in Keys |-> IF k \in ks THEN 1 ELSE refs[k]]

(* Who holds what. *)
Holdings == {x \in Owners \X Keys : x[2] \in owned[x[1]]}

(* acquireMids, acquireTrades, acquireCandles, acquireOI, up to the sync.  *)
(* "All coins" is a call with no coin.                                     *)
Acquire(o, ks) ==
    /\ BeginCall(o)
    /\ Named(ks) /\ ks \cap owned[o] = {}
    /\ Cardinality(Holdings \cup {o} \X ks) <= MaxHeld
    /\ refs' = IF Counted THEN Incremented(ks) ELSE Marked(ks)
    /\ wiped' = wiped \ ks
    /\ owned' = [owned EXCEPT ![o] = @ \cup ks]
    /\ Move(o, "sync")
    /\ UNCHANGED <<list, target, link, server>>

(* Mutant of Decremented: a released key is forgotten however many hold it. *)
MutForgotten(ks) == [k \in Keys |-> IF k \in ks THEN 0 ELSE refs[k]]

(* Mutant of Decremented: the last owner's release leaves the key behind. *)
MutKept(ks) == [k \in Keys |-> IF k \in ks /\ refs[k] > 1 THEN refs[k] - 1 ELSE refs[k]]

(* Releasing ks takes an owner off, the key going with the last one... *)
Decremented(ks) ==
    [k \in Keys |-> IF k \notin ks THEN refs[k] ELSE IF refs[k] <= 1 THEN 0 ELSE refs[k] - 1]

(* Mutant of Unmarked: a call that names several takes no mark off. *)
MutUnmarked(ks) == [k \in Keys |-> IF ks = {k} THEN 0 ELSE refs[k]]

(* ...or takes the mark off. *)
Unmarked(ks) == [k \in Keys |-> IF k \in ks THEN 0 ELSE refs[k]]

(* releaseMids, releaseTrades, releaseCandles, releaseOI, up to the sync. *)
Release(o, ks) ==
    /\ BeginCall(o)
    /\ Named(ks) /\ ks \subseteq owned[o]
    /\ refs' = IF Counted THEN Decremented(ks) ELSE Unmarked(ks)
    /\ wiped' = IF Counted THEN wiped
                ELSE wiped \cup {k \in ks : \E h \in Owners \ {o} : k \in owned[h]}
    /\ owned' = [owned EXCEPT ![o] = @ \ ks]
    /\ Move(o, "sync")
    /\ UNCHANGED <<list, target, link, server>>

Held == {k \in Keys : refs[k] > 0}

(* The list of what is held, or all pairs of its coins and intervals;      *)
(* "all" outranks it, and an empty one is an unsubscribe.                  *)
Desired ==
    IF ~Counted THEN Pairs(Held) ELSE IF All \in Held THEN {All} ELSE Held

(* syncMids, syncTrades, syncCandles, syncOI read the list... *)
Sync(o) ==
    /\ opc[o] = "sync"
    /\ list' = [list EXCEPT ![o] = Desired]
    /\ Move(o, "send")
    /\ UNCHANGED <<refs, owned, wiped, target, link, server, overlap>>

Return(s) ==
    /\ Move(s, "idle")
    /\ list' = [list EXCEPT ![s] = {}]
    /\ target' = [target EXCEPT ![s] = None]

(* ...send picks the connection, or drops the message... *)
Send(o) ==
    /\ opc[o] = "send"
    /\ \/ /\ conn # None /\ connected
          /\ target' = [target EXCEPT ![o] = conn]
          /\ Move(o, "write")
          /\ UNCHANGED list
       \/ /\ conn = None \/ ~connected
          /\ Return(o)
    /\ UNCHANGED <<refs, owned, wiped, link, server, overlap>>

(* ...and the list is written: it replaces the one the server has. *)
Write(s) ==
    /\ opc[s] = "write"
    /\ server' = IF target[s] \in alive THEN [server EXCEPT ![target[s]] = list[s]] ELSE server
    /\ Return(s)
    /\ UNCHANGED <<refs, owned, wiped, link, overlap>>

-----------------------------------------------------------------------------
(* The connection.                                                         *)

Connect ==
    /\ rpc = "down"
    /\ used < MaxConns
    /\ used' = used + 1
    /\ conn' = used + 1
    /\ alive' = alive \cup {used + 1}
    /\ rpc' = "auth"
    /\ overlap' = (overlap /\ Busy)
    /\ UNCHANGED <<calls, connected, server>>

OnAuthenticated ==
    /\ rpc = "auth"
    /\ conn \in alive
    /\ connected' = TRUE
    /\ rpc' = "resubscribe"
    /\ UNCHANGED <<calls, conn, alive, used, server, overlap>>

(* What resubscribe re-issues. *)
Reissued == Desired

(* resubscribe reads the list, and writes it unless it is empty. *)
Resubscribe ==
    /\ rpc = "resubscribe"
    /\ rpc' = "serve"
    /\ IF Reissued = {}
       THEN UNCHANGED <<opc, list, target>>
       ELSE /\ list' = [list EXCEPT ![Reader] = Reissued]
            /\ target' = [target EXCEPT ![Reader] = conn]
            /\ Move(Reader, "write")
    /\ UNCHANGED <<refs, owned, wiped, conn, connected, alive, used, server, overlap>>

Drop(c) ==
    /\ c \in alive
    /\ alive' = alive \ {c}
    /\ server' = [server EXCEPT ![c] = {}]
    /\ UNCHANGED <<calls, conn, connected, rpc, used, overlap>>

ReadFails ==
    /\ rpc \in {"auth", "serve"}
    /\ opc[Reader] = "idle"
    /\ conn \notin alive
    /\ conn' = None
    /\ rpc' = "end"
    /\ UNCHANGED <<calls, connected, alive, used, server, overlap>>

EndAttempt ==
    /\ rpc = "end"
    /\ connected' = FALSE
    /\ rpc' = "down"
    /\ UNCHANGED <<calls, conn, alive, used, server, overlap>>

-----------------------------------------------------------------------------
OwnerStep(o) ==
    \/ \E ks \in SUBSET Keys : Acquire(o, ks) \/ Release(o, ks)
    \/ Sync(o)
    \/ Send(o)

ConnStep ==
    \/ Connect
    \/ OnAuthenticated
    \/ Resubscribe
    \/ \E c \in ConnIds : Drop(c)
    \/ ReadFails
    \/ EndAttempt

Next ==
    \/ \E o \in Owners : OwnerStep(o)
    \/ \E s \in Senders : Write(s)
    \/ ConnStep

Spec == Init /\ [][Next]_vars

-----------------------------------------------------------------------------
(* Correctness.                                                            *)

(* Nothing is on its way to the server, and the last call had the manager  *)
(* to itself: an older list written late replaces a newer one, until the   *)
(* next call sends the whole list again.                                   *)
Quiet ==
    /\ ~overlap
    /\ conn \in alive
    /\ rpc = "serve"
    /\ ~Busy

(* What an owner holds: its keys, or everything. *)
Served(k, c) == k \in server[c] \/ All \in server[c]

(* "Subscriptions are reference-counted": once every message is out, the   *)
(* server streams every key some owner holds.                              *)
Streamed == Quiet => \A o \in Owners : \A k \in owned[o] : Served(k, conn)

(* Candles and open interest: that is so of a key unless another owner's   *)
(* release has taken its mark off and nobody has acquired it since.        *)
StreamedUnlessWiped ==
    Quiet => \A o \in Owners : \A k \in owned[o] \ wiped : Served(k, conn)

(* Once every message is out, the server streams no mids and no trades     *)
(* that nobody holds, and candles and open interest only of a coin and an  *)
(* interval that are held, though perhaps not together.                    *)
NothingExtra ==
    LET held == UNION {owned[o] : o \in Owners} IN
    Quiet => server[conn] \subseteq IF Counted THEN held ELSE Pairs(held)

-----------------------------------------------------------------------------
(* What the properties rest on: an inductive invariant.                    *)

(* The connection that is served is the one that is installed, and is      *)
(* authenticated; a list to be written has a connection that was made.     *)
Linked ==
    /\ rpc \in {"auth", "resubscribe", "serve"} => conn \in 1..used
    /\ rpc \in {"resubscribe", "serve"} => connected
    /\ rpc \in {"down", "auth"} => ~connected
    /\ rpc = "end" => conn = None
    /\ used <= MaxConns
    /\ \A s \in Senders : opc[s] = "write" => target[s] \in 1..used
    /\ \A c \in ConnIds : c > used => server[c] = {}

(* Nobody has told the server anything on one that is not authenticated.   *)
Unspoken ==
    rpc = "auth" =>
        server[conn] = {} /\ \A s \in Senders : opc[s] = "write" => target[s] # conn

(* Unless calls overlapped, every list on its way is the present one...    *)
NoneStale ==
    ~overlap => \A s \in Senders : opc[s] \in {"send", "write"} => list[s] = Desired

(* ...a connection about to be resubscribed has it or none...              *)
NothingElse == ~overlap /\ rpc = "resubscribe" => server[conn] \in {{}, Desired}

Underway(s) == opc[s] \in {"sync", "send"} \/ (opc[s] = "write" /\ target[s] = conn)

(* ...and one that is served has it, or it is on its way.                  *)
ListComes ==
    ~overlap /\ rpc = "serve" /\ conn \in alive =>
        server[conn] = Desired \/ \E s \in Senders : Underway(s)

HoldersOf(k) == {o \in Owners : k \in owned[o]}

(* What the manager counts is the owners; what it marks has one, and what  *)
(* has one is marked unless another's release took the mark off.           *)
Accounted ==
    /\ Counted => wiped = {}
    /\ \A k \in Keys :
        IF Counted THEN refs[k] = Cardinality(HoldersOf(k))
        ELSE refs[k] > 0 <=> HoldersOf(k) # {} /\ k \notin wiped

MarketInv ==
    TypeOK /\ Linked /\ Unspoken /\ NoneStale /\ NothingElse /\ ListComes /\ Accounted
=============================================================================
