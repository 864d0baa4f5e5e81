----------------------------- MODULE ReplayFeeds -----------------------------
(***************************************************************************)
(* The resumable server-sent-event feeds: StreamFundingV9Wallets (every    *)
(* wallet of a realm), StreamFundingV9Wallet (one), both through           *)
(* readFundingWalletSSE, RunAddressObservationStream over                  *)
(* StreamAddressObservations, and RunCashV9WalletAccountStream over        *)
(* StreamCashV9WalletAccount.                                              *)
(*                                                                         *)
(* A feed follows a journal of changes. A frame is what one blank line     *)
(* ends: its event, its id and its payload. The reader hands a frame to    *)
(* accept and only then takes over its id, the position the next           *)
(* connection asks to be resumed after. Snapshots replace what they        *)
(* describe; observations are events, and each one counts.                 *)
(***************************************************************************)
EXTENDS Naturals, Sequences, FiniteSets, SequencesExt, FiniteSetsExt

CONSTANTS
    Wallets,        \* the wallets of the realm; feeds of one wallet follow Own
    Own,            \* a member of Wallets
    MaxChanges,     \* bound: changes of a behaviour
    MaxFaults       \* bound: lost connections, failed callbacks, server faults

Kinds == {"wallets", "wallet", "observations", "account"}
Positions == 0..MaxChanges

VARIABLES
    feed,           \* which of the feeds this is
    journal,        \* sequence of wallets: the one each change is of
    oldest,         \* changes the server no longer retains (observations)
    conn,           \* the connection: "closed", "open"
    sentTo, full,   \* server: the position sent up to; every wallet is still to be sent
    frames,         \* sent and not yet read
    pc,             \* the reader: "idle", "reading", "stopped"
    last,           \* the reader's lastEventID, last, or last revision
    cursor,         \* what the next connection will resume after
    persisted,      \* what the consumer saved, and resumes after when it restarts
    shown,          \* [Wallets -> Positions]: the change the accepted snapshot is at
    got,            \* the observations accepted
    stale,          \* wallets a wallet_error marked stale
    ffaults

vars == <<feed, journal, oldest, conn, sentTo, full, frames, pc, last, cursor, persisted, shown,
          got, stale, ffaults>>
server == <<journal, oldest>>
consumer == <<persisted, shown, got, stale>>

-----------------------------------------------------------------------------
Head0 == Len(journal)

(* The last change of w up to position p; 0 when there is none. *)
LastChange(w, p) == Max({0} \cup {i \in DOMAIN journal : i <= p /\ journal[i] = w})

(* Frames. at is the change a snapshot is read at; a batch of observations *)
(* holds the changes after from up to at.                                  *)
Frame(event, id, w, from, at) == [event |-> event, id |-> id, w |-> w, from |-> from, at |-> at]

Init ==
    /\ feed \in Kinds
    /\ journal = <<>> /\ oldest = 0
    /\ conn = "closed" /\ sentTo = 0 /\ full = FALSE /\ frames = <<>>
    /\ pc = "idle" /\ last = 0 /\ cursor = 0 /\ persisted = 0
    /\ shown = [w \in Wallets |-> 0] /\ got = {} /\ stale = {}
    /\ ffaults = 0

(* A wallet changes, or a transfer of its address is observed. *)
Change(w) ==
    /\ Head0 < MaxChanges
    /\ feed # "wallets" => w = Own
    /\ journal' = Append(journal, w)
    /\ UNCHANGED <<feed, oldest, conn, sentTo, full, frames, pc, last, cursor, consumer, ffaults>>

(* The server retires observations it kept long enough. *)
Retention ==
    /\ feed = "observations" /\ ffaults < MaxFaults /\ oldest < Head0
    /\ oldest' = oldest + 1 /\ ffaults' = ffaults + 1
    /\ UNCHANGED <<feed, journal, conn, sentTo, full, frames, pc, last, cursor, consumer>>

(* Bootstrap asks for every wallet again; a first connection gets them     *)
(* all. The documented consumer sets it after a wallet_error, and when it  *)
(* wants a full refresh.                                                   *)
MutBootstrap == cursor = 0

Bootstrap == cursor = 0 \/ stale # {}

(* The server answers that it no longer has what follows the cursor. *)
Expired == feed = "observations" /\ cursor < oldest

(* A connection is opened from cursor. *)
Open ==
    /\ pc = "idle" /\ ~Expired
    /\ pc' = "reading" /\ last' = cursor
    /\ conn' = "open" /\ frames' = <<>> /\ sentTo' = cursor
    /\ full' \in CASE feed = "observations" -> {FALSE}
                   [] feed = "wallets" -> {TRUE, Bootstrap}
                   [] OTHER -> {TRUE}
    /\ UNCHANGED <<feed, server, cursor, consumer, ffaults>>

(* The dial fails, or the ingress answers 502 to 504: a disconnect for the *)
(* feeds that retry it; any other answer that is not 200, and a cursor     *)
(* that expired, is the caller's to decide.                                *)
DialFails ==
    /\ pc = "idle" /\ ffaults < MaxFaults
    /\ ffaults' = ffaults + 1
    /\ UNCHANGED <<feed, server, conn, sentTo, full, frames, pc, last, cursor, consumer>>

Refused ==
    /\ pc = "idle"
    /\ \/ Expired /\ UNCHANGED ffaults
       \/ ffaults < MaxFaults /\ ffaults' = ffaults + 1
    /\ pc' = "stopped"
    /\ UNCHANGED <<feed, server, conn, sentTo, full, frames, last, cursor, consumer>>

(* What the server owes the connection. *)
Due == IF full THEN Wallets ELSE {w \in Wallets : LastChange(w, Head0) > sentTo}
Snapshots(ws) == [i \in 1..Cardinality(ws) |->
                    LET w == SetToSeq(ws)[i] IN Frame("wallet", Head0, w, 0, Head0)]

(* The server sends what is due: every due wallet and then the position; a *)
(* snapshot of the one wallet; or the observations since, their retained   *)
(* part.                                                                   *)
Send ==
    /\ conn = "open"
    /\ \/ /\ feed = "wallets" /\ Due # {}
          /\ LET end == Frame("caught_up", Head0, Own, 0, Head0)
             IN  frames' = frames \o Snapshots(Due)
                    \o (IF Head0 > 0 THEN <<Frame("position", Head0, Own, 0, Head0), end>> ELSE <<end>>)
       \/ /\ feed \in {"wallet", "account"} /\ (full \/ Head0 > sentTo)
          /\ frames' = Append(frames, Frame("snapshot", Head0, Own, 0, Head0))
       \/ /\ feed = "observations" /\ Head0 > sentTo /\ sentTo >= oldest
          /\ frames' = Append(frames, Frame("changes", Head0, Own, sentTo, Head0))
    /\ sentTo' = Head0 /\ full' = FALSE
    /\ UNCHANGED <<feed, server, conn, pc, last, cursor, consumer, ffaults>>

(* A wallet cannot be composed: the wallets before it, its wallet_error,   *)
(* and the end of the connection.                                          *)
SendError ==
    /\ feed = "wallets" /\ conn = "open" /\ ffaults < MaxFaults
    /\ \E w \in Due : \E before \in SUBSET (Due \ {w}) :
          frames' = frames \o Snapshots(before) \o <<Frame("wallet_error", 0, w, 0, 0)>>
    /\ conn' = "closed" /\ ffaults' = ffaults + 1
    /\ UNCHANGED <<feed, server, sentTo, full, pc, last, cursor, consumer>>

(* A position whose id is not its own sequence; or, on the observations, a *)
(* control frame that asks for a reset, as it does of a feed that fell     *)
(* behind what is retained.                                                *)
SendMismatch ==
    /\ feed = "wallets" /\ conn = "open" /\ ffaults < MaxFaults /\ sentTo > 0
    /\ frames' = Append(frames, Frame("position", Head0 + 1, Own, 0, sentTo))
    /\ ffaults' = ffaults + 1
    /\ UNCHANGED <<feed, server, conn, sentTo, full, pc, last, cursor, consumer>>

SendReset ==
    /\ feed = "observations" /\ conn = "open"
    /\ \/ sentTo < oldest /\ UNCHANGED ffaults
       \/ ffaults < MaxFaults /\ ffaults' = ffaults + 1
    /\ frames' = Append(frames, Frame("control", 0, Own, 0, 0)) /\ conn' = "closed"
    /\ UNCHANGED <<feed, server, sentTo, full, pc, last, cursor, consumer>>

(* The connection ends and takes what was not read yet from some frame on. *)
Lose ==
    /\ conn = "open" /\ ffaults < MaxFaults
    /\ conn' = "closed" /\ ffaults' = ffaults + 1
    /\ \E n \in 0..Len(frames) : frames' = SubSeq(frames, 1, n)
    /\ UNCHANGED <<feed, server, sentTo, full, pc, last, cursor, consumer>>

-----------------------------------------------------------------------------
(* Realm frames acknowledge their own sequence only. *)
MutMismatched(f) == FALSE

Mismatched(f) == feed = "wallets" /\ f.event = "position" /\ f.id # f.at

(* The frames whose id is taken over once they are accepted: on the realm  *)
(* feed the positions only.                                                *)
MutAcknowledges(f) == f.id # 0

Acknowledges(f) == f.id # 0 /\ (feed = "wallets" => f.event = "position")

(* What the consumer keeps of an accepted frame. *)
Accepted(f) ==
    /\ shown' = IF f.event \in {"wallet", "snapshot"} THEN [shown EXCEPT ![f.w] = f.at] ELSE shown
    /\ got' = IF f.event = "changes" THEN got \cup (f.from + 1)..f.at ELSE got
    /\ stale' = (stale \ {w \in {f.w} : f.event = "wallet"}) \cup {w \in {f.w} : f.event = "wallet_error"}
    /\ persisted' = IF f.event \in {"position", "changes"} THEN f.at ELSE persisted

(* The reader returns. A disconnect is resumed from its last id, by the    *)
(* Run loops and by the documented consumer; anything else stops.          *)
Resumes(p) ==
    IF feed = "account" THEN Max({cursor, p})
    ELSE IF feed = "observations" /\ p = 0 THEN cursor ELSE p

Disconnected(p) ==
    pc' = "idle" /\ cursor' = Resumes(p) /\ last' = p /\ conn' = "closed" /\ frames' = <<>>

Stops == pc' = "stopped" /\ conn' = "closed" /\ frames' = <<>> /\ UNCHANGED <<cursor, last>>

(* One frame: the mismatched is refused before accept; a callback error    *)
(* ends the feed on the position before the frame; an accepted one is      *)
(* acknowledged. A wallet_error is accepted and ends the connection.       *)
Read ==
    /\ pc = "reading" /\ frames # <<>>
    /\ LET f == Head(frames) IN
       \/ /\ Mismatched(f)
          /\ Disconnected(last)
          /\ UNCHANGED <<consumer, ffaults>>
       \/ /\ f.event = "control"
          /\ Stops
          /\ UNCHANGED <<consumer, ffaults>>
       \/ /\ ~Mismatched(f) /\ f.event # "control"
          /\ ffaults < MaxFaults /\ ffaults' = ffaults + 1
          /\ IF feed \in {"wallets", "wallet"} THEN Disconnected(last) ELSE Stops
          /\ UNCHANGED consumer
       \/ /\ ~Mismatched(f) /\ f.event # "control"
          /\ Accepted(f)
          /\ IF f.event = "wallet_error"
                THEN Disconnected(last)
                ELSE /\ frames' = Tail(frames)
                     /\ last' = IF Acknowledges(f) THEN f.id ELSE last
                     /\ UNCHANGED <<pc, cursor, conn>>
          /\ UNCHANGED ffaults
    /\ UNCHANGED <<feed, server, sentTo, full>>

(* The end of the connection is a disconnect, never a completion. *)
Eof ==
    /\ pc = "reading" /\ conn = "closed" /\ frames = <<>>
    /\ Disconnected(last)
    /\ UNCHANGED <<feed, server, sentTo, full, consumer, ffaults>>

(* The consumer's process ends and starts again from what it saved. *)
Restart ==
    /\ feed \in {"wallets", "observations"} /\ pc # "stopped" /\ ffaults < MaxFaults
    /\ pc' = "idle" /\ cursor' = persisted /\ conn' = "closed" /\ frames' = <<>>
    /\ ffaults' = ffaults + 1
    /\ UNCHANGED <<feed, server, sentTo, full, last, consumer>>

Reader == Open \/ Read \/ Eof

Next ==
    \/ \E w \in Wallets : Change(w)
    \/ Retention \/ Open \/ DialFails \/ Refused
    \/ Send \/ SendError \/ SendMismatch \/ SendReset \/ Lose
    \/ Read \/ Eof \/ Restart

-----------------------------------------------------------------------------
TypeOK ==
    /\ feed \in Kinds
    /\ journal \in Seq(Wallets) /\ Head0 <= MaxChanges /\ oldest \in 0..Head0
    /\ conn \in {"closed", "open"} /\ sentTo \in 0..Head0 /\ full \in BOOLEAN
    /\ \A i \in 1..Len(frames) : frames[i].at <= Head0 /\ frames[i].w \in Wallets
    /\ pc \in {"idle", "reading", "stopped"}
    /\ last \in 0..Head0 /\ cursor \in 0..Head0 /\ persisted \in 0..Head0
    /\ shown \in [Wallets -> Positions] /\ got \subseteq 1..Head0 /\ stale \subseteq Wallets
    /\ ffaults \in 0..MaxFaults

(* The consumer has every change up to p. *)
HasUpTo(p) ==
    IF feed = "observations" THEN 1..p \subseteq got
    ELSE \A w \in Wallets : shown[w] >= LastChange(w, p)

(* readFundingWalletSSE and the loops around it: no position the feed can  *)
(* resume from, in memory, in the disconnect error or saved by the         *)
(* consumer, is past a change the consumer has not accepted, however the   *)
(* frames, the callback and the connection fail.                           *)
NothingSkipped ==
    /\ HasUpTo(cursor) /\ HasUpTo(persisted)
    /\ pc = "reading" => HasUpTo(last)

(* Every change reaches the consumer, through any number of reconnections, *)
(* unless the feed stops for the caller to decide.                         *)
Served(i) ==
    \/ pc = "stopped"
    \/ IF feed = "observations" THEN i \in got ELSE i <= Head0 /\ shown[journal[i]] >= i

(* A wallet marked stale by a wallet_error is described again, though it   *)
(* never changes: the reconnection asks for a bootstrap.                   *)
Refreshed(w) == w \notin stale \/ pc = "stopped"
=============================================================================
