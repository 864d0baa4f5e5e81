------------------------------ MODULE MCStreams ------------------------------
(***************************************************************************)
(* The watch streams that recover what they lose: a behaviour is one of a  *)
(* stream of realm fills, of an exchange state, or of a projection or an   *)
(* aggregation. The variables of the others are Off.                       *)
(***************************************************************************)
EXTENDS Naturals, Sequences, FiniteSets

CONSTANTS
    Off,
    MaxFills, FillFaults, PageLimit, Window,
    MaxBook, MaxPushes, ExchangeFaults,
    Scopes, First, MaxConns, MaxWatches, MaxScopes, ProjectionFaults

ASSUME ConstantsOK ==
    /\ MaxFills \in Nat \ {0} /\ FillFaults \in Nat
    /\ PageLimit \in Nat \ {0} /\ Window \in Nat
    /\ MaxBook \in Nat \ {0} /\ MaxPushes \in Nat /\ ExchangeFaults \in Nat
    /\ First \in Scopes
    /\ MaxConns \in Nat \ {0} /\ MaxWatches \in Nat \ {0}
    /\ MaxScopes \in Nat /\ ProjectionFaults \in Nat

VARIABLES
    stream,                   \* which stream the behaviour is of
    up, state, rpc, faults,   \* used by more than one of them
    log, registered, wire, lossy, open, started, cursor, replaying, replayQueued, seen,
    replayCh, local, at, to, emitting, got, persisted, floor, seam, cut,
    book, value, closed, epoch, reader, expiry, recovery, active, queued, skipFirstAuth,
    pushes, from, voids, owed,
    kind, conn, watches, orphans, used, triggers, gaps, watchID, paths, rows, markets, stopped,
    recreating, redo, resyncing, resyncAgain, interest, renderCh, renderConnect, rreply, upc,
    ureply, ypc, yreply, mine, calls, behind, missing, skipped

Fills == INSTANCE RealmFills WITH MaxFaults <- FillFaults
Exchange == INSTANCE ExchangeStream WITH MaxFaults <- ExchangeFaults
Projection == INSTANCE ProjectionStream WITH MaxFaults <- ProjectionFaults

fillsOnly == <<log, registered, wire, lossy, open, started, cursor, replaying, replayQueued,
               seen, replayCh, local, at, to, emitting, got, persisted, floor, seam, cut>>
exchangeOnly == <<book, value, closed, epoch, reader, expiry, recovery, active, queued,
                  skipFirstAuth, pushes, from, voids, owed>>
projectionOnly == <<kind, conn, watches, orphans, used, triggers, gaps, watchID, paths, rows,
                    markets, stopped, recreating, redo, resyncing, resyncAgain, interest,
                    renderCh, renderConnect, rreply, upc, ureply, ypc, yreply, mine, calls,
                    behind, missing, skipped>>
vars == <<stream, up, state, rpc, faults, fillsOnly, exchangeOnly, projectionOnly>>

NoFills ==
    /\ log = Off /\ registered = Off /\ wire = Off /\ lossy = Off /\ open = Off
    /\ started = Off /\ cursor = Off /\ replaying = Off /\ replayQueued = Off /\ seen = Off
    /\ replayCh = Off /\ local = Off /\ at = Off /\ to = Off /\ emitting = Off /\ got = Off
    /\ persisted = Off /\ floor = Off /\ seam = Off /\ cut = Off

NoExchange ==
    /\ book = Off /\ value = Off /\ closed = Off /\ epoch = Off /\ reader = Off
    /\ expiry = Off /\ recovery = Off /\ active = Off /\ queued = Off /\ skipFirstAuth = Off
    /\ pushes = Off /\ from = Off /\ voids = Off /\ owed = Off

NoProjection ==
    /\ kind = Off /\ conn = Off /\ watches = Off /\ orphans = Off /\ used = Off
    /\ triggers = Off /\ gaps = Off /\ watchID = Off /\ paths = Off /\ rows = Off
    /\ markets = Off /\ stopped = Off /\ recreating = Off /\ redo = Off /\ resyncing = Off
    /\ resyncAgain = Off /\ interest = Off /\ renderCh = Off /\ renderConnect = Off
    /\ rreply = Off /\ upc = Off /\ ureply = Off /\ ypc = Off /\ yreply = Off /\ mine = Off
    /\ calls = Off /\ behind = Off /\ missing = Off /\ skipped = Off

Init ==
    \/ stream = "fills" /\ Fills!Init /\ NoExchange /\ NoProjection
    \/ stream = "exchange" /\ Exchange!Init /\ NoFills /\ NoProjection /\ up = Off /\ rpc = Off
    \/ stream = "projection" /\ Projection!Init /\ NoFills /\ NoExchange

FillsNext == stream = "fills" /\ Fills!Next /\ UNCHANGED <<stream, exchangeOnly, projectionOnly>>
ExchangeNext ==
    stream = "exchange" /\ Exchange!Next /\ UNCHANGED <<stream, up, rpc, fillsOnly, projectionOnly>>
ProjectionNext ==
    stream = "projection" /\ Projection!Next /\ UNCHANGED <<stream, fillsOnly, exchangeOnly>>

Next == FillsNext \/ ExchangeNext \/ ProjectionNext

(* The fairness of each stream, for the behaviours that are of it. *)
FillsStep(A) == stream = "fills" /\ A /\ UNCHANGED <<stream, exchangeOnly, projectionOnly>>
ExchangeStep(A) ==
    stream = "exchange" /\ A /\ UNCHANGED <<stream, up, rpc, fillsOnly, projectionOnly>>
ProjectionStep(A) == stream = "projection" /\ A /\ UNCHANGED <<stream, fillsOnly, exchangeOnly>>

Spec ==
    /\ Init /\ [][Next]_vars
    /\ WF_vars(FillsStep(Fills!Authenticate)) /\ WF_vars(FillsStep(Fills!Register))
    /\ WF_vars(FillsStep(Fills!OnLiveFill))
    /\ WF_vars(FillsStep(Fills!Emit("live"))) /\ WF_vars(FillsStep(Fills!Emit("replay")))
    /\ WF_vars(FillsStep(Fills!ReplayStep))
    /\ WF_vars(ExchangeStep(Exchange!RefetchStep)) /\ WF_vars(ExchangeStep(Exchange!RecoveryFires))
    /\ WF_vars(ProjectionStep(Projection!Reconnects)) /\ WF_vars(ProjectionStep(Projection!Recreate))
    /\ WF_vars(ProjectionStep(Projection!RecreateStep))

-----------------------------------------------------------------------------
(* WatchRealmFills: no cursor the consumer keeps is past a fill it has not *)
(* got and is not about to get, whatever is lost, repeated or replayed,    *)
(* those of the seam and of a cut apart.                                   *)
FillsKept == stream = "fills" => Fills!TypeOK /\ Fills!NoSkip

(* RealmFills, without setting any fill apart. *)
NeverSkips == stream = "fills" => Fills!NeverSkips

(* WatchExchangeState: an observation that was withdrawn is not restored   *)
(* by a read that began before, a stream without one has its recovery      *)
(* timer armed, and the gate of Refresh forgets no call.                   *)
ObservationKept ==
    stream = "exchange" =>
        /\ Exchange!TypeOK
        /\ Exchange!NotRestored
        /\ Exchange!KeepsTrying
        /\ Exchange!RefreshReads

(* WatchExchangeState: no late read or push brings an older ledger back. *)
Monotonic == [][stream = "exchange" => Exchange!NotOlder]_vars

(* WatchProjection: rows not called stale are kept by a live watch of the  *)
(* scope they show, which is the last one set; a gap is made good; and     *)
(* Close, SetPaths and recreate leave no watch and no interest in mids     *)
(* behind.                                                                 *)
ProjectionKept ==
    stream = "projection" =>
        /\ Projection!TypeOK
        /\ Projection!StaleOrWatched
        /\ Projection!FedAsShown
        /\ Projection!LaterScopeWins
        /\ Projection!GapsMadeGood
        /\ Projection!NothingExtra

(* What the stream has lost and owes: a fill; its exchange state; the      *)
(* watch of a projection on a connection that is up.                       *)
Lost(f) ==
    \/ stream = "fills" /\ Fills!Owed(f)
    \/ stream = "exchange" /\ state = "reconnecting"
    \/ stream = "projection" /\ kind = "projection" /\ up /\ ~stopped

(* It has it, or nobody waits for it any more: the fill's loss shows with  *)
(* the next event, the stream is closed, the connection has gone again.    *)
Back(f) ==
    \/ stream = "fills" /\ (Fills!Arrived(f) \/ lossy \/ ~started)
    \/ stream = "exchange" /\ (state = "connected" \/ closed)
    \/ stream = "projection" /\ (Projection!Watched \/ ~up \/ stopped)

(* What a watch stream loses it gets back by itself: the fills of a gap by *)
(* runReplay, the exchange state by its recovery timer, the projection's   *)
(* watch by recreate.                                                      *)
StreamsRecover == \A f \in 1..MaxFills : Lost(f) ~> Back(f)
=============================================================================
