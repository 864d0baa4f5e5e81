------------------------------ MODULE MCCustody ------------------------------
(***************************************************************************)
(* What the SDK does about custody and funding: a behaviour is of a        *)
(* resumable feed, of a move under its request key, or of a co-signed      *)
(* venue hop. The variables of the others are Off.                         *)
(***************************************************************************)
EXTENDS Naturals, Sequences, FiniteSets

CONSTANTS
    Off, Wallets, Own, MaxChanges, FeedFaults,
    Keys, MaxSends, MaxBad, NoReply,
    Callers, Deadlines, MaxNonces, MaxLost, Nil

ASSUME ConstantsOK ==
    /\ IsFiniteSet(Wallets) /\ Own \in Wallets /\ MaxChanges \in Nat /\ FeedFaults \in Nat
    /\ \E n \in 1..Cardinality(Keys) : Keys = 1..n
    /\ MaxSends \in Nat /\ MaxBad \in Nat
    /\ Nil \notin Callers /\ "signed" \notin Callers
    /\ MaxNonces \in Nat /\ MaxLost \in Nat

VARIABLES
    part,                     \* which of the three the behaviour is of
    feed, journal, oldest, conn, sentTo, full, frames, pc, last, cursor, persisted, shown, got,
    stale, ffaults,
    ledger, expired, net, sends, key, call, mreply, known, bad,
    armed, funds, via, nonces, asked, signer, hpc, proposal, signature, lost

Feed == INSTANCE ReplayFeeds WITH MaxFaults <- FeedFaults
Move == INSTANCE MoveRequest
HopOf == INSTANCE VenueHop

feedOnly == <<feed, journal, oldest, conn, sentTo, full, frames, pc, last, cursor, persisted,
              shown, got, stale, ffaults>>
moveOnly == <<ledger, expired, net, sends, key, call, mreply, known, bad>>
hopOnly == <<armed, funds, via, nonces, asked, signer, hpc, proposal, signature, lost>>
vars == <<part, feedOnly, moveOnly, hopOnly>>

NoFeed ==
    /\ feed = Off /\ journal = Off /\ oldest = Off /\ conn = Off /\ sentTo = Off /\ full = Off
    /\ frames = Off /\ pc = Off /\ last = Off /\ cursor = Off /\ persisted = Off /\ shown = Off
    /\ got = Off /\ stale = Off /\ ffaults = Off

NoMove ==
    /\ ledger = Off /\ expired = Off /\ net = Off /\ sends = Off /\ key = Off /\ call = Off
    /\ mreply = Off /\ known = Off /\ bad = Off

NoHop ==
    /\ armed = Off /\ funds = Off /\ via = Off /\ nonces = Off /\ asked = Off /\ signer = Off
    /\ hpc = Off /\ proposal = Off /\ signature = Off /\ lost = Off

Init ==
    \/ part = "feed" /\ Feed!Init /\ NoMove /\ NoHop
    \/ part = "move" /\ Move!Init /\ NoFeed /\ NoHop
    \/ part = "hop" /\ HopOf!Init /\ NoFeed /\ NoMove

FeedStep(A) == part = "feed" /\ A /\ UNCHANGED <<part, moveOnly, hopOnly>>
MoveStep(A) == part = "move" /\ A /\ UNCHANGED <<part, feedOnly, hopOnly>>
HopStep(A) == part = "hop" /\ A /\ UNCHANGED <<part, feedOnly, moveOnly>>

Next == FeedStep(Feed!Next) \/ MoveStep(Move!Next) \/ HopStep(HopOf!Next)

Fairness ==
    /\ WF_vars(FeedStep(Feed!Open)) /\ WF_vars(FeedStep(Feed!Read)) /\ WF_vars(FeedStep(Feed!Eof))
    /\ WF_vars(FeedStep(Feed!Send)) /\ WF_vars(FeedStep(Feed!SendReset)) /\ WF_vars(FeedStep(Feed!Refused))
    /\ \A k \in Keys : WF_vars(MoveStep(Move!Admit(k))) /\ WF_vars(MoveStep(Move!Expire(k)))
    /\ WF_vars(MoveStep(Move!Fence)) /\ WF_vars(MoveStep(Move!Lookup))
    /\ WF_vars(MoveStep(Move!Created)) /\ WF_vars(MoveStep(Move!Retired))
    /\ WF_vars(MoveStep(Move!Resolved)) /\ SF_vars(MoveStep(Move!RetireFundingV9Move))

Spec == Init /\ [][Next]_vars /\ Fairness

-----------------------------------------------------------------------------
(* readFundingWalletSSE and the two Run...Stream loops: no feed resumes    *)
(* past a change its consumer has not accepted.                            *)
FeedSound == part = "feed" => Feed!TypeOK /\ Feed!NothingSkipped

(* ReplayFeeds: every change is accepted in the end, through the           *)
(* reconnections, unless the feed stops for its caller to decide.          *)
ChangesServed ==
    \A i \in 1..MaxChanges :
       (part = "feed" /\ i <= Len(journal)) ~> (part = "feed" /\ Feed!Served(i))

(* ReplayFeeds: a wallet marked stale is described again.                  *)
StaleRefreshed ==
    \A w \in Wallets : (part = "feed" /\ w \in stale) ~> (part = "feed" /\ Feed!Refreshed(w))

(* A feed that reconnects catches up: with every change of the journal,    *)
(* and with every wallet a reset marked stale.                             *)
FeedServes == ChangesServed /\ StaleRefreshed

(* CreateFundingV9Move, RetireFundingV9Move, ResolveFundingV9Move: money   *)
(* asked for under one key after another moves once, and what the caller   *)
(* is told of a key is what became of it.                                  *)
MoveSound == part = "move" => Move!MoveSound

(* MoveRequest: a key that was sent is accepted or retired for the caller  *)
(* in the end, whatever replies were lost.                                 *)
KeySettles ==
    \A k \in Keys : (part = "move" /\ sends[k] > 0) ~> (part = "move" /\ Move!Settled(k))

(* HopVenues: a signature is over the fields the signer is shown, nobody   *)
(* signs for a hop the same call already made, and what is submitted goes  *)
(* with what was signed.                                                   *)
HopSound == part = "hop" => HopOf!HopSound
=============================================================================
