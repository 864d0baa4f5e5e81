---------------------------- MODULE CustodyProofs ----------------------------
(***************************************************************************)
(* Proofs about the three parts of MCCustody, for any wallets, changes,    *)
(* keys, callers and failures: a feed never resumes past a change its      *)
(* consumer has not accepted; the caller of a move is told the truth of a  *)
(* key, and its money moves once; what the owner of a hop signs is what it *)
(* is shown. Each part has an inductive invariant of its own, which the    *)
(* other parts' steps leave alone. At the end, three computations: the     *)
(* figures of a wallet (WalletMoney) count no money twice and take none    *)
(* back, for any routes and any number of frames; the candles of a range   *)
(* (CandleChunks) are exactly its own, for any calendar; and a chart is    *)
(* drawn at a rung that fits, with exact boundaries (ChartLadder).         *)
(***************************************************************************)
EXTENDS MCCustody, Algorithms, FiniteSetTheorems, WellFoundedInduction, TLAPS

-----------------------------------------------------------------------------
(* MoveRequest. *)

(* A reply that would be believed is true of the caller's key. *)
RepliesTrue ==
    mreply # NoReply =>
        /\ (call = "create" /\ mreply.status = "accepted") => ledger[key] = "admitted"
        /\ (call = "retire" /\ Move!Retirement(mreply) # "none") =>
              ledger[key] = IF Move!Retirement(mreply) = "accepted" THEN "admitted" ELSE "retired"
        /\ (call = "resolve" /\ Move!Resolution(mreply) \in {"accepted", "retired"}) =>
              ledger[key] = IF Move!Resolution(mreply) = "accepted" THEN "admitted" ELSE "retired"

(* The keys before the caller's are retired, those after it were never     *)
(* sent.                                                                   *)
InTurn ==
    /\ \A k \in Keys : net[k] <= sends[k]
    /\ \A k \in Keys : k < key => known[k] = "retired"
    /\ \A k \in Keys : k > key => sends[k] = 0 /\ ledger[k] = "absent"

MoveInv == Move!TypeOK /\ RepliesTrue /\ Move!ToldTruly /\ InTurn

-----------------------------------------------------------------------------
LEMMA MoveInitInv == ConstantsOK /\ Move!Init => MoveInv
BY DEF ConstantsOK, Move!Init, MoveInv, Move!TypeOK, RepliesTrue, Move!ToldTruly, InTurn,
  Move!Calls, Move!Verdicts

(* A call ends, and tells the caller nothing or what is true of its key.   *)
LEMMA MoveHeard ==
    ASSUME ConstantsOK, MoveInv, call' = "none", mreply' = NoReply,
           UNCHANGED <<ledger, expired, net, sends, key, bad>>,
           \/ known' = known
           \/ known' = [known EXCEPT ![key] = "accepted"] /\ ledger[key] = "admitted"
           \/ known' = [known EXCEPT ![key] = "retired"] /\ ledger[key] = "retired"
           \/ known' = [known EXCEPT ![key] = "absent"]
    PROVE  MoveInv'
<1> USE DEF MoveInv
<1>1. known' \in [Keys -> Move!Verdicts] /\ \A k \in Keys : k # key => known'[k] = known[k]
  BY DEF Move!TypeOK, Move!Verdicts
<1>2. Move!TypeOK' /\ RepliesTrue'
  BY <1>1 DEF Move!TypeOK, RepliesTrue, Move!Calls
<1>3. Move!ToldTruly'
  BY DEF Move!TypeOK, Move!ToldTruly
<1>4. InTurn'
  BY <1>1 DEF Move!TypeOK, InTurn, ConstantsOK
<1> QED
  BY <1>2, <1>3, <1>4

(* One step of the server or of the caller. *)
LEMMA MoveKept == ConstantsOK /\ MoveInv /\ [Move!Next]_(Move!vars) => MoveInv'
<1> SUFFICES ASSUME ConstantsOK, MoveInv, [Move!Next]_(Move!vars) PROVE MoveInv'
  OBVIOUS
<1> USE DEF MoveInv
<1>1. ASSUME NEW k \in Keys, Move!Admit(k) PROVE MoveInv'
  <2>1. Move!TypeOK'
    BY <1>1 DEF Move!Admit, Move!TypeOK, ConstantsOK
  <2>2. Move!ToldTruly' /\ InTurn'
    BY <1>1 DEF Move!Admit, Move!TypeOK, Move!ToldTruly, InTurn, ConstantsOK
  <2>3. \/ ledger' = ledger
        \/ ledger[k] = "absent" /\ ledger' = [ledger EXCEPT ![k] = "admitted"]
    BY <1>1 DEF Move!Admit
  <2>4. CASE call = "create" /\ key = k /\ mreply = NoReply
    <3>1. ledger'[key] # "admitted" => mreply' = [status |-> "refused"]
      BY <1>1, <2>4 DEF Move!Admit
    <3>2. mreply'.status = "accepted" => ledger'[key] = "admitted"
      BY <3>1
    <3> QED
      BY <1>1, <2>1, <2>2, <2>4, <3>2 DEF Move!Admit, RepliesTrue
  <2>5. CASE ~(call = "create" /\ key = k /\ mreply = NoReply)
    <3>1. UNCHANGED <<mreply, call, key>>
      BY <1>1, <2>5 DEF Move!Admit
    <3>2. ledger[key] # "absent" => ledger'[key] = ledger[key]
      BY <2>3 DEF Move!TypeOK
    <3>3. RepliesTrue'
      BY <3>1, <3>2 DEF RepliesTrue, Move!Retirement, Move!Resolution
    <3> QED
      BY <2>1, <2>2, <3>3
  <2> QED
    BY <2>4, <2>5
<1>2. ASSUME NEW k \in Keys, Move!Expire(k) PROVE MoveInv'
  BY <1>2 DEF Move!Expire, Move!TypeOK, RepliesTrue, Move!ToldTruly, InTurn, Move!Retirement,
    Move!Resolution
<1>3. CASE Move!Fence
  <2>1. Move!TypeOK' /\ Move!ToldTruly' /\ InTurn'
    BY <1>3 DEF Move!Fence, Move!TypeOK, Move!ToldTruly, InTurn, ConstantsOK, Move!Calls,
      Move!Verdicts
  <2>2. RepliesTrue'
    <3>1. CASE ledger[key] = "absent" /\ ~expired[key]
      <4>1. mreply' = [status |-> "refused"]
        BY <1>3, <3>1 DEF Move!Fence
      <4> QED
        BY <1>3, <4>1 DEF Move!Fence, RepliesTrue, Move!Retirement
    <3>2. CASE ~(ledger[key] = "absent" /\ ~expired[key])
      <4>1. ledger'[key] \in {"admitted", "retired"}
        BY <1>3, <3>2 DEF Move!Fence, Move!TypeOK
      <4>2. mreply' = [status |-> IF ledger'[key] = "admitted" THEN "accepted" ELSE "retired",
                       requestID |-> key, admission |-> ledger'[key] = "admitted"]
        BY <1>3, <3>2 DEF Move!Fence
      <4>3. UNCHANGED <<call, key>> /\ call = "retire"
        BY <1>3 DEF Move!Fence
      <4>4. CASE ledger'[key] = "admitted"
        <5>1. mreply'.status = "accepted" /\ mreply'.requestID = key /\ mreply'.admission
          BY <4>2, <4>4
        <5> QED
          BY <4>3, <4>4, <5>1 DEF RepliesTrue, Move!Retirement
      <4>5. CASE ledger'[key] = "retired"
        <5>1. mreply'.status = "retired" /\ mreply'.requestID = key /\ ~mreply'.admission
          BY <4>2, <4>5
        <5> QED
          BY <4>3, <4>5, <5>1 DEF RepliesTrue, Move!Retirement
      <4> QED
        BY <4>1, <4>4, <4>5
    <3> QED
      BY <3>1, <3>2
  <2> QED
    BY <2>1, <2>2
<1>4. CASE Move!Lookup
  <2>1. Move!TypeOK' /\ Move!ToldTruly' /\ InTurn'
    BY <1>4 DEF Move!Lookup, Move!TypeOK, Move!ToldTruly, InTurn
  <2>2. /\ mreply'.status = IF ledger[key] = "admitted" THEN "accepted" ELSE ledger[key]
        /\ mreply'.requestID = key /\ mreply'.admission = (ledger[key] = "admitted")
    BY <1>4 DEF Move!Lookup, Move!Says
  <2>3. RepliesTrue'
    BY <1>4, <2>2 DEF Move!Lookup, Move!TypeOK, RepliesTrue, Move!Resolution
  <2> QED
    BY <2>1, <2>3
<1>5. CASE Move!Garble
  <2>1. Move!TypeOK' /\ Move!ToldTruly' /\ InTurn'
    BY <1>5 DEF Move!Garble, Move!TypeOK, Move!ToldTruly, InTurn, ConstantsOK
  <2>2. \/ mreply'.requestID # key
        \/ mreply'.status = "accepted" /\ mreply'.admission = FALSE
        \/ mreply'.status = "retired" /\ mreply'.admission = TRUE
    BY <1>5 DEF Move!Garble, Move!Garbled
  <2>3. UNCHANGED <<key, call, ledger>> /\ call \in {"retire", "resolve"}
    BY <1>5 DEF Move!Garble
  <2>4. RepliesTrue'
    BY <2>2, <2>3 DEF RepliesTrue, Move!Retirement, Move!Resolution
  <2> QED
    BY <2>1, <2>4
<1>6. CASE Move!GivesUp
  BY <1>6 DEF Move!GivesUp, Move!TypeOK, RepliesTrue, Move!ToldTruly, InTurn, Move!Calls,
    ConstantsOK
<1>7. CASE Move!CreateFundingV9Move
  <2>1. sends[key] + 1 \in 0..MaxSends /\ net[key] + 1 \in 0..MaxSends
    BY <1>7 DEF Move!CreateFundingV9Move, Move!TypeOK, InTurn, ConstantsOK
  <2>2. Move!TypeOK' /\ RepliesTrue'
    BY <1>7, <2>1 DEF Move!CreateFundingV9Move, Move!TypeOK, RepliesTrue, Move!Calls
  <2>3. Move!ToldTruly' /\ InTurn'
    BY <1>7 DEF Move!CreateFundingV9Move, Move!TypeOK, Move!ToldTruly, InTurn, ConstantsOK
  <2> QED
    BY <2>2, <2>3
<1>8. CASE Move!Created
  <2>1. \/ known' = known
        \/ known' = [known EXCEPT ![key] = "accepted"] /\ ledger[key] = "admitted"
    BY <1>8 DEF Move!Created, Move!Told, RepliesTrue
  <2> QED
    BY <1>8, <2>1, MoveHeard DEF Move!Created
<1>9. CASE Move!RetireFundingV9Move \/ Move!ResolveFundingV9Move
  BY <1>9 DEF Move!RetireFundingV9Move, Move!ResolveFundingV9Move, Move!TypeOK, RepliesTrue,
    Move!ToldTruly, InTurn,
    Move!Calls
<1>10. CASE Move!Retired
  <2>1. Move!Retirement(mreply) \in {"none", "accepted", "retired"}
    BY DEF Move!Retirement
  <2>2. \/ known' = known
        \/ known' = [known EXCEPT ![key] = "accepted"] /\ ledger[key] = "admitted"
        \/ known' = [known EXCEPT ![key] = "retired"] /\ ledger[key] = "retired"
    BY <1>10, <2>1 DEF Move!Retired, Move!Told, RepliesTrue
  <2> QED
    BY <1>10, <2>2, MoveHeard DEF Move!Retired
<1>11. CASE Move!Resolved
  <2>1. Move!Resolution(mreply) \in Move!Verdicts
    BY DEF Move!Resolution, Move!Verdicts
  <2>2. \/ known' = known
        \/ known' = [known EXCEPT ![key] = "accepted"] /\ ledger[key] = "admitted"
        \/ known' = [known EXCEPT ![key] = "retired"] /\ ledger[key] = "retired"
        \/ known' = [known EXCEPT ![key] = "absent"]
    BY <1>11, <2>1 DEF Move!Resolved, Move!Told, RepliesTrue, Move!Verdicts
  <2> QED
    BY <1>11, <2>2, MoveHeard DEF Move!Resolved
<1>12. CASE Move!AskAgain
  <2>1. Move!TypeOK' /\ Move!ToldTruly'
    BY <1>12 DEF Move!AskAgain, Move!TypeOK, Move!ToldTruly
  <2>2. InTurn'
    BY <1>12 DEF Move!AskAgain, Move!TypeOK, InTurn, ConstantsOK
  <2>3. RepliesTrue'
    BY <1>12 DEF Move!AskAgain, RepliesTrue
  <2> QED
    BY <2>1, <2>2, <2>3
<1>13. CASE UNCHANGED Move!vars
  BY <1>13 DEF Move!vars, Move!TypeOK, RepliesTrue, Move!ToldTruly, InTurn, Move!Retirement,
    Move!Resolution
<1> QED
  BY <1>1, <1>2, <1>3, <1>4, <1>5, <1>6, <1>7, <1>8, <1>9, <1>10, <1>11, <1>12, <1>13
    DEF Move!Next

(* The keys before the caller's are fenced and those after it unused: only *)
(* its own can be admitted.                                                *)
LEMMA OnlyTheOwnKey ==
    ASSUME ConstantsOK, MoveInv, NEW k \in Keys, ledger[k] = "admitted"
    PROVE  k = key
<1>1. k = key \/ k < key \/ k > key
  BY DEF MoveInv, Move!TypeOK, ConstantsOK
<1> QED
  BY <1>1 DEF MoveInv, InTurn, Move!ToldTruly

(* CreateFundingV9Move, RetireFundingV9Move, ResolveFundingV9Move: whatever *)
(* replies are lost, late or not about the request, the money asked for    *)
(* under one key after another moves once, though creates that were given  *)
(* up still arrive, and what the caller is told of a key is what became of *)
(* it.                                                                     *)
THEOREM MoneyMovesOnce == Spec => []MoveSound
<1> DEFINE Inv == part = "move" => MoveInv
<1>1. Init => Inv
  BY ConstantsOK, MoveInitInv DEF Init
<1>2. Inv /\ [Next]_vars => Inv'
  <2> SUFFICES ASSUME Inv, [Next]_vars, part' = "move" PROVE MoveInv'
    OBVIOUS
  <2>1. part = "move" /\ [Move!Next]_(Move!vars)
    BY DEF Next, vars, FeedStep, MoveStep, HopStep, moveOnly, Move!vars
  <2> QED
    BY <2>1, ConstantsOK, MoveKept
<1>3. Inv => MoveSound
  <2> SUFFICES ASSUME MoveInv PROVE Move!MoveSound
    BY DEF MoveSound
  <2>1. Move!MovedOnce
    BY ConstantsOK, OnlyTheOwnKey DEF Move!MovedOnce
  <2> QED
    BY <2>1 DEF MoveInv, Move!MoveSound
<1> QED
  BY <1>1, <1>2, <1>3, PTL DEF Spec

-----------------------------------------------------------------------------
(* VenueHop. *)

(* A caller's signature is over its own proposal, and is made in one       *)
(* place; a caller whose plain transfer made the hop is through.           *)
InOrder ==
    \A c \in Callers :
        /\ hpc[c] \in {"start", "refused", "proposed"} => signature[c] = Nil
        /\ hpc[c] = "signed" => signature[c] = HopOf!DigestOf(proposal[c])
        /\ via = c => hpc[c] \in {"done", "error"}

(* Before anything went wrong, a caller has the server's own proposal.     *)
ServersOwn ==
    lost = 0 =>
        \A c \in Callers : hpc[c] \in {"proposed", "signed"} => \E n : proposal[c] = HopOf!Proposed(n)

(* Every caller has a proposal and a signature, or none of them. *)
Shaped == DOMAIN proposal = Callers /\ DOMAIN signature = Callers

HopInv ==
    HopOf!TypeOK /\ Shaped /\ InOrder /\ ServersOwn /\ HopOf!SignedAsShown /\ HopOf!NotSignedAgain /\ HopOf!SignedIsMade

-----------------------------------------------------------------------------
LEMMA HopInitInv == ConstantsOK /\ HopOf!Init => HopInv
<1> SUFFICES ASSUME ConstantsOK, HopOf!Init PROVE HopInv
  OBVIOUS
<1>1. HopOf!TypeOK
  <2>1. nonces \in 0..MaxNonces /\ lost \in 0..MaxLost
    BY DEF HopOf!Init, ConstantsOK
  <2> QED
    BY <2>1 DEF HopOf!Init, HopOf!TypeOK
<1>2. /\ Shaped /\ InOrder /\ ServersOwn /\ HopOf!SignedAsShown /\ HopOf!NotSignedAgain
      /\ HopOf!SignedIsMade
  BY DEF ConstantsOK, HopOf!Init, Shaped, InOrder, ServersOwn, HopOf!SignedAsShown,
    HopOf!NotSignedAgain, HopOf!SignedIsMade
<1> QED
  BY <1>1, <1>2 DEF HopInv

(* The server's own proposal, signed and submitted, is valid. *)
LEMMA HopOwnIsValid ==
    ASSUME NEW c \in Callers, NEW n, proposal[c] = HopOf!Proposed(n),
           signature[c] = HopOf!DigestOf(proposal[c])
    PROVE  HopOf!Valid(HopOf!Submitted(c))
<1> DEFINE d == IF asked = 0 THEN 1 ELSE asked
<1>1. /\ proposal[c].kernel = "known" /\ proposal[c].action = 11 /\ proposal[c].params = HopOf!Hop
      /\ proposal[c].nonce = n /\ proposal[c].deadline = d
  BY DEF HopOf!Proposed
<1>2. signature[c] = HopOf!OperatorActionDigest("known", 11, HopOf!TransferBetweenVenuesParamsHash(HopOf!Hop), n, d)
  BY <1>1 DEF HopOf!DigestOf
<1>3. /\ HopOf!Submitted(c).nonce = n /\ HopOf!Submitted(c).deadline = d
      /\ HopOf!Submitted(c).signature = signature[c]
  BY <1>1 DEF HopOf!Submitted
<1> QED
  BY <1>2, <1>3 DEF HopOf!Valid

LEMMA HopTransferStep ==
    ASSUME ConstantsOK, HopInv, NEW c \in Callers, HopOf!Transfer(c)
    PROVE  HopInv'
<1> USE DEF HopInv
<1>1. signature[c] = Nil
  BY DEF HopOf!Transfer, InOrder
<1>2. HopOf!TypeOK' /\ Shaped'
  BY DEF HopOf!Transfer, HopOf!Makes, HopOf!At, HopOf!TypeOK, Shaped, ConstantsOK
<1>3. InOrder'
  BY <1>1 DEF HopOf!Transfer, HopOf!Makes, HopOf!At, HopOf!TypeOK, InOrder, ConstantsOK,
    HopOf!DigestOf
<1>4. ServersOwn'
  BY DEF HopOf!Transfer, HopOf!Makes, HopOf!At, HopOf!TypeOK, ServersOwn, HopOf!Proposed,
    ConstantsOK
<1>5. HopOf!SignedAsShown' /\ HopOf!NotSignedAgain'
  BY <1>1 DEF HopOf!Transfer, HopOf!Makes, HopOf!At, HopOf!SignedAsShown, HopOf!NotSignedAgain,
    HopOf!DigestOf
<1>6. HopOf!SignedIsMade'
  BY <1>1 DEF HopOf!Transfer, HopOf!Makes, HopOf!At, HopOf!TypeOK, HopOf!SignedIsMade, ConstantsOK
<1> QED
  BY <1>2, <1>3, <1>4, <1>5, <1>6

LEMMA HopProposeStep ==
    ASSUME ConstantsOK, HopInv, NEW c \in Callers, HopOf!ProposeVenueHop(c)
    PROVE  HopInv'
<1> USE DEF HopInv
<1>1. hpc[c] = "refused" /\ signature[c] = Nil
  BY DEF HopOf!ProposeVenueHop, HopOf!Recoverable, InOrder
<1>2. HopOf!TypeOK' /\ Shaped'
  BY DEF HopOf!ProposeVenueHop, HopOf!TypeOK, Shaped, ConstantsOK
<1>3. \A b \in Callers : b # c => proposal'[b] = proposal[b] /\ hpc'[b] = hpc[b]
  <2>1. PICK p : proposal' = [proposal EXCEPT ![c] = p]
    BY DEF HopOf!ProposeVenueHop
  <2>2. hpc' = [hpc EXCEPT ![c] = "proposed"]
    BY DEF HopOf!ProposeVenueHop
  <2> QED
    BY <2>1, <2>2 DEF HopOf!TypeOK, Shaped
<1>4. hpc'[c] = "proposed" /\ UNCHANGED <<via, signature, asked, funds>>
  BY DEF HopOf!ProposeVenueHop, HopOf!TypeOK
<1>5. InOrder'
  BY <1>1, <1>3, <1>4 DEF InOrder, HopOf!DigestOf
<1>6. HopOf!SignedAsShown' /\ HopOf!NotSignedAgain'
  BY <1>1, <1>3, <1>4 DEF HopOf!SignedAsShown, HopOf!NotSignedAgain, HopOf!DigestOf
<1>7. lost' = 0 => lost = 0
  BY DEF HopOf!ProposeVenueHop, HopOf!TypeOK, ConstantsOK
<1>8. HopOf!SignedIsMade'
  BY <1>1, <1>3, <1>4, <1>7 DEF HopOf!SignedIsMade
<1>9. ServersOwn'
  <2> SUFFICES ASSUME lost' = 0, NEW b \in Callers, hpc'[b] \in {"proposed", "signed"}
               PROVE  \E n : proposal'[b] = HopOf!Proposed(n)'
    BY DEF ServersOwn
  <2>1. \A n : HopOf!Proposed(n)' = HopOf!Proposed(n)
    BY <1>4 DEF HopOf!Proposed
  <2>2. CASE b = c
    <3>1. proposal' = [proposal EXCEPT ![c] = HopOf!Proposed(nonces)]
      BY DEF HopOf!ProposeVenueHop, HopOf!TypeOK, ConstantsOK
    <3>2. c \in DOMAIN proposal
      BY DEF Shaped
    <3> QED
      BY <2>1, <2>2, <3>1, <3>2
  <2>3. CASE b # c
    BY <1>3, <1>7, <2>1, <2>3 DEF ServersOwn
  <2> QED
    BY <2>2, <2>3
<1> QED
  BY <1>2, <1>5, <1>6, <1>8, <1>9

LEMMA HopGivesUpStep ==
    ASSUME ConstantsOK, HopInv, NEW c \in Callers, HopOf!GivesUp(c)
    PROVE  HopInv'
<1> USE DEF HopInv
<1>1. hpc[c] \in {"refused", "proposed"} /\ signature[c] = Nil
  BY DEF HopOf!GivesUp, InOrder
<1>2. HopOf!TypeOK' /\ Shaped'
  BY DEF HopOf!GivesUp, HopOf!server, HopOf!TypeOK, Shaped, ConstantsOK
<1>3. InOrder' /\ HopOf!SignedAsShown' /\ HopOf!NotSignedAgain'
  BY <1>1 DEF HopOf!GivesUp, HopOf!server, HopOf!TypeOK, InOrder, HopOf!SignedAsShown,
    HopOf!NotSignedAgain, HopOf!DigestOf
<1>4. ServersOwn' /\ HopOf!SignedIsMade'
  BY <1>1 DEF HopOf!GivesUp, HopOf!server, HopOf!TypeOK, ServersOwn, HopOf!SignedIsMade,
    HopOf!Proposed, ConstantsOK
<1> QED
  BY <1>2, <1>3, <1>4

LEMMA HopSignStep ==
    ASSUME ConstantsOK, HopInv, NEW c \in Callers, HopOf!Sign(c)
    PROVE  HopInv'
<1> USE DEF HopInv
<1>1. HopOf!TypeOK' /\ Shaped'
  BY DEF HopOf!Sign, HopOf!At, HopOf!server, HopOf!TypeOK, Shaped
<1>2. proposal[c].kernel = "known" /\ proposal[c].digest = HopOf!DigestOf(proposal[c])
  BY DEF HopOf!Sign, HopOf!Verify
<1>3. signature'[c] = HopOf!DigestOf(proposal[c])
  BY <1>2 DEF HopOf!Sign, Shaped
<1>4. \A b \in Callers : b # c => signature'[b] = signature[b] /\ hpc'[b] = hpc[b]
  BY DEF HopOf!Sign, HopOf!At
<1>5. hpc[c] = "proposed" /\ hpc'[c] = "signed" /\ UNCHANGED <<via, proposal, asked, funds, lost>>
  BY DEF HopOf!Sign, HopOf!At, HopOf!server, HopOf!TypeOK
<1>6. InOrder'
  BY <1>3, <1>4, <1>5 DEF InOrder, HopOf!DigestOf
<1>7. HopOf!SignedAsShown'
  BY <1>2, <1>3, <1>4, <1>5 DEF HopOf!SignedAsShown, HopOf!DigestOf
<1>8. HopOf!NotSignedAgain'
  BY <1>4, <1>5 DEF HopOf!NotSignedAgain, InOrder
<1>9. ServersOwn' /\ HopOf!SignedIsMade'
  BY <1>4, <1>5 DEF ServersOwn, HopOf!SignedIsMade, HopOf!Proposed
<1> QED
  BY <1>1, <1>6, <1>7, <1>8, <1>9

LEMMA HopSubmitStep ==
    ASSUME ConstantsOK, HopInv, NEW c \in Callers, HopOf!submitVenueHop(c)
    PROVE  HopInv'
<1> USE DEF HopInv
<1>1. hpc[c] = "signed" /\ signature[c] = HopOf!DigestOf(proposal[c])
  BY DEF HopOf!submitVenueHop, InOrder
<1>2. HopOf!TypeOK' /\ Shaped'
  BY DEF HopOf!submitVenueHop, HopOf!At, HopOf!TypeOK, Shaped, ConstantsOK
<1>3. /\ hpc'[c] \in {"done", "error"} /\ (via' = via \/ via' = "signed")
      /\ UNCHANGED <<proposal, signature, asked, funds>>
      /\ \A b \in Callers : b # c => hpc'[b] = hpc[b]
  BY DEF HopOf!submitVenueHop, HopOf!At, HopOf!TypeOK
<1>4. InOrder' /\ HopOf!SignedAsShown' /\ HopOf!NotSignedAgain'
  BY <1>3 DEF InOrder, HopOf!SignedAsShown, HopOf!NotSignedAgain, HopOf!DigestOf, ConstantsOK
<1>5. lost' = 0 => lost = 0
  BY DEF HopOf!submitVenueHop, HopOf!TypeOK, ConstantsOK
<1>6. ServersOwn'
  BY <1>3, <1>5 DEF ServersOwn, HopOf!Proposed
<1>7. lost' = 0 /\ funds => hpc'[c] = "done"
  <2> SUFFICES ASSUME lost' = 0, funds PROVE hpc'[c] = "done"
    OBVIOUS
  <2>1. PICK n : proposal[c] = HopOf!Proposed(n)
    BY <1>1, <1>5 DEF ServersOwn
  <2>2. HopOf!Valid(HopOf!Submitted(c))
    BY <1>1, <2>1, HopOwnIsValid
  <2> QED
    BY <2>2 DEF HopOf!submitVenueHop, HopOf!At, HopOf!TypeOK, ConstantsOK
<1>8. HopOf!SignedIsMade'
  BY <1>3, <1>5, <1>7 DEF HopOf!SignedIsMade
<1> QED
  BY <1>2, <1>4, <1>6, <1>8

LEMMA HopKept ==
    ASSUME ConstantsOK, HopInv, [HopOf!Next]_(HopOf!vars)
    PROVE  HopInv'
<1>1. CASE \E c \in Callers : HopOf!Step(c)
  BY <1>1, HopTransferStep, HopProposeStep, HopGivesUpStep, HopSignStep, HopSubmitStep
    DEF HopOf!Step
<1>2. CASE HopOf!Arm
  BY <1>2 DEF HopOf!Arm, HopInv, HopOf!TypeOK, Shaped, InOrder, ServersOwn, HopOf!SignedAsShown,
    HopOf!NotSignedAgain, HopOf!SignedIsMade, HopOf!DigestOf, HopOf!Proposed
<1>3. CASE UNCHANGED HopOf!vars
  BY <1>3 DEF HopOf!vars, HopInv, HopOf!TypeOK, Shaped, InOrder, ServersOwn, HopOf!SignedAsShown,
    HopOf!NotSignedAgain, HopOf!SignedIsMade, HopOf!DigestOf, HopOf!Proposed
<1> QED
  BY <1>1, <1>2, <1>3 DEF HopOf!Next

(* HopVenues, Verify, submitVenueHop: whatever proposals the server sends  *)
(* and whatever replies are lost, a signature is over the digest of the    *)
(* fields the signer was shown, a caller whose plain transfer made the hop *)
(* never has it signed, and what was signed with a funded source and no    *)
(* loss is accepted.                                                       *)
THEOREM SignsWhatIsShown == Spec => []HopSound
<1> DEFINE Inv == part = "hop" => HopInv
<1>1. Init => Inv
  BY ConstantsOK, HopInitInv DEF Init
<1>2. Inv /\ [Next]_vars => Inv'
  <2> SUFFICES ASSUME Inv, [Next]_vars, part' = "hop" PROVE HopInv'
    OBVIOUS
  <2>1. part = "hop" /\ [HopOf!Next]_(HopOf!vars)
    BY DEF Next, vars, FeedStep, MoveStep, HopStep, hopOnly, HopOf!vars
  <2> QED
    BY <2>1, ConstantsOK, HopKept
<1>3. Inv => HopSound
  BY DEF HopInv, HopSound, HopOf!HopSound
<1> QED
  BY <1>1, <1>2, <1>3, PTL DEF Spec

-----------------------------------------------------------------------------
(* ReplayFeeds. *)

(* What the consumer has of change c, and what a frame will bring it. *)
Has(c) == IF feed = "observations" THEN c \in got ELSE shown[journal[c]] >= c

Describes(f) == f.event \in {"wallet", "snapshot"}

Brings(f, c) ==
    IF feed = "observations"
       THEN f.event = "changes" /\ f.from < c /\ c <= f.at
       ELSE Describes(f) /\ f.w = journal[c] /\ c <= f.at

(* Change c has been accepted, or one of the first n frames brings it. *)
Coming(n, c) == Has(c) \/ \E j \in 1..n : Brings(frames[j], c)

FrameEvents == {"wallet", "position", "caught_up", "wallet_error", "snapshot", "changes", "control"}
FrameSet == [event : FrameEvents, id : Nat, w : Wallets, from : Nat, at : Nat]

(* The events of each feed, and what their frames carry. *)
FeedFrames ==
    /\ frames \in Seq(FrameSet)
    /\ \A i \in 1..Len(frames) :
          /\ frames[i].at <= Len(journal)
          /\ feed = "wallets" => frames[i].event \in {"wallet", "position", "caught_up", "wallet_error"}
          /\ feed \in {"wallet", "account"} =>
                frames[i].event = "snapshot" /\ frames[i].w = Own /\ frames[i].id = frames[i].at
          /\ feed = "observations" => frames[i].event \in {"changes", "control"}
          /\ frames[i].event = "changes" => frames[i].id = frames[i].at /\ frames[i].from <= frames[i].at
    /\ feed # "wallets" => \A c \in 1..Len(journal) : journal[c] = Own

(* A later snapshot is of a later state, and none is older than what is    *)
(* shown.                                                                  *)
SnapshotsInOrder ==
    /\ \A w \in Wallets : shown[w] <= Len(journal)
    /\ \A j \in 1..Len(frames) : Describes(frames[j]) => shown[frames[j].w] <= frames[j].at
    /\ \A j, k \in 1..Len(frames) :
          j < k /\ Describes(frames[j]) /\ Describes(frames[k]) => frames[j].at <= frames[k].at

(* Whatever a position or a batch of changes presupposes is in the frames  *)
(* before it, and whatever the server counts as sent is in some frame.     *)
NothingMissing ==
    /\ \A i \in 1..Len(frames) : frames[i].event = "position" =>
          \A c \in 1..frames[i].at : Coming(i - 1, c)
    /\ \A i \in 1..Len(frames) : frames[i].event = "changes" =>
          \A c \in 1..frames[i].from : Coming(i - 1, c)
    /\ conn = "open" => \A c \in 1..sentTo : Coming(Len(frames), c)

UpTo(p) == \A c \in 1..p : Has(c)

FeedInv ==
    /\ Feed!TypeOK /\ FeedFrames /\ SnapshotsInOrder /\ NothingMissing
    /\ UpTo(cursor) /\ UpTo(persisted) /\ (pc = "reading" => UpTo(last))
-----------------------------------------------------------------------------
(* The community modules' Max, for a bounded set of naturals. *)
LEMMA MaxIs ==
    ASSUME NEW S \in SUBSET Nat, S # {}, NEW n \in Nat, \A y \in S : y <= n
    PROVE  Feed!Max(S) \in S /\ \A y \in S : Feed!Max(S) >= y
<1> DEFINE Bounds == {m \in Nat : \A y \in S : y <= m}
<1>1. PICK m \in Bounds : \A k \in Bounds : <<k, m>> \notin OpToRel(<, Nat)
  <2>1. n \in Bounds /\ Bounds \subseteq Nat
    OBVIOUS
  <2> QED
    BY <2>1, NatLessThanWellFounded, WFMin, Zenon
<1>2. \A k \in Bounds : ~(k < m)
  BY <1>1 DEF OpToRel
<1>3. m \in S
  <2> SUFFICES ASSUME m \notin S PROVE FALSE
    OBVIOUS
  <2>1. \A y \in S : y <= m - 1
    OBVIOUS
  <2>2. m - 1 \in Nat
    <3>1. PICK y \in S : y \in Nat
      OBVIOUS
    <3>2. y <= m - 1 /\ m \in Nat
      BY <2>1
    <3> QED
      BY <3>1, <3>2
  <2>3. m - 1 \in Bounds
    BY <2>1, <2>2
  <2> QED
    BY <1>2, <2>3
<1>4. \E x \in S : \A y \in S : x >= y
  BY <1>3
<1> QED
  BY <1>4, Zenon DEF Feed!Max

(* LastChange is the greatest change of w up to p. *)
LEMMA LastChangeIs ==
    ASSUME NEW w, NEW p \in Nat, journal \in Seq(Wallets)
    PROVE  /\ Feed!LastChange(w, p) \in Nat
           /\ \A c \in 1..Len(journal) : c <= p /\ journal[c] = w => Feed!LastChange(w, p) >= c
           /\ \/ Feed!LastChange(w, p) = 0
              \/ /\ Feed!LastChange(w, p) \in 1..Len(journal) /\ Feed!LastChange(w, p) <= p
                 /\ journal[Feed!LastChange(w, p)] = w
<1> DEFINE S == {0} \cup {i \in DOMAIN journal : i <= p /\ journal[i] = w}
<1>1. S \in SUBSET Nat /\ S # {} /\ \A y \in S : y <= p
  OBVIOUS
<1>2. Feed!Max(S) \in S /\ \A y \in S : Feed!Max(S) >= y
  BY <1>1, MaxIs
<1>3. Feed!LastChange(w, p) = Feed!Max(S)
  BY DEF Feed!LastChange
<1>4. /\ Feed!LastChange(w, p) \in S
      /\ \A y \in S : Feed!LastChange(w, p) >= y
  BY <1>2, <1>3
<1> HIDE DEF S
<1>5. /\ S \subseteq Nat
      /\ \A c \in 1..Len(journal) : c <= p /\ journal[c] = w => c \in S
      /\ \A c \in S : c = 0 \/ (c \in 1..Len(journal) /\ c <= p /\ journal[c] = w)
  BY DEF S
<1> QED
  BY <1>4, <1>5

(* HasUpTo, change by change. *)
LEMMA HasUpToIs ==
    ASSUME Feed!TypeOK, NEW p \in 0..Len(journal)
    PROVE  Feed!HasUpTo(p) <=> UpTo(p)
<1>1. journal \in Seq(Wallets) /\ shown \in [Wallets -> Feed!Positions] /\ p \in Nat
  BY DEF Feed!TypeOK
<1>2. CASE feed = "observations"
  BY <1>2 DEF Feed!HasUpTo, UpTo, Has
<1>3. CASE feed # "observations"
  <2>1. ASSUME Feed!HasUpTo(p), NEW c \in 1..p PROVE Has(c)
    <3>1. journal[c] \in Wallets /\ shown[journal[c]] \in Nat
      BY <1>1 DEF Feed!Positions
    <3>2. Feed!LastChange(journal[c], p) \in Nat /\ Feed!LastChange(journal[c], p) >= c
      BY <1>1, LastChangeIs
    <3>3. shown[journal[c]] >= Feed!LastChange(journal[c], p)
      BY <1>3, <2>1, <3>1 DEF Feed!HasUpTo
    <3> QED
      BY <1>3, <3>1, <3>2, <3>3 DEF Has
  <2>2. ASSUME UpTo(p), NEW w \in Wallets PROVE shown[w] >= Feed!LastChange(w, p)
    <3>1. shown[w] \in Nat
      BY <1>1 DEF Feed!Positions
    <3>2. CASE Feed!LastChange(w, p) = 0
      BY <3>1, <3>2
    <3>3. CASE Feed!LastChange(w, p) # 0
      <4>1. Feed!LastChange(w, p) \in 1..p /\ journal[Feed!LastChange(w, p)] = w
        BY <1>1, <3>3, LastChangeIs
      <4> QED
        BY <1>3, <2>2, <4>1 DEF UpTo, Has
    <3> QED
      BY <3>2, <3>3
  <2> QED
    BY <1>3, <2>1, <2>2 DEF Feed!HasUpTo, UpTo
<1> QED
  BY <1>2, <1>3

(* What FeedInv says is NothingSkipped. *)
LEMMA FeedInvSkips == FeedInv => Feed!NothingSkipped
BY HasUpToIs DEF FeedInv, Feed!NothingSkipped, Feed!TypeOK, Feed!Head0

(* The frames of some wallets: one of each, at the head of the journal. *)
LEMMA SnapshotsAre ==
    ASSUME ConstantsOK, NEW ws \in SUBSET Wallets
    PROVE  /\ \E n \in Nat : DOMAIN Feed!Snapshots(ws) = 1..n
           /\ \A i \in DOMAIN Feed!Snapshots(ws) : \E w \in ws :
                 Feed!Snapshots(ws)[i] = Feed!Frame("wallet", Len(journal), w, 0, Len(journal))
           /\ \A w \in ws : \E i \in DOMAIN Feed!Snapshots(ws) :
                 Feed!Snapshots(ws)[i] = Feed!Frame("wallet", Len(journal), w, 0, Len(journal))
<1> DEFINE n == Cardinality(ws)
           s == Feed!SetToSeq(ws)
<1>1. IsFiniteSet(ws) /\ n \in Nat /\ Feed!Cardinality(ws) = n
  <2>1. IsFiniteSet(ws) /\ n \in Nat
    BY FS_Subset, FS_CardinalityType DEF ConstantsOK
  <2>2. Feed!Cardinality(ws) = n
    BY DEF Feed!Cardinality, Cardinality
  <2> QED
    BY <2>1, <2>2
<1>2. \E f \in [1..n -> ws] : Feed!IsInjective(f)
  <2>1. ExistsBijection(1..n, ws)
    BY <1>1, FS_CardinalityType
  <2> QED
    BY <2>1 DEF ExistsBijection, Bijection, Injection, Surjection, Feed!IsInjective, IsInjective
<1>3. s \in [1..n -> ws] /\ Feed!IsInjective(s)
  BY <1>1, <1>2 DEF Feed!SetToSeq
<1>4. \A w \in ws : \E i \in 1..n : s[i] = w
  <2>1. s \in Injection(1..n, ws)
    BY <1>3 DEF Injection, IsInjective, Feed!IsInjective
  <2>2. IsFiniteSet(1..n) /\ Cardinality(1..n) = n
    BY <1>1, FS_Interval
  <2>3. s \in Surjection(1..n, ws)
    BY <1>1, <2>1, <2>2, FS_Injection
  <2> QED
    BY <2>3 DEF Surjection
<1>5. /\ DOMAIN Feed!Snapshots(ws) = 1..n
      /\ \A i \in 1..n : Feed!Snapshots(ws)[i] = Feed!Frame("wallet", Len(journal), s[i], 0, Len(journal))
  BY <1>1 DEF Feed!Snapshots, Feed!Head0
<1> QED
  BY <1>1, <1>3, <1>4, <1>5
(* The frames on their way are frames. *)
LEMMA FramesAre ==
    ASSUME FeedFrames
    PROVE  /\ Len(frames) \in Nat
           /\ \A i \in 1..Len(frames) :
                 /\ frames[i] \in FrameSet
                 /\ frames[i].at \in Nat /\ frames[i].from \in Nat /\ frames[i].id \in Nat
                 /\ frames[i].w \in Wallets /\ frames[i].at <= Len(journal)
<1>1. Len(frames) \in Nat /\ \A i \in 1..Len(frames) : frames[i] \in FrameSet
  BY DEF FeedFrames
<1>2. \A f \in FrameSet : f.at \in Nat /\ f.from \in Nat /\ f.id \in Nat /\ f.w \in Wallets
  BY DEF FrameSet
<1> QED
  BY <1>1, <1>2 DEF FeedFrames

(* What a frame the server sends now has. *)
Sent(f) ==
    /\ f.at <= Len(journal)
    /\ Describes(f) => f.at = Len(journal)
    /\ feed = "wallets" => f.event \in {"wallet", "position", "caught_up", "wallet_error"}
    /\ feed \in {"wallet", "account"} => f.event = "snapshot" /\ f.w = Own /\ f.id = f.at
    /\ feed = "observations" => f.event \in {"changes", "control"}
    /\ f.event = "changes" => f.id = f.at /\ f.from <= f.at

(* Frames are added: whatever was coming still is, and the frames are in   *)
(* order.                                                                  *)
LEMMA FramesAdded ==
    ASSUME FeedInv, UNCHANGED <<feed, journal, shown, got>>,
           frames' \in Seq(FrameSet), Len(frames') >= Len(frames),
           \A i \in 1..Len(frames) : frames'[i] = frames[i],
           \A i \in Len(frames)+1..Len(frames') : Sent(frames'[i])
    PROVE  /\ FeedFrames' /\ SnapshotsInOrder'
           /\ \A n \in 0..Len(frames) : \A c : Coming(n, c) => Coming(n, c)'
<1>1. /\ journal \in Seq(Wallets) /\ Len(journal) \in Nat
      /\ Len(frames) \in Nat /\ Len(frames') \in Nat
      /\ \A i \in 1..Len(frames') : frames'[i] \in FrameSet
  BY FramesAre DEF FeedInv, FeedFrames, Feed!TypeOK
<1>2. \A i \in 1..Len(frames') :
         \/ i \in 1..Len(frames) /\ frames'[i] = frames[i]
         \/ i > Len(frames) /\ i \in Len(frames)+1..Len(frames') /\ Sent(frames'[i])
  BY <1>1
<1>3. FeedFrames'
  BY <1>1, <1>2 DEF FeedInv, FeedFrames, Sent
<1>4. SnapshotsInOrder'
  <2>1. \A i \in 1..Len(frames') : /\ frames'[i].at \in Nat /\ frames'[i].w \in Wallets
                                   /\ frames'[i].at <= Len(journal)
                                   /\ i > Len(frames) /\ Describes(frames'[i]) => frames'[i].at = Len(journal)
    <3>1. \A f \in FrameSet : f.at \in Nat /\ f.w \in Wallets
      BY DEF FrameSet
    <3>2. \A i \in 1..Len(frames') : frames'[i].at <= Len(journal)
      BY <1>3 DEF FeedFrames
    <3> QED
      BY <1>1, <1>2, <3>1, <3>2 DEF Sent
  <2>2. \A w \in Wallets : shown[w] \in Nat /\ shown[w] <= Len(journal)
    BY DEF FeedInv, SnapshotsInOrder, Feed!TypeOK, Feed!Positions
  <2>3. \A j \in 1..Len(frames') : Describes(frames'[j]) => shown[frames'[j].w] <= frames'[j].at
    BY <1>2, <2>1, <2>2 DEF FeedInv, SnapshotsInOrder
  <2>4. \A j, k \in 1..Len(frames') :
           j < k /\ Describes(frames'[j]) /\ Describes(frames'[k]) => frames'[j].at <= frames'[k].at
    <3> SUFFICES ASSUME NEW j \in 1..Len(frames'), NEW k \in 1..Len(frames'), j < k,
                        Describes(frames'[j]), Describes(frames'[k])
                 PROVE  frames'[j].at <= frames'[k].at
      OBVIOUS
    <3>1. CASE k > Len(frames)
      BY <2>1, <3>1
    <3>2. CASE ~(k > Len(frames))
      <4>1. j \in 1..Len(frames) /\ k \in 1..Len(frames)
        BY <1>1, <3>2
      <4>2. frames'[j] = frames[j] /\ frames'[k] = frames[k]
        BY <4>1
      <4> QED
        BY <4>1, <4>2 DEF FeedInv, SnapshotsInOrder
    <3> QED
      BY <3>1, <3>2
  <2> QED
    BY <2>2, <2>3, <2>4 DEF SnapshotsInOrder, Describes
<1>5. ASSUME NEW n \in 0..Len(frames), NEW c, Coming(n, c) PROVE Coming(n, c)'
  <2>1. \A j \in 1..n : frames'[j] = frames[j]
    BY <1>1
  <2> QED
    BY <1>5, <2>1 DEF Coming, Has, Brings, Describes
<1> QED
  BY <1>3, <1>4, <1>5

(* What is coming in some frames is coming in more. *)
LEMMA ComingMore ==
    ASSUME NEW n \in Nat, NEW m \in Nat, n <= m, NEW c, Coming(n, c)'
    PROVE  Coming(m, c)'
BY DEF Coming

(* NothingMissing after frames were added, when the new ones have what     *)
(* they presuppose.                                                        *)
LEMMA StillNothingMissing ==
    ASSUME FeedInv, Len(frames') \in Nat, Len(frames') >= Len(frames),
           \A n \in 0..Len(frames) : \A c : Coming(n, c) => Coming(n, c)',
           \A i \in 1..Len(frames) : frames'[i] = frames[i],
           \A i \in Len(frames)+1..Len(frames') :
              /\ frames'[i].event = "position" => \A c \in 1..frames'[i].at : Coming(i - 1, c)'
              /\ frames'[i].event = "changes" => \A c \in 1..frames'[i].from : Coming(i - 1, c)',
           conn' = "open" => \A c \in 1..sentTo' : Coming(Len(frames), c)'
    PROVE  NothingMissing'
<1>1. Len(frames) \in Nat
  BY DEF FeedInv, FeedFrames
<1>2. ASSUME NEW i \in 1..Len(frames')
      PROVE  /\ frames'[i].event = "position" => \A c \in 1..frames'[i].at : Coming(i - 1, c)'
             /\ frames'[i].event = "changes" => \A c \in 1..frames'[i].from : Coming(i - 1, c)'
  <2>1. CASE i \in 1..Len(frames)
    <3>1. frames'[i] = frames[i] /\ i - 1 \in 0..Len(frames)
      BY <1>1, <2>1
    <3> QED
      BY <2>1, <3>1 DEF FeedInv, NothingMissing
  <2>2. CASE i \notin 1..Len(frames)
    BY <1>1, <2>2
  <2> QED
    BY <2>1, <2>2
<1> QED
  BY <1>2 DEF NothingMissing

(* A connection that is over keeps the frames before some place, or none.  *)
LEMMA FramesCut ==
    ASSUME FeedInv, UNCHANGED <<feed, journal, shown, got>>, conn' = "closed",
           NEW n \in 0..Len(frames), frames' = SubSeq(frames, 1, n)
    PROVE  FeedFrames' /\ SnapshotsInOrder' /\ NothingMissing'
<1>1. frames \in Seq(FrameSet)
  BY DEF FeedInv, FeedFrames
<1>2. /\ Len(frames') = n /\ frames' \in Seq(FrameSet) /\ \A i \in 1..n : frames'[i] = frames[i]
      /\ n \in Nat /\ 1..n \subseteq 1..Len(frames)
  BY <1>1
<1>3. FeedFrames' /\ SnapshotsInOrder'
  BY <1>2 DEF FeedInv, FeedFrames, SnapshotsInOrder, Describes
<1>4. ASSUME NEW i \in 1..n, NEW c, Coming(i - 1, c) PROVE Coming(i - 1, c)'
  <2>1. \A j \in 1..(i - 1) : frames'[j] = frames[j]
    BY <1>2
  <2> QED
    BY <1>4, <2>1 DEF Coming, Has, Brings, Describes
<1>5. NothingMissing'
  BY <1>2, <1>4 DEF FeedInv, NothingMissing
<1> QED
  BY <1>3, <1>5

LEMMA NoFramesIsCut ==
    ASSUME frames \in Seq(FrameSet) PROVE SubSeq(frames, 1, 0) = <<>> /\ 0 \in 0..Len(frames)
OBVIOUS

(* What the consumer has stays as it is. *)
LEMMA HasStays ==
    ASSUME FeedInv, UNCHANGED <<feed, journal, shown, got>>
    PROVE  \A p : UpTo(p) => UpTo(p)'
BY DEF UpTo, Has

LEMMA FeedInitInv == ConstantsOK /\ Feed!Init => FeedInv
<1> SUFFICES ASSUME ConstantsOK, Feed!Init PROVE FeedInv
  OBVIOUS
<1>1. Feed!TypeOK
  <2>1. full \in BOOLEAN /\ feed \in Feed!Kinds
    BY DEF Feed!Init
  <2>2. /\ journal \in Seq(Wallets) /\ Len(journal) = 0 /\ Len(frames) = 0
        /\ shown \in [Wallets -> Feed!Positions]
    BY DEF ConstantsOK, Feed!Init, Feed!Positions
  <2> QED
    BY <2>1, <2>2 DEF ConstantsOK, Feed!Init, Feed!TypeOK, Feed!Head0
<1>2. FeedFrames /\ SnapshotsInOrder /\ NothingMissing /\ UpTo(0)
  BY DEF ConstantsOK, Feed!Init, FeedFrames, SnapshotsInOrder, NothingMissing, UpTo
<1> QED
  BY <1>1, <1>2 DEF FeedInv, Feed!Init

(* A change, and what follows from it for the changes before. *)
LEMMA ChangeStep ==
    ASSUME ConstantsOK, FeedInv, NEW w \in Wallets, Feed!Change(w)
    PROVE  FeedInv'
<1> USE DEF FeedInv
<1>1. /\ Len(journal') = Len(journal) + 1 /\ Len(journal) \in Nat
      /\ \A c \in 1..Len(journal) : journal'[c] = journal[c]
      /\ journal'[Len(journal) + 1] = w /\ journal' \in Seq(Wallets)
      /\ Len(journal') <= MaxChanges
  BY DEF Feed!Change, Feed!TypeOK, Feed!Head0, ConstantsOK
<1>2. /\ UNCHANGED <<feed, oldest, conn, sentTo, full, frames, pc, last, cursor, persisted, shown,
                     got, stale, ffaults>>
      /\ feed # "wallets" => w = Own
  BY DEF Feed!Change, Feed!consumer
<1>3. Feed!TypeOK'
  <2>1. full' \in BOOLEAN
    BY <1>2 DEF Feed!TypeOK
  <2>2. /\ oldest' \in 0..Len(journal') /\ sentTo' \in 0..Len(journal')
        /\ last' \in 0..Len(journal')
        /\ cursor' \in 0..Len(journal') /\ persisted' \in 0..Len(journal')
        /\ got' \subseteq 1..Len(journal')
    BY <1>1, <1>2 DEF Feed!TypeOK, Feed!Head0
  <2>3. \A i \in 1..Len(frames) : frames[i].at <= Len(journal') /\ frames[i].w \in Wallets
    BY <1>1, FramesAre
  <2> QED
    BY <1>1, <1>2, <2>1, <2>2, <2>3 DEF Feed!TypeOK, Feed!Head0
<1>4. FeedFrames' /\ SnapshotsInOrder'
  <2>1. \A i \in 1..Len(frames) : frames[i].at \in Nat
    BY FramesAre
  <2>2. FeedFrames'
    <3>1. feed # "wallets" => \A c \in 1..Len(journal') : journal'[c] = Own
      BY <1>1, <1>2 DEF FeedFrames
    <3> QED
      BY <1>1, <1>2, <2>1, <3>1 DEF FeedFrames
  <2>3. \A u \in Wallets : shown[u] \in Nat
    BY DEF Feed!TypeOK, Feed!Positions
  <2> QED
    BY <1>1, <1>2, <2>2, <2>3 DEF SnapshotsInOrder, Describes
<1>5. ASSUME NEW n, NEW c \in 1..Len(journal), Coming(n, c) PROVE Coming(n, c)'
  BY <1>1, <1>2, <1>5 DEF Coming, Has, Brings, Describes
<1>6. NothingMissing'
  <2>1. \A i \in 1..Len(frames) : /\ frames[i].at \in Nat /\ frames[i].at <= Len(journal)
                                  /\ frames[i].from \in Nat
    BY FramesAre
  <2>2. \A i \in 1..Len(frames) : frames[i].event = "changes" => frames[i].from <= frames[i].at
    BY DEF FeedFrames
  <2>3. sentTo \in 0..Len(journal)
    BY DEF Feed!TypeOK, Feed!Head0
  <2>4. \A i \in 1..Len(frames) : frames[i].event = "position" => \A c \in 1..frames[i].at : Coming(i - 1, c)'
    BY <1>5, <2>1 DEF NothingMissing
  <2>5. \A i \in 1..Len(frames) : frames[i].event = "changes" => \A c \in 1..frames[i].from : Coming(i - 1, c)'
    BY <1>5, <2>1, <2>2 DEF NothingMissing
  <2>6. conn = "open" => \A c \in 1..sentTo : Coming(Len(frames), c)'
    BY <1>1, <1>2, <1>5, <2>3, SMTT(30) DEF NothingMissing
  <2> QED
    BY <1>2, <2>4, <2>5, <2>6 DEF NothingMissing
<1>7. \A p \in 0..Len(journal) : UpTo(p) => UpTo(p)'
  BY <1>1, <1>2 DEF UpTo, Has
<1>8. UpTo(cursor)' /\ UpTo(persisted)' /\ (pc' = "reading" => UpTo(last)')
  BY <1>2, <1>7 DEF Feed!TypeOK, Feed!Head0, UpTo
<1> QED
  BY <1>3, <1>4, <1>6, <1>8
(* What the actions of the connection leave of TypeOK. *)
LEMMA FeedTypes ==
    ASSUME Feed!TypeOK, FeedFrames', UNCHANGED <<feed, journal>>,
           oldest' \in 0..Len(journal), conn' \in {"closed", "open"}, sentTo' \in 0..Len(journal),
           full' \in BOOLEAN, pc' \in {"idle", "reading", "stopped"},
           last' \in 0..Len(journal), cursor' \in 0..Len(journal), persisted' \in 0..Len(journal),
           shown' \in [Wallets -> Feed!Positions], got' \subseteq 1..Len(journal),
           stale' \subseteq Wallets, ffaults' \in 0..FeedFaults
    PROVE  Feed!TypeOK'
<1>1. \A i \in 1..Len(frames') : frames'[i].at <= Len(journal') /\ frames'[i].w \in Wallets
  <2>1. /\ Len(frames') \in Nat
        /\ \A i \in 1..Len(frames') : frames'[i] \in FrameSet /\ frames'[i].at <= Len(journal')
    BY DEF FeedFrames
  <2>2. \A f \in FrameSet : f.w \in Wallets
    BY DEF FrameSet
  <2> QED
    BY <2>1, <2>2
<1> QED
  BY <1>1 DEF Feed!TypeOK, Feed!Head0

(* Retention, Refused, DialFails, Open. *)
LEMMA OpenStep ==
    ASSUME ConstantsOK, FeedInv, Feed!Open
    PROVE  FeedInv'
<1> USE DEF FeedInv
<1>1. /\ pc' = "reading" /\ last' = cursor /\ conn' = "open" /\ frames' = <<>> /\ sentTo' = cursor
      /\ UNCHANGED <<feed, journal, oldest, cursor, persisted, shown, got, stale, ffaults>>
  BY DEF Feed!Open, Feed!server, Feed!consumer
<1>2. full' \in BOOLEAN
  <2>1. Feed!Bootstrap \in BOOLEAN
    BY DEF Feed!Bootstrap
  <2> QED
    BY <2>1 DEF Feed!Open
<1>3. FeedFrames' /\ SnapshotsInOrder'
  BY <1>1 DEF FeedFrames, SnapshotsInOrder
<1>4. Feed!TypeOK'
  BY <1>1, <1>2, <1>3, FeedTypes DEF Feed!TypeOK, Feed!Head0
<1>5. \A p : UpTo(p) => UpTo(p)'
  BY <1>1, HasStays
<1>6. NothingMissing'
  <2>1. \A c \in 1..sentTo' : Has(c)'
    BY <1>1, <1>5 DEF UpTo
  <2> QED
    BY <1>1, <2>1 DEF NothingMissing, Coming
<1> QED
  BY <1>1, <1>3, <1>4, <1>5, <1>6 DEF UpTo

LEMMA QuietStep ==
    ASSUME ConstantsOK, FeedInv,
           Feed!Retention \/ Feed!Refused \/ Feed!DialFails \/ UNCHANGED Feed!vars
    PROVE  FeedInv'
<1> USE DEF FeedInv
<1>1. /\ UNCHANGED <<feed, journal, conn, sentTo, full, frames, last, cursor, persisted, shown,
                     got,
                     stale>>
      /\ pc' = pc \/ pc' = "stopped"
      /\ ffaults' = ffaults \/ (ffaults < FeedFaults /\ ffaults' = ffaults + 1)
      /\ oldest' = oldest \/ (oldest < Len(journal) /\ oldest' = oldest + 1)
  BY DEF Feed!Retention, Feed!Refused, Feed!DialFails, Feed!vars, Feed!server, Feed!consumer,
    Feed!Head0
<1>2. FeedFrames' /\ SnapshotsInOrder'
  BY <1>1 DEF FeedFrames, SnapshotsInOrder, Describes
<1>3. ffaults' \in 0..FeedFaults /\ oldest' \in 0..Len(journal)
  BY <1>1, SMTT(30) DEF Feed!TypeOK, Feed!Head0, ConstantsOK
<1>4. Feed!TypeOK'
  BY <1>1, <1>2, <1>3, FeedTypes DEF Feed!TypeOK, Feed!Head0
<1>5. NothingMissing'
  BY <1>1 DEF NothingMissing, Coming, Has, Brings, Describes
<1> QED
  BY <1>1, <1>2, <1>4, <1>5 DEF UpTo, Has

(* Lose, Restart, Eof and every way out of Read: the frames are cut.       *)
LEMMA CutStep ==
    ASSUME ConstantsOK, FeedInv, UNCHANGED <<feed, journal, oldest, sentTo, full, shown, got,
           persisted>>,
           conn' = "closed", NEW n \in 0..Len(frames), frames' = SubSeq(frames, 1, n),
           pc' \in {"idle", "reading", "stopped"}, stale' \subseteq Wallets,
           ffaults' = ffaults \/ (ffaults < FeedFaults /\ ffaults' = ffaults + 1),
           cursor' \in 0..Len(journal), UpTo(cursor'), last' \in 0..Len(journal),
           pc' = "reading" => pc = "reading" /\ last' = last
    PROVE  FeedInv'
<1> USE DEF FeedInv
<1>1. FeedFrames' /\ SnapshotsInOrder' /\ NothingMissing'
  BY FramesCut
<1>2. ffaults' \in 0..FeedFaults
  BY SMTT(30) DEF Feed!TypeOK, ConstantsOK
<1>3. Feed!TypeOK'
  BY <1>1, <1>2, FeedTypes DEF Feed!TypeOK, Feed!Head0
<1>4. UpTo(cursor)' /\ UpTo(persisted)' /\ (pc' = "reading" => UpTo(last)')
  BY DEF UpTo, Has
<1> QED
  BY <1>1, <1>3, <1>4
(* Where a disconnected feed resumes, the consumer has everything. *)
LEMMA ResumesKept ==
    ASSUME FeedInv, pc = "reading"
    PROVE  Feed!Resumes(last) \in 0..Len(journal) /\ UpTo(Feed!Resumes(last))
<1>1. /\ last \in 0..Len(journal) /\ cursor \in 0..Len(journal) /\ UpTo(last) /\ UpTo(cursor)
      /\ Len(journal) \in Nat
  BY DEF FeedInv, Feed!TypeOK, Feed!Head0
<1>2. Feed!Max({cursor, last}) \in {cursor, last}
  <2>1. {cursor, last} \in SUBSET Nat /\ {cursor, last} # {} /\ \A y \in {cursor, last} : y <= Len(journal)
    BY <1>1
  <2> QED
    BY <1>1, <2>1, MaxIs
<1> QED
  BY <1>1, <1>2 DEF Feed!Resumes

LEMMA CutsStep ==
    ASSUME ConstantsOK, FeedInv, Feed!Lose \/ Feed!Restart \/ Feed!Eof
    PROVE  FeedInv'
<1>1. CASE Feed!Lose
  <2>1. PICK n \in 0..Len(frames) : frames' = SubSeq(frames, 1, n)
    BY <1>1 DEF Feed!Lose
  <2> QED
    BY <1>1, <2>1, CutStep DEF Feed!Lose, Feed!server, Feed!consumer, FeedInv, Feed!TypeOK,
      Feed!Head0
<1>2. frames \in Seq(FrameSet)
  BY DEF FeedInv, FeedFrames
<1>3. CASE Feed!Restart
  <2>1. frames' = SubSeq(frames, 1, 0) /\ 0 \in 0..Len(frames)
    BY <1>2, <1>3, NoFramesIsCut DEF Feed!Restart
  <2> QED
    BY <1>3, <2>1, CutStep DEF Feed!Restart, Feed!server, Feed!consumer, FeedInv, Feed!TypeOK,
      Feed!Head0
<1>4. CASE Feed!Eof
  <2>1. frames' = SubSeq(frames, 1, 0) /\ 0 \in 0..Len(frames)
    BY <1>2, <1>4, NoFramesIsCut DEF Feed!Eof, Feed!Disconnected
  <2>2. cursor' \in 0..Len(journal) /\ UpTo(cursor')
    BY <1>4, ResumesKept DEF Feed!Eof, Feed!Disconnected
  <2> QED
    BY <1>4, <2>1, <2>2, CutStep
    DEF Feed!Eof, Feed!Disconnected, Feed!server, Feed!consumer, FeedInv, Feed!TypeOK, Feed!Head0
<1> QED
  BY <1>1, <1>3, <1>4

(* Everything up to the head of the journal is coming once frames were     *)
(* added for the changes after sentTo.                                     *)
LEMMA SentUp ==
    ASSUME ConstantsOK, FeedInv, conn = "open", UNCHANGED <<feed, journal, shown, got>>,
           frames' \in Seq(FrameSet), Len(frames') >= Len(frames),
           \A i \in 1..Len(frames) : frames'[i] = frames[i],
           \A i \in Len(frames)+1..Len(frames') : Sent(frames'[i]),
           NEW m \in Len(frames)..Len(frames'),
           \A c \in sentTo+1..Len(journal) : \E j \in 1..m : Brings(frames'[j], c)
    PROVE  \A c \in 1..Len(journal) : \A n \in m..Len(frames') : Coming(n, c)'
<1>1. /\ Len(frames) \in Nat /\ Len(frames') \in Nat /\ sentTo \in Nat /\ Len(journal) \in Nat
      /\ sentTo <= Len(journal)
  BY FramesAre DEF FeedInv, Feed!TypeOK, Feed!Head0
<1> SUFFICES ASSUME NEW c \in 1..Len(journal), NEW n \in m..Len(frames') PROVE Coming(n, c)'
  OBVIOUS
<1>2. CASE c \in 1..sentTo
  <2>1. Coming(Len(frames), c)
    BY <1>2 DEF FeedInv, NothingMissing
  <2>2. \A k \in 0..Len(frames) : \A d : Coming(k, d) => Coming(k, d)'
    BY FramesAdded
  <2>3. ASSUME NEW k \in Nat, k = Len(frames) PROVE Coming(k, c)'
    BY <1>1, <2>1, <2>2, <2>3
  <2> QED
    BY <1>1, <2>3, ComingMore
<1>3. CASE c \in sentTo+1..Len(journal)
  <2>1. PICK j \in 1..m : Brings(frames'[j], c)
    BY <1>3
  <2>2. j \in 1..n
    BY <1>1
  <2>3. Brings(frames[j], c)'
    BY <2>1 DEF Brings, Describes
  <2> QED
    BY <2>2, <2>3 DEF Coming
<1> QED
  BY <1>1, <1>2, <1>3

(* Two and three sequences in a row. *)
LEMMA Concatenated ==
    ASSUME NEW S, NEW s \in Seq(S), NEW t \in Seq(S)
    PROVE  /\ s \o t \in Seq(S) /\ Len(s \o t) = Len(s) + Len(t) /\ Len(s) \in Nat /\ Len(t) \in Nat
           /\ \A i \in 1..Len(s) : (s \o t)[i] = s[i]
<1>1. s \o t \in Seq(S) /\ Len(s \o t) = Len(s) + Len(t) /\ Len(t) \in Nat /\ Len(s) \in Nat
  OBVIOUS
<1>2. \A i \in 1..Len(s) : (s \o t)[i] = s[i]
  OBVIOUS
<1> QED
  BY <1>1, <1>2

LEMMA ConcatenatedEnd ==
    ASSUME NEW S, NEW s \in Seq(S), NEW t \in Seq(S), NEW i \in 1..Len(t)
    PROVE  (s \o t)[Len(s) + i] = t[i]
OBVIOUS

InARow(r, s, t, u, S) ==
    /\ r \in Seq(S) /\ Len(r) = Len(s) + Len(t) + Len(u)
    /\ \A i \in 1..Len(s) : r[i] = s[i]
    /\ \A i \in 1..Len(t) : r[Len(s) + i] = t[i]
    /\ \A i \in 1..Len(u) : r[Len(s) + Len(t) + i] = u[i]

LEMMA ThreeParts ==
    ASSUME NEW S, NEW s \in Seq(S), NEW t \in Seq(S), NEW u \in Seq(S)
    PROVE  InARow((s \o t) \o u, s, t, u, S)
<1> DEFINE st == s \o t
           r == st \o u
<1>1. /\ st \in Seq(S) /\ Len(st) = Len(s) + Len(t) /\ Len(s) \in Nat /\ Len(t) \in Nat
      /\ \A i \in 1..Len(s) : st[i] = s[i]
  BY Concatenated, Zenon
<1>2. \A i \in 1..Len(t) : st[Len(s) + i] = t[i]
  BY ConcatenatedEnd, Zenon
<1>3. r = st \o u /\ st \in Seq(S)
  BY <1>1
<1> HIDE DEF st, r
<1>4. /\ r \in Seq(S) /\ Len(r) = Len(st) + Len(u) /\ Len(u) \in Nat
      /\ \A i \in 1..Len(st) : r[i] = st[i]
  BY ONLY <1>3, u \in Seq(S), Concatenated, Zenon
<1>5. \A i \in 1..Len(u) : r[Len(st) + i] = u[i]
  BY ONLY <1>3, u \in Seq(S), ConcatenatedEnd, Zenon
<1>6. \A i \in 1..Len(t) : Len(s) + i \in 1..Len(st)
  BY <1>1
<1>7. \A i \in 1..Len(s) : i \in 1..Len(st)
  BY <1>1
<1>8. \A i \in 1..Len(t) : r[Len(s) + i] = t[i]
  BY <1>2, <1>4, <1>6, Zenon
<1>9. \A i \in 1..Len(s) : r[i] = s[i]
  BY <1>1, <1>4, <1>7, Zenon
<1>10. r \in Seq(S) /\ Len(r) = Len(s) + Len(t) + Len(u)
  BY <1>1, <1>4, Zenon
<1>11. \A i \in 1..Len(u) : r[Len(s) + Len(t) + i] = u[i]
  BY <1>1, <1>5, Zenon
<1>12. InARow(r, s, t, u, S)
  BY <1>8, <1>9, <1>10, <1>11 DEF InARow
<1> QED
  BY <1>12 DEF r, st

(* A frame and its fields. *)
LEMMA FrameIs ==
    ASSUME NEW e \in FrameEvents, NEW i \in Nat, NEW w \in Wallets, NEW a \in Nat, NEW b \in Nat
    PROVE  LET f == Feed!Frame(e, i, w, a, b)
           IN  /\ f \in FrameSet
               /\ f.event = e /\ f.id = i /\ f.w = w /\ f.from = a /\ f.at = b
BY DEF Feed!Frame, FrameSet

(* One frame is added. *)
LEMMA OneFrame ==
    ASSUME FeedInv, NEW f \in FrameSet, frames' = Append(frames, f)
    PROVE  /\ frames' \in Seq(FrameSet) /\ Len(frames') = Len(frames) + 1 /\ Len(frames) \in Nat
           /\ \A i \in 1..Len(frames) : frames'[i] = frames[i]
           /\ frames'[Len(frames) + 1] = f
BY DEF FeedInv, FeedFrames

(* The frames of a realm's wallets, and of what follows them. *)
LEMMA RealmFrames ==
    ASSUME ConstantsOK, FeedInv, NEW ws \in SUBSET Wallets, NEW more \in Seq(FrameSet),
           frames' = (frames \o Feed!Snapshots(ws)) \o more
    PROVE  \E m \in Nat :
              /\ m >= Len(frames) /\ Len(frames) \in Nat
              /\ frames' \in Seq(FrameSet) /\ Len(frames') = m + Len(more)
              /\ \A i \in 1..Len(frames) : frames'[i] = frames[i]
              /\ \A i \in Len(frames)+1..m : \E w \in ws :
                    frames'[i] = Feed!Frame("wallet", Len(journal), w, 0, Len(journal))
              /\ \A w \in ws : \E i \in Len(frames)+1..m :
                    frames'[i] = Feed!Frame("wallet", Len(journal), w, 0, Len(journal))
              /\ \A i \in 1..Len(more) : frames'[m + i] = more[i]
<1> DEFINE snaps == Feed!Snapshots(ws)
           snap(w) == Feed!Frame("wallet", Len(journal), w, 0, Len(journal))
<1>1. PICK k \in Nat : DOMAIN snaps = 1..k
  BY SnapshotsAre
<1>2. /\ \A i \in 1..k : \E w \in ws : snaps[i] = snap(w)
      /\ \A w \in ws : \E i \in 1..k : snaps[i] = snap(w)
  BY <1>1, SnapshotsAre
<1>3. \A w \in Wallets : snap(w) \in FrameSet
  <2>1. Len(journal) \in Nat
    BY DEF FeedInv, Feed!TypeOK
  <2>2. ASSUME NEW w \in Wallets
        PROVE  Feed!Frame("wallet", Len(journal), w, 0, Len(journal)) \in FrameSet
    <3>1. "wallet" \in FrameEvents /\ 0 \in Nat
      BY DEF FrameEvents
    <3> QED
      BY <2>1, <3>1, FrameIs
  <2> QED
    BY <2>2
<1>4. snaps \in Seq(FrameSet) /\ Len(snaps) = k
  <2>1. snaps = [i \in 1..k |-> snaps[i]]
    BY <1>1 DEF Feed!Snapshots
  <2>2. \A i \in 1..k : snaps[i] \in FrameSet
    BY <1>2, <1>3
  <2>3. snaps \in [1..k -> FrameSet]
    BY <2>1, <2>2
  <2> QED
    BY <2>3
<1> HIDE DEF snaps, snap
<1>5. frames \in Seq(FrameSet) /\ Len(frames) \in Nat
  BY DEF FeedInv, FeedFrames
<1>6. frames' = (frames \o snaps) \o more
  BY DEF snaps
<1>7. /\ frames' \in Seq(FrameSet) /\ Len(frames') = Len(frames) + k + Len(more)
      /\ \A i \in 1..Len(frames) : frames'[i] = frames[i]
      /\ \A i \in 1..k : frames'[Len(frames) + i] = snaps[i]
      /\ \A i \in 1..Len(more) : frames'[Len(frames) + k + i] = more[i]
  <2>1. snaps \in Seq(FrameSet) /\ frames \in Seq(FrameSet) /\ Len(snaps) = k
    BY <1>4, <1>5
  <2>2. InARow(frames', frames, snaps, more, FrameSet)
    BY ONLY <1>6, <2>1, more \in Seq(FrameSet), ThreeParts
  <2> QED
    BY <2>1, <2>2, Zenon DEF InARow
<1>8. ASSUME NEW i \in Len(frames)+1..Len(frames)+k PROVE \E w \in ws : frames'[i] = snap(w)
  <2>1. i - Len(frames) \in 1..k /\ i = Len(frames) + (i - Len(frames))
    BY <1>5
  <2> QED
    BY <1>2, <1>7, <2>1
<1>9. ASSUME NEW w \in ws PROVE \E i \in Len(frames)+1..Len(frames)+k : frames'[i] = snap(w)
  <2>1. PICK i \in 1..k : snaps[i] = snap(w)
    BY <1>2
  <2>2. Len(frames) + i \in Len(frames)+1..Len(frames)+k
    BY <1>5
  <2> QED
    BY <1>7, <2>1, <2>2
<1>10. Len(frames) + k \in Nat /\ Len(frames) + k >= Len(frames)
  BY <1>5
<1> QED
  BY <1>5, <1>7, <1>8, <1>9, <1>10 DEF snap

(* Frames are added that have what they presuppose. *)
LEMMA AddStep ==
    ASSUME ConstantsOK, FeedInv,
           UNCHANGED <<feed, journal, oldest, pc, last, cursor, persisted, shown, got, stale>>,
           conn' \in {"closed", "open"}, sentTo' \in 0..Len(journal), full' \in BOOLEAN,
           ffaults' = ffaults \/ (ffaults < FeedFaults /\ ffaults' = ffaults + 1),
           frames' \in Seq(FrameSet), Len(frames') >= Len(frames),
           \A i \in 1..Len(frames) : frames'[i] = frames[i],
           \A i \in Len(frames)+1..Len(frames') : Sent(frames'[i]),
           \A i \in Len(frames)+1..Len(frames') :
              /\ frames'[i].event = "position" => \A c \in 1..frames'[i].at : Coming(i - 1, c)'
              /\ frames'[i].event = "changes" => \A c \in 1..frames'[i].from : Coming(i - 1, c)',
           conn' = "open" => \A c \in 1..sentTo' : Coming(Len(frames), c)'
    PROVE  FeedInv'
<1>1. /\ FeedFrames' /\ SnapshotsInOrder'
      /\ \A n \in 0..Len(frames) : \A c : Coming(n, c) => Coming(n, c)'
  BY FramesAdded
<1>2. Len(frames') \in Nat
  OBVIOUS
<1>3. NothingMissing'
  BY <1>1, <1>2, StillNothingMissing
<1>4. ffaults' \in 0..FeedFaults
  BY DEF FeedInv, Feed!TypeOK, ConstantsOK
<1>5. Feed!TypeOK'
  BY <1>1, <1>4, FeedTypes DEF FeedInv, Feed!TypeOK, Feed!Head0
<1>6. UpTo(cursor)' /\ UpTo(persisted)' /\ (pc' = "reading" => UpTo(last)')
  BY DEF FeedInv, UpTo, Has
<1> QED
  BY <1>1, <1>3, <1>5, <1>6 DEF FeedInv

(* A snapshot frame of each wallet that is due brings what is not sent. *)
LEMMA DueBrings ==
    ASSUME ConstantsOK, FeedInv, feed = "wallets", NEW c \in sentTo+1..Len(journal)
    PROVE  journal[c] \in Feed!Due
<1>1. /\ journal \in Seq(Wallets) /\ sentTo \in Nat /\ Len(journal) \in Nat /\ c \in 1..Len(journal)
      /\ journal[c] \in Wallets
  BY DEF FeedInv, Feed!TypeOK, Feed!Head0
<1>2. /\ Feed!LastChange(journal[c], Len(journal)) \in Nat
      /\ Feed!LastChange(journal[c], Len(journal)) >= c
  BY <1>1, LastChangeIs
<1> QED
  BY <1>1, <1>2 DEF Feed!Due, Feed!Head0

(* A frame at the head of the journal. *)
LEMMA HeadFrame ==
    ASSUME ConstantsOK, FeedInv
    PROVE  \A e \in FrameEvents : \A w \in Wallets :
              /\ Feed!Frame(e, Len(journal), w, 0, Len(journal)) \in FrameSet
              /\ Feed!Frame(e, Len(journal), w, 0, Len(journal)).event = e
              /\ Feed!Frame(e, Len(journal), w, 0, Len(journal)).id = Len(journal)
              /\ Feed!Frame(e, Len(journal), w, 0, Len(journal)).w = w
              /\ Feed!Frame(e, Len(journal), w, 0, Len(journal)).at = Len(journal)
<1>1. Len(journal) \in Nat /\ 0 \in Nat
  BY DEF FeedInv, Feed!TypeOK
<1> QED
  BY ONLY <1>1, FrameIs

LEMMA EventsAre ==
    /\ "wallet" \in FrameEvents /\ "position" \in FrameEvents /\ "caught_up" \in FrameEvents
    /\ "wallet_error" \in FrameEvents /\ "snapshot" \in FrameEvents
    /\ "changes" \in FrameEvents /\ "control" \in FrameEvents
BY DEF FrameEvents

LEMMA SendWallets ==
    ASSUME ConstantsOK, FeedInv, Feed!Send, feed = "wallets"
    PROVE  FeedInv'
<1> DEFINE n == Len(journal)
           snap(w) == Feed!Frame("wallet", n, w, 0, n)
           pos == Feed!Frame("position", n, Own, 0, n)
           end == Feed!Frame("caught_up", n, Own, 0, n)
           more == IF n > 0 THEN <<pos, end>> ELSE <<end>>
<1>1. n \in Nat /\ Feed!Due \in SUBSET Wallets /\ Own \in Wallets
  BY DEF FeedInv, Feed!TypeOK, Feed!Due, ConstantsOK
<1>2. pos \in FrameSet /\ pos.event = "position" /\ pos.at = n
  BY <1>1, HeadFrame, EventsAre, Zenon
<1>3. end \in FrameSet /\ end.event = "caught_up" /\ end.at = n
  BY <1>1, HeadFrame, EventsAre, Zenon
<1>4. \A w \in Wallets : snap(w) \in FrameSet /\ snap(w).event = "wallet" /\ snap(w).at = n /\ snap(w).w = w
  BY <1>1, HeadFrame, EventsAre, Zenon
<1>5. /\ frames' = (frames \o Feed!Snapshots(Feed!Due)) \o more
      /\ sentTo' = n /\ full' = FALSE /\ conn = "open"
      /\ UNCHANGED <<feed, journal, oldest, conn, pc, last, cursor, persisted, shown, got, stale,
                     ffaults>>
  BY DEF Feed!Send, Feed!Head0, Feed!server, Feed!consumer
<1> HIDE DEF pos, end
<1>6. more \in Seq(FrameSet) /\ Len(more) \in Nat /\ \A i \in 1..Len(more) : more[i] \in {pos, end}
  BY <1>2, <1>3
<1> HIDE DEF n, snap, more
<1>7. PICK m \in Nat :
              /\ m >= Len(frames) /\ Len(frames) \in Nat
              /\ frames' \in Seq(FrameSet) /\ Len(frames') = m + Len(more)
              /\ \A i \in 1..Len(frames) : frames'[i] = frames[i]
              /\ \A i \in Len(frames)+1..m : \E w \in Feed!Due : frames'[i] = snap(w)
              /\ \A w \in Feed!Due : \E i \in Len(frames)+1..m : frames'[i] = snap(w)
              /\ \A i \in 1..Len(more) : frames'[m + i] = more[i]
  BY <1>1, <1>5, <1>6, RealmFrames DEF snap, n
<1>8. \A i \in Len(frames)+1..Len(frames') :
         \/ i \in Len(frames)+1..m /\ \E w \in Wallets : frames'[i] = snap(w)
         \/ i > m /\ frames'[i] \in {pos, end}
  <2> SUFFICES ASSUME NEW i \in Len(frames)+1..Len(frames'), ~(i \in Len(frames)+1..m)
               PROVE  i > m /\ frames'[i] \in {pos, end}
    BY <1>1, <1>7
  <2>1. i > m /\ i - m \in 1..Len(more) /\ m + (i - m) = i
    BY <1>6, <1>7
  <2> QED
    BY <1>6, <1>7, <2>1
<1>9. \A i \in Len(frames)+1..Len(frames') :
         /\ frames'[i].event \in {"wallet", "position", "caught_up"} /\ frames'[i].at = n
         /\ frames'[i].event = "position" => i > m
  BY <1>2, <1>3, <1>4, <1>8
<1>10. \A i \in Len(frames)+1..Len(frames') : Sent(frames'[i])
  <2>1. feed = "wallets" /\ n = Len(journal) /\ n <= n
    BY <1>1 DEF n
  <2> QED
    BY <1>9, <2>1 DEF Sent
<1>11. \A c \in sentTo+1..Len(journal) : \E j \in 1..m : Brings(frames'[j], c)
  <2> SUFFICES ASSUME NEW c \in sentTo+1..Len(journal) PROVE \E j \in 1..m : Brings(frames'[j], c)
    OBVIOUS
  <2>1. journal[c] \in Feed!Due /\ journal[c] \in Wallets
    BY <1>1, DueBrings
  <2>2. PICK j \in Len(frames)+1..m : frames'[j] = snap(journal[c])
    BY <1>7, <2>1
  <2>3. j \in 1..m /\ c <= n
    BY <1>7 DEF n
  <2> QED
    BY <1>4, <2>1, <2>2, <2>3 DEF Brings, Describes
<1>12. m \in Len(frames)..Len(frames') /\ Len(frames') >= Len(frames) /\ Len(frames') \in Nat
  BY <1>6, <1>7
<1>13. \A c \in 1..Len(journal) : \A k \in m..Len(frames') : Coming(k, c)'
  BY <1>5, <1>7, <1>10, <1>11, <1>12, SentUp
<1>14. ASSUME NEW i \in Len(frames)+1..Len(frames')
       PROVE  /\ frames'[i].event = "position" => \A c \in 1..frames'[i].at : Coming(i - 1, c)'
              /\ frames'[i].event = "changes" => \A c \in 1..frames'[i].from : Coming(i - 1, c)'
  <2>1. i > m => i - 1 \in m..Len(frames')
    BY <1>7, <1>12
  <2> QED
    BY <1>9, <1>13, <2>1 DEF n
<1>15. \A c \in 1..sentTo' : Coming(Len(frames), c)'
  <2>1. \A k : k = Len(frames') => k \in m..Len(frames')
    BY <1>12
  <2> QED
    BY <1>5, <1>13, <2>1 DEF n
<1>16. sentTo' \in 0..Len(journal) /\ full' \in BOOLEAN /\ conn' \in {"closed", "open"}
  <2>1. conn' \in {"closed", "open"}
    BY <1>5 DEF FeedInv, Feed!TypeOK
  <2>2. full' \in BOOLEAN
    BY <1>5
  <2> QED
    BY <1>1, <1>5, <2>1, <2>2 DEF n
<1> QED
  BY <1>5, <1>7, <1>10, <1>12, <1>14, <1>15, <1>16, AddStep

(* One frame is added that has what it presupposes. *)
LEMMA AppendStep ==
    ASSUME ConstantsOK, FeedInv,
           UNCHANGED <<feed, journal, oldest, pc, last, cursor, persisted, shown, got, stale>>,
           conn' \in {"closed", "open"}, sentTo' \in 0..Len(journal), full' \in BOOLEAN,
           ffaults' = ffaults \/ (ffaults < FeedFaults /\ ffaults' = ffaults + 1),
           NEW f \in FrameSet, frames' = Append(frames, f), Sent(f),
           f.event = "position" => \A c \in 1..f.at : Coming(Len(frames), c),
           f.event = "changes" => \A c \in 1..f.from : Coming(Len(frames), c),
           conn' = "open" => conn = "open" /\ \A c \in sentTo+1..sentTo' : Brings(f, c)
    PROVE  FeedInv'
<1> DEFINE n == Len(frames)
<1>1. /\ frames' \in Seq(FrameSet) /\ Len(frames') = n + 1 /\ n \in Nat
      /\ \A i \in 1..n : frames'[i] = frames[i]
      /\ frames'[n + 1] = f
  BY OneFrame
<1> HIDE DEF n
<1>2. /\ Len(frames') >= n /\ \A i \in n+1..Len(frames') : i = n + 1 /\ frames'[i] = f
      /\ n \in 0..n
  BY <1>1
<1>3. \A i \in n+1..Len(frames') : Sent(frames'[i])
  BY <1>2
<1>4. \A k \in 0..n : \A c : Coming(k, c) => Coming(k, c)'
  BY <1>1, <1>2, <1>3, FramesAdded DEF n
<1>5. \A c : Coming(n, c) => (\A k : k = n => Coming(k, c)')
  BY <1>2, <1>4
<1>6. \A i \in n+1..Len(frames') :
         /\ frames'[i].event = "position" => \A c \in 1..frames'[i].at : Coming(i - 1, c)'
         /\ frames'[i].event = "changes" => \A c \in 1..frames'[i].from : Coming(i - 1, c)'
  <2> SUFFICES ASSUME NEW i \in n+1..Len(frames')
               PROVE  /\ frames'[i].event = "position" => \A c \in 1..frames'[i].at : Coming(i - 1, c)'
                      /\ frames'[i].event = "changes" => \A c \in 1..frames'[i].from : Coming(i - 1, c)'
    OBVIOUS
  <2>1. i - 1 = n /\ frames'[i] = f
    BY <1>1, <1>2
  <2> QED
    BY <1>5, <2>1 DEF n
<1>7. ASSUME conn' = "open", NEW c \in 1..sentTo' PROVE Coming(Len(frames), c)'
  <2>1. sentTo \in Nat /\ sentTo' \in Nat
    BY DEF FeedInv, Feed!TypeOK, Feed!Head0
  <2>2. CASE c \in 1..sentTo
    <3>1. Coming(n, c)
      BY <1>7, <2>2 DEF FeedInv, NothingMissing, n
    <3>2. ASSUME NEW k, NEW l, k = n, l = Len(frames') PROVE Coming(l, c)'
      <4>1. Coming(k, c)'
        BY <1>5, <3>1, <3>2
      <4>2. k \in Nat /\ l \in Nat /\ k <= l
        BY <1>1, <3>2
      <4> QED
        BY <4>1, <4>2, ComingMore
    <3> QED
      BY <3>2
  <2>3. CASE c \in sentTo+1..sentTo'
    <3>1. Brings(f, c)
      BY <1>7, <2>3
    <3>3. n + 1 \in 1..Len(frames')
      BY <1>1
    <3> QED
      BY <1>1, <3>1, <3>3 DEF Coming, Brings, Describes
  <2> QED
    BY <2>1, <2>2, <2>3
<1> QED
  BY <1>1, <1>2, <1>3, <1>6, <1>7, AddStep DEF n

(* What a connection that may send leaves alone, in one place. *)
LEMMA SendOne ==
    ASSUME ConstantsOK, FeedInv, Feed!Send, feed # "wallets"
    PROVE  FeedInv'
<1>1. /\ Len(journal) \in Nat /\ sentTo \in 0..Len(journal) /\ Own \in Wallets
      /\ \A c \in 1..Len(journal) : journal[c] = Own
  BY DEF FeedInv, Feed!TypeOK, Feed!Head0, ConstantsOK, FeedFrames
<1>2. /\ sentTo' = Len(journal) /\ full' = FALSE /\ conn = "open" /\ conn' = "open"
      /\ UNCHANGED <<feed, journal, oldest, conn, pc, last, cursor, persisted, shown, got, stale,
                     ffaults>>
  BY DEF Feed!Send, Feed!Head0, Feed!server, Feed!consumer
<1>3. sentTo' \in 0..Len(journal) /\ full' \in BOOLEAN /\ conn' \in {"closed", "open"}
  <2>1. full' \in BOOLEAN
    BY <1>2
  <2> QED
    BY <1>1, <1>2, <2>1
<1>4. CASE feed \in {"wallet", "account"}
  <2> DEFINE f == Feed!Frame("snapshot", Len(journal), Own, 0, Len(journal))
  <2>1. /\ f \in FrameSet /\ f.event = "snapshot" /\ f.id = Len(journal) /\ f.w = Own
        /\ f.at = Len(journal)
    BY <1>1, HeadFrame, EventsAre, Zenon
  <2>2. frames' = Append(frames, f)
    BY <1>4 DEF Feed!Send, Feed!Head0
  <2> HIDE DEF f
  <2>3. Sent(f)
    BY <1>1, <1>4, <2>1 DEF Sent
  <2>4. \A c \in sentTo+1..sentTo' : Brings(f, c)
    BY <1>1, <1>2, <1>4, <2>1 DEF Brings, Describes
  <2> QED
    BY <1>2, <1>3, <2>1, <2>2, <2>3, <2>4, AppendStep
<1>5. CASE feed = "observations"
  <2> DEFINE f == Feed!Frame("changes", Len(journal), Own, sentTo, Len(journal))
  <2>1. /\ f \in FrameSet /\ f.event = "changes" /\ f.id = Len(journal) /\ f.w = Own
        /\ f.from = sentTo /\ f.at = Len(journal)
    <3>1. sentTo \in Nat /\ "changes" \in FrameEvents
      BY <1>1, EventsAre
    <3> QED
      BY ONLY <1>1, <3>1, FrameIs
  <2>2. frames' = Append(frames, f)
    BY <1>5 DEF Feed!Send, Feed!Head0
  <2> HIDE DEF f
  <2>3. Sent(f)
    BY <1>1, <1>5, <2>1 DEF Sent, Describes
  <2>4. \A c \in sentTo+1..sentTo' : Brings(f, c)
    BY <1>1, <1>2, <1>5, <2>1 DEF Brings
  <2>5. \A c \in 1..f.from : Coming(Len(frames), c)
    BY <1>2, <2>1 DEF FeedInv, NothingMissing
  <2> QED
    BY <1>2, <1>3, <2>1, <2>2, <2>3, <2>4, <2>5, AppendStep
<1> QED
  BY <1>4, <1>5 DEF FeedInv, Feed!TypeOK, Feed!Kinds

(* SendMismatch, SendReset. *)
LEMMA SendOdd ==
    ASSUME ConstantsOK, FeedInv, Feed!SendMismatch \/ Feed!SendReset
    PROVE  FeedInv'
<1>1. /\ Len(journal) \in Nat /\ sentTo \in 0..Len(journal) /\ Own \in Wallets /\ 0 \in Nat
      /\ sentTo \in Nat /\ Len(journal) + 1 \in Nat
  BY DEF FeedInv, Feed!TypeOK, Feed!Head0, ConstantsOK
<1>2. /\ UNCHANGED <<feed, journal, oldest, pc, last, cursor, persisted, shown, got, stale,
                     sentTo, full>>
      /\ ffaults' = ffaults \/ (ffaults < FeedFaults /\ ffaults' = ffaults + 1)
      /\ conn = "open"
  BY DEF Feed!SendMismatch, Feed!SendReset, Feed!server, Feed!consumer
<1>3. sentTo' \in 0..Len(journal) /\ full' \in BOOLEAN
  <2>1. full' \in BOOLEAN
    BY <1>2 DEF FeedInv, Feed!TypeOK
  <2> QED
    BY <1>1, <1>2, <2>1
<1>4. sentTo+1..sentTo' = {}
  BY <1>1, <1>2
<1>5. CASE Feed!SendMismatch
  <2> DEFINE f == Feed!Frame("position", Len(journal) + 1, Own, 0, sentTo)
  <2>1. f \in FrameSet /\ f.event = "position" /\ f.at = sentTo
    <3>1. "position" \in FrameEvents
      BY EventsAre
    <3> QED
      BY ONLY <1>1, <3>1, FrameIs
  <2>2. frames' = Append(frames, f) /\ feed = "wallets" /\ conn' = "open"
    BY <1>2, <1>5 DEF Feed!SendMismatch, Feed!Head0
  <2> HIDE DEF f
  <2>3. Sent(f)
    BY <1>1, <2>1, <2>2 DEF Sent, Describes
  <2>4. \A c \in 1..f.at : Coming(Len(frames), c)
    BY <1>2, <2>1 DEF FeedInv, NothingMissing
  <2> QED
    BY <1>2, <1>3, <1>4, <2>1, <2>2, <2>3, <2>4, AppendStep
<1>6. CASE Feed!SendReset
  <2> DEFINE f == Feed!Frame("control", 0, Own, 0, 0)
  <2>1. f \in FrameSet /\ f.event = "control" /\ f.at = 0
    <3>1. "control" \in FrameEvents
      BY EventsAre
    <3> QED
      BY ONLY <1>1, <3>1, FrameIs
  <2>2. frames' = Append(frames, f) /\ feed = "observations" /\ conn' = "closed"
    BY <1>6 DEF Feed!SendReset
  <2> HIDE DEF f
  <2>3. Sent(f)
    BY <1>1, <2>1, <2>2 DEF Sent, Describes
  <2> QED
    BY <1>2, <1>3, <2>1, <2>2, <2>3, AppendStep
<1> QED
  BY <1>5, <1>6

LEMMA SendErrorStep ==
    ASSUME ConstantsOK, FeedInv, Feed!SendError
    PROVE  FeedInv'
<1>1. PICK u \in Feed!Due : \E before \in SUBSET (Feed!Due \ {u}) :
         frames' = frames \o Feed!Snapshots(before) \o <<Feed!Frame("wallet_error", 0, u, 0, 0)>>
  BY DEF Feed!SendError
<1>2. PICK before \in SUBSET (Feed!Due \ {u}) :
         frames' = frames \o Feed!Snapshots(before) \o <<Feed!Frame("wallet_error", 0, u, 0, 0)>>
  BY <1>1
<1> DEFINE n == Len(journal)
           snap(w) == Feed!Frame("wallet", n, w, 0, n)
           end == Feed!Frame("wallet_error", 0, u, 0, 0)
           more == <<end>>
<1>3. n \in Nat /\ u \in Wallets /\ before \in SUBSET Wallets /\ 0 \in Nat
  BY DEF FeedInv, Feed!TypeOK, Feed!Due
<1>4. end \in FrameSet /\ end.event = "wallet_error" /\ end.at = 0
  <2>1. "wallet_error" \in FrameEvents
    BY EventsAre
  <2> QED
    BY ONLY <1>3, <2>1, FrameIs
<1>5. \A w \in Wallets : snap(w) \in FrameSet /\ snap(w).event = "wallet" /\ snap(w).at = n
  BY <1>3, HeadFrame, EventsAre, Zenon
<1> HIDE DEF end
<1>6. more \in Seq(FrameSet) /\ Len(more) = 1 /\ more[1] = end
  BY <1>4
<1>7. frames' = (frames \o Feed!Snapshots(before)) \o more
  BY <1>2 DEF end
<1> HIDE DEF n, snap, more
<1>8. PICK m \in Nat :
              /\ m >= Len(frames) /\ Len(frames) \in Nat
              /\ frames' \in Seq(FrameSet) /\ Len(frames') = m + Len(more)
              /\ \A i \in 1..Len(frames) : frames'[i] = frames[i]
              /\ \A i \in Len(frames)+1..m : \E w \in before : frames'[i] = snap(w)
              /\ \A w \in before : \E i \in Len(frames)+1..m : frames'[i] = snap(w)
              /\ \A i \in 1..Len(more) : frames'[m + i] = more[i]
  BY <1>3, <1>6, <1>7, RealmFrames DEF snap, n
<1>9. Len(frames') = m + 1 /\ frames'[m + 1] = end /\ Len(frames') >= Len(frames)
  BY <1>6, <1>8
<1>10. \A i \in Len(frames)+1..Len(frames') :
          /\ frames'[i].event \in {"wallet", "wallet_error"}
          /\ frames'[i].event = "wallet" => frames'[i].at = n
          /\ frames'[i].at \in {0, n}
  <2> SUFFICES ASSUME NEW i \in Len(frames)+1..Len(frames')
               PROVE  /\ frames'[i].event \in {"wallet", "wallet_error"}
                      /\ frames'[i].event = "wallet" => frames'[i].at = n
                      /\ frames'[i].at \in {0, n}
    OBVIOUS
  <2>1. i \in Len(frames)+1..m \/ i = m + 1
    BY <1>8, <1>9
  <2>2. CASE i = m + 1
    BY <1>4, <1>9, <2>2
  <2>3. CASE i \in Len(frames)+1..m
    BY <1>3, <1>5, <1>8, <2>3
  <2> QED
    BY <2>1, <2>2, <2>3
<1>11. /\ UNCHANGED <<feed, journal, oldest, pc, last, cursor, persisted, shown, got, stale,
                      sentTo, full>>
       /\ ffaults' = ffaults + 1 /\ ffaults < FeedFaults /\ conn' = "closed" /\ feed = "wallets"
  BY DEF Feed!SendError, Feed!server, Feed!consumer
<1>12. \A i \in Len(frames)+1..Len(frames') : Sent(frames'[i])
  <2>1. n = Len(journal) /\ 0 <= n /\ n <= n
    BY <1>3 DEF n
  <2> QED
    BY <1>10, <1>11, <2>1 DEF Sent, Describes
<1>13. \A i \in Len(frames)+1..Len(frames') :
          /\ frames'[i].event = "position" => \A c \in 1..frames'[i].at : Coming(i - 1, c)'
          /\ frames'[i].event = "changes" => \A c \in 1..frames'[i].from : Coming(i - 1, c)'
  BY <1>10
<1>14. full' \in BOOLEAN /\ sentTo' \in 0..Len(journal)
  <2>1. full' \in BOOLEAN
    BY <1>11 DEF FeedInv, Feed!TypeOK
  <2> QED
    BY <1>11, <2>1 DEF FeedInv, Feed!TypeOK, Feed!Head0
<1> QED
  BY <1>8, <1>9, <1>11, <1>12, <1>13, <1>14, AddStep

(* The frames after the first. *)
LEMMA TailIs ==
    ASSUME NEW S, NEW s \in Seq(S), s # <<>>
    PROVE  /\ Tail(s) \in Seq(S) /\ Len(Tail(s)) = Len(s) - 1 /\ Len(s) \in Nat /\ Len(s) >= 1
           /\ \A i \in 1..Len(s) - 1 : Tail(s)[i] = s[i + 1]
           /\ Head(s) = s[1]
OBVIOUS

(* A frame is accepted: what it brings, the consumer has; nothing it had   *)
(* is lost.                                                                *)
LEMMA AcceptedHas ==
    ASSUME ConstantsOK, FeedInv, frames # <<>>, Feed!Accepted(frames[1]), UNCHANGED <<feed,
           journal>>
    PROVE  /\ \A c \in 1..Len(journal) : Has(c) => Has(c)'
           /\ \A c \in 1..Len(journal) : Brings(frames[1], c) => Has(c)'
<1> DEFINE f == frames[1]
<1>1. /\ frames \in Seq(FrameSet) /\ 1 \in 1..Len(frames)
      /\ f.w \in Wallets /\ f.at \in Nat /\ f.from \in Nat /\ Len(frames) \in Nat
  <2>1. frames \in Seq(FrameSet)
    BY DEF FeedInv, FeedFrames
  <2>2. Len(frames) \in Nat /\ 1 \in 1..Len(frames)
    BY <2>1
  <2> QED
    BY <2>1, <2>2, FramesAre DEF FeedInv
<1>2. /\ shown \in [Wallets -> Nat] /\ journal \in Seq(Wallets)
      /\ \A c \in 1..Len(journal) : c \in Nat /\ journal[c] \in Wallets
  BY DEF FeedInv, Feed!TypeOK, Feed!Positions
<1>3. Describes(f) => shown[f.w] <= f.at
  BY <1>1 DEF FeedInv, SnapshotsInOrder
<1>4. /\ shown' = IF Describes(f) THEN [shown EXCEPT ![f.w] = f.at] ELSE shown
      /\ got' = IF f.event = "changes" THEN got \cup (f.from + 1)..f.at ELSE got
  BY DEF Feed!Accepted, Describes
<1>5. UNCHANGED <<feed, journal>>
  OBVIOUS
<1> HIDE DEF f
<1>6. \A w \in Wallets : shown'[w] \in Nat /\ shown'[w] >= shown[w]
  BY <1>1, <1>2, <1>3, <1>4
<1>7. ASSUME NEW c \in 1..Len(journal), Has(c) PROVE Has(c)'
  <2>1. CASE feed = "observations"
    BY <1>4, <1>5, <1>7, <2>1 DEF Has
  <2>2. CASE feed # "observations"
    <3>1. /\ shown[journal[c]] >= c /\ shown'[journal[c]] >= shown[journal[c]]
          /\ shown[journal[c]] \in Nat
          /\ shown'[journal[c]] \in Nat /\ c \in Nat
      BY <1>2, <1>6, <1>7, <2>2 DEF Has
    <3>2. shown'[journal[c]] >= c
      BY <3>1
    <3> QED
      BY <1>5, <2>2, <3>2 DEF Has
  <2> QED
    BY <2>1, <2>2
<1>8. ASSUME NEW c \in 1..Len(journal), Brings(f, c) PROVE Has(c)'
  <2>1. CASE feed = "observations"
    BY <1>1, <1>2, <1>4, <1>5, <1>8, <2>1 DEF Has, Brings
  <2>2. CASE feed # "observations"
    <3>1. Describes(f) /\ f.w = journal[c] /\ c <= f.at
      BY <1>8, <2>2 DEF Brings
    <3>2. shown'[journal[c]] = f.at
      BY <1>1, <1>2, <1>4, <3>1
    <3> QED
      BY <1>1, <1>2, <1>5, <2>2, <3>1, <3>2 DEF Has
  <2> QED
    BY <2>1, <2>2
<1> QED
  BY <1>7, <1>8 DEF f

(* The accepted frame leaves, and the ones after it move up. *)
LEMMA AcceptedComing ==
    ASSUME ConstantsOK, FeedInv, frames # <<>>, Feed!Accepted(frames[1]), UNCHANGED <<feed,
           journal>>,
           frames' = Tail(frames)
    PROVE  \A n \in 0..Len(frames) - 1 : \A c \in 1..Len(journal) : Coming(n + 1, c) => Coming(n, c)'
<1>1. frames \in Seq(FrameSet)
  BY DEF FeedInv, FeedFrames
<1>2. Len(frames) \in Nat /\ \A i \in 1..Len(frames) - 1 : frames'[i] = frames[i + 1]
  BY <1>1, TailIs
<1> SUFFICES ASSUME NEW n \in 0..Len(frames) - 1, NEW c \in 1..Len(journal), Coming(n + 1, c)
             PROVE  Coming(n, c)'
  OBVIOUS
<1>3. CASE Has(c) \/ Brings(frames[1], c)
  <2>1. Has(c)'
    BY <1>3, AcceptedHas
  <2> QED
    BY <2>1 DEF Coming
<1>4. CASE ~(Has(c) \/ Brings(frames[1], c))
  <2>1. PICK j \in 1..(n + 1) : Brings(frames[j], c)
    BY <1>4 DEF Coming
  <2>2. j # 1 /\ j - 1 \in 1..n /\ j - 1 \in 1..Len(frames) - 1 /\ (j - 1) + 1 = j
    BY <1>2, <1>4, <2>1
  <2>3. frames'[j - 1] = frames[j]
    BY <1>2, <2>2
  <2> QED
    BY <2>1, <2>2, <2>3 DEF Coming, Brings, Describes
<1> QED
  BY <1>3, <1>4

(* What is read from the first frame on was coming in none before it. *)
LEMMA NoneBefore ==
    ASSUME NEW c, Coming(0, c) PROVE Has(c)
BY DEF Coming

(* The positions an accepted frame moves. *)
LEMMA AcceptedUpTo ==
    ASSUME ConstantsOK, FeedInv, pc = "reading", frames # <<>>, Feed!Accepted(frames[1]),
           UNCHANGED <<feed, journal>>, ~Feed!Mismatched(frames[1]), frames[1].event # "control"
    PROVE  /\ \A p \in 0..Len(journal) : UpTo(p) => \A c \in 1..p : Has(c)'
           /\ frames[1].event \in {"position", "changes"} => \A c \in 1..frames[1].at : Has(c)'
           /\ Feed!Acknowledges(frames[1]) =>
                frames[1].id \in 0..Len(journal) /\ \A c \in 1..frames[1].id : Has(c)'
<1> DEFINE f == frames[1]
<1>1. /\ frames \in Seq(FrameSet) /\ 1 \in 1..Len(frames)
      /\ f.w \in Wallets /\ f.at \in Nat /\ f.from \in Nat /\ f.id \in Nat /\ f.at <= Len(journal)
      /\ Len(journal) \in Nat
  <2>1. frames \in Seq(FrameSet)
    BY DEF FeedInv, FeedFrames
  <2>2. Len(frames) \in Nat /\ 1 \in 1..Len(frames)
    BY <2>1
  <2>3. Len(journal) \in Nat
    BY DEF FeedInv, Feed!TypeOK
  <2> QED
    BY <2>1, <2>2, <2>3, FramesAre DEF FeedInv
<1>2. /\ feed = "wallets" => f.event \in {"wallet", "position", "caught_up", "wallet_error"}
      /\ feed \in {"wallet", "account"} => f.event = "snapshot" /\ f.w = Own /\ f.id = f.at
      /\ feed = "observations" => f.event \in {"changes", "control"}
      /\ f.event = "changes" => f.id = f.at /\ f.from <= f.at
      /\ feed # "wallets" => \A c \in 1..Len(journal) : journal[c] = Own
  BY <1>1 DEF FeedInv, FeedFrames
<1>3. /\ \A c \in 1..Len(journal) : Has(c) => Has(c)'
      /\ \A c \in 1..Len(journal) : Brings(f, c) => Has(c)'
  BY AcceptedHas
<1>4. \A p \in 0..Len(journal) : UpTo(p) => \A c \in 1..p : Has(c)'
  BY <1>1, <1>3 DEF UpTo
<1>5. /\ f.event = "position" => \A c \in 1..f.at : Coming(0, c)
      /\ f.event = "changes" => \A c \in 1..f.from : Coming(0, c)
  <2>1. 1 - 1 = 0
    OBVIOUS
  <2> QED
    BY <1>1, <2>1 DEF FeedInv, NothingMissing
<1>6. feed \in {"wallets", "wallet", "observations", "account"}
  BY DEF FeedInv, Feed!TypeOK, Feed!Kinds
<1>7. feed = "wallets" /\ f.event = "position" => f.id = f.at
  BY DEF Feed!Mismatched
<1>8. Feed!Acknowledges(f) => (feed = "wallets" => f.event = "position")
  BY DEF Feed!Acknowledges
<1>9. f.event # "control"
  OBVIOUS
<1> HIDE DEF f
<1>10. f.event = "position" => \A c \in 1..f.at : Has(c)'
  BY <1>1, <1>3, <1>5, NoneBefore
<1>11. ASSUME f.event = "changes", NEW c \in 1..f.at PROVE Has(c)'
  <2>1. feed = "observations" /\ c \in 1..Len(journal)
    BY <1>1, <1>2, <1>6, <1>11
  <2>2. CASE c <= f.from
    <3>1. c \in 1..f.from
      BY <1>1, <2>2
    <3> QED
      BY <1>3, <1>5, <1>11, <2>1, <3>1, NoneBefore
  <2>3. CASE f.from < c
    BY <1>1, <1>3, <1>11, <2>1, <2>3 DEF Brings
  <2> QED
    BY <1>1, <2>2, <2>3
<1>12. ASSUME f.event = "snapshot", NEW c \in 1..f.at PROVE Has(c)'
  <2>1. feed \in {"wallet", "account"} /\ c \in 1..Len(journal)
    BY <1>1, <1>2, <1>6, <1>12
  <2>2. journal[c] = Own /\ f.w = Own
    BY <1>2, <2>1
  <2> QED
    BY <1>1, <1>3, <1>12, <2>1, <2>2 DEF Brings, Describes
<1>13. f.event \in {"position", "changes"} => \A c \in 1..f.at : Has(c)'
  BY <1>10, <1>11
<1>14. Feed!Acknowledges(f) => f.id = f.at /\ f.event \in {"position", "changes", "snapshot"}
  BY <1>2, <1>6, <1>7, <1>8, <1>9
<1>15. Feed!Acknowledges(f) => f.id \in 0..Len(journal) /\ \A c \in 1..f.id : Has(c)'
  BY <1>1, <1>12, <1>13, <1>14
<1> QED
  BY <1>4, <1>13, <1>15 DEF f

LEMMA AcceptedFrames ==
    ASSUME ConstantsOK, FeedInv, frames # <<>>, Feed!Accepted(frames[1]),
           UNCHANGED <<feed, journal, conn, sentTo>>, frames' = Tail(frames)
    PROVE  FeedFrames' /\ SnapshotsInOrder' /\ NothingMissing'
<1> DEFINE n == Len(frames)
<1>1. /\ frames' \in Seq(FrameSet) /\ Len(frames') = n - 1 /\ n \in Nat /\ n >= 1
      /\ \A i \in 1..n - 1 : frames'[i] = frames[i + 1]
  BY TailIs DEF FeedInv, FeedFrames
<1>2. \A i \in 1..n - 1 : i + 1 \in 1..n
  BY <1>1
<1>3. \A i \in 1..n : /\ frames[i].at \in Nat /\ frames[i].at <= Len(journal) /\ frames[i].w \in Wallets
                      /\ frames[i].from \in Nat
  BY FramesAre DEF FeedInv
<1>4. UNCHANGED <<feed, journal, conn,
                  sentTo>> /\ Len(journal) \in Nat /\ sentTo \in 0..Len(journal)
  BY DEF FeedInv, Feed!TypeOK, Feed!Head0
<1>5. FeedFrames'
  BY <1>1, <1>2, <1>4 DEF FeedInv, FeedFrames
<1>6. SnapshotsInOrder'
  <2> DEFINE f == frames[1]
  <2>1. shown \in [Wallets -> Nat]
    BY DEF FeedInv, Feed!TypeOK, Feed!Positions
  <2>2. shown' = IF Describes(f) THEN [shown EXCEPT ![f.w] = f.at] ELSE shown
    BY DEF Feed!Accepted, Describes
  <2>3. 1 \in 1..n /\ f.at \in Nat /\ f.at <= Len(journal) /\ f.w \in Wallets
    BY <1>1, <1>3
  <2>4. \A j \in 1..n - 1 : Describes(f) /\ Describes(frames[j + 1]) => f.at <= frames[j + 1].at
    <3>1. \A j \in 1..n - 1 : 1 < j + 1
      BY <1>1
    <3> QED
      BY <1>2, <2>3, <3>1 DEF FeedInv, SnapshotsInOrder
  <2>5. \A j \in 1..n - 1 : Describes(frames[j + 1]) => shown[frames[j + 1].w] <= frames[j + 1].at
    BY <1>2 DEF FeedInv, SnapshotsInOrder
  <2>6. \A w \in Wallets : shown[w] <= Len(journal)
    BY DEF FeedInv, SnapshotsInOrder
  <2> HIDE DEF f, n
  <2>7. \A w \in Wallets : shown'[w] <= Len(journal)
    BY <2>1, <2>2, <2>3, <2>6
  <2>8. ASSUME NEW j \in 1..n - 1, Describes(frames[j + 1])
        PROVE  shown'[frames[j + 1].w] <= frames[j + 1].at
    <3>1. frames[j + 1].w \in Wallets /\ shown[frames[j + 1].w] <= frames[j + 1].at
      BY <1>2, <1>3, <2>5, <2>8
    <3>2. Describes(f) => f.at <= frames[j + 1].at
      BY <2>4, <2>8
    <3> QED
      BY <2>1, <2>2, <2>3, <3>1, <3>2
  <2>9. \A j, k \in 1..n - 1 :
           j < k /\ Describes(frames[j + 1]) /\ Describes(frames[k + 1])
           => frames[j + 1].at <= frames[k + 1].at
    <3>1. \A j, k \in 1..n - 1 : j < k => j + 1 < k + 1
      BY <1>1
    <3> QED
      BY <1>2, <3>1 DEF FeedInv, SnapshotsInOrder, n
  <2>10. \A j \in 1..Len(frames') : Describes(frames'[j]) => shown'[frames'[j].w] <= frames'[j].at
    BY <1>1, <2>8
  <2>11. \A j, k \in 1..Len(frames') :
            j < k /\ Describes(frames'[j]) /\ Describes(frames'[k]) => frames'[j].at <= frames'[k].at
    BY <1>1, <2>9
  <2> QED
    BY <1>4, <2>7, <2>10, <2>11 DEF SnapshotsInOrder, Describes
<1>7. NothingMissing'
  <2>1. \A k \in 0..n - 1 : \A c \in 1..Len(journal) : Coming(k + 1, c) => Coming(k, c)'
    BY AcceptedComing
  <2> HIDE DEF n
  <2>2. ASSUME NEW i \in 1..n - 1, NEW c \in 1..Len(journal), Coming((i + 1) - 1, c)
        PROVE  Coming(i - 1, c)'
    <3>1. i - 1 \in 0..n - 1 /\ (i + 1) - 1 = (i - 1) + 1
      BY <1>1
    <3> QED
      BY <2>1, <2>2, <3>1
  <2>3. \A i \in 1..n - 1 : frames[i + 1].event = "position" =>
           \A c \in 1..frames[i + 1].at : Coming(i - 1, c)'
    <3>1. \A i \in 1..n - 1 : frames[i + 1].event = "position" =>
             \A c \in 1..frames[i + 1].at : Coming((i + 1) - 1, c) /\ c \in 1..Len(journal)
      BY <1>2, <1>3, <1>4 DEF FeedInv, NothingMissing, n
    <3> QED
      BY <2>2, <3>1
  <2>4. \A i \in 1..n - 1 : frames[i + 1].event = "changes" =>
           \A c \in 1..frames[i + 1].from : Coming(i - 1, c)'
    <3>1. \A i \in 1..n - 1 : frames[i + 1].event = "changes" =>
             \A c \in 1..frames[i + 1].from : Coming((i + 1) - 1, c)
      BY <1>2 DEF FeedInv, NothingMissing, n
    <3>2. \A i \in 1..n - 1 : frames[i + 1].event = "changes" => frames[i + 1].from <= frames[i + 1].at
      BY <1>2 DEF FeedInv, FeedFrames, n
    <3>3. \A i \in 1..n - 1 : frames[i + 1].event = "changes" =>
             \A c \in 1..frames[i + 1].from : c \in 1..Len(journal)
      <4> SUFFICES ASSUME NEW i \in 1..n - 1, frames[i + 1].event = "changes",
                          NEW c \in 1..frames[i + 1].from
                   PROVE  c \in 1..Len(journal)
        OBVIOUS
      <4>1. /\ frames[i + 1].from \in Nat /\ frames[i + 1].at \in Nat
            /\ frames[i + 1].from <= frames[i + 1].at /\ frames[i + 1].at <= Len(journal)
        BY <1>2, <1>3, <3>2
      <4> QED
        BY <1>4, <4>1
    <3> QED
      BY <2>2, <3>1, <3>3
  <2>5. ASSUME conn = "open", NEW c \in 1..sentTo PROVE Coming(Len(frames), c)'
    <3>1. c \in 1..Len(journal) /\ Coming(n, c)
      BY <1>4, <2>5 DEF FeedInv, NothingMissing, n
    <3>2. \A k : k = Len(frames') => k \in 0..n - 1 /\ k + 1 = n
      BY <1>1
    <3> QED
      BY <2>1, <3>1, <3>2
  <2>6. \A i \in 1..Len(frames') : frames'[i] = frames[i + 1] /\ i \in 1..n - 1
    BY <1>1
  <2> QED
    BY <1>4, <2>3, <2>4, <2>5, <2>6 DEF NothingMissing
<1> QED
  BY <1>5, <1>6, <1>7

LEMMA AcceptedStep ==
    ASSUME ConstantsOK, FeedInv, pc = "reading", frames # <<>>, Feed!Accepted(frames[1]),
           ~Feed!Mismatched(frames[1]), frames[1].event # "control",
           UNCHANGED <<feed, journal, oldest, conn, sentTo, full, pc, cursor, ffaults>>,
           frames' = Tail(frames), last' = IF Feed!Acknowledges(frames[1]) THEN frames[1].id ELSE last
    PROVE  FeedInv'
<1> DEFINE f == frames[1]
<1>1. FeedFrames' /\ SnapshotsInOrder' /\ NothingMissing'
  BY AcceptedFrames
<1>2. /\ \A p \in 0..Len(journal) : UpTo(p) => \A c \in 1..p : Has(c)'
      /\ f.event \in {"position", "changes"} => \A c \in 1..f.at : Has(c)'
      /\ Feed!Acknowledges(f) => f.id \in 0..Len(journal) /\ \A c \in 1..f.id : Has(c)'
  BY AcceptedUpTo
<1>3. /\ f.w \in Wallets /\ f.at \in Nat /\ f.from \in Nat /\ f.at <= Len(journal)
      /\ Len(journal) \in Nat
  <2>1. 1 \in 1..Len(frames) /\ Len(journal) \in Nat
    BY TailIs DEF FeedInv, FeedFrames, Feed!TypeOK
  <2> QED
    BY <2>1, FramesAre DEF FeedInv
<1>4. /\ shown' = IF f.event \in {"wallet", "snapshot"} THEN [shown EXCEPT ![f.w] = f.at] ELSE shown
      /\ got' = IF f.event = "changes" THEN got \cup (f.from + 1)..f.at ELSE got
      /\ stale' \subseteq stale \cup {f.w}
      /\ persisted' = IF f.event \in {"position", "changes"} THEN f.at ELSE persisted
  BY DEF Feed!Accepted
<1>5. /\ UNCHANGED <<feed, journal, oldest, conn, sentTo, full, pc, cursor, ffaults>>
      /\ last' = IF Feed!Acknowledges(f) THEN f.id ELSE last
      /\ pc = "reading"
  OBVIOUS
<1> HIDE DEF f
<1>6. Feed!TypeOK'
  <2>1. full' \in BOOLEAN
    BY <1>5 DEF FeedInv, Feed!TypeOK
  <2>2. shown' \in [Wallets -> Feed!Positions]
    <3>1. f.at \in Feed!Positions /\ shown \in [Wallets -> Feed!Positions]
      BY <1>3 DEF FeedInv, Feed!TypeOK, Feed!Head0, Feed!Positions, ConstantsOK
    <3> QED
      BY <1>3, <1>4, <3>1
  <2>3. got' \subseteq 1..Len(journal)
    <3>1. got \subseteq 1..Len(journal)
      BY DEF FeedInv, Feed!TypeOK, Feed!Head0
    <3>2. (f.from + 1)..f.at \subseteq 1..Len(journal)
      BY <1>3
    <3> QED
      BY <1>4, <3>1, <3>2
  <2>4. stale' \subseteq Wallets
    BY <1>3, <1>4 DEF FeedInv, Feed!TypeOK
  <2>5. persisted' \in 0..Len(journal) /\ last' \in 0..Len(journal)
    BY <1>2, <1>3, <1>4, <1>5, SMTT(30) DEF FeedInv, Feed!TypeOK, Feed!Head0
  <2> QED
    BY <1>1, <1>5, <2>1, <2>2, <2>3, <2>4, <2>5, FeedTypes DEF FeedInv, Feed!TypeOK, Feed!Head0
<1>7. \A c \in 1..cursor : Has(c)'
  BY <1>2 DEF FeedInv, Feed!TypeOK, Feed!Head0
<1>8. \A c \in 1..persisted' : Has(c)'
  BY <1>2, <1>4 DEF FeedInv, Feed!TypeOK, Feed!Head0
<1>9. \A c \in 1..last' : Has(c)'
  BY <1>2, <1>5 DEF FeedInv, Feed!TypeOK, Feed!Head0
<1>10. UpTo(cursor)' /\ UpTo(persisted)' /\ UpTo(last)'
  BY <1>5, <1>7, <1>8, <1>9 DEF UpTo
<1> QED
  BY <1>1, <1>6, <1>10 DEF FeedInv

LEMMA ReadStep ==
    ASSUME ConstantsOK, FeedInv, Feed!Read
    PROVE  FeedInv'
<1>1. frames \in Seq(FrameSet) /\ frames # <<>> /\ Head(frames) = frames[1] /\ 1 \in 1..Len(frames)
  BY TailIs DEF FeedInv, FeedFrames, Feed!Read
<1>2. SubSeq(frames, 1, 0) = <<>> /\ 0 \in 0..Len(frames)
  BY <1>1, NoFramesIsCut
<1>3. pc = "reading" /\ UNCHANGED <<feed, journal, oldest, sentTo, full>>
  BY DEF Feed!Read, Feed!server
<1>4. Feed!Resumes(last) \in 0..Len(journal) /\ UpTo(Feed!Resumes(last))
  BY <1>3, ResumesKept
<1>5. /\ last \in 0..Len(journal) /\ cursor \in 0..Len(journal) /\ UpTo(cursor)
      /\ stale \subseteq Wallets
  BY DEF FeedInv, Feed!TypeOK, Feed!Head0
<1>6. ASSUME Feed!Disconnected(last) \/ Feed!Stops, UNCHANGED <<shown, got, persisted>>,
             stale' \subseteq Wallets,
             ffaults' = ffaults \/ (ffaults < FeedFaults /\ ffaults' = ffaults + 1)
      PROVE  FeedInv'
  <2>1. /\ frames' = SubSeq(frames, 1, 0) /\ conn' = "closed" /\ pc' \in {"idle", "stopped"}
        /\ last' = last /\ cursor' \in {cursor, Feed!Resumes(last)}
    BY <1>2, <1>6 DEF Feed!Disconnected, Feed!Stops
  <2>2. cursor' \in 0..Len(journal) /\ UpTo(cursor')
    BY <1>4, <1>5, <2>1
  <2> QED
    BY <1>2, <1>3, <1>5, <1>6, <2>1, <2>2, CutStep
<1> DEFINE f == frames[1]
<1>7. \/ /\ Feed!Disconnected(last) \/ Feed!Stops
         /\ UNCHANGED <<shown, got, persisted, stale>>
         /\ ffaults' = ffaults \/ (ffaults < FeedFaults /\ ffaults' = ffaults + 1)
      \/ /\ ~Feed!Mismatched(f) /\ f.event # "control" /\ Feed!Accepted(f) /\ UNCHANGED ffaults
         /\ f.event = "wallet_error" /\ Feed!Disconnected(last)
      \/ /\ ~Feed!Mismatched(f) /\ f.event # "control" /\ Feed!Accepted(f) /\ UNCHANGED ffaults
         /\ frames' = Tail(frames)
         /\ last' = IF Feed!Acknowledges(f) THEN f.id ELSE last
         /\ UNCHANGED <<pc, cursor, conn>>
  BY <1>1 DEF Feed!Read, Feed!consumer
<1>8. CASE /\ Feed!Disconnected(last) \/ Feed!Stops
           /\ UNCHANGED <<shown, got, persisted, stale>>
           /\ ffaults' = ffaults \/ (ffaults < FeedFaults /\ ffaults' = ffaults + 1)
  BY <1>5, <1>6, <1>8
<1>9. CASE /\ ~Feed!Mismatched(f) /\ f.event # "control" /\ Feed!Accepted(f) /\ UNCHANGED ffaults
           /\ f.event = "wallet_error" /\ Feed!Disconnected(last)
  <2>1. UNCHANGED <<shown, got, persisted>> /\ stale' \subseteq stale \cup {f.w}
    BY <1>9 DEF Feed!Accepted
  <2>2. f.w \in Wallets
    BY <1>1, FramesAre DEF FeedInv
  <2> QED
    BY <1>5, <1>6, <1>9, <2>1, <2>2
<1>10. CASE /\ ~Feed!Mismatched(f) /\ f.event # "control" /\ Feed!Accepted(f) /\ UNCHANGED ffaults
            /\ frames' = Tail(frames)
            /\ last' = IF Feed!Acknowledges(f) THEN f.id ELSE last
            /\ UNCHANGED <<pc, cursor, conn>>
  BY <1>1, <1>3, <1>10, AcceptedStep
<1> QED
  BY <1>7, <1>8, <1>9, <1>10

(* Every step of a feed keeps the invariant. *)
LEMMA FeedKept ==
    ASSUME ConstantsOK, FeedInv, [Feed!Next]_(Feed!vars)
    PROVE  FeedInv'
<1>1. CASE \E w \in Wallets : Feed!Change(w)
  BY <1>1, ChangeStep
<1>2. CASE Feed!Open
  BY <1>2, OpenStep
<1>3. CASE Feed!Send
  BY <1>3, SendWallets, SendOne
<1>4. CASE Feed!Retention \/ Feed!Refused \/ Feed!DialFails \/ UNCHANGED Feed!vars
  BY <1>4, QuietStep
<1>5. CASE Feed!SendError
  BY <1>5, SendErrorStep
<1>6. CASE Feed!SendMismatch \/ Feed!SendReset
  BY <1>6, SendOdd
<1>7. CASE Feed!Lose \/ Feed!Restart \/ Feed!Eof
  BY <1>7, CutsStep
<1>8. CASE Feed!Read
  BY <1>8, ReadStep
<1> QED
  BY <1>1, <1>2, <1>3, <1>4, <1>5, <1>6, <1>7, <1>8 DEF Feed!Next

(***************************************************************************)
(* FeedSound, for every set of wallets, every number of changes and faults: *)
(* no feed resumes past a change its consumer has not accepted.            *)
(***************************************************************************)
THEOREM FeedsSkipNothing == Spec => []FeedSound
<1> DEFINE Inv == part = "feed" => FeedInv
<1>1. Init => Inv
  BY ConstantsOK, FeedInitInv DEF Init
<1>2. Inv /\ [Next]_vars => Inv'
  <2> SUFFICES ASSUME Inv, [Next]_vars, part' = "feed" PROVE FeedInv'
    OBVIOUS
  <2>1. part = "feed" /\ [Feed!Next]_(Feed!vars)
    BY DEF Next, vars, FeedStep, MoveStep, HopStep, feedOnly, Feed!vars
  <2> QED
    BY <2>1, ConstantsOK, FeedKept
<1>3. Inv => FeedSound
  BY FeedInvSkips DEF FeedInv, FeedSound
<1> QED
  BY <1>1, <1>2, <1>3, PTL DEF Spec

-----------------------------------------------------------------------------
(* WalletMoney, a part of Algorithms. *)

Stages == {"none", "accepted", "expected", "reserved", "in_transit", "done", "failed"}

(* The way of an operation goes from one place to another. *)
RouteOK == \A o \in Money!Ops : /\ route[o] = <<Money!From(o), Money!To(o)>>
                                /\ Money!From(o) # Money!To(o)

(* The journal books at the account what the venue has executed. *)
Booked ==
    \A o \in Money!Ops :
       /\ Money!From(o) = "acct" /\ stage[o] \in {"in_transit", "done"} => o \in settled
       /\ Money!To(o) = "acct" /\ stage[o] = "done" => o \in settled
       /\ stage[o] = "failed" => o \notin settled
       /\ stage[o] = "expected" => Money!From(o) = "external"

(* A snapshot tells what had happened by its position. *)
SnapshotTrue(s) ==
    /\ s.kind = "snapshot" /\ s.seq \in 0..clock /\ s.fills \in 0..fills
    /\ s.stage \in [Money!Ops -> Stages]
    /\ \A o \in Money!Ops :
          /\ Money!From(o) = "acct" /\ s.stage[o] \in {"in_transit", "done"} => o \in settled
          /\ Money!To(o) = "acct" /\ s.stage[o] = "done" => o \in settled
          /\ s.stage[o] = "failed" => stage[o] = "failed"
          /\ s.stage[o] = "expected" => Money!From(o) = "external"
          /\ s.stage[o] \notin {"none", "accepted"} => stage[o] \notin {"none", "accepted"}
          /\ s.wallet # "own" => s.stage[o] = "none"
    /\ s.seq = clock => s.fills = fills /\ (s.wallet = "own" => s.stage = stage)

(* What the venue holds of an operation that it has executed or not. *)
Held(o, done) ==
    (Money!From(o) = "acct" /\ ~done) \/ (Money!To(o) = "acct" /\ done)

FrameTrue(v) ==
    /\ v.kind = "venue" /\ v.at \in 0..clock /\ v.equity.fills \in 0..fills
    /\ v.at = clock => /\ v.equity.fills = fills
                       /\ \A o \in Money!Ops : o \in v.equity.ops <=> Held(o, o \in settled)

(* A later venue frame has what an earlier snapshot says is executed, and  *)
(* not what it says has failed. *)
VenueAhead(s, v) ==
    v.at >= s.seq =>
        /\ v.equity.fills >= s.fills
        /\ \A o \in Money!Ops :
              /\ Money!From(o) = "acct" /\ s.stage[o] \in {"in_transit", "done"} =>
                    o \notin v.equity.ops
              /\ Money!To(o) = "acct" /\ s.stage[o] = "done" => o \in v.equity.ops
              /\ Money!To(o) = "acct" /\ s.stage[o] = "failed" => o \notin v.equity.ops
              /\ Money!From(o) # "acct" /\ Money!To(o) # "acct" => o \notin v.equity.ops

(* No operation leaves the journal again. *)
Grows(s, t) ==
    s.seq <= t.seq /\ s.wallet = t.wallet => Money!Framed(s) \subseteq Money!Framed(t)

Agree(m, n) ==
    /\ m.kind = "snapshot" /\ n.kind = "venue" => VenueAhead(m, n)
    /\ m.kind = "snapshot" /\ n.kind = "snapshot" => Grows(m, n)

(* The snapshots and venue frames that are still in use. *)
InUse ==
    mwire \cup (IF frame = Nothing THEN {} ELSE {frame})
         \cup (IF money = Nothing THEN {} ELSE {money.snap})

InUseTrue ==
    /\ \A m \in InUse : SnapshotTrue(m) \/ FrameTrue(m)
    /\ \A m, n \in InUse : Agree(m, n)
    /\ frame # Nothing => frame.kind = "venue"
    /\ money # Nothing => money.snap.kind = "snapshot"

LegsOf(s, accepted, f) ==
    Money!FramedLegs(s, f)
        \cup UNION {Money!moneyPredictedLegs(o, f) : o \in Money!Unframed(s, accepted)}

(* What is shown was composed from what the product holds now. *)
Composed ==
    money # Nothing =>
        /\ money.settled = [f \in Money!Figures |-> Money!Settled(money.snap, f)]
        /\ money.legs = [f \in Money!Figures |-> LegsOf(money.snap, preds, f)]
        /\ money.revalued = Money!moneyRevalue(money.snap,
              {l \in Money!FramedLegs(money.snap, "acct") : l.dir = "incoming"}, frame)

MoneyInv ==
    /\ Money!TypeOK /\ RouteOK /\ Booked /\ InUseTrue /\ Composed
    /\ Money!FramesAdvance /\ Money!VenueBlamedRightly /\ Money!OperationBlamedRightly

-----------------------------------------------------------------------------
(* The legs of a figure. *)

LEMMA PlaceOf ==
    ASSUME NEW e
    PROVE  /\ Money!Listed(e) <=> e \in {"cash", "acct"}
           /\ Money!CrossesWallet(e) <=> e \in {"othercash", "external"}
<1>1. CASE e = "cash"
  BY <1>1, SMT DEF Money!Listed, Money!CrossesWallet, Money!moneyCounterparty
<1>2. CASE e = "acct"
  BY <1>2, SMT DEF Money!Listed, Money!CrossesWallet, Money!moneyCounterparty
<1>3. CASE e \in {"othercash", "external"}
  BY <1>3, SMT DEF Money!Listed, Money!CrossesWallet, Money!moneyCounterparty
<1>4. CASE e \notin {"cash", "acct", "othercash", "external"}
  BY <1>4, SMT DEF Money!Listed, Money!CrossesWallet, Money!moneyCounterparty
<1> QED
  BY <1>1, <1>2, <1>3, <1>4

(* Cash's own money in flight crosses the wallet. *)
LEMMA OwnEnds ==
    ASSUME NEW s, NEW o
    PROVE  /\ Money!OwnSend(o) => Money!From(o) = "cash" /\ Money!To(o) = "external"
           /\ Money!PendingIn(s, o) => Money!From(o) = "external" /\ Money!To(o) = "cash"
BY DEF Money!OwnSend, Money!PendingIn, Money!From, Money!To

(* The legs of an operation at an end. *)
EndLegs(o, st, f) ==
    {l \in {Money!Departing(o, st, FALSE)} :
        Money!From(o) = f /\ (st = "reserved" \/ (st = "in_transit" /\ ~Money!Listed(Money!To(o))))}
    \cup {l \in {Money!Arriving(o, st, FALSE)} : Money!To(o) = f}

LEMMA LegsByEnd ==
    ASSUME NEW s, NEW f, NEW l
    PROVE  l \in Money!moneyLegsByEnd(s, f) <=>
             \E o \in Money!Moving(s) :
                l \in IF f = "total" THEN Money!AtTotal(o, s.stage[o], FALSE)
                                     ELSE EndLegs(o, s.stage[o], f)
BY Zenon DEF Money!moneyLegsByEnd, EndLegs

(* A leg of the journal is of an operation on its way, in its stage. *)
LEMMA FramedLegIs ==
    ASSUME NEW s, NEW f \in Money!Figures, NEW l \in Money!FramedLegs(s, f)
    PROVE  /\ l.op \in Money!Ops /\ s.stage[l.op] \in {"reserved", "in_transit", "expected"}
           /\ l = Money!Leg(l.op, l.dir, s.stage[l.op], FALSE)
<1>1. CASE l \in Money!moneyLegsByEnd(s, f)
  <2>1. PICK o \in Money!Moving(s) :
           l \in IF f = "total" THEN Money!AtTotal(o, s.stage[o], FALSE)
                                ELSE EndLegs(o, s.stage[o], f)
    BY <1>1, LegsByEnd
  <2>2. l \in {Money!Departing(o, s.stage[o], FALSE), Money!Arriving(o, s.stage[o], FALSE)}
    BY <2>1 DEF EndLegs, Money!AtTotal
  <2> QED
    BY <2>2 DEF Money!Departing, Money!Arriving, Money!Leg, Money!Moving
<1>2. CASE l \in Money!moneyCashOwnLegs(s)
  BY <1>2 DEF Money!moneyCashOwnLegs, Money!Departing, Money!Arriving, Money!Leg, Money!PendingIn
<1> QED
  BY <1>1, <1>2 DEF Money!FramedLegs

LEMMA FramedLegStays ==
    ASSUME NEW s, NEW t, NEW f \in Money!Figures, NEW l \in Money!FramedLegs(s, f),
           s.stage[l.op] = t.stage[l.op]
    PROVE  l \in Money!FramedLegs(t, f)
<1>1. CASE l \in Money!moneyLegsByEnd(s, f)
  <2> DEFINE Legs(o, st) == IF f = "total" THEN Money!AtTotal(o, st, FALSE) ELSE EndLegs(o, st, f)
  <2>1. PICK o \in Money!Moving(s) : l \in Legs(o, s.stage[o])
    BY <1>1, LegsByEnd
  <2>2. l.op = o
    BY <2>1 DEF EndLegs, Money!AtTotal, Money!Departing, Money!Arriving, Money!Leg
  <2>3. o \in Money!Moving(t) /\ l \in Legs(o, t.stage[o])
    BY <2>1, <2>2, Zenon DEF Money!Moving, Money!PendingIn
  <2> QED
    BY <2>3, LegsByEnd, Zenon DEF Money!FramedLegs
<1>2. CASE f # "acct" /\ l \in Money!moneyCashOwnLegs(s)
  <2>1. CASE \E o \in {x \in Money!Ops : Money!OwnSend(x) /\ s.stage[x] \in {"reserved", "in_transit"}} :
               l = Money!Departing(o, s.stage[o], FALSE)
    <3>1. PICK o \in Money!Ops : /\ Money!OwnSend(o) /\ s.stage[o] \in {"reserved", "in_transit"}
                                 /\ l = Money!Departing(o, s.stage[o], FALSE)
      BY <2>1
    <3>2. t.stage[o] = s.stage[o]
      BY <3>1 DEF Money!Departing, Money!Leg
    <3> QED
      BY <1>2, <3>1, <3>2 DEF Money!moneyCashOwnLegs, Money!FramedLegs
  <2>2. CASE \E o \in {x \in Money!Ops : Money!PendingIn(s, x)} :
               l = Money!Arriving(o, "in_transit", FALSE)
    <3>1. PICK o \in Money!Ops : /\ Money!PendingIn(s, o)
                                 /\ l = Money!Arriving(o, "in_transit", FALSE)
      BY <2>2
    <3>2. Money!PendingIn(t, o)
      BY <3>1 DEF Money!Arriving, Money!Leg, Money!PendingIn
    <3> QED
      BY <1>2, <3>1, <3>2 DEF Money!moneyCashOwnLegs, Money!FramedLegs
  <2> QED
    BY <1>2, <2>1, <2>2 DEF Money!moneyCashOwnLegs
<1> QED
  BY <1>1, <1>2 DEF Money!FramedLegs

LEMMA PredictedLegIs ==
    ASSUME NEW o, NEW f, NEW l \in Money!moneyPredictedLegs(o, f)
    PROVE  l.op = o /\ l = Money!Leg(o, l.dir, "reserved", TRUE)
BY DEF Money!moneyPredictedLegs, Money!AtTotal, Money!Departing, Money!Arriving, Money!Leg

(* What the legs of a figure are made of. *)
LEMMA LegIs ==
    ASSUME NEW s, NEW accepted \in SUBSET Money!Ops, NEW f \in Money!Figures,
           NEW l \in LegsOf(s, accepted, f), s.stage \in [Money!Ops -> Stages]
    PROVE  /\ l.op \in Money!Ops
           /\ \/ /\ l \in Money!FramedLegs(s, f)
                 /\ s.stage[l.op] \in {"reserved", "in_transit", "expected"}
                 /\ l = Money!Leg(l.op, l.dir, s.stage[l.op], FALSE)
              \/ /\ l \in Money!moneyPredictedLegs(l.op, f) /\ l.op \in accepted
                 /\ s.stage[l.op] \in {"none", "accepted"}
                 /\ l = Money!Leg(l.op, l.dir, "reserved", TRUE)
<1>1. CASE l \in Money!FramedLegs(s, f)
  BY <1>1, FramedLegIs
<1>2. CASE \E o \in Money!Unframed(s, accepted) : l \in Money!moneyPredictedLegs(o, f)
  <2>1. PICK o \in Money!Unframed(s, accepted) : l \in Money!moneyPredictedLegs(o, f)
    BY <1>2
  <2>2. l.op = o /\ l = Money!Leg(o, l.dir, "reserved", TRUE)
    BY <2>1, PredictedLegIs
  <2>3. o \in accepted /\ s.stage[o] \in {"none", "accepted"}
    BY <2>1 DEF Money!Unframed, Money!Framed
  <2> QED
    BY <2>1, <2>2, <2>3
<1> QED
  BY <1>1, <1>2, Zenon DEF LegsOf

LEMMA LegStays ==
    ASSUME NEW s, NEW t, NEW accepted \in SUBSET Money!Ops, NEW f \in Money!Figures,
           NEW l \in LegsOf(s, accepted, f),
           s.stage \in [Money!Ops -> Stages], s.stage[l.op] = t.stage[l.op]
    PROVE  l \in LegsOf(t, accepted, f)
<1>1. CASE l \in Money!FramedLegs(s, f)
  BY <1>1, FramedLegStays DEF LegsOf
<1>2. CASE l \in Money!moneyPredictedLegs(l.op, f) /\ l.op \in accepted
             /\ s.stage[l.op] \in {"none", "accepted"}
  <2>1. l.op \in Money!Unframed(t, accepted)
    BY <1>2 DEF Money!Unframed, Money!Framed
  <2> QED
    BY <1>2, <2>1, Zenon DEF LegsOf
<1> QED
  BY <1>1, <1>2, LegIs

LEMMA LegsOnce ==
    ASSUME NEW s, NEW accepted \in SUBSET Money!Ops, NEW f \in Money!Figures,
           s.stage \in [Money!Ops -> Stages],
           NEW l \in LegsOf(s, accepted, f), NEW k \in LegsOf(s, accepted, f), Money!SameLeg(l, k)
    PROVE  s.stage[l.op] \notin {"done", "failed"} /\ l = k
<1>1. l.op = k.op /\ l.dir = k.dir
  BY DEF Money!SameLeg
<1>2. ASSUME NEW x \in LegsOf(s, accepted, f)
      PROVE  \/ s.stage[x.op] \in {"reserved", "in_transit", "expected"}
                /\ x = Money!Leg(x.op, x.dir, s.stage[x.op], FALSE)
             \/ s.stage[x.op] \in {"none", "accepted"} /\ x = Money!Leg(x.op, x.dir, "reserved", TRUE)
  <2>1. \/ /\ x \in Money!FramedLegs(s, f)
           /\ s.stage[x.op] \in {"reserved", "in_transit", "expected"}
           /\ x = Money!Leg(x.op, x.dir, s.stage[x.op], FALSE)
        \/ /\ x \in Money!moneyPredictedLegs(x.op, f) /\ x.op \in accepted
           /\ s.stage[x.op] \in {"none", "accepted"}
           /\ x = Money!Leg(x.op, x.dir, "reserved", TRUE)
    BY <1>2, LegIs, Zenon
  <2> QED
    BY <2>1, Zenon
<1> HIDE DEF LegsOf
<1>3. /\ \/ s.stage[l.op] \in {"reserved", "in_transit", "expected"}
            /\ l = Money!Leg(l.op, l.dir, s.stage[l.op], FALSE)
         \/ s.stage[l.op] \in {"none", "accepted"} /\ l = Money!Leg(l.op, l.dir, "reserved", TRUE)
      /\ \/ s.stage[k.op] \in {"reserved", "in_transit", "expected"}
            /\ k = Money!Leg(k.op, k.dir, s.stage[k.op], FALSE)
         \/ s.stage[k.op] \in {"none", "accepted"} /\ k = Money!Leg(k.op, k.dir, "reserved", TRUE)
  BY <1>2
<1> HIDE DEF Money!Leg
<1> QED
  BY <1>1, <1>3

-----------------------------------------------------------------------------
(* What a figure counts. *)

(* The legs in transit of an operation that the snapshot lists. *)
LEMMA InTransit ==
    ASSUME NEW s, NEW accepted \in SUBSET Money!Ops, s.stage \in [Money!Ops -> Stages],
           NEW o \in Money!Framed(s), RouteOK
    PROVE  \A f \in {"cash", "acct"} : \A l \in LegsOf(s, accepted, f) :
              l.op = o /\ l.stage = "in_transit" =>
                 /\ s.stage[o] = "in_transit"
                 /\ Money!Listed(Money!To(o)) =>
                       f = Money!To(o) /\ l = Money!Arriving(o, "in_transit", FALSE)
                 /\ ~Money!Listed(Money!To(o)) =>
                       f = Money!From(o) /\ l = Money!Departing(o, "in_transit", FALSE)
<1> SUFFICES ASSUME NEW f \in {"cash", "acct"}, NEW l \in LegsOf(s, accepted, f), l.op = o,
                    l.stage = "in_transit"
             PROVE  /\ s.stage[o] = "in_transit"
                    /\ Money!Listed(Money!To(o)) =>
                          f = Money!To(o) /\ l = Money!Arriving(o, "in_transit", FALSE)
                    /\ ~Money!Listed(Money!To(o)) =>
                          f = Money!From(o) /\ l = Money!Departing(o, "in_transit", FALSE)
  OBVIOUS
<1>1. f \in Money!Figures /\ f # "total"
  BY DEF Money!Figures
<1>2. /\ l \in Money!FramedLegs(s, f) /\ s.stage[o] = "in_transit"
      /\ l = Money!Leg(o, l.dir, "in_transit", FALSE)
  <2>1. s.stage[o] \notin {"none", "accepted"}
    BY DEF Money!Framed
  <2> HIDE DEF LegsOf
  <2>2. /\ l \in Money!FramedLegs(s, f)
        /\ l = Money!Leg(o, l.dir, s.stage[o], FALSE)
    BY <1>1, <2>1, LegIs
  <2> QED
    BY <2>2 DEF Money!Leg
<1>3. CASE l \in Money!moneyLegsByEnd(s, f)
  <2>1. PICK x \in Money!Moving(s) : l \in EndLegs(x, s.stage[x], f)
    BY <1>1, <1>3, LegsByEnd
  <2>2. \/ /\ l = Money!Departing(x, s.stage[x], FALSE) /\ Money!From(x) = f
           /\ s.stage[x] = "reserved" \/ ~Money!Listed(Money!To(x))
        \/ l = Money!Arriving(x, s.stage[x], FALSE) /\ Money!To(x) = f
    BY <2>1 DEF EndLegs
  <2>3. x = o
    BY <2>2 DEF Money!Departing, Money!Arriving, Money!Leg
  <2>4. Money!Listed(f)
    BY PlaceOf
  <2> QED
    BY <1>2, <2>2, <2>3, <2>4
<1>4. CASE f # "acct" /\ l \in Money!moneyCashOwnLegs(s)
  <2>1. \/ Money!OwnSend(o) /\ l = Money!Departing(o, "in_transit", FALSE)
        \/ Money!PendingIn(s, o) /\ l = Money!Arriving(o, "in_transit", FALSE)
    BY <1>2, <1>4 DEF Money!moneyCashOwnLegs, Money!Departing, Money!Arriving, Money!Leg
  <2>2. f = "cash"
    BY <1>4
  <2>3. \/ Money!From(o) = "cash" /\ Money!To(o) = "external" /\ l = Money!Departing(o, "in_transit", FALSE)
        \/ Money!From(o) = "external" /\ Money!To(o) = "cash" /\ l = Money!Arriving(o, "in_transit", FALSE)
    BY <2>1, OwnEnds, Zenon
  <2>4. Money!Listed("cash") /\ ~Money!Listed("external")
    BY PlaceOf
  <2> QED
    BY <1>2, <2>2, <2>3, <2>4
<1> QED
  BY <1>2, <1>3, <1>4 DEF Money!FramedLegs

(* An operation in transit between two ends that are listed has a leg. *)
LEMMA TransitShown ==
    ASSUME NEW s, NEW accepted, NEW o \in Money!Ops, s.stage[o] = "in_transit",
           Money!From(o) \in {"cash", "acct"}, Money!To(o) \in {"cash", "acct"}
    PROVE  Money!Arriving(o, "in_transit", FALSE) \in LegsOf(s, accepted, Money!To(o))
<1>1. o \in Money!Moving(s)
  BY OwnEnds DEF Money!Moving
<1>2. Money!Arriving(o, s.stage[o], FALSE) \in EndLegs(o, s.stage[o], Money!To(o))
  BY DEF EndLegs
<1>3. Money!Arriving(o, s.stage[o], FALSE) \in Money!moneyLegsByEnd(s, Money!To(o))
  BY <1>1, <1>2, LegsByEnd
<1> QED
  BY <1>3 DEF Money!FramedLegs, LegsOf

(* Money on its way to the account is shown there. *)
LEMMA ArrivalShown ==
    ASSUME NEW s, NEW o \in Money!Ops, Money!To(o) = "acct", s.stage[o] \in {"reserved", "in_transit"}
    PROVE  Money!InMotion({l \in Money!FramedLegs(s, "acct") : l.dir = "incoming"}) # {}
<1>1. o \in Money!Moving(s)
  BY OwnEnds DEF Money!Moving
<1>2. Money!Arriving(o, s.stage[o], FALSE) \in EndLegs(o, s.stage[o], "acct")
  BY DEF EndLegs
<1>3. Money!Arriving(o, s.stage[o], FALSE) \in Money!moneyLegsByEnd(s, "acct")
  BY <1>1, <1>2, LegsByEnd
<1> QED
  BY <1>3 DEF Money!FramedLegs, Money!InMotion, Money!Arriving, Money!Leg

(* A venue frame that is shown is newer than the snapshot, if that says    *)
(* when it was, and nothing is on its way to the account.                  *)
LEMMA RevaluedBy ==
    ASSUME NEW s, NEW arriving, NEW venue, s.shape # "untimed",
           Money!moneyRevalue(s, arriving, venue) # Nothing
    PROVE  /\ venue # Nothing /\ Money!InMotion(arriving) = {} /\ ~(venue.at < s.seq)
           /\ Money!moneyRevalue(s, arriving, venue) = venue.equity
           /\ s.shape \notin {"held", "unobserved"}
BY Zenon DEF Money!moneyRevalue

(* What is known of the product when it shows something. *)
ShownOK ==
    /\ money # Nothing /\ RouteOK /\ Composed /\ preds \in SUBSET Money!Ops
    /\ SnapshotTrue(money.snap) /\ clock \in Nat /\ fills \in Nat
    /\ frame # Nothing => FrameTrue(frame) /\ VenueAhead(money.snap, frame)

(* At most one figure counts the money of an operation in transit, and     *)
(* then no figure holds it.                                                *)
LEMMA TransitOnce ==
    ASSUME ShownOK, NEW o \in Money!Framed(money.snap)
    PROVE  LET n == Cardinality(Money!LegsInTransit(o))
               st == money.snap.stage[o] IN
           /\ n \in {0, 1}
           /\ n = 1 => st = "in_transit"
           /\ (/\ st = "in_transit" /\ Money!From(o) \in {"cash", "acct"}
               /\ Money!To(o) \in {"cash", "acct"}) => n = 1
<1> DEFINE T == Money!LegsInTransit(o)
           st == money.snap.stage[o]
           end == IF Money!Listed(Money!To(o)) THEN Money!To(o) ELSE Money!From(o)
           leg == IF Money!Listed(Money!To(o)) THEN Money!Arriving(o, "in_transit", FALSE)
                                               ELSE Money!Departing(o, "in_transit", FALSE)
<1>1. /\ preds \in SUBSET Money!Ops /\ RouteOK
      /\ money.snap.stage \in [Money!Ops -> Stages]
      /\ \A f \in {"cash", "acct"} : money.legs[f] = LegsOf(money.snap, preds, f)
  BY DEF ShownOK, SnapshotTrue, Composed, Money!Figures
<1>2. \A f \in {"cash", "acct"} : \A l \in LegsOf(money.snap, preds, f) :
         l.op = o /\ l.stage = "in_transit" =>
            /\ st = "in_transit"
            /\ Money!Listed(Money!To(o)) =>
                  f = Money!To(o) /\ l = Money!Arriving(o, "in_transit", FALSE)
            /\ ~Money!Listed(Money!To(o)) =>
                  f = Money!From(o) /\ l = Money!Departing(o, "in_transit", FALSE)
  BY <1>1, InTransit
<1>3. ASSUME NEW m \in T PROVE m = <<end, leg>> /\ st = "in_transit"
  <2>1. /\ m = <<m[1], m[2]>> /\ m[1] \in {"cash", "acct"} /\ m[2] \in money.legs[m[1]]
        /\ m[2].op = o /\ m[2].stage = "in_transit"
    BY <1>3 DEF Money!LegsInTransit
  <2>2. /\ st = "in_transit"
        /\ Money!Listed(Money!To(o)) =>
              m[1] = Money!To(o) /\ m[2] = Money!Arriving(o, "in_transit", FALSE)
        /\ ~Money!Listed(Money!To(o)) =>
              m[1] = Money!From(o) /\ m[2] = Money!Departing(o, "in_transit", FALSE)
    BY <1>1, <1>2, <2>1
  <2> QED
    BY <2>1, <2>2, Zenon
<1>4. ASSUME st = "in_transit", Money!From(o) \in {"cash", "acct"},
             Money!To(o) \in {"cash", "acct"}
      PROVE  T # {}
  <2> DEFINE a == Money!Arriving(o, "in_transit", FALSE)
  <2>1. o \in Money!Ops
    BY DEF Money!Framed
  <2>2. a \in LegsOf(money.snap, preds, Money!To(o))
    BY <1>4, <2>1, TransitShown
  <2>3. a \in money.legs[Money!To(o)]
    BY <1>1, <1>4, <2>2
  <2>4. a.op = o /\ a.stage = "in_transit"
    BY DEF Money!Arriving, Money!Leg
  <2> HIDE DEF a
  <2>5. <<Money!To(o), a>> \in T
    BY <1>4, <2>3, <2>4 DEF Money!LegsInTransit
  <2> QED
    BY <2>5
<1> HIDE DEF T, end, leg
<1>5. Cardinality({}) = 0 /\ Cardinality({<<end, leg>>}) = 1
  BY FS_EmptySet, FS_Singleton
<1>6. CASE T = {}
  <2>1. Cardinality(T) = 0
    BY <1>5, <1>6, Zenon
  <2> QED
    BY <1>4, <1>6, <2>1 DEF T
<1>7. CASE T = {<<end, leg>>}
  <2>1. Cardinality(T) = 1 /\ st = "in_transit"
    BY <1>3, <1>5, <1>7, Zenon
  <2> QED
    BY <2>1 DEF T
<1> QED
  BY <1>3, <1>6, <1>7

(* What a figure holds of one operation. *)
LEMMA HeldIs ==
    ASSUME NEW s, NEW e, NEW o \in Money!Ops
    PROVE  o \in Money!HeldAt(s, e) <=>
              (\/ Money!From(o) = e /\ s.stage[o] \notin {"in_transit", "done"}
               \/ Money!To(o) = e /\ s.stage[o] = "done")
BY DEF Money!HeldAt

(* A venue frame that is shown holds what the snapshot says is at the      *)
(* account, and nothing that the snapshot says is elsewhere.               *)
LEMMA ShownVenue ==
    ASSUME ShownOK, money.revalued # Nothing, money.snap.shape # "untimed"
    PROVE  /\ money.revalued = frame.equity /\ VenueAhead(money.snap, frame)
           /\ frame.at >= money.snap.seq /\ FrameTrue(frame)
           /\ \A o \in Money!Ops : Money!To(o) = "acct" =>
                 money.snap.stage[o] \notin {"reserved", "in_transit"}
<1> DEFINE arriving == {l \in Money!FramedLegs(money.snap, "acct") : l.dir = "incoming"}
<1>1. money.revalued = Money!moneyRevalue(money.snap, arriving, frame)
  BY DEF ShownOK, Composed
<1>2. /\ frame # Nothing /\ Money!InMotion(arriving) = {} /\ ~(frame.at < money.snap.seq)
      /\ money.revalued = frame.equity
  BY <1>1, RevaluedBy
<1>3. FrameTrue(frame) /\ VenueAhead(money.snap, frame)
  BY <1>2 DEF ShownOK
<1>4. frame.at >= money.snap.seq
  BY <1>2, <1>3 DEF ShownOK, FrameTrue, SnapshotTrue
<1>5. \A o \in Money!Ops : Money!To(o) = "acct" =>
         money.snap.stage[o] \notin {"reserved", "in_transit"}
  BY <1>2, ArrivalShown
<1> QED
  BY <1>2, <1>3, <1>4, <1>5

LEMMA MoneyCardinality == \A S : Money!Cardinality(S) = Cardinality(S)
BY DEF Money!Cardinality, Cardinality

LEMMA CountsAre ==
    ASSUME NEW o
    PROVE  Money!Counts(o) = (IF o \in money.settled["cash"].ops THEN 1 ELSE 0)
              + (IF Money!ShownAccount # Nothing /\ o \in Money!ShownAccount.ops THEN 1 ELSE 0)
              + Cardinality(Money!LegsInTransit(o))
BY MoneyCardinality DEF Money!Counts

(* At most one place counts the money of an operation the snapshot lists.  *)
LEMMA CountsOnce == ShownOK => Money!CountedOnce
<1> SUFFICES ASSUME ShownOK, money.snap.shape # "untimed", NEW o \in Money!Framed(money.snap)
             PROVE  /\ Money!Counts(o) <= 1
                    /\ (/\ money.revalued = Nothing /\ money.settled["acct"] # Nothing
                        /\ Money!Listed(Money!From(o)) /\ Money!Listed(Money!To(o)))
                          => Money!Counts(o) = 1
  BY Zenon DEF Money!CountedOnce
<1> DEFINE s == money.snap
           n == Cardinality(Money!LegsInTransit(o))
           st == s.stage[o]
<1>1. /\ o \in Money!Ops /\ st \in Stages /\ st \notin {"none", "accepted"}
      /\ s.stage \in [Money!Ops -> Stages]
  BY DEF ShownOK, SnapshotTrue, Money!Framed
<1>2. /\ n \in {0, 1}
      /\ n = 1 => st = "in_transit"
      /\ (st = "in_transit" /\ Money!From(o) \in {"cash", "acct"} /\ Money!To(o) \in {"cash", "acct"})
            => n = 1
  BY TransitOnce
<1> DEFINE a == IF o \in money.settled["cash"].ops THEN 1 ELSE 0
           b == IF Money!ShownAccount # Nothing /\ o \in Money!ShownAccount.ops THEN 1 ELSE 0
<1>3. /\ Money!Counts(o) = a + b + n /\ a \in {0, 1} /\ b \in {0, 1}
      /\ a = 1 <=> o \in money.settled["cash"].ops
      /\ b = 1 <=> Money!ShownAccount # Nothing /\ o \in Money!ShownAccount.ops
  BY CountsAre
<1> HIDE DEF a, b
<1>4. /\ money.settled["cash"].ops = Money!HeldAt(s, "cash")
      /\ s.shape # "unobserved" => money.settled["acct"].ops = Money!HeldAt(s, "acct")
      /\ s.shape = "unobserved" => money.settled["acct"] = Nothing
  BY DEF ShownOK, Composed, Money!Settled, Money!Figures
<1>5. Money!From(o) # Money!To(o)
  BY <1>1 DEF ShownOK, RouteOK
<1> DEFINE inCash == o \in Money!HeldAt(s, "cash")
           inAcct == o \in Money!HeldAt(s, "acct")
<1>6. /\ inCash <=> (\/ Money!From(o) = "cash" /\ st \notin {"in_transit", "done"}
                     \/ Money!To(o) = "cash" /\ st = "done")
      /\ inAcct <=> (\/ Money!From(o) = "acct" /\ st \notin {"in_transit", "done"}
                     \/ Money!To(o) = "acct" /\ st = "done")
  BY <1>1, HeldIs, Zenon
<1>7. CASE money.revalued # Nothing
  <2>1. /\ Money!ShownAccount = frame.equity /\ VenueAhead(s, frame) /\ frame.at >= s.seq
        /\ Money!To(o) = "acct" => st \notin {"reserved", "in_transit"}
    BY <1>1, <1>7, ShownVenue DEF Money!ShownAccount
  <2>2. /\ Money!From(o) = "acct" /\ st \in {"in_transit", "done"} => o \notin Money!ShownAccount.ops
        /\ Money!To(o) = "acct" /\ st = "failed" => o \notin Money!ShownAccount.ops
        /\ Money!From(o) # "acct" /\ Money!To(o) # "acct" => o \notin Money!ShownAccount.ops
    BY <1>1, <2>1 DEF VenueAhead
  <2>3. st = "expected" => Money!From(o) = "external"
    BY <1>1 DEF ShownOK, SnapshotTrue
  <2> HIDE DEF s, n, st, inCash, inAcct
  <2>4. ~(inCash /\ o \in Money!ShownAccount.ops)
    BY <1>1, <1>5, <1>6, <2>1, <2>2, <2>3 DEF Stages
  <2>5. n = 1 => ~inCash /\ o \notin Money!ShownAccount.ops
    BY <1>2, <1>5, <1>6, <2>1, <2>2
  <2>6. ~(a = 1 /\ b = 1) /\ (n = 1 => a # 1 /\ b # 1)
    BY <1>3, <1>4, <2>4, <2>5 DEF inCash
  <2>7. Money!Counts(o) <= 1
    BY <1>2, <1>3, <2>6
  <2> QED
    BY <1>7, <2>7
<1>8. CASE money.revalued = Nothing
  <2>1. Money!ShownAccount = money.settled["acct"]
    BY <1>8 DEF Money!ShownAccount
  <2>2. Money!ShownAccount # Nothing => (o \in Money!ShownAccount.ops <=> inAcct)
    BY <1>4, <2>1
  <2>3. /\ Money!Listed(Money!From(o)) <=> Money!From(o) \in {"cash", "acct"}
        /\ Money!Listed(Money!To(o)) <=> Money!To(o) \in {"cash", "acct"}
    BY PlaceOf
  <2> HIDE DEF s, n, st, inCash, inAcct
  <2>4. /\ ~(inCash /\ inAcct) /\ (n = 1 => ~inCash /\ ~inAcct)
        /\ (Money!From(o) \in {"cash", "acct"} /\ Money!To(o) \in {"cash", "acct"} /\ n = 0) =>
              (inCash \/ inAcct)
    BY <1>2, <1>5, <1>6
  <2>5. /\ a = 1 <=> inCash
        /\ b = 1 <=> Money!ShownAccount # Nothing /\ inAcct
    BY <1>3, <1>4, <2>2 DEF inCash
  <2>6. Money!Counts(o) <= 1
    BY <1>2, <1>3, <2>4, <2>5
  <2>7. ASSUME money.settled["acct"] # Nothing,
               Money!Listed(Money!From(o)), Money!Listed(Money!To(o))
        PROVE  Money!Counts(o) = 1
    BY <1>2, <1>3, <2>1, <2>3, <2>4, <2>5, <2>7
  <2> QED
    BY <2>6, <2>7
<1> QED
  BY <1>7, <1>8

LEMMA ShownNotOutdated == ShownOK => Money!NotOutdated
<1> SUFFICES ASSUME ShownOK, money.revalued # Nothing, money.snap.shape = "whole"
             PROVE  /\ money.revalued.fills >= money.snap.fills
                    /\ \A o \in Money!HeldAt(money.snap, "acct") :
                          Money!To(o) = "acct" => o \in money.revalued.ops
  BY DEF Money!NotOutdated
<1>1. /\ money.revalued = frame.equity /\ VenueAhead(money.snap, frame)
      /\ frame.at >= money.snap.seq
  BY ShownVenue
<1>2. ASSUME NEW o \in Money!HeldAt(money.snap, "acct"), Money!To(o) = "acct"
      PROVE  o \in Money!Ops /\ money.snap.stage[o] = "done"
  BY <1>2 DEF Money!HeldAt, ShownOK, RouteOK
<1> QED
  BY <1>1, <1>2 DEF VenueAhead

LEMMA ShownOnce == ShownOK => Money!LegOnce
<1> SUFFICES ASSUME ShownOK, NEW f \in Money!Figures, NEW l \in money.legs[f]
             PROVE  /\ money.snap.stage[l.op] \notin {"done", "failed"}
                    /\ \A k \in money.legs[f] : Money!SameLeg(l, k) => l = k
  BY Zenon DEF Money!LegOnce
<1>1. /\ money.legs[f] = LegsOf(money.snap, preds, f) /\ preds \in SUBSET Money!Ops
      /\ money.snap.stage \in [Money!Ops -> Stages]
  BY DEF ShownOK, Composed, SnapshotTrue
<1>2. Money!SameLeg(l, l)
  BY DEF Money!SameLeg
<1> QED
  BY <1>1, <1>2, LegsOnce

-----------------------------------------------------------------------------
(* Why a figure last moved. *)

LEMMA MovedIs ==
    ASSUME NEW s, NEW f, NEW legs, NEW before,
           NEW hits, hits = Money!Hits(s, f, legs, before),
           NEW moved, moved = Money!moneyOperationThatMoved(s, f, legs, before)
    PROVE  /\ moved = {} => hits[1] = {} /\ hits[2] = {} /\ hits[3] = {} /\ hits[4] = {}
           /\ \A o \in moved : o \in hits[1] \/ o \in hits[2] \/ o \in hits[3] \/ o \in hits[4]
<1> DEFINE some == {i \in 1..4 : hits[i] # {}}
           least == CHOOSE i \in some : \A j \in some : i <= j
<1>1. moved = IF some = {} THEN {} ELSE hits[least]
  BY DEF Money!moneyOperationThatMoved
<1>2. some # {} => least \in some
  <2>1. 1..4 = {1, 2, 3, 4}
    OBVIOUS
  <2>2. some # {} => \E i \in some : \A j \in some : i <= j
    <3>1. CASE 1 \in some
      BY <2>1, <3>1
    <3>2. CASE 1 \notin some /\ 2 \in some
      BY <2>1, <3>2
    <3>3. CASE 1 \notin some /\ 2 \notin some /\ 3 \in some
      BY <2>1, <3>3
    <3>4. CASE 1 \notin some /\ 2 \notin some /\ 3 \notin some /\ 4 \in some
      BY <2>1, <3>4
    <3> QED
      BY <2>1, <3>1, <3>2, <3>3, <3>4
  <2> HIDE DEF some
  <2> QED
    BY <2>2
<1> HIDE DEF least
<1>3. \A i \in some : i \in 1..4 /\ hits[i] # {}
  OBVIOUS
<1>4. \A i \in 1..4 : i = 1 \/ i = 2 \/ i = 3 \/ i = 4
  OBVIOUS
<1>5. \A i \in 1..4 : i \notin some => hits[i] = {}
  OBVIOUS
<1> HIDE DEF some
<1>6. moved = {} => some = {}
  BY <1>1, <1>2, <1>3
<1>7. moved = {} => hits[1] = {} /\ hits[2] = {} /\ hits[3] = {} /\ hits[4] = {}
  BY <1>5, <1>6
<1>8. \A o \in moved : o \in hits[1] \/ o \in hits[2] \/ o \in hits[3] \/ o \in hits[4]
  BY <1>1, <1>2, <1>3, <1>4
<1> QED
  BY <1>7, <1>8

(* The four kinds of operations that touched a figure. *)
LEMMA HitsAre ==
    ASSUME NEW s, NEW f, NEW legs, NEW before, NEW hits, hits = Money!Hits(s, f, legs, before)
    PROVE  /\ hits[1] = {l.op : l \in {x \in legs : ~\E k \in before.legs[f] :
                                         Money!SameLeg(x, k) /\ k.stage = x.stage}}
           /\ hits[2] = {l.op : l \in {x \in before.legs[f] : ~\E k \in legs : Money!SameLeg(x, k)}}
           /\ hits[3] = {o \in Money!Framed(s) : /\ ~Money!OwnSend(o) /\ Money!moneyTouches(o, f)
                                                /\ before.snap.stage[o] # s.stage[o]}
           /\ hits[4] = {o \in Money!Framed(s) : /\ Money!OwnSend(o) /\ f \in {"cash", "total"}
                                                /\ before.snap.stage[o] # s.stage[o]}
BY DEF Money!Hits

(* What touched a figure between two snapshots, with the same predictions, *)
(* changed its stage.                                                      *)
LEMMA MovedMoved ==
    ASSUME ShownOK, NEW s, SnapshotTrue(s), NEW f \in Money!Figures,
           NEW legs, legs = LegsOf(s, preds, f),
           NEW o \in Money!moneyOperationThatMoved(s, f, legs, money)
    PROVE  money.snap.stage[o] # s.stage[o]
<1> DEFINE hits == Money!Hits(s, f, legs, money)
<1>1. o \in hits[1] \/ o \in hits[2] \/ o \in hits[3] \/ o \in hits[4]
  BY MovedIs
<1>2. /\ money.legs[f] = LegsOf(money.snap, preds, f) /\ preds \in SUBSET Money!Ops
      /\ money.snap.stage \in [Money!Ops -> Stages] /\ s.stage \in [Money!Ops -> Stages]
  BY DEF ShownOK, Composed, SnapshotTrue
<1>3. /\ hits[1] = {l.op : l \in {x \in legs : ~\E k \in money.legs[f] :
                                     Money!SameLeg(x, k) /\ k.stage = x.stage}}
      /\ hits[2] = {l.op : l \in {x \in money.legs[f] : ~\E k \in legs : Money!SameLeg(x, k)}}
      /\ o \in hits[3] \cup hits[4] => money.snap.stage[o] # s.stage[o]
  BY HitsAre
<1> HIDE DEF hits
<1>4. CASE o \in hits[1]
  <2>1. PICK l \in legs : /\ l.op = o
                          /\ ~\E k \in money.legs[f] : Money!SameLeg(l, k) /\ k.stage = l.stage
    BY <1>3, <1>4
  <2>2. l \notin money.legs[f]
    BY <2>1 DEF Money!SameLeg
  <2> QED
    BY <1>2, <2>1, <2>2, LegStays
<1>5. CASE o \in hits[2]
  <2>1. PICK l \in money.legs[f] : l.op = o /\ ~\E k \in legs : Money!SameLeg(l, k)
    BY <1>3, <1>5
  <2>2. l \notin legs
    BY <2>1 DEF Money!SameLeg
  <2> QED
    BY <1>2, <2>1, <2>2, LegStays
<1> QED
  BY <1>1, <1>3, <1>4, <1>5

LEMMA ChangeIs ==
    ASSUME ShownOK, NEW s, SnapshotTrue(s), Grows(money.snap, s), s.wallet = money.snap.wallet,
           s.seq >= money.snap.seq, NEW f \in Money!Figures,
           NEW change, change = Money!moneyChange(s, f, LegsOf(s, preds, f), money)
    PROVE  /\ \A o \in change.ops : money.snap.stage[o] # s.stage[o]
           /\ (f = "acct" /\ change.cause = "venue") =>
                 /\ money.snap.fills # s.fills
                 /\ \A o \in Money!Ops : Money!moneyTouches(o, "acct") =>
                       (o \in Money!Framed(money.snap) \cup Money!Framed(s) =>
                           money.snap.stage[o] = s.stage[o])
<1> DEFINE moved == Money!moneyOperationThatMoved(s, f, LegsOf(s, preds, f), money)
<1>1. \/ change = Money!NoChange
      \/ change = [cause |-> "operation", ops |-> moved]
      \/ /\ change = [cause |-> "venue", ops |-> {}] /\ moved = {}
         /\ f = "acct" => /\ Money!Settled(s, f) # Nothing /\ money.settled[f] # Nothing
                          /\ money.settled[f] # Money!Settled(s, f)
  BY Zenon DEF Money!moneyChange
<1>2. \A o \in moved : money.snap.stage[o] # s.stage[o]
  BY MovedMoved
<1> HIDE DEF moved
<1>3. \A o \in change.ops : money.snap.stage[o] # s.stage[o]
  BY <1>1, <1>2 DEF Money!NoChange
<1>4. ASSUME f = "acct", change.cause = "venue"
      PROVE  /\ money.snap.fills # s.fills
             /\ \A o \in Money!Ops : Money!moneyTouches(o, "acct") =>
                   (o \in Money!Framed(money.snap) \cup Money!Framed(s) =>
                       money.snap.stage[o] = s.stage[o])
  <2>1. /\ moved = {} /\ Money!Settled(s, "acct") # Nothing /\ money.settled["acct"] # Nothing
        /\ money.settled["acct"] # Money!Settled(s, "acct")
    BY <1>1, <1>4 DEF Money!NoChange
  <2> DEFINE hits == Money!Hits(s, f, LegsOf(s, preds, f), money)
  <2>2. hits[3] = {}
    BY <2>1, MovedIs DEF moved
  <2>3. \A o \in Money!Framed(s) : ~Money!OwnSend(o) /\ Money!moneyTouches(o, "acct") =>
           money.snap.stage[o] = s.stage[o]
    <3>1. hits[3] = {o \in Money!Framed(s) : /\ ~Money!OwnSend(o) /\ Money!moneyTouches(o, f)
                                            /\ money.snap.stage[o] # s.stage[o]}
      BY HitsAre
    <3> HIDE DEF hits
    <3> QED
      BY <1>4, <2>2, <3>1
  <2>4. ASSUME NEW o PROVE Money!moneyTouches(o, "acct") <=> "acct" \in {Money!From(o), Money!To(o)}
    BY DEF Money!moneyTouches
  <2>5. ASSUME NEW o, Money!OwnSend(o) PROVE ~Money!moneyTouches(o, "acct")
    BY <2>4, <2>5, OwnEnds
  <2>6. Money!Framed(money.snap) \subseteq Money!Framed(s)
    BY DEF Grows, ShownOK, SnapshotTrue
  <2>7. \A o \in Money!Ops : Money!moneyTouches(o, "acct") =>
           (o \in Money!Framed(money.snap) \cup Money!Framed(s) => money.snap.stage[o] = s.stage[o])
    BY <2>3, <2>5, <2>6
  <2>8. ASSUME NEW o \in Money!Ops
        PROVE  o \in Money!HeldAt(money.snap, "acct") <=> o \in Money!HeldAt(s, "acct")
    <3>1. CASE "acct" \notin {Money!From(o), Money!To(o)}
      BY <3>1, HeldIs
    <3>2. CASE "acct" \in {Money!From(o), Money!To(o)} /\ money.snap.stage[o] = s.stage[o]
      BY <3>2, HeldIs
    <3>3. CASE o \notin Money!Framed(money.snap) /\ o \notin Money!Framed(s)
      <4>1. money.snap.stage[o] \in {"none", "accepted"} /\ s.stage[o] \in {"none", "accepted"}
        BY <3>3 DEF Money!Framed
      <4> QED
        BY <4>1, HeldIs
    <3> QED
      BY <2>4, <2>7, <3>1, <3>2, <3>3
  <2>9. Money!HeldAt(money.snap, "acct") = Money!HeldAt(s, "acct")
    BY <2>8 DEF Money!HeldAt
  <2>10. /\ money.settled["acct"] = Money!Settled(money.snap, "acct")
         /\ money.settled["acct"] = [ops |-> Money!HeldAt(money.snap, "acct"), fills |-> money.snap.fills]
         /\ Money!Settled(s, "acct") = [ops |-> Money!HeldAt(s, "acct"), fills |-> s.fills]
    <3>1. money.settled["acct"] = Money!Settled(money.snap, "acct")
      BY DEF ShownOK, Composed, Money!Figures
    <3>2. ASSUME NEW t, Money!Settled(t, "acct") # Nothing
          PROVE  Money!Settled(t, "acct") = [ops |-> Money!HeldAt(t, "acct"), fills |-> t.fills]
      BY <3>2 DEF Money!Settled
    <3> QED
      BY <2>1, <3>1, <3>2
  <2> QED
    BY <2>1, <2>7, <2>9, <2>10
<1> QED
  BY <1>3, <1>4

-----------------------------------------------------------------------------
(* The routes are fixed, and with them what is made of a snapshot. *)
LEMMA RouteStays ==
    ASSUME route' = route
    PROVE  /\ Money!Ops' = Money!Ops
           /\ \A o : Money!From(o)' = Money!From(o) /\ Money!To(o)' = Money!To(o)
           /\ \A o : Money!OwnSend(o)' <=> Money!OwnSend(o)
           /\ \A s, o : Money!PendingIn(s, o)' <=> Money!PendingIn(s, o)
BY DEF Money!Ops, Money!From, Money!To, Money!OwnSend, Money!PendingIn

LEMMA SetsStay ==
    ASSUME route' = route
    PROVE  /\ \A s : Money!Moving(s)' = Money!Moving(s)
           /\ \A s : Money!Framed(s)' = Money!Framed(s)
           /\ \A s, e : Money!HeldAt(s, e)' = Money!HeldAt(s, e)
           /\ \A o, st, pred : Money!AtTotal(o, st, pred)' = Money!AtTotal(o, st, pred)
           /\ \A o, f : Money!moneyTouches(o, f)' <=> Money!moneyTouches(o, f)
<1>1. \A s : Money!Moving(s)' = Money!Moving(s)
  BY RouteStays DEF Money!Moving
<1>2. \A s : Money!Framed(s)' = Money!Framed(s)
  BY RouteStays DEF Money!Framed
<1>3. \A s, e : Money!HeldAt(s, e)' = Money!HeldAt(s, e)
  BY RouteStays DEF Money!HeldAt
<1>4. \A o, st, pred : Money!AtTotal(o, st, pred)' = Money!AtTotal(o, st, pred)
  BY RouteStays DEF Money!AtTotal
<1>5. \A o, f : Money!moneyTouches(o, f)' <=> Money!moneyTouches(o, f)
  BY RouteStays DEF Money!moneyTouches
<1> QED
  BY <1>1, <1>2, <1>3, <1>4, <1>5

LEMMA LegsKeep ==
    ASSUME route' = route, NEW s, NEW f
    PROVE  /\ Money!moneyLegsByEnd(s, f)' = Money!moneyLegsByEnd(s, f)
           /\ Money!moneyCashOwnLegs(s)' = Money!moneyCashOwnLegs(s)
           /\ \A o : Money!moneyPredictedLegs(o, f)' = Money!moneyPredictedLegs(o, f)
<1>1. Money!moneyLegsByEnd(s, f)' = Money!moneyLegsByEnd(s, f)
  <2>1. ASSUME NEW l
        PROVE  l \in Money!moneyLegsByEnd(s, f)' <=>
                 \E o \in Money!Moving(s)' :
                    l \in IF f = "total" THEN Money!AtTotal(o, s.stage[o], FALSE)'
                                         ELSE EndLegs(o, s.stage[o], f)'
    BY Zenon DEF Money!moneyLegsByEnd, EndLegs
  <2>2. \A o, st : EndLegs(o, st, f)' = EndLegs(o, st, f)
    BY RouteStays DEF EndLegs
  <2>3. ASSUME NEW l
        PROVE  l \in Money!moneyLegsByEnd(s, f)' <=> l \in Money!moneyLegsByEnd(s, f)
    <3>1. l \in Money!moneyLegsByEnd(s, f) <=>
             \E o \in Money!Moving(s) :
                l \in IF f = "total" THEN Money!AtTotal(o, s.stage[o], FALSE)
                                     ELSE EndLegs(o, s.stage[o], f)
      BY LegsByEnd
    <3>2. /\ Money!Moving(s)' = Money!Moving(s)
          /\ \A o : Money!AtTotal(o, s.stage[o], FALSE)' = Money!AtTotal(o, s.stage[o], FALSE)
      BY SetsStay
    <3> QED
      BY <2>1, <2>2, <3>1, <3>2
  <2> QED
    BY <2>3
<1>2. Money!moneyCashOwnLegs(s)' = Money!moneyCashOwnLegs(s)
  BY RouteStays, SetsStay DEF Money!moneyCashOwnLegs
<1>3. \A o : Money!moneyPredictedLegs(o, f)' = Money!moneyPredictedLegs(o, f)
  BY RouteStays, SetsStay DEF Money!moneyPredictedLegs
<1> QED
  BY <1>1, <1>2, <1>3

(* What a product composes from a snapshot does not change. *)
LEMMA ComposedStays ==
    ASSUME route' = route, NEW s
    PROVE  /\ \A f : Money!FramedLegs(s, f)' = Money!FramedLegs(s, f)
           /\ \A f, accepted : LegsOf(s, accepted, f)' = LegsOf(s, accepted, f)
           /\ \A f : Money!Settled(s, f)' = Money!Settled(s, f)
           /\ \A arriving, venue :
                 Money!moneyRevalue(s, arriving, venue)' = Money!moneyRevalue(s, arriving, venue)
           /\ \A t : Grows(s, t)' <=> Grows(s, t)
           /\ \A v : VenueAhead(s, v)' <=> VenueAhead(s, v)
<1>1. \A f : Money!FramedLegs(s, f)' = Money!FramedLegs(s, f)
  BY LegsKeep DEF Money!FramedLegs
<1>2. \A f, accepted : LegsOf(s, accepted, f)' = LegsOf(s, accepted, f)
  <2>1. \A accepted : Money!Unframed(s, accepted)' = Money!Unframed(s, accepted)
    BY SetsStay DEF Money!Unframed
  <2>2. ASSUME NEW f, NEW accepted, NEW l
        PROVE  l \in LegsOf(s, accepted, f)' <=> l \in LegsOf(s, accepted, f)
    <3>1. l \in LegsOf(s, accepted, f)' <=>
             \/ l \in Money!FramedLegs(s, f)'
             \/ \E o \in Money!Unframed(s, accepted)' : l \in Money!moneyPredictedLegs(o, f)'
      BY Zenon DEF LegsOf
    <3>2. l \in LegsOf(s, accepted, f) <=>
             \/ l \in Money!FramedLegs(s, f)
             \/ \E o \in Money!Unframed(s, accepted) : l \in Money!moneyPredictedLegs(o, f)
      BY Zenon DEF LegsOf
    <3> QED
      BY <1>1, <2>1, <3>1, <3>2, LegsKeep
  <2> QED
    BY <2>2
<1>3. \A f : Money!Settled(s, f)' = Money!Settled(s, f)
  BY SetsStay DEF Money!Settled, Money!moneyComposedTotal
<1>4. \A arriving, venue :
         Money!moneyRevalue(s, arriving, venue)' = Money!moneyRevalue(s, arriving, venue)
  BY DEF Money!moneyRevalue, Money!InMotion
<1>5. \A t : Grows(s, t)' <=> Grows(s, t)
  BY SetsStay DEF Grows
<1>6. \A v : VenueAhead(s, v)' <=> VenueAhead(s, v)
  BY RouteStays DEF VenueAhead
<1> QED
  BY <1>1, <1>2, <1>3, <1>4, <1>5, <1>6

-----------------------------------------------------------------------------
(* The steps. *)

(* What an earlier step made true of a snapshot or a frame stays true when *)
(* time passes and nothing that was executed or listed is taken back.      *)
LEMMA MessagesStay ==
    ASSUME route' = route, clock \in Nat, fills \in Nat, clock' = clock + 1,
           settled \subseteq settled', fills' \in Nat, fills <= fills',
           \A o \in Money!Ops :
              /\ stage[o] = "failed" => stage'[o] = "failed"
              /\ stage[o] \notin {"none", "accepted"} => stage'[o] \notin {"none", "accepted"},
           NEW m
    PROVE  /\ SnapshotTrue(m) => SnapshotTrue(m)'
           /\ FrameTrue(m) => FrameTrue(m)'
<1>1. ASSUME SnapshotTrue(m) PROVE SnapshotTrue(m)'
  <2>1. m.seq \in 0..clock' /\ m.seq # clock' /\ m.fills \in 0..fills'
    BY <1>1 DEF SnapshotTrue
  <2>2. /\ \A o : Money!From(o)' = Money!From(o) /\ Money!To(o)' = Money!To(o)
        /\ Money!Ops' = Money!Ops
    BY RouteStays
  <2>3. /\ m.kind = "snapshot" /\ m.seq # clock' /\ (m.stage \in [Money!Ops -> Stages])'
    BY <1>1, <2>1, <2>2 DEF SnapshotTrue
  <2>4. ASSUME NEW o \in Money!Ops
        PROVE  /\ Money!From(o) = "acct" /\ m.stage[o] \in {"in_transit", "done"} => o \in settled'
               /\ Money!To(o) = "acct" /\ m.stage[o] = "done" => o \in settled'
               /\ m.stage[o] = "failed" => stage'[o] = "failed"
               /\ m.stage[o] = "expected" => Money!From(o) = "external"
               /\ m.stage[o] \notin {"none", "accepted"} => stage'[o] \notin {"none", "accepted"}
               /\ m.wallet # "own" => m.stage[o] = "none"
    <3>1. /\ Money!From(o) = "acct" /\ m.stage[o] \in {"in_transit", "done"} => o \in settled
          /\ Money!To(o) = "acct" /\ m.stage[o] = "done" => o \in settled
          /\ m.stage[o] = "failed" => stage[o] = "failed"
          /\ m.stage[o] = "expected" => Money!From(o) = "external"
          /\ m.stage[o] \notin {"none", "accepted"} => stage[o] \notin {"none", "accepted"}
          /\ m.wallet # "own" => m.stage[o] = "none"
      BY <1>1, <2>4 DEF SnapshotTrue
    <3> QED
      BY <2>4, <3>1
  <2> QED
    BY <2>1, <2>2, <2>3, <2>4 DEF SnapshotTrue
<1>2. ASSUME FrameTrue(m) PROVE FrameTrue(m)'
  <2>1. m.at \in 0..clock' /\ m.at # clock' /\ m.equity.fills \in 0..fills'
    BY <1>2 DEF FrameTrue
  <2> QED
    BY <1>2, <2>1 DEF FrameTrue
<1> QED
  BY <1>1, <1>2

LEMMA InUseStays ==
    ASSUME route' = route, InUseTrue, InUse' \subseteq InUse,
           \A m : (SnapshotTrue(m) => SnapshotTrue(m)') /\ (FrameTrue(m) => FrameTrue(m)'),
           frame' # Nothing => frame'.kind = "venue",
           money' # Nothing => money'.snap.kind = "snapshot"
    PROVE  InUseTrue'
<1>1. \A m, n : Agree(m, n) => Agree(m, n)'
  BY ComposedStays DEF Agree
<1> QED
  BY <1>1 DEF InUseTrue

(* What is shown stays as it is. *)
LEMMA ShownStays ==
    ASSUME route' = route, money' = money, preds' = preds, frame' = frame,
           Composed, Money!FramesAdvance, Money!VenueBlamedRightly, Money!OperationBlamedRightly
    PROVE  /\ Composed' /\ Money!FramesAdvance'
           /\ Money!VenueBlamedRightly' /\ Money!OperationBlamedRightly'
<1>1. Composed'
  <2>1. /\ \A s, f : Money!Settled(s, f)' = Money!Settled(s, f)
        /\ \A s, accepted, f : LegsOf(s, accepted, f)' = LegsOf(s, accepted, f)
        /\ \A s, f : Money!FramedLegs(s, f)' = Money!FramedLegs(s, f)
        /\ \A s, arriving, venue :
              Money!moneyRevalue(s, arriving, venue)' = Money!moneyRevalue(s, arriving, venue)
    BY ComposedStays
  <2> QED
    BY <2>1 DEF Composed, Money!Figures
<1>2. Money!FramesAdvance' /\ Money!OperationBlamedRightly'
  BY DEF Money!FramesAdvance, Money!OperationBlamedRightly, Money!Figures
<1>3. Money!VenueBlamedRightly'
  <2>1. /\ Money!Ops' = Money!Ops /\ \A s : Money!Framed(s)' = Money!Framed(s)
        /\ \A o : Money!moneyTouches(o, "acct")' <=> Money!moneyTouches(o, "acct")
    BY RouteStays, SetsStay
  <2> QED
    BY <2>1 DEF Money!VenueBlamedRightly
<1> QED
  BY <1>1, <1>2, <1>3

LEMMA MoneyShows == MoneyInv /\ money # Nothing => ShownOK
<1> SUFFICES ASSUME MoneyInv, money # Nothing
             PROVE  ShownOK
  OBVIOUS
<1>1. SnapshotTrue(money.snap)
  <2>1. money.snap \in InUse /\ money.snap.kind = "snapshot"
    BY DEF MoneyInv, InUseTrue, InUse
  <2> QED
    BY <2>1 DEF MoneyInv, InUseTrue, FrameTrue
<1>2. ASSUME frame # Nothing PROVE FrameTrue(frame) /\ VenueAhead(money.snap, frame)
  <2>1. frame \in InUse /\ frame.kind = "venue" /\ money.snap \in InUse
    BY <1>2 DEF MoneyInv, InUseTrue, InUse
  <2>2. FrameTrue(frame) /\ Agree(money.snap, frame)
    BY <2>1 DEF MoneyInv, InUseTrue, SnapshotTrue
  <2> QED
    BY <1>1, <2>1, <2>2 DEF Agree, SnapshotTrue
<1>3. RouteOK /\ Composed /\ preds \in SUBSET Money!Ops /\ clock \in Nat /\ fills \in Nat
  BY DEF MoneyInv, Money!TypeOK
<1> QED
  BY <1>1, <1>2, <1>3 DEF ShownOK

(* What is shown after it is composed anew. *)
LEMMA ComposedAnew ==
    ASSUME route' = route, NEW s, NEW before,
           money' = Money!ComposeWalletMoney(s, before, preds', frame')
    PROVE  /\ money'.snap = s /\ Composed'
           /\ money'.from = IF before = Nothing THEN Nothing ELSE before.snap
           /\ \A f \in Money!Figures :
                 money'.change[f] = IF before = Nothing THEN Money!NoChange
                                    ELSE Money!moneyChange(s, f, LegsOf(s, preds', f), before)
<1> DEFINE legs == [f \in Money!Figures |-> LegsOf(s, preds', f)]
<1>1. /\ money'.snap = s
      /\ money'.settled = [f \in Money!Figures |-> Money!Settled(s, f)]
      /\ money'.legs = legs
      /\ money'.revalued = Money!moneyRevalue(s,
            {l \in Money!FramedLegs(s, "acct") : l.dir = "incoming"}, frame')
      /\ money'.from = IF before = Nothing THEN Nothing ELSE before.snap
      /\ money'.change = [f \in Money!Figures |->
            IF before = Nothing THEN Money!NoChange
            ELSE Money!moneyChange(s, f, legs[f], before)]
  BY DEF Money!ComposeWalletMoney, LegsOf
<1>2. \A f \in Money!Figures : legs[f] = LegsOf(s, preds', f)
  OBVIOUS
<1> HIDE DEF legs
<1>3. \A f \in Money!Figures :
         money'.change[f] = IF before = Nothing THEN Money!NoChange
                            ELSE Money!moneyChange(s, f, LegsOf(s, preds', f), before)
  BY <1>1, <1>2
<1>4. /\ \A t, f : Money!Settled(t, f)' = Money!Settled(t, f)
      /\ \A t, accepted, f : LegsOf(t, accepted, f)' = LegsOf(t, accepted, f)
      /\ \A t, f : Money!FramedLegs(t, f)' = Money!FramedLegs(t, f)
      /\ \A t, arriving, venue :
            Money!moneyRevalue(t, arriving, venue)' = Money!moneyRevalue(t, arriving, venue)
  BY ComposedStays
<1>5. Composed'
  BY <1>1, <1>4 DEF Composed, Money!Figures, legs
<1> QED
  BY <1>1, <1>3, <1>5

-----------------------------------------------------------------------------
LEMMA Recomposed ==
    ASSUME MoneyInv, route' = route, money' = Money!Again(preds', frame')
    PROVE  /\ money' # Nothing => money # Nothing /\ money'.snap = money.snap
           /\ Composed' /\ Money!FramesAdvance'
           /\ Money!VenueBlamedRightly' /\ Money!OperationBlamedRightly'
<1>1. CASE money = Nothing
  <2>1. money' = Nothing
    BY <1>1 DEF Money!Again
  <2> QED
    BY <2>1 DEF Composed, Money!FramesAdvance, Money!VenueBlamedRightly,
                Money!OperationBlamedRightly
<1>2. CASE money # Nothing
  <2>1. money' = Money!ComposeWalletMoney(money.snap, money, preds', frame')
    BY <1>2 DEF Money!Again
  <2>2. /\ money'.snap = money.snap /\ Composed' /\ money'.from = money.snap
        /\ \A f \in Money!Figures : money'.change[f] =
              Money!moneyChange(money.snap, f, LegsOf(money.snap, preds', f), money)
    BY <1>2, <2>1, ComposedAnew
  <2>3. money.snap.seq \in Nat
    BY <1>2, MoneyShows DEF ShownOK, SnapshotTrue
  <2>4. \A f \in Money!Figures : money'.change[f] = Money!NoChange
    <3>1. money.snap.seq >= money.snap.seq
      BY <2>3
    <3>2. \A f, legs : Money!moneyChange(money.snap, f, legs, money) = Money!NoChange
      BY <3>1, Zenon DEF Money!moneyChange
    <3> QED
      BY <2>2, <3>2
  <2>5. Money!FramesAdvance'
    BY <2>2, <2>3 DEF Money!FramesAdvance
  <2>6. Money!VenueBlamedRightly' /\ Money!OperationBlamedRightly'
    BY <2>4 DEF Money!VenueBlamedRightly, Money!OperationBlamedRightly, Money!NoChange,
                Money!Figures
  <2> QED
    BY <1>2, <2>2, <2>5, <2>6
<1> QED
  BY <1>1, <1>2

(* What is sent is true, and agrees with all that is in use. *)
LEMMA SentTrue ==
    ASSUME MoneyInv, NEW w
    PROVE  /\ SnapshotTrue(Money!Snapshot(w)) /\ FrameTrue(Money!VenueFrame)
           /\ VenueAhead(Money!Snapshot(w), Money!VenueFrame)
           /\ Grows(Money!Snapshot(w), Money!Snapshot(w))
           /\ \A n \in InUse :
                 /\ SnapshotTrue(n) => /\ Grows(Money!Snapshot(w), n) /\ Grows(n, Money!Snapshot(w))
                                       /\ VenueAhead(n, Money!VenueFrame)
                 /\ FrameTrue(n) => VenueAhead(Money!Snapshot(w), n)
<1> DEFINE s == Money!Snapshot(w)
           v == Money!VenueFrame
<1>1. /\ s.kind = "snapshot" /\ s.wallet = w /\ s.seq = clock /\ s.fills = fills
      /\ w = "own" => s.stage = stage
      /\ w # "own" => s.stage = [o \in Money!Ops |-> "none"]
  BY DEF Money!Snapshot
<1>2. /\ v.kind = "venue" /\ v.at = clock /\ v.equity.fills = fills
      /\ \A o \in Money!Ops : o \in v.equity.ops <=> Held(o, o \in settled)
  BY DEF Money!VenueFrame, Held
<1> HIDE DEF s, v
<1>3. /\ clock \in Nat /\ fills \in Nat /\ stage \in [Money!Ops -> Stages] /\ Booked /\ RouteOK
  BY DEF MoneyInv, Money!TypeOK, Stages
<1>4. SnapshotTrue(s)
  <2>1. s.kind = "snapshot" /\ s.seq \in 0..clock /\ s.fills \in 0..fills
    BY <1>1, <1>3
  <2>2. s.stage \in [Money!Ops -> Stages]
    BY <1>1, <1>3 DEF Stages
  <2>3. s.seq = clock => s.fills = fills /\ (s.wallet = "own" => s.stage = stage)
    BY <1>1
  <2>4. ASSUME NEW o \in Money!Ops
        PROVE  /\ Money!From(o) = "acct" /\ s.stage[o] \in {"in_transit", "done"} => o \in settled
               /\ Money!To(o) = "acct" /\ s.stage[o] = "done" => o \in settled
               /\ s.stage[o] = "failed" => stage[o] = "failed"
               /\ s.stage[o] = "expected" => Money!From(o) = "external"
               /\ s.stage[o] \notin {"none", "accepted"} => stage[o] \notin {"none", "accepted"}
               /\ s.wallet # "own" => s.stage[o] = "none"
    <3>1. CASE w = "own"
      BY <1>1, <1>3, <3>1 DEF Booked
    <3>2. CASE w # "own"
      BY <1>1, <3>2
    <3> QED
      BY <3>1, <3>2
  <2> QED
    BY <2>1, <2>2, <2>3, <2>4 DEF SnapshotTrue
<1>5. FrameTrue(v)
  BY <1>2, <1>3 DEF FrameTrue
<1>6. ASSUME NEW n, SnapshotTrue(n) PROVE Grows(s, n) /\ Grows(n, s) /\ VenueAhead(n, v)
  <2>1. /\ n.seq \in 0..clock /\ n.fills \in 0..fills
        /\ n.seq = clock => (n.wallet = "own" => n.stage = stage)
        /\ \A o \in Money!Ops :
              /\ Money!From(o) = "acct" /\ n.stage[o] \in {"in_transit", "done"} => o \in settled
              /\ Money!To(o) = "acct" /\ n.stage[o] = "done" => o \in settled
              /\ n.stage[o] = "failed" => stage[o] = "failed"
              /\ n.stage[o] \notin {"none", "accepted"} => stage[o] \notin {"none", "accepted"}
              /\ n.wallet # "own" => n.stage[o] = "none"
    BY <1>6 DEF SnapshotTrue
  <2>2. Grows(s, n)
    <3>1. CASE w # "own"
      BY <1>1, <3>1 DEF Grows, Money!Framed
    <3>2. CASE w = "own" /\ n.seq = clock /\ n.wallet = "own"
      BY <1>1, <2>1, <3>2 DEF Grows, Money!Framed
    <3> QED
      BY <1>1, <1>3, <2>1, <3>1, <3>2 DEF Grows
  <2>3. Grows(n, s)
    <3>1. CASE w # "own" /\ n.wallet = w
      BY <2>1, <3>1 DEF Grows, Money!Framed
    <3>2. CASE w = "own" /\ n.wallet = w
      BY <1>1, <2>1, <3>2 DEF Grows, Money!Framed
    <3> QED
      BY <1>1, <3>1, <3>2 DEF Grows
  <2>4. ASSUME NEW o \in Money!Ops
        PROVE  /\ Money!From(o) = "acct" /\ n.stage[o] \in {"in_transit", "done"} =>
                      o \notin v.equity.ops
               /\ Money!To(o) = "acct" /\ n.stage[o] = "done" => o \in v.equity.ops
               /\ Money!To(o) = "acct" /\ n.stage[o] = "failed" => o \notin v.equity.ops
               /\ Money!From(o) # "acct" /\ Money!To(o) # "acct" => o \notin v.equity.ops
    <3>1. Money!From(o) # Money!To(o)
      BY <1>3 DEF RouteOK
    <3>2. stage[o] = "failed" => o \notin settled
      BY <1>3 DEF Booked
    <3> QED
      BY <1>2, <2>1, <3>1, <3>2 DEF Held
  <2>5. VenueAhead(n, v)
    BY <1>2, <1>3, <2>1, <2>4 DEF VenueAhead
  <2> QED
    BY <2>2, <2>3, <2>5
<1>7. ASSUME NEW n, FrameTrue(n) PROVE VenueAhead(s, n)
  <2>1. /\ n.at \in 0..clock
        /\ n.at = clock => /\ n.equity.fills = fills
                           /\ \A o \in Money!Ops : o \in n.equity.ops <=> Held(o, o \in settled)
    BY <1>7 DEF FrameTrue
  <2>2. ASSUME NEW o \in Money!Ops, n.at = clock
        PROVE  /\ Money!From(o) = "acct" /\ s.stage[o] \in {"in_transit", "done"} =>
                      o \notin n.equity.ops
               /\ Money!To(o) = "acct" /\ s.stage[o] = "done" => o \in n.equity.ops
               /\ Money!To(o) = "acct" /\ s.stage[o] = "failed" => o \notin n.equity.ops
               /\ Money!From(o) # "acct" /\ Money!To(o) # "acct" => o \notin n.equity.ops
    <3>1. Money!From(o) # Money!To(o)
      BY <1>3 DEF RouteOK
    <3>2. stage[o] = "failed" => o \notin settled
      BY <1>3 DEF Booked
    <3>3. /\ Money!From(o) = "acct" /\ s.stage[o] \in {"in_transit", "done"} => o \in settled
          /\ Money!To(o) = "acct" /\ s.stage[o] = "done" => o \in settled
          /\ s.stage[o] = "failed" => stage[o] = "failed"
      BY <1>4 DEF SnapshotTrue
    <3> QED
      BY <2>1, <2>2, <3>1, <3>2, <3>3 DEF Held
  <2>3. n.at >= s.seq => n.at = clock
    BY <1>1, <1>3, <2>1
  <2> QED
    BY <1>1, <1>3, <2>1, <2>2, <2>3 DEF VenueAhead
<1>8. Grows(s, s)
  BY DEF Grows
<1> QED
  BY <1>4, <1>5, <1>6, <1>7, <1>8 DEF s, v

-----------------------------------------------------------------------------
LEMMA MoneyInitInv ==
    ASSUME Money!ConstantsOK, Money!Init
    PROVE  MoneyInv
<1>1. PICK sc \in Scenarios : route = sc.route /\ left = sc.frames
  BY DEF Money!Init
<1>2. RouteOK /\ left \in Nat /\ MoneyFills \in Nat
  BY <1>1 DEF Money!ConstantsOK, RouteOK, Money!Ops, Money!From, Money!To
<1>3. Money!TypeOK /\ Booked
  BY <1>2 DEF Money!Init, Money!TypeOK, Booked
<1>4. InUseTrue
  BY DEF Money!Init, InUseTrue, InUse
<1>5. /\ Composed /\ Money!FramesAdvance /\ Money!VenueBlamedRightly
      /\ Money!OperationBlamedRightly
  BY DEF Money!Init, Composed, Money!FramesAdvance, Money!VenueBlamedRightly,
         Money!OperationBlamedRightly
<1> QED
  BY <1>2, <1>3, <1>4, <1>5 DEF MoneyInv

(* A step of the journal, of the venue, or of one who submits. *)
LEMMA TimePasses ==
    ASSUME MoneyInv, route' = route, clock' = clock + 1, fills' \in fills..MoneyFills, left' = left,
           mwire' = mwire, frame' = frame, preds' \in SUBSET Money!Ops,
           stage' \in [Money!Ops -> Stages], settled \subseteq settled', settled' \subseteq Money!Ops,
           \A o \in Money!Ops :
              /\ stage[o] = "failed" => stage'[o] = "failed"
              /\ stage[o] \notin {"none", "accepted"} => stage'[o] \notin {"none", "accepted"}
              /\ Money!From(o) = "acct" /\ stage'[o] \in {"in_transit", "done"} => o \in settled'
              /\ Money!To(o) = "acct" /\ stage'[o] = "done" => o \in settled'
              /\ stage'[o] = "failed" => o \notin settled'
              /\ stage'[o] = "expected" => Money!From(o) = "external",
           \/ money' = money /\ preds' = preds
           \/ money' = Money!Again(preds', frame')
    PROVE  MoneyInv'
<1>1. /\ clock \in Nat /\ fills \in 0..MoneyFills /\ left \in Nat
      /\ Money!Ops' = Money!Ops
      /\ \A o : Money!From(o)' = Money!From(o) /\ Money!To(o)' = Money!To(o)
  BY RouteStays DEF MoneyInv, Money!TypeOK
<1>2. Money!TypeOK'
  <2>1. fills' \in 0..MoneyFills /\ clock' \in Nat /\ left' \in Nat
    BY <1>1
  <2> QED
    BY <1>1, <2>1 DEF Money!TypeOK, Stages
<1>3. RouteOK'
  <2>1. RouteOK
    BY DEF MoneyInv
  <2> QED
    BY <1>1, <2>1 DEF RouteOK
<1>4. Booked'
  BY <1>1 DEF Booked
<1>5. Composed' /\ Money!FramesAdvance' /\ Money!VenueBlamedRightly' /\ Money!OperationBlamedRightly'
  <2>1. CASE money' = money /\ preds' = preds
    BY <2>1, ShownStays DEF MoneyInv
  <2>2. CASE money' = Money!Again(preds', frame')
    BY <2>2, Recomposed
  <2> QED
    BY <2>1, <2>2
<1>6. InUseTrue'
  <2>1. money' # Nothing => money # Nothing /\ money'.snap = money.snap
    BY Recomposed
  <2>2. InUse' \subseteq InUse
    BY <2>1 DEF InUse
  <2>3. \A m : (SnapshotTrue(m) => SnapshotTrue(m)') /\ (FrameTrue(m) => FrameTrue(m)')
    <3>1. fills \in Nat /\ fills' \in Nat /\ fills <= fills'
      BY <1>1
    <3> QED
      BY <1>1, <3>1, MessagesStay
  <2>4. /\ InUseTrue
        /\ frame' # Nothing => frame'.kind = "venue"
        /\ money' # Nothing => money'.snap.kind = "snapshot"
    BY <2>1 DEF MoneyInv, InUseTrue
  <2> QED
    BY <2>2, <2>3, <2>4, InUseStays
<1> QED
  BY <1>2, <1>3, <1>4, <1>5, <1>6 DEF MoneyInv

LEMMA JournalStep ==
    ASSUME MoneyInv, NEW o \in Money!Ops,
           Money!JournalMoves(o) \/ Money!VenueSettles(o) \/ Money!Submit(o)
    PROVE  MoneyInv'
<1>1. /\ stage \in [Money!Ops -> Stages] /\ settled \subseteq Money!Ops /\ preds \in SUBSET Money!Ops
      /\ fills \in 0..MoneyFills
      /\ \A x \in Money!Ops :
           /\ Money!From(x) = "acct" /\ stage[x] \in {"in_transit", "done"} => x \in settled
           /\ Money!To(x) = "acct" /\ stage[x] = "done" => x \in settled
           /\ stage[x] = "failed" => x \notin settled
           /\ stage[x] = "expected" => Money!From(x) = "external"
  BY DEF MoneyInv, Money!TypeOK, Booked, Stages
<1>2. fills \in fills..MoneyFills
  BY <1>1
<1>3. CASE Money!JournalMoves(o)
  <2>1. PICK st \in Money!Steps :
          /\ stage[o] = st[1]
          /\ (Money!From(o) # "external" => st[2] # "expected")
          /\ (Money!From(o) = "acct" /\ st[2] = "in_transit" => o \in settled)
          /\ (Money!To(o) = "acct" /\ st[2] = "done" => o \in settled)
          /\ (st[2] = "failed" => o \notin settled)
          /\ stage' = [stage EXCEPT ![o] = st[2]]
    BY <1>3 DEF Money!JournalMoves
  <2>2. /\ st[1] \in {"none", "accepted", "expected", "reserved", "in_transit"}
        /\ st[2] \in {"expected", "reserved", "in_transit", "done", "failed"}
        /\ st[2] = "done" => st[1] = "in_transit"
    BY DEF Money!Steps
  <2>3. /\ route' = route /\ clock' = clock + 1 /\ fills' = fills /\ left' = left /\ mwire' = mwire
        /\ frame' = frame /\ preds' = preds /\ money' = money /\ settled' = settled
    BY <1>3 DEF Money!JournalMoves, Money!product
  <2>4. stage' \in [Money!Ops -> Stages]
    BY <1>1, <2>1, <2>2 DEF Stages
  <2>5. \A x \in Money!Ops :
              /\ stage[x] = "failed" => stage'[x] = "failed"
              /\ stage[x] \notin {"none", "accepted"} => stage'[x] \notin {"none", "accepted"}
              /\ Money!From(x) = "acct" /\ stage'[x] \in {"in_transit", "done"} => x \in settled'
              /\ Money!To(x) = "acct" /\ stage'[x] = "done" => x \in settled'
              /\ stage'[x] = "failed" => x \notin settled'
              /\ stage'[x] = "expected" => Money!From(x) = "external"
    <3>1. \A x \in Money!Ops : x # o => stage'[x] = stage[x]
      BY <1>1, <2>1
    <3>2. stage'[o] = st[2]
      BY <1>1, <2>1
    <3> QED
      BY <1>1, <2>1, <2>2, <2>3, <3>1, <3>2
  <2> QED
    BY <1>1, <1>2, <2>3, <2>4, <2>5, TimePasses
<1>4. CASE Money!VenueSettles(o)
  <2>1. /\ route' = route /\ clock' = clock + 1 /\ fills' = fills /\ left' = left /\ mwire' = mwire
        /\ frame' = frame /\ preds' = preds /\ money' = money /\ stage' = stage
        /\ settled' = settled \cup {o} /\ stage[o] \in {"reserved", "in_transit"}
    BY <1>4 DEF Money!VenueSettles, Money!product
  <2> QED
    BY <1>1, <1>2, <2>1, TimePasses
<1>5. CASE Money!Submit(o)
  <2>1. /\ route' = route /\ clock' = clock + 1 /\ fills' = fills /\ left' = left /\ mwire' = mwire
        /\ frame' = frame /\ settled' = settled /\ stage[o] = "none"
        /\ stage' = [stage EXCEPT ![o] = "accepted"]
        /\ preds' = (IF Money!OwnSend(o) THEN preds ELSE preds \cup {o})
        /\ money' = Money!Again(preds', frame)
    BY <1>5 DEF Money!Submit
  <2>2. stage' \in [Money!Ops -> Stages] /\ preds' \in SUBSET Money!Ops
    BY <1>1, <2>1 DEF Stages
  <2>3. money' = Money!Again(preds', frame')
    BY <2>1
  <2>4. \A x \in Money!Ops : IF x = o THEN stage'[x] = "accepted" ELSE stage'[x] = stage[x]
    BY <1>1, <2>1
  <2> QED
    BY <1>1, <1>2, <2>1, <2>2, <2>3, <2>4, TimePasses
<1> QED
  BY <1>3, <1>4, <1>5

LEMMA FillStep ==
    ASSUME Money!ConstantsOK, MoneyInv, Money!VenueFills
    PROVE  MoneyInv'
<1>1. /\ stage \in [Money!Ops -> Stages] /\ settled \subseteq Money!Ops /\ preds \in SUBSET Money!Ops
      /\ fills \in Nat /\ MoneyFills \in Nat /\ Booked
  BY DEF MoneyInv, Money!TypeOK, Money!ConstantsOK, Stages
<1>2. /\ route' = route /\ clock' = clock + 1 /\ fills' = fills + 1 /\ fills < MoneyFills
      /\ left' = left /\ mwire' = mwire
      /\ frame' = frame /\ preds' = preds /\ money' = money /\ stage' = stage /\ settled' = settled
  BY DEF Money!VenueFills, Money!product
<1>3. fills' \in fills..MoneyFills
  BY <1>1, <1>2
<1> QED
  BY <1>1, <1>2, <1>3, TimePasses DEF Booked

(* A step in which no time passes. *)
LEMMA NoTimePasses ==
    ASSUME MoneyInv, UNCHANGED Money!journal, left' \in Nat, preds' = preds,
           frame' # Nothing => frame'.kind = "venue",
           money' # Nothing => money'.snap.kind = "snapshot",
           Composed', Money!FramesAdvance', Money!VenueBlamedRightly', Money!OperationBlamedRightly',
           \A m \in InUse' : SnapshotTrue(m) \/ FrameTrue(m),
           \A m, n \in InUse' : Agree(m, n)
    PROVE  MoneyInv'
<1>1. /\ route' = route /\ stage' = stage /\ settled' = settled /\ fills' = fills /\ clock' = clock
  BY DEF Money!journal
<1>2. Money!Ops' = Money!Ops /\ \A o : Money!From(o)' = Money!From(o) /\ Money!To(o)' = Money!To(o)
  BY <1>1, RouteStays
<1>3. Money!TypeOK' /\ RouteOK' /\ Booked'
  <2>1. Money!TypeOK /\ RouteOK /\ Booked
    BY DEF MoneyInv
  <2>2. Money!TypeOK'
    BY <1>1, <1>2, <2>1 DEF Money!TypeOK
  <2>3. RouteOK' /\ Booked'
    BY <1>1, <1>2, <2>1 DEF RouteOK, Booked
  <2> QED
    BY <2>2, <2>3
<1>4. \A m : (SnapshotTrue(m) => SnapshotTrue(m)') /\ (FrameTrue(m) => FrameTrue(m)')
  BY <1>1, <1>2 DEF SnapshotTrue, FrameTrue, Held
<1>5. \A m, n : Agree(m, n) => Agree(m, n)'
  BY <1>1, ComposedStays DEF Agree
<1>6. InUseTrue'
  BY <1>4, <1>5 DEF InUseTrue
<1> QED
  BY <1>3, <1>6 DEF MoneyInv

LEMMA SendStep ==
    ASSUME MoneyInv, Money!Send
    PROVE  MoneyInv'
<1>1. PICK m \in {Money!Snapshot("own"), Money!Snapshot("foreign"), Money!VenueFrame} :
         mwire' = mwire \cup {m}
  BY DEF Money!Send
<1>2. /\ UNCHANGED Money!journal /\ left > 0 /\ left' = left - 1
      /\ preds' = preds /\ frame' = frame /\ money' = money
  BY DEF Money!Send, Money!product
<1>3. left' \in Nat
  BY <1>2 DEF MoneyInv, Money!TypeOK
<1>4. /\ frame' # Nothing => frame'.kind = "venue"
      /\ money' # Nothing => money'.snap.kind = "snapshot"
      /\ \A n \in InUse : SnapshotTrue(n) \/ FrameTrue(n)
      /\ \A n, k \in InUse : Agree(n, k)
  BY <1>2 DEF MoneyInv, InUseTrue
<1>5. /\ Composed' /\ Money!FramesAdvance'
      /\ Money!VenueBlamedRightly' /\ Money!OperationBlamedRightly'
  BY <1>2, ShownStays DEF MoneyInv, Money!journal
<1>6. InUse' = InUse \cup {m}
  BY <1>1, <1>2 DEF InUse
<1>7. /\ SnapshotTrue(m) \/ FrameTrue(m)
      /\ Agree(m, m) /\ \A n \in InUse : Agree(n, m) /\ Agree(m, n)
  <2>1. ASSUME NEW n, SnapshotTrue(n) PROVE n.kind = "snapshot"
    BY <2>1 DEF SnapshotTrue
  <2>2. ASSUME NEW n, FrameTrue(n) PROVE n.kind = "venue"
    BY <2>2 DEF FrameTrue
  <2>3. CASE m \in {Money!Snapshot("own"), Money!Snapshot("foreign")}
    <3>1. PICK w : m = Money!Snapshot(w)
      BY <2>3
    <3>2. /\ SnapshotTrue(m) /\ Grows(m, m)
          /\ \A n \in InUse : /\ SnapshotTrue(n) => Grows(m, n) /\ Grows(n, m)
                              /\ FrameTrue(n) => VenueAhead(m, n)
      BY <3>1, SentTrue
    <3> QED
      BY <1>4, <2>1, <2>2, <3>2 DEF Agree
  <2>4. CASE m = Money!VenueFrame
    <3>1. FrameTrue(m) /\ \A n \in InUse : SnapshotTrue(n) => VenueAhead(n, m)
      BY <2>4, SentTrue
    <3> QED
      BY <1>4, <2>1, <2>2, <3>1 DEF Agree
  <2> QED
    BY <2>3, <2>4
<1>8. \A n \in InUse' : SnapshotTrue(n) \/ FrameTrue(n)
  BY <1>4, <1>6, <1>7
<1>9. \A n, k \in InUse' : Agree(n, k)
  BY <1>4, <1>6, <1>7
<1> QED
  BY <1>2, <1>3, <1>4, <1>5, <1>8, <1>9, NoTimePasses

(* A snapshot that supersedes the one shown is composed; the changes are   *)
(* those between the two.                                                  *)
LEMMA SnapshotShown ==
    ASSUME MoneyInv, NEW m \in mwire, m.kind = "snapshot", route' = route,
           preds' = preds, frame' = frame, Money!WalletSnapshotSupersedes(m),
           money' = Money!ComposeWalletMoney(m, money, preds, frame)
    PROVE  /\ money'.snap = m /\ Composed' /\ Money!FramesAdvance'
           /\ Money!VenueBlamedRightly' /\ Money!OperationBlamedRightly'
<1>1. /\ money'.snap = m /\ Composed'
      /\ money'.from = IF money = Nothing THEN Nothing ELSE money.snap
      /\ \A f \in Money!Figures :
            money'.change[f] = IF money = Nothing THEN Money!NoChange
                               ELSE Money!moneyChange(m, f, LegsOf(m, preds, f), money)
  <2>1. money' = Money!ComposeWalletMoney(m, money, preds', frame')
    OBVIOUS
  <2>2. preds' = preds
    OBVIOUS
  <2> QED
    BY <2>1, <2>2, ComposedAnew
<1>2. CASE money = Nothing
  <2>1. money'.from = Nothing /\ \A f \in Money!Figures : money'.change[f] = Money!NoChange
    BY <1>1, <1>2
  <2> QED
    BY <1>1, <2>1 DEF Money!FramesAdvance, Money!VenueBlamedRightly, Money!OperationBlamedRightly,
                      Money!NoChange, Money!Figures
<1>3. CASE money # Nothing
  <2>1. ShownOK
    BY <1>3, MoneyShows
  <2>2. m \in InUse /\ money.snap \in InUse
    BY <1>3 DEF InUse
  <2>3. SnapshotTrue(m) /\ money.snap.kind = "snapshot" /\ Agree(money.snap, m)
    BY <1>3, <2>2 DEF MoneyInv, InUseTrue, FrameTrue
  <2>4. Grows(money.snap, m)
    BY <2>3 DEF Agree
  <2>5. m.wallet = money.snap.wallet /\ m.seq >= money.snap.seq
    BY <1>3 DEF Money!WalletSnapshotSupersedes
  <2>6. /\ money'.from = money.snap
        /\ \A f \in Money!Figures :
              money'.change[f] = Money!moneyChange(m, f, LegsOf(m, preds, f), money)
    BY <1>1, <1>3
  <2>7. \A f \in Money!Figures :
           /\ \A o \in money'.change[f].ops : money.snap.stage[o] # m.stage[o]
           /\ (f = "acct" /\ money'.change[f].cause = "venue") =>
                 /\ money.snap.fills # m.fills
                 /\ \A o \in Money!Ops : Money!moneyTouches(o, "acct") =>
                       (o \in Money!Framed(money.snap) \cup Money!Framed(m) =>
                           money.snap.stage[o] = m.stage[o])
    BY <2>1, <2>3, <2>4, <2>5, <2>6, ChangeIs
  <2>8. Money!FramesAdvance'
    <3>1. money.snap.seq \in Nat /\ m.seq \in Nat
      BY <2>1, <2>3 DEF ShownOK, SnapshotTrue
    <3> QED
      BY <1>1, <2>5, <2>6, <3>1 DEF Money!FramesAdvance
  <2>9. Money!OperationBlamedRightly'
    BY <1>1, <2>6, <2>7 DEF Money!OperationBlamedRightly, Money!Figures
  <2>10. Money!VenueBlamedRightly'
    <3>1. /\ Money!Ops' = Money!Ops /\ \A s : Money!Framed(s)' = Money!Framed(s)
          /\ \A o : Money!moneyTouches(o, "acct")' <=> Money!moneyTouches(o, "acct")
      BY RouteStays, SetsStay
    <3>2. "acct" \in Money!Figures
      BY DEF Money!Figures
    <3> QED
      BY <1>1, <2>6, <2>7, <3>1, <3>2 DEF Money!VenueBlamedRightly
  <2> QED
    BY <1>1, <2>8, <2>9, <2>10
<1> QED
  BY <1>2, <1>3

LEMMA ReceiveStep ==
    ASSUME MoneyInv, NEW m \in mwire, Money!TakeSnapshot(m) \/ Money!TakeFrame(m)
    PROVE  MoneyInv'
<1>1. /\ UNCHANGED Money!journal /\ route' = route /\ left' \in Nat /\ preds' = preds
      /\ mwire' \subseteq mwire
  BY DEF Money!TakeSnapshot, Money!TakeFrame, Money!journal, MoneyInv, Money!TypeOK
<1>2. /\ \A n \in InUse : SnapshotTrue(n) \/ FrameTrue(n)
      /\ \A n, k \in InUse : Agree(n, k)
      /\ m \in InUse
      /\ frame # Nothing => frame.kind = "venue"
      /\ money # Nothing => money.snap.kind = "snapshot"
  BY DEF MoneyInv, InUseTrue, InUse
<1>3. /\ InUse' \subseteq InUse
      /\ frame' # Nothing => frame'.kind = "venue"
      /\ money' # Nothing => money'.snap.kind = "snapshot"
      /\ Composed' /\ Money!FramesAdvance'
      /\ Money!VenueBlamedRightly' /\ Money!OperationBlamedRightly'
  <2>1. CASE Money!TakeSnapshot(m)
    <3>1. /\ m.kind = "snapshot" /\ frame' = frame
          /\ money' = IF Money!WalletSnapshotSupersedes(m)
                      THEN Money!ComposeWalletMoney(m, money, preds, frame) ELSE money
      BY <2>1 DEF Money!TakeSnapshot
    <3>2. CASE Money!WalletSnapshotSupersedes(m)
      <4>1. money' = Money!ComposeWalletMoney(m, money, preds, frame)
        BY <3>1, <3>2
      <4>2. /\ money'.snap = m /\ Composed' /\ Money!FramesAdvance'
            /\ Money!VenueBlamedRightly' /\ Money!OperationBlamedRightly'
        BY <1>1, <3>1, <3>2, <4>1, SnapshotShown
      <4>3. InUse' \subseteq InUse
        BY <1>1, <3>1, <4>2 DEF InUse
      <4> QED
        BY <1>2, <3>1, <4>2, <4>3
    <3>3. CASE ~Money!WalletSnapshotSupersedes(m)
      <4>1. money' = money
        BY <3>1, <3>3
      <4>2. /\ Composed' /\ Money!FramesAdvance'
            /\ Money!VenueBlamedRightly' /\ Money!OperationBlamedRightly'
        BY <1>1, <3>1, <4>1, ShownStays DEF MoneyInv
      <4>3. InUse' \subseteq InUse
        BY <1>1, <3>1, <4>1 DEF InUse
      <4> QED
        BY <1>2, <3>1, <4>1, <4>2, <4>3
    <3> QED
      BY <3>2, <3>3
  <2>2. CASE Money!TakeFrame(m)
    <3>1. m.kind = "venue" /\ frame' = m /\ money' = Money!Again(preds', frame')
      <4>1. m.kind = "venue" /\ frame' = m /\ money' = Money!Again(preds, m)
        BY <2>2 DEF Money!TakeFrame
      <4> QED
        BY <1>1, <4>1
    <3>2. /\ money' # Nothing => money # Nothing /\ money'.snap = money.snap
          /\ Composed' /\ Money!FramesAdvance'
          /\ Money!VenueBlamedRightly' /\ Money!OperationBlamedRightly'
      BY <1>1, <3>1, Recomposed
    <3>3. InUse' \subseteq InUse
      BY <1>1, <3>1, <3>2 DEF InUse
    <3> QED
      BY <1>2, <3>1, <3>2, <3>3
  <2> QED
    BY <2>1, <2>2
<1> QED
  BY <1>1, <1>2, <1>3, NoTimePasses

LEMMA MoneyStays ==
    ASSUME MoneyInv, UNCHANGED Money!vars
    PROVE  MoneyInv'
<1>1. /\ UNCHANGED Money!journal /\ route' = route /\ left' = left /\ preds' = preds
      /\ mwire' = mwire /\ frame' = frame /\ money' = money
  BY DEF Money!vars, Money!journal, Money!product
<1>2. /\ Composed' /\ Money!FramesAdvance'
      /\ Money!VenueBlamedRightly' /\ Money!OperationBlamedRightly'
  BY <1>1, ShownStays DEF MoneyInv
<1>3. left' \in Nat /\ InUse' = InUse
  BY <1>1 DEF MoneyInv, Money!TypeOK, InUse
<1>4. /\ frame' # Nothing => frame'.kind = "venue"
      /\ money' # Nothing => money'.snap.kind = "snapshot"
      /\ \A n \in InUse' : SnapshotTrue(n) \/ FrameTrue(n)
      /\ \A n, k \in InUse' : Agree(n, k)
  BY <1>1, <1>3 DEF MoneyInv, InUseTrue
<1> QED
  BY <1>1, <1>2, <1>3, <1>4, NoTimePasses

LEMMA MoneyInvSound == MoneyInv => Money!MoneySound
<1> SUFFICES ASSUME MoneyInv
             PROVE  Money!MoneySound
  OBVIOUS
<1>1. Money!LegOnce /\ Money!CountedOnce /\ Money!NotOutdated
  <2>1. CASE money = Nothing
    BY <2>1 DEF Money!LegOnce, Money!CountedOnce, Money!NotOutdated
  <2>2. CASE money # Nothing
    BY <2>2, MoneyShows, ShownOnce, CountsOnce, ShownNotOutdated
  <2> QED
    BY <2>1, <2>2
<1> QED
  BY <1>1 DEF MoneyInv, Money!MoneySound

(* ComposeWalletMoney, WalletSnapshotSupersedes: whatever the order in     *)
(* which snapshots and venue frames arrive, an operation is listed once in *)
(* each direction of a figure and its money counted once, no figure goes   *)
(* back in time, and a change is put down to what made it. For any routes, *)
(* any number of operations, snapshots and frames.                         *)
THEOREM MoneyIsSound == AlgorithmsSpec => []MoneySound
<1> DEFINE Inv == topic = "money" => MoneyInv
<1> Money!ConstantsOK
  BY ComputationsOK
<1>1. Money!Init => MoneyInv
  BY MoneyInitInv
<1>2. MoneyInv /\ [Money!Next]_(Money!vars) => MoneyInv'
  <2> SUFFICES ASSUME MoneyInv, [Money!Next]_(Money!vars)
               PROVE  MoneyInv'
    OBVIOUS
  <2>1. CASE \E o \in Money!Ops :
               Money!JournalMoves(o) \/ Money!VenueSettles(o) \/ Money!Submit(o)
    BY <2>1, JournalStep
  <2>2. CASE Money!VenueFills
    BY <2>2, FillStep
  <2>3. CASE Money!Send
    BY <2>3, SendStep
  <2>4. CASE \E m \in mwire : Money!TakeSnapshot(m) \/ Money!TakeFrame(m)
    BY <2>4, ReceiveStep
  <2>5. CASE UNCHANGED Money!vars
    BY <2>5, MoneyStays
  <2> QED
    BY <2>1, <2>2, <2>3, <2>4, <2>5 DEF Money!Next
<1>3. MoneyInv => Money!MoneySound
  BY MoneyInvSound
<1>4. AlgorithmsInit => Inv
  BY <1>1 DEF AlgorithmsInit
<1>5. Inv /\ [AlgorithmsNext]_algorithmVars => Inv'
  <2> SUFFICES ASSUME Inv, [AlgorithmsNext]_algorithmVars, topic' = "money"
               PROVE  MoneyInv'
    OBVIOUS
  <2>1. topic = "money" /\ [Money!Next]_(Money!vars)
    BY DEF AlgorithmsNext, algorithmVars, MoneyNext, EvidenceNext, BookNext, CacheNext, CandlesNext,
      LadderNext, RevalueNext,
      moneyVars, Money!vars, Money!journal, Money!product
  <2> QED
    BY <1>2, <2>1
<1>6. Inv => MoneySound
  BY <1>3 DEF MoneySound
<1> QED
  BY <1>4, <1>5, <1>6, PTL DEF AlgorithmsSpec

-----------------------------------------------------------------------------
(* CandleChunks, a part of Algorithms. The chunks of a range are defined   *)
(* by recursion: that the function exists, and what holds of each chunk,   *)
(* is shown of the least number for which it fails.                        *)

(* What follows a chunk in a range that ends at e: the chunk that begins   *)
(* at its end, if that is still in the range.                              *)
After(interval, e, c) == IF c.end < e THEN Candles!chunkForTime(interval, c.end) ELSE c

(* The chunks of chunksForRange one by one, as far as the k-th. *)
Walk(interval, s, e, k, g) ==
    [n \in 1..k |-> IF n = 1 THEN Candles!chunkForTime(interval, s)
                    ELSE After(interval, e, g[n - 1])]

LEMMA LeastNatural ==
    ASSUME NEW S \in SUBSET Nat, S # {}
    PROVE  \E m \in S : \A k \in S : m <= k
<1>1. PICK m \in S : \A k \in S : <<k, m>> \notin OpToRel(<, Nat)
  BY NatLessThanWellFounded, WFMin, Zenon
<1>2. \A k \in S : ~(k < m)
  BY <1>1 DEF OpToRel
<1> QED
  BY <1>2

LEMMA WalkExists ==
    ASSUME NEW interval, NEW s, NEW e, NEW n \in Nat
    PROVE  \E g : g = Walk(interval, s, e, n, g)
<1> DEFINE Bad == {k \in Nat : ~ \E g : g = Walk(interval, s, e, k, g)}
<1> SUFFICES ASSUME Bad # {} PROVE FALSE
  OBVIOUS
<1>1. PICK m \in Bad : \A k \in Bad : m <= k
  <2>1. Bad \in SUBSET Nat
    OBVIOUS
  <2> HIDE DEF Bad
  <2> QED
    BY <2>1, LeastNatural
<1>2. m \in Nat /\ ~ \E g : g = Walk(interval, s, e, m, g)
  OBVIOUS
<1>3. CASE m = 0
  <2> DEFINE g == [i \in 1..0 |-> 0]
  <2>1. g = Walk(interval, s, e, 0, g)
    BY DEF Walk
  <2> QED
    BY <1>2, <1>3, <2>1
<1>4. CASE m # 0
  <2>1. m - 1 \in Nat /\ m - 1 \notin Bad
    <3>1. m - 1 \in Nat /\ ~(m <= m - 1)
      BY <1>2, <1>4
    <3> HIDE DEF Bad
    <3> QED
      BY <1>1, <3>1
  <2>2. PICK h : h = Walk(interval, s, e, m - 1, h)
    BY <2>1
  <2> DEFINE g == [i \in 1..m |-> IF i < m THEN h[i]
                                  ELSE IF m = 1 THEN Candles!chunkForTime(interval, s)
                                  ELSE After(interval, e, h[m - 1])]
  <2>3. \A i \in 1..(m - 1) : g[i] = h[i]
    BY <1>2
  <2>4. \A i \in 1..m : g[i] = IF i = 1 THEN Candles!chunkForTime(interval, s)
                               ELSE After(interval, e, g[i - 1])
    <3> SUFFICES ASSUME NEW i \in 1..m
                 PROVE g[i] = IF i = 1 THEN Candles!chunkForTime(interval, s)
                              ELSE After(interval, e, g[i - 1])
      OBVIOUS
    <3>1. i # 1 => i - 1 \in 1..(m - 1) /\ g[i - 1] = h[i - 1]
      BY <1>2, <2>3
    <3>2. CASE i < m
      <4>1. i \in 1..(m - 1) /\ g[i] = h[i]
        BY <1>2, <2>3, <3>2
      <4>2. h[i] = IF i = 1 THEN Candles!chunkForTime(interval, s)
                   ELSE After(interval, e, h[i - 1])
        BY <2>2, <4>1 DEF Walk
      <4> HIDE DEF g
      <4> QED
        BY <3>1, <4>1, <4>2
    <3>3. CASE i = m
      <4>1. g[i] = IF m = 1 THEN Candles!chunkForTime(interval, s)
                   ELSE After(interval, e, h[m - 1])
        BY <1>2, <3>3
      <4> HIDE DEF g
      <4> QED
        BY <3>1, <3>3, <4>1
    <3> QED
      BY <1>2, <3>2, <3>3
  <2>5. g = Walk(interval, s, e, m, g)
    <3>1. g = [i \in 1..m |-> g[i]]
      OBVIOUS
    <3> HIDE DEF g
    <3> QED
      BY <2>4, <3>1 DEF Walk
  <2> QED
    BY <1>2, <2>5
<1> QED
  BY <1>3, <1>4

LEMMA RangeIsWalked ==
    ASSUME NEW interval, NEW s \in Nat, NEW e \in Nat, s < e
    PROVE  \E g : /\ g = Walk(interval, s, e, e - s, g)
                  /\ Candles!chunksForRange(interval, s, e) = {g[n] : n \in 1..(e - s)}
<1> DEFINE f == CHOOSE g : g = [n \in 1..(e - s) |->
                     IF n = 1 THEN Candles!chunkForTime(interval, s)
                     ELSE IF g[n - 1].end < e THEN Candles!chunkForTime(interval, g[n - 1].end)
                     ELSE g[n - 1]]
<1>1. \E g : g = Walk(interval, s, e, e - s, g)
  <2>1. e - s \in Nat
    OBVIOUS
  <2> QED
    BY <2>1, WalkExists
<1>2. f = Walk(interval, s, e, e - s, f)
  <2>1. \E g : g = [n \in 1..(e - s) |->
                     IF n = 1 THEN Candles!chunkForTime(interval, s)
                     ELSE IF g[n - 1].end < e THEN Candles!chunkForTime(interval, g[n - 1].end)
                     ELSE g[n - 1]]
    BY <1>1 DEF Walk, After
  <2>2. f = [n \in 1..(e - s) |->
                     IF n = 1 THEN Candles!chunkForTime(interval, s)
                     ELSE IF f[n - 1].end < e THEN Candles!chunkForTime(interval, f[n - 1].end)
                     ELSE f[n - 1]]
    BY <2>1
  <2> HIDE DEF f
  <2> QED
    BY <2>2 DEF Walk, After
<1>3. Candles!chunksForRange(interval, s, e) = {f[n] : n \in 1..(e - s)}
  BY DEF Candles!chunksForRange
<1> QED
  BY <1>2, <1>3

(* The first and the last of a set of integers that is bounded there. *)
LEMMA LastBefore ==
    ASSUME NEW S \in SUBSET Int, NEW d \in Int, \E m \in S : m <= d
    PROVE  \A T : T = {m \in S : m <= d} => Candles!Max(T) \in T /\ \A m \in T : m <= Candles!Max(T)
<1> DEFINE T == {m \in S : m <= d}
           Back == {d - m : m \in T}
<1>1. Back \in SUBSET Nat /\ Back # {}
  <2>1. PICK m \in S : m <= d
    OBVIOUS
  <2>2. m \in T /\ d - m \in Back
    BY <2>1
  <2>3. \A y \in T : d - y \in Nat
    OBVIOUS
  <2> QED
    BY <2>2, <2>3
<1>2. PICK b \in Back : \A k \in Back : b <= k
  <2> HIDE DEF Back
  <2> QED
    BY <1>1, LeastNatural
<1>3. PICK x \in T : b = d - x
  OBVIOUS
<1>4. \A y \in T : x >= y
  <2> SUFFICES ASSUME NEW y \in T PROVE x >= y
    OBVIOUS
  <2>1. d - y \in Back
    OBVIOUS
  <2>2. b <= d - y /\ x \in Int /\ y \in Int
    BY <1>2, <2>1
  <2> QED
    BY <1>3, <2>2
<1>5. Candles!Max(T) \in T /\ \A y \in T : Candles!Max(T) >= y
  <2> HIDE DEF T
  <2> QED
    BY <1>4 DEF Candles!Max
<1> QED
  BY <1>5

LEMMA FirstAfter ==
    ASSUME NEW S \in SUBSET Int, NEW d \in Int, \E m \in S : m > d
    PROVE  \A T : T = {m \in S : m > d} => Candles!Min(T) \in T /\ \A m \in T : Candles!Min(T) <= m
<1> DEFINE T == {m \in S : m > d}
           Ahead == {m - d : m \in T}
<1>1. Ahead \in SUBSET Nat /\ Ahead # {}
  <2>1. PICK m \in S : m > d
    OBVIOUS
  <2>2. m \in T /\ m - d \in Ahead
    BY <2>1
  <2>3. \A y \in T : y - d \in Nat
    OBVIOUS
  <2> QED
    BY <2>2, <2>3
<1>2. PICK b \in Ahead : \A k \in Ahead : b <= k
  <2> HIDE DEF Ahead
  <2> QED
    BY <1>1, LeastNatural
<1>3. PICK x \in T : b = x - d
  OBVIOUS
<1>4. \A y \in T : x <= y
  <2> SUFFICES ASSUME NEW y \in T PROVE x <= y
    OBVIOUS
  <2>1. y - d \in Ahead
    OBVIOUS
  <2>2. b <= y - d /\ x \in Int /\ y \in Int
    BY <1>2, <2>1
  <2> QED
    BY <1>3, <2>2
<1>5. Candles!Min(T) \in T /\ \A y \in T : Candles!Min(T) <= y
  <2> HIDE DEF T
  <2> QED
    BY <1>4 DEF Candles!Min
<1> QED
  BY <1>5

LEMMA MonthIs ==
    ASSUME Candles!ConstantsOK, NEW d \in 0..MaxDay
    PROVE  /\ Candles!monthlyChunk(d).start \in MonthStarts
           /\ Candles!monthlyChunk(d).end \in MonthStarts
           /\ Candles!monthlyChunk(d).start <= d /\ d < Candles!monthlyChunk(d).end
           /\ \A m \in MonthStarts : m <= d => m <= Candles!monthlyChunk(d).start
<1>1. /\ MonthStarts \in SUBSET Int /\ d \in Int
      /\ \E m \in MonthStarts : m <= d
      /\ \E m \in MonthStarts : m > d
  <2>1. MonthStarts \subseteq Int /\ MaxDay \in Nat
    BY DEF Candles!ConstantsOK
  <2>2. PICK a, b \in MonthStarts : a <= 0 /\ b > MaxDay
    BY DEF Candles!ConstantsOK
  <2>3. a <= d /\ b > d
    BY <2>1, <2>2
  <2> QED
    BY <2>1, <2>3
<1> DEFINE T == {m \in MonthStarts : m <= d}
           U == {m \in MonthStarts : m > d}
<1>2. Candles!Max(T) \in T /\ \A m \in T : m <= Candles!Max(T)
  BY <1>1, LastBefore
<1>3. Candles!Min(U) \in U
  BY <1>1, FirstAfter
<1>4. /\ Candles!monthlyChunk(d).start = Candles!Max(T)
      /\ Candles!monthlyChunk(d).end = Candles!Min(U)
  BY DEF Candles!monthlyChunk
<1> QED
  BY <1>1, <1>2, <1>3, <1>4

Chunk == [start : Int, end : Int]

(* A chunk has the time it is for. *)
LEMMA ChunkHas ==
    ASSUME Candles!ConstantsOK, NEW interval, NEW d \in 0..MaxDay,
           NEW c, c = Candles!chunkForTime(interval, d)
    PROVE  c \in Chunk /\ c.start <= d /\ d < c.end
<1>1. MonthStarts \subseteq Int /\ Weekday \in 0..6 /\ d \in Nat
  BY DEF Candles!ConstantsOK
<1>2. CASE c = Candles!dailyChunk(d)
  BY <1>1, <1>2 DEF Candles!dailyChunk, Chunk
<1>3. CASE c = Candles!weeklyChunk(d)
  BY <1>1, <1>3 DEF Candles!weeklyChunk, Chunk
<1>4. CASE c = Candles!monthlyChunk(d)
  <2>1. c = [start |-> c.start, end |-> c.end]
    BY <1>4 DEF Candles!monthlyChunk
  <2> QED
    BY <1>1, <1>4, <2>1, MonthIs DEF Chunk
<1> QED
  BY <1>2, <1>3, <1>4 DEF Candles!chunkForTime

(* The chunk for the end of a chunk begins there. *)
LEMMA ChunksMeet ==
    ASSUME Candles!ConstantsOK, NEW interval, NEW d \in 0..MaxDay,
           NEW c, c = Candles!chunkForTime(interval, d), c.end \in 0..MaxDay
    PROVE  Candles!chunkForTime(interval, c.end).start = c.end
<1>1. MonthStarts \subseteq Int /\ Weekday \in 0..6 /\ d \in Nat
  BY DEF Candles!ConstantsOK
<1>2. CASE interval \in {"1m", "15m"}
  BY <1>2 DEF Candles!chunkForTime, Candles!dailyChunk
<1>3. CASE interval \in {"1h", "4h"}
  <2>1. /\ c = Candles!weeklyChunk(d)
        /\ Candles!chunkForTime(interval, c.end) = Candles!weeklyChunk(c.end)
    BY <1>3 DEF Candles!chunkForTime
  <2> QED
    BY <1>1, <2>1 DEF Candles!weeklyChunk
<1>4. CASE interval \notin {"1m", "15m", "1h", "4h"}
  <2>1. /\ c = Candles!monthlyChunk(d)
        /\ Candles!chunkForTime(interval, c.end) = Candles!monthlyChunk(c.end)
    BY <1>4 DEF Candles!chunkForTime
  <2>2. c.end \in MonthStarts /\ c.end \in Int
    BY <1>1, <2>1, MonthIs
  <2>3. /\ Candles!monthlyChunk(c.end).start <= c.end
        /\ c.end <= Candles!monthlyChunk(c.end).start
        /\ Candles!monthlyChunk(c.end).start \in Int
    <3>1. c.end \in 0..MaxDay /\ c.end <= c.end
      BY <2>2
    <3>2. /\ Candles!monthlyChunk(c.end).start \in MonthStarts
          /\ Candles!monthlyChunk(c.end).start <= c.end
          /\ \A m \in MonthStarts : m <= c.end => m <= Candles!monthlyChunk(c.end).start
      BY <3>1, MonthIs
    <3> QED
      BY <1>1, <2>2, <3>1, <3>2
  <2> QED
    BY <2>1, <2>2, <2>3
<1> QED
  BY <1>2, <1>3, <1>4

(* As far as the n-th, the chunks cover the range from its start to the    *)
(* end of the n-th, and each ends where the next begins or is the last.    *)
Covers(s, n, g) ==
    \A d \in s..(g[n].end - 1) : \E i \in 1..n : g[i].start <= d /\ d < g[i].end

Walked(interval, s, e, n, g) ==
    /\ g[n] \in Chunk /\ s < g[n].end
    /\ \E d \in 0..MaxDay : d < e /\ g[n] = Candles!chunkForTime(interval, d)
    /\ g[n].end >= s + n \/ g[n].end >= e
    /\ Covers(s, n, g)
    /\ \A i \in 1..n : g[i] = g[n] \/ g[i].end <= g[n].start

LEMMA AllWalked ==
    ASSUME Candles!ConstantsOK, NEW interval, NEW s \in Nat, NEW e \in 0..MaxDay, s < e,
           NEW g, g = Walk(interval, s, e, e - s, g)
    PROVE  \A n \in 1..(e - s) : Walked(interval, s, e, n, g)
<1> DEFINE Bad == {n \in 1..(e - s) : ~Walked(interval, s, e, n, g)}
<1> SUFFICES ASSUME Bad # {} PROVE FALSE
  OBVIOUS
<1>1. PICK m \in Bad : \A k \in Bad : m <= k
  <2>1. Bad \in SUBSET Nat
    OBVIOUS
  <2> HIDE DEF Bad
  <2> QED
    BY <2>1, LeastNatural
<1>2. m \in 1..(e - s) /\ ~Walked(interval, s, e, m, g)
  OBVIOUS
<1>3. MaxDay \in Nat /\ e \in Nat /\ s \in 0..MaxDay
  BY DEF Candles!ConstantsOK
<1>4. g[m] = IF m = 1 THEN Candles!chunkForTime(interval, s) ELSE After(interval, e, g[m - 1])
  BY <1>2 DEF Walk
<1>5. CASE m = 1
  <2>1. g[1] = Candles!chunkForTime(interval, s)
    BY <1>4, <1>5
  <2>2. g[1] \in Chunk /\ g[1].start <= s /\ s < g[1].end
    BY <1>3, <2>1, ChunkHas
  <2>3. g[1].start \in Int /\ g[1].end \in Int
    BY <2>2 DEF Chunk
  <2>4. Covers(s, 1, g)
    BY <2>2, <2>3 DEF Covers
  <2>5. \A i \in 1..1 : g[i] = g[1]
    OBVIOUS
  <2>6. g[1].end >= s + 1
    BY <2>2, <2>3
  <2>7. Walked(interval, s, e, 1, g)
    BY <1>3, <2>1, <2>2, <2>4, <2>5, <2>6 DEF Walked
  <2> QED
    BY <1>2, <1>5, <2>7
<1>6. CASE m # 1
  <2> DEFINE p == m - 1
  <2>1. p \in 1..(e - s) /\ p \in Nat /\ m = p + 1 /\ Walked(interval, s, e, p, g)
    <3>1. p \in 1..(e - s) /\ ~(m <= p)
      BY <1>2, <1>6
    <3>2. p \notin Bad
      <4> HIDE DEF Bad
      <4> QED
        BY <1>1, <3>1
    <3> QED
      BY <1>2, <3>1, <3>2
  <2> HIDE DEF p
  <2>2. g[m] = After(interval, e, g[p])
    BY <1>4, <1>6, <2>1
  <2>3. g[p].start \in Int /\ g[p].end \in Int /\ g[p].end > s
    BY <2>1 DEF Walked, Chunk
  <2>4. CASE g[p].end < e
    <3>1. g[m] = Candles!chunkForTime(interval, g[p].end) /\ g[p].end \in 0..MaxDay
      BY <2>2, <2>3, <2>4, <1>3 DEF After
    <3>2. g[m] \in Chunk /\ g[m].start <= g[p].end /\ g[p].end < g[m].end
      BY <3>1, ChunkHas
    <3>3. g[m].start = g[p].end
      <4>1. PICK d \in 0..MaxDay : g[p] = Candles!chunkForTime(interval, d)
        BY <2>1 DEF Walked
      <4> QED
        BY <3>1, <4>1, ChunksMeet
    <3>4. g[m].start \in Int /\ g[m].end \in Int
      BY <3>2 DEF Chunk
    <3>5. g[m].end >= s + m
      BY <2>1, <2>3, <2>4, <3>2, <3>4 DEF Walked
    <3>6. Covers(s, m, g)
      <4> SUFFICES ASSUME NEW d \in s..(g[m].end - 1)
                   PROVE  \E i \in 1..m : g[i].start <= d /\ d < g[i].end
        BY DEF Covers
      <4>1. CASE d < g[p].end
        <5>1. d \in s..(g[p].end - 1)
          BY <4>1, <2>3
        <5>2. PICK i \in 1..p : g[i].start <= d /\ d < g[i].end
          BY <2>1, <5>1 DEF Walked, Covers
        <5>3. i \in 1..m
          BY <2>1
        <5> QED
          BY <5>2, <5>3
      <4>2. CASE g[p].end <= d
        <5>1. g[m].start <= d /\ d < g[m].end
          BY <4>2, <3>3, <3>4
        <5>2. m \in 1..m
          BY <2>1
        <5> QED
          BY <5>1, <5>2
      <4> QED
        BY <4>1, <4>2, <2>3, <3>4
    <3>7. ASSUME NEW i \in 1..m PROVE g[i] = g[m] \/ g[i].end <= g[m].start
      <4>1. CASE i = m
        BY <4>1
      <4>2. CASE i \in 1..p
        <5>1. g[i] = g[p] \/ g[i].end <= g[p].start
          BY <2>1, <4>2 DEF Walked
        <5>2. CASE g[i] = g[p]
          BY <5>2, <3>3, <2>3
        <5>3. CASE g[i].end <= g[p].start
          <6>1. g[p].start <= g[p].end
            <7>1. PICK d \in 0..MaxDay : g[p] = Candles!chunkForTime(interval, d)
              BY <2>1 DEF Walked
            <7>2. g[p].start <= d /\ d < g[p].end
              BY <7>1, ChunkHas
            <7> QED
              BY <7>2, <2>3, <1>3
          <6>2. g[i].end \in Int
            <7>1. i \in 1..(e - s) /\ i < m
              BY <1>2, <2>1, <4>2
            <7>2. i \notin Bad
              <8>1. i \in Nat /\ m \in Nat /\ ~(m <= i)
                BY <7>1, <2>1
              <8> HIDE DEF Bad
              <8> QED
                BY <1>1, <8>1
            <7>3. Walked(interval, s, e, i, g)
              BY <7>1, <7>2
            <7> QED
              BY <7>3 DEF Walked, Chunk
          <6> QED
            BY <5>3, <6>1, <6>2, <3>3, <2>3
        <5> QED
          BY <5>1, <5>2, <5>3
      <4> QED
        BY <4>1, <4>2, <2>1
    <3>8. s < g[m].end /\ \E d \in 0..MaxDay : d < e /\ g[m] = Candles!chunkForTime(interval, d)
      BY <3>1, <2>3, <2>4, <3>2, <3>4
    <3> QED
      BY <1>2, <3>2, <3>5, <3>6, <3>7, <3>8 DEF Walked
  <2>5. CASE ~(g[p].end < e)
    <3>1. g[m] = g[p]
      BY <2>2, <2>5 DEF After
    <3>2. Covers(s, m, g)
      <4>1. 1..p \subseteq 1..m
        BY <2>1
      <4> QED
        BY <2>1, <3>1, <4>1 DEF Walked, Covers
    <3>3. \A i \in 1..m : g[i] = g[m] \/ g[i].end <= g[m].start
      <4> SUFFICES ASSUME NEW i \in 1..m PROVE g[i] = g[m] \/ g[i].end <= g[m].start
        OBVIOUS
      <4>1. i = m \/ i \in 1..p
        BY <2>1
      <4> QED
        BY <2>1, <3>1, <4>1 DEF Walked
    <3>4. g[m].end >= e
      BY <3>1, <2>5, <2>3, <1>3
    <3> QED
      BY <1>2, <2>1, <3>1, <3>2, <3>3, <3>4 DEF Walked
  <2> QED
    BY <2>4, <2>5
<1> QED
  BY <1>5, <1>6

(* The chunks of a range cover it, and no two of them overlap. *)
LEMMA ChunksTile ==
    ASSUME Candles!ConstantsOK, NEW interval, NEW s \in 0..MaxDay, NEW e \in 0..MaxDay,
           NEW C, C = Candles!chunksForRange(interval, s, e)
    PROVE  /\ C \subseteq Chunk
           /\ \A d \in s..(e - 1) : \E c \in C : c.start <= d /\ d < c.end
           /\ \A c, b \in C : c # b => c.end <= b.start \/ b.end <= c.start
<1>1. MaxDay \in Nat /\ s \in Nat /\ e \in Nat
  BY DEF Candles!ConstantsOK
<1>2. CASE s >= e
  <2>1. C = {}
    BY <1>2 DEF Candles!chunksForRange
  <2> QED
    BY <1>1, <1>2, <2>1
<1>3. CASE s < e
  <2>1. PICK g : /\ g = Walk(interval, s, e, e - s, g)
                 /\ C = {g[n] : n \in 1..(e - s)}
    BY <1>1, <1>3, RangeIsWalked
  <2>2. \A n \in 1..(e - s) : Walked(interval, s, e, n, g)
    BY <1>1, <1>3, <2>1, AllWalked
  <2>3. C \subseteq Chunk
    BY <2>1, <2>2 DEF Walked
  <2>4. ASSUME NEW d \in s..(e - 1) PROVE \E c \in C : c.start <= d /\ d < c.end
    <3>1. e - s \in 1..(e - s)
      BY <1>1, <1>3
    <3>2. Walked(interval, s, e, e - s, g)
      BY <2>2, <3>1
    <3>3. g[e - s].end \in Int /\ g[e - s].end >= e
      BY <3>2, <1>1 DEF Walked, Chunk
    <3>4. d \in s..(g[e - s].end - 1)
      BY <1>1, <3>3
    <3>5. PICK i \in 1..(e - s) : g[i].start <= d /\ d < g[i].end
      BY <3>2, <3>4 DEF Walked, Covers
    <3> QED
      BY <2>1, <3>5
  <2>5. ASSUME NEW c \in C, NEW b \in C, c # b PROVE c.end <= b.start \/ b.end <= c.start
    <3>1. PICK i, j \in 1..(e - s) : c = g[i] /\ b = g[j]
      BY <2>1
    <3>2. CASE i <= j
      <4>1. i \in 1..j
        BY <3>2
      <4>2. g[i] = g[j] \/ g[i].end <= g[j].start
        BY <2>2, <4>1 DEF Walked
      <4> QED
        BY <2>5, <3>1, <4>2
    <3>3. CASE j <= i
      <4>1. j \in 1..i
        BY <3>3
      <4>2. g[j] = g[i] \/ g[j].end <= g[i].start
        BY <2>2, <4>1 DEF Walked
      <4> QED
        BY <2>5, <3>1, <4>2
    <3> QED
      BY <3>2, <3>3
  <2> QED
    BY <2>3, <2>4, <2>5
<1> QED
  BY <1>1, <1>2, <1>3

(* What is held of a chunk is an error, what the API has of the chunk and  *)
(* the range, or what the CDN has of it once the chunk is finished.        *)
AnswerOK(c) ==
    \/ results[c] \in {Nothing, {-1}, Candles!clampFallback(c)}
    \/ req.now >= c.end /\ results[c] = Candles!fetchCDNChunk(c)

Requests == [interval : {"1m", "1h", "1d"}, start : 0..MaxDay, end : 0..MaxDay, now : 0..MaxDay]

CandlesInv ==
    /\ req \in Requests
    /\ results = [c \in DOMAIN results |-> results[c]]
    /\ DOMAIN results \subseteq Chunk
    /\ Candles!Tiled
    /\ \A c \in DOMAIN results : AnswerOK(c)
    /\ Candles!TypeOK /\ Candles!RangeExact

LEMMA CandlesInitInv == Candles!ConstantsOK /\ Candles!Init => CandlesInv
<1> SUFFICES ASSUME Candles!ConstantsOK, Candles!Init PROVE CandlesInv
  OBVIOUS
<1> DEFINE C == Candles!chunksForRange(req.interval, req.start, req.end)
<1>1. /\ req \in Requests /\ candles = Nothing
      /\ results = [c \in C |-> Nothing]
  BY DEF Candles!Init, Requests
<1>2. req.start \in 0..MaxDay /\ req.end \in 0..MaxDay
  BY <1>1 DEF Requests
<1>3. /\ C \subseteq Chunk
      /\ \A d \in req.start..(req.end - 1) : \E c \in C : c.start <= d /\ d < c.end
      /\ \A c, b \in C : c # b => c.end <= b.start \/ b.end <= c.start
  BY <1>2, ChunksTile
<1> HIDE DEF C
<1>4. DOMAIN results = C /\ results = [c \in DOMAIN results |-> results[c]]
  BY <1>1
<1>5. \A c \in DOMAIN results : AnswerOK(c)
  BY <1>1, <1>4 DEF AnswerOK
<1>6. Candles!Tiled
  BY <1>3, <1>4 DEF Candles!Tiled, Candles!Chunks
<1>7. Candles!TypeOK /\ Candles!RangeExact
  BY <1>1 DEF Candles!TypeOK, Candles!RangeExact
<1> QED
  BY <1>1, <1>3, <1>4, <1>5, <1>6, <1>7 DEF CandlesInv

(* The greater and the smaller of two. *)
LEMMA OfTwo ==
    ASSUME NEW a \in Int, NEW b \in Int
    PROVE  /\ Candles!Max({a, b}) = IF a >= b THEN a ELSE b
           /\ Candles!Min({a, b}) = IF a <= b THEN a ELSE b
BY DEF Candles!Max, Candles!Min

(* The API's answer for a chunk is the days of both that exist. *)
LEMMA FallbackIs ==
    ASSUME NEW c \in Chunk, req \in Requests, MaxDay \in Nat
    PROVE  Candles!clampFallback(c) =
             {d \in req.start..req.end : c.start <= d /\ d < c.end /\ d <= req.now}
<1>1. /\ c.start \in Int /\ c.end \in Int /\ req.start \in Int /\ req.end \in Int
      /\ c.end - 1 \in Int
  BY DEF Chunk, Requests
<1>2. /\ Candles!Max({c.start, req.start}) = IF c.start >= req.start THEN c.start ELSE req.start
      /\ Candles!Min({c.end - 1, req.end}) = IF c.end - 1 <= req.end THEN c.end - 1 ELSE req.end
  BY <1>1, OfTwo
<1> QED
  BY <1>1, <1>2 DEF Candles!clampFallback, Candles!Exists

LEMMA FetchKeeps ==
    ASSUME Candles!ConstantsOK, CandlesInv, NEW c \in Candles!Chunks, Candles!FetchChunk(c)
    PROVE  CandlesInv'
<1>1. /\ UNCHANGED <<req, candles>> /\ candles = Nothing
      /\ \E a : /\ results' = [results EXCEPT ![c] = a]
               /\ \/ a \in {{-1}, Candles!clampFallback(c)}
                  \/ req.now >= c.end /\ a = Candles!fetchCDNChunk(c)
  BY DEF Candles!FetchChunk
<1>2. PICK a : /\ results' = [results EXCEPT ![c] = a]
               /\ \/ a \in {{-1}, Candles!clampFallback(c)}
                  \/ req.now >= c.end /\ a = Candles!fetchCDNChunk(c)
  BY <1>1
<1>3. /\ DOMAIN results' = DOMAIN results
      /\ results' = [b \in DOMAIN results' |-> results'[b]]
      /\ c \in DOMAIN results /\ results'[c] = a
      /\ \A b \in DOMAIN results \ {c} : results'[b] = results[b]
  BY <1>2 DEF CandlesInv, Candles!Chunks
<1>4. Candles!Tiled'
  BY <1>1, <1>3 DEF CandlesInv, Candles!Tiled, Candles!Chunks
<1>5. \A b \in DOMAIN results' : AnswerOK(b)'
  <2> SUFFICES ASSUME NEW b \in DOMAIN results' PROVE AnswerOK(b)'
    OBVIOUS
  <2>1. /\ Candles!clampFallback(b)' = Candles!clampFallback(b)
        /\ Candles!fetchCDNChunk(b)' = Candles!fetchCDNChunk(b)
    BY <1>1 DEF Candles!clampFallback, Candles!fetchCDNChunk, Candles!Exists
  <2>2. CASE b = c
    BY <1>1, <1>2, <1>3, <2>1, <2>2 DEF AnswerOK
  <2>3. CASE b # c
    <3>1. AnswerOK(b) /\ results'[b] = results[b]
      BY <1>3, <2>3 DEF CandlesInv
    <3> QED
      BY <1>1, <2>1, <3>1 DEF AnswerOK
  <2> QED
    BY <2>2, <2>3
<1>6. Candles!TypeOK' /\ Candles!RangeExact'
  BY <1>1 DEF Candles!TypeOK, Candles!RangeExact
<1> QED
  BY <1>1, <1>3, <1>4, <1>5, <1>6 DEF CandlesInv

(* All answers are in: none of them is of another day than the range's,    *)
(* and every day of the range is in a chunk.                               *)
LEMMA AssembleKeeps ==
    ASSUME Candles!ConstantsOK, CandlesInv, Candles!fetchCandlesFromCDN
    PROVE  CandlesInv'
<1>1. /\ UNCHANGED <<req, results>>
      /\ \A c \in DOMAIN results : results[c] # Nothing
      /\ candles' = IF \E c \in DOMAIN results : results[c] = {-1} THEN {-1}
                ELSE UNION {results[c] : c \in DOMAIN results}
  BY DEF Candles!fetchCandlesFromCDN, Candles!Chunks
<1>2. /\ MaxDay \in Nat /\ req.start \in 0..MaxDay /\ req.end \in 0..MaxDay
      /\ req.now \in 0..MaxDay /\ req \in Requests
  BY DEF Candles!ConstantsOK, CandlesInv, Requests
<1>3. CASE \E c \in DOMAIN results : results[c] = {-1}
  <2>1. candles' = {-1}
    BY <1>1, <1>3
  <2>2. Candles!TypeOK'
    <3>1. -1 \in -1..MaxDay
      BY <1>2
    <3> QED
      BY <2>1, <3>1 DEF Candles!TypeOK
  <2>3. Candles!RangeExact'
    BY <2>1 DEF Candles!RangeExact
  <2> QED
    BY <1>1, <2>2, <2>3 DEF CandlesInv, AnswerOK, Candles!Tiled, Candles!Chunks,
      Candles!clampFallback, Candles!fetchCDNChunk, Candles!Exists
<1>4. CASE \A c \in DOMAIN results : results[c] # {-1}
  <2>1. candles' = UNION {results[c] : c \in DOMAIN results}
    BY <1>1, <1>4
  <2>2. \A c \in DOMAIN results :
           /\ c \in Chunk
           /\ \/ results[c] = {d \in req.start..req.end : c.start <= d /\ d < c.end /\ d <= req.now}
              \/ req.now >= c.end
                  /\ results[c] = {d \in c.start..(c.end - 1) : d >= req.start /\ d < req.end}
    <3> SUFFICES ASSUME NEW c \in DOMAIN results
                 PROVE /\ c \in Chunk
                       /\ \/ results[c] = {d \in req.start..req.end : c.start <= d /\ d < c.end /\ d <= req.now}
                          \/ req.now >= c.end
                              /\ results[c] = {d \in c.start..(c.end - 1) : d >= req.start /\ d < req.end}
      OBVIOUS
    <3>1. c \in Chunk /\ AnswerOK(c)
      BY DEF CandlesInv
    <3>2. Candles!clampFallback(c) =
             {d \in req.start..req.end : c.start <= d /\ d < c.end /\ d <= req.now}
      BY <1>2, <3>1, FallbackIs
    <3> QED
      BY <1>1, <1>4, <3>1, <3>2 DEF AnswerOK, Candles!fetchCDNChunk
  <2>3. candles' \subseteq {d \in req.start..req.end : d <= req.now}
    <3> SUFFICES ASSUME NEW c \in DOMAIN results, NEW d \in results[c]
                 PROVE  d \in req.start..req.end /\ d <= req.now
      BY <2>1
    <3>1. c \in Chunk /\ c.start \in Int /\ c.end \in Int
      BY <2>2 DEF Chunk
    <3> QED
      BY <1>2, <2>2, <3>1
  <2>4. {d \in req.start..(req.end - 1) : d <= req.now} \subseteq candles'
    <3> SUFFICES ASSUME NEW d \in req.start..(req.end - 1), d <= req.now
                 PROVE  d \in candles'
      OBVIOUS
    <3>1. PICK c \in DOMAIN results : c.start <= d /\ d < c.end
      BY DEF CandlesInv, Candles!Tiled, Candles!Chunks
    <3>2. c.start \in Int /\ c.end \in Int
      BY <2>2 DEF Chunk
    <3>3. d \in results[c]
      BY <1>2, <2>2, <3>1, <3>2
    <3> QED
      BY <2>1, <3>3
  <2>5. candles' \subseteq -1..MaxDay
    BY <1>2, <2>3
  <2>6. Candles!TypeOK' /\ Candles!RangeExact'
    BY <1>1, <2>3, <2>4, <2>5 DEF Candles!TypeOK, Candles!RangeExact, Candles!Exists
  <2> QED
    BY <1>1, <2>6 DEF CandlesInv, AnswerOK, Candles!Tiled, Candles!Chunks,
      Candles!clampFallback, Candles!fetchCDNChunk, Candles!Exists
<1> QED
  BY <1>3, <1>4

(* For any calendar and any range: the chunks of a range cover it without  *)
(* overlapping, and whatever mix of CDN and API answers, the candles       *)
(* returned are those of the range, at most the one at its end besides.    *)
THEOREM CandlesAreExact == AlgorithmsSpec => []CandlesSound
<1> DEFINE Inv == topic = "candles" => CandlesInv
<1> Candles!ConstantsOK
  BY ComputationsOK
<1>1. Candles!Init => CandlesInv
  BY CandlesInitInv
<1>2. CandlesInv /\ [Candles!Next]_(Candles!vars) => CandlesInv'
  <2> SUFFICES ASSUME CandlesInv, [Candles!Next]_(Candles!vars) PROVE CandlesInv'
    OBVIOUS
  <2>1. CASE \E c \in Candles!Chunks : Candles!FetchChunk(c)
    BY <2>1, FetchKeeps
  <2>2. CASE Candles!fetchCandlesFromCDN
    BY <2>2, AssembleKeeps
  <2>3. CASE UNCHANGED Candles!vars
    BY <2>3 DEF Candles!vars, CandlesInv, AnswerOK, Candles!Tiled, Candles!Chunks, Candles!TypeOK,
      Candles!RangeExact, Candles!clampFallback, Candles!fetchCDNChunk, Candles!Exists
  <2> QED
    BY <2>1, <2>2, <2>3 DEF Candles!Next
<1>3. CandlesInv => Candles!CandlesSound
  BY DEF CandlesInv, Candles!CandlesSound
<1>4. AlgorithmsInit => Inv
  BY <1>1 DEF AlgorithmsInit
<1>5. Inv /\ [AlgorithmsNext]_algorithmVars => Inv'
  <2> SUFFICES ASSUME Inv, [AlgorithmsNext]_algorithmVars, topic' = "candles"
               PROVE  CandlesInv'
    OBVIOUS
  <2>1. topic = "candles" /\ [Candles!Next]_(Candles!vars)
    BY DEF AlgorithmsNext, algorithmVars, MoneyNext, EvidenceNext, BookNext, CacheNext, CandlesNext,
      LadderNext, RevalueNext,
      candleVars, Candles!vars
  <2> QED
    BY <1>2, <2>1
<1>6. Inv => CandlesSound
  BY <1>3 DEF CandlesSound
<1> QED
  BY <1>4, <1>5, <1>6, PTL DEF AlgorithmsSpec

-----------------------------------------------------------------------------
(* ChartLadder, a part of Algorithms. *)

(* The bucket of each rung, and that each is a multiple of the one before. *)
Rung(r, b, next) ==
    /\ r \in 1..7 /\ Ladder!BucketMs[r] = b
    /\ r # 7 => Ladder!BucketMs[r + 1] = next

LEMMA Rungs ==
    ASSUME NEW r \in 1..7
    PROVE  \/ Rung(r, 1, 5) \/ Rung(r, 5, 15) \/ Rung(r, 15, 30) \/ Rung(r, 30, 60)
           \/ Rung(r, 60, 240) \/ Rung(r, 240, 1440) \/ Rung(r, 1440, 0)
BY DEF Rung, Ladder!BucketMs, Ladder!day

Bucket == {1, 5, 15, 30, 60, 240, 1440}

(* The first multiple of b not before t, and the last not after it. *)
LEMMA Alignment ==
    ASSUME NEW b \in Bucket, NEW t \in Nat
    PROVE  LET down == (t \div b) * b IN
           /\ down \in Nat /\ down <= t /\ t < down + b
           /\ down % b = 0 /\ (t % b = 0 <=> down = t)
           /\ (down + b) % b = 0
BY DEF Bucket

LEMMA NoneBetween ==
    ASSUME NEW b \in Bucket, NEW s \in Nat, NEW t \in Nat, s % b = 0, t % b = 0, s < t
    PROVE  s + b <= t
BY DEF Bucket

LEMMA Strides ==
    ASSUME NEW b \in Bucket, NEW s \in Nat, NEW t \in Nat, s % b = 0, t % b = 0, s <= t
    PROVE  /\ (t - s) \div b \in Nat
           /\ t = s + ((t - s) \div b) * b
BY DEF Bucket

LEMMA StrideIs ==
    ASSUME NEW b \in Bucket, NEW s \in Nat, NEW i \in Nat, s % b = 0
    PROVE  (s + i * b) % b = 0 /\ s + i * b \in Nat
BY DEF Bucket

LEMMA FewStrides ==
    ASSUME NEW b \in Bucket, NEW s \in Nat, NEW t \in Nat, NEW i \in Nat, s + i * b <= t
    PROVE  i <= (t - s) \div b
BY DEF Bucket

LEMMA BucketIs == \A r \in 1..7 : Ladder!BucketMs[r] \in Bucket
<1> SUFFICES ASSUME NEW r \in 1..7 PROVE Ladder!BucketMs[r] \in Bucket
  OBVIOUS
<1>1. \/ Rung(r, 1, 5) \/ Rung(r, 5, 15) \/ Rung(r, 15, 30) \/ Rung(r, 30, 60)
      \/ Rung(r, 60, 240) \/ Rung(r, 240, 1440) \/ Rung(r, 1440, 0)
  BY Rungs
<1> QED
  BY <1>1 DEF Rung, Bucket

(* The boundaries are the multiples of the bucket in the range. *)
LEMMA BoundariesAre ==
    ASSUME NEW r \in 1..7, NEW b, b = Ladder!BucketMs[r],
           NEW from \in Nat, NEW to \in Nat, from < to
    PROVE  Ladder!Boundaries(from, to, r) = {t \in from..to : t % b = 0}
<1> DEFINE down == (from \div b) * b
           first == IF down = from THEN down ELSE down + b
           final == (to \div b) * b
<1>1. b \in Bucket /\ b \in Nat
  BY BucketIs DEF Bucket
<1>2. /\ down \in Nat /\ down <= from /\ from < down + b /\ down % b = 0
      /\ (down + b) % b = 0
  BY <1>1, Alignment
<1>3. final \in Nat /\ final <= to /\ to < final + b /\ final % b = 0
  BY <1>1, Alignment
<1>4. Ladder!AlignUp(from, r) = first /\ Ladder!AlignDown(to, r) = final
  BY DEF Ladder!AlignUp, Ladder!AlignDown
<1>5. first \in Nat /\ from <= first /\ first < from + b /\ first % b = 0
  BY <1>1, <1>2
<1> HIDE DEF down, first, final
<1>6. Ladder!Boundaries(from, to, r) =
        {first + i * b : i \in 0..((final - first) \div b)}
  BY <1>4 DEF Ladder!Boundaries
<1>7. ASSUME NEW t \in from..to, t % b = 0
      PROVE  \E i \in 0..((final - first) \div b) : t = first + i * b
  <2>1. t \in Nat
    OBVIOUS
  <2>2. first <= t
    <3>1. first - b < from /\ first - b < t
      BY <1>1, <1>5, <2>1
    <3>2. CASE t < first
      <4>1. t + b <= first
        BY <3>2, <1>1, <1>5, <2>1, <1>7, NoneBetween
      <4> QED
        BY <4>1, <1>5, <1>1, <2>1
    <3> QED
      BY <3>2, <1>5, <2>1
  <2>3. t <= final
    <3>1. CASE final < t
      <4>1. final + b <= t
        BY <3>1, <1>1, <1>3, <2>1, <1>7, NoneBetween
      <4> QED
        BY <4>1, <1>3, <1>1, <2>1
    <3> QED
      BY <3>1, <1>3, <2>1
  <2> DEFINE i == (t - first) \div b
  <2>4. i \in Nat /\ t = first + i * b
    BY <2>1, <2>2, <1>1, <1>5, <1>7, Strides
  <2>5. i <= (final - first) \div b
    <3>1. first + i * b <= final
      BY <2>3, <2>4
    <3> HIDE DEF i
    <3> QED
      BY <3>1, <2>4, <1>1, <1>3, <1>5, FewStrides
  <2>6. (final - first) \div b \in Int
    BY <1>1, <1>3, <1>5 DEF Bucket
  <2> HIDE DEF i
  <2> QED
    BY <2>4, <2>5, <2>6
<1>8. ASSUME NEW i \in 0..((final - first) \div b)
      PROVE  first + i * b \in from..to /\ (first + i * b) % b = 0
  <2>1. first + i * b <= final
    BY <1>1, <1>3, <1>5 DEF Bucket
  <2>2. i \in Nat
    OBVIOUS
  <2>3. (first + i * b) % b = 0 /\ first + i * b \in Nat
    BY <2>2, <1>1, <1>5, StrideIs
  <2>4. first <= first + i * b
    BY <2>2, <1>1, <1>5 DEF Bucket
  <2> QED
    BY <2>1, <2>3, <2>4, <1>3, <1>5
<1> QED
  BY <1>6, <1>7, <1>8

LEMMA LadderCardinality == \A S : Ladder!Cardinality(S) = Cardinality(S)
BY DEF Ladder!Cardinality, Cardinality

(* A range that fits in so many buckets has at most one boundary more. *)
LEMMA BoundariesFit ==
    ASSUME NEW r \in 1..7, NEW from \in Nat, NEW span \in Nat, NEW points \in Int,
           Ladder!Buckets(span, r) <= Ladder!Clamped(points)
    PROVE  Ladder!Cardinality(Ladder!Boundaries(from, from + span, r))
              <= Ladder!Clamped(points) + 1
<1> DEFINE b == Ladder!BucketMs[r]
           first == Ladder!AlignUp(from, r)
           k == (Ladder!AlignDown(from + span, r) - first) \div b
           top == Ladder!Clamped(points)
<1>1. b \in Bucket
  BY BucketIs
<1>2. top \in Nat
  BY DEF Ladder!Clamped, Ladder!MinChartPoints, Ladder!DefaultChartPoints
<1>3. k \in Int /\ k <= top
  <2>1. (span + b - 1) \div b <= top
    BY DEF Ladder!Buckets
  <2>2. /\ first \in Int /\ from <= first
        /\ Ladder!AlignDown(from + span, r) \in Int
        /\ Ladder!AlignDown(from + span, r) <= from + span
    BY <1>1 DEF Ladder!AlignUp, Ladder!AlignDown, Bucket
  <2> DEFINE n == Ladder!AlignDown(from + span, r) - first
  <2>3. n \in Int /\ n <= span
    BY <2>2
  <2> HIDE DEF b, top, n, first
  <2>4. n \div b <= top /\ n \div b \in Int
    BY <2>1, <2>3, <1>1, <1>2 DEF Bucket
  <2> QED
    BY <2>4 DEF n
<1> DEFINE image == {first + i * b : i \in 0..k}
<1>4. Ladder!Boundaries(from, from + span, r) = {}
        \/ Ladder!Boundaries(from, from + span, r) = image
  BY DEF Ladder!Boundaries
<1>5. IsFiniteSet(0..k) /\ Cardinality(0..k) <= top + 1
  <2>1. IsFiniteSet(0..k) /\ Cardinality(0..k) = IF 0 > k THEN 0 ELSE k - 0 + 1
    <3> HIDE DEF k
    <3> QED
      BY <1>3, FS_Interval
  <2> HIDE DEF k, top
  <2> QED
    BY <2>1, <1>2, <1>3
<1>6. Cardinality(image) <= top + 1
  <2> DEFINE f == [i \in 0..k |-> first + i * b]
  <2>1. f \in Surjection(0..k, image)
    <3> HIDE DEF first, b, k
    <3> QED
      BY DEF Surjection
  <2>2. Cardinality(image) <= Cardinality(0..k) /\ IsFiniteSet(image)
    <3> HIDE DEF f, image
    <3> QED
      BY <2>1, <1>5, FS_Surjection
  <2>3. Cardinality(image) \in Nat /\ Cardinality(0..k) \in Nat
    BY <2>2, <1>5, FS_CardinalityType
  <2> HIDE DEF image, k, top
  <2> QED
    BY <2>2, <2>3, <1>2, <1>5
<1>7. Cardinality({}) <= top + 1
  BY <1>2, FS_EmptySet
<1> HIDE DEF image, top
<1>8. Cardinality(Ladder!Boundaries(from, from + span, r)) <= top + 1
  BY <1>4, <1>6, <1>7
<1> QED
  BY <1>8, LadderCardinality DEF top

(* PickResolution takes a rung on which the range fits, if there is one. *)
LEMMA Picked ==
    ASSUME NEW span \in Nat, NEW points \in Int
    PROVE  /\ Ladder!PickResolution(span, points) \in 1..7
           /\ Ladder!PickResolution(span, points) = 7
                \/ Ladder!Buckets(span, Ladder!PickResolution(span, points))
                      <= Ladder!Clamped(points)
<1> DEFINE fit == {r \in Ladder!AllResolutions :
                      Ladder!Buckets(span, r) <= Ladder!Clamped(points)}
           least == CHOOSE r \in fit : \A x \in fit : r <= x
<1>1. fit \subseteq 1..7
  BY DEF Ladder!AllResolutions
<1>2. \A r \in fit : Ladder!Buckets(span, r) <= Ladder!Clamped(points)
  OBVIOUS
<1>3. Ladder!PickResolution(span, points) = IF fit = {} THEN 7 ELSE least
  BY DEF Ladder!PickResolution
<1> HIDE DEF fit
<1>4. CASE fit = {}
  BY <1>3, <1>4
<1>5. CASE fit # {}
  <2>1. \E r \in fit : \A x \in fit : r <= x
    <3> SUFFICES ASSUME \A r \in fit : \E x \in fit : x < r PROVE FALSE
      BY <1>1
    <3>1. 1 \notin fit /\ 2 \notin fit /\ 3 \notin fit
      BY <1>1
    <3>2. 4 \notin fit /\ 5 \notin fit
      BY <1>1, <3>1
    <3>3. 6 \notin fit /\ 7 \notin fit
      BY <1>1, <3>1, <3>2
    <3>4. PICK x \in fit : TRUE
      BY <1>5
    <3>5. x \in 1..7
      BY <1>1, <3>4
    <3>6. x = 1 \/ x = 2 \/ x = 3 \/ x = 4 \/ x = 5 \/ x = 6 \/ x = 7
      BY <3>5
    <3> QED
      BY <3>1, <3>2, <3>3, <3>4, <3>6
  <2>2. least \in fit
    BY <2>1
  <2> HIDE DEF least
  <2> QED
    BY <1>1, <1>2, <1>3, <1>5, <2>2
<1> QED
  BY <1>4, <1>5

(* What fits the budget is held by the server at that rung. *)
LEMMA Retained ==
    ASSUME NEW r \in 1..7, NEW span \in Nat, NEW points \in Int,
           r = 7 \/ Ladder!Buckets(span, r) <= Ladder!Clamped(points)
    PROVE  span <= Ladder!RetentionMs[7] => span <= Ladder!RetentionMs[r]
<1>1. Ladder!Clamped(points) <= 1000 /\ Ladder!Clamped(points) \in Int
  BY DEF Ladder!Clamped, Ladder!MinChartPoints, Ladder!DefaultChartPoints
<1>2. CASE r = 7
  BY <1>2
<1>3. CASE r # 7
  <2>1. Ladder!Buckets(span, r) <= 1000
    <3>1. Ladder!Buckets(span, r) \in Int
      BY BucketIs DEF Ladder!Buckets, Bucket
    <3> QED
      BY <3>1, <1>1, <1>3
  <2>2. (span + Ladder!BucketMs[r] - 1) \div Ladder!BucketMs[r] <= 1000
    BY <2>1 DEF Ladder!Buckets
  <2> QED
    BY <2>2, <1>3 DEF Ladder!BucketMs, Ladder!RetentionMs, Ladder!day
<1> QED
  BY <1>2, <1>3

(* Every boundary of a rung is one of the finer rung before it. *)
LEMMA Coarser ==
    ASSUME NEW r \in 1..6, NEW t \in Nat, t % Ladder!BucketMs[r + 1] = 0
    PROVE  t % Ladder!BucketMs[r] = 0
BY DEF Ladder!BucketMs, Ladder!day

LEMMA LadderIsSound == Ladder!ConstantsOK /\ Ladder!TypeOK => Ladder!LadderSound
<1> SUFFICES ASSUME Ladder!ConstantsOK, Ladder!TypeOK PROVE Ladder!LadderSound
  OBVIOUS
<1>1. /\ ask.from \in Nat /\ ask.span \in Nat /\ ask.points \in Int /\ rung \in 0..7
      /\ Ladder!To = ask.from + ask.span /\ Ladder!To \in Nat
  <2>1. ask.from \in Froms /\ ask.span \in Spans /\ ask.points \in Budgets /\ rung \in 0..7
    BY DEF Ladder!TypeOK
  <2>2. ask.from \in Nat /\ ask.span \in Nat /\ ask.points \in Int
    BY <2>1 DEF Ladder!ConstantsOK
  <2> QED
    BY <2>1, <2>2 DEF Ladder!To
<1>2. Ladder!FitsAndKept
  <2> SUFFICES ASSUME rung = Ladder!PickResolution(ask.span, ask.points)
               PROVE  /\ rung = 7 \/ Ladder!Cardinality(Ladder!Boundaries(ask.from, Ladder!To, rung))
                                         <= Ladder!Clamped(ask.points) + 1
                      /\ rung = 7 \/ Ladder!Buckets(ask.span, rung) <= Ladder!Clamped(ask.points)
                      /\ ask.span <= Ladder!RetentionMs[7] => ask.span <= Ladder!RetentionMs[rung]
    BY DEF Ladder!FitsAndKept
  <2>1. rung \in 1..7 /\ (rung = 7 \/ Ladder!Buckets(ask.span, rung) <= Ladder!Clamped(ask.points))
    BY <1>1, Picked
  <2>2. ask.span <= Ladder!RetentionMs[7] => ask.span <= Ladder!RetentionMs[rung]
    BY <1>1, <2>1, Retained
  <2>3. rung = 7 \/ Ladder!Cardinality(Ladder!Boundaries(ask.from, Ladder!To, rung))
                       <= Ladder!Clamped(ask.points) + 1
    BY <1>1, <2>1, BoundariesFit
  <2> QED
    BY <2>1, <2>2, <2>3
<1>3. \A r \in 1..7 : ask.span > 0 =>
         Ladder!Boundaries(ask.from, Ladder!To, r) =
            {t \in ask.from..Ladder!To : t % Ladder!BucketMs[r] = 0}
  <2> SUFFICES ASSUME NEW r \in 1..7, ask.span > 0
               PROVE  Ladder!Boundaries(ask.from, Ladder!To, r) =
                        {t \in ask.from..Ladder!To : t % Ladder!BucketMs[r] = 0}
    OBVIOUS
  <2>1. ask.from < Ladder!To
    BY <1>1
  <2>2. \A b : b = Ladder!BucketMs[r] =>
          Ladder!Boundaries(ask.from, Ladder!To, r) = {t \in ask.from..Ladder!To : t % b = 0}
    BY <1>1, <2>1, BoundariesAre
  <2> QED
    BY <2>2
<1>4. Ladder!BoundariesExact
  BY <1>1, <1>3 DEF Ladder!BoundariesExact
<1>5. Ladder!PromotedInPlace
  <2> SUFFICES ASSUME rung # 0, Ladder!PromotionTarget(rung) # 0
               PROVE  Ladder!Boundaries(ask.from, Ladder!To, Ladder!PromotionTarget(rung))
                        \subseteq Ladder!Boundaries(ask.from, Ladder!To, rung)
    BY DEF Ladder!PromotedInPlace
  <2>1. rung \in 1..6 /\ Ladder!PromotionTarget(rung) = rung + 1
    BY <1>1 DEF Ladder!PromotionTarget
  <2>2. CASE ask.span = 0
    <3>1. Ladder!Boundaries(ask.from, Ladder!To, rung + 1) = {}
      BY <1>1, <2>2 DEF Ladder!Boundaries
    <3> QED
      BY <2>1, <3>1
  <2>3. CASE ask.span > 0
    <3>1. \A t \in ask.from..Ladder!To :
             t % Ladder!BucketMs[rung + 1] = 0 => t % Ladder!BucketMs[rung] = 0
      BY <1>1, <2>1, Coarser
    <3>2. Ladder!Boundaries(ask.from, Ladder!To, rung + 1) =
             {t \in ask.from..Ladder!To : t % Ladder!BucketMs[rung + 1] = 0}
      BY <1>3, <2>1, <2>3
    <3>3. Ladder!Boundaries(ask.from, Ladder!To, rung) =
             {t \in ask.from..Ladder!To : t % Ladder!BucketMs[rung] = 0}
      BY <1>3, <2>1, <2>3
    <3> QED
      BY <2>1, <3>1, <3>2, <3>3
  <2> QED
    BY <1>1, <2>2, <2>3
<1> QED
  BY <1>2, <1>4, <1>5 DEF Ladder!LadderSound

(* For any ranges after 1970 and any budgets: the rung picked fits the     *)
(* budget and the server holds the range at it, the boundaries are the     *)
(* multiples of the bucket in the range, however long it is, and a         *)
(* promoted chart keeps its points.                                        *)
THEOREM LaddersAreExact == AlgorithmsSpec => []LadderSound
<1> DEFINE Inv == topic = "ladder" => Ladder!TypeOK
<1> Ladder!ConstantsOK
  BY ComputationsOK
<1>1. Ladder!Init => Ladder!TypeOK
  BY DEF Ladder!Init, Ladder!TypeOK
<1>2. Ladder!TypeOK /\ [Ladder!Next]_(Ladder!vars) => Ladder!TypeOK'
  <2> SUFFICES ASSUME Ladder!TypeOK, [Ladder!Next]_(Ladder!vars) PROVE Ladder!TypeOK'
    OBVIOUS
  <2>1. CASE Ladder!Pick
    <3>1. ask.span \in Nat /\ ask.points \in Int
      BY DEF Ladder!TypeOK, Ladder!ConstantsOK
    <3>2. Ladder!PickResolution(ask.span, ask.points) \in 1..7
      BY <3>1, Picked
    <3> QED
      BY <2>1, <3>2 DEF Ladder!Pick, Ladder!TypeOK
  <2>2. CASE Ladder!Promote
    BY <2>2 DEF Ladder!Promote, Ladder!TypeOK, Ladder!PromotionTarget
  <2>3. CASE UNCHANGED Ladder!vars
    BY <2>3 DEF Ladder!vars, Ladder!TypeOK
  <2> QED
    BY <2>1, <2>2, <2>3 DEF Ladder!Next
<1>3. Ladder!TypeOK => Ladder!LadderSound
  BY LadderIsSound
<1>4. AlgorithmsInit => Inv
  BY <1>1 DEF AlgorithmsInit
<1>5. Inv /\ [AlgorithmsNext]_algorithmVars => Inv'
  <2> SUFFICES ASSUME Inv, [AlgorithmsNext]_algorithmVars, topic' = "ladder"
               PROVE  Ladder!TypeOK'
    OBVIOUS
  <2>1. topic = "ladder" /\ [Ladder!Next]_(Ladder!vars)
    BY DEF AlgorithmsNext, algorithmVars, MoneyNext, EvidenceNext, BookNext, CacheNext, CandlesNext,
      LadderNext, RevalueNext,
      ladderVars, Ladder!vars
  <2> QED
    BY <1>2, <2>1
<1>6. Inv => LadderSound
  BY <1>3 DEF LadderSound
<1> QED
  BY <1>4, <1>5, <1>6, PTL DEF AlgorithmsSpec

(* What a chart shows: the candles of its range, at exact boundaries.      *)
THEOREM ChartsAreExact == AlgorithmsSpec => []ChartSound
BY CandlesAreExact, LaddersAreExact, PTL DEF ChartSound
=============================================================================
