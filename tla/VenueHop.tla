------------------------------ MODULE VenueHop ------------------------------
(***************************************************************************)
(* HopVenues: a transfer between two venues which, when the source         *)
(* boundary asks for its owner's co-signature, is proposed, verified,      *)
(* signed and submitted. Several callers hop at one path, a retry beside   *)
(* the call it repeats.                                                    *)
(*                                                                         *)
(* A hash is injective, so it is the tuple it is taken of; a field that is *)
(* no hex word of its length has none.                                     *)
(***************************************************************************)
EXTENDS Naturals, FiniteSets

CONSTANTS
    Callers,
    Deadlines,      \* the deadlines a caller may ask for; 0 leaves it to the server
    MaxNonces,      \* bound: proposals made
    MaxLost,        \* bound: lost replies and wrong proposals
    Nil

Hop == "hop"            \* the parameters of the hop the callers ask for
Other == "other"        \* those of any other
Malformed == "malformed"

VARIABLES
    armed,          \* server: the source boundary asks for a co-signature
    funds,          \* server: the source holds the amount
    via,            \* server: how the path's hop was made: Nil, a caller, or "signed"
    nonces,         \* server: nonces handed out
    asked,          \* the deadline asked for
    signer,         \* the callers have a signer
    hpc,            \* [Callers -> the step of HopVenues]
    proposal,       \* [Callers -> the proposal, or Nil]
    signature,      \* [Callers -> the digest signed, or Nil]
    lost

vars == <<armed, funds, via, nonces, asked, signer, hpc, proposal, signature, lost>>
server == <<armed, funds, via, nonces>>

Init ==
    /\ armed \in BOOLEAN /\ funds \in BOOLEAN /\ via = Nil /\ nonces = 0
    /\ asked \in Deadlines /\ signer \in BOOLEAN
    /\ hpc = [c \in Callers |-> "start"]
    /\ proposal = [c \in Callers |-> Nil] /\ signature = [c \in Callers |-> Nil]
    /\ lost = 0

At(c, from, to) == hpc[c] = from /\ hpc' = [hpc EXCEPT ![c] = to]

-----------------------------------------------------------------------------
(* TransferBetweenVenuesParamsHash and OperatorActionDigest over the       *)
(* EIP-712 domain of the kernel.                                           *)
TransferBetweenVenuesParamsHash(params) == IF params = Malformed THEN Nil ELSE <<"params", params>>

CosignDomainSeparator(kernel) == <<"domain", kernel>>

OperatorActionDigest(kernel, action, paramsHash, nonce, deadline) ==
    <<CosignDomainSeparator(kernel), action, paramsHash, nonce, deadline>>

DigestOf(p) ==
    OperatorActionDigest(p.kernel, p.action, TransferBetweenVenuesParamsHash(p.params),
                         p.nonce, p.deadline)

(* A proposal is verified when it is for a domain and an action this SDK   *)
(* can hash, and its hashes are those of its own fields.                   *)
MutVerify(p) ==
    /\ p.kernel = "known" /\ p.action \in {11, 12}
    /\ p.paramsHash = TransferBetweenVenuesParamsHash(p.params) /\ p.paramsHash # Nil

Verify(p) ==
    /\ p.kernel = "known" /\ p.action \in {11, 12}
    /\ TransferBetweenVenuesParamsHash(p.params) # Nil
    /\ p.paramsHash = TransferBetweenVenuesParamsHash(p.params)
    /\ p.digest = DigestOf(p)

(* The server's proposal, under a fresh nonce and the deadline asked for   *)
(* or one of its own; or one with a field that does not agree with the     *)
(* others.                                                                 *)
Proposed(n) ==
    LET ph == TransferBetweenVenuesParamsHash(Hop)
        d == IF asked = 0 THEN 1 ELSE asked
    IN  [kernel |-> "known", action |-> 11, params |-> Hop, nonce |-> n, deadline |-> d,
         paramsHash |-> ph, digest |-> OperatorActionDigest("known", 11, ph, n, d)]

Wrong(p) ==
    {[p EXCEPT !.kernel = "unknown"], [p EXCEPT !.action = 10], [p EXCEPT !.params = Malformed],
     [p EXCEPT !.params = Other], [p EXCEPT !.nonce = @ + 1], [p EXCEPT !.deadline = @ + 1],
     [p EXCEPT !.digest = OperatorActionDigest("known", 11, <<"params", Other>>, p.nonce, p.deadline)]}

-----------------------------------------------------------------------------
(* The plain transfer: made, refused for want of a co-signature, refused   *)
(* for another reason, or its answer is lost. A path that was used answers *)
(* with the operation it has.                                              *)
Makes(c) == via' = IF via = Nil THEN c ELSE via

Transfer(c) ==
    /\ hpc[c] = "start"
    /\ IF via # Nil \/ (~armed /\ funds)
          THEN Makes(c) /\ \/ At(c, "start", "done") /\ UNCHANGED lost
                           \/ At(c, "start", "error") /\ lost < MaxLost /\ lost' = lost + 1
          ELSE /\ At(c, "start", IF armed THEN "refused" ELSE "error")
               /\ UNCHANGED <<via, lost>>
    /\ UNCHANGED <<armed, funds, nonces, asked, signer, proposal, signature>>

(* Only the refusal for want of a co-signature is recoverable, and only    *)
(* with a signer.                                                          *)
MutRecoverable(c) == hpc[c] \in {"refused", "error"} /\ signer

Recoverable(c) == hpc[c] = "refused" /\ signer

ProposeVenueHop(c) ==
    /\ Recoverable(c) /\ nonces < MaxNonces
    /\ nonces' = nonces + 1
    /\ \/ /\ proposal' = [proposal EXCEPT ![c] = Proposed(nonces)]
          /\ UNCHANGED lost
       \/ /\ lost < MaxLost /\ lost' = lost + 1
          /\ \E p \in Wrong(Proposed(nonces)) : proposal' = [proposal EXCEPT ![c] = p]
    /\ hpc' = [hpc EXCEPT ![c] = "proposed"]
    /\ UNCHANGED <<armed, funds, via, asked, signer, signature>>

GivesUp(c) ==
    /\ \/ hpc[c] = "refused" /\ ~signer /\ UNCHANGED lost
       \/ hpc[c] \in {"refused", "proposed"} /\ lost < MaxLost /\ lost' = lost + 1
       \/ hpc[c] = "proposed" /\ ~Verify(proposal[c]) /\ UNCHANGED lost
    /\ hpc' = [hpc EXCEPT ![c] = "error"]
    /\ UNCHANGED <<server, asked, signer, proposal, signature>>

(* The signer is given the verified digest and the proposal. *)
Sign(c) ==
    /\ At(c, "proposed", "signed")
    /\ Verify(proposal[c])
    /\ signature' = [signature EXCEPT ![c] = proposal[c].digest]
    /\ UNCHANGED <<server, asked, signer, proposal, lost>>

(* What is submitted goes with what was signed: the proposal's nonce and   *)
(* deadline, not the deadline asked for.                                   *)
MutSubmitted(c) == [nonce |-> proposal[c].nonce, deadline |-> asked, signature |-> signature[c]]

Submitted(c) ==
    [nonce |-> proposal[c].nonce, deadline |-> proposal[c].deadline, signature |-> signature[c]]

(* The server derives the digest again from what is submitted, and makes   *)
(* the hop of the path once.                                               *)
Valid(s) ==
    s.signature = OperatorActionDigest("known", 11, TransferBetweenVenuesParamsHash(Hop),
                                       s.nonce, s.deadline)

submitVenueHop(c) ==
    /\ hpc[c] = "signed"
    /\ \/ /\ Valid(Submitted(c)) /\ funds
          /\ via' = IF via = Nil THEN "signed" ELSE via
          /\ \/ At(c, "signed", "done") /\ UNCHANGED lost
             \/ At(c, "signed", "error") /\ lost < MaxLost /\ lost' = lost + 1
       \/ /\ ~(Valid(Submitted(c)) /\ funds)
          /\ At(c, "signed", IF via # Nil THEN "done" ELSE "error")
          /\ UNCHANGED <<via, lost>>
    /\ UNCHANGED <<armed, funds, nonces, asked, signer, proposal, signature>>

(* The boundary's owner arms it meanwhile. *)
Arm ==
    /\ ~armed /\ armed' = TRUE
    /\ UNCHANGED <<funds, via, nonces, asked, signer, hpc, proposal, signature, lost>>

Step(c) == Transfer(c) \/ ProposeVenueHop(c) \/ GivesUp(c) \/ Sign(c) \/ submitVenueHop(c)

Next == Arm \/ \E c \in Callers : Step(c)

Spec == Init /\ [][Next]_vars

-----------------------------------------------------------------------------
TypeOK ==
    /\ armed \in BOOLEAN /\ funds \in BOOLEAN /\ via \in Callers \cup {Nil, "signed"}
    /\ nonces \in 0..MaxNonces /\ asked \in Deadlines /\ signer \in BOOLEAN /\ lost \in 0..MaxLost
    /\ hpc \in [Callers -> {"start", "refused", "proposed", "signed", "done", "error"}]

(* HopVenues, Verify: a signature is over the digest of exactly the fields *)
(* the signer is shown, whatever the proposal claims of itself.            *)
SignedAsShown ==
    \A c \in Callers :
       signature[c] # Nil => proposal[c].kernel = "known" /\ signature[c] = DigestOf(proposal[c])

(* HopVenues: the owner is never asked to sign for a hop this call already *)
(* made, its answer lost or not.                                           *)
NotSignedAgain == \A c \in Callers : via = c => signature[c] = Nil

(* HopVenues: what a caller signed and submitted for a funded source is    *)
(* accepted; only a lost answer tells it otherwise.                        *)
SignedIsMade ==
    \A c \in Callers : funds /\ lost = 0 /\ signature[c] # Nil => hpc[c] \in {"signed", "done"}

(* HopVenues: a signature is over the fields the signer is shown, nobody   *)
(* signs for a hop the same call already made, and what is submitted goes  *)
(* with what was signed.                                                   *)
HopSound == TypeOK /\ SignedAsShown /\ NotSignedAgain /\ SignedIsMade
=============================================================================
