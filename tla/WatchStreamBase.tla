--------------------------- MODULE WatchStreamBase ---------------------------
(***************************************************************************)
(* WatchStream (streams.go), the base of every watch stream, carrying the  *)
(* merged map of PriceWatchStream (ObjectsWatchStream merges its children  *)
(* the same way): publish, setState, Updates, Ready and Close.             *)
(*                                                                         *)
(* Updates come from the goroutines that read sockets: one at a time, two  *)
(* for a moment after a handoff. A goroutine merges under one mutex,       *)
(* publishes under another, and notifies after it. The consumer receives   *)
(* from the channel without either. An update is a number, a map gives the *)
(* update each key was last set by. feed and crossed record what the       *)
(* properties look at; no action reads them.                               *)
(***************************************************************************)
EXTENDS Naturals, Sequences

CONSTANTS
    Publishers,   \* the goroutines that deliver updates
    Coins,        \* the keys of the map
    Nobody,       \* the mutex is free
    Buffer,       \* capacity of the channel
    MaxUpdates    \* bound: updates in a behaviour

VARIABLES
    prices,    \* s.prices
    updates,   \* updates so far
    feed,      \* the last update of each coin there was
    upc,       \* where each goroutine is inside merge and publish
    out,       \* the map it has to publish
    mu,        \* who is inside s.mu for more than a step
    value,     \* s.value
    hasValue,  \* s.hasValue
    state,     \* s.state
    ch,        \* s.ch
    closed,    \* s.closed
    readyCh,   \* s.readyCh is closed
    waiter,    \* a call of Ready
    got,       \* the last map the consumer received
    panicked,  \* a send on the closed channel
    crossed    \* two goroutines were between their merge and their publish

vars == <<prices, updates, feed, upc, out, mu, value, hasValue, state, ch, closed, readyCh, waiter, got,
          panicked, crossed>>

Maps == [Coins -> 0..MaxUpdates]
Empty == [c \in Coins |-> 0]

(* One type invariant for the module. *)
TypeOK ==
    /\ prices \in Maps /\ feed \in Maps /\ value \in Maps /\ got \in Maps
    /\ updates \in 0..MaxUpdates
    /\ upc \in [Publishers -> {"idle", "publish", "try", "evict", "resend", "notify"}]
    /\ out \in [Publishers -> Maps]
    /\ mu \in Publishers \cup {Nobody}
    /\ hasValue \in BOOLEAN
    /\ state \in {"loading", "connected", "reconnecting"}
    /\ ch \in Seq(Maps) /\ Len(ch) <= Buffer
    /\ closed \in BOOLEAN /\ readyCh \in BOOLEAN
    /\ waiter \in {"none", "waiting", "ready"}
    /\ panicked \in BOOLEAN /\ crossed \in BOOLEAN

Init ==
    /\ prices = Empty /\ feed = Empty /\ value = Empty /\ got = Empty
    /\ updates = 0
    /\ upc = [p \in Publishers |-> "idle"]
    /\ out = [p \in Publishers |-> Empty]
    /\ mu = Nobody
    /\ hasValue = FALSE /\ state = "loading"
    /\ ch = <<>>
    /\ closed = FALSE /\ readyCh = FALSE
    /\ waiter = "none"
    /\ panicked = FALSE /\ crossed = FALSE

Move(p, label) == upc' = [upc EXCEPT ![p] = label]

-----------------------------------------------------------------------------
(* Mutant of MergedWith: the map is replaced, not merged. *)
MutMergedWith(c, n) == [Empty EXCEPT ![c] = n]

(* The map with the update n of coin c. *)
MergedWith(c, n) == [prices EXCEPT ![c] = n]

(* merge: the map is updated and copied under pmu. *)
Merge(p, c) ==
    /\ upc[p] = "idle"
    /\ updates < MaxUpdates
    /\ updates' = updates + 1
    /\ prices' = MergedWith(c, updates + 1)
    /\ feed' = [feed EXCEPT ![c] = updates + 1]
    /\ out' = [out EXCEPT ![p] = prices']
    /\ Move(p, "publish")
    /\ crossed' = (crossed \/ \E q \in Publishers : upc[q] = "publish")
    /\ UNCHANGED <<mu, value, hasValue, state, ch, closed, readyCh, waiter, got, panicked>>

(* Mutant of Delivers: publish does not look whether the stream is closed. *)
MutDelivers == TRUE

Delivers == ~closed

(* publish takes s.mu and sets the value, unless the stream is closed... *)
Publish(p) ==
    /\ upc[p] = "publish" /\ mu = Nobody
    /\ IF Delivers
       THEN /\ value' = out[p] /\ hasValue' = TRUE /\ state' = "connected"
            /\ mu' = p
            /\ Move(p, "try")
       ELSE Move(p, "idle") /\ UNCHANGED <<value, hasValue, state, mu>>
    /\ UNCHANGED <<prices, updates, feed, out, ch, closed, readyCh, waiter, got, panicked, crossed>>

(* The channel takes the value, and s.mu is given back. *)
Sent(p) ==
    /\ ch' = Append(ch, out[p])
    /\ mu' = Nobody
    /\ Move(p, "notify")
    /\ UNCHANGED panicked

(* ...sends to the channel if there is room... *)
TrySend(p) ==
    /\ upc[p] = "try"
    /\ \/ closed /\ panicked' = TRUE /\ Move(p, "idle") /\ UNCHANGED <<ch, mu>>
       \/ ~closed /\ Len(ch) < Buffer /\ Sent(p)
       \/ ~closed /\ Len(ch) = Buffer /\ Move(p, "evict") /\ UNCHANGED <<ch, mu, panicked>>
    /\ UNCHANGED <<prices, updates, feed, out, value, hasValue, state, closed, readyCh, waiter, got,
                   crossed>>

(* Mutant of Kept: nothing is evicted, so the newest is what is dropped. *)
MutKept == ch

(* The channel without its oldest value, if the consumer has left one. *)
Kept == IF ch = <<>> THEN ch ELSE Tail(ch)

(* ...else makes room... *)
Evict(p) ==
    /\ upc[p] = "evict"
    /\ ch' = Kept
    /\ Move(p, "resend")
    /\ UNCHANGED <<prices, updates, feed, out, mu, value, hasValue, state, closed, readyCh, waiter, got,
                   panicked, crossed>>

(* ...and tries again, once. *)
Resend(p) ==
    /\ upc[p] = "resend"
    /\ \/ Len(ch) < Buffer /\ Sent(p)
       \/ Len(ch) = Buffer /\ mu' = Nobody /\ Move(p, "notify") /\ UNCHANGED <<ch, panicked>>
    /\ UNCHANGED <<prices, updates, feed, out, value, hasValue, state, closed, readyCh, waiter, got,
                   crossed>>

(* Mutant of Announced: only a goroutine that finds the stream open tells. *)
MutAnnounced == readyCh \/ ~closed

(* readyOnce, whoever comes first. *)
Announced == TRUE

(* After the unlock: readyOnce, and the callbacks. *)
Notify(p) ==
    /\ upc[p] = "notify"
    /\ readyCh' = Announced
    /\ out' = [out EXCEPT ![p] = Empty]
    /\ Move(p, "idle")
    /\ UNCHANGED <<prices, updates, feed, mu, value, hasValue, state, ch, closed, waiter, got, panicked,
                   crossed>>

-----------------------------------------------------------------------------
(* The consumer, and the owner.                                            *)

(* A receive from Updates, at any time. *)
Receive ==
    /\ ch # <<>>
    /\ got' = Head(ch)
    /\ ch' = Tail(ch)
    /\ UNCHANGED <<prices, updates, feed, upc, out, mu, value, hasValue, state, closed, readyCh, waiter,
                   panicked, crossed>>

(* Ready: it returns at once, or waits for readyCh (or for its context). *)
Ready ==
    /\ waiter = "none" /\ mu = Nobody
    /\ waiter' = IF hasValue THEN "ready" ELSE "waiting"
    /\ UNCHANGED <<prices, updates, feed, upc, out, mu, value, hasValue, state, ch, closed, readyCh, got,
                   panicked, crossed>>

ReadyReturns ==
    /\ waiter = "waiting" /\ readyCh
    /\ waiter' = "ready"
    /\ UNCHANGED <<prices, updates, feed, upc, out, mu, value, hasValue, state, ch, closed, readyCh, got,
                   panicked, crossed>>

(* setState, as a stream calls it when its connection is lost. *)
SetState ==
    /\ mu = Nobody /\ ~closed /\ state = "connected"
    /\ state' = "reconnecting"
    /\ UNCHANGED <<prices, updates, feed, upc, out, mu, value, hasValue, ch, closed, readyCh, waiter, got,
                   panicked, crossed>>

(* Close. *)
CloseStream ==
    /\ mu = Nobody /\ ~closed
    /\ closed' = TRUE
    /\ UNCHANGED <<prices, updates, feed, upc, out, mu, value, hasValue, state, ch, readyCh, waiter, got,
                   panicked, crossed>>

-----------------------------------------------------------------------------
PublisherStep(p) ==
    \/ \E c \in Coins : Merge(p, c)
    \/ Publish(p)
    \/ TrySend(p)
    \/ Evict(p)
    \/ Resend(p)
    \/ Notify(p)

Next ==
    \/ \E p \in Publishers : PublisherStep(p)
    \/ Receive
    \/ Ready
    \/ ReadyReturns
    \/ SetState
    \/ CloseStream

Spec == Init /\ [][Next]_vars

-----------------------------------------------------------------------------
(* Correctness.                                                            *)

(* "Non-blocking channel send; drop oldest on overflow": however slow the  *)
(* consumer, and wherever its receives fall between the attempts, whoever  *)
(* drains the channel ends with the value the stream has.                  *)
NewestKept ==
    mu = Nobody /\ hasValue => value = IF ch = <<>> THEN got ELSE ch[Len(ch)]

(* No publish is sent to the channel Close has closed. *)
NoSendOnClosed == ~panicked

(* With one goroutine between its merge and its publish at a time, the     *)
(* value has every update merged so far, none lost with an overwritten map.*)
NothingUnmerged ==
    (\A p \in Publishers : upc[p] = "idle") /\ ~crossed /\ ~closed => value = feed

(* A call of Ready returns for a value, and is not left waiting when there *)
(* is one, even if the stream was closed in between.                       *)
ReadyTells ==
    /\ waiter = "ready" => hasValue
    /\ hasValue /\ (\A p \in Publishers : upc[p] = "idle") => readyCh

(* publish, Ready and Close: an overflowing channel keeps the newest       *)
(* value, a merged map has every update, publish never meets the channel   *)
(* Close has closed, and Ready returns with the first value.               *)
BaseSound == TypeOK /\ NewestKept /\ NoSendOnClosed /\ NothingUnmerged /\ ReadyTells
=============================================================================
