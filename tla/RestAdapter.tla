----------------------------- MODULE RestAdapter -----------------------------
(***************************************************************************)
(* What the methods of a REST adapter share: the market maps, the access   *)
(* token and the nonce.                                                    *)
(*                                                                         *)
(* Maps and token are those of src/src/exchanges/cex/korbit.rs, the nonce  *)
(* is that of exmo.rs; the other adapters have copies of them.  Each is a  *)
(* cell, or a pair of cells, behind locks held for an assignment, never    *)
(* over a request, so calls overlap: what was read before a request is     *)
(* written after it, and the two cells of a pair are written one by one.   *)
(*                                                                         *)
(* The exchange is the environment: its listing grows, it grants tokens    *)
(* that expire, and it takes the requests of an account in the order of    *)
(* their nonces only.  Tokens and listings are numbers.  The token's clock *)
(* moves by the margin of the code, a minute, at most once between a grant *)
(* and its store; the nonces' clock, of milliseconds, may be set back.     *)
(***************************************************************************)
EXTENDS Integers

CONSTANTS
    Callers,      \* tasks that share the adapter
    Margin,       \* a token is used again if it has more than that left: 1, a minute
    Life,         \* expires_in, in minutes: more than one, with which no margin would do
    MaxListing,   \* bound on the listings of the exchange
    MaxTokens,    \* bound on the tokens granted
    MaxClock,     \* bound on the nonces' clock
    MaxCalls,     \* bound on the calls made
    None

ASSUME RestAssumption ==
    /\ Margin \in Nat \ {0}
    /\ Life \in Nat \ {0, 1}
    /\ MaxListing \in Nat \ {0}
    /\ MaxTokens \in Nat
    /\ MaxClock \in Nat \ {0}
    /\ MaxCalls \in Nat

ASSUME NoneAssumption == None \notin Callers /\ None \notin Int

VARIABLES
    \* the adapter
    markets,      \* the listing the map of markets was filled from, 0 when empty
    byId,         \* the same for markets_by_id
    token,        \* access_token, or None
    left,         \* token_expiry, in minutes from now
    nonce,        \* the last nonce, 0 at first
    \* the locals of each call
    pc, reload,
    got,          \* the listing, token, or nonce
    due,          \* the expiry a call has still to store, in minutes from now
    waited,       \* the clock has moved since the call's token was granted
    calls,        \* calls made
    \* the exchange
    listing,      \* its present listing
    granted,      \* tokens granted
    life,         \* minutes each token is valid for
    lastNonce,    \* the highest nonce it has seen
    clock,        \* the time in milliseconds
    \* history
    overlapped    \* two calls were under way at once

mapVars   == <<markets, byId>>
tokenVars == <<token, left>>
callVars  == <<reload, got, due, waited>>
peerVars  == <<listing, granted, life, lastNonce, clock>>
vars == <<mapVars, tokenVars, nonce, pc, callVars, calls, peerVars, overlapped>>

Tokens == 1..MaxTokens

Goto(c, from, to) == pc[c] = from /\ pc' = [pc EXCEPT ![c] = to]

\* A call that returns forgets its locals.
Return(c, from) ==
    /\ Goto(c, from, "idle")
    /\ reload' = [reload EXCEPT ![c] = FALSE]
    /\ got' = [got EXCEPT ![c] = 0]
    /\ due' = [due EXCEPT ![c] = 0]
    /\ waited' = [waited EXCEPT ![c] = FALSE]

Init ==
    /\ markets = 0 /\ byId = 0
    /\ token = None /\ left = 0
    /\ nonce = 0
    /\ pc = [c \in Callers |-> "idle"]
    /\ reload = [c \in Callers |-> FALSE]
    /\ got = [c \in Callers |-> 0]
    /\ due = [c \in Callers |-> 0]
    /\ waited = [c \in Callers |-> FALSE]
    /\ calls = 0
    /\ listing = 1
    /\ granted = 0
    /\ life = [t \in Tokens |-> 0]
    /\ lastNonce = 0
    /\ clock = 1
    /\ overlapped = FALSE

\* load_markets(again), a private GET or POST of korbit.rs, or one of exmo.rs.
Call(c, step, again) ==
    /\ calls < MaxCalls
    /\ Goto(c, "idle", step)
    /\ reload' = [reload EXCEPT ![c] = again]
    /\ calls' = calls + 1
    /\ overlapped' = (overlapped \/ \E d \in Callers \ {c} : pc[d] # "idle")
    /\ UNCHANGED <<mapVars, tokenVars, nonce, got, due, waited, peerVars>>

-----------------------------------------------------------------------------
(* load_markets()                                                          *)

\* Only the first of the two maps is looked at.
Loaded(c) ==
    /\ ~reload[c]
    /\ markets # 0
    /\ Return(c, "load")
    /\ UNCHANGED <<mapVars, tokenVars, nonce, calls, peerVars, overlapped>>

FetchOk(c) ==
    /\ reload[c] \/ markets = 0
    /\ Goto(c, "load", "storeMarkets")
    /\ got' = [got EXCEPT ![c] = listing]
    /\ UNCHANGED <<mapVars, tokenVars, nonce, reload, due, waited, calls, peerVars, overlapped>>

FetchFail(c) ==
    /\ reload[c] \/ markets = 0
    /\ Return(c, "load")
    /\ UNCHANGED <<mapVars, tokenVars, nonce, calls, peerVars, overlapped>>

StoreMarkets(c) ==
    /\ Goto(c, "storeMarkets", "storeIds")
    /\ markets' = got[c]
    /\ UNCHANGED <<byId, tokenVars, nonce, callVars, calls, peerVars, overlapped>>

\* Faulty variant: identifiers already known are left alone.
IdsOnce(c) == IF byId = 0 THEN got[c] ELSE byId

Ids(c) == got[c]

StoreIds(c) ==
    /\ Return(c, "storeIds")
    /\ byId' = Ids(c)
    /\ UNCHANGED <<markets, tokenVars, nonce, calls, peerVars, overlapped>>

-----------------------------------------------------------------------------
(* private_get() and private_post() of korbit.rs, get_access_token()       *)

\* Faulty variant: no margin.
NotYetExpired == token # None /\ left > 0

Valid == token # None /\ left > Margin

Reuse(c) ==
    /\ Valid
    /\ Goto(c, "compare", "request")
    /\ got' = [got EXCEPT ![c] = token]
    /\ UNCHANGED <<mapVars, tokenVars, nonce, reload, due, waited, calls, peerVars, overlapped>>

\* Faulty variant: a call that was not answered goes on with the token it has.
GrantFailIgnored(c) ==
    /\ ~Valid
    /\ Goto(c, "compare", "request")
    /\ UNCHANGED <<mapVars, tokenVars, nonce, callVars, calls, peerVars, overlapped>>

\* The expiry is reckoned when the grant arrives.
GrantOk(c) ==
    /\ ~Valid
    /\ granted < MaxTokens
    /\ Goto(c, "compare", "storeToken")
    /\ granted' = granted + 1
    /\ life' = [life EXCEPT ![granted + 1] = Life]
    /\ got' = [got EXCEPT ![c] = granted + 1]
    /\ due' = [due EXCEPT ![c] = Life]
    /\ UNCHANGED <<mapVars, tokenVars, nonce, reload, waited, calls, listing, lastNonce,
                   clock, overlapped>>

GrantFail(c) ==
    /\ ~Valid
    /\ Return(c, "compare")
    /\ UNCHANGED <<mapVars, tokenVars, nonce, calls, peerVars, overlapped>>

StoreToken(c) ==
    /\ Goto(c, "storeToken", "storeExpiry")
    /\ token' = got[c]
    /\ UNCHANGED <<mapVars, left, nonce, callVars, calls, peerVars, overlapped>>

StoreExpiry(c) ==
    /\ Goto(c, "storeExpiry", "request")
    /\ left' = due[c]
    /\ UNCHANGED <<mapVars, token, nonce, callVars, calls, peerVars, overlapped>>

Request(c) ==
    /\ Return(c, "request")
    /\ UNCHANGED <<mapVars, tokenVars, nonce, calls, peerVars, overlapped>>

-----------------------------------------------------------------------------
(* the private requests of exmo.rs, get_nonce()                            *)

\* Faulty variant: the clock alone.
NonceOfClock == clock

NextNonce == IF clock > nonce THEN clock ELSE nonce + 1

\* Faulty variant: the nonce is read with the lock held, and written after that.
DrawNonceUnlocked(c) ==
    \/ /\ pc[c] = "draw"
       /\ got[c] = 0
       /\ got' = [got EXCEPT ![c] = NextNonce]
       /\ UNCHANGED <<mapVars, tokenVars, nonce, pc, reload, due, waited, calls, peerVars,
                      overlapped>>
    \/ /\ got[c] # 0
       /\ Goto(c, "draw", "send")
       /\ nonce' = got[c]
       /\ UNCHANGED <<mapVars, tokenVars, callVars, calls, peerVars, overlapped>>

\* Drawn with the lock held; the request is signed and sent after that.
DrawNonce(c) ==
    /\ Goto(c, "draw", "send")
    /\ nonce' = NextNonce
    /\ got' = [got EXCEPT ![c] = nonce']
    /\ UNCHANGED <<mapVars, tokenVars, reload, due, waited, calls, peerVars, overlapped>>

\* A nonce that is not higher than the last is turned down.
Arrive(c) ==
    /\ Return(c, "send")
    /\ lastNonce' = IF got[c] > lastNonce THEN got[c] ELSE lastNonce
    /\ UNCHANGED <<mapVars, tokenVars, nonce, calls, listing, granted, life, clock,
                   overlapped>>

-----------------------------------------------------------------------------
(* The exchange and the clocks                                             *)

Relist ==
    /\ listing < MaxListing
    /\ listing' = listing + 1
    /\ UNCHANGED <<mapVars, tokenVars, nonce, pc, callVars, calls, granted, life,
                   lastNonce, clock, overlapped>>

Storing(c) == pc[c] \in {"storeToken", "storeExpiry"}

\* An expiry that was passed is not told from one that was passed long ago.
Minute ==
    /\ \A c \in Callers : ~(Storing(c) /\ waited[c]) /\ pc[c] # "request"
    /\ left' = IF left > 0 THEN left - 1 ELSE 0
    /\ due' = [c \in Callers |-> IF due[c] > 0 THEN due[c] - 1 ELSE 0]
    /\ life' = [t \in Tokens |-> IF life[t] > 0 THEN life[t] - 1 ELSE 0]
    /\ waited' = [c \in Callers |-> Storing(c)]
    /\ UNCHANGED <<mapVars, token, nonce, pc, reload, got, calls, listing, granted,
                   lastNonce, clock, overlapped>>

SetClock ==
    /\ clock' \in 1..MaxClock
    /\ UNCHANGED <<mapVars, tokenVars, nonce, pc, callVars, calls, listing, granted, life,
                   lastNonce, overlapped>>

Proceed(c) ==
    \/ Loaded(c) \/ FetchOk(c) \/ FetchFail(c) \/ StoreMarkets(c) \/ StoreIds(c)
    \/ Reuse(c) \/ GrantOk(c) \/ GrantFail(c) \/ StoreToken(c) \/ StoreExpiry(c)
    \/ Request(c) \/ DrawNonce(c) \/ Arrive(c)

Next ==
    \/ \E c \in Callers : Proceed(c)
    \/ \E c \in Callers, again \in BOOLEAN : Call(c, "load", again)
    \/ \E c \in Callers, step \in {"compare", "draw"} : Call(c, step, FALSE)
    \/ Relist \/ Minute \/ SetClock

Spec == Init /\ [][Next]_vars

-----------------------------------------------------------------------------
(* Properties                                                              *)

\* A call stores what it was answered, and no nonce outruns the adapter's.
TypeOK ==
    /\ markets \in 0..listing /\ byId \in 0..listing
    /\ token \in 1..granted \cup {None} /\ left \in 0..Life
    /\ nonce \in Nat
    /\ pc \in [Callers -> {"idle", "load", "storeMarkets", "storeIds", "compare",
                           "storeToken", "storeExpiry", "request", "draw", "send"}]
    /\ reload \in [Callers -> BOOLEAN]
    /\ got \in [Callers -> Nat]
    /\ due \in [Callers -> 0..Life]
    /\ waited \in [Callers -> BOOLEAN]
    /\ calls \in 0..MaxCalls
    /\ listing \in 1..MaxListing
    /\ granted \in 0..MaxTokens
    /\ life \in [Tokens -> 0..Life]
    /\ lastNonce \in 0..nonce
    /\ clock \in 1..MaxClock
    /\ overlapped \in BOOLEAN
    /\ \A c \in Callers :
          /\ pc[c] \in {"storeMarkets", "storeIds"} => got[c] \in 1..listing
          /\ pc[c] \in {"storeToken", "storeExpiry", "request"} => got[c] \in 1..granted
          /\ pc[c] = "send" => got[c] <= nonce

Quiescent == \A c \in Callers : pc[c] = "idle"

\* Between calls that do not overlap the two maps are of the same listing, empty
\* together, whichever fetches failed.
MapsAgree == Quiescent /\ ~overlapped => markets = byId

\* A request carries a token the exchange still takes, however the stores of calls
\* that overlap have mixed the tokens and their expiries: the margin makes up for
\* the time they are apart.
TokenHonoured == \A c \in Callers : pc[c] = "request" => life[got[c]] > 0

\* No two requests under way carry the same nonce, and those that do not overlap are
\* accepted, although the clock may stand still or be set back.
NoncesServe ==
    /\ \A c, d \in Callers : pc[c] = "send" /\ pc[d] = "send" /\ got[c] = got[d] => c = d
    /\ \A c \in Callers : pc[c] = "send" /\ ~overlapped => got[c] > lastNonce
=============================================================================
