-------------------------- MODULE RestAdapterProofs --------------------------
(***************************************************************************)
(* Proofs about RestAdapter, for any number of callers, any margin and any *)
(* life of a token beyond one unit, and any bounds.                        *)
(***************************************************************************)
EXTENDS RestAdapter, TLAPS

(* The steps that touch neither token, nor expiry, nor a grant under way.  *)
Elsewhere(c) ==
    \/ Loaded(c) \/ FetchOk(c) \/ FetchFail(c) \/ StoreMarkets(c) \/ StoreIds(c)
    \/ GrantFail(c) \/ Request(c) \/ DrawNonce(c) \/ Arrive(c)

-----------------------------------------------------------------------------
(* Types                                                                   *)

(* The next nonce is above the last, whatever the clock says.              *)
LEMMA NonceRises ==
    ASSUME TypeOK
    PROVE  NextNonce \in Nat /\ NextNonce > nonce
BY RestAssumption DEF TypeOK, NextNonce

(* A call that returns leaves the types as they are.                       *)
LEMMA ReturnTyped ==
    ASSUME TypeOK, NEW c \in Callers, NEW from, Return(c, from)
    PROVE  /\ pc' \in [Callers -> {"idle", "load", "storeMarkets", "storeIds", "compare",
                                   "storeToken", "storeExpiry", "request", "draw", "send"}]
           /\ reload' \in [Callers -> BOOLEAN]
           /\ got' \in [Callers -> Nat]
           /\ due' \in [Callers -> 0..Life]
           /\ waited' \in [Callers -> BOOLEAN]
           /\ \A d \in Callers : pc'[d] # "idle" => pc'[d] = pc[d] /\ got'[d] = got[d]
BY RestAssumption DEF TypeOK, Return, Goto

(* A step of a call keeps the types.                                       *)
LEMMA TypeProceed ==
    ASSUME TypeOK, NEW c \in Callers, Proceed(c)
    PROVE  TypeOK'
<1> USE RestAssumption, NoneAssumption DEF Tokens
<1>1. CASE Loaded(c)
  BY <1>1, ReturnTyped DEF TypeOK, Loaded, mapVars, tokenVars, peerVars
<1>2. CASE FetchOk(c)
  BY <1>2 DEF TypeOK, FetchOk, Goto, mapVars, tokenVars, peerVars
<1>3. CASE FetchFail(c)
  BY <1>3, ReturnTyped DEF TypeOK, FetchFail, mapVars, tokenVars, peerVars
<1>4. CASE StoreMarkets(c)
  BY <1>4 DEF TypeOK, StoreMarkets, Goto, tokenVars, callVars, peerVars
<1>5. CASE StoreIds(c)
  <2>1. byId' = got[c] /\ got[c] \in 0..listing
    BY <1>5 DEF StoreIds, Ids, Return, Goto, TypeOK
  <2> QED
    BY <1>5, <2>1, ReturnTyped DEF TypeOK, StoreIds, tokenVars, peerVars
<1>6. CASE Reuse(c)
  BY <1>6 DEF TypeOK, Reuse, Valid, Goto, mapVars, tokenVars, peerVars
<1>7. CASE GrantOk(c)
  BY <1>7 DEF TypeOK, GrantOk, Goto, mapVars, tokenVars
<1>8. CASE GrantFail(c)
  BY <1>8, ReturnTyped DEF TypeOK, GrantFail, mapVars, tokenVars, peerVars
<1>9. CASE StoreToken(c)
  BY <1>9 DEF TypeOK, StoreToken, Goto, mapVars, callVars, peerVars
<1>10. CASE StoreExpiry(c)
  BY <1>10 DEF TypeOK, StoreExpiry, Goto, mapVars, callVars, peerVars
<1>11. CASE Request(c)
  BY <1>11, ReturnTyped DEF TypeOK, Request, mapVars, tokenVars, peerVars
<1>12. CASE DrawNonce(c)
  <2>1. nonce' \in Nat /\ nonce' > nonce /\ got' = [got EXCEPT ![c] = nonce']
    BY <1>12, NonceRises DEF DrawNonce
  <2>2. got' \in [Callers -> Nat] /\ got'[c] = nonce'
    BY <2>1 DEF TypeOK
  <2>3. pc' = [pc EXCEPT ![c] = "send"]
    BY <1>12 DEF DrawNonce, Goto
  <2>4. ASSUME NEW d \in Callers
        PROVE  /\ pc'[d] \in {"storeMarkets", "storeIds"} => got'[d] \in 1..listing
               /\ pc'[d] \in {"storeToken", "storeExpiry", "request"} => got'[d] \in 1..granted
               /\ pc'[d] = "send" => got'[d] <= nonce'
    BY <2>1, <2>2, <2>3 DEF TypeOK
  <2> QED
    BY <1>12, <2>1, <2>2, <2>3, <2>4 DEF TypeOK, DrawNonce, mapVars, tokenVars, peerVars
<1>13. CASE Arrive(c)
  <2>1. got[c] <= nonce /\ got[c] \in Nat
    BY <1>13 DEF TypeOK, Arrive, Return, Goto
  <2> QED
    <3>1. lastNonce' \in 0..nonce
      BY <1>13, <2>1 DEF TypeOK, Arrive
    <3>2. Return(c, "send")
      BY <1>13 DEF Arrive
    <3> QED
      BY <1>13, <3>1, <3>2, ReturnTyped DEF TypeOK, Arrive, mapVars, tokenVars
<1> QED
  BY <1>1, <1>2, <1>3, <1>4, <1>5, <1>6, <1>7, <1>8, <1>9, <1>10, <1>11, <1>12, <1>13
     DEF Proceed

(* Starting a call keeps the types.                                        *)
LEMMA TypeCall ==
    ASSUME TypeOK, NEW c \in Callers, NEW again \in BOOLEAN,
           NEW step \in {"load", "compare", "draw"}, Call(c, step, again)
    PROVE  TypeOK'
BY RestAssumption DEF TypeOK, Call, Goto, mapVars, tokenVars, peerVars

(* So do the exchange and the clocks.                                      *)
LEMMA TypeOutside ==
    ASSUME TypeOK, Relist \/ Minute \/ SetClock
    PROVE  TypeOK'
<1> USE RestAssumption DEF TypeOK
<1>1. CASE Relist
  BY <1>1 DEF Relist, mapVars, tokenVars, callVars
<1>2. CASE Minute
  <2>1. left' \in 0..Life
    BY <1>2 DEF Minute
  <2>2. due' \in [Callers -> 0..Life]
    BY <1>2 DEF Minute
  <2>3. life' \in [Tokens -> 0..Life]
    BY <1>2 DEF Minute
  <2>4. waited' \in [Callers -> BOOLEAN]
    BY <1>2 DEF Minute, Storing
  <2> QED
    BY <1>2, <2>1, <2>2, <2>3, <2>4 DEF Minute, mapVars
<1>3. CASE SetClock
  BY <1>3 DEF SetClock, mapVars, tokenVars, callVars
<1> QED
  BY <1>1, <1>2, <1>3

(* Every step keeps the types.                                             *)
LEMMA TypeStep ==
    ASSUME TypeOK, [Next]_vars
    PROVE  TypeOK'
<1>1. CASE \E c \in Callers : Proceed(c)
  BY <1>1, TypeProceed
<1>2. CASE \E c \in Callers, again \in BOOLEAN : Call(c, "load", again)
  BY <1>2, TypeCall
<1>3. CASE \E c \in Callers, step \in {"compare", "draw"} : Call(c, step, FALSE)
  BY <1>3, TypeCall
<1>4. CASE Relist \/ Minute \/ SetClock
  BY <1>4, TypeOutside
<1>5. CASE UNCHANGED vars
  BY <1>5 DEF TypeOK, vars, mapVars, tokenVars, callVars, peerVars
<1> QED
  BY <1>1, <1>2, <1>3, <1>4, <1>5 DEF Next

(* TypeOK: every variable keeps its type; no call stores what it was not   *)
(* answered, and no request carries a nonce above the adapter's.           *)
THEOREM TypeCorrect == Spec => []TypeOK
<1>1. Init => TypeOK
  <2> SUFFICES ASSUME Init PROVE TypeOK
    OBVIOUS
  <2>1. 0 \in 0..Life /\ 0 \in 0..MaxTokens /\ 0 \in 0..MaxCalls /\ 1 \in 1..MaxListing
    BY RestAssumption
  <2>2. 1 \in 1..MaxClock /\ 0 \in 0..1 /\ 0 \in 0..0 /\ 0 \in Nat
    BY RestAssumption
  <2>3. /\ pc \in [Callers -> {"idle", "load", "storeMarkets", "storeIds", "compare",
                              "storeToken", "storeExpiry", "request", "draw", "send"}]
        /\ reload \in [Callers -> BOOLEAN] /\ waited \in [Callers -> BOOLEAN]
        /\ got \in [Callers -> Nat] /\ due \in [Callers -> 0..Life]
        /\ life \in [Tokens -> 0..Life] /\ overlapped \in BOOLEAN
    BY <2>1, <2>2 DEF Init
  <2>4. \A c \in Callers : pc[c] = "idle"
    BY DEF Init
  <2>5. /\ markets \in 0..listing /\ byId \in 0..listing
        /\ token \in 1..granted \cup {None} /\ left \in 0..Life /\ nonce \in Nat
        /\ calls \in 0..MaxCalls /\ listing \in 1..MaxListing /\ granted \in 0..MaxTokens
        /\ lastNonce \in 0..nonce /\ clock \in 1..MaxClock
    BY <2>1, <2>2 DEF Init
  <2> QED
    BY <2>3, <2>4, <2>5 DEF TypeOK
<1> QED
  BY <1>1, TypeStep, PTL DEF Spec

-----------------------------------------------------------------------------
(* The access token                                                        *)

(* Between the grant of a token and the store of its expiry passes at most *)
(* one unit, the call knows how long its token will live, and it lives at  *)
(* least a unit less than a new one.                                       *)
GrantsKnown ==
    \A c \in Callers : Storing(c) =>
        /\ due[c] = life[got[c]]
        /\ due[c] >= Life - 1
        /\ ~waited[c] => due[c] = Life

(* The token lives at most a unit less than its expiry says, now and when  *)
(* a call that has stored its token stores the expiry.                     *)
ExpiryClose ==
    /\ token # None => life[token] >= left - 1
    /\ \A c \in Callers : pc[c] = "storeExpiry" => token # None /\ life[token] >= due[c] - 1

TokenInv == GrantsKnown /\ ExpiryClose /\ TokenHonoured

(* Steps that have nothing to do with tokens keep the invariant.           *)
LEMMA TokenElsewhere ==
    ASSUME TypeOK, TokenInv, NEW c \in Callers, Elsewhere(c)
    PROVE  TokenInv'
<1>1. UNCHANGED <<token, left, life>>
  BY DEF Elsewhere, Loaded, FetchOk, FetchFail, StoreMarkets, StoreIds, GrantFail, Request,
         DrawNonce, Arrive, tokenVars, peerVars
<1>2. \A d \in Callers : pc'[d] \in {"storeToken", "storeExpiry", "request"} =>
          /\ pc'[d] = pc[d] /\ got'[d] = got[d] /\ due'[d] = due[d] /\ waited'[d] = waited[d]
  BY DEF Elsewhere, Loaded, FetchOk, FetchFail, StoreMarkets, StoreIds, GrantFail, Request,
         DrawNonce, Arrive, Return, Goto, callVars, TypeOK
<1> QED
  BY <1>1, <1>2 DEF TokenInv, GrantsKnown, ExpiryClose, TokenHonoured, Storing

(* A grant, the stores that follow it, and the use of the token that is    *)
(* there: the margin is what makes the last one safe.                      *)
LEMMA TokenSteps ==
    ASSUME TypeOK, TokenInv, NEW c \in Callers,
           Reuse(c) \/ GrantOk(c) \/ StoreToken(c) \/ StoreExpiry(c)
    PROVE  TokenInv'
<1> USE RestAssumption, NoneAssumption
       DEF TypeOK, TokenInv, GrantsKnown, ExpiryClose, TokenHonoured, Storing, Tokens
<1>1. CASE Reuse(c)
  <2>1. token # None /\ life[token] > 0
    BY <1>1 DEF Reuse, Valid
  <2> QED
    BY <1>1, <2>1 DEF Reuse, Valid, Goto, tokenVars, peerVars
<1>2. CASE GrantOk(c)
  <2>1. granted + 1 \in Tokens /\ life' = [life EXCEPT ![granted + 1] = Life]
    BY <1>2 DEF GrantOk
  <2>2. \A t \in 1..granted : life'[t] = life[t]
    BY <2>1
  <2>3. life'[granted + 1] = Life
    BY <2>1
  <2>4. /\ pc' = [pc EXCEPT ![c] = "storeToken"] /\ pc[c] = "compare"
        /\ got' = [got EXCEPT ![c] = granted + 1] /\ due' = [due EXCEPT ![c] = Life]
        /\ UNCHANGED <<token, left, waited>>
    BY <1>2 DEF GrantOk, Goto, tokenVars
  <2>5. GrantsKnown'
    BY <2>2, <2>3, <2>4
  <2>6. ExpiryClose'
    BY <2>2, <2>4
  <2>7. TokenHonoured'
    BY <2>2, <2>4
  <2> QED
    BY <2>5, <2>6, <2>7
<1>3. CASE StoreToken(c)
  <2>1. Storing(c) /\ token' = got[c] /\ got[c] \in 1..granted
    BY <1>3 DEF StoreToken, Goto
  <2>2. life[got[c]] = due[c] /\ due[c] >= Life - 1
    BY <2>1
  <2>3. UNCHANGED <<left, life, got, due, waited>> /\ pc' = [pc EXCEPT ![c] = "storeExpiry"]
    BY <1>3 DEF StoreToken, Goto, callVars, peerVars
  <2> QED
    BY <2>1, <2>2, <2>3
<1>4. CASE StoreExpiry(c)
  <2>1. UNCHANGED <<token, life, got, due, waited>> /\ pc' = [pc EXCEPT ![c] = "request"]
    BY <1>4 DEF StoreExpiry, Goto, callVars, peerVars
  <2>2. left' = due[c] /\ pc[c] = "storeExpiry"
    BY <1>4 DEF StoreExpiry, Goto
  <2>3. life[got[c]] > 0
    BY <2>2
  <2> QED
    BY <2>1, <2>2, <2>3
<1> QED
  BY <1>1, <1>2, <1>3, <1>4

(* A minute takes as much from the token as from its expiry, and no call   *)
(* sees two of them between its grant and its store.                       *)
LEMMA TokenMinute ==
    ASSUME TypeOK, TokenInv, Minute
    PROVE  TokenInv'
<1> USE RestAssumption, NoneAssumption DEF TypeOK, TokenInv, Storing, Tokens
<1>1. \A t \in 1..granted : life'[t] = IF life[t] > 0 THEN life[t] - 1 ELSE 0
  BY DEF Minute
<1>2. \A d \in Callers : due'[d] = IF due[d] > 0 THEN due[d] - 1 ELSE 0
  BY DEF Minute
<1>3. UNCHANGED <<token, pc, got, granted>> /\ left' = IF left > 0 THEN left - 1 ELSE 0
  BY DEF Minute
<1>4. \A d \in Callers : Storing(d) => ~waited[d] /\ waited'[d]
  BY DEF Minute
<1>5. GrantsKnown'
  <2> SUFFICES ASSUME NEW d \in Callers, Storing(d)
               PROVE  due'[d] = life'[got[d]] /\ due'[d] >= Life - 1 /\ waited'[d]
    BY <1>3 DEF GrantsKnown
  <2>1. due[d] = Life /\ due[d] = life[got[d]] /\ got[d] \in 1..granted
    BY <1>4 DEF GrantsKnown
  <2> QED
    BY <1>1, <1>2, <1>4, <2>1
<1>6. ExpiryClose'
  <2>1. ASSUME token # None PROVE life'[token] >= left' - 1
    BY <1>1, <1>3, <2>1 DEF ExpiryClose
  <2>2. ASSUME NEW d \in Callers, pc[d] = "storeExpiry"
        PROVE  token # None /\ life'[token] >= due'[d] - 1
    BY <1>1, <1>2, <2>2 DEF ExpiryClose
  <2> QED
    BY <1>3, <2>1, <2>2 DEF ExpiryClose
<1>7. TokenHonoured'
  BY <1>3 DEF Minute, TokenHonoured
<1> QED
  BY <1>5, <1>6, <1>7

(* Every step keeps the invariant.                                         *)
LEMMA TokenStep ==
    ASSUME TypeOK, TokenInv, [Next]_vars
    PROVE  TokenInv'
<1>1. CASE \E c \in Callers : Proceed(c)
  BY <1>1, TokenElsewhere, TokenSteps DEF Proceed, Elsewhere
<1>2. ASSUME NEW c \in Callers, NEW again \in BOOLEAN,
             NEW step \in {"load", "compare", "draw"}, Call(c, step, again)
      PROVE  TokenInv'
  <2>1. UNCHANGED <<token, left, life, got, due, waited>> /\ pc' = [pc EXCEPT ![c] = step]
    BY <1>2 DEF Call, Goto, tokenVars, peerVars
  <2> QED
    BY <2>1 DEF TypeOK, TokenInv, GrantsKnown, ExpiryClose, TokenHonoured, Storing
<1>3. CASE Minute
  BY <1>3, TokenMinute
<1>4. CASE Relist \/ SetClock \/ UNCHANGED vars
  <2>1. UNCHANGED <<token, left, life, pc, got, due, waited>>
    BY <1>4 DEF Relist, SetClock, vars, tokenVars, callVars, peerVars
  <2> QED
    BY <2>1 DEF TokenInv, GrantsKnown, ExpiryClose, TokenHonoured, Storing
<1> QED
  BY <1>1, <1>2, <1>3, <1>4 DEF Next

(* TokenHonoured: a private request of korbit.rs carries a token that has  *)
(* not expired, however many calls mix their tokens and expiries.          *)
THEOREM TokenHonouredHolds == Spec => []TokenHonoured
<1>1. Init => TokenInv
  BY DEF Init, TokenInv, GrantsKnown, ExpiryClose, TokenHonoured, Storing
<1>2. TokenInv => TokenHonoured
  BY DEF TokenInv
<1> QED
  BY <1>1, <1>2, TypeCorrect, TokenStep, PTL DEF Spec

-----------------------------------------------------------------------------
(* The nonce                                                               *)

(* No call but c is under way: what ~overlapped says of the calls that are.*)
Alone == ~overlapped => \A c, d \in Callers : pc[c] # "idle" /\ pc[d] # "idle" => c = d

NonceInv == Alone /\ NoncesServe

(* Every step keeps the nonces apart, and above those the exchange has     *)
(* seen unless calls overlap.                                              *)
LEMMA NonceStep ==
    ASSUME TypeOK, NonceInv, [Next]_vars
    PROVE  NonceInv'
<1> USE DEF NonceInv, Alone, NoncesServe
<1>1. ASSUME NEW c \in Callers, Arrive(c) PROVE NonceInv'
  BY <1>1 DEF Arrive, Return, Goto, TypeOK
<1>2. ASSUME NEW c \in Callers, DrawNonce(c) PROVE NonceInv'
  <2>1. nonce' > nonce /\ nonce' \in Nat /\ got' = [got EXCEPT ![c] = nonce']
    BY <1>2, NonceRises DEF DrawNonce
  <2>2. pc' = [pc EXCEPT ![c] = "send"] /\ pc[c] = "draw" /\ UNCHANGED <<lastNonce, overlapped>>
    BY <1>2 DEF DrawNonce, Goto, peerVars
  <2> QED
    BY <2>1, <2>2 DEF TypeOK
<1>3. ASSUME NEW c \in Callers,
             \/ Loaded(c) \/ FetchOk(c) \/ FetchFail(c) \/ StoreMarkets(c) \/ StoreIds(c)
             \/ Reuse(c) \/ GrantOk(c) \/ GrantFail(c) \/ StoreToken(c) \/ StoreExpiry(c)
             \/ Request(c)
      PROVE  NonceInv'
  <2>1. UNCHANGED <<lastNonce, overlapped>>
    BY <1>3 DEF Loaded, FetchOk, FetchFail, StoreMarkets, StoreIds, Reuse, GrantOk, GrantFail,
                StoreToken, StoreExpiry, Request, peerVars
  <2>2. \A d \in Callers : /\ pc'[d] # "idle" => pc[d] # "idle"
                           /\ pc'[d] = "send" => pc[d] = "send" /\ got'[d] = got[d]
    BY <1>3 DEF Loaded, FetchOk, FetchFail, StoreMarkets, StoreIds, Reuse, GrantOk, GrantFail,
                StoreToken, StoreExpiry, Request, Return, Goto, callVars, TypeOK
  <2> QED
    BY <2>1, <2>2
<1>4. ASSUME NEW c \in Callers, NEW again \in BOOLEAN,
             NEW step \in {"load", "compare", "draw"}, Call(c, step, again)
      PROVE  NonceInv'
  BY <1>4 DEF Call, Goto, peerVars, TypeOK
<1>5. CASE Relist \/ Minute \/ SetClock \/ UNCHANGED vars
  <2>1. UNCHANGED <<pc, got, lastNonce, overlapped>>
    BY <1>5 DEF Relist, Minute, SetClock, vars, callVars, peerVars
  <2> QED
    BY <2>1
<1> QED
  BY <1>1, <1>2, <1>3, <1>4, <1>5 DEF Next, Proceed

(* NoncesServe: requests of exmo.rs under way differ in their nonces, and  *)
(* those that do not overlap are accepted, whatever the clock does.        *)
THEOREM NoncesServeHolds == Spec => []NoncesServe
<1>1. Init => NonceInv
  BY DEF Init, NonceInv, Alone, NoncesServe
<1>2. NonceInv => NoncesServe
  BY DEF NonceInv
<1> QED
  BY <1>1, <1>2, TypeCorrect, NonceStep, PTL DEF Spec

-----------------------------------------------------------------------------
(* The market maps                                                         *)

(* With no calls that overlap, only one that is between its two stores     *)
(* keeps the maps apart.                                                   *)
MapInv ==
    /\ Alone
    /\ ~overlapped =>
          /\ \A c \in Callers : pc[c] = "storeIds" => markets = got[c]
          /\ (\A c \in Callers : pc[c] # "storeIds") => markets = byId

(* Every step keeps it.                                                    *)
LEMMA MapStep ==
    ASSUME TypeOK, MapInv, [Next]_vars
    PROVE  MapInv'
<1> USE DEF MapInv, Alone
<1>1. ASSUME NEW c \in Callers, StoreMarkets(c) PROVE MapInv'
  <2>1. /\ pc' = [pc EXCEPT ![c] = "storeIds"] /\ pc[c] = "storeMarkets"
        /\ markets' = got[c] /\ UNCHANGED <<got, overlapped>>
    BY <1>1 DEF StoreMarkets, Goto, callVars
  <2> QED
    BY <2>1 DEF TypeOK
<1>2. ASSUME NEW c \in Callers, StoreIds(c) PROVE MapInv'
  <2>1. /\ pc' = [pc EXCEPT ![c] = "idle"] /\ pc[c] = "storeIds"
        /\ byId' = got[c] /\ UNCHANGED <<markets, overlapped>>
    BY <1>2 DEF StoreIds, Ids, Return, Goto
  <2> QED
    BY <2>1 DEF TypeOK
<1>3. ASSUME NEW c \in Callers,
             \/ Loaded(c) \/ FetchOk(c) \/ FetchFail(c) \/ Reuse(c) \/ GrantOk(c)
             \/ GrantFail(c) \/ StoreToken(c) \/ StoreExpiry(c) \/ Request(c)
             \/ DrawNonce(c) \/ Arrive(c)
      PROVE  MapInv'
  <2>1. UNCHANGED <<markets, byId, overlapped>>
    BY <1>3 DEF Loaded, FetchOk, FetchFail, Reuse, GrantOk, GrantFail, StoreToken,
                StoreExpiry, Request, DrawNonce, Arrive, mapVars
  <2>2. \A d \in Callers : /\ pc'[d] # "idle" => pc[d] # "idle"
                           /\ pc'[d] = "storeIds" <=> pc[d] = "storeIds"
                           /\ pc'[d] = "storeIds" => got'[d] = got[d]
    BY <1>3 DEF Loaded, FetchOk, FetchFail, Reuse, GrantOk, GrantFail, StoreToken,
                StoreExpiry, Request, DrawNonce, Arrive, Return, Goto, callVars, TypeOK
  <2> QED
    BY <2>1, <2>2
<1>4. ASSUME NEW c \in Callers, NEW again \in BOOLEAN,
             NEW step \in {"load", "compare", "draw"}, Call(c, step, again)
      PROVE  MapInv'
  BY <1>4 DEF Call, Goto, mapVars, TypeOK
<1>5. CASE Relist \/ Minute \/ SetClock \/ UNCHANGED vars
  <2>1. UNCHANGED <<pc, got, markets, byId, overlapped>>
    BY <1>5 DEF Relist, Minute, SetClock, vars, mapVars, callVars
  <2> QED
    BY <2>1
<1> QED
  BY <1>1, <1>2, <1>3, <1>4, <1>5 DEF Next, Proceed

(* MapsAgree: between calls that do not overlap the maps load_markets()    *)
(* fills are of the same listing, whichever of its requests failed.        *)
THEOREM MapsAgreeHolds == Spec => []MapsAgree
<1>1. Init => MapInv
  BY DEF Init, MapInv, Alone
<1>2. MapInv => MapsAgree
  BY DEF MapInv, MapsAgree, Quiescent
<1> QED
  BY <1>1, <1>2, TypeCorrect, MapStep, PTL DEF Spec
=============================================================================
