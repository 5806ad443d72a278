-------------------------- MODULE RateLimiterProofs --------------------------
(***************************************************************************)
(* Proofs about RateLimiter, for any number of callers, any amounts and    *)
(* any rate.                                                               *)
(***************************************************************************)
EXTENDS RateLimiter, TLAPS

(* The amounts the limiter computes with.                                  *)
LEMMA AmountsAreNatural ==
    /\ RequestsPerSecond \in Nat
    /\ Capacity \in Nat
    /\ \A ms \in Nat : NewTokens(ms) \in Nat
    /\ WaitMs \in Nat
<1>1. RequestsPerSecond \in Nat
  <2>1. CASE RateLimitMs > 0
    <3> DEFINE q == 1000 \div RateLimitMs
    <3>1. q \in Nat
      BY <2>1, SettingAssumption
    <3> QED
      BY <2>1, <3>1 DEF RequestsPerSecond
  <2>2. CASE ~(RateLimitMs > 0)
    BY <2>2 DEF RequestsPerSecond
  <2> QED
    BY <2>1, <2>2
<1>2. Capacity \in Nat
  BY <1>1 DEF Capacity
<1>3. \A ms \in Nat : NewTokens(ms) \in Nat
  BY <1>1 DEF NewTokens
<1>4. WaitMs \in Nat
  BY SettingAssumption DEF WaitMs
<1> QED
  BY <1>1, <1>2, <1>3, <1>4

(* A delay is a number of milliseconds.                                    *)
LEMMA DelayIsNatural ==
    ASSUME level \in 0..MaxLevel
    PROVE  DelayMs \in Nat
<1>1. CASE level = 0
  BY <1>1 DEF DelayMs
<1>2. CASE level # 0
  <2>1. level \in 1..5
    BY <1>2, SettingAssumption
  <2>2. Shifted[level] \in Nat
    BY <2>1 DEF Shifted
  <2> DEFINE d == BaseDelayMs * Shifted[level]
  <2>3. d \in Nat
    BY <2>2, SettingAssumption
  <2> HIDE DEF d
  <2>4. Least(d, CapMs) \in Nat
    BY <2>3, SettingAssumption DEF Least
  <2> QED
    BY <1>2, <2>4 DEF DelayMs, d
<1> QED
  BY <1>1, <1>2

(* What a refill stores lies between what it read and a full bucket.       *)
LEMMA RefilledInBucket ==
    ASSUME TypeOK, NEW c \in Callers
    PROVE  /\ Refilled(c) \in 0..Capacity
           /\ Refilled(c) >= seen[c]
BY AmountsAreNatural DEF TypeOK, Refilled, Least

-----------------------------------------------------------------------------
(* Types                                                                   *)

(* The initial state is typed.                                             *)
LEMMA InitTyped == Init => TypeOK
  BY AmountsAreNatural, SettingAssumption DEF Init, TypeOK, Steps

(* Time keeps ages, sleeps and the rest typed.                             *)
LEMMA TickKeepsTypes ==
    ASSUME TypeOK, Tick
    PROVE  TypeOK'
<1>1. age' \in 0..1000
  BY SettingAssumption DEF TypeOK, Tick, Least
<1>2. quiet' \in Nat \cup {None}
  BY SettingAssumption DEF TypeOK, Tick, Least
<1>3. sleep' \in [Callers -> Nat]
  BY SettingAssumption DEF TypeOK, Tick
<1> QED
  BY <1>1, <1>2, <1>3 DEF TypeOK, Tick, historyVars

(* So does the beginning of a call.                                        *)
LEMMA CallKeepsTypes ==
    ASSUME TypeOK, NEW c \in Callers, NEW step \in {"enter", "try", "report"},
           Call(c, step)
    PROVE  TypeOK'
<1>1. calls' \in [Callers -> 0..MaxCalls]
  BY SettingAssumption DEF TypeOK, Call
<1>2. required' \in [Callers -> Nat]
  BY SettingAssumption DEF TypeOK, Call
<1>3. pc' \in [Callers -> Steps]
  BY DEF TypeOK, Call, Goto, Steps
<1>4. \A d \in Callers : pc'[d] \in {"swap", "trySwap"} => seen'[d] >= required'[d]
  BY DEF TypeOK, Call, Goto, callVars
<1> QED
  BY <1>1, <1>2, <1>3, <1>4 DEF TypeOK, Call, bucketVars, backoffVars, historyVars

(* So does every step of one, within the bounds of bucket and level.       *)
LEMMA ProceedKeepsTypes ==
    ASSUME TypeOK, NEW c \in Callers, Proceed(c)
    PROVE  TypeOK'
<1> USE DEF TypeOK, Goto, Steps, bucketVars, backoffVars, callVars, historyVars
<1>1. CASE PassGate(c)
  BY <1>1 DEF PassGate
<1>2. CASE DelayAtGate(c)
  BY <1>2, DelayIsNatural DEF DelayAtGate
<1>3. CASE LeaveGate(c)
  BY <1>3 DEF LeaveGate
<1>4. CASE RefillLoad(c)
  <2>1. NewTokens(age) \in Nat
    BY AmountsAreNatural
  <2>2. CASE NewTokens(age) > 0
    BY <1>4, <2>1, <2>2 DEF RefillLoad
  <2>3. CASE NewTokens(age) = 0
    BY <1>4, <2>1, <2>3 DEF RefillLoad
  <2> QED
    BY <2>1, <2>2, <2>3
<1>5. CASE RefillStore(c)
  <2>1. tokens' \in 0..Capacity /\ credit' \in Nat /\ regained' \in Int
    BY <1>5, RefilledInBucket, AmountsAreNatural DEF RefillStore
  <2> QED
    BY <1>5, <2>1 DEF RefillStore
<1>6. CASE Enough(c)
  BY <1>6 DEF Enough
<1>7. CASE NotEnough(c)
  BY <1>7, AmountsAreNatural DEF NotEnough
<1>8. CASE Retry(c)
  BY <1>8 DEF Retry
<1>9. CASE SwapOk(c)
  <2>1. tokens' \in 0..Capacity /\ spent' \in Nat
    BY <1>9, AmountsAreNatural DEF SwapOk, Spend
  <2> QED
    BY <1>9, <2>1 DEF SwapOk
<1>10. CASE SwapFail(c)
  BY <1>10 DEF SwapFail
<1>11. CASE Settle(c)
  <2>1. level' \in 0..MaxLevel /\ quiet' \in Nat \cup {None}
    BY <1>11, SettingAssumption DEF Settle, Remembered
  <2> QED
    BY <1>11, <2>1 DEF Settle
<1>12. CASE TryLoad(c)
  BY <1>12 DEF TryLoad
<1>13. CASE TrySwap(c)
  <2>1. tokens' \in 0..Capacity /\ spent' \in Nat
    BY <1>13, AmountsAreNatural DEF TrySwap, Spend
  <2> QED
    BY <1>13, <2>1 DEF TrySwap
<1>14. CASE RecordRateLimit(c)
  <2>1. level' \in 0..MaxLevel
    BY <1>14, SettingAssumption DEF RecordRateLimit, Least
  <2> QED
    BY <1>14, <2>1 DEF RecordRateLimit
<1> QED
  BY <1>1, <1>2, <1>3, <1>4, <1>5, <1>6, <1>7, <1>8, <1>9, <1>10, <1>11, <1>12,
     <1>13, <1>14 DEF Proceed

(* Type correctness: the bucket is never overdrawn nor overfull, and the   *)
(* backoff level stays within its maximum.                                 *)
THEOREM TypeCorrect == Spec => []TypeOK
<1>1. TypeOK /\ [Next]_vars => TypeOK'
  <2> SUFFICES ASSUME TypeOK, [Next]_vars PROVE TypeOK'
    OBVIOUS
  <2>1. CASE UNCHANGED vars
    BY <2>1 DEF vars, TypeOK, bucketVars, backoffVars, callVars, historyVars
  <2> QED
    BY <2>1, TickKeepsTypes, CallKeepsTypes, ProceedKeepsTypes DEF Next
<1> QED
  BY <1>1, InitTyped, PTL DEF Spec

-----------------------------------------------------------------------------
(* The bucket                                                              *)

(* No step spends a token the bucket does not lose.                        *)
LEMMA ProceedConserves ==
    ASSUME TypeOK, TokensConserved, NEW c \in Callers, Proceed(c)
    PROVE  TokensConserved'
<1> USE AmountsAreNatural DEF TokensConserved, bucketVars, historyVars
<1> UNCHANGED Capacity
  BY DEF Capacity, RequestsPerSecond
<1>1. CASE UNCHANGED <<tokens, historyVars>>
  BY <1>1
<1>2. CASE RefillStore(c)
  <2>1. Refilled(c) \in Int /\ seen[c] \in Int /\ tokens \in Int /\ spent \in Int
          /\ credit \in Int /\ regained \in Int
    BY RefilledInBucket DEF TypeOK
  <2> QED
    BY <1>2, <2>1 DEF RefillStore
<1>3. CASE Spend(c) /\ UNCHANGED <<credit, regained>>
  <2>1. required[c] \in Int /\ tokens \in Int /\ spent \in Int /\ credit \in Int
          /\ regained \in Int
    BY DEF TypeOK
  <2> QED
    BY <1>3, <2>1 DEF Spend
<1> QED
  BY <1>1, <1>2, <1>3
  DEF Proceed, PassGate, DelayAtGate, LeaveGate, RefillLoad, Enough, NotEnough, Retry,
      SwapOk, SwapFail, Settle, TryLoad, TrySwap, RecordRateLimit

(* Conservation: a token handed out was in the full bucket, was added by a *)
(* refill, or was given back by one that did not see it leave.             *)
THEOREM TokensConservedHolds == Spec => []TokensConserved
<1>1. Init => TokensConserved
  BY AmountsAreNatural DEF Init, TokensConserved
<1>2. TypeOK /\ TokensConserved /\ [Next]_vars => TokensConserved'
  <2> SUFFICES ASSUME TypeOK, TokensConserved, [Next]_vars PROVE TokensConserved'
    OBVIOUS
  <2>1. CASE Tick \/ (\E c \in Callers : \E step \in {"enter", "try", "report"} :
                          Call(c, step)) \/ UNCHANGED vars
    BY <2>1 DEF Tick, Call, vars, bucketVars, historyVars, TokensConserved, Capacity,
                RequestsPerSecond
  <2> QED
    BY <2>1, ProceedConserves DEF Next
<1> QED
  BY <1>1, <1>2, TypeCorrect, PTL DEF Spec

-----------------------------------------------------------------------------
(* The refill                                                              *)

(* The caller between load and store holds the mutex of last_request, and  *)
(* the count has not risen since its load.                                 *)
RefillInv ==
    \A c \in Callers : /\ pc[c] = "store" => refiller = c
                       /\ pc[c] = "store" => tokens <= seen[c]

(* Between a refill's load and store the count only falls.                 *)
LEMMA ProceedKeepsRefillInv ==
    ASSUME TypeOK, RefillInv, NEW c \in Callers, Proceed(c)
    PROVE  RefillInv'
<1> USE NoneAssumption DEF TypeOK, RefillInv, Goto, Steps, bucketVars, callVars
<1>1. CASE PassGate(c)
  BY <1>1 DEF PassGate
<1>2. CASE DelayAtGate(c)
  BY <1>2 DEF DelayAtGate
<1>3. CASE LeaveGate(c)
  BY <1>3 DEF LeaveGate
<1>4. CASE RefillLoad(c)
  <2>1. \A d \in Callers : pc[d] # "store"
    BY <1>4 DEF RefillLoad, LastRequestFree
  <2>2. tokens' = tokens /\ \A d \in Callers \ {c} : pc'[d] = pc[d]
    BY <1>4 DEF RefillLoad
  <2>3. pc'[c] = "store" => refiller' = c /\ seen'[c] = tokens
    BY <1>4 DEF RefillLoad
  <2> QED
    BY <2>1, <2>2, <2>3, AmountsAreNatural
<1>5. CASE RefillStore(c)
  <2>1. \A d \in Callers : pc'[d] # "store"
    BY <1>5 DEF RefillStore
  <2> QED
    BY <2>1
<1>6. CASE Enough(c)
  BY <1>6 DEF Enough
<1>7. CASE NotEnough(c)
  BY <1>7 DEF NotEnough
<1>8. CASE Retry(c)
  BY <1>8 DEF Retry
<1>9. CASE SwapOk(c)
  BY <1>9, AmountsAreNatural DEF SwapOk, Spend
<1>10. CASE SwapFail(c)
  BY <1>10 DEF SwapFail
<1>11. CASE Settle(c)
  BY <1>11 DEF Settle
<1>12. CASE TryLoad(c)
  BY <1>12 DEF TryLoad
<1>13. CASE TrySwap(c)
  BY <1>13, AmountsAreNatural DEF TrySwap, Spend
<1>14. CASE RecordRateLimit(c)
  BY <1>14 DEF RecordRateLimit
<1> QED
  BY <1>1, <1>2, <1>3, <1>4, <1>5, <1>6, <1>7, <1>8, <1>9, <1>10, <1>11, <1>12,
     <1>13, <1>14 DEF Proceed

(* A refill takes no token away: the mutex keeps other refills out between *)
(* its load and its store, and all that happens to the count is spending.  *)
THEOREM RefillLosesNothingHolds == Spec => []RefillLosesNothing
<1>1. Init => RefillInv
  BY DEF Init, RefillInv
<1>2. TypeOK /\ RefillInv /\ [Next]_vars => RefillInv'
  <2> SUFFICES ASSUME TypeOK, RefillInv, [Next]_vars PROVE RefillInv'
    OBVIOUS
  <2>1. CASE Tick \/ UNCHANGED vars
    BY <2>1 DEF Tick, vars, bucketVars, callVars, RefillInv
  <2>2. CASE \E c \in Callers : \E step \in {"enter", "try", "report"} : Call(c, step)
    BY <2>2 DEF Call, Goto, bucketVars, TypeOK, Steps, RefillInv
  <2> QED
    BY <2>1, <2>2, ProceedKeepsRefillInv DEF Next
<1>3. TypeOK /\ RefillInv => RefillLosesNothing
  <2> SUFFICES ASSUME TypeOK, RefillInv, NEW c \in Callers, pc[c] = "store"
               PROVE  tokens <= Refilled(c)
    BY DEF RefillLosesNothing
  <2>1. tokens <= seen[c]
    BY DEF RefillInv
  <2>2. Refilled(c) >= seen[c] /\ Refilled(c) \in Nat /\ seen[c] \in Nat /\ tokens \in Nat
    BY RefilledInBucket, AmountsAreNatural DEF TypeOK
  <2> QED
    BY <2>1, <2>2
<1> QED
  BY <1>1, <1>2, <1>3, TypeCorrect, PTL DEF Spec

-----------------------------------------------------------------------------
(* The backoff level                                                       *)

(* The backoff state is consistent: while a level is left the last 429 is  *)
(* remembered, and once none is left it is forgotten.                      *)
THEOREM LevelIsRememberedHolds == Spec => []LevelIsRemembered
<1>1. Init => LevelIsRemembered
  BY DEF Init, LevelIsRemembered
<1>2. TypeOK /\ LevelIsRemembered /\ [Next]_vars => LevelIsRemembered'
  <2> SUFFICES ASSUME TypeOK, LevelIsRemembered, [Next]_vars PROVE LevelIsRemembered'
    OBVIOUS
  <2> USE NoneAssumption, SettingAssumption DEF TypeOK, LevelIsRemembered
  <2>1. CASE UNCHANGED backoffVars \/ UNCHANGED <<level, quiet>>
    BY <2>1 DEF backoffVars
  <2>2. CASE Tick
    BY <2>2 DEF Tick, Least
  <2>3. ASSUME NEW c \in Callers, Settle(c) PROVE LevelIsRemembered'
    BY <2>3 DEF Settle, Remembered
  <2>4. ASSUME NEW c \in Callers, RecordRateLimit(c) PROVE LevelIsRemembered'
    BY <2>4 DEF RecordRateLimit, Least
  <2> QED
    BY <2>1, <2>2, <2>3, <2>4
    DEF Next, vars, Call, Proceed, PassGate, DelayAtGate, LeaveGate, RefillLoad,
        RefillStore, Enough, NotEnough, Retry, SwapOk, SwapFail, TryLoad, TrySwap
<1> QED
  BY <1>1, <1>2, TypeCorrect, PTL DEF Spec
=============================================================================
