----------------------------- MODULE RateLimiter -----------------------------
(***************************************************************************)
(* The rate limiter, src/src/client/rate_limiter.rs: a token bucket shared *)
(* by the requests of an exchange.                                         *)
(*                                                                         *)
(* The token count is an atomic.  It is lowered by compare-exchange and    *)
(* raised by refill_tokens with a load and a store, under the mutex of     *)
(* last_request, which the callers that lower it do not take.  A second    *)
(* mutex guards the backoff level; throttle() sleeps with it held.         *)
(*                                                                         *)
(* Amounts are the code's, a thousand to the token.  Time is a clock of    *)
(* TickMs; no instant is kept, only the time since, up to the point where  *)
(* the code no longer tells the difference.  Left out: allow_burst, which  *)
(* nothing reads, and the accessors.                                       *)
(***************************************************************************)
EXTENDS Integers, Sequences

CONSTANTS
    Callers,       \* tasks that share the limiter
    Amounts,       \* the values of cost * 1000 considered
    RateLimitMs,   \* rate_limit_ms
    MaxLevel,      \* 5 in the code, and no more than that
    BaseDelayMs,   \* 1000 in the code
    CapMs,         \* the longest delay, 30000 in the code
    CalmMs,        \* time without a 429 before the level falls, 30000
    TickMs,        \* step of the clock
    MaxCalls,      \* bound on the calls each caller makes
    None

ASSUME SettingAssumption ==
    /\ Amounts \subseteq Nat
    /\ RateLimitMs \in Nat
    /\ MaxLevel \in 1..5
    /\ BaseDelayMs \in Nat
    /\ CapMs \in Nat
    /\ CalmMs \in Nat
    /\ TickMs \in Nat \ {0}
    /\ MaxCalls \in Nat

ASSUME NoneAssumption == None \notin Callers /\ None \notin Int

VARIABLES
    tokens,       \* the bucket
    age,          \* ms since last_request, up to a second
    refiller,     \* holder of the mutex of last_request between load and store
    level,        \* BackoffState.level
    quiet,        \* ms since last_rate_limit, or None
    gate,         \* holder of the backoff mutex over a sleep
    \* the locals of each call
    pc, required, seen, gain, sleep,
    calls,        \* calls made by each caller
    \* history
    spent,        \* tokens handed out
    credit,       \* tokens the refills added to what they had read
    regained      \* tokens the refills gave back although they were spent

bucketVars  == <<tokens, age, refiller>>
backoffVars == <<level, quiet, gate>>
callVars    == <<required, seen, gain, sleep, calls>>
historyVars == <<spent, credit, regained>>
vars == <<bucketVars, backoffVars, pc, callVars, historyVars>>

Least(a, b) == IF a < b THEN a ELSE b

\* Whole requests per second: none if rate_limit_ms is more than a second.
RequestsPerSecond == IF RateLimitMs > 0 THEN 1000 \div RateLimitMs ELSE 1000

\* max_tokens and refill_rate.
Capacity == RequestsPerSecond * 1000

\* What a refill adds after ms milliseconds.
NewTokens(ms) == ms * RequestsPerSecond

\* 1 << (level - 1)
Shifted == <<1, 2, 4, 8, 16>>

DelayMs == IF level = 0 THEN 0 ELSE Least(BaseDelayMs * Shifted[level], CapMs)

WaitMs == IF RateLimitMs > 10 THEN RateLimitMs ELSE 10

Steps == {"idle", "enter", "delaying", "refill", "store", "check", "swap", "short",
          "settle", "report", "try", "trySwap"}

Goto(c, from, to) == pc[c] = from /\ pc' = [pc EXCEPT ![c] = to]

Init ==
    /\ tokens = Capacity
    /\ age = 0
    /\ refiller = None
    /\ level = 0
    /\ quiet = None
    /\ gate = None
    /\ pc = [c \in Callers |-> "idle"]
    /\ required = [c \in Callers |-> 0]
    /\ seen = [c \in Callers |-> 0]
    /\ gain = [c \in Callers |-> 0]
    /\ sleep = [c \in Callers |-> 0]
    /\ calls = [c \in Callers |-> 0]
    /\ spent = 0
    /\ credit = 0
    /\ regained = 0

\* A call of throttle(), try_acquire(), or on_rate_limit_error().
Call(c, step) ==
    /\ calls[c] < MaxCalls
    /\ Goto(c, "idle", step)
    /\ calls' = [calls EXCEPT ![c] = @ + 1]
    /\ IF step = "report" THEN UNCHANGED required
       ELSE \E amount \in Amounts : required' = [required EXCEPT ![c] = amount]
    /\ UNCHANGED <<bucketVars, backoffVars, seen, gain, sleep, historyVars>>

-----------------------------------------------------------------------------
(* throttle(): the backoff delay, the mutex held                           *)

PassGate(c) ==
    /\ Goto(c, "enter", "refill")
    /\ gate = None
    /\ DelayMs = 0
    /\ UNCHANGED <<bucketVars, backoffVars, callVars, historyVars>>

DelayAtGate(c) ==
    /\ Goto(c, "enter", "delaying")
    /\ gate = None
    /\ DelayMs > 0
    /\ gate' = c
    /\ sleep' = [sleep EXCEPT ![c] = DelayMs]
    /\ UNCHANGED <<bucketVars, level, quiet, required, seen, gain, calls, historyVars>>

LeaveGate(c) ==
    /\ Goto(c, "delaying", "refill")
    /\ sleep[c] = 0
    /\ gate' = None
    /\ UNCHANGED <<bucketVars, level, quiet, callVars, historyVars>>

-----------------------------------------------------------------------------
(* refill_tokens()                                                         *)

\* Faulty variant: refills do not exclude each other.
LastRequestUnguarded == TRUE

LastRequestFree == refiller = None

\* The mutex is taken, the clock and the token count are read.
RefillLoad(c) ==
    /\ pc[c] = "refill"
    /\ LastRequestFree
    /\ \/ /\ NewTokens(age) > 0
          /\ pc' = [pc EXCEPT ![c] = "store"]
          /\ refiller' = c
          /\ gain' = [gain EXCEPT ![c] = NewTokens(age)]
          /\ seen' = [seen EXCEPT ![c] = tokens]
          /\ age' = 0
       \/ /\ NewTokens(age) = 0
          /\ pc' = [pc EXCEPT ![c] = "check"]
          /\ UNCHANGED <<refiller, gain, seen, age>>
    /\ UNCHANGED <<tokens, backoffVars, required, sleep, calls, historyVars>>

\* Faulty variant: the bucket overflows.
RefilledUncapped(c) == seen[c] + gain[c]

Refilled(c) == Least(seen[c] + gain[c], Capacity)

\* The count that was read is stored back, whatever was spent in between.
RefillStore(c) ==
    /\ Goto(c, "store", "check")
    /\ tokens' = Refilled(c)
    /\ refiller' = None
    /\ credit' = credit + (Refilled(c) - seen[c])
    /\ regained' = regained + (seen[c] - tokens)
    /\ UNCHANGED <<age, backoffVars, callVars, spent>>

-----------------------------------------------------------------------------
(* throttle(): taking the tokens                                           *)

Enough(c) ==
    /\ Goto(c, "check", "swap")
    /\ tokens >= required[c]
    /\ seen' = [seen EXCEPT ![c] = tokens]
    /\ UNCHANGED <<bucketVars, backoffVars, required, gain, sleep, calls, historyVars>>

\* The sleep that follows also refills.
NotEnough(c) ==
    /\ Goto(c, "check", "short")
    /\ tokens < required[c]
    /\ sleep' = [sleep EXCEPT ![c] = WaitMs]
    /\ UNCHANGED <<bucketVars, backoffVars, required, seen, gain, calls, historyVars>>

\* Faulty variant: the retry does not refill.
RetryWithoutRefill(c) ==
    /\ Goto(c, "short", "check")
    /\ sleep[c] = 0
    /\ UNCHANGED <<bucketVars, backoffVars, callVars, historyVars>>

Retry(c) ==
    /\ Goto(c, "short", "refill")
    /\ sleep[c] = 0
    /\ UNCHANGED <<bucketVars, backoffVars, callVars, historyVars>>

\* Faulty variant: the count read is stored without a comparison.
SpendUnchecked(c) ==
    /\ tokens' = seen[c] - required[c]
    /\ spent' = spent + required[c]

\* The compare-exchange when it succeeds.
Spend(c) ==
    /\ tokens = seen[c]
    /\ tokens' = tokens - required[c]
    /\ spent' = spent + required[c]

SwapOk(c) ==
    /\ Goto(c, "swap", "settle")
    /\ Spend(c)
    /\ UNCHANGED <<age, refiller, backoffVars, callVars, credit, regained>>

SwapFail(c) ==
    /\ Goto(c, "swap", "check")
    /\ tokens # seen[c]
    /\ UNCHANGED <<bucketVars, backoffVars, callVars, historyVars>>

\* Faulty variant: the first success forgets the 429 but not its levels.
ForgottenAtOnce(l) == None

\* last_rate_limit once the level has fallen to l.
Remembered(l) == IF l = 0 THEN None ELSE quiet

\* record_success() does not restart the clock: once it is calm, every success
\* lowers the level.
Settle(c) ==
    /\ Goto(c, "settle", "idle")
    /\ gate = None
    /\ \/ /\ quiet # None
          /\ quiet > CalmMs
          /\ level' = IF level > 0 THEN level - 1 ELSE 0
          /\ quiet' = Remembered(level')
       \/ /\ quiet # None => quiet <= CalmMs
          /\ UNCHANGED <<level, quiet>>
    /\ UNCHANGED <<bucketVars, gate, callVars, historyVars>>

-----------------------------------------------------------------------------
(* try_acquire()                                                           *)

TryLoad(c) ==
    /\ pc[c] = "try"
    /\ pc' = [pc EXCEPT ![c] = IF tokens >= required[c] THEN "trySwap" ELSE "idle"]
    /\ seen' = [seen EXCEPT ![c] = tokens]
    /\ UNCHANGED <<bucketVars, backoffVars, required, gain, sleep, calls, historyVars>>

TrySwap(c) ==
    /\ Goto(c, "trySwap", "idle")
    /\ \/ Spend(c)
       \/ tokens # seen[c] /\ UNCHANGED <<tokens, spent>>
    /\ UNCHANGED <<age, refiller, backoffVars, callVars, credit, regained>>

-----------------------------------------------------------------------------
(* on_rate_limit_error(); wait_for_retry() sleeps afterwards, without a    *)
(* lock.                                                                   *)

RecordRateLimit(c) ==
    /\ Goto(c, "report", "idle")
    /\ gate = None
    /\ level' = Least(level + 1, MaxLevel)
    /\ quiet' = 0
    /\ UNCHANGED <<bucketVars, gate, callVars, historyVars>>

-----------------------------------------------------------------------------
(* The clock                                                               *)

\* A second fills the bucket.
Tick ==
    /\ age' = Least(age + TickMs, 1000)
    /\ quiet' = IF quiet = None THEN None ELSE Least(quiet + TickMs, CalmMs + 1)
    /\ sleep' = [c \in Callers |-> IF sleep[c] > TickMs THEN sleep[c] - TickMs ELSE 0]
    /\ UNCHANGED <<tokens, refiller, level, gate, pc, required, seen, gain, calls,
                   historyVars>>

\* The steps of a call under way.
Proceed(c) ==
    \/ PassGate(c) \/ DelayAtGate(c) \/ LeaveGate(c)
    \/ RefillLoad(c) \/ RefillStore(c)
    \/ Enough(c) \/ NotEnough(c) \/ Retry(c)
    \/ SwapOk(c) \/ SwapFail(c) \/ Settle(c)
    \/ TryLoad(c) \/ TrySwap(c) \/ RecordRateLimit(c)

Next ==
    \/ \E c \in Callers : Proceed(c)
    \/ \E c \in Callers : \E step \in {"enter", "try", "report"} : Call(c, step)
    \/ Tick

Spec == Init /\ [][Next]_vars

-----------------------------------------------------------------------------
(* Properties                                                              *)

\* The bucket is never overdrawn nor overfull, and a caller only tries to take
\* what it has seen there.
TypeOK ==
    /\ tokens \in 0..Capacity
    /\ age \in 0..1000
    /\ refiller \in Callers \cup {None}
    /\ level \in 0..MaxLevel
    /\ quiet \in Nat \cup {None}
    /\ gate \in Callers \cup {None}
    /\ pc \in [Callers -> Steps]
    /\ required \in [Callers -> Nat]
    /\ seen \in [Callers -> 0..Capacity]
    /\ gain \in [Callers -> Nat]
    /\ sleep \in [Callers -> Nat]
    /\ calls \in [Callers -> 0..MaxCalls]
    /\ spent \in Nat
    /\ credit \in Nat
    /\ regained \in Int
    /\ \A c \in Callers : pc[c] \in {"swap", "trySwap"} => seen[c] >= required[c]

\* No token is lost or handed out twice by the compare-exchanges: what was handed
\* out and what is left come from the full bucket, from the refills, or from what
\* a refill gave back because it was spent between its load and its store.
TokensConserved == tokens + spent = Capacity + credit + regained

\* The store of a refill never lowers the count: between its load and its store
\* tokens are taken, but no other refill adds any.
RefillLosesNothing == \A c \in Callers : pc[c] = "store" => tokens <= Refilled(c)

\* The backoff level is 0 exactly when no 429 is remembered: record_success()
\* forgets the last one only when it has taken back every level.
LevelIsRemembered == (level = 0) <=> (quiet = None)

\* rate_limiter.rs says of itself that it is a token bucket: no more is handed out
\* than the bucket held and time has added.
WithinRate == spent <= Capacity + credit

\* Calls end: locks are passed on, sleeps are over in time and refills reach the
\* callers that wait.  With finitely many calls nobody is starved by the others.
Fairness ==
    /\ WF_vars(Tick)
    /\ \A c \in Callers : SF_vars(Proceed(c))

FairSpec == Spec /\ Fairness

\* rate_limiter.rs documents rate_limit_ms as the least interval between requests
\* and throttle() as a wait before a request: the wait ends.
CallsReturn == \A c \in Callers : pc[c] # "idle" ~> pc[c] = "idle"
=============================================================================
