------------------------------- MODULE BinanceWs -------------------------------
(***************************************************************************)
(* The private streams of the Binance adapter,                             *)
(* src/src/exchanges/cex/binance_ws.rs: the life cycle of the listen key.  *)
(*                                                                         *)
(* A private stream is a URL with a listen key in it, which the server     *)
(* forgets unless it is renewed.  Every watch_* call works on a clone that *)
(* shares key and timestamp with the adapter: it reads both, one after the *)
(* other, gets a new key if there is none or the timestamp is old, opens a *)
(* WsClient on the URL and leaves a task behind that renews, for ever,     *)
(* whatever key is then the adapter's.                                     *)
(*                                                                         *)
(* The clock moves by a unit of ten minutes, a request is answered within  *)
(* one, and ages and remaining times are kept, not instants.  The server   *)
(* is the environment: asked for a key, it hands out a new one or the one  *)
(* it still honours.  What happens on a stream is WsClient's matter.       *)
(***************************************************************************)
EXTENDS Integers

CONSTANTS
    Callers,     \* tasks that share the adapter
    Period,      \* the renewal task's sleep, 2 units in the code
    Refresh,     \* the age up to which a key is used again, 3 units in the code
    Life,        \* how long the server honours a key, 6 units
    MaxKeys,     \* bound on the keys handed out
    MaxCalls,    \* bound on the calls made, and so on the renewal tasks
    None

ASSUME TimesAssumption ==
    /\ Period \in Nat \ {0}
    /\ Refresh \in Nat
    /\ Life \in Nat
    /\ Period + Refresh < Life

ASSUME BoundsAssumption ==
    /\ MaxKeys \in Nat
    /\ MaxCalls \in Nat
    /\ None \notin Int

Keys  == 1..MaxKeys
Tasks == 1..MaxCalls

VARIABLES
    \* shared by the adapter, its clones and their tasks
    key,         \* listen_key, or None
    age,         \* units since listen_key_timestamp, up to Life
    \* the locals of each call
    pc, used, private,
    calls,       \* calls made
    \* the renewal tasks
    task, timer,
    \* the server
    issued,      \* keys handed out
    life,        \* units each key is honoured for
    \* history
    refused      \* a renewal did not reach the server, or was turned down

sharedVars == <<key, age>>
callVars   == <<pc, used, private, calls>>
taskVars   == <<task, timer>>
serverVars == <<issued, life>>
vars == <<sharedVars, callVars, taskVars, serverVars, refused>>

Goto(c, from, to)     == pc[c] = from /\ pc' = [pc EXCEPT ![c] = to]
TaskGoto(t, from, to) == task[t] = from /\ task' = [task EXCEPT ![t] = to]

\* The timestamp starts in 1970.
Init ==
    /\ key = None
    /\ age = Life
    /\ pc = [c \in Callers |-> "idle"]
    /\ used = [c \in Callers |-> None]
    /\ private = [c \in Callers |-> FALSE]
    /\ calls = 0
    /\ task = [t \in Tasks |-> "none"]
    /\ timer = [t \in Tasks |-> 0]
    /\ issued = 0
    /\ life = [k \in Keys |-> 0]
    /\ refused = FALSE

-----------------------------------------------------------------------------
(* watch_balance(), watch_orders() and watch_my_trades()                   *)

Call(c, step, watches) ==
    /\ calls < MaxCalls
    /\ Goto(c, "idle", step)
    /\ calls' = calls + 1
    /\ used' = [used EXCEPT ![c] = None]
    /\ private' = [private EXCEPT ![c] = watches]
    /\ UNCHANGED <<sharedVars, taskVars, serverVars, refused>>

Watch(c) == Call(c, "read", TRUE)

\* ws_authenticate(), on a borrowed adapter but not on its clones: it asks for a
\* key whether there is one or not.
WsAuthenticate(c) == Call(c, "post", FALSE)

\* Faulty variant: only the timestamp decides.
ReadKeyUnchecked(c) ==
    /\ Goto(c, "read", "compare")
    /\ used' = [used EXCEPT ![c] = key]
    /\ UNCHANGED <<sharedVars, private, calls, taskVars, serverVars, refused>>

\* Without a key the timestamp is not looked at.
ReadKey(c) ==
    /\ Goto(c, "read", IF key = None THEN "post" ELSE "compare")
    /\ used' = [used EXCEPT ![c] = key]
    /\ UNCHANGED <<sharedVars, private, calls, taskVars, serverVars, refused>>

\* Faulty variant: a key is used for as long as the server honours a new one.
NeedsRefreshLate == age > Life

NeedsRefresh == age > Refresh

CompareAge(c) ==
    /\ Goto(c, "compare", IF NeedsRefresh THEN "post" ELSE "connect")
    /\ UNCHANGED <<sharedVars, used, private, calls, taskVars, serverVars, refused>>

-----------------------------------------------------------------------------
(* create_listen_key()                                                     *)

Grant(c, k) ==
    /\ life' = [life EXCEPT ![k] = Life]
    /\ used' = [used EXCEPT ![c] = k]

PostOk(c) ==
    /\ Goto(c, "post", "writeKey")
    /\ \/ /\ issued < MaxKeys
          /\ issued' = issued + 1
          /\ Grant(c, issued + 1)
       \/ /\ \E k \in Keys : life[k] > 0 /\ Grant(c, k)
          /\ UNCHANGED issued
    /\ UNCHANGED <<sharedVars, private, calls, taskVars, refused>>

PostFail(c) ==
    /\ Goto(c, "post", "idle")
    /\ UNCHANGED <<sharedVars, used, private, calls, taskVars, serverVars, refused>>

\* Faulty variant: a task reads the key over its sleep.
KeyFreeOfTasks == \A t \in Tasks : task[t] = "none"

\* A renewal reads the key until it is answered.  Whoever wants to read it then is not
\* made to wait for the one who wants to write it: tokio would, in some orders.
KeyFree == \A t \in Tasks : task[t] # "put"

WriteKey(c) ==
    /\ Goto(c, "writeKey", "writeAge")
    /\ KeyFree
    /\ key' = used[c]
    /\ UNCHANGED <<age, used, private, calls, taskVars, serverVars, refused>>

WriteAge(c) ==
    /\ Goto(c, "writeAge", IF private[c] THEN "connect" ELSE "idle")
    /\ age' = 0
    /\ UNCHANGED <<key, used, private, calls, taskVars, serverVars, refused>>

-----------------------------------------------------------------------------
(* The renewal task                                                        *)

\* WsClient::connect() never fails, and a task is left behind.
Connect(c) ==
    /\ Goto(c, "connect", "idle")
    /\ \E t \in Tasks :
          /\ TaskGoto(t, "none", "asleep")
          /\ \A u \in 1..(t - 1) : task[u] # "none"
          /\ timer' = [timer EXCEPT ![t] = Period]
    /\ UNCHANGED <<sharedVars, used, private, calls, serverVars, refused>>

Renew(t) ==
    /\ TaskGoto(t, "asleep", "put")
    /\ timer[t] = 0
    /\ UNCHANGED <<sharedVars, callVars, timer, serverVars, refused>>

\* Faulty variant: the task renews the key its stream was opened with, the first.
FirstKey == 1

RenewedKey == key

\* What the server answered makes no difference to the task.
Answered(t) ==
    /\ TaskGoto(t, "put", "asleep")
    /\ age' = 0
    /\ timer' = [timer EXCEPT ![t] = Period]

PutOk(t) ==
    /\ Answered(t)
    /\ life[RenewedKey] > 0
    /\ life' = [life EXCEPT ![RenewedKey] = Life]
    /\ UNCHANGED <<key, callVars, issued, refused>>

PutFail(t) ==
    /\ Answered(t)
    /\ refused' = TRUE
    /\ UNCHANGED <<key, callVars, serverVars>>

-----------------------------------------------------------------------------

\* No call is under way and no renewal is due.
Tick ==
    /\ \A c \in Callers : pc[c] = "idle"
    /\ \A t \in Tasks : task[t] = "none" \/ (task[t] = "asleep" /\ timer[t] > 0)
    /\ age' = IF age < Life THEN age + 1 ELSE Life
    /\ timer' = [t \in Tasks |-> IF timer[t] > 0 THEN timer[t] - 1 ELSE 0]
    /\ life' = [k \in Keys |-> IF life[k] > 0 THEN life[k] - 1 ELSE 0]
    /\ UNCHANGED <<key, callVars, task, issued, refused>>

\* The steps of a call under way.
Proceed(c) ==
    \/ ReadKey(c) \/ CompareAge(c) \/ PostOk(c) \/ PostFail(c)
    \/ WriteKey(c) \/ WriteAge(c) \/ Connect(c)

Task(t) == Renew(t) \/ PutOk(t) \/ PutFail(t)

Next ==
    \/ \E c \in Callers : Watch(c) \/ WsAuthenticate(c) \/ Proceed(c)
    \/ \E t \in Tasks : Task(t)
    \/ Tick

Spec == Init /\ [][Next]_vars

\* Calls and tasks go on and requests are answered.  A task cannot keep the key
\* from being written for ever: its lock is asked for in turn.
Fairness ==
    /\ \A c \in Callers : SF_vars(Proceed(c))
    /\ \A t \in Tasks : WF_vars(Task(t))
    /\ WF_vars(Tick)

FairSpec == Spec /\ Fairness

-----------------------------------------------------------------------------
(* Properties                                                              *)

\* A call that has a key to write or to connect with has got it from the server.
TypeOK ==
    /\ key \in Keys \cup {None}
    /\ age \in 0..Life
    /\ pc \in [Callers -> {"idle", "read", "compare", "post", "writeKey", "writeAge",
                           "connect"}]
    /\ used \in [Callers -> Keys \cup {None}]
    /\ private \in [Callers -> BOOLEAN]
    /\ calls \in 0..MaxCalls
    /\ task \in [Tasks -> {"none", "asleep", "put"}]
    /\ timer \in [Tasks -> 0..Period]
    /\ issued \in 0..MaxKeys
    /\ life \in [Keys -> 0..Life]
    /\ refused \in BOOLEAN
    /\ \A c \in Callers : pc[c] \in {"compare", "writeKey", "writeAge", "connect"} =>
          used[c] \in Keys
    /\ \A t \in Tasks : task[t] # "none" => key # None

\* The timestamp claims no more than the server grants: unless a renewal failed, or
\* a call is between its two writes, the adapter's key was granted or renewed when
\* the timestamp says.
AgeIsHonest ==
    ~refused /\ key # None /\ (\A c \in Callers : pc[c] # "writeAge")
        => life[key] >= Life - age

\* Unless a renewal failed, once a private stream was opened the adapter's key never
\* expires: the oldest key that is used again is renewed in time, one sleep later.
KeyKeptAlive == ~refused /\ (\E t \in Tasks : task[t] # "none") => life[key] > 0

\* Unless a renewal failed, a stream is opened with a key the server honours, or
\* with one another call has replaced since this one read it.
StreamKeyHonoured ==
    \A c \in Callers :
        ~refused /\ pc[c] = "connect" => life[used[c]] > 0 \/ used[c] # key

\* Every private watch_* and ws_authenticate() call returns, although the key
\* cannot be written while a renewal waits for its answer.
CallsReturn == \A c \in Callers : pc[c] # "idle" ~> pc[c] = "idle"
=============================================================================
