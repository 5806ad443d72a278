---------------------------- MODULE BinanceWsProofs ----------------------------
(***************************************************************************)
(* Proofs about BinanceWs, for any number of callers, keys and renewal     *)
(* tasks, and any times that fit into one another: the oldest key that is  *)
(* used again lives for longer than a renewal task sleeps.                 *)
(***************************************************************************)
EXTENDS BinanceWs, TLAPS

(* The shared key is there once a call has read or written it.             *)
KeyThere ==
    key = None => \A c \in Callers : pc[c] \notin {"compare", "writeAge", "connect"}

TypeInv == TypeOK /\ KeyThere

-----------------------------------------------------------------------------
(* Types                                                                   *)

(* A step of a call keeps the types.                                       *)
LEMMA TypeProceed ==
    ASSUME TypeInv, NEW c \in Callers, Proceed(c)
    PROVE  TypeInv'
<1> USE TimesAssumption, BoundsAssumption DEF TypeInv, TypeOK, KeyThere, Goto, Keys
<1>1. CASE ReadKey(c)
  BY <1>1 DEF ReadKey, sharedVars, taskVars, serverVars
<1>2. CASE CompareAge(c)
  BY <1>2 DEF CompareAge, sharedVars, taskVars, serverVars
<1>3. CASE PostOk(c)
  <2>1. PICK k \in Keys : Grant(c, k)
    BY <1>3 DEF PostOk
  <2>2. life' \in [Keys -> 0..Life] /\ used' = [used EXCEPT ![c] = k]
    BY <2>1 DEF Grant
  <2>3. issued' \in 0..MaxKeys
    BY <1>3 DEF PostOk
  <2>4. /\ pc' = [pc EXCEPT ![c] = "writeKey"]
        /\ UNCHANGED <<key, age, private, calls, task, timer, refused>>
    BY <1>3 DEF PostOk, sharedVars, taskVars
  <2>5. TypeOK'
    BY <2>2, <2>3, <2>4
  <2>6. KeyThere'
    BY <2>4
  <2> QED
    BY <2>5, <2>6
<1>4. CASE PostFail(c)
  BY <1>4 DEF PostFail, sharedVars, taskVars, serverVars
<1>5. CASE WriteKey(c)
  BY <1>5 DEF WriteKey, taskVars, serverVars
<1>6. CASE WriteAge(c)
  BY <1>6 DEF WriteAge, taskVars, serverVars
<1>7. CASE Connect(c)
  <2>1. PICK t \in Tasks : TaskGoto(t, "none", "asleep") /\ timer' = [timer EXCEPT ![t] = Period]
    BY <1>7 DEF Connect
  <2>2. key # None
    BY <1>7 DEF Connect
  <2> QED
    BY <1>7, <2>1, <2>2 DEF Connect, TaskGoto, sharedVars, serverVars
<1> QED
  BY <1>1, <1>2, <1>3, <1>4, <1>5, <1>6, <1>7 DEF Proceed

(* So does a call that starts.                                             *)
LEMMA TypeCall ==
    ASSUME TypeInv, NEW c \in Callers, Watch(c) \/ WsAuthenticate(c)
    PROVE  TypeInv'
<1>1. /\ calls' = calls + 1 /\ calls < MaxCalls
      /\ used' = [used EXCEPT ![c] = None] /\ pc[c] = "idle"
      /\ UNCHANGED <<sharedVars, taskVars, serverVars, refused>>
  BY DEF Watch, WsAuthenticate, Call, Goto
<1>2. /\ pc' = [pc EXCEPT ![c] = "read"] \/ pc' = [pc EXCEPT ![c] = "post"]
      /\ private' = [private EXCEPT ![c] = TRUE] \/ private' = [private EXCEPT ![c] = FALSE]
  BY DEF Watch, WsAuthenticate, Call, Goto
<1>3. private' \in [Callers -> BOOLEAN]
  BY <1>2 DEF TypeInv, TypeOK
<1>4. /\ pc' \in [Callers -> {"idle", "read", "compare", "post", "writeKey", "writeAge",
                             "connect"}]
      /\ \A d \in Callers : pc'[d] \in {"compare", "writeKey", "writeAge", "connect"} =>
            pc'[d] = pc[d] /\ used'[d] = used[d]
  BY <1>1, <1>2 DEF TypeInv, TypeOK
<1>5. calls' \in 0..MaxCalls /\ used' \in [Callers -> Keys \cup {None}]
  BY <1>1, BoundsAssumption DEF TypeInv, TypeOK
<1> QED
  BY <1>1, <1>3, <1>4, <1>5 DEF TypeInv, TypeOK, KeyThere, sharedVars, taskVars, serverVars

(* So does a renewal task.                                                 *)
LEMMA TypeTask ==
    ASSUME TypeInv, NEW t \in Tasks, Task(t)
    PROVE  TypeInv'
<1> USE TimesAssumption, BoundsAssumption DEF TypeInv, TypeOK, KeyThere, TaskGoto
<1>1. CASE Renew(t)
  BY <1>1 DEF Renew, sharedVars, callVars, serverVars
<1>2. CASE PutOk(t)
  BY <1>2 DEF PutOk, Answered, RenewedKey, callVars
<1>3. CASE PutFail(t)
  BY <1>3 DEF PutFail, Answered, callVars, serverVars
<1> QED
  BY <1>1, <1>2, <1>3 DEF Task

(* So does the clock.                                                      *)
LEMMA TypeTick ==
    ASSUME TypeInv, Tick
    PROVE  TypeInv'
<1> USE TimesAssumption DEF TypeInv, TypeOK, KeyThere
<1>1. age' \in 0..Life
  BY DEF Tick
<1>2. timer' \in [Tasks -> 0..Period]
  BY DEF Tick
<1>3. life' \in [Keys -> 0..Life]
  BY DEF Tick
<1> QED
  BY <1>1, <1>2, <1>3 DEF Tick, callVars

(* Every step keeps the types.                                             *)
LEMMA TypeStep ==
    ASSUME TypeInv, [Next]_vars
    PROVE  TypeInv'
<1>1. CASE UNCHANGED vars
  BY <1>1 DEF TypeInv, TypeOK, KeyThere, vars, sharedVars, callVars, taskVars, serverVars
<1> QED
  BY <1>1, TypeProceed, TypeCall, TypeTask, TypeTick DEF Next

(* The adapter as it is made.                                              *)
LEMMA TypeInit == Init => TypeInv
<1> SUFFICES ASSUME Init PROVE TypeInv
  OBVIOUS
<1>1. Life \in 0..Life /\ 0 \in 0..Life /\ 0 \in 0..Period /\ 0 \in 0..MaxCalls /\ 0 \in 0..MaxKeys
  BY TimesAssumption, BoundsAssumption
<1>2. /\ timer \in [Tasks -> 0..Period] /\ life \in [Keys -> 0..Life]
      /\ private \in [Callers -> BOOLEAN] /\ used \in [Callers -> Keys \cup {None}]
      /\ task \in [Tasks -> {"none", "asleep", "put"}]
  BY <1>1 DEF Init
<1>3. /\ pc \in [Callers -> {"idle", "read", "compare", "post", "writeKey", "writeAge",
                            "connect"}]
      /\ \A c \in Callers : pc[c] = "idle"
  BY DEF Init
<1>4. \A t \in Tasks : task[t] = "none"
  BY DEF Init
<1> QED
  BY <1>1, <1>2, <1>3, <1>4 DEF Init, TypeInv, TypeOK, KeyThere

(* TypeOK: every variable keeps its type, and no stream is opened and no   *)
(* renewal sent without a key.                                             *)
THEOREM TypeCorrect == Spec => []TypeOK
<1>1. TypeInv => TypeOK
  BY DEF TypeInv
<1> QED
  BY <1>1, TypeInit, TypeStep, PTL DEF Spec

-----------------------------------------------------------------------------
(* The listen key                                                          *)

(* Calls last no time: what a call between two of its steps knows of its   *)
(* key and of the timestamp is still so.                                   *)
CallsKnow ==
    \A c \in Callers :
        /\ pc[c] = "writeKey" => life[used[c]] = Life
        /\ pc[c] = "writeAge" => life[key] = Life
        /\ pc[c] = "connect" => age <= Refresh

(* The key outlives the sleep of every task.                               *)
RenewedInTime ==
    \A t \in Tasks : /\ task[t] = "asleep" => life[key] > timer[t]
                     /\ task[t] = "put" => life[key] > 0

KeyInv == AgeIsHonest /\ (~refused => CallsKnow /\ RenewedInTime)

(* What the invariant says of the key a stream is opened with.             *)
LEMMA ConnectInTime ==
    ASSUME TypeInv, KeyInv, ~refused, NEW c \in Callers, pc[c] = "connect"
    PROVE  key \in Keys /\ life[key] > Period
<1>1. key \in Keys /\ life[key] \in 0..Life /\ age <= Refresh /\ age \in 0..Life
  BY DEF TypeInv, TypeOK, KeyThere, KeyInv, CallsKnow
<1>2. CASE \E d \in Callers : pc[d] = "writeAge"
  BY <1>1, <1>2, TimesAssumption DEF KeyInv, CallsKnow
<1>3. CASE \A d \in Callers : pc[d] # "writeAge"
  <2>1. life[key] >= Life - age
    BY <1>1, <1>3, BoundsAssumption DEF KeyInv, AgeIsHonest, Keys
  <2> QED
    BY <1>1, <2>1, TimesAssumption
<1> QED
  BY <1>2, <1>3

(* Every step of a call keeps the invariant.                               *)
LEMMA KeyProceed ==
    ASSUME TypeInv, KeyInv, NEW c \in Callers, Proceed(c)
    PROVE  KeyInv'
<1> USE TimesAssumption, BoundsAssumption
        DEF TypeInv, TypeOK, KeyThere, KeyInv, AgeIsHonest, CallsKnow, RenewedInTime, Goto, Keys
<1>1. CASE ReadKey(c)
  BY <1>1 DEF ReadKey, sharedVars, taskVars, serverVars
<1>2. CASE CompareAge(c)
  BY <1>2 DEF CompareAge, NeedsRefresh, sharedVars, taskVars, serverVars
<1>3. CASE PostOk(c)
  <2>1. PICK k \in Keys : Grant(c, k)
    BY <1>3 DEF PostOk
  <2>2. /\ life' = [life EXCEPT ![k] = Life] /\ used' = [used EXCEPT ![c] = k]
        /\ pc' = [pc EXCEPT ![c] = "writeKey"]
        /\ UNCHANGED <<key, age, task, timer, refused>>
    BY <1>3, <2>1 DEF PostOk, Grant, sharedVars, taskVars
  <2>3. \A j \in Keys : life'[j] >= life[j] /\ (life[j] = Life => life'[j] = Life)
    BY <2>2
  <2>4. AgeIsHonest'
    BY <1>3, <2>2, <2>3 DEF PostOk
  <2>5. ASSUME ~refused PROVE CallsKnow'
    BY <2>2, <2>3, <2>5
  <2>6. ASSUME ~refused PROVE RenewedInTime'
    <3> SUFFICES ASSUME NEW t \in Tasks, task[t] # "none"
                 PROVE  /\ task[t] = "asleep" => life'[key] > timer[t]
                        /\ task[t] = "put" => life'[key] > 0
      BY <2>2
    <3>1. key \in Keys /\ life'[key] >= life[key] /\ life'[key] \in 0..Life
      BY <2>2, <2>3
    <3> QED
      BY <2>6, <3>1
  <2> QED
    BY <2>2, <2>4, <2>5, <2>6
<1>4. CASE PostFail(c)
  BY <1>4 DEF PostFail, sharedVars, taskVars, serverVars
<1>5. CASE WriteKey(c)
  <2>1. /\ pc[c] = "writeKey" /\ pc' = [pc EXCEPT ![c] = "writeAge"] /\ key' = used[c]
        /\ used[c] \in Keys /\ UNCHANGED <<age, used, task, timer, life, refused>>
    BY <1>5 DEF WriteKey, taskVars, serverVars
  <2>2. AgeIsHonest'
    BY <2>1
  <2>3. ASSUME ~refused PROVE life'[key'] = Life
    BY <2>1, <2>3
  <2>4. ASSUME ~refused PROVE CallsKnow'
    BY <2>1, <2>3, <2>4
  <2>5. ASSUME ~refused PROVE RenewedInTime'
    BY <2>1, <2>3, <2>5
  <2> QED
    BY <2>1, <2>2, <2>4, <2>5
<1>6. CASE WriteAge(c)
  BY <1>6 DEF WriteAge, taskVars, serverVars
<1>7. CASE Connect(c)
  <2>1. PICK t \in Tasks : TaskGoto(t, "none", "asleep") /\ timer' = [timer EXCEPT ![t] = Period]
    BY <1>7 DEF Connect
  <2>2. ~refused => life[key] > Period
    BY <1>7, ConnectInTime DEF Connect
  <2> QED
    BY <1>7, <2>1, <2>2 DEF Connect, TaskGoto, sharedVars, serverVars
<1> QED
  BY <1>1, <1>2, <1>3, <1>4, <1>5, <1>6, <1>7 DEF Proceed

(* So does a renewal task.                                                 *)
LEMMA KeyTask ==
    ASSUME TypeInv, KeyInv, NEW t \in Tasks, Task(t)
    PROVE  KeyInv'
<1> USE TimesAssumption, BoundsAssumption
        DEF TypeInv, TypeOK, KeyThere, KeyInv, AgeIsHonest, CallsKnow, RenewedInTime, TaskGoto,
            Keys
<1>1. CASE Renew(t)
  BY <1>1 DEF Renew, sharedVars, callVars, serverVars
<1>2. CASE PutOk(t)
  <2>1. /\ key \in Keys /\ life' = [life EXCEPT ![key] = Life] /\ age' = 0
        /\ task' = [task EXCEPT ![t] = "asleep"] /\ timer' = [timer EXCEPT ![t] = Period]
        /\ UNCHANGED <<key, pc, used, refused>>
    BY <1>2 DEF PutOk, Answered, RenewedKey, callVars
  <2>2. life'[key] = Life /\ \A j \in Keys : life[j] = Life => life'[j] = Life
    BY <2>1
  <2>3. AgeIsHonest'
    BY <2>1, <2>2
  <2>4. ASSUME ~refused PROVE CallsKnow'
    BY <2>1, <2>2, <2>4
  <2>5. ASSUME ~refused PROVE RenewedInTime'
    BY <2>1, <2>2, <2>5
  <2> QED
    BY <2>1, <2>3, <2>4, <2>5
<1>3. CASE PutFail(t)
  BY <1>3 DEF PutFail
<1> QED
  BY <1>1, <1>2, <1>3 DEF Task

(* So does the clock: it takes as much from the key as from the timers.    *)
LEMMA KeyTick ==
    ASSUME TypeInv, KeyInv, Tick
    PROVE  KeyInv'
<1> USE TimesAssumption, BoundsAssumption DEF TypeInv, TypeOK, Keys
<1>1. /\ UNCHANGED <<key, pc, task, refused>>
      /\ \A c \in Callers : pc[c] = "idle"
      /\ \A t \in Tasks : task[t] = "none" \/ (task[t] = "asleep" /\ timer[t] > 0)
      /\ age' = IF age < Life THEN age + 1 ELSE Life
  BY DEF Tick, callVars
<1>2. \A k \in Keys : life'[k] = IF life[k] > 0 THEN life[k] - 1 ELSE 0
  BY DEF Tick
<1>3. \A t \in Tasks : timer'[t] = IF timer[t] > 0 THEN timer[t] - 1 ELSE 0
  BY DEF Tick
<1>4. AgeIsHonest'
  BY <1>1, <1>2 DEF KeyInv, AgeIsHonest
<1>5. ASSUME ~refused PROVE RenewedInTime'
  <2> SUFFICES ASSUME NEW t \in Tasks, task[t] = "asleep"
               PROVE  life'[key] > timer'[t]
    BY <1>1 DEF RenewedInTime
  <2>1. life[key] > timer[t] /\ timer[t] > 0 /\ key \in Keys
    BY <1>1, <1>5 DEF KeyInv, RenewedInTime
  <2> QED
    BY <1>2, <1>3, <2>1
<1>6. CallsKnow'
  BY <1>1 DEF CallsKnow
<1> QED
  BY <1>1, <1>4, <1>5, <1>6 DEF KeyInv

(* Every step keeps the invariant.                                         *)
LEMMA KeyStep ==
    ASSUME TypeInv, KeyInv, [Next]_vars
    PROVE  KeyInv'
<1>1. ASSUME NEW c \in Callers, Watch(c) \/ WsAuthenticate(c) PROVE KeyInv'
  BY <1>1 DEF TypeInv, TypeOK, KeyInv, AgeIsHonest, CallsKnow, RenewedInTime, Watch,
              WsAuthenticate, Call, Goto, sharedVars, taskVars, serverVars
<1>2. CASE UNCHANGED vars
  BY <1>2 DEF KeyInv, AgeIsHonest, CallsKnow, RenewedInTime, vars, sharedVars, callVars,
              taskVars, serverVars
<1> QED
  BY <1>1, <1>2, KeyProceed, KeyTask, KeyTick DEF Next

(* The invariants together.                                                *)
LEMMA KeyInvariant == Spec => [](TypeInv /\ KeyInv)
<1>1. Init => KeyInv
  BY DEF Init, KeyInv, AgeIsHonest, CallsKnow, RenewedInTime
<1> QED
  BY <1>1, TypeInit, TypeStep, KeyStep, PTL DEF Spec

(* AgeIsHonest: listen_key_timestamp never makes the adapter's key younger *)
(* than it is, unless a renewal failed.                                    *)
THEOREM AgeIsHonestHolds == Spec => []AgeIsHonest
<1>1. KeyInv => AgeIsHonest
  BY DEF KeyInv
<1> QED
  BY <1>1, KeyInvariant, PTL

(* KeyKeptAlive: unless a renewal failed, the key of an adapter that has   *)
(* opened a private stream does not expire, whichever tasks renew it.      *)
THEOREM KeyKeptAliveHolds == Spec => []KeyKeptAlive
<1>1. ASSUME TypeInv, KeyInv PROVE KeyKeptAlive
  <2> SUFFICES ASSUME ~refused, NEW t \in Tasks, task[t] # "none"
               PROVE  life[key] > 0
    BY DEF KeyKeptAlive
  <2>1. key \in Keys /\ life[key] \in 0..Life /\ timer[t] \in 0..Period
        /\ task[t] \in {"asleep", "put"}
    BY <1>1 DEF TypeInv, TypeOK
  <2> QED
    BY <1>1, <2>1, TimesAssumption DEF KeyInv, RenewedInTime
<1> QED
  BY <1>1, KeyInvariant, PTL

(* StreamKeyHonoured: watch_balance() and its like open their stream with  *)
(* a key the server honours, unless another call has replaced it.          *)
THEOREM StreamKeyHonouredHolds == Spec => []StreamKeyHonoured
<1>1. ASSUME TypeInv, KeyInv PROVE StreamKeyHonoured
  <2> SUFFICES ASSUME NEW c \in Callers, ~refused, pc[c] = "connect", used[c] = key
               PROVE  life[used[c]] > 0
    BY DEF StreamKeyHonoured
  <2>1. key \in Keys /\ life[key] > Period
    BY <1>1, ConnectInTime
  <2>2. life[key] \in 0..Life
    BY <1>1, <2>1 DEF TypeInv, TypeOK
  <2> QED
    BY <2>1, <2>2, TimesAssumption
<1> QED
  BY <1>1, KeyInvariant, PTL
=============================================================================
