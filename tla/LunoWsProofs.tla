------------------------------ MODULE LunoWsProofs ------------------------------
(***************************************************************************)
(* Proofs about LunoWs, for any number of callers, markets, connections,   *)
(* with credentials and without.                                           *)
(***************************************************************************)
EXTENDS LunoWs, TLAPS

Places == {"idle", "compare", "peek", "leave", "dial", "store", "authenticate", "spawn",
           "record", "closing"}

LoopPlaces == {"none", "lock", "waiting", "handle", "deliver", "pong", "ended"}

(* Calls that have dialed know the connection and its market.              *)
Dialed == {"store", "authenticate", "spawn", "record"}

(* A call under way has the market it wants, and every connection that was *)
(* accepted its own.                                                       *)
CallsTyped ==
    /\ \A c \in Callers : pc[c] \notin {"idle", "closing"} => want[c] \in Markets
    /\ \A c \in Callers : pc[c] \in Dialed => fresh[c] \in 1..dials
    /\ socket # None => socket \in 1..dials
    /\ \A n \in 1..dials : market[n] \in Markets
    /\ \A n \in Sockets : loop[n] = "waiting" => socket # None /\ holder = n
    /\ holder # None => loop[holder] = "waiting"
    /\ \A n \in Sockets : n > dials => loop[n] = "none"

TypeInv == TypeOK /\ CallsTyped

-----------------------------------------------------------------------------
(* Types                                                                   *)

(* A call that returns leaves the types as they are.                       *)
LEMMA ReturnTyped ==
    ASSUME TypeInv, NEW c \in Callers, NEW from, Return(c, from)
    PROVE  /\ pc' \in [Callers -> Places]
           /\ want' \in [Callers -> Markets \cup {None}]
           /\ fresh' \in [Callers -> Sockets \cup {None}]
           /\ \A d \in Callers : pc'[d] # "idle" =>
                 pc'[d] = pc[d] /\ want'[d] = want[d] /\ fresh'[d] = fresh[d]
           /\ pc[c] = from /\ pc'[c] = "idle"
BY DEF TypeInv, TypeOK, Return, Goto, Places

(* So does one that goes on.                                               *)
LEMMA StepTyped ==
    ASSUME TypeInv, NEW c \in Callers, NEW from, NEW to \in Places, Step(c, from, to)
    PROVE  /\ pc' \in [Callers -> Places]
           /\ want' \in [Callers -> Markets \cup {None}]
           /\ fresh' \in [Callers -> Sockets \cup {None}]
           /\ \A d \in Callers : /\ d # c => pc'[d] = pc[d]
                                 /\ want'[d] = want[d] /\ fresh'[d] = fresh[d]
           /\ pc[c] = from /\ pc'[c] = to
BY DEF TypeInv, TypeOK, Step, Goto, Places

(* A step that touches nothing but the place of a call keeps the types.    *)
LEMMA MovedTyped ==
    ASSUME TypeInv, NEW c \in Callers, NEW from \in Places \ {"idle", "closing"},
           NEW to \in Places, to \in Dialed => from \in Dialed, Step(c, from, to),
           UNCHANGED <<adapterVars, calls, loopVars, peerVars, histVars>>
    PROVE  TypeInv'
<1>1. /\ pc' \in [Callers -> Places] /\ want' \in [Callers -> Markets \cup {None}]
      /\ fresh' \in [Callers -> Sockets \cup {None}]
      /\ \A d \in Callers : /\ d # c => pc'[d] = pc[d]
                            /\ want'[d] = want[d] /\ fresh'[d] = fresh[d]
      /\ pc[c] = from /\ pc'[c] = to
  BY StepTyped
<1>2. TypeOK'
  BY <1>1 DEF TypeInv, TypeOK, Places, adapterVars, loopVars, peerVars, histVars
<1>3. \A d \in Callers : /\ pc'[d] \notin {"idle", "closing"} => pc[d] \notin {"idle", "closing"}
                        /\ pc'[d] \in Dialed => pc[d] \in Dialed
  BY <1>1
<1>4. CallsTyped'
  BY <1>1, <1>3 DEF TypeInv, CallsTyped, adapterVars, loopVars, peerVars
<1> QED
  BY <1>2, <1>4 DEF TypeInv

(* The steps of a call before its connection is made.                      *)
LEMMA TypeBefore ==
    ASSUME TypeInv, NEW c \in Callers,
           Compare(c) \/ Peek(c) \/ Leave(c) \/ DialFail(c) \/ EndClose(c)
    PROVE  TypeInv'
<1> USE LunoAssumption DEF TypeInv, TypeOK, CallsTyped, Places, Dialed, Sockets, histVars
<1>1. CASE Compare(c)
  <2>1. UNCHANGED <<adapterVars, calls, loopVars, peerVars, histVars>>
    BY <1>1 DEF Compare
  <2>2. CASE Step(c, "compare", "peek")
    BY <2>1, <2>2, MovedTyped
  <2>3. CASE Return(c, "compare")
    BY <2>1, <2>3, ReturnTyped DEF adapterVars, loopVars, peerVars
  <2> QED
    BY <1>1, <2>2, <2>3 DEF Compare
<1>2. CASE Peek(c)
  <2>1. PICK to \in {"dial", "leave"} : Step(c, "peek", to)
    BY <1>2 DEF Peek
  <2>2. UNCHANGED <<adapterVars, calls, loopVars, peerVars, histVars>>
    BY <1>2 DEF Peek
  <2> QED
    BY <2>1, <2>2, MovedTyped
<1>3. CASE Leave(c)
  <2>1. /\ UNCHANGED <<holder, current, subs, calls, loopVars, dials, market, histVars>>
        /\ holder = None /\ over' \subseteq Sockets /\ socket' \in {socket, None}
    BY <1>3 DEF Leave, Free, Closed, CloseFailed
  <2>2. CASE Step(c, "leave", "dial")
    BY <2>1, <2>2, StepTyped DEF loopVars
  <2>3. CASE Return(c, "leave")
    BY <2>1, <2>3, ReturnTyped DEF loopVars
  <2> QED
    BY <1>3, <2>2, <2>3 DEF Leave
<1>4. CASE DialFail(c)
  BY <1>4, ReturnTyped DEF DialFail, adapterVars, loopVars, peerVars
<1>5. CASE EndClose(c)
  <2>1. /\ UNCHANGED <<holder, current, subs, calls, loopVars, dials, market, histVars>>
        /\ holder = None /\ over' \subseteq Sockets /\ socket' \in {socket, None}
    BY <1>5 DEF EndClose, Free, Closed, CloseFailed
  <2> QED
    BY <1>5, <2>1, ReturnTyped DEF EndClose, loopVars
<1> QED
  BY <1>1, <1>2, <1>3, <1>4, <1>5

(* The dial and the steps after it.                                        *)
LEMMA TypeAfter ==
    ASSUME TypeInv, NEW c \in Callers,
           DialOk(c) \/ Store(c) \/ Authenticate(c) \/ Spawn(c) \/ Record(c)
    PROVE  TypeInv'
<1> USE LunoAssumption DEF TypeInv, TypeOK, CallsTyped, Places, Dialed, Sockets, histVars
<1>1. CASE DialOk(c)
  <2>1. /\ pc' = [pc EXCEPT ![c] = "store"] /\ pc[c] = "dial" /\ dials < MaxDials
        /\ dials' = dials + 1 /\ fresh' = [fresh EXCEPT ![c] = dials + 1]
        /\ market' = [market EXCEPT ![dials + 1] = want[c]]
        /\ UNCHANGED <<adapterVars, want, calls, loopVars, over, histVars>>
    BY <1>1 DEF DialOk, Goto
  <2>a. want[c] \in Markets
    BY <2>1
  <2>b. dials + 1 \in 1..MaxDials
    BY <2>1, LunoAssumption
  <2>2. dials + 1 \in Sockets /\ want[c] \in Markets
    BY <2>a, <2>b
  <2>3. /\ market' \in [Sockets -> Markets \cup {None}]
        /\ \A n \in 1..(dials + 1) : market'[n] \in Markets
    BY <2>1, <2>2
  <2>4. fresh' \in [Callers -> Sockets \cup {None}]
    BY <2>1, <2>2
  <2>5. TypeOK'
    BY <2>1, <2>3, <2>4 DEF adapterVars, loopVars
  <2>6. CallsTyped'
    BY <2>1, <2>3 DEF adapterVars, loopVars
  <2> QED
    BY <2>5, <2>6
<1>2. CASE Store(c)
  <2>1. PICK to \in {"authenticate", "spawn"} : Step(c, "store", to)
    BY <1>2 DEF Store
  <2>2. /\ holder = None /\ socket' = fresh[c] /\ over' \subseteq Sockets
        /\ UNCHANGED <<holder, current, subs, calls, loopVars, dials, market, histVars>>
    BY <1>2 DEF Store, Free
  <2>3. fresh[c] \in 1..dials
    BY <2>1, StepTyped
  <2> QED
    BY <2>1, <2>2, <2>3, StepTyped DEF loopVars
<1>3. CASE Authenticate(c)
  <2>1. UNCHANGED <<adapterVars, calls, loopVars, peerVars, histVars>>
    BY <1>3 DEF Authenticate
  <2>2. CASE Step(c, "authenticate", "spawn")
    BY <2>1, <2>2, MovedTyped
  <2>3. CASE Return(c, "authenticate")
    BY <2>1, <2>3, ReturnTyped DEF adapterVars, loopVars, peerVars
  <2> QED
    BY <1>3, <2>2, <2>3 DEF Authenticate
<1>4. CASE Spawn(c)
  <2>1. /\ Step(c, "spawn", "record") /\ fresh[c] \in 1..dials
        /\ loop[fresh[c]] = "none" /\ loop' = [loop EXCEPT ![fresh[c]] = "lock"]
        /\ UNCHANGED <<adapterVars, calls, msg, label, peerVars, histVars>>
    BY <1>4 DEF Spawn, LoopGoto, Step, Goto
  <2>2. /\ pc' = [pc EXCEPT ![c] = "record"] /\ pc[c] = "spawn" /\ UNCHANGED <<want, fresh>>
    BY <2>1 DEF Step, Goto
  <2>3. /\ loop' \in [Sockets -> LoopPlaces]
        /\ \A n \in Sockets :
              loop'[n] # loop[n] => n <= dials /\ loop[n] = "none" /\ loop'[n] = "lock"
    BY <2>1 DEF LoopPlaces
  <2>4. TypeOK'
    BY <2>1, <2>2, <2>3 DEF adapterVars, peerVars, LoopPlaces
  <2>5. CallsTyped'
    BY <2>1, <2>2, <2>3 DEF adapterVars, peerVars
  <2> QED
    BY <2>4, <2>5
<1>5. CASE Record(c)
  <2>1. /\ Return(c, "record") /\ current' = want[c] /\ want[c] \in Markets
        /\ UNCHANGED <<socket, holder, subs, calls, loopVars, peerVars, histVars>>
    BY <1>5 DEF Record, Return, Goto
  <2> QED
    BY <2>1, ReturnTyped DEF loopVars, peerVars
<1> QED
  BY <1>1, <1>2, <1>3, <1>4, <1>5

(* A call that starts.                                                     *)
LEMMA TypeCall ==
    ASSUME TypeInv, NEW c \in Callers, (\E key \in Watched : Watch(c, key)) \/ WsClose(c)
    PROVE  TypeInv'
<1> USE LunoAssumption DEF TypeInv, TypeOK, CallsTyped, Places, Dialed, Sockets, histVars
<1>1. ASSUME NEW key \in Watched, Watch(c, key) PROVE TypeInv'
  <2>1. PICK m \in Markets : m = FormatSymbol[key[2]]
    OBVIOUS
  <2>2. /\ pc' = [pc EXCEPT ![c] = "compare"] /\ want' = [want EXCEPT ![c] = m]
        /\ subs' = subs \cup {key} /\ calls' = calls + 1 /\ calls < MaxCalls
        /\ overlapped' \in BOOLEAN /\ calm' = {}
        /\ UNCHANGED <<socket, holder, current, fresh, loopVars, peerVars>>
    BY <1>1, <2>1 DEF Watch, Goto
  <2>3. subs' \subseteq Watched /\ calls' \in 0..MaxCalls
    BY <2>2
  <2> HIDE DEF Sockets
  <2> QED
    BY <2>2, <2>3 DEF loopVars, peerVars
<1>2. CASE WsClose(c)
  BY <1>2, StepTyped DEF WsClose, adapterVars, loopVars, peerVars
<1> QED
  BY <1>1, <1>2

(* The message loop.                                                       *)
LEMMA TypeLoop ==
    ASSUME TypeInv, NEW n \in Sockets, Turn(n) \/ Frame(n)
    PROVE  TypeInv'
<1> USE LunoAssumption DEF TypeInv, TypeOK, CallsTyped, Places, Dialed, Sockets, histVars
<1>1. CASE LoopLock(n)
  BY <1>1 DEF LoopLock, LoopGoto, Free, callVars, peerVars
<1>2. CASE Pong(n)
  BY <1>2 DEF Pong, LoopGoto, adapterVars, callVars, peerVars
<1>3. CASE Label(n)
  <2>1. CASE /\ current # None /\ LoopGoto(n, "handle", "deliver")
             /\ label' = [label EXCEPT ![n] = current] /\ UNCHANGED <<msg, calm>>
    BY <1>3, <2>1 DEF Label, LoopGoto, adapterVars, callVars, peerVars
  <2>2. CASE /\ LoopGoto(n, "handle", "lock")
             /\ msg' = [msg EXCEPT ![n] = None] /\ UNCHANGED label /\ calm' = calm \ {n}
    BY <1>3, <2>2 DEF Label, LoopGoto, adapterVars, callVars, peerVars
  <2> QED
    BY <1>3, <2>1, <2>2 DEF Label
<1>4. CASE Deliver(n)
  BY <1>4 DEF Deliver, LoopGoto, adapterVars, callVars, peerVars
<1>5. CASE Receive(n)
  <2>1. socket \in 1..dials /\ market[socket] \in Markets
    BY <1>5 DEF Receive, LoopGoto
  <2>2. PICK m \in Messages : msg' = [msg EXCEPT ![n] = m]
    BY <1>5, <2>1 DEF Receive, Messages
  <2>3. calm' \subseteq Sockets
    BY <1>5 DEF Receive
  <2> QED
    BY <1>5, <2>2, <2>3 DEF Receive, LoopGoto, callVars, peerVars
<1>6. CASE ReceivePing(n)
  BY <1>6 DEF ReceivePing, LoopGoto, callVars, peerVars
<1>7. CASE ReceiveOther(n)
  BY <1>7 DEF ReceiveOther, LoopGoto, callVars, peerVars
<1>8. CASE ReceiveEnd(n)
  BY <1>8 DEF ReceiveEnd, LoopGoto, callVars
<1> QED
  BY <1>1, <1>2, <1>3, <1>4, <1>5, <1>6, <1>7, <1>8 DEF Turn, Frame

(* Every step keeps the types.                                             *)
LEMMA TypeStep ==
    ASSUME TypeInv, [Next]_vars
    PROVE  TypeInv'
<1>1. CASE UNCHANGED vars
  BY <1>1
  DEF TypeInv, TypeOK, CallsTyped, vars, adapterVars, callVars, loopVars, peerVars, histVars
<1> QED
  BY <1>1, TypeBefore, TypeAfter, TypeCall, TypeLoop DEF Next, Proceed, Dial

(* The adapter as it is made.                                              *)
LEMMA TypeInit == Init => TypeInv
<1> SUFFICES ASSUME Init PROVE TypeInv
  OBVIOUS
<1>1. 0 \in 0..MaxCalls /\ 0 \in 0..MaxDials /\ \A n \in 1..0 : FALSE
  BY LunoAssumption
<1>2. /\ pc \in [Callers -> Places] /\ want \in [Callers -> Markets \cup {None}]
      /\ fresh \in [Callers -> Sockets \cup {None}] /\ loop \in [Sockets -> LoopPlaces]
      /\ msg \in [Sockets -> Messages \cup {None}] /\ label \in [Sockets -> Markets \cup {None}]
      /\ market \in [Sockets -> Markets \cup {None}]
  BY DEF Init, Places, LoopPlaces
<1>3. /\ \A c \in Callers : pc[c] = "idle"
      /\ \A n \in Sockets : loop[n] = "none"
  BY DEF Init
<1>4. TypeOK
  BY <1>1, <1>2, <1>3 DEF Init, TypeOK, Places, LoopPlaces
<1>5. CallsTyped
  BY <1>1, <1>3 DEF Init, CallsTyped, Dialed
<1> QED
  BY <1>4, <1>5 DEF TypeInv

(* TypeOK: every variable keeps its type; a message has its market and a   *)
(* label before it is delivered.                                           *)
THEOREM TypeCorrect == Spec => []TypeOK
<1>1. TypeInv => TypeOK
  BY DEF TypeInv
<1> QED
  BY <1>1, TypeInit, TypeStep, PTL DEF Spec

(* The invariants so far, as one fact to build on.                         *)
LEMMA TypeInvariant == Spec => []TypeInv
BY TypeInit, TypeStep, PTL DEF Spec

(* What a loop does leaves the calls, the markets and the senders alone,   *)
(* and starts no loop.                                                     *)
LEMMA LoopFrame ==
    ASSUME TypeInv, NEW n \in Sockets, Turn(n) \/ Frame(n)
    PROVE  /\ UNCHANGED <<socket, current, subs, pc, want, fresh, dials, market, overlapped>>
           /\ \A k \in Sockets : loop'[k] = "none" <=> loop[k] = "none"
<1>1. UNCHANGED <<socket, current, subs, pc, want, fresh, dials, market, overlapped>>
  BY DEF Turn, Frame, LoopLock, Pong, Label, Deliver, Receive, ReceivePing, ReceiveOther,
         ReceiveEnd, adapterVars, callVars, peerVars, histVars
<1>2. PICK from, to : from # "none" /\ to # "none" /\ LoopGoto(n, from, to)
  BY DEF Turn, Frame, LoopLock, Pong, Label, Deliver, Receive, ReceivePing, ReceiveOther,
         ReceiveEnd
<1>3. \A k \in Sockets : loop'[k] = "none" <=> loop[k] = "none"
  BY <1>2 DEF LoopGoto, TypeInv, TypeOK
<1> QED
  BY <1>1, <1>3

-----------------------------------------------------------------------------
(* The market of a connection                                              *)

(* A call that has dialed has a connection of the market it wants.         *)
DialedItsMarket == \A c \in Callers : pc[c] \in Dialed => market[fresh[c]] = want[c]

(* Every step of a call keeps it.                                          *)
LEMMA DialedProceed ==
    ASSUME TypeInv, DialedItsMarket, NEW c \in Callers, Dial(c) \/ Proceed(c)
    PROVE  DialedItsMarket'
<1> USE DEF TypeInv, TypeOK, CallsTyped, DialedItsMarket, Dialed, Sockets
<1>1. CASE DialOk(c)
  <2>1. /\ pc' = [pc EXCEPT ![c] = "store"] /\ pc[c] = "dial" /\ dials < MaxDials
        /\ dials' = dials + 1 /\ fresh' = [fresh EXCEPT ![c] = dials + 1]
        /\ market' = [market EXCEPT ![dials + 1] = want[c]]
        /\ UNCHANGED want
    BY <1>1 DEF DialOk, Goto
  <2>2. market'[dials + 1] = want[c] /\ \A n \in 1..dials : market'[n] = market[n]
    BY <2>1, LunoAssumption
  <2> QED
    BY <2>1, <2>2
<1>2. CASE \/ Compare(c) \/ Peek(c) \/ Leave(c) \/ DialFail(c) \/ Store(c) \/ Authenticate(c)
           \/ Spawn(c) \/ Record(c) \/ EndClose(c)
  <2>1. UNCHANGED market
    BY <1>2 DEF Compare, Peek, Leave, DialFail, Store, Authenticate, Spawn, Record, EndClose,
                peerVars
  <2>2. \A d \in Callers :
           pc'[d] \in Dialed => pc[d] \in Dialed /\ want'[d] = want[d] /\ fresh'[d] = fresh[d]
    BY <1>2 DEF Compare, Peek, Leave, DialFail, Store, Authenticate, Spawn, Record, EndClose,
                Step, Return, Goto
  <2> QED
    BY <2>1, <2>2
<1> QED
  BY <1>1, <1>2 DEF Proceed, Dial

(* Every step keeps it.                                                    *)
LEMMA DialedStep ==
    ASSUME TypeInv, DialedItsMarket, [Next]_vars
    PROVE  DialedItsMarket'
<1> USE DEF TypeInv, TypeOK, DialedItsMarket, Dialed
<1>1. ASSUME NEW c \in Callers, NEW key \in Watched, Watch(c, key) PROVE DialedItsMarket'
  BY <1>1 DEF Watch, Goto, peerVars
<1>2. ASSUME NEW c \in Callers, WsClose(c) PROVE DialedItsMarket'
  BY <1>2 DEF WsClose, Step, Goto, peerVars
<1>3. ASSUME NEW n \in Sockets, Turn(n) \/ Frame(n) PROVE DialedItsMarket'
  BY <1>3, LoopFrame
<1>4. CASE UNCHANGED vars
  BY <1>4 DEF vars, callVars, peerVars
<1> QED
  BY <1>1, <1>2, <1>3, <1>4, DialedProceed DEF Next

-----------------------------------------------------------------------------
(* The current market                                                      *)

(* As long as no two calls overlap: at most one is under way, the socket   *)
(* it has put in place is the one it dialed and has no loop until the call *)
(* starts it, and then the market is the next thing the call records.      *)
CurrentInv ==
    ~overlapped =>
        /\ \A c, d \in Callers : pc[c] # "idle" /\ pc[d] # "idle" => c = d
        /\ \A c \in Callers : pc[c] \in {"authenticate", "spawn", "record"} => socket = fresh[c]
        /\ \A c \in Callers :
              pc[c] \in {"store", "authenticate", "spawn"} => loop[fresh[c]] = "none"
        /\ \A c \in Callers : pc[c] = "dial" => socket = None
        /\ socket # None /\ loop[socket] # "none" =>
              market[socket] = current \/ \E c \in Callers : pc[c] = "record"

(* Every step of a call keeps it.                                          *)
LEMMA CurrentProceed ==
    ASSUME TypeInv, DialedItsMarket, CurrentInv, NEW c \in Callers, Dial(c) \/ Proceed(c)
    PROVE  CurrentInv'
<1> SUFFICES ASSUME ~overlapped PROVE CurrentInv'
  BY DEF CurrentInv, Dial, Proceed, Compare, Peek, Leave, DialOk, DialFail, Store, Authenticate,
         Spawn, Record, EndClose, histVars
<1> USE DEF TypeInv, TypeOK, CallsTyped, CurrentInv, Dialed, Sockets, Goto
<1>1. CASE Compare(c) \/ Peek(c) \/ Authenticate(c)
  <2>1. UNCHANGED <<socket, current, loop, market>>
    BY <1>1 DEF Compare, Peek, Authenticate, adapterVars, loopVars, peerVars
  <2>2. /\ pc[c] \notin {"idle", "record"}
        /\ pc'[c] \in {"idle", "peek", "leave", "dial", "spawn"}
        /\ pc'[c] = "spawn" => pc[c] = "authenticate" /\ fresh'[c] = fresh[c]
        /\ pc'[c] = "dial" => socket = None
        /\ \A d \in Callers \ {c} : pc'[d] = pc[d]
    BY <1>1 DEF Compare, Peek, Authenticate, Step, Return
  <2> QED
    BY <2>1, <2>2
<1>2. CASE Leave(c) \/ EndClose(c)
  <2>1. socket' \in {socket, None} /\ UNCHANGED <<current, loop, market>>
    BY <1>2 DEF Leave, EndClose, Closed, CloseFailed, loopVars
  <2>2. /\ pc[c] \in {"leave", "closing"}
        /\ pc'[c] \in {"idle", "dial"} /\ (pc'[c] = "dial" => socket' = None)
        /\ \A d \in Callers \ {c} : pc'[d] = pc[d]
    BY <1>2 DEF Leave, EndClose, Closed, Step, Return
  <2> QED
    BY <2>1, <2>2
<1>3. CASE DialFail(c)
  BY <1>3 DEF DialFail, Return, adapterVars, loopVars, peerVars
<1>4. CASE DialOk(c)
  <2>1. /\ pc' = [pc EXCEPT ![c] = "store"] /\ pc[c] = "dial" /\ dials < MaxDials
        /\ fresh' = [fresh EXCEPT ![c] = dials + 1]
        /\ UNCHANGED <<socket, loop, current>>
    BY <1>4 DEF DialOk, adapterVars, loopVars
  <2>2. dials + 1 \in Sockets /\ loop[dials + 1] = "none" /\ socket = None
    BY <2>1, LunoAssumption
  <2> QED
    BY <2>1, <2>2
<1>5. CASE Store(c)
  <2>1. /\ pc[c] = "store" /\ socket' = fresh[c] /\ loop[fresh[c]] = "none"
        /\ UNCHANGED <<loop, fresh, market, current>>
        /\ pc' = [pc EXCEPT ![c] = "authenticate"] \/ pc' = [pc EXCEPT ![c] = "spawn"]
    BY <1>5 DEF Store, Step, loopVars
  <2> QED
    BY <2>1
<1>6. CASE Spawn(c)
  <2>1. /\ pc[c] = "spawn" /\ pc' = [pc EXCEPT ![c] = "record"] /\ socket = fresh[c]
        /\ UNCHANGED <<socket, fresh, market, current>>
    BY <1>6 DEF Spawn, Step, adapterVars, peerVars
  <2> QED
    BY <2>1
<1>7. CASE Record(c)
  <2>1. /\ pc[c] = "record" /\ pc' = [pc EXCEPT ![c] = "idle"] /\ current' = want[c]
        /\ UNCHANGED <<socket, loop, market>>
    BY <1>7 DEF Record, Return, loopVars, peerVars
  <2>2. market[socket] = want[c]
    BY <2>1 DEF DialedItsMarket
  <2>3. \A d \in Callers : pc'[d] = "idle"
    BY <2>1
  <2> QED
    BY <2>1, <2>2, <2>3
<1> QED
  BY <1>1, <1>2, <1>3, <1>4, <1>5, <1>6, <1>7 DEF Proceed, Dial

(* Every step keeps it.                                                    *)
LEMMA CurrentStep ==
    ASSUME TypeInv, DialedItsMarket, CurrentInv, [Next]_vars
    PROVE  CurrentInv'
<1> USE DEF TypeInv, TypeOK, CurrentInv
<1>1. ASSUME NEW c \in Callers, NEW key \in Watched, Watch(c, key) PROVE CurrentInv'
  <2>1. /\ pc' = [pc EXCEPT ![c] = "compare"]
        /\ overlapped' = (overlapped \/ \E d \in Callers \ {c} : pc[d] # "idle")
        /\ pc[c] = "idle" /\ UNCHANGED <<socket, current, fresh, loop, market>>
    BY <1>1 DEF Watch, Goto, loopVars, peerVars
  <2> QED
    BY <2>1
<1>2. ASSUME NEW c \in Callers, WsClose(c) PROVE CurrentInv'
  <2>1. /\ pc' = [pc EXCEPT ![c] = "closing"] /\ \A d \in Callers : pc[d] = "idle"
        /\ UNCHANGED <<socket, current, fresh, loop, market, overlapped>>
    BY <1>2 DEF WsClose, Step, Goto, adapterVars, loopVars, peerVars
  <2> QED
    BY <2>1
<1>3. ASSUME NEW n \in Sockets, Turn(n) \/ Frame(n) PROVE CurrentInv'
  <2>1. /\ UNCHANGED <<socket, current, pc, fresh, market, overlapped>>
        /\ \A k \in Sockets : loop'[k] = "none" <=> loop[k] = "none"
    BY <1>3, LoopFrame
  <2>2. \A c \in Callers : pc[c] \in {"store", "authenticate", "spawn"} => fresh[c] \in Sockets
    BY LunoAssumption DEF CallsTyped, Dialed, Sockets
  <2> QED
    BY <2>1, <2>2
<1>4. CASE UNCHANGED vars
  BY <1>4 DEF vars, adapterVars, callVars, loopVars, peerVars, histVars
<1> QED
  BY <1>1, <1>2, <1>3, <1>4, CurrentProceed DEF Next

(* The invariants so far, as one fact to build on.                         *)
LEMMA CurrentInvariant == Spec => []CurrentInv
<1>1. Init => DialedItsMarket /\ CurrentInv
  BY DEF Init, DialedItsMarket, Dialed, CurrentInv
<1> QED
  BY <1>1, TypeInvariant, DialedStep, CurrentStep, PTL DEF Spec

(* SocketServesCurrent: between watch_* calls that do not overlap, a       *)
(* socket with a loop is one of current_market.                            *)
THEOREM SocketServesCurrentHolds == Spec => []SocketServesCurrent
<1>1. CurrentInv => SocketServesCurrent
  BY DEF CurrentInv, SocketServesCurrent, Quiescent
<1> QED
  BY <1>1, CurrentInvariant, PTL

-----------------------------------------------------------------------------
(* Messages                                                                *)

(* A message read while no call was under way is of the current market and *)
(* is labelled with it, for whoever changes the market is a call.          *)
CalmInv ==
    calm # {} =>
        /\ Quiescent
        /\ ~overlapped =>
              \A n \in calm :
                 /\ loop[n] \in {"handle", "deliver"}
                 /\ msg[n].market = current
                 /\ loop[n] = "deliver" => label[n] = current

(* The steps of a loop keep it.                                            *)
LEMMA CalmLoop ==
    ASSUME TypeInv, CurrentInv, CalmInv, NEW n \in Sockets, Turn(n) \/ Frame(n)
    PROVE  CalmInv'
<1>1. UNCHANGED <<socket, current, pc, market, overlapped>>
  BY LoopFrame
<1>2. Quiescent' <=> Quiescent
  BY <1>1 DEF Quiescent
<1> USE DEF CalmInv, TypeInv, TypeOK
<1>3. CASE \/ LoopLock(n) \/ Pong(n) \/ ReceivePing(n) \/ ReceiveEnd(n) \/ ReceiveOther(n)
  <2>1. /\ loop[n] \notin {"handle", "deliver"} /\ UNCHANGED <<msg, label, calm>>
        /\ \A k \in Sockets \ {n} : loop'[k] = loop[k]
    BY <1>3 DEF LoopLock, Pong, ReceivePing, ReceiveEnd, ReceiveOther, LoopGoto, histVars
  <2> QED
    BY <1>1, <1>2, <2>1
<1>4. CASE Label(n)
  <2>1. CASE /\ LoopGoto(n, "handle", "deliver")
             /\ label' = [label EXCEPT ![n] = current] /\ UNCHANGED <<msg, calm>>
    BY <1>1, <1>2, <2>1 DEF LoopGoto
  <2>2. CASE /\ LoopGoto(n, "handle", "lock")
             /\ msg' = [msg EXCEPT ![n] = None] /\ calm' = calm \ {n} /\ UNCHANGED label
    BY <1>1, <1>2, <2>2 DEF LoopGoto
  <2> QED
    BY <1>4, <2>1, <2>2 DEF Label
<1>5. CASE Deliver(n)
  BY <1>1, <1>2, <1>5 DEF Deliver, LoopGoto
<1>6. CASE Receive(n)
  <2>1. /\ loop[n] = "waiting" /\ loop' = [loop EXCEPT ![n] = "handle"] /\ UNCHANGED label
        /\ msg'[n].market = market[socket] /\ \A k \in Sockets \ {n} : msg'[k] = msg[k]
    BY <1>6 DEF Receive, LoopGoto
  <2>2. CASE Quiescent /\ loop[socket] # "none"
    <3>1. ~overlapped => market[socket] = current
      BY <1>6, <2>2 DEF CurrentInv, Quiescent, CallsTyped, Receive, LoopGoto
    <3>2. calm' = calm \cup {n}
      BY <1>6, <2>2 DEF Receive
    <3> QED
      BY <1>1, <1>2, <2>1, <2>2, <3>1, <3>2
  <2>3. CASE ~(Quiescent /\ loop[socket] # "none")
    <3>1. UNCHANGED calm
      BY <1>6, <2>3 DEF Receive
    <3> QED
      BY <1>1, <1>2, <2>1, <3>1
  <2> QED
    BY <2>2, <2>3
<1> QED
  BY <1>3, <1>4, <1>5, <1>6 DEF Turn, Frame

(* Every step keeps it: a call that begins leaves no calm message behind,  *)
(* and while one is under way there are none.                              *)
LEMMA CalmStep ==
    ASSUME TypeInv, CurrentInv, CalmInv, [Next]_vars
    PROVE  CalmInv'
<1>1. ASSUME NEW c \in Callers, \/ \E key \in Watched : Watch(c, key)
                                \/ WsClose(c)
      PROVE  CalmInv'
  BY <1>1 DEF Watch, WsClose, CalmInv
<1>2. ASSUME NEW c \in Callers, Dial(c) \/ Proceed(c) PROVE CalmInv'
  <2>1. pc[c] # "idle"
    BY <1>2 DEF Dial, Proceed, DialOk, DialFail, Compare, Peek, Leave, Store, Authenticate, Spawn,
                Record, EndClose, Step, Return, Goto
  <2>2. calm = {}
    BY <2>1 DEF CalmInv, Quiescent
  <2>3. UNCHANGED calm
    BY <1>2 DEF Dial, Proceed, DialOk, DialFail, Compare, Peek, Leave, Store, Authenticate, Spawn,
                Record, EndClose, histVars
  <2> QED
    BY <2>2, <2>3 DEF CalmInv
<1>3. ASSUME NEW n \in Sockets, Turn(n) \/ Frame(n) PROVE CalmInv'
  BY <1>3, CalmLoop
<1>4. CASE UNCHANGED vars
  BY <1>4 DEF CalmInv, Quiescent, vars, adapterVars, callVars, loopVars, histVars
<1> QED
  BY <1>1, <1>2, <1>3, <1>4 DEF Next

(* What a label that is right leads to: the sender under the name the      *)
(* market converts to, which are all the names that come back.             *)
LEMMA RightLabel ==
    ASSUME TypeInv, NEW n \in Sockets, msg[n] \in Messages, label[n] = msg[n].market
    PROVE  Recipients(n) = Watchers(msg[n])
<1> DEFINE m == msg[n]
           s == ParseSymbol[m.market]
<1>1. /\ m.market \in Markets /\ subs \subseteq Channels \X Symbols /\ s \in Symbols
  BY LunoAssumption DEF Messages, TypeInv, TypeOK
<1>2. FormatSymbol[s] = m.market /\ ConvertsBack(s)
  BY <1>1, MarketAssumption DEF ConvertsBack
<1>3. \A key \in subs : key = <<key[1], key[2]>> /\ key[2] \in Symbols
  BY <1>1
<1>4. \A key \in subs : key = <<m.channel, s>> <=> key \in Watchers(m)
  BY <1>2, <1>3 DEF Watchers, ConvertsBack
<1>5. Recipients(n) = subs \cap {<<m.channel, s>>} /\ Watchers(m) \subseteq subs
  BY DEF Recipients, Watchers
<1> HIDE DEF m, s
<1> QED
  BY <1>4, <1>5 DEF m

(* MessagesReachWatchers: a message read and handled between calls that do *)
(* not overlap goes to those who watch its channel and its market under a  *)
(* name that converts back, and to nobody else.                            *)
THEOREM MessagesReachWatchersHolds == Spec => []MessagesReachWatchers
<1>1. Init => CalmInv
  BY DEF Init, CalmInv
<1>2. TypeInv /\ CalmInv => MessagesReachWatchers
  <2> SUFFICES ASSUME TypeInv, CalmInv, ~overlapped, NEW n \in calm
               PROVE  /\ loop[n] = "handle" => current # None
                      /\ loop[n] = "deliver" => Recipients(n) = Watchers(msg[n])
    BY DEF MessagesReachWatchers
  <2>1. /\ n \in Sockets /\ msg[n] \in Messages /\ msg[n].market = current
        /\ loop[n] = "deliver" => label[n] = current
    BY DEF CalmInv, TypeInv, TypeOK
  <2>2. current # None
    BY <2>1, LunoAssumption DEF Messages
  <2> QED
    BY <2>1, <2>2, RightLabel
<1> QED
  BY <1>1, <1>2, TypeInvariant, CurrentInvariant, CalmStep, PTL DEF Spec
=============================================================================
