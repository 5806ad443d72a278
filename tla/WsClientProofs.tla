---------------------------- MODULE WsClientProofs ----------------------------
(***************************************************************************)
(* What WsClient guarantees for every number of tasks, callers, keys and   *)
(* configurations.                                                         *)
(***************************************************************************)
EXTENDS WsClientProperties, TLAPS

USE DEF Phases, ConnectionState, EventKinds, Event

(* Commands of a key are commands.                                         *)
LEMMA CommandsTyped ==
    /\ CloseCmd \in Commands
    /\ \A k \in Keys : Sub(k) \in Commands /\ Unsub(k) \in Commands
  BY DEF CloseCmd, Sub, Unsub, Commands

(* The fields of a configuration.                                          *)
LEMMA ConfigTyped ==
    ASSUME TypeOK
    PROVE  /\ config.enabled \in BOOLEAN
           /\ config.auto_reconnect \in BOOLEAN
           /\ config.max_attempts \in Nat
           /\ config.max_reconnect_attempts \in Nat
           /\ config.health_check \in BOOLEAN
           /\ config.max_missed_pongs \in Nat
           /\ MaxAttempts \in Nat
  BY ConfigsAssumption DEF TypeOK, MaxAttempts

(* Sending keeps the queues typed.                                         *)
LEMMA EnqueueTyped ==
    ASSUME queue \in [Loops -> Seq(Commands)], owner \in Loops \cup {NoLoop},
           NEW cmd \in Commands, Enqueue(cmd)
    PROVE  queue' \in [Loops -> Seq(Commands)]
<1>1. CASE owner = NoLoop
  BY <1>1 DEF Enqueue
<1>2. CASE owner # NoLoop
  <2>1. queue[owner] \in Seq(Commands)
    BY <1>2
  <2>2. Append(queue[owner], cmd) \in Seq(Commands)
    BY <2>1
  <2>3. queue' = [queue EXCEPT ![owner] = Append(queue[owner], cmd)]
    BY <1>2 DEF Enqueue
  <2> QED
    BY <2>2, <2>3
<1> QED
  BY <1>1, <1>2

(* The handle's methods keep the types. *)
LEMMA HandleKeepsTypes ==
    ASSUME TypeOK, Handle
    PROVE  TypeOK'
<1> USE KeysAssumption DEF TypeOK, peerVars, raceVars, locals, handleVars
<1>1. ASSUME NEW l \in Loops, Connect(l) PROVE TypeOK'
  BY <1>1 DEF Connect
<1>2. CASE DropHandle
  BY <1>2 DEF DropHandle
<1>3. ASSUME NEW cmd \in Commands, Enqueue(cmd)
      PROVE  queue' \in [Loops -> Seq(Commands)]
  BY <1>3, EnqueueTyped
<1>4. ASSUME NEW k \in RawKeys, Send(k) PROVE TypeOK'
  BY <1>3, <1>4, CommandsTyped DEF Send
<1>5. ASSUME NEW c \in Callers, NEW k \in Touches[c], SubscribeSend(c, k) PROVE TypeOK'
  BY <1>3, <1>5, CommandsTyped DEF SubscribeSend
<1>6. ASSUME NEW c \in Callers, SubscribeInsert(c) PROVE TypeOK'
  BY <1>6 DEF SubscribeInsert
<1>7. ASSUME NEW c \in Callers, NEW k \in Touches[c], Unsubscribe(c, k) PROVE TypeOK'
  BY <1>3, <1>7, CommandsTyped DEF Unsubscribe
<1>8. CASE Close
  BY <1>3, <1>8, CommandsTyped DEF Close
<1> QED
  BY <1>1, <1>2, <1>4, <1>5, <1>6, <1>7, <1>8 DEF Handle

(* The steps of a task and of its peer keep the types. *)
LEMMA TaskKeepsTypes ==
    ASSUME TypeOK, NEW l \in Loops, ConnectionLoop(l) \/ LinkDown(l)
    PROVE  TypeOK'
<1> USE DEF TypeOK, peerVars, raceVars, locals, handleVars, Goto
<1>1. CASE BeginDial(l)
  BY <1>1 DEF BeginDial
<1>2. CASE DialOk(l)
  BY <1>2 DEF DialOk, Announcement
<1>3. CASE PublishConnected(l)
  BY <1>3 DEF PublishConnected
<1>4. CASE DialFail(l)
  BY <1>4 DEF DialFail
<1>5. CASE RestoreBegin(l)
  BY <1>5 DEF RestoreBegin
<1>6. ASSUME NEW k \in Keys, RestoreSend(l, k) PROVE TypeOK'
  BY <1>6 DEF RestoreSend, Served
<1>7. CASE RestoreEnd(l)
  BY <1>7 DEF RestoreEnd
<1>8. CASE ReadPong(l)
  BY <1>8 DEF ReadPong
<1>9. CASE ReadEnd(l)
  BY <1>9 DEF ReadEnd
<1>10. CASE CmdSend(l)
  <2>1. /\ queue[l] \in Seq(Commands)
        /\ Tail(queue[l]) \in Seq(Commands)
        /\ Head(queue[l]) \in Commands
    BY <1>10 DEF CmdSend
  <2>2. Head(queue[l]).key \in Keys
    BY <1>10, <2>1 DEF CmdSend, Commands, CloseCmd
  <2>3. srv' \in [Loops -> SUBSET Keys]
    BY <1>10, <2>2 DEF CmdSend, Served
  <2>4. queue' \in [Loops -> Seq(Commands)]
    BY <1>10, <2>1 DEF CmdSend
  <2>5. pc' \in [Loops -> Phases]
    BY <1>10 DEF CmdSend, Written
  <2> QED
    BY <1>10, <2>3, <2>4, <2>5 DEF CmdSend
<1>11. CASE CmdClose(l)
  BY <1>11 DEF CmdClose
<1>12. CASE CmdNone(l)
  BY <1>12 DEF CmdNone
<1>13. CASE PingTick(l)
  <2>1. pc' \in [Loops -> Phases]
    BY <1>13 DEF PingTick, Written
  <2>2. missed' \in [Loops -> Nat]
    <3>1. CASE missed' = missed
      BY <3>1
    <3>2. CASE missed' = [missed EXCEPT ![l] = @ + 1]
      BY <3>2
    <3> QED
      BY <1>13, <3>1, <3>2 DEF PingTick, Written
  <2>3. unanswered' \in [Loops -> Nat]
    <3>1. CASE unanswered' = unanswered
      BY <3>1
    <3>2. CASE unanswered' = [unanswered EXCEPT ![l] = @ + 1]
      BY <3>2
    <3> QED
      BY <1>13, <3>1, <3>2 DEF PingTick, Written
  <2>4. evt' \in [Loops -> [kind : EventKinds, n : Nat]]
    <3>1. CASE evt' = evt
      BY <3>1
    <3>2. CASE evt' = [evt EXCEPT ![l] = Event("Error", 0)]
      BY <3>2
    <3> QED
      BY <1>13, <3>1, <3>2 DEF PingTick, Written
  <2> QED
    BY <1>13, <2>1, <2>2, <2>3, <2>4 DEF PingTick
<1>14. CASE PublishDisconnected(l)
  BY <1>14 DEF PublishDisconnected
<1>15. CASE Retry(l)
  BY <1>15 DEF Retry, NextAttempt
<1>16. CASE PublishReconnecting(l)
  BY <1>16 DEF PublishReconnecting
<1>17. CASE Wake(l)
  BY <1>17 DEF Wake
<1>18. CASE GiveUp(l)
  BY <1>18 DEF GiveUp
<1>19. CASE LinkDown(l)
  BY <1>19 DEF LinkDown
<1> QED
  BY <1>1, <1>2, <1>3, <1>4, <1>5, <1>6, <1>7, <1>8, <1>9, <1>10, <1>11, <1>12,
     <1>13, <1>14, <1>15, <1>16, <1>17, <1>18, <1>19 DEF ConnectionLoop

(* The initial state is typed.                                             *)
LEMMA InitTyped == Init => TypeOK
<1> SUFFICES ASSUME Init PROVE TypeOK
  OBVIOUS
<1>1. queue \in [Loops -> Seq(Commands)]
  BY DEF Init
<1>2. evt \in [Loops -> [kind : EventKinds, n : Nat]]
  BY DEF Init
<1> QED
  BY <1>1, <1>2 DEF Init, TypeOK

(* Every variable keeps its type in every reachable state.  This is the    *)
(* invariant the other theorems rest on.                                   *)
THEOREM TypeCorrect == Spec => []TypeOK
<1>1. Init => TypeOK
  BY InitTyped
<1>2. TypeOK /\ [Next]_vars => TypeOK'
  <2> SUFFICES ASSUME TypeOK, [Next]_vars PROVE TypeOK'
    OBVIOUS
  <2>1. CASE UNCHANGED vars
    BY <2>1 DEF TypeOK, vars, handleVars, locals, peerVars, raceVars
  <2> QED
    BY <2>1, HandleKeepsTypes, TaskKeepsTypes DEF Next
<1> QED
  BY <1>1, <1>2, PTL DEF Spec
-----------------------------------------------------------------------------
(* The published state                                                     *)

(* A task moves its own phase only.  It never leaves Published without     *)
(* overwriting the state, and writes Connected only on entering it.        *)
LEMMA PhaseAndState ==
    ASSUME TypeOK, NEW l \in Loops, ConnectionLoop(l) \/ LinkDown(l)
    PROVE  /\ pc' = [pc EXCEPT ![l] = pc'[l]]
           /\ pc[l] \in Published /\ pc'[l] \notin Published => cstate' # "Connected"
           /\ cstate' = "Connected" => cstate = "Connected" \/ pc'[l] \in Published
<1> pc \in [Loops -> Phases]
  BY DEF TypeOK
<1> USE DEF Published, Goto, locals
<1>1. CASE BeginDial(l)
  BY <1>1 DEF BeginDial
<1>2. CASE DialOk(l)
  BY <1>2 DEF DialOk, Announcement
<1>3. CASE PublishConnected(l)
  BY <1>3 DEF PublishConnected
<1>4. CASE DialFail(l)
  BY <1>4 DEF DialFail
<1>5. CASE RestoreBegin(l)
  BY <1>5 DEF RestoreBegin
<1>6. CASE \E k \in Keys : RestoreSend(l, k)
  BY <1>6 DEF RestoreSend
<1>7. CASE RestoreEnd(l)
  BY <1>7 DEF RestoreEnd
<1>8. CASE ReadPong(l)
  BY <1>8 DEF ReadPong
<1>9. CASE ReadEnd(l)
  BY <1>9 DEF ReadEnd
<1>10. CASE CmdSend(l)
  BY <1>10 DEF CmdSend, Written
<1>11. CASE CmdClose(l)
  BY <1>11 DEF CmdClose
<1>12. CASE CmdNone(l)
  BY <1>12 DEF CmdNone
<1>13. CASE PingTick(l)
  BY <1>13 DEF PingTick, Written
<1>14. CASE PublishDisconnected(l)
  BY <1>14 DEF PublishDisconnected
<1>15. CASE Retry(l)
  BY <1>15 DEF Retry, NextAttempt
<1>16. CASE PublishReconnecting(l)
  BY <1>16 DEF PublishReconnecting
<1>17. CASE Wake(l)
  BY <1>17 DEF Wake
<1>18. CASE GiveUp(l)
  BY <1>18 DEF GiveUp
<1>19. CASE LinkDown(l)
  BY <1>19 DEF LinkDown
<1> QED
  BY <1>1, <1>2, <1>3, <1>4, <1>5, <1>6, <1>7, <1>8, <1>9, <1>10, <1>11, <1>12,
     <1>13, <1>14, <1>15, <1>16, <1>17, <1>18, <1>19 DEF ConnectionLoop

(* state() answers Connected only while some task is in a session it has   *)
(* announced, for any number of connect() calls and live tasks.            *)
THEOREM ConnectedMeansSessionHolds == Spec => []ConnectedMeansSession
<1>1. Init => ConnectedMeansSession
  BY DEF Init, ConnectedMeansSession
<1>2. TypeOK /\ ConnectedMeansSession /\ [Next]_vars => ConnectedMeansSession'
  <2> SUFFICES ASSUME TypeOK, ConnectedMeansSession, [Next]_vars,
                      cstate' = "Connected"
               PROVE  \E m \in Loops : pc'[m] \in Published
    BY DEF ConnectedMeansSession
  <2>1. ASSUME NEW l \in Loops, ConnectionLoop(l) \/ LinkDown(l)
        PROVE  \E m \in Loops : pc'[m] \in Published
    <3>1. CASE pc'[l] \in Published
      BY <3>1
    <3>2. CASE pc'[l] \notin Published
      <4>1. cstate = "Connected" /\ pc[l] \notin Published
        BY <2>1, <3>2, PhaseAndState
      <4>2. PICK m \in Loops : pc[m] \in Published
        BY <4>1 DEF ConnectedMeansSession
      <4>3. pc'[m] = pc[m]
        BY <2>1, <4>1, <4>2, PhaseAndState DEF TypeOK
      <4> QED
        BY <4>2, <4>3
    <3> QED
      BY <3>1, <3>2
  <2>2. CASE Handle
    <3>1. cstate' = cstate /\ \A m \in Loops : pc[m] \in Published => pc'[m] = pc[m]
      BY <2>2 DEF Handle, Connect, DropHandle, Send, SubscribeSend, SubscribeInsert,
                  Unsubscribe, Close, TypeOK, Published
    <3> QED
      BY <3>1 DEF ConnectedMeansSession
  <2>3. CASE UNCHANGED vars
    BY <2>3 DEF vars, ConnectedMeansSession
  <2> QED
    BY <2>1, <2>2, <2>3 DEF Next
<1> QED
  BY <1>1, <1>2, TypeCorrect, PTL DEF Spec

-----------------------------------------------------------------------------
(* The health check                                                        *)

(* No step of a task counts a miss without a ping that was not answered.   *)
LEMMA TaskKeepsMissesCovered ==
    ASSUME TypeOK, MissesCovered, NEW l \in Loops, ConnectionLoop(l) \/ LinkDown(l)
    PROVE  MissesCovered'
<1> USE DEF MissesCovered, TypeOK, Goto, locals, peerVars
<1>1. CASE BeginDial(l)
  BY <1>1 DEF BeginDial
<1>2. CASE DialOk(l)
  BY <1>2 DEF DialOk, Announcement
<1>3. CASE PublishConnected(l)
  BY <1>3 DEF PublishConnected
<1>4. CASE DialFail(l)
  BY <1>4 DEF DialFail
<1>5. CASE RestoreBegin(l)
  BY <1>5 DEF RestoreBegin
<1>6. CASE \E k \in Keys : RestoreSend(l, k)
  BY <1>6 DEF RestoreSend
<1>7. CASE RestoreEnd(l)
  BY <1>7 DEF RestoreEnd
<1>8. CASE ReadPong(l)
  BY <1>8 DEF ReadPong
<1>9. CASE ReadEnd(l)
  BY <1>9 DEF ReadEnd
<1>10. CASE CmdSend(l)
  BY <1>10 DEF CmdSend, Written
<1>11. CASE CmdClose(l)
  BY <1>11 DEF CmdClose
<1>12. CASE CmdNone(l)
  BY <1>12 DEF CmdNone
<1>13. CASE PingTick(l)
  BY <1>13 DEF PingTick, Written
<1>14. CASE PublishDisconnected(l)
  BY <1>14 DEF PublishDisconnected
<1>15. CASE Retry(l)
  BY <1>15 DEF Retry, NextAttempt
<1>16. CASE PublishReconnecting(l)
  BY <1>16 DEF PublishReconnecting
<1>17. CASE Wake(l)
  BY <1>17 DEF Wake
<1>18. CASE GiveUp(l)
  BY <1>18 DEF GiveUp
<1>19. CASE LinkDown(l)
  BY <1>19 DEF LinkDown
<1> QED
  BY <1>1, <1>2, <1>3, <1>4, <1>5, <1>6, <1>7, <1>8, <1>9, <1>10, <1>11, <1>12,
     <1>13, <1>14, <1>15, <1>16, <1>17, <1>18, <1>19 DEF ConnectionLoop

(* A session ended by the health check has missed max_missed_pongs - 1     *)
(* pings of its own, whatever happened in the sessions before it.          *)
THEOREM HealthFailureNeedsSilenceHolds == Spec => []HealthFailureNeedsSilence
<1>1. Init => MissesCovered
  BY DEF Init, MissesCovered
<1>2. TypeOK /\ MissesCovered /\ [Next]_vars => MissesCovered'
  <2> SUFFICES ASSUME TypeOK, MissesCovered, [Next]_vars PROVE MissesCovered'
    OBVIOUS
  <2>1. CASE Handle
    BY <2>1 DEF Handle, Connect, DropHandle, Send, SubscribeSend, SubscribeInsert,
                Unsubscribe, Close, TypeOK, MissesCovered, locals, peerVars
  <2>2. CASE UNCHANGED vars
    BY <2>2 DEF vars, MissesCovered, locals, peerVars
  <2> QED
    BY <2>1, <2>2, TaskKeepsMissesCovered DEF Next
<1>3. TypeOK /\ MissesCovered => HealthFailureNeedsSilence
  <2> SUFFICES ASSUME TypeOK, MissesCovered, NEW l \in Loops, HealthFailed(l)
               PROVE  unanswered[l] + 1 >= config.max_missed_pongs
    BY DEF HealthFailureNeedsSilence
  <2>1. missed[l] <= unanswered[l] + 1
    BY DEF MissesCovered, HealthFailed
  <2>2. missed[l] \in Nat /\ unanswered[l] \in Nat
    BY DEF TypeOK
  <2>3. config.max_missed_pongs \in Nat
    BY ConfigTyped DEF TypeOK
  <2> QED
    BY <2>1, <2>2, <2>3 DEF HealthFailed
<1> QED
  BY <1>1, <1>2, <1>3, TypeCorrect, PTL DEF Spec

-----------------------------------------------------------------------------
(* Reconnection                                                            *)

(* What the steps of a task leave alone.                                   *)
LEMMA TaskKeepsBirths ==
    ASSUME TypeOK, NEW l \in Loops, ConnectionLoop(l) \/ LinkDown(l)
    PROVE  /\ \A m \in Loops : Born(m)' <=> Born(m)
           /\ OneLoop' <=> OneLoop
           /\ MaxAttempts' = MaxAttempts /\ (ReconnectEnabled' <=> ReconnectEnabled)
<1> pc \in [Loops -> Phases]
  BY DEF TypeOK
<1> USE DEF Born, OneLoop, Goto, MaxAttempts, ReconnectEnabled
<1>1. CASE BeginDial(l)
  BY <1>1 DEF BeginDial
<1>2. CASE DialOk(l)
  BY <1>2 DEF DialOk, Announcement
<1>3. CASE PublishConnected(l)
  BY <1>3 DEF PublishConnected
<1>4. CASE DialFail(l)
  BY <1>4 DEF DialFail
<1>5. CASE RestoreBegin(l)
  BY <1>5 DEF RestoreBegin
<1>6. CASE \E k \in Keys : RestoreSend(l, k)
  BY <1>6 DEF RestoreSend
<1>7. CASE RestoreEnd(l)
  BY <1>7 DEF RestoreEnd
<1>8. CASE ReadPong(l)
  BY <1>8 DEF ReadPong
<1>9. CASE ReadEnd(l)
  BY <1>9 DEF ReadEnd
<1>10. CASE CmdSend(l)
  BY <1>10 DEF CmdSend, Written
<1>11. CASE CmdClose(l)
  BY <1>11 DEF CmdClose
<1>12. CASE CmdNone(l)
  BY <1>12 DEF CmdNone
<1>13. CASE PingTick(l)
  BY <1>13 DEF PingTick, Written
<1>14. CASE PublishDisconnected(l)
  BY <1>14 DEF PublishDisconnected
<1>15. CASE Retry(l)
  BY <1>15 DEF Retry, NextAttempt
<1>16. CASE PublishReconnecting(l)
  BY <1>16 DEF PublishReconnecting
<1>17. CASE Wake(l)
  BY <1>17 DEF Wake
<1>18. CASE GiveUp(l)
  BY <1>18 DEF GiveUp
<1>19. CASE LinkDown(l)
  BY <1>19 DEF LinkDown
<1> QED
  BY <1>1, <1>2, <1>3, <1>4, <1>5, <1>6, <1>7, <1>8, <1>9, <1>10, <1>11, <1>12,
     <1>13, <1>14, <1>15, <1>16, <1>17, <1>18, <1>19 DEF ConnectionLoop

(* No step of a task counts a failure twice.                               *)
LEMMA TaskKeepsFailuresCovered ==
    ASSUME TypeOK, FailuresCovered, NEW l \in Loops, ConnectionLoop(l) \/ LinkDown(l)
    PROVE  FailuresCovered'
<1>0. /\ \A m \in Loops : Born(m)' <=> Born(m)
      /\ OneLoop' <=> OneLoop
      /\ MaxAttempts' = MaxAttempts /\ (ReconnectEnabled' <=> ReconnectEnabled)
  BY TaskKeepsBirths
<1> MaxAttempts \in Nat
  BY ConfigTyped
<1> USE <1>0 DEF FailuresCovered, TypeOK, Goto, locals
<1>1. CASE BeginDial(l)
  BY <1>1 DEF BeginDial
<1>2. CASE DialOk(l)
  BY <1>2 DEF DialOk, Announcement
<1>3. CASE PublishConnected(l)
  BY <1>3 DEF PublishConnected
<1>4. CASE DialFail(l)
  <2>1. failures' = failures + 1 /\ pc'[l] = "failed" /\ Born(l)
    BY <1>4 DEF DialFail, Born
  <2>2. OneLoop => \A m \in Loops : Born(m) => m = l
    BY <2>1 DEF OneLoop
  <2>3. OneLoop => failures <= attempts[l]
    BY <1>4, <2>1 DEF DialFail
  <2> QED
    BY <1>4, <2>1, <2>2, <2>3 DEF DialFail
<1>5. CASE RestoreBegin(l)
  BY <1>5 DEF RestoreBegin
<1>6. CASE \E k \in Keys : RestoreSend(l, k)
  BY <1>6 DEF RestoreSend
<1>7. CASE RestoreEnd(l)
  BY <1>7 DEF RestoreEnd
<1>8. CASE ReadPong(l)
  BY <1>8 DEF ReadPong
<1>9. CASE ReadEnd(l)
  BY <1>9 DEF ReadEnd
<1>10. CASE CmdSend(l)
  BY <1>10 DEF CmdSend, Written
<1>11. CASE CmdClose(l)
  BY <1>11 DEF CmdClose
<1>12. CASE CmdNone(l)
  BY <1>12 DEF CmdNone
<1>13. CASE PingTick(l)
  BY <1>13 DEF PingTick, Written
<1>14. CASE PublishDisconnected(l)
  BY <1>14 DEF PublishDisconnected
<1>15. CASE Retry(l)
  <2>1. /\ attempts' = [attempts EXCEPT ![l] = attempts[l] + 1]
        /\ pc' = [pc EXCEPT ![l] = "backoff"]
        /\ UNCHANGED <<failures, config>>
        /\ Born(l)
    BY <1>15 DEF Retry, NextAttempt, Born
  <2>2. ReconnectEnabled /\ (MaxAttempts > 0 => attempts[l] < MaxAttempts)
    BY <1>15 DEF Retry, CanRetry
  <2>3. OneLoop => failures <= attempts[l] + 1
    BY <2>1
  <2>4. OneLoop => \A m \in Loops : Born(m) => m = l
    BY <2>1 DEF OneLoop
  <2> QED
    BY <2>1, <2>2, <2>3, <2>4
<1>16. CASE PublishReconnecting(l)
  BY <1>16 DEF PublishReconnecting
<1>17. CASE Wake(l)
  BY <1>17 DEF Wake
<1>18. CASE GiveUp(l)
  BY <1>18 DEF GiveUp
<1>19. CASE LinkDown(l)
  BY <1>19 DEF LinkDown
<1> QED
  BY <1>1, <1>2, <1>3, <1>4, <1>5, <1>6, <1>7, <1>8, <1>9, <1>10, <1>11, <1>12,
     <1>13, <1>14, <1>15, <1>16, <1>17, <1>18, <1>19 DEF ConnectionLoop

(* Every retry the configuration allows is one failure the metrics may     *)
(* show: with a single task, consecutive_failures never exceeds the budget.*)
THEOREM FailuresWithinBudgetHolds == Spec => []FailuresWithinBudget
<1>1. Init => FailuresCovered
  BY ConfigTyped, InitTyped DEF Init, FailuresCovered, Born
<1>2. TypeOK /\ FailuresCovered /\ [Next]_vars => FailuresCovered'
  <2> SUFFICES ASSUME TypeOK, FailuresCovered, [Next]_vars PROVE FailuresCovered'
    OBVIOUS
  <2>1. ASSUME NEW l \in Loops, Connect(l) PROVE FailuresCovered'
    <3>1. /\ pc[l] = "none" /\ pc' = [pc EXCEPT ![l] = "start"]
          /\ UNCHANGED <<config, failures, attempts>>
      BY <2>1 DEF Connect, locals
    <3>2. \A m \in Loops : m # l => pc'[m] = pc[m] /\ (Born(m)' <=> Born(m))
      BY <3>1 DEF TypeOK, Born
    <3>3. Born(l)' /\ ~Born(l)
      BY <3>1 DEF TypeOK, Born
    <3>4. ASSUME OneLoop' PROVE failures = 0 /\ \A m \in Loops : Born(m)' => m = l
      BY <3>2, <3>3, <3>4 DEF OneLoop, FailuresCovered
    <3>5. /\ MaxAttempts' = MaxAttempts
          /\ ReconnectEnabled' <=> ReconnectEnabled
          /\ attempts' = attempts /\ failures' = failures
      BY <3>1 DEF MaxAttempts, ReconnectEnabled
    <3>6. pc'[l] = "start"
      BY <3>1 DEF TypeOK
    <3> QED
      BY <3>3, <3>4, <3>5, <3>6 DEF FailuresCovered, TypeOK
  <2>2. CASE Handle /\ ~\E l \in Loops : Connect(l)
    <3>1. UNCHANGED <<config, failures, attempts, pc>>
      BY <2>2 DEF Handle, DropHandle, Send, SubscribeSend, SubscribeInsert,
                  Unsubscribe, Close, locals
    <3> QED
      BY <3>1 DEF FailuresCovered, MaxAttempts, ReconnectEnabled, OneLoop, Born
  <2>3. CASE UNCHANGED vars
    BY <2>3 DEF vars, locals, FailuresCovered, MaxAttempts, ReconnectEnabled, OneLoop,
                Born
  <2> QED
    BY <2>1, <2>2, <2>3, TaskKeepsFailuresCovered DEF Next
<1>3. TypeOK /\ FailuresCovered => FailuresWithinBudget
  <2> SUFFICES ASSUME TypeOK, FailuresCovered, OneLoop, MaxAttempts > 0
               PROVE  failures <= IF ReconnectEnabled THEN MaxAttempts + 1 ELSE 1
    BY DEF FailuresWithinBudget
  <2>1. MaxAttempts \in Nat
    BY ConfigTyped
  <2>2. CASE \A l \in Loops : ~Born(l)
    BY <2>1, <2>2 DEF FailuresCovered
  <2>3. ASSUME NEW l \in Loops, Born(l)
        PROVE  failures <= IF ReconnectEnabled THEN MaxAttempts + 1 ELSE 1
    <3>1. /\ attempts[l] \in Nat /\ failures \in Nat
          /\ attempts[l] <= MaxAttempts
          /\ ~ReconnectEnabled => attempts[l] = 0
          /\ failures <= attempts[l] + 1
      BY <2>3 DEF FailuresCovered, TypeOK
    <3> QED
      BY <3>1, <2>1
  <2> QED
    BY <2>2, <2>3
<1> QED
  BY <1>1, <1>2, <1>3, TypeCorrect, PTL DEF Spec

-----------------------------------------------------------------------------
(* The end                                                                 *)

(* A task that has returned takes no step, and only one that returns says  *)
(* Closed.                                                                 *)
LEMMA TaskClosesOnReturn ==
    ASSUME TypeOK, NEW l \in Loops, ConnectionLoop(l)
    PROVE  /\ Born(l) /\ ~Done(l)
           /\ cstate' = "Closed" => cstate = "Closed" \/ Done(l)'
<1> pc \in [Loops -> Phases]
  BY DEF TypeOK
<1> USE DEF Born, Done, Goto
<1>1. CASE BeginDial(l)
  BY <1>1 DEF BeginDial
<1>2. CASE DialOk(l)
  BY <1>2 DEF DialOk, Announcement
<1>3. CASE PublishConnected(l)
  BY <1>3 DEF PublishConnected
<1>4. CASE DialFail(l)
  BY <1>4 DEF DialFail
<1>5. CASE RestoreBegin(l)
  BY <1>5 DEF RestoreBegin
<1>6. CASE \E k \in Keys : RestoreSend(l, k)
  BY <1>6 DEF RestoreSend
<1>7. CASE RestoreEnd(l)
  BY <1>7 DEF RestoreEnd
<1>8. CASE ReadPong(l)
  BY <1>8 DEF ReadPong
<1>9. CASE ReadEnd(l)
  BY <1>9 DEF ReadEnd
<1>10. CASE CmdSend(l)
  BY <1>10 DEF CmdSend, Written
<1>11. CASE CmdClose(l)
  BY <1>11 DEF CmdClose
<1>12. CASE CmdNone(l)
  BY <1>12 DEF CmdNone
<1>13. CASE PingTick(l)
  BY <1>13 DEF PingTick, Written
<1>14. CASE PublishDisconnected(l)
  BY <1>14 DEF PublishDisconnected
<1>15. CASE Retry(l)
  BY <1>15 DEF Retry, NextAttempt
<1>16. CASE PublishReconnecting(l)
  BY <1>16 DEF PublishReconnecting
<1>17. CASE Wake(l)
  BY <1>17 DEF Wake
<1>18. CASE GiveUp(l)
  BY <1>18 DEF GiveUp
<1> QED
  BY <1>1, <1>2, <1>3, <1>4, <1>5, <1>6, <1>7, <1>8, <1>9, <1>10, <1>11, <1>12,
     <1>13, <1>14, <1>15, <1>16, <1>17, <1>18 DEF ConnectionLoop

(* Finality: of a client that was connected once nobody hears anything but *)
(* Closed after Closed, because its only task has returned.                *)
THEOREM ClosedIsFinalHolds == Spec => ClosedIsFinal
<1>1. Init => ClosedByTheEnd
  BY DEF Init, ClosedByTheEnd
<1>2. TypeOK /\ ClosedByTheEnd /\ [Next]_vars =>
          ClosedByTheEnd' /\ (cstate = "Closed" /\ OneLoop /\ OneLoop' => cstate' = "Closed")
  <2> DEFINE Goal == /\ ClosedByTheEnd'
                     /\ cstate = "Closed" /\ OneLoop /\ OneLoop' => cstate' = "Closed"
  <2> SUFFICES ASSUME TypeOK, ClosedByTheEnd, [Next]_vars PROVE Goal
    OBVIOUS
  <2>1. CASE UNCHANGED <<cstate, pc>>
    BY <2>1 DEF ClosedByTheEnd, OneLoop, Born, Done
  <2>2. ASSUME NEW l \in Loops, Connect(l) PROVE Goal
    <3>1. cstate' = cstate /\ pc[l] = "none"
      BY <2>2 DEF Connect
    <3>2. \A m \in Loops : pc[m] # "none" => pc'[m] = pc[m]
      BY <2>2 DEF Connect, TypeOK
    <3>3. OneLoop' => OneLoop
      BY <3>2 DEF OneLoop, Born
    <3>4. \A m \in Loops : Done(m) => Done(m)'
      BY <3>2 DEF Done
    <3> QED
      BY <3>1, <3>3, <3>4 DEF ClosedByTheEnd
  <2>3. ASSUME NEW l \in Loops, ConnectionLoop(l) PROVE Goal
    <3>1. OneLoop' <=> OneLoop
      BY <2>3, TaskKeepsBirths
    <3>2. ~(OneLoop /\ cstate = "Closed")
      BY <2>3, TaskClosesOnReturn DEF ClosedByTheEnd, OneLoop, Born, Done
    <3>3. OneLoop /\ cstate' = "Closed" => Done(l)'
      BY <2>3, <3>2, TaskClosesOnReturn
    <3> QED
      BY <3>1, <3>2, <3>3 DEF ClosedByTheEnd
  <2> QED
    BY <2>1, <2>2, <2>3
    DEF Next, Handle, DropHandle, Send, SubscribeSend, SubscribeInsert, Unsubscribe, Close,
        LinkDown, vars
<1> QED
  BY <1>1, <1>2, TypeCorrect, PTL DEF Spec, ClosedIsFinal

-----------------------------------------------------------------------------
(* The events                                                              *)

(* Every step of a task that sends an event moves to a phase it fits.      *)
LEMMA TaskKeepsEventsFit ==
    ASSUME TypeOK, EventsFitPhases, NEW l \in Loops, ConnectionLoop(l) \/ LinkDown(l)
    PROVE  EventsFitPhases'
<1> USE DEF EventsFitPhases, TypeOK, Goto, locals
<1>1. CASE BeginDial(l)
  BY <1>1 DEF BeginDial
<1>2. CASE DialOk(l)
  BY <1>2 DEF DialOk, Announcement
<1>3. CASE PublishConnected(l)
  BY <1>3 DEF PublishConnected
<1>4. CASE DialFail(l)
  BY <1>4 DEF DialFail
<1>5. CASE RestoreBegin(l)
  BY <1>5 DEF RestoreBegin
<1>6. CASE \E k \in Keys : RestoreSend(l, k)
  BY <1>6 DEF RestoreSend
<1>7. CASE RestoreEnd(l)
  BY <1>7 DEF RestoreEnd
<1>8. CASE ReadPong(l)
  BY <1>8 DEF ReadPong
<1>9. CASE ReadEnd(l)
  BY <1>9 DEF ReadEnd
<1>10. CASE CmdSend(l)
  BY <1>10 DEF CmdSend, Written
<1>11. CASE CmdClose(l)
  BY <1>11 DEF CmdClose
<1>12. CASE CmdNone(l)
  BY <1>12 DEF CmdNone
<1>13. CASE PingTick(l)
  <2>1. CASE evt' = evt
    BY <1>13, <2>1 DEF PingTick, Written
  <2>2. CASE evt' = [evt EXCEPT ![l] = Event("Error", 0)] /\ Goto(l, "running", "broken")
    BY <1>13, <2>2 DEF PingTick
  <2> QED
    BY <1>13, <2>1, <2>2 DEF PingTick, Written
<1>14. CASE PublishDisconnected(l)
  BY <1>14 DEF PublishDisconnected
<1>15. CASE Retry(l)
  BY <1>15 DEF Retry, NextAttempt
<1>16. CASE PublishReconnecting(l)
  BY <1>16 DEF PublishReconnecting
<1>17. CASE Wake(l)
  BY <1>17 DEF Wake
<1>18. CASE GiveUp(l)
  BY <1>18 DEF GiveUp
<1>19. CASE LinkDown(l)
  BY <1>19 DEF LinkDown
<1> QED
  BY <1>1, <1>2, <1>3, <1>4, <1>5, <1>6, <1>7, <1>8, <1>9, <1>10, <1>11, <1>12,
     <1>13, <1>14, <1>15, <1>16, <1>17, <1>18, <1>19 DEF ConnectionLoop

(* The last event of a task is about the phase it is in.                   *)
LEMMA EventsFitPhasesHolds == Spec => []EventsFitPhases
<1>1. Init => EventsFitPhases
  BY DEF Init, EventsFitPhases
<1>2. TypeOK /\ EventsFitPhases /\ [Next]_vars => EventsFitPhases'
  <2> SUFFICES ASSUME TypeOK, EventsFitPhases, [Next]_vars PROVE EventsFitPhases'
    OBVIOUS
  <2>1. CASE Handle
    BY <2>1 DEF Handle, Connect, DropHandle, Send, SubscribeSend, SubscribeInsert,
                Unsubscribe, Close, TypeOK, EventsFitPhases, locals
  <2>2. CASE UNCHANGED vars
    BY <2>2 DEF vars, EventsFitPhases, locals
  <2> QED
    BY <2>1, <2>2, TaskKeepsEventsFit DEF Next
<1> QED
  BY <1>1, <1>2, TypeCorrect, PTL DEF Spec

(* A task announces, loses and retries its own session as its event stream *)
(* allows; its other steps leave the stream as it is.                      *)
LEMMA TaskFollowsStream ==
    ASSUME TypeOK, EventsFitPhases, NEW l \in Loops, ConnectionLoop(l) \/ LinkDown(l)
    PROVE  Stream(l)!StreamNext \/ UNCHANGED Stream(l)!streamVars
<1> USE DEF TypeOK, EventsFitPhases, Goto, locals, MaxAttempts, Stream!StreamNext,
            Stream!streamVars
<1>1. CASE BeginDial(l)
  BY <1>1 DEF BeginDial
<1>2. CASE DialOk(l)
  <2>1. Stream(l)!SessionUp
    BY <1>2 DEF DialOk, Announcement, Stream!SessionUp, Stream!Dialing
  <2> QED
    BY <2>1
<1>3. CASE PublishConnected(l)
  BY <1>3 DEF PublishConnected
<1>4. CASE DialFail(l)
  <2>1. Stream(l)!DialFailed
    BY <1>4 DEF DialFail, Stream!DialFailed, Stream!Dialing
  <2> QED
    BY <2>1
<1>5. CASE RestoreBegin(l)
  BY <1>5 DEF RestoreBegin
<1>6. CASE \E k \in Keys : RestoreSend(l, k)
  BY <1>6 DEF RestoreSend
<1>7. CASE RestoreEnd(l)
  BY <1>7 DEF RestoreEnd
<1>8. CASE ReadPong(l)
  BY <1>8 DEF ReadPong
<1>9. CASE ReadEnd(l)
  <2>1. Stream(l)!SessionDown
    BY <1>9 DEF ReadEnd, Stream!SessionDown
  <2> QED
    BY <2>1
<1>10. CASE CmdSend(l)
  BY <1>10 DEF CmdSend, Written
<1>11. CASE CmdClose(l)
  <2>1. Stream(l)!SessionDown
    BY <1>11 DEF CmdClose, Stream!SessionDown
  <2> QED
    BY <2>1
<1>12. CASE CmdNone(l)
  BY <1>12 DEF CmdNone
<1>13. CASE PingTick(l)
  <2>1. CASE evt' = evt
    BY <1>13, <2>1 DEF PingTick
  <2>2. CASE evt' = [evt EXCEPT ![l] = Event("Error", 0)]
    <3>1. Stream(l)!SessionDown
      BY <1>13, <2>2 DEF PingTick, Stream!SessionDown
    <3> QED
      BY <3>1
  <2> QED
    BY <1>13, <2>1, <2>2 DEF PingTick, Written
<1>14. CASE PublishDisconnected(l)
  BY <1>14 DEF PublishDisconnected
<1>15. CASE Retry(l)
  <2>1. Stream(l)!TryAgain
    BY <1>15 DEF Retry, CanRetry, NextAttempt, Stream!TryAgain, Stream!Dialing
  <2> QED
    BY <2>1
<1>16. CASE PublishReconnecting(l)
  BY <1>16 DEF PublishReconnecting
<1>17. CASE Wake(l)
  BY <1>17 DEF Wake
<1>18. CASE GiveUp(l)
  BY <1>18 DEF GiveUp
<1>19. CASE LinkDown(l)
  BY <1>19 DEF LinkDown
<1> QED
  BY <1>1, <1>2, <1>3, <1>4, <1>5, <1>6, <1>7, <1>8, <1>9, <1>10, <1>11, <1>12,
     <1>13, <1>14, <1>15, <1>16, <1>17, <1>18, <1>19 DEF ConnectionLoop

(* A task sends events of its own only.                                    *)
LEMMA TaskLeavesOtherStreams ==
    ASSUME TypeOK, NEW l \in Loops, ConnectionLoop(l) \/ LinkDown(l),
           NEW m \in Loops, m # l
    PROVE  UNCHANGED Stream(m)!streamVars
<1> USE DEF TypeOK, locals, MaxAttempts, Stream!streamVars
<1>1. CASE BeginDial(l)
  BY <1>1 DEF BeginDial
<1>2. CASE DialOk(l)
  BY <1>2 DEF DialOk, Announcement
<1>3. CASE PublishConnected(l)
  BY <1>3 DEF PublishConnected
<1>4. CASE DialFail(l)
  BY <1>4 DEF DialFail
<1>5. CASE RestoreBegin(l)
  BY <1>5 DEF RestoreBegin
<1>6. CASE \E k \in Keys : RestoreSend(l, k)
  BY <1>6 DEF RestoreSend
<1>7. CASE RestoreEnd(l)
  BY <1>7 DEF RestoreEnd
<1>8. CASE ReadPong(l)
  BY <1>8 DEF ReadPong
<1>9. CASE ReadEnd(l)
  BY <1>9 DEF ReadEnd
<1>10. CASE CmdSend(l)
  BY <1>10 DEF CmdSend, Written
<1>11. CASE CmdClose(l)
  BY <1>11 DEF CmdClose
<1>12. CASE CmdNone(l)
  BY <1>12 DEF CmdNone
<1>13. CASE PingTick(l)
  BY <1>13 DEF PingTick, Written
<1>14. CASE PublishDisconnected(l)
  BY <1>14 DEF PublishDisconnected
<1>15. CASE Retry(l)
  BY <1>15 DEF Retry, NextAttempt
<1>16. CASE PublishReconnecting(l)
  BY <1>16 DEF PublishReconnecting
<1>17. CASE Wake(l)
  BY <1>17 DEF Wake
<1>18. CASE GiveUp(l)
  BY <1>18 DEF GiveUp
<1>19. CASE LinkDown(l)
  BY <1>19 DEF LinkDown
<1> QED
  BY <1>1, <1>2, <1>3, <1>4, <1>5, <1>6, <1>7, <1>8, <1>9, <1>10, <1>11, <1>12,
     <1>13, <1>14, <1>15, <1>16, <1>17, <1>18, <1>19 DEF ConnectionLoop

(* Implementation of WsEventStream by every task: what the consumer of     *)
(* connect() sees is a stream of the announced form, for every             *)
(* configuration and any number of tasks.                                  *)
THEOREM EventsFollowStreamHolds == Spec => EventsFollowStream
<1>1. Init => \A l \in Loops : Stream(l)!StreamInit
  BY InitTyped, ConfigTyped DEF Init, Stream!StreamInit
<1>2. TypeOK /\ EventsFitPhases /\ [Next]_vars =>
          [\A l \in Loops : [Stream(l)!StreamNext]_(Stream(l)!streamVars)]_vars
  <2> SUFFICES ASSUME TypeOK, EventsFitPhases, [Next]_vars, NEW m \in Loops
               PROVE  Stream(m)!StreamNext \/ UNCHANGED Stream(m)!streamVars
    OBVIOUS
  <2>1. CASE Handle \/ UNCHANGED vars
    BY <2>1 DEF Handle, Connect, DropHandle, Send, SubscribeSend, SubscribeInsert,
                Unsubscribe, Close, vars, locals, MaxAttempts, Stream!streamVars
  <2>2. ASSUME NEW l \in Loops, ConnectionLoop(l) \/ LinkDown(l)
        PROVE  Stream(m)!StreamNext \/ UNCHANGED Stream(m)!streamVars
    BY <2>2, TaskFollowsStream, TaskLeavesOtherStreams
  <2> QED
    BY <2>1, <2>2 DEF Next
<1> QED
  BY <1>1, <1>2, TypeCorrect, EventsFitPhasesHolds, PTL DEF Spec, EventsFollowStream
=============================================================================
