------------------------- MODULE WsSubscriptionProofs -------------------------
(***************************************************************************)
(* What WsClient's map of subscriptions and the peer's session have to do  *)
(* with each other, for every number of tasks, callers and keys.           *)
(***************************************************************************)
EXTENDS WsClientProofs

(* The two words a queue can say of a key.                                 *)
LEMMA CommandsDiffer ==
    /\ \A k \in Keys : Sub(k) # CloseCmd /\ Unsub(k) # CloseCmd
    /\ \A k, m \in Keys : Sub(k) # Unsub(m)
    /\ \A k, m \in Keys : Sub(k) = Sub(m) => k = m
    /\ \A k, m \in Keys : Unsub(k) = Unsub(m) => k = m
  BY DEF Sub, Unsub, CloseCmd

(* A command is a close, a subscription or an unsubscription of a key.     *)
LEMMA CommandsSplit ==
    ASSUME NEW cmd \in Commands, cmd # CloseCmd
    PROVE  /\ cmd.key \in Keys
           /\ \/ cmd.op = "sub" /\ cmd = Sub(cmd.key)
              \/ cmd.op = "unsub" /\ cmd = Unsub(cmd.key)
<1>1. cmd \in [op : {"sub", "unsub"}, key : Keys]
  BY DEF Commands, CloseCmd
<1>2. cmd = [op |-> cmd.op, key |-> cmd.key] /\ cmd.op \in {"sub", "unsub"} /\ cmd.key \in Keys
  BY <1>1
<1>3. cmd.op = "sub" => cmd = Sub(cmd.key)
  BY <1>2 DEF Sub
<1>4. cmd.op = "unsub" => cmd = Unsub(cmd.key)
  BY <1>2 DEF Unsub
<1> QED
  BY <1>2, <1>3, <1>4

(* A command sent is last in the queue; what waited keeps its place.       *)
LEMMA AppendSaysLast ==
    ASSUME NEW q \in Seq(Commands), NEW cmd \in Commands,
           NEW a \in Commands, NEW b \in Commands
    PROVE  /\ Queued(q, a) \/ cmd = a => Queued(Append(q, cmd), a)
           /\ Followed(q, a, b) /\ cmd # a => Followed(Append(q, cmd), a, b)
           /\ cmd = b /\ a # b => Followed(Append(q, cmd), a, b)
<1>1. /\ DOMAIN q = 1 .. Len(q) /\ Len(q) \in Nat
      /\ DOMAIN Append(q, cmd) = 1 .. Len(q) + 1
      /\ \A i \in 1 .. Len(q) : Append(q, cmd)[i] = q[i]
      /\ Append(q, cmd)[Len(q) + 1] = cmd
  OBVIOUS
<1> QED
  BY <1>1 DEF Queued, Followed

(* A command taken from the queue was first in it: the others only move up.*)
LEMMA TailKeepsWord ==
    ASSUME NEW q \in Seq(Commands), q # <<>>, NEW a \in Commands, NEW b \in Commands
    PROVE  /\ Queued(q, a) /\ Head(q) # a => Queued(Tail(q), a)
           /\ Followed(q, a, b) => Followed(Tail(q), a, b)
           /\ Followed(q, a, b) /\ Head(q) = a => Queued(Tail(q), b)
<1>1. /\ DOMAIN q = 1 .. Len(q) /\ Len(q) \in Nat /\ Len(q) > 0
      /\ DOMAIN Tail(q) = 1 .. Len(q) - 1
      /\ \A i \in 1 .. Len(q) - 1 : Tail(q)[i] = q[i + 1]
      /\ Head(q) = q[1]
  OBVIOUS
<1>2. ASSUME NEW i \in DOMAIN q, i > 1
      PROVE  i - 1 \in DOMAIN Tail(q) /\ Tail(q)[i - 1] = q[i]
  BY <1>1, <1>2
<1>3. Queued(q, a) /\ Head(q) # a => Queued(Tail(q), a)
  <2> SUFFICES ASSUME Queued(q, a), Head(q) # a PROVE Queued(Tail(q), a)
    OBVIOUS
  <2>1. PICK i \in DOMAIN q : q[i] = a
    BY DEF Queued
  <2>2. i > 1
    BY <1>1, <2>1
  <2> QED
    BY <1>2, <2>1, <2>2 DEF Queued
<1>4. Followed(q, a, b) => Followed(Tail(q), a, b)
  <2> SUFFICES ASSUME Followed(q, a, b), NEW i \in DOMAIN Tail(q), Tail(q)[i] = a
               PROVE  \E j \in DOMAIN Tail(q) : j > i /\ Tail(q)[j] = b
    BY DEF Followed
  <2>1. i + 1 \in DOMAIN q /\ q[i + 1] = a /\ i \in Nat
    BY <1>1
  <2>2. PICK j \in DOMAIN q : j > i + 1 /\ q[j] = b
    BY <2>1 DEF Followed
  <2>3. j - 1 \in DOMAIN Tail(q) /\ Tail(q)[j - 1] = b /\ j - 1 > i
    BY <1>1, <1>2, <2>1, <2>2
  <2> QED
    BY <2>3
<1>5. Followed(q, a, b) /\ Head(q) = a => Queued(Tail(q), b)
  <2> SUFFICES ASSUME Followed(q, a, b), q[1] = a PROVE Queued(Tail(q), b)
    BY <1>1
  <2>1. PICK j \in DOMAIN q : j > 1 /\ q[j] = b
    BY <1>1 DEF Followed
  <2> QED
    BY <1>2, <2>1 DEF Queued
<1> QED
  BY <1>3, <1>4, <1>5

(* An empty queue says nothing of any key.                                 *)
LEMMA EmptySaysNothing ==
    ASSUME NEW a, NEW b
    PROVE  ~Queued(<<>>, a) /\ Followed(<<>>, a, b)
  BY DEF Queued, Followed

-----------------------------------------------------------------------------
(* The shape of a session                                                  *)

(* Sending touches the owner's queue and no other.                         *)
LEMMA EnqueueFrame ==
    ASSUME TypeOK, NEW cmd \in Commands, Enqueue(cmd)
    PROVE  /\ \A l \in Loops : l # owner => queue'[l] = queue[l]
           /\ owner \in Loops => queue'[owner] = Append(queue[owner], cmd)
  BY KeysAssumption DEF TypeOK, Enqueue

(* The handle's methods start tasks and fill queues, no more.              *)
LEMMA HandleKeepsShape ==
    ASSUME TypeOK, SessionShape, Handle
    PROVE  SessionShape'
<1> DEFINE Frame == UNCHANGED <<pc, owner, link, srv, todo>>
<1>1. ASSUME NEW cmd \in Commands, Enqueue(cmd), Sendable, Frame PROVE SessionShape'
  <2>1. \A l \in Loops : ~Born(l) \/ Done(l) => l # owner
    BY <1>1, KeysAssumption DEF SessionShape, Sendable
  <2>2. \A l \in Loops : l # owner => queue'[l] = queue[l]
    BY <1>1, EnqueueFrame
  <2> QED
    BY <1>1, <2>1, <2>2 DEF SessionShape, Born, Done
<1>2. ASSUME UNCHANGED queue, Frame PROVE SessionShape'
  BY <1>2 DEF SessionShape, Born, Done
<1>3. ASSUME NEW l \in Loops, Connect(l) PROVE SessionShape'
  BY <1>3 DEF Connect, SessionShape, Born, Done, TypeOK, locals, peerVars
<1>4. CASE DropHandle
  BY <1>4, KeysAssumption DEF DropHandle, SessionShape, Born, Done, locals, peerVars
<1>5. ASSUME NEW k \in RawKeys, Send(k) PROVE SessionShape'
  BY <1>1, <1>5, CommandsTyped, KeysAssumption DEF Send, locals, peerVars
<1>6. ASSUME NEW c \in Callers, NEW k \in Touches[c], SubscribeSend(c, k)
      PROVE  SessionShape'
  BY <1>1, <1>6, CommandsTyped, KeysAssumption DEF SubscribeSend, locals, peerVars
<1>7. ASSUME NEW c \in Callers, SubscribeInsert(c) PROVE SessionShape'
  BY <1>2, <1>7 DEF SubscribeInsert, locals, peerVars
<1>8. ASSUME NEW c \in Callers, NEW k \in Touches[c], Unsubscribe(c, k)
      PROVE  SessionShape'
  BY <1>1, <1>2, <1>8, CommandsTyped, KeysAssumption DEF Unsubscribe, locals, peerVars
<1>9. CASE Close
  BY <1>1, <1>9, CommandsTyped DEF Close, locals, peerVars
<1> QED
  BY <1>3, <1>4, <1>5, <1>6, <1>7, <1>8, <1>9 DEF Handle

(* A task touches its own queue, session and phase only, and the map never.*)
LEMMA TaskFrame ==
    ASSUME TypeOK, NEW l \in Loops, ConnectionLoop(l) \/ LinkDown(l)
    PROVE  /\ UNCHANGED <<subs, pending, owner>>
           /\ l # owner => UNCHANGED <<stale, raced>>
           /\ \A m \in Loops : m # l =>
                 /\ queue'[m] = queue[m] /\ srv'[m] = srv[m] /\ todo'[m] = todo[m]
                 /\ pc'[m] = pc[m] /\ link'[m] = link[m]
<1> USE DEF TypeOK, Goto, locals, handleVars, peerVars, raceVars
<1>1. CASE BeginDial(l)
  BY <1>1 DEF BeginDial
<1>2. CASE DialOk(l)
  BY <1>2 DEF DialOk
<1>3. CASE PublishConnected(l)
  BY <1>3 DEF PublishConnected
<1>4. CASE DialFail(l)
  BY <1>4 DEF DialFail
<1>5. CASE RestoreBegin(l)
  BY <1>5 DEF RestoreBegin
<1>6. CASE \E k \in Keys : RestoreSend(l, k)
  BY <1>6 DEF RestoreSend, Served
<1>7. CASE RestoreEnd(l)
  BY <1>7 DEF RestoreEnd
<1>8. CASE ReadPong(l)
  BY <1>8 DEF ReadPong
<1>9. CASE ReadEnd(l)
  BY <1>9 DEF ReadEnd
<1>10. CASE CmdSend(l)
  BY <1>10 DEF CmdSend, Written, Served
<1>11. CASE CmdClose(l)
  BY <1>11 DEF CmdClose
<1>12. CASE CmdNone(l)
  BY <1>12 DEF CmdNone
<1>13. CASE PingTick(l)
  BY <1>13 DEF PingTick, Written
<1>14. CASE PublishDisconnected(l)
  BY <1>14 DEF PublishDisconnected
<1>15. CASE Retry(l)
  BY <1>15 DEF Retry
<1>16. CASE PublishReconnecting(l)
  BY <1>16 DEF PublishReconnecting
<1>17. CASE Wake(l)
  BY <1>17 DEF Wake
<1>18. CASE GiveUp(l)
  BY <1>18 DEF GiveUp
<1>19. CASE LinkDown(l)
  BY <1>19 DEF LinkDown
<1> QED
  BY <1>1, <1>2, <1>3, <1>4, <1>5, <1>6, <1>7, <1>8, <1>9, <1>10, <1>11, <1>12,
     <1>13, <1>14, <1>15, <1>16, <1>17, <1>18, <1>19 DEF ConnectionLoop

(* A task that returns drops its session and its queue.                    *)
LEMMA TaskKeepsShape ==
    ASSUME TypeOK, SessionShape, NEW l \in Loops, ConnectionLoop(l) \/ LinkDown(l)
    PROVE  SessionShape'
<1> SUFFICES /\ Born(l)'
             /\ Done(l)' => link'[l] = "none" /\ queue'[l] = <<>>
             /\ pc'[l] # "restoring" => todo'[l] = {}
             /\ link'[l] # "up" => srv'[l] = {}
  BY TaskFrame DEF SessionShape, Born, Done
<1> USE DEF SessionShape, Born, Done, TypeOK, Goto, locals, handleVars, peerVars
<1>1. CASE BeginDial(l)
  BY <1>1 DEF BeginDial
<1>2. CASE DialOk(l)
  BY <1>2 DEF DialOk
<1>3. CASE PublishConnected(l)
  BY <1>3 DEF PublishConnected
<1>4. CASE DialFail(l)
  BY <1>4 DEF DialFail
<1>5. CASE RestoreBegin(l)
  BY <1>5 DEF RestoreBegin
<1>6. CASE \E k \in Keys : RestoreSend(l, k)
  BY <1>6 DEF RestoreSend, Served
<1>7. CASE RestoreEnd(l)
  BY <1>7 DEF RestoreEnd
<1>8. CASE ReadPong(l)
  BY <1>8 DEF ReadPong
<1>9. CASE ReadEnd(l)
  BY <1>9 DEF ReadEnd
<1>10. CASE CmdSend(l)
  BY <1>10 DEF CmdSend, Written, Served
<1>11. CASE CmdClose(l)
  BY <1>11 DEF CmdClose
<1>12. CASE CmdNone(l)
  BY <1>12 DEF CmdNone
<1>13. CASE PingTick(l)
  BY <1>13 DEF PingTick, Written
<1>14. CASE PublishDisconnected(l)
  BY <1>14 DEF PublishDisconnected
<1>15. CASE Retry(l)
  BY <1>15 DEF Retry
<1>16. CASE PublishReconnecting(l)
  BY <1>16 DEF PublishReconnecting
<1>17. CASE Wake(l)
  BY <1>17 DEF Wake
<1>18. CASE GiveUp(l)
  BY <1>18 DEF GiveUp
<1>19. CASE LinkDown(l)
  BY <1>19 DEF LinkDown
<1> QED
  BY <1>1, <1>2, <1>3, <1>4, <1>5, <1>6, <1>7, <1>8, <1>9, <1>10, <1>11, <1>12,
     <1>13, <1>14, <1>15, <1>16, <1>17, <1>18, <1>19 DEF ConnectionLoop

(* A task has a session or commands between its connect() and its return.  *)
LEMMA SessionShapeHolds == Spec => []SessionShape
<1>1. Init => SessionShape
  BY KeysAssumption DEF Init, SessionShape, Born, Done
<1>2. TypeOK /\ SessionShape /\ [Next]_vars => SessionShape'
  <2> SUFFICES ASSUME TypeOK, SessionShape, [Next]_vars PROVE SessionShape'
    OBVIOUS
  <2>1. CASE UNCHANGED vars
    BY <2>1 DEF vars, handleVars, locals, peerVars, SessionShape, Born, Done
  <2> QED
    BY <2>1, HandleKeepsShape, TaskKeepsShape DEF Next
<1> QED
  BY <1>1, <1>2, TypeCorrect, PTL DEF Spec

-----------------------------------------------------------------------------
(* The steps of a task                                                     *)

\* A step that neither serves, restores nor loses a key.
Quiet(l) ==
    /\ queue'[l] = queue[l] /\ srv'[l] = srv[l] /\ todo'[l] = todo[l]
    /\ Restored(l)' => Restored(l)
    /\ UNCHANGED <<stale, raced>>

\* A step after which nothing is served and nothing is owed.
Ends(l) ==
    /\ srv'[l] = {} /\ ~Restored(l)'
    /\ \/ queue'[l] = queue[l] /\ todo'[l] = todo[l]
       \/ queue'[l] = <<>> /\ todo'[l] = {}
    /\ UNCHANGED <<stale, raced>>

(* For the map and the session the steps of a task fall into five kinds.   *)
LEMMA TaskStepKinds ==
    ASSUME TypeOK, SessionShape, NEW l \in Loops, ConnectionLoop(l) \/ LinkDown(l)
    PROVE  \/ Quiet(l) \/ Ends(l) \/ RestoreBegin(l) \/ CmdSend(l)
           \/ \E k \in Keys : RestoreSend(l, k)
<1> USE DEF TypeOK, SessionShape, Quiet, Ends, Restored, Goto, locals, handleVars, peerVars,
            raceVars
<1>1. CASE BeginDial(l)
  BY <1>1 DEF BeginDial
<1>2. CASE DialOk(l)
  BY <1>2 DEF DialOk
<1>3. CASE PublishConnected(l)
  BY <1>3 DEF PublishConnected
<1>4. CASE DialFail(l)
  BY <1>4 DEF DialFail
<1>5. CASE RestoreBegin(l)
  BY <1>5
<1>6. CASE \E k \in Keys : RestoreSend(l, k)
  BY <1>6
<1>7. CASE RestoreEnd(l)
  BY <1>7 DEF RestoreEnd
<1>8. CASE ReadPong(l)
  BY <1>8 DEF ReadPong
<1>9. CASE ReadEnd(l)
  BY <1>9 DEF ReadEnd
<1>10. CASE CmdSend(l)
  BY <1>10
<1>11. CASE CmdClose(l)
  BY <1>11 DEF CmdClose
<1>12. CASE CmdNone(l)
  BY <1>12 DEF CmdNone
<1>13. CASE PingTick(l)
  BY <1>13 DEF PingTick, Written
<1>14. CASE PublishDisconnected(l)
  BY <1>14 DEF PublishDisconnected
<1>15. CASE Retry(l)
  BY <1>15 DEF Retry
<1>16. CASE PublishReconnecting(l)
  BY <1>16 DEF PublishReconnecting
<1>17. CASE Wake(l)
  BY <1>17 DEF Wake
<1>18. CASE GiveUp(l)
  BY <1>18 DEF GiveUp
<1>19. CASE LinkDown(l)
  BY <1>19 DEF LinkDown
<1> QED
  BY <1>1, <1>2, <1>3, <1>4, <1>5, <1>6, <1>7, <1>8, <1>9, <1>10, <1>11, <1>12,
     <1>13, <1>14, <1>15, <1>16, <1>17, <1>18, <1>19 DEF ConnectionLoop

(* The handle sends to the task it started last.                           *)
LEMMA SentToOwner ==
    ASSUME TypeOK, NEW l \in Loops, l = owner, NEW cmd \in Commands, Enqueue(cmd)
    PROVE  queue'[l] = Append(queue[l], cmd)
  BY EnqueueFrame

(* What waits in a queue are commands.                                     *)
LEMMA QueueTyped ==
    ASSUME TypeOK, NEW l \in Loops
    PROVE  queue[l] \in Seq(Commands)
  BY DEF TypeOK

(* What a caller works on is a key.                                        *)
LEMMA KeyTyped ==
    ASSUME NEW c \in Callers, NEW k \in Touches[c]
    PROVE  k \in Keys /\ k # NoKey
  BY KeysAssumption

-----------------------------------------------------------------------------
(* The map reaches the session                                             *)

(* A caller is in subscribe() of a key of its own only.                    *)
LEMMA HandleKeepsPending ==
    ASSUME TypeOK, Handle,
           \A c \in Callers : pending[c] \in Touches[c] \cup {NoKey}
    PROVE  \A c \in Callers : pending'[c] \in Touches[c] \cup {NoKey}
  BY DEF TypeOK, Handle, Connect, DropHandle, Send, SubscribeSend, SubscribeInsert,
         Unsubscribe, Close

(* A method of the handle leaves the queue's last word on a key right.     *)
LEMMA HandleReachesSession ==
    ASSUME TypeOK, SessionShape, MapReachesSession, Handle,
           NEW l \in Loops, NEW k \in SoleKeys, l = owner'
    PROVE  ReachesSession(l, k)'
<1> DEFINE a == Unsub(k)
           b == Sub(k)
           q == queue[l]
<1>0. /\ k \in Keys /\ k # NoKey
      /\ a \in Commands /\ b \in Commands /\ a # b
      /\ q \in Seq(Commands)
  BY KeysAssumption, CommandsTyped, CommandsDiffer, QueueTyped DEF SoleKeys
<1>1. ASSUME NEW n \in Loops, Connect(n) PROVE ReachesSession(l, k)'
  <2>1. queue'[l] = <<>> /\ ~Restored(l)'
    BY <1>1 DEF Connect, SessionShape, Born, Restored, peerVars, TypeOK
  <2> QED
    BY <2>1, EmptySaysNothing DEF ReachesSession
<1>2. CASE DropHandle
  BY <1>2, KeysAssumption DEF DropHandle
<1> DEFINE Frame == UNCHANGED <<owner, pc, link, srv, todo>>
<1>3. ASSUME NEW cmd \in Commands, cmd # a, Enqueue(cmd), Frame,
             Wanted(k)' => Wanted(k), Owed(k)' => Owed(k)
      PROVE  ReachesSession(l, k)'
  <2>1. queue'[l] = Append(q, cmd) /\ ReachesSession(l, k)
    BY <1>3, SentToOwner DEF MapReachesSession
  <2>2. Followed(q, a, b) => Followed(Append(q, cmd), a, b)
    BY <1>0, <1>3, AppendSaysLast
  <2>3. Queued(q, b) => Queued(Append(q, cmd), b)
    BY <1>0, AppendSaysLast
  <2> QED
    BY <1>3, <2>1, <2>2, <2>3 DEF ReachesSession, Restored
<1>4. ASSUME UNCHANGED queue, Frame, Wanted(k)' => Wanted(k), Owed(k)' => Owed(k)
      PROVE  ReachesSession(l, k)'
  <2>1. ReachesSession(l, k)
    BY <1>4 DEF MapReachesSession
  <2> QED
    BY <1>4, <2>1 DEF ReachesSession, Restored
<1>5. ASSUME NEW r \in RawKeys, Send(r) PROVE ReachesSession(l, k)'
  <2>1. /\ Enqueue(Sub(r)) /\ Frame
        /\ UNCHANGED <<subs, pending, stale, raced>>
    BY <1>5 DEF Send, locals, peerVars, raceVars
  <2>2. Sub(r) \in Commands /\ Sub(r) # a
    BY <1>0, KeysAssumption, CommandsTyped, CommandsDiffer
  <2> QED
    BY <1>3, <2>1, <2>2 DEF Wanted, Owed
<1>6. ASSUME NEW c \in Callers, NEW m \in Touches[c], SubscribeSend(c, m)
      PROVE  ReachesSession(l, k)'
  <2>1. /\ Enqueue(Sub(m)) /\ Frame
        /\ pending' = [pending EXCEPT ![c] = m]
        /\ UNCHANGED <<subs, stale, raced>>
    BY <1>6 DEF SubscribeSend, locals, peerVars, raceVars
  <2>2. m \in Keys /\ Sub(m) \in Commands /\ Sub(m) # a
    BY <1>0, KeyTyped, CommandsTyped, CommandsDiffer
  <2>3. CASE m = k
    <3>1. queue'[l] = Append(q, b)
      BY <1>0, <2>1, <2>3, SentToOwner
    <3>2. Followed(queue'[l], a, b) /\ Queued(queue'[l], b)
      BY <1>0, <3>1, AppendSaysLast
    <3> QED
      BY <3>2 DEF ReachesSession
  <2>4. CASE m # k
    <3>1. \A d \in Callers : pending'[d] = k => pending[d] = k
      BY <2>1, <2>4 DEF TypeOK
    <3> QED
      BY <1>3, <2>1, <2>2, <3>1 DEF Wanted, Owed
  <2> QED
    BY <2>3, <2>4
<1>7. ASSUME NEW c \in Callers, SubscribeInsert(c) PROVE ReachesSession(l, k)'
  <2>1. /\ UNCHANGED queue /\ Frame
        /\ subs' = subs \cup {pending[c]}
        /\ pending' = [pending EXCEPT ![c] = NoKey]
        /\ raced' = IF c \in stale THEN raced \cup {pending[c]} ELSE raced
        /\ stale' = stale \ {c}
    BY <1>7 DEF SubscribeInsert, locals, peerVars
  <2>2. \A d \in Callers : pending'[d] = k => d # c /\ pending[d] = k
    BY <1>0, <2>1 DEF TypeOK
  <2>3. Wanted(k)' => Wanted(k)
    BY <2>1, <2>2 DEF Wanted
  <2>4. Owed(k)' => Owed(k)
    BY <2>1, <2>2 DEF Owed
  <2> QED
    BY <1>4, <2>1, <2>3, <2>4
<1>8. ASSUME NEW c \in Callers, NEW m \in Touches[c], Unsubscribe(c, m)
      PROVE  ReachesSession(l, k)'
  <2>1. /\ Frame
        /\ pending[c] = NoKey
        /\ subs' = subs \ {m} /\ raced' = raced \ {m}
        /\ Enqueue(Unsub(m)) \/ UNCHANGED queue
        /\ UNCHANGED <<pending, stale>>
    BY <1>8 DEF Unsubscribe, locals, peerVars
  <2>2. m \in Keys /\ Unsub(m) \in Commands
    BY KeyTyped, CommandsTyped
  <2>3. CASE m = k
    <3>1. \A d \in Callers : pending[d] = k => d = c
      BY <1>0, <2>3 DEF SoleKeys, MapReachesSession
    <3>2. ~Wanted(k)' /\ ~Owed(k)'
      BY <1>0, <2>1, <2>3, <3>1 DEF Wanted, Owed
    <3> QED
      BY <3>2 DEF ReachesSession
  <2>4. CASE m # k
    <3>1. Unsub(m) # a
      BY <1>0, <2>2, <2>4, CommandsDiffer
    <3>2. (Wanted(k)' => Wanted(k)) /\ (Owed(k)' => Owed(k))
      BY <2>1, <2>4 DEF Wanted, Owed
    <3> QED
      BY <1>3, <1>4, <2>1, <2>2, <3>1, <3>2
  <2> QED
    BY <2>3, <2>4
<1>9. CASE Close
  <2>1. /\ Enqueue(CloseCmd) /\ Frame
        /\ UNCHANGED <<subs, pending, stale, raced>>
    BY <1>9 DEF Close, locals, peerVars, raceVars
  <2>2. CloseCmd \in Commands /\ CloseCmd # a
    BY <1>0, CommandsTyped, CommandsDiffer
  <2> QED
    BY <1>3, <2>1, <2>2 DEF Wanted, Owed
<1> QED
  BY <1>1, <1>2, <1>5, <1>6, <1>7, <1>8, <1>9 DEF Handle

(* So does a step of a task, which also serves what it takes.              *)
LEMMA TaskReachesSession ==
    ASSUME TypeOK, SessionShape, MapReachesSession,
           NEW l \in Loops, ConnectionLoop(l) \/ LinkDown(l), l = owner,
           NEW k \in SoleKeys
    PROVE  ReachesSession(l, k)'
<1> DEFINE a == Unsub(k)
           b == Sub(k)
           q == queue[l]
<1>0. /\ k \in Keys
      /\ a \in Commands /\ b \in Commands /\ a # b
      /\ q \in Seq(Commands)
  BY CommandsTyped, CommandsDiffer, QueueTyped DEF SoleKeys
<1>1. /\ ReachesSession(l, k)
      /\ UNCHANGED <<subs, pending, owner>>
  BY TaskFrame DEF MapReachesSession
<1>2. CASE Quiet(l)
  BY <1>1, <1>2 DEF Quiet, ReachesSession, Wanted, Owed
<1>3. CASE Ends(l)
  BY <1>1, <1>3, EmptySaysNothing DEF Ends, ReachesSession, Wanted
<1>4. CASE RestoreBegin(l)
  <2>1. queue'[l] = queue[l] /\ todo'[l] = subs
    BY <1>4 DEF RestoreBegin, TypeOK, handleVars
  <2>2. Owed(k)' => k \in subs
    BY <1>0, <1>1, <1>4, KeysAssumption DEF RestoreBegin, Owed
  <2> QED
    BY <1>1, <2>1, <2>2 DEF ReachesSession, Wanted
<1>5. CASE CmdSend(l)
  <2>1. /\ pc[l] = "running" /\ q # <<>>
        /\ queue'[l] = Tail(q)
        /\ UNCHANGED <<link, stale, raced>> /\ todo'[l] = {} /\ todo[l] = {}
    BY <1>5 DEF CmdSend, TypeOK, SessionShape, locals, raceVars
  <2>2. Head(q) = b /\ link[l] = "up" => k \in srv'[l]
    BY <1>0, <1>5 DEF CmdSend, TypeOK, Served, Sub
  <2>3. Head(q) # a /\ k \in srv[l] => k \in srv'[l]
    <3>1. Head(q) \in Commands /\ Head(q) # CloseCmd
      BY <1>0, <1>5 DEF CmdSend
    <3>2. Head(q) # a => Head(q).op = "sub" \/ Head(q).key # k
      BY <3>1, CommandsSplit
    <3> QED
      BY <1>5, <3>2 DEF CmdSend, TypeOK, Served
  <2>4. Restored(l)' => Restored(l)
    BY <2>1 DEF Restored
  <2>5. Followed(q, a, b) => Followed(Tail(q), a, b)
    BY <1>0, <2>1, TailKeepsWord
  <2>6. Queued(q, b) /\ Head(q) # b => Queued(Tail(q), b)
    BY <1>0, <2>1, TailKeepsWord
  <2>7. Followed(q, a, b) /\ Head(q) = a => Queued(Tail(q), b)
    BY <1>0, <2>1, TailKeepsWord
  <2>8. Owed(k) => Wanted(k)
    BY DEF Owed, Wanted
  <2>9. (Wanted(k)' <=> Wanted(k)) /\ (Owed(k)' <=> Owed(k))
    BY <1>1, <2>1 DEF Wanted, Owed
  <2> QED
    BY <1>1, <2>1, <2>2, <2>3, <2>4, <2>5, <2>6, <2>7, <2>8, <2>9
    DEF ReachesSession, Restored
<1>6. ASSUME NEW m \in Keys, RestoreSend(l, m) PROVE ReachesSession(l, k)'
  <2>1. /\ UNCHANGED <<pc, link, stale, raced>>
        /\ queue'[l] = queue[l] /\ todo'[l] = todo[l] \ {m}
        /\ link[l] = "up" => srv'[l] = srv[l] \cup {m}
    BY <1>6 DEF RestoreSend, Served, TypeOK, handleVars, raceVars
  <2> QED
    BY <1>1, <2>1 DEF ReachesSession, Restored, Wanted, Owed
<1> QED
  BY <1>2, <1>3, <1>4, <1>5, <1>6, TaskStepKinds

(* The first of the two inductive invariants, for keys of one caller.      *)
LEMMA MapReachesSessionHolds == Spec => []MapReachesSession
<1>1. Init => MapReachesSession
  BY KeysAssumption DEF Init, MapReachesSession
<1>2. TypeOK /\ SessionShape /\ MapReachesSession /\ [Next]_vars => MapReachesSession'
  <2> SUFFICES ASSUME TypeOK, SessionShape, MapReachesSession, [Next]_vars
               PROVE  MapReachesSession'
    OBVIOUS
  <2>1. CASE UNCHANGED vars
    BY <2>1 DEF vars, handleVars, locals, peerVars, raceVars, MapReachesSession,
                ReachesSession, Wanted, Owed, Restored
  <2>2. CASE Handle
    BY <2>2, HandleKeepsPending, HandleReachesSession DEF MapReachesSession
  <2>3. ASSUME NEW l \in Loops, ConnectionLoop(l) \/ LinkDown(l)
        PROVE  MapReachesSession'
    <3>1. UNCHANGED <<subs, pending, owner>>
      BY <2>3, TaskFrame
    <3>2. ASSUME NEW m \in Loops, NEW k \in SoleKeys, m = owner, m # l
          PROVE  ReachesSession(m, k)'
      <4>1. /\ ReachesSession(m, k)
            /\ queue'[m] = queue[m] /\ srv'[m] = srv[m] /\ todo'[m] = todo[m]
            /\ pc'[m] = pc[m] /\ link'[m] = link[m]
            /\ UNCHANGED <<stale, raced>>
        BY <2>3, <3>2, TaskFrame DEF MapReachesSession
      <4> QED
        BY <3>1, <4>1 DEF ReachesSession, Wanted, Owed, Restored
    <3> QED
      BY <2>3, <3>1, <3>2, TaskReachesSession DEF MapReachesSession
  <2> QED
    BY <2>1, <2>2, <2>3 DEF Next
<1> QED
  BY <1>1, <1>2, TypeCorrect, SessionShapeHolds, PTL DEF Spec

(* A key of the map that one caller at most works on is served in every    *)
(* settled session, over any number of reconnections, tasks and other      *)
(* callers, unless its subscribe() straddled the restoration.              *)
THEOREM SoleKeysServed ==
    Spec => [](\A l \in Loops : Settled(l) => (subs \cap SoleKeys) \ raced \subseteq srv[l])
<1> DEFINE Inv == \A l \in Loops :
                      Settled(l) => (subs \cap SoleKeys) \ raced \subseteq srv[l]
<1>1. SessionShape /\ MapReachesSession => Inv
  <2> SUFFICES ASSUME SessionShape, MapReachesSession,
                      NEW l \in Loops, Settled(l),
                      NEW k \in subs \cap SoleKeys, k \notin raced
               PROVE  k \in srv[l]
    OBVIOUS
  <2>1. /\ ReachesSession(l, k)
        /\ Restored(l) /\ Owed(k)
        /\ todo[l] = {} /\ queue[l] = <<>>
    BY DEF Settled, Restored, Owed, SessionShape, MapReachesSession
  <2> QED
    BY <2>1, EmptySaysNothing DEF ReachesSession
<1> QED
  BY <1>1, SessionShapeHolds, MapReachesSessionHolds, PTL

(* When no two callers share a key, every key of the map is served.  With  *)
(* a shared key one caller's insertion may come after the other's removal. *)
THEOREM MapIsServedHolds ==
    ASSUME KeysOwned
    PROVE  Spec => []MapIsServed
<1>1. TypeOK /\ (\A l \in Loops : Settled(l) => (subs \cap SoleKeys) \ raced \subseteq srv[l])
          => MapIsServed
  <2>1. SoleKeys = Keys
    BY KeysAssumption DEF KeysOwned, SoleKeys
  <2> QED
    BY <2>1 DEF TypeOK, MapIsServed
<1> QED
  BY <1>1, TypeCorrect, SoleKeysServed, PTL

-----------------------------------------------------------------------------
(* The session follows the map                                             *)

(* A removal from the map sends the unsubscription in the same step.       *)
LEMMA HandleFollowsMap ==
    ASSUME TypeOK, SessionShape, SessionFollowsMap, Handle,
           NEW l \in Loops, NEW k \in UnsubKeys \ RawKeys, l = owner'
    PROVE  FollowsMap(l, k)'
<1> DEFINE a == Sub(k)
           b == Unsub(k)
           q == queue[l]
<1>0. /\ k \in Keys /\ k # NoKey
      /\ a \in Commands /\ b \in Commands /\ a # b
      /\ q \in Seq(Commands)
  BY KeysAssumption, CommandsTyped, CommandsDiffer, QueueTyped
<1>1. ASSUME NEW n \in Loops, Connect(n) PROVE FollowsMap(l, k)'
  <2>1. queue'[l] = <<>> /\ srv'[l] = {} /\ todo'[l] = {}
    BY <1>1 DEF Connect, SessionShape, Born, peerVars, locals, TypeOK
  <2> QED
    BY <2>1, EmptySaysNothing DEF FollowsMap
<1>2. CASE DropHandle
  BY <1>2, KeysAssumption DEF DropHandle
<1> DEFINE Frame == UNCHANGED <<owner, srv, todo>>
<1>3. ASSUME NEW cmd \in Commands, cmd # a, Enqueue(cmd), Frame, Wanted(k) => Wanted(k)'
      PROVE  FollowsMap(l, k)'
  <2>1. queue'[l] = Append(q, cmd) /\ FollowsMap(l, k)
    BY <1>3, SentToOwner DEF SessionFollowsMap
  <2>2. Followed(q, a, b) => Followed(Append(q, cmd), a, b)
    BY <1>0, <1>3, AppendSaysLast
  <2>3. Queued(q, b) => Queued(Append(q, cmd), b)
    BY <1>0, AppendSaysLast
  <2> QED
    BY <1>3, <2>1, <2>2, <2>3 DEF FollowsMap
<1>4. ASSUME UNCHANGED queue, Frame, Wanted(k) => Wanted(k)' PROVE FollowsMap(l, k)'
  <2>1. FollowsMap(l, k)
    BY <1>4 DEF SessionFollowsMap
  <2> QED
    BY <1>4, <2>1 DEF FollowsMap
<1>5. ASSUME NEW r \in RawKeys, Send(r) PROVE FollowsMap(l, k)'
  <2>1. Enqueue(Sub(r)) /\ Frame /\ UNCHANGED <<subs, pending>>
    BY <1>5 DEF Send, locals, peerVars
  <2>2. Sub(r) \in Commands /\ Sub(r) # a
    BY <1>0, KeysAssumption, CommandsTyped, CommandsDiffer
  <2> QED
    BY <1>3, <2>1, <2>2 DEF Wanted
<1>6. ASSUME NEW c \in Callers, NEW m \in Touches[c], SubscribeSend(c, m)
      PROVE  FollowsMap(l, k)'
  <2>1. /\ Enqueue(Sub(m)) /\ Frame
        /\ pending[c] = NoKey
        /\ pending' = [pending EXCEPT ![c] = m]
        /\ UNCHANGED subs
    BY <1>6 DEF SubscribeSend, locals, peerVars
  <2>2. m \in Keys /\ Sub(m) \in Commands
    BY KeyTyped, CommandsTyped
  <2>3. CASE m = k
    <3>1. Wanted(k)'
      BY <2>1, <2>3 DEF Wanted, TypeOK
    <3> QED
      BY <3>1 DEF FollowsMap
  <2>4. CASE m # k
    <3>1. Sub(m) # a
      BY <1>0, <2>2, <2>4, CommandsDiffer
    <3>2. Wanted(k) => Wanted(k)'
      BY <1>0, <2>1 DEF Wanted, TypeOK
    <3> QED
      BY <1>3, <2>1, <2>2, <3>1, <3>2
  <2> QED
    BY <2>3, <2>4
<1>7. ASSUME NEW c \in Callers, SubscribeInsert(c) PROVE FollowsMap(l, k)'
  <2>1. /\ UNCHANGED queue /\ Frame
        /\ subs' = subs \cup {pending[c]}
        /\ pending' = [pending EXCEPT ![c] = NoKey]
    BY <1>7 DEF SubscribeInsert, locals, peerVars
  <2>2. \A d \in Callers : pending[d] = k => d = c \/ pending'[d] = k
    BY <2>1 DEF TypeOK
  <2>3. Wanted(k) => Wanted(k)'
    BY <2>1, <2>2 DEF Wanted
  <2> QED
    BY <1>4, <2>1, <2>3
<1>8. ASSUME NEW c \in Callers, NEW m \in Touches[c], Unsubscribe(c, m)
      PROVE  FollowsMap(l, k)'
  <2>1. /\ Frame
        /\ subs' = subs \ {m}
        /\ \/ m \in UnsubKeys /\ Enqueue(Unsub(m))
           \/ (m \in UnsubKeys => Done(owner)) /\ UNCHANGED queue
        /\ UNCHANGED pending
    BY <1>8 DEF Unsubscribe, locals, peerVars
  <2>2. m \in Keys /\ Unsub(m) \in Commands /\ Unsub(m) # a
    BY <1>0, KeyTyped, CommandsTyped, CommandsDiffer
  <2>3. CASE m # k
    <3>1. Wanted(k) => Wanted(k)'
      BY <2>1, <2>3 DEF Wanted
    <3> QED
      BY <1>3, <1>4, <2>1, <2>2, <3>1
  <2>4. CASE m = k /\ Enqueue(Unsub(m))
    <3>1. queue'[l] = Append(q, b)
      BY <1>0, <2>1, <2>4, SentToOwner
    <3>2. Followed(Append(q, b), a, b) /\ Queued(Append(q, b), b)
      BY <1>0, AppendSaysLast
    <3> QED
      BY <3>1, <3>2 DEF FollowsMap
  <2>5. CASE m = k /\ Done(owner) /\ UNCHANGED queue
    <3>1. queue'[l] = <<>> /\ srv'[l] = {} /\ todo'[l] = {}
      BY <2>1, <2>5 DEF SessionShape, Done
    <3> QED
      BY <3>1, EmptySaysNothing DEF FollowsMap
  <2> QED
    BY <2>1, <2>3, <2>4, <2>5
<1>9. CASE Close
  <2>1. Enqueue(CloseCmd) /\ Frame /\ UNCHANGED <<subs, pending>>
    BY <1>9 DEF Close, locals, peerVars
  <2>2. CloseCmd \in Commands /\ CloseCmd # a
    BY <1>0, CommandsTyped, CommandsDiffer
  <2> QED
    BY <1>3, <2>1, <2>2 DEF Wanted
<1> QED
  BY <1>1, <1>2, <1>5, <1>6, <1>7, <1>8, <1>9 DEF Handle

(* A task serves nothing a later unsubscription does not take back.        *)
LEMMA TaskFollowsMap ==
    ASSUME TypeOK, SessionShape, SessionFollowsMap,
           NEW l \in Loops, ConnectionLoop(l) \/ LinkDown(l), l = owner,
           NEW k \in UnsubKeys \ RawKeys
    PROVE  FollowsMap(l, k)'
<1> DEFINE a == Sub(k)
           b == Unsub(k)
           q == queue[l]
<1>0. /\ k \in Keys
      /\ a \in Commands /\ b \in Commands /\ a # b
      /\ q \in Seq(Commands)
  BY KeysAssumption, CommandsTyped, CommandsDiffer, QueueTyped
<1>1. /\ FollowsMap(l, k)
      /\ Wanted(k)' <=> Wanted(k)
  BY TaskFrame DEF SessionFollowsMap, Wanted
<1>2. CASE Quiet(l)
  BY <1>1, <1>2 DEF Quiet, FollowsMap
<1>3. CASE Ends(l)
  BY <1>1, <1>3, EmptySaysNothing DEF Ends, FollowsMap
<1>4. CASE RestoreBegin(l)
  <2>1. queue'[l] = queue[l] /\ todo'[l] = subs /\ srv'[l] = srv[l]
    BY <1>4 DEF RestoreBegin, TypeOK, handleVars, peerVars
  <2> QED
    BY <1>1, <2>1 DEF FollowsMap, Wanted
<1>5. CASE CmdSend(l)
  <2>1. q # <<>> /\ queue'[l] = Tail(q) /\ todo'[l] = {} /\ todo[l] = {}
    BY <1>5 DEF CmdSend, TypeOK, SessionShape, locals
  <2>2. k \in srv'[l] => Head(q) # b /\ (k \in srv[l] \/ Head(q) = a)
    <3>1. Head(q) \in Commands /\ Head(q) # CloseCmd
      BY <1>0, <1>5 DEF CmdSend
    <3>2. CASE link[l] # "up"
      BY <1>5, <3>2 DEF CmdSend, Served, SessionShape
    <3>3. CASE link[l] = "up" /\ Head(q).op = "sub" /\ Head(q) = Sub(Head(q).key)
      <4>1. srv'[l] = srv[l] \cup {Head(q).key}
        BY <1>5, <3>3 DEF CmdSend, Served, TypeOK
      <4>2. Head(q) # b
        BY <1>0, <3>1, <3>3, CommandsSplit, CommandsDiffer
      <4> QED
        BY <3>3, <4>1, <4>2
    <3>4. CASE link[l] = "up" /\ Head(q).op = "unsub" /\ Head(q) = Unsub(Head(q).key)
      <4>1. srv'[l] = srv[l] \ {Head(q).key}
        BY <1>5, <3>4 DEF CmdSend, Served, TypeOK
      <4>2. Head(q) = b => Head(q).key = k
        BY DEF Unsub
      <4> QED
        BY <4>1, <4>2
    <3> QED
      BY <3>1, <3>2, <3>3, <3>4, CommandsSplit
  <2>3. Followed(q, a, b) => Followed(Tail(q), a, b)
    BY <1>0, <2>1, TailKeepsWord
  <2>4. Queued(q, b) /\ Head(q) # b => Queued(Tail(q), b)
    BY <1>0, <2>1, TailKeepsWord
  <2>5. Followed(q, a, b) /\ Head(q) = a => Queued(Tail(q), b)
    BY <1>0, <2>1, TailKeepsWord
  <2> QED
    BY <1>1, <2>1, <2>2, <2>3, <2>4, <2>5 DEF FollowsMap
<1>6. ASSUME NEW m \in Keys, RestoreSend(l, m) PROVE FollowsMap(l, k)'
  <2>1. /\ queue'[l] = queue[l] /\ todo'[l] = todo[l] \ {m} /\ m \in todo[l]
        /\ srv'[l] \subseteq srv[l] \cup {m}
    BY <1>6 DEF RestoreSend, Served, TypeOK, handleVars
  <2> QED
    BY <1>1, <2>1 DEF FollowsMap
<1> QED
  BY <1>2, <1>3, <1>4, <1>5, <1>6, TaskStepKinds

(* The second, for keys of any number of callers.                          *)
LEMMA SessionFollowsMapHolds == Spec => []SessionFollowsMap
<1>1. Init => SessionFollowsMap
  BY KeysAssumption DEF Init, SessionFollowsMap
<1>2. TypeOK /\ SessionShape /\ SessionFollowsMap /\ [Next]_vars => SessionFollowsMap'
  <2> SUFFICES ASSUME TypeOK, SessionShape, SessionFollowsMap, [Next]_vars
               PROVE  SessionFollowsMap'
    OBVIOUS
  <2>1. CASE UNCHANGED vars
    BY <2>1 DEF vars, handleVars, locals, peerVars, SessionFollowsMap, FollowsMap, Wanted
  <2>2. CASE Handle
    BY <2>2, HandleFollowsMap DEF SessionFollowsMap
  <2>3. ASSUME NEW l \in Loops, ConnectionLoop(l) \/ LinkDown(l)
        PROVE  SessionFollowsMap'
    <3>1. UNCHANGED <<subs, pending, owner>>
      BY <2>3, TaskFrame
    <3>2. ASSUME NEW m \in Loops, NEW k \in UnsubKeys \ RawKeys, m = owner, m # l
          PROVE  FollowsMap(m, k)'
      <4>1. /\ FollowsMap(m, k)
            /\ queue'[m] = queue[m] /\ srv'[m] = srv[m] /\ todo'[m] = todo[m]
        BY <2>3, <3>2, TaskFrame DEF SessionFollowsMap
      <4> QED
        BY <3>1, <4>1 DEF FollowsMap, Wanted
    <3> QED
      BY <2>3, <3>1, <3>2, TaskFollowsMap DEF SessionFollowsMap
  <2> QED
    BY <2>1, <2>2, <2>3 DEF Next
<1> QED
  BY <1>1, <1>2, TypeCorrect, SessionShapeHolds, PTL DEF Spec

(* No reconnection and no late command revives a key that was unsubscribed *)
(* with a message, even when callers share keys.                           *)
THEOREM ServedIsInMapHolds == Spec => []ServedIsInMap
<1>1. TypeOK /\ SessionFollowsMap => ServedIsInMap
  <2> SUFFICES ASSUME TypeOK, SessionFollowsMap, NEW l \in Loops, Settled(l),
                      NEW k \in UnsubKeys \ RawKeys, k \in srv[l], k \notin subs
               PROVE  FALSE
    BY DEF ServedIsInMap
  <2>1. ~Wanted(k)
    BY KeysAssumption DEF Settled, Wanted
  <2> QED
    BY <2>1, EmptySaysNothing DEF Settled, SessionFollowsMap, FollowsMap
<1> QED
  BY <1>1, TypeCorrect, SessionFollowsMapHolds, PTL

(* Both together: of the keys that one caller at most works on and that    *)
(* are unsubscribed with a message, a settled session serves those of the  *)
(* map and no others, but for those whose subscribe() straddled the        *)
(* restoration.  A key without an unsubscribe message stays served after   *)
(* its removal, until the session ends.                                    *)
THEOREM SessionServesMap ==
    Spec => [](\A l \in Loops : Settled(l) =>
                   \A k \in (SoleKeys \cap UnsubKeys) \ (RawKeys \cup raced) :
                       k \in srv[l] <=> k \in subs)
<1> DEFINE MapServed == \A l \in Loops :
                          Settled(l) => (subs \cap SoleKeys) \ raced \subseteq srv[l]
           Both == \A l \in Loops : Settled(l) =>
                       \A k \in (SoleKeys \cap UnsubKeys) \ (RawKeys \cup raced) :
                           k \in srv[l] <=> k \in subs
<1>1. MapServed /\ ServedIsInMap => Both
  BY DEF ServedIsInMap
<1> QED
  BY <1>1, SoleKeysServed, ServedIsInMapHolds, PTL
=============================================================================
