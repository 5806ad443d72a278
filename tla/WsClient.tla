------------------------------- MODULE WsClient -------------------------------
(***************************************************************************)
(* The native WebSocket client, src/src/client/websocket.rs.               *)
(*                                                                         *)
(* A WsClient is a handle.  Every call of connect() spawns a task that     *)
(* runs connection_loop: it dials, announces the connection, restores the  *)
(* subscription map, then serves socket, command queue and ping timer in   *)
(* one select!; when the connection breaks it backs off and dials again.   *)
(* The handle's other methods push commands into the task's queue and edit *)
(* the subscription map they share with it.                                *)
(*                                                                         *)
(* The peer is the environment: it accepts or refuses a dial, may end a    *)
(* session at any time and answers pings or does not.  A message sent on a *)
(* session that is up takes effect at once; what is sent on a dead one is  *)
(* lost, whether or not the send reports it.  Arms of the select! that     *)
(* touch no modelled state (text and binary frames, pings of the peer, the *)
(* HealthOk/HealthWarning timer) are left out.  WsCommand::Ping is left    *)
(* out too: no method of the client sends it.                              *)
(***************************************************************************)
EXTENDS Integers, Sequences, FiniteSets

CONSTANTS
    Loops,      \* tasks connect() may spawn: bounds the number of its calls
    Keys,       \* subscription keys, "channel:symbol"
    RawKeys,    \* keys subscribed with a bare send(), never entered in the map
    UnsubKeys,  \* keys whose Subscription has an unsubscribe_message
    Callers,    \* tasks that share the handle
    Touches,    \* the keys each caller subscribes to and unsubscribes from
    Configs,    \* the values of WsConfig considered
    MaxQueue,   \* bound on the commands waiting in one queue
    NoLoop, NoKey

ASSUME KeysAssumption ==
    /\ RawKeys \subseteq Keys
    /\ UnsubKeys \subseteq Keys
    /\ Touches \in [Callers -> SUBSET (Keys \ RawKeys)]
    /\ NoLoop \notin Loops
    /\ NoKey \notin Keys

ASSUME ConfigsAssumption ==
    Configs \subseteq
        [enabled : BOOLEAN, auto_reconnect : BOOLEAN,
         max_attempts : Nat, max_reconnect_attempts : Nat,
         health_check : BOOLEAN, max_missed_pongs : Nat]

ASSUME QueueAssumption == MaxQueue \in Nat

VARIABLES
    config,      \* WsConfig, fixed when the client is built
    \* the handle and what it shares with its tasks
    cstate,      \* ConnectionState behind the RwLock
    subs,        \* the keys of the subscription map
    failures,    \* metrics.consecutive_failures
    owner,       \* the task command_tx leads to, or NoLoop
    dropped,     \* the handle is gone, and command_tx with it
    queue,       \* the command channel of each task
    pending,     \* the key a caller's subscribe() still has to insert
    \* the locals of each connection_loop
    pc, attempts, first, missed, todo,
    evt,         \* the last life-cycle event sent to the consumer
    \* the peer, per task
    link,        \* "none", "up", or "down": over, but not yet noticed
    srv,         \* the subscriptions of the peer's session
    \* history
    unanswered,  \* pings sent on this connection since a pong was read
    stale,       \* callers whose subscribe() straddles a restoration
    raced        \* keys inserted by such a subscribe()

handleVars == <<owner, dropped, queue, pending>>
locals     == <<attempts, first, missed, todo, evt>>
peerVars   == <<link, srv, unanswered>>
raceVars   == <<stale, raced>>
vars == <<config, cstate, subs, failures, handleVars, pc, locals, peerVars, raceVars>>

ConnectionState == {"Disconnected", "Connecting", "Connected", "Reconnecting", "Closed"}

Phases == {"none", "start", "dialing", "opened", "connected", "restoring", "running",
           "broken", "dropped", "failed", "backoff", "sleeping", "closed", "exhausted"}

Commands == [op : {"sub", "unsub"}, key : Keys] \cup [op : {"close"}]
Sub(k)   == [op |-> "sub", key |-> k]
Unsub(k) == [op |-> "unsub", key |-> k]
CloseCmd == [op |-> "close"]

EventKinds == {"Nothing", "Connected", "Reconnected", "Reconnecting", "Disconnected", "Error"}
Event(kind, n) == [kind |-> kind, n |-> n]

ReconnectEnabled == config.enabled \/ config.auto_reconnect

MaxAttempts == IF config.max_attempts > 0 THEN config.max_attempts
                                          ELSE config.max_reconnect_attempts

\* Faulty variant: one attempt too many.
CanRetryOnceMore(l) ==
    ReconnectEnabled /\ (MaxAttempts = 0 \/ attempts[l] <= MaxAttempts)

CanRetry(l) == ReconnectEnabled /\ (MaxAttempts = 0 \/ attempts[l] < MaxAttempts)

\* The task has returned: its end of the command channel is gone.
Done(l) == pc[l] \in {"closed", "exhausted"}

Goto(l, from, to) == pc[l] = from /\ pc' = [pc EXCEPT ![l] = to]

\* Faulty variant: the read lock outlives the restoration.
LockedInSession == \E l \in Loops : pc[l] \in {"restoring", "running"}

\* A restoration holds the read lock of the map over all its sends.
ReadLocked == \E l \in Loops : pc[l] = "restoring"

Init ==
    /\ config \in Configs
    /\ cstate = "Disconnected"
    /\ subs = {}
    /\ failures = 0
    /\ owner = NoLoop
    /\ dropped = FALSE
    /\ queue = [l \in Loops |-> <<>>]
    /\ pending = [c \in Callers |-> NoKey]
    /\ pc = [l \in Loops |-> "none"]
    /\ attempts = [l \in Loops |-> 0]
    /\ first = [l \in Loops |-> TRUE]
    /\ missed = [l \in Loops |-> 0]
    /\ todo = [l \in Loops |-> {}]
    /\ evt = [l \in Loops |-> Event("Nothing", 0)]
    /\ link = [l \in Loops |-> "none"]
    /\ srv = [l \in Loops |-> {}]
    /\ unanswered = [l \in Loops |-> 0]
    /\ stale = {}
    /\ raced = {}

-----------------------------------------------------------------------------
(* The handle                                                              *)

\* connect() borrows the handle mutably: no caller is inside a method.
\* The previous command_tx is overwritten, its task keeps running.
Connect(l) ==
    /\ ~dropped
    /\ \A c \in Callers : pending[c] = NoKey
    /\ pc[l] = "none"
    /\ owner' = l
    /\ pc' = [pc EXCEPT ![l] = "start"]
    /\ UNCHANGED <<config, cstate, subs, failures, dropped, queue, pending, locals,
                   peerVars, raceVars>>

\* The handle goes out of scope, as it does at the end of an adapter's watch_*.
DropHandle ==
    /\ ~dropped
    /\ \A c \in Callers : pending[c] = NoKey
    /\ dropped' = TRUE
    /\ owner' = NoLoop
    /\ UNCHANGED <<config, cstate, subs, failures, queue, pending, pc, locals,
                   peerVars, raceVars>>

\* A send succeeds silently before the first connect() and fails once the task
\* has returned.
Sendable == owner # NoLoop => ~Done(owner) /\ Len(queue[owner]) < MaxQueue

Enqueue(cmd) ==
    IF owner = NoLoop THEN UNCHANGED queue
    ELSE queue' = [queue EXCEPT ![owner] = Append(@, cmd)]

Send(k) ==
    /\ ~dropped
    /\ Sendable
    /\ Enqueue(Sub(k))
    /\ UNCHANGED <<config, cstate, subs, failures, owner, dropped, pending, pc, locals,
                   peerVars, raceVars>>

\* subscribe(): the message is queued first ...
SubscribeSend(c, k) ==
    /\ ~dropped
    /\ pending[c] = NoKey
    /\ Sendable
    /\ Enqueue(Sub(k))
    /\ pending' = [pending EXCEPT ![c] = k]
    /\ UNCHANGED <<config, cstate, subs, failures, owner, dropped, pc, locals,
                   peerVars, raceVars>>

\* ... and the key is entered in the map once the write lock is free.
SubscribeInsert(c) ==
    /\ pending[c] # NoKey
    /\ ~ReadLocked
    /\ subs' = subs \cup {pending[c]}
    /\ pending' = [pending EXCEPT ![c] = NoKey]
    /\ raced' = IF c \in stale THEN raced \cup {pending[c]} ELSE raced
    /\ stale' = stale \ {c}
    /\ UNCHANGED <<config, cstate, failures, owner, dropped, queue, pc, locals,
                   peerVars>>

\* Faulty variant: the message is only sent to a client that is connected.
UnsubscribeIfConnected(c, k) ==
    /\ ~dropped
    /\ pending[c] = NoKey
    /\ ~ReadLocked
    /\ k \in subs
    /\ subs' = subs \ {k}
    /\ raced' = raced \ {k}
    /\ IF cstate = "Connected" THEN Sendable /\ Enqueue(Unsub(k)) ELSE UNCHANGED queue
    /\ UNCHANGED <<config, cstate, failures, owner, dropped, pending, stale,
                   pc, locals, peerVars>>

\* unsubscribe(): removal and message under one write lock; when the task has
\* returned the removal stays although the call fails.
Unsubscribe(c, k) ==
    /\ ~dropped
    /\ pending[c] = NoKey
    /\ ~ReadLocked
    /\ k \in subs
    /\ subs' = subs \ {k}
    /\ raced' = raced \ {k}
    /\ \/ /\ k \in UnsubKeys
          /\ Sendable
          /\ Enqueue(Unsub(k))
       \/ /\ k \in UnsubKeys => owner # NoLoop /\ Done(owner)
          /\ UNCHANGED queue
    /\ UNCHANGED <<config, cstate, failures, owner, dropped, pending, stale,
                   pc, locals, peerVars>>

Close ==
    /\ ~dropped
    /\ owner \in Loops
    /\ Sendable
    /\ Enqueue(CloseCmd)
    /\ UNCHANGED <<config, cstate, subs, failures, owner, dropped, pending, pc, locals,
                   peerVars, raceVars>>

-----------------------------------------------------------------------------
(* connection_loop: dialing and announcing                                 *)

\* Faulty variant: giving up does not return.
BeginDialAfterGivingUp(l) ==
    /\ Goto(l, "start", "dialing") \/ Goto(l, "exhausted", "dialing")
    /\ cstate' = "Connecting"
    /\ UNCHANGED <<config, subs, failures, handleVars, locals, peerVars, raceVars>>

BeginDial(l) ==
    /\ Goto(l, "start", "dialing")
    /\ cstate' = "Connecting"
    /\ UNCHANGED <<config, subs, failures, handleVars, locals, peerVars, raceVars>>

\* Faulty variant: the counter is reset before it is reported.
AnnouncementOfZero(l) == IF first[l] THEN Event("Connected", 0)
                                     ELSE Event("Reconnected", 0)

Announcement(l) == IF first[l] THEN Event("Connected", 0)
                               ELSE Event("Reconnected", attempts[l])

\* The event is sent and the counters are reset before the state is written.
DialOk(l) ==
    /\ Goto(l, "dialing", "opened")
    /\ failures' = 0
    /\ evt' = [evt EXCEPT ![l] = Announcement(l)]
    /\ attempts' = [attempts EXCEPT ![l] = 0]
    /\ missed' = [missed EXCEPT ![l] = 0]
    /\ first' = [first EXCEPT ![l] = FALSE]
    /\ link' = [link EXCEPT ![l] = "up"]
    /\ srv' = [srv EXCEPT ![l] = {}]
    /\ unanswered' = [unanswered EXCEPT ![l] = 0]
    /\ UNCHANGED <<config, cstate, subs, handleVars, todo, raceVars>>

PublishConnected(l) ==
    /\ Goto(l, "opened", "connected")
    /\ cstate' = "Connected"
    /\ UNCHANGED <<config, subs, failures, handleVars, locals, peerVars, raceVars>>

\* connect_async failed, or connect_timeout_secs ran out: both are handled alike.
DialFail(l) ==
    /\ Goto(l, "dialing", "failed")
    /\ failures' = failures + 1
    /\ evt' = [evt EXCEPT ![l] = Event("Error", 0)]
    /\ UNCHANGED <<config, cstate, subs, handleVars, attempts, first, missed, todo,
                   peerVars, raceVars>>

-----------------------------------------------------------------------------
(* connection_loop: restoring the subscriptions                            *)

RestoreBegin(l) ==
    /\ Goto(l, "connected", "restoring")
    /\ todo' = [todo EXCEPT ![l] = subs]
    /\ stale' = IF l = owner THEN {c \in Callers : pending[c] # NoKey} ELSE stale
    /\ raced' = IF l = owner THEN {} ELSE raced
    /\ UNCHANGED <<config, cstate, subs, failures, handleVars, attempts, first, missed,
                   evt, peerVars>>

\* What the peer's session becomes when it is sent a subscription message.
Served(l, S) == IF link[l] = "up" THEN [srv EXCEPT ![l] = S] ELSE srv

\* The result of the send is ignored.
RestoreSend(l, k) ==
    /\ pc[l] = "restoring"
    /\ k \in todo[l]
    /\ todo' = [todo EXCEPT ![l] = @ \ {k}]
    /\ srv' = Served(l, srv[l] \cup {k})
    /\ UNCHANGED <<config, cstate, subs, failures, handleVars, pc, attempts, first,
                   missed, evt, link, unanswered, raceVars>>

\* Faulty variant: the restoration stops early.
RestoreEndEarly(l) ==
    /\ Goto(l, "restoring", "running")
    /\ UNCHANGED <<config, cstate, subs, failures, handleVars, locals, peerVars,
                   raceVars>>

RestoreEnd(l) ==
    /\ Goto(l, "restoring", "running")
    /\ todo[l] = {}
    /\ UNCHANGED <<config, cstate, subs, failures, handleVars, locals, peerVars,
                   raceVars>>

-----------------------------------------------------------------------------
(* connection_loop: the select!                                            *)

\* Faulty variant: a pong does not clear the count of misses.
ReadPongKeepsCount(l) ==
    /\ pc[l] = "running"
    /\ unanswered' = [unanswered EXCEPT ![l] = 0]
    /\ UNCHANGED <<config, cstate, subs, failures, handleVars, pc, locals, link, srv,
                   raceVars>>

ReadPong(l) ==
    /\ pc[l] = "running"
    /\ missed' = [missed EXCEPT ![l] = 0]
    /\ unanswered' = [unanswered EXCEPT ![l] = 0]
    /\ UNCHANGED <<config, cstate, subs, failures, handleVars, pc, attempts, first,
                   todo, evt, link, srv, raceVars>>

\* A close frame or the end of the stream sends Disconnected, a read error
\* sends Error only.
ReadEnd(l) ==
    /\ Goto(l, "running", "broken")
    /\ link[l] = "down"
    /\ \E kind \in {"Disconnected", "Error"} : evt' = [evt EXCEPT ![l] = Event(kind, 0)]
    /\ UNCHANGED <<config, cstate, subs, failures, handleVars, attempts, first, missed,
                   todo, peerVars, raceVars>>

\* A write on a session that is up succeeds; on a dead one it may seem to.
Written(l) == UNCHANGED pc \/ (link[l] = "down" /\ Goto(l, "running", "broken"))

\* A message leaves the queue for good before it is written.
CmdSend(l) ==
    /\ pc[l] = "running"
    /\ queue[l] # <<>>
    /\ Head(queue[l]) # CloseCmd
    /\ queue' = [queue EXCEPT ![l] = Tail(@)]
    /\ LET cmd == Head(queue[l])
       IN srv' = Served(l, IF cmd.op = "sub" THEN srv[l] \cup {cmd.key}
                                             ELSE srv[l] \ {cmd.key})
    /\ Written(l)
    /\ UNCHANGED <<config, cstate, subs, failures, owner, dropped, pending, locals,
                   link, unanswered, raceVars>>

CmdClose(l) ==
    /\ Goto(l, "running", "closed")
    /\ queue[l] # <<>>
    /\ Head(queue[l]) = CloseCmd
    /\ queue' = [queue EXCEPT ![l] = <<>>]
    /\ cstate' = "Closed"
    /\ evt' = [evt EXCEPT ![l] = Event("Disconnected", 0)]
    /\ link' = [link EXCEPT ![l] = "none"]
    /\ srv' = [srv EXCEPT ![l] = {}]
    /\ UNCHANGED <<config, subs, failures, owner, dropped, pending, attempts, first,
                   missed, todo, unanswered, raceVars>>

\* recv() yields None: every sender is gone and the queue is drained.
CmdNone(l) ==
    /\ Goto(l, "running", "broken")
    /\ owner # l
    /\ queue[l] = <<>>
    /\ UNCHANGED <<config, cstate, subs, failures, handleVars, locals, peerVars,
                   raceVars>>

\* Without the health check pings are sent but not counted.
PingTick(l) ==
    /\ pc[l] = "running"
    /\ \/ /\ config.health_check
          /\ missed' = [missed EXCEPT ![l] = @ + 1]
          /\ IF missed'[l] >= config.max_missed_pongs
             THEN /\ Goto(l, "running", "broken")
                  /\ evt' = [evt EXCEPT ![l] = Event("Error", 0)]
                  /\ UNCHANGED unanswered
             ELSE /\ Written(l)
                  /\ unanswered' = [unanswered EXCEPT ![l] = @ + 1]
                  /\ UNCHANGED evt
       \/ /\ ~config.health_check
          /\ Written(l)
          /\ UNCHANGED <<missed, evt, unanswered>>
    /\ UNCHANGED <<config, cstate, subs, failures, handleVars, attempts, first, todo,
                   link, srv, raceVars>>

-----------------------------------------------------------------------------
(* connection_loop: backing off                                            *)

\* Faulty variant: the state is left as it was.
LeaveSessionSilently(l) ==
    /\ Goto(l, "broken", "dropped")
    /\ UNCHANGED <<config, cstate, subs, failures, handleVars, locals, peerVars,
                   raceVars>>

\* Faulty variant: commands still waiting are discarded with the session.
LeaveSessionDraining(l) ==
    /\ Goto(l, "broken", "dropped")
    /\ cstate' = "Disconnected"
    /\ queue' = [queue EXCEPT ![l] = <<>>]
    /\ UNCHANGED <<config, subs, failures, owner, dropped, pending, locals, peerVars,
                   raceVars>>

PublishDisconnected(l) ==
    /\ Goto(l, "broken", "dropped")
    /\ cstate' = "Disconnected"
    /\ UNCHANGED <<config, subs, failures, handleVars, locals, peerVars, raceVars>>

\* Faulty variant: the attempts are counted down.
OneAttemptLess(l) == attempts[l] - 1

NextAttempt(l) == attempts[l] + 1

Retry(l) ==
    /\ pc[l] \in {"failed", "dropped"}
    /\ CanRetry(l)
    /\ attempts' = [attempts EXCEPT ![l] = NextAttempt(l)]
    /\ evt' = [evt EXCEPT ![l] = Event("Reconnecting", NextAttempt(l))]
    /\ pc' = [pc EXCEPT ![l] = "backoff"]
    /\ UNCHANGED <<config, cstate, subs, failures, handleVars, first, missed, todo,
                   peerVars, raceVars>>

PublishReconnecting(l) ==
    /\ Goto(l, "backoff", "sleeping")
    /\ cstate' = "Reconnecting"
    /\ UNCHANGED <<config, subs, failures, handleVars, locals, peerVars, raceVars>>

\* The socket halves live until the end of the iteration, after the sleep.
Wake(l) ==
    /\ Goto(l, "sleeping", "start")
    /\ link' = [link EXCEPT ![l] = "none"]
    /\ srv' = [srv EXCEPT ![l] = {}]
    /\ UNCHANGED <<config, cstate, subs, failures, handleVars, locals, unanswered,
                   raceVars>>

\* No event tells the consumer that the task is over.
GiveUp(l) ==
    /\ pc[l] \in {"failed", "dropped"}
    /\ ~CanRetry(l)
    /\ cstate' = "Closed"
    /\ pc' = [pc EXCEPT ![l] = "exhausted"]
    /\ queue' = [queue EXCEPT ![l] = <<>>]
    /\ link' = [link EXCEPT ![l] = "none"]
    /\ srv' = [srv EXCEPT ![l] = {}]
    /\ UNCHANGED <<config, subs, failures, owner, dropped, pending, locals, unanswered,
                   raceVars>>

-----------------------------------------------------------------------------
(* The network or the peer ends the session.                               *)
LinkDown(l) ==
    /\ link[l] = "up"
    /\ link' = [link EXCEPT ![l] = "down"]
    /\ srv' = [srv EXCEPT ![l] = {}]
    /\ UNCHANGED <<config, cstate, subs, failures, handleVars, pc, locals, unanswered,
                   raceVars>>

Handle ==
    \/ \E l \in Loops : Connect(l)
    \/ DropHandle
    \/ \E k \in RawKeys : Send(k)
    \/ \E c \in Callers : \E k \in Touches[c] : SubscribeSend(c, k)
    \/ \E c \in Callers : SubscribeInsert(c)
    \/ \E c \in Callers : \E k \in Touches[c] : Unsubscribe(c, k)
    \/ Close

ConnectionLoop(l) ==
    \/ BeginDial(l)
    \/ DialOk(l)
    \/ PublishConnected(l)
    \/ DialFail(l)
    \/ RestoreBegin(l)
    \/ \E k \in Keys : RestoreSend(l, k)
    \/ RestoreEnd(l)
    \/ ReadPong(l)
    \/ ReadEnd(l)
    \/ CmdSend(l)
    \/ CmdClose(l)
    \/ CmdNone(l)
    \/ PingTick(l)
    \/ PublishDisconnected(l)
    \/ Retry(l)
    \/ PublishReconnecting(l)
    \/ Wake(l)
    \/ GiveUp(l)

Next == Handle \/ \E l \in Loops : ConnectionLoop(l) \/ LinkDown(l)

Spec == Init /\ [][Next]_vars
=============================================================================
