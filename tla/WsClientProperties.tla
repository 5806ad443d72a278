-------------------------- MODULE WsClientProperties --------------------------
(***************************************************************************)
(* What WsClient guarantees, to its callers and to its consumer.           *)
(***************************************************************************)
EXTENDS WsClient

\* Every variable of the handle, of its tasks and of their peers keeps its type.
TypeOK ==
    /\ config \in Configs
    /\ cstate \in ConnectionState
    /\ subs \subseteq Keys
    /\ failures \in Nat
    /\ owner \in Loops \cup {NoLoop}
    /\ dropped \in BOOLEAN
    /\ queue \in [Loops -> Seq(Commands)]
    /\ pending \in [Callers -> Keys \cup {NoKey}]
    /\ pc \in [Loops -> Phases]
    /\ attempts \in [Loops -> Nat]
    /\ first \in [Loops -> BOOLEAN]
    /\ missed \in [Loops -> Nat]
    /\ todo \in [Loops -> SUBSET Keys]
    /\ evt \in [Loops -> [kind : EventKinds, n : Nat]]
    /\ link \in [Loops -> {"none", "up", "down"}]
    /\ srv \in [Loops -> SUBSET Keys]
    /\ unanswered \in [Loops -> Nat]
    /\ stale \subseteq Callers
    /\ raced \subseteq Keys

-----------------------------------------------------------------------------
(* The published state                                                     *)

\* The phases in which a task has published Connected and not yet taken it back.
Published == {"connected", "restoring", "running", "broken"}

Born(l) == pc[l] # "none"

OneLoop == \A l, m \in Loops : Born(l) /\ Born(m) => l = m

\* state() answers Connected only while some task holds a session it has
\* announced: a task that leaves its session overwrites the state before it
\* backs off, returns or dials, whatever other tasks of the handle write.
ConnectedMeansSession ==
    cstate = "Connected" => \E l \in Loops : pc[l] \in Published

\* While connect() was called once, Closed is final: no queued command, late
\* frame or timer brings the client back.
ClosedIsFinal ==
    [][cstate = "Closed" /\ OneLoop /\ OneLoop' => cstate' = "Closed"]_vars

-----------------------------------------------------------------------------
(* Reconnection                                                            *)

\* The failures the metrics count without a success in between stay within the
\* attempts the configuration allows: one dial more than attempts, and a single
\* one when reconnection is off.
FailuresWithinBudget ==
    OneLoop /\ MaxAttempts > 0 =>
        failures <= IF ReconnectEnabled THEN MaxAttempts + 1 ELSE 1

\* A task the health check has just taken out of its session.
HealthFailed(l) ==
    pc[l] = "broken" /\ config.health_check /\ missed[l] >= config.max_missed_pongs

\* The health check ends a session only after max_missed_pongs - 1 pings of that
\* same session went unanswered: no count carries over from an earlier session
\* or from before a pong.
HealthFailureNeedsSilence ==
    \A l \in Loops : HealthFailed(l) => unanswered[l] + 1 >= config.max_missed_pongs

-----------------------------------------------------------------------------
(* Subscriptions                                                           *)

\* The current task is in session, has handled every command, and no caller is
\* inside subscribe(): what the map says and what the peer serves can be compared.
Settled(l) ==
    /\ l = owner
    /\ pc[l] = "running"
    /\ link[l] = "up"
    /\ queue[l] = <<>>
    /\ \A c \in Callers : pending[c] = NoKey

\* Every key of the map is served by the peer, over any number of reconnections,
\* except a key whose subscribe() had sent its message but not yet entered the
\* map when the session was restored.
MapIsServed == \A l \in Loops : Settled(l) => subs \ raced \subseteq srv[l]

\* The peer serves no key the map does not hold, once its unsubscription had a
\* message: no restoration or late command revives it.
ServedIsInMap ==
    \A l \in Loops : Settled(l) => srv[l] \cap (UnsubKeys \ RawKeys) \subseteq subs

-----------------------------------------------------------------------------
(* What the source says of itself and the code does not do.                *)

\* websocket.rs promises that a reconnection restores the subscriptions: a settled
\* session serves every key of the map.
SubscriptionsRestored == \A l \in Loops : Settled(l) => subs \subseteq srv[l]

-----------------------------------------------------------------------------
(* The events of each task are a WsEventStream.                            *)

Stream(l) == INSTANCE WsEventStream
    WITH limit <- MaxAttempts, last <- evt[l], attempt <- attempts[l],
         greeted <- ~first[l]

\* Sessions, failures and retries are reported to the consumer in the order and
\* with the numbers WsEventStream promises.
EventsFollowStream ==
    /\ \A l \in Loops : Stream(l)!StreamInit
    /\ [][\A l \in Loops : [Stream(l)!StreamNext]_(Stream(l)!streamVars)]_vars

-----------------------------------------------------------------------------
(* The inductive invariants behind these properties                        *)

\* Closed is the last word of a task that has returned.
ClosedByTheEnd == OneLoop /\ cstate = "Closed" => \E l \in Loops : Done(l)

\* In a session the misses never outnumber the pings left unanswered; the tick
\* that ends a session counts one ping it does not send.
MissesCovered ==
    \A l \in Loops :
        /\ pc[l] \in {"opened", "connected", "restoring", "running"} =>
               missed[l] <= unanswered[l]
        /\ pc[l] = "broken" => missed[l] <= unanswered[l] + 1

\* A failure is counted as an attempt by the Retry that follows it.
FailuresCovered ==
    /\ \A l \in Loops :
        /\ MaxAttempts > 0 => attempts[l] <= MaxAttempts
        /\ ~ReconnectEnabled => attempts[l] = 0
        /\ OneLoop /\ Born(l) =>
               failures <= IF pc[l] \in {"failed", "exhausted"} THEN attempts[l] + 1
                                                                ELSE attempts[l]
    /\ (\A l \in Loops : ~Born(l)) => failures = 0

\* The phase of a task tells what its last event was about.
EventsFitPhases ==
    \A l \in Loops :
        /\ pc[l] \in {"none", "start", "dialing", "backoff", "sleeping"} =>
               evt[l].kind \in {"Nothing", "Reconnecting"}
        /\ pc[l] \in {"opened", "connected", "restoring", "running"} =>
               evt[l].kind \in {"Connected", "Reconnected"}
        /\ pc[l] \in {"broken", "dropped", "failed"} =>
               evt[l].kind \notin {"Nothing", "Reconnecting"}

\* A task before its connect() and after its return holds no session and no
\* commands, only a restoration has keys left to send, and only a session that
\* is up serves keys.  command_tx leads to a task that was started.
SessionShape ==
    /\ owner \in Loops => Born(owner)
    /\ \A l \in Loops :
        /\ ~Born(l) \/ Done(l) => link[l] = "none" /\ queue[l] = <<>>
        /\ pc[l] # "restoring" => todo[l] = {}
        /\ link[l] # "up" => srv[l] = {}

\* In the queue q: a waits, and every a has a b behind it.
Queued(q, a) == \E i \in DOMAIN q : q[i] = a
Followed(q, a, b) ==
    \A i \in DOMAIN q : q[i] = a => \E j \in DOMAIN q : j > i /\ q[j] = b

\* The key is in the map or about to be entered.
Wanted(k) == k \in subs \/ \E c \in Callers : pending[c] = k

\* The keys at most one caller works on.
SoleKeys ==
    {k \in Keys : \A c, d \in Callers : k \in Touches[c] \cap Touches[d] => c = d}

KeysOwned == \A c, d \in Callers : c # d => Touches[c] \cap Touches[d] = {}

\* A session whose restoration has begun.
Restored(l) == link[l] = "up" /\ pc[l] \notin {"opened", "connected"}

\* The key was in the map when the session was restored, or its subscribe() has
\* come since.
Owed(k) == k \in subs \ raced \/ \E c \in Callers \ stale : pending[c] = k

\* subscribe() sends before it inserts and unsubscribe() removes as it sends: what
\* the queue says last of a key of the map is its subscription, and what a session
\* owes is served, to be restored or queued.
ReachesSession(l, k) ==
    /\ Wanted(k) => Followed(queue[l], Unsub(k), Sub(k))
    /\ Restored(l) /\ Owed(k) => k \in srv[l] \cup todo[l] \/ Queued(queue[l], Sub(k))

MapReachesSession ==
    /\ \A c \in Callers : pending[c] \in Touches[c] \cup {NoKey}
    /\ \A l \in Loops : \A k \in SoleKeys : l = owner => ReachesSession(l, k)

\* A key that left the map has its unsubscription behind all that subscribes it.
FollowsMap(l, k) ==
    ~Wanted(k) => /\ Followed(queue[l], Sub(k), Unsub(k))
                  /\ k \in srv[l] \cup todo[l] => Queued(queue[l], Unsub(k))

SessionFollowsMap ==
    \A l \in Loops : \A k \in UnsubKeys \ RawKeys : l = owner => FollowsMap(l, k)

-----------------------------------------------------------------------------
(* Fairness and liveness                                                   *)

\* The steps a task takes outside its select!.  A dial always ends, if only by
\* its timeout; sleeps end; nothing else can hold the task up.
Advance(l) ==
    \/ BeginDial(l) \/ DialOk(l) \/ PublishConnected(l) \/ DialFail(l)
    \/ RestoreBegin(l) \/ (\E k \in Keys : RestoreSend(l, k)) \/ RestoreEnd(l)
    \/ PublishDisconnected(l) \/ Retry(l) \/ PublishReconnecting(l)
    \/ Wake(l) \/ GiveUp(l)

\* select! picks at random among its ready arms, so an arm that is ready again
\* and again is taken.
ServeCommand(l) == CmdSend(l) \/ CmdClose(l) \/ CmdNone(l)

\* tokio's RwLock serves writers in turn.
Fairness ==
    /\ \A l \in Loops : /\ WF_vars(Advance(l))
                        /\ SF_vars(ServeCommand(l))
    /\ \A c \in Callers : SF_vars(SubscribeInsert(c))

FairSpec == Spec /\ Fairness

CloseQueued(l) == \E i \in DOMAIN queue[l] : queue[l][i] = CloseCmd

\* A close() that was accepted ends the task, even if it comes while the task is
\* dialing or backing off and however the session flaps.
CloseEndsTask == \A l \in Loops : CloseQueued(l) ~> Done(l)

\* subscribe() returns: no restoration keeps the map locked.
SubscribeReturns == \A c \in Callers : pending[c] # NoKey ~> pending[c] = NoKey

\* On a session that lasts, every key the map holds gets served, unless it is
\* removed first or its subscribe() straddled the restoration.
MapGetsServed ==
    \A l \in Loops : \A k \in Keys :
        <>[](link[l] = "up" /\ l = owner) =>
            []((k \in subs) => <>(k \in srv[l] \/ k \notin subs \/ k \in raced))
=============================================================================
