--------------------------- MODULE BrowserWsClient ---------------------------
(***************************************************************************)
(* The WebSocket client of the browser build,                              *)
(* src/src/client/websocket_wasm.rs.                                       *)
(*                                                                         *)
(* One thread: the client's methods and the callbacks of the socket run to *)
(* their end, one after the other, in an order the browser chooses.  Each  *)
(* connect() makes a socket and hands it four callbacks, which the client  *)
(* keeps alive; the next connect() drops them, and the old socket, still   *)
(* connected, calls into nothing.  The client does not reconnect.          *)
(*                                                                         *)
(* The browser's socket is the environment: it refuses to send before it   *)
(* is open, and swallows what is sent after that.  The counters of         *)
(* WsMetrics other than consecutive_failures, and the incoming messages,   *)
(* are left out.                                                           *)
(***************************************************************************)
EXTENDS Integers

CONSTANTS
    Keys,         \* subscription keys, "channel:symbol"
    UnsubKeys,    \* those with an unsubscribe_message
    MaxSockets,   \* bound on the calls of connect()
    MaxFailures,  \* where the count of failures stops
    None

ASSUME BrowserAssumption ==
    /\ UnsubKeys \subseteq Keys
    /\ MaxSockets \in Nat
    /\ MaxFailures \in Nat
    /\ None \notin Int

Sockets == 1..MaxSockets

VARIABLES
    state,      \* ConnectionState
    ws,         \* the socket in ws, or None
    wired,      \* the socket whose callbacks are alive, or None
    subs,       \* the keys of subscriptions
    failures,   \* metrics.consecutive_failures
    evt,        \* the last life-cycle event sent to the present receiver
    \* the browser and the peer
    phase,      \* readyState of each socket; "failed" between its error and close events
    srv         \* what the peer of each socket serves

vars == <<state, ws, wired, subs, failures, evt, phase, srv>>

ConnectionState == {"Disconnected", "Connecting", "Connected", "Reconnecting", "Closed"}
ReadyState == {"none", "connecting", "open", "closing", "failed", "closed"}

Init ==
    /\ state = "Disconnected"
    /\ ws = None
    /\ wired = None
    /\ subs = {}
    /\ failures = 0
    /\ evt = "Nothing"
    /\ phase = [s \in Sockets |-> "none"]
    /\ srv = [s \in Sockets |-> {}]

-----------------------------------------------------------------------------
(* The methods of WsClient                                                 *)

\* Faulty variant: the callbacks stay those of the older socket.
ConnectUnwired ==
    \E s \in Sockets :
        /\ phase[s] = "none"
        /\ \A t \in 1..(s - 1) : phase[t] # "none"
        /\ phase' = [phase EXCEPT ![s] = "connecting"]
        /\ ws' = s
        /\ state' = "Connecting"
        /\ evt' = "Nothing"
        /\ UNCHANGED <<wired, subs, failures, srv>>

\* A new receiver; setup_handlers() replaces the callbacks of an older socket.
Connect ==
    \E s \in Sockets :
        /\ phase[s] = "none"
        /\ \A t \in 1..(s - 1) : phase[t] # "none"
        /\ phase' = [phase EXCEPT ![s] = "connecting"]
        /\ ws' = s
        /\ wired' = s
        /\ state' = "Connecting"
        /\ evt' = "Nothing"
        /\ UNCHANGED <<subs, failures, srv>>

\* The URL is refused.  An older socket stays, and its callbacks send to a receiver
\* that connect() did not return.
ConnectRefused ==
    /\ state' = "Connecting"
    /\ evt' = "Nothing"
    /\ UNCHANGED <<ws, wired, subs, failures, phase, srv>>

\* What send() comes to: without a socket the message is dropped in silence.
Refused == ws # None /\ phase[ws] = "connecting"
Heard   == ws # None /\ phase[ws] = "open"

Subscribe(k) ==
    /\ ~Refused
    /\ subs' = subs \cup {k}
    /\ srv' = IF Heard THEN [srv EXCEPT ![ws] = @ \cup {k}] ELSE srv
    /\ UNCHANGED <<state, ws, wired, failures, evt, phase>>

\* Faulty variant: the key stays in the map.
UnsubscribeKeepsKey(k) ==
    /\ k \in subs
    /\ srv' = IF Heard /\ k \in UnsubKeys THEN [srv EXCEPT ![ws] = @ \ {k}] ELSE srv
    /\ UNCHANGED <<state, ws, wired, subs, failures, evt, phase>>

\* The key is gone whether or not the message can be sent.
Unsubscribe(k) ==
    /\ k \in subs
    /\ subs' = subs \ {k}
    /\ srv' = IF Heard /\ k \in UnsubKeys THEN [srv EXCEPT ![ws] = @ \ {k}] ELSE srv
    /\ UNCHANGED <<state, ws, wired, failures, evt, phase>>

\* Faulty variant: the state waits for the close event.
CloseQuietly ==
    /\ phase' = [s \in Sockets |->
                    IF s = ws /\ phase[s] \in {"connecting", "open"} THEN "closing" ELSE phase[s]]
    /\ UNCHANGED <<state, ws, wired, subs, failures, evt, srv>>

\* The socket stays where it is.
Close ==
    /\ phase' = [s \in Sockets |->
                    IF s = ws /\ phase[s] \in {"connecting", "open"} THEN "closing" ELSE phase[s]]
    /\ state' = "Closed"
    /\ UNCHANGED <<ws, wired, subs, failures, evt, srv>>

-----------------------------------------------------------------------------
(* The callbacks: those of a socket that is not wired do nothing           *)

\* Faulty variant: nothing is restored.
NothingRestored(s) == {}

Restored(s) == subs

OnOpen(s) ==
    /\ phase[s] = "connecting"
    /\ phase' = [phase EXCEPT ![s] = "open"]
    /\ \/ /\ s = wired
          /\ state' = "Connected"
          /\ failures' = 0
          /\ evt' = "Connected"
          /\ srv' = [srv EXCEPT ![ws] = @ \cup Restored(s)]
       \/ /\ s # wired
          /\ UNCHANGED <<state, failures, evt, srv>>
    /\ UNCHANGED <<ws, wired, subs>>

\* Faulty variant: the callbacks of an older socket still work.
StillWired(s) == TRUE

Wired(s) == s = wired

\* The close event: of a connection that failed, or at the end of a closing handshake.
OnClose(s) ==
    /\ phase[s] \in {"open", "closing", "failed"}
    /\ phase' = [phase EXCEPT ![s] = "closed"]
    /\ srv' = [srv EXCEPT ![s] = {}]
    /\ \/ /\ Wired(s)
          /\ state' = "Disconnected"
          /\ evt' = "Disconnected"
       \/ /\ ~Wired(s)
          /\ UNCHANGED <<state, evt>>
    /\ UNCHANGED <<ws, wired, subs, failures>>

\* The error event of a connection that failed; the close event follows.
OnError(s) ==
    /\ phase[s] \in {"connecting", "open", "closing"}
    /\ phase' = [phase EXCEPT ![s] = "failed"]
    /\ srv' = [srv EXCEPT ![s] = {}]
    /\ failures' = IF s = wired /\ failures < MaxFailures THEN failures + 1 ELSE failures
    /\ UNCHANGED <<state, ws, wired, subs, evt>>

Next ==
    \/ Connect \/ ConnectRefused \/ Close
    \/ \E k \in Keys : Subscribe(k) \/ Unsubscribe(k)
    \/ \E s \in Sockets : OnOpen(s) \/ OnClose(s) \/ OnError(s)

Spec == Init /\ [][Next]_vars

-----------------------------------------------------------------------------
(* Properties                                                              *)

\* Live callbacks are those of the socket in ws: none acts on a client whose socket
\* is another.
TypeOK ==
    /\ state \in ConnectionState \ {"Reconnecting"}
    /\ ws \in Sockets \cup {None}
    /\ wired = ws
    /\ subs \subseteq Keys
    /\ failures \in 0..MaxFailures
    /\ evt \in {"Nothing", "Connected", "Disconnected"}
    /\ phase \in [Sockets -> ReadyState]
    /\ srv \in [Sockets -> SUBSET Keys]
    /\ ws # None => phase[ws] # "none"

\* is_connected() does not lie: the socket in ws is open, or it has just failed and
\* its close event is the next; and its receiver was told, and of no end.
ConnectedMeansOpen ==
    state = "Connected" => ws # None /\ phase[ws] \in {"open", "failed"} /\ evt = "Connected"

\* On an open socket the peer serves the keys of the map, those entered before it
\* opened and after; and no key that was taken back with a message.
MapIsServed ==
    ws # None /\ phase[ws] = "open" =>
        subs \subseteq srv[ws] /\ srv[ws] \cap UnsubKeys \subseteq subs

\* A receiver gets Connected at most once, before Disconnected, and nothing after it.
EventsInOrder ==
    [][evt' # evt => \/ evt' = "Nothing"
                     \/ evt = "Nothing" /\ evt' = "Connected"
                     \/ evt' = "Disconnected"]_vars
=============================================================================
