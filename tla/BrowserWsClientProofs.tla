------------------------ MODULE BrowserWsClientProofs ------------------------
(***************************************************************************)
(* Proofs about BrowserWsClient, for any number of connections, any keys   *)
(* and any of them with an unsubscribe message.                            *)
(***************************************************************************)
EXTENDS BrowserWsClient, TLAPS

-----------------------------------------------------------------------------
(* Types and callbacks                                                     *)

(* Whatever the callers and the browser do, the live callbacks are those   *)
(* of the socket in ws.                                                    *)
LEMMA TypeStep ==
    ASSUME TypeOK, [Next]_vars
    PROVE  TypeOK'
<1> USE BrowserAssumption DEF TypeOK, ConnectionState, ReadyState, Sockets
<1>1. CASE Connect
  BY <1>1 DEF Connect
<1>2. CASE ConnectRefused
  BY <1>2 DEF ConnectRefused
<1>3. CASE Close
  BY <1>3 DEF Close
<1>4. ASSUME NEW k \in Keys, Subscribe(k) PROVE TypeOK'
  <2>1. srv' \in [Sockets -> SUBSET Keys]
    BY <1>4 DEF Subscribe
  <2> QED
    BY <1>4, <2>1 DEF Subscribe
<1>5. ASSUME NEW k \in Keys, Unsubscribe(k) PROVE TypeOK'
  <2>1. srv' \in [Sockets -> SUBSET Keys]
    BY <1>5 DEF Unsubscribe
  <2> QED
    BY <1>5, <2>1 DEF Unsubscribe
<1>6. ASSUME NEW s \in Sockets, OnOpen(s) PROVE TypeOK'
  <2>1. srv' \in [Sockets -> SUBSET Keys]
    BY <1>6 DEF OnOpen, Restored
  <2> QED
    BY <1>6, <2>1 DEF OnOpen
<1>7. ASSUME NEW s \in Sockets, OnClose(s) PROVE TypeOK'
  BY <1>7 DEF OnClose
<1>8. ASSUME NEW s \in Sockets, OnError(s) PROVE TypeOK'
  BY <1>8 DEF OnError
<1>9. CASE UNCHANGED vars
  BY <1>9 DEF vars
<1> QED
  BY <1>1, <1>2, <1>3, <1>4, <1>5, <1>6, <1>7, <1>8, <1>9 DEF Next

(* The state a client starts in.                                           *)
LEMMA TypeInit == Init => TypeOK
BY BrowserAssumption DEF Init, TypeOK, ConnectionState, ReadyState, Sockets

(* TypeOK: every variable keeps its type, and no callback of an older      *)
(* socket acts on the client.                                              *)
THEOREM TypeCorrect == Spec => []TypeOK
BY TypeInit, TypeStep, PTL DEF Spec

-----------------------------------------------------------------------------
(* is_connected()                                                          *)

(* A step keeps the state, the socket and the last event in agreement.     *)
LEMMA ConnectedStep ==
    ASSUME TypeOK, ConnectedMeansOpen, [Next]_vars
    PROVE  ConnectedMeansOpen'
<1> USE BrowserAssumption DEF TypeOK, ConnectedMeansOpen, Sockets
<1>1. CASE Connect
  BY <1>1 DEF Connect
<1>2. CASE ConnectRefused
  BY <1>2 DEF ConnectRefused
<1>3. CASE Close
  BY <1>3 DEF Close
<1>4. ASSUME NEW k \in Keys, Subscribe(k) PROVE ConnectedMeansOpen'
  BY <1>4 DEF Subscribe
<1>5. ASSUME NEW k \in Keys, Unsubscribe(k) PROVE ConnectedMeansOpen'
  BY <1>5 DEF Unsubscribe
<1>6. ASSUME NEW s \in Sockets, OnOpen(s) PROVE ConnectedMeansOpen'
  BY <1>6 DEF OnOpen
<1>7. ASSUME NEW s \in Sockets, OnClose(s) PROVE ConnectedMeansOpen'
  BY <1>7 DEF OnClose, Wired
<1>8. ASSUME NEW s \in Sockets, OnError(s) PROVE ConnectedMeansOpen'
  BY <1>8 DEF OnError
<1>9. CASE UNCHANGED vars
  BY <1>9 DEF vars
<1> QED
  BY <1>1, <1>2, <1>3, <1>4, <1>5, <1>6, <1>7, <1>8, <1>9 DEF Next

(* ConnectedMeansOpen: is_connected() is true only of a socket that is     *)
(* open, or has failed and is about to say so.                             *)
THEOREM ConnectedMeansOpenHolds == Spec => []ConnectedMeansOpen
<1>1. Init => ConnectedMeansOpen
  BY DEF Init, ConnectedMeansOpen
<1> QED
  BY <1>1, TypeCorrect, ConnectedStep, PTL DEF Spec

-----------------------------------------------------------------------------
(* Subscriptions                                                           *)

(* Nothing is served on a socket that was not open yet: with MapIsServed   *)
(* this is inductive, the first service being the restoration of the map.  *)
NothingServedEarly ==
    \A s \in Sockets : phase[s] \in {"none", "connecting"} => srv[s] = {}

MapInv == NothingServedEarly /\ MapIsServed

(* Every step keeps map and peer in agreement.                             *)
LEMMA MapStep ==
    ASSUME TypeOK, MapInv, [Next]_vars
    PROVE  MapInv'
<1> USE BrowserAssumption DEF TypeOK, MapInv, NothingServedEarly, MapIsServed, Sockets
<1>1. CASE Connect
  BY <1>1 DEF Connect
<1>2. CASE ConnectRefused
  BY <1>2 DEF ConnectRefused
<1>3. CASE Close
  BY <1>3 DEF Close
<1>4. ASSUME NEW k \in Keys, Subscribe(k) PROVE MapInv'
  <2>1. CASE Heard
    <3>1. srv' = [srv EXCEPT ![ws] = @ \cup {k}] /\ ws \in Sockets /\ phase[ws] = "open"
      BY <1>4, <2>1 DEF Subscribe, Heard
    <3> QED
      BY <1>4, <3>1 DEF Subscribe
  <2>2. CASE ~Heard
    BY <1>4, <2>2 DEF Subscribe, Heard
  <2> QED
    BY <2>1, <2>2
<1>5. ASSUME NEW k \in Keys, Unsubscribe(k) PROVE MapInv'
  <2>1. CASE Heard /\ k \in UnsubKeys
    <3>1. srv' = [srv EXCEPT ![ws] = @ \ {k}] /\ ws \in Sockets /\ phase[ws] = "open"
      BY <1>5, <2>1 DEF Unsubscribe, Heard
    <3> QED
      BY <1>5, <3>1 DEF Unsubscribe
  <2>2. CASE ~(Heard /\ k \in UnsubKeys)
    BY <1>5, <2>2 DEF Unsubscribe, Heard
  <2> QED
    BY <2>1, <2>2
<1>6. ASSUME NEW s \in Sockets, OnOpen(s) PROVE MapInv'
  <2>1. CASE s = wired
    <3>1. ws = s /\ srv[s] = {} /\ srv' = [srv EXCEPT ![s] = @ \cup subs]
      BY <1>6, <2>1 DEF OnOpen, Restored
    <3> QED
      BY <1>6, <3>1 DEF OnOpen
  <2>2. CASE s # wired
    BY <1>6, <2>2 DEF OnOpen
  <2> QED
    BY <2>1, <2>2
<1>7. ASSUME NEW s \in Sockets, OnClose(s) PROVE MapInv'
  BY <1>7 DEF OnClose
<1>8. ASSUME NEW s \in Sockets, OnError(s) PROVE MapInv'
  BY <1>8 DEF OnError
<1>9. CASE UNCHANGED vars
  BY <1>9 DEF vars
<1> QED
  BY <1>1, <1>2, <1>3, <1>4, <1>5, <1>6, <1>7, <1>8, <1>9 DEF Next

(* MapIsServed: on an open socket the peer serves exactly the map, but for *)
(* keys that were removed without a message to send.                       *)
THEOREM MapIsServedHolds == Spec => []MapIsServed
<1>1. Init => MapInv
  BY DEF Init, MapInv, NothingServedEarly, MapIsServed, Sockets
<1>2. MapInv => MapIsServed
  BY DEF MapInv
<1> QED
  BY <1>1, <1>2, TypeCorrect, MapStep, PTL DEF Spec

-----------------------------------------------------------------------------
(* Events                                                                  *)

(* As long as the socket has not opened its receiver has heard nothing.    *)
SilentUntilOpen == ws # None /\ phase[ws] = "connecting" => evt = "Nothing"

(* A step tells the receiver nothing before the socket opens.              *)
LEMMA SilentStep ==
    ASSUME TypeOK, SilentUntilOpen, [Next]_vars
    PROVE  SilentUntilOpen'
<1> USE BrowserAssumption DEF TypeOK, SilentUntilOpen, Sockets
<1>1. CASE Connect \/ ConnectRefused \/ Close
  BY <1>1 DEF Connect, ConnectRefused, Close
<1>2. ASSUME NEW k \in Keys, Subscribe(k) \/ Unsubscribe(k) PROVE SilentUntilOpen'
  BY <1>2 DEF Subscribe, Unsubscribe
<1>3. ASSUME NEW s \in Sockets, OnOpen(s) PROVE SilentUntilOpen'
  BY <1>3 DEF OnOpen
<1>4. ASSUME NEW s \in Sockets, OnClose(s) PROVE SilentUntilOpen'
  BY <1>4 DEF OnClose, Wired
<1>5. ASSUME NEW s \in Sockets, OnError(s) PROVE SilentUntilOpen'
  BY <1>5 DEF OnError
<1>6. CASE UNCHANGED vars
  BY <1>6 DEF vars
<1> QED
  BY <1>1, <1>2, <1>3, <1>4, <1>5, <1>6 DEF Next

(* The event a step sends to the receiver, by the events sent before.      *)
LEMMA EventsStep ==
    ASSUME TypeOK, SilentUntilOpen, [Next]_vars
    PROVE  evt' # evt => \/ evt' = "Nothing"
                         \/ evt = "Nothing" /\ evt' = "Connected"
                         \/ evt' = "Disconnected"
<1>1. ASSUME NEW s \in Sockets, OnOpen(s), evt' # evt
      PROVE  evt = "Nothing" /\ evt' = "Connected"
  BY <1>1, BrowserAssumption DEF OnOpen, TypeOK, SilentUntilOpen, Sockets
<1> QED
  BY <1>1 DEF Next, vars, Connect, ConnectRefused, Close, Subscribe, Unsubscribe,
              OnClose, OnError

(* EventsInOrder: a receiver gets Connected at most once, before           *)
(* Disconnected.                                                           *)
THEOREM EventsInOrderHolds == Spec => EventsInOrder
<1>1. Init => SilentUntilOpen
  BY DEF Init, SilentUntilOpen
<1>2. TypeOK /\ SilentUntilOpen /\ [Next]_vars =>
      [evt' # evt => \/ evt' = "Nothing"
                     \/ evt = "Nothing" /\ evt' = "Connected"
                     \/ evt' = "Disconnected"]_vars
  BY EventsStep
<1> QED
  BY <1>1, <1>2, TypeCorrect, SilentStep, PTL DEF Spec, EventsInOrder
=============================================================================
