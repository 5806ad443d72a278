-------------------------------- MODULE LunoWs --------------------------------
(***************************************************************************)
(* The Luno adapter, src/src/exchanges/cex/luno_ws.rs: the one stream of   *)
(* an exchange that serves one market per connection.                      *)
(*                                                                         *)
(* The socket lies in a RwLock the message loop takes to wait for the next *)
(* frame: whoever else wants the socket waits until the peer sends one.    *)
(* The market being watched lies under a lock of its own and is compared   *)
(* and written by every watch_* call; the loop reads it when it labels a   *)
(* message, so the label and the socket can part.                          *)
(*                                                                         *)
(* A socket is a number, in the order of the dials; its loop has the same  *)
(* number.  A lock that is held over no wait is not a step of its own.     *)
(* A sender is registered under its channel and the caller's symbol, and   *)
(* looked up under the symbol the current market converts back to, which   *)
(* need not be the caller's.  A message is its channel and its market: what*)
(* it does to the book is left to OrderBook.                               *)
(***************************************************************************)
EXTENDS Integers

CONSTANTS
    Callers,         \* tasks that share the adapter
    Symbols,         \* unified names, as callers use them or parse_symbol() makes them
    Markets,         \* names in the exchange's form
    FormatSymbol,    \* format_symbol(): the market of a symbol
    ParseSymbol,     \* parse_symbol(): the symbol of a market
    Watched,         \* the pairs of channel and symbol callers ask for
    HasCredentials,  \* with_credentials() or new()
    MaxDials,        \* bound on the connections made
    MaxCalls,        \* bound on the calls made
    None

\* What watch_order_book() and watch_trades() ask for, and what a message is of.
Channels == {"orderbook", "trades"}

ASSUME LunoAssumption ==
    /\ FormatSymbol \in [Symbols -> Markets]
    /\ ParseSymbol \in [Markets -> Symbols]
    /\ Watched \subseteq Channels \X Symbols
    /\ HasCredentials \in BOOLEAN
    /\ MaxDials \in Nat
    /\ MaxCalls \in Nat
    /\ None \notin Markets \cup Callers \cup Int

\* The exchange's names survive the way to a unified one and back.  A unified name
\* need not survive the other way: some differ in length, some share a market.
ASSUME MarketAssumption == \A m \in Markets : FormatSymbol[ParseSymbol[m]] = m

Sockets == 1..MaxDials

Messages == [channel : Channels, market : Markets]

VARIABLES
    \* LunoWs
    socket,      \* what ws_stream holds, or None
    holder,      \* the loop that waits for a frame with the lock of ws_stream, or None
    current,     \* current_market, or None
    subs,        \* the pairs of channel and symbol with a sender
    \* the locals of each call
    pc, want, fresh,
    calls,       \* calls made
    \* the locals of each message loop
    loop, msg, label,
    \* the peer
    dials,       \* connections accepted
    market,      \* the market of each connection
    over,        \* the connections that are over
    \* history
    overlapped,  \* two watch_* calls were under way at once
    calm         \* the loops whose message was read, from a socket with a loop of its own,
                 \* while no call was under way, and that no call has begun since

adapterVars == <<socket, holder, current, subs>>
callVars    == <<pc, want, fresh, calls>>
loopVars    == <<loop, msg, label>>
peerVars    == <<dials, market, over>>
histVars    == <<overlapped, calm>>
vars == <<adapterVars, callVars, loopVars, peerVars, histVars>>

Quiescent == \A c \in Callers : pc[c] = "idle"

\* Nobody holds the lock of the socket over a wait.
Free == holder = None

Goto(c, from, to) == pc[c] = from /\ pc' = [pc EXCEPT ![c] = to]

Step(c, from, to) == Goto(c, from, to) /\ UNCHANGED <<want, fresh>>

\* A call that returns forgets its locals.
Return(c, from) ==
    /\ Goto(c, from, "idle")
    /\ want' = [want EXCEPT ![c] = None]
    /\ fresh' = [fresh EXCEPT ![c] = None]

LoopGoto(n, from, to) == loop[n] = from /\ loop' = [loop EXCEPT ![n] = to]

Init ==
    /\ socket = None
    /\ holder = None
    /\ current = None
    /\ subs = {}
    /\ pc = [c \in Callers |-> "idle"]
    /\ want = [c \in Callers |-> None]
    /\ fresh = [c \in Callers |-> None]
    /\ calls = 0
    /\ loop = [n \in Sockets |-> "none"]
    /\ msg = [n \in Sockets |-> None]
    /\ label = [n \in Sockets |-> None]
    /\ dials = 0
    /\ market = [n \in Sockets |-> None]
    /\ over = {}
    /\ overlapped = FALSE
    /\ calm = {}

-----------------------------------------------------------------------------
(* watch_order_book() and watch_trades()                                   *)

\* ws_close() borrows the adapter exclusively.  An older sender is replaced.
Watch(c, key) ==
    /\ calls < MaxCalls
    /\ \A d \in Callers : pc[d] # "closing"
    /\ Goto(c, "idle", "compare")
    /\ want' = [want EXCEPT ![c] = FormatSymbol[key[2]]]
    /\ subs' = subs \cup {key}
    /\ calls' = calls + 1
    /\ overlapped' = (overlapped \/ \E d \in Callers \ {c} : pc[d] # "idle")
    /\ calm' = {}
    /\ UNCHANGED <<socket, holder, current, fresh, loopVars, peerVars>>

NeedsConnection(c) == current # want[c]

Compare(c) ==
    /\ \/ NeedsConnection(c) /\ Step(c, "compare", "peek")
       \/ ~NeedsConnection(c) /\ Return(c, "compare")
    /\ UNCHANGED <<adapterVars, calls, loopVars, peerVars, histVars>>

\* Faulty variant: the guard of the look lives on, and a call that finds a socket waits
\* for itself in internal_close().
PeekKeepingGuard(c) ==
    /\ Free
    /\ socket = None
    /\ Step(c, "peek", "dial")
    /\ UNCHANGED <<adapterVars, calls, loopVars, peerVars, histVars>>

\* The guard is dropped before internal_close() asks for the lock again.
Peek(c) ==
    /\ Free
    /\ Step(c, "peek", IF socket = None THEN "dial" ELSE "leave")
    /\ UNCHANGED <<adapterVars, calls, loopVars, peerVars, histVars>>

\* internal_close() and the body of ws_close(): when the close frame cannot be
\* sent the socket stays.
Closed ==
    /\ socket' = None
    /\ over' = over \cup ({socket} \ {None})

CloseFailed ==
    /\ socket # None
    /\ over' = over \cup {socket}
    /\ UNCHANGED socket

Leave(c) ==
    /\ Free
    /\ \/ Closed /\ Step(c, "leave", "dial")
       \/ CloseFailed /\ Return(c, "leave")
    /\ UNCHANGED <<holder, current, subs, calls, loopVars, dials, market, histVars>>

-----------------------------------------------------------------------------
(* connect_to_market()                                                     *)

DialOk(c) ==
    /\ dials < MaxDials
    /\ Goto(c, "dial", "store")
    /\ dials' = dials + 1
    /\ fresh' = [fresh EXCEPT ![c] = dials + 1]
    /\ market' = [market EXCEPT ![dials + 1] = want[c]]
    /\ UNCHANGED <<adapterVars, want, calls, loopVars, over, histVars>>

DialFail(c) ==
    /\ Return(c, "dial")
    /\ UNCHANGED <<adapterVars, calls, loopVars, peerVars, histVars>>

\* A socket that is still there is dropped, and its connection with it.
Store(c) ==
    /\ Free
    /\ Step(c, "store", IF HasCredentials THEN "authenticate" ELSE "spawn")
    /\ socket' = fresh[c]
    /\ over' = over \cup ({socket} \ {None})
    /\ UNCHANGED <<holder, current, subs, calls, loopVars, dials, market, histVars>>

\* The message goes to whatever socket is there; if sending it fails the call ends
\* without a loop and without a market.
Authenticate(c) ==
    /\ Free
    /\ \/ Step(c, "authenticate", "spawn")
       \/ socket # None /\ Return(c, "authenticate")
    /\ UNCHANGED <<adapterVars, calls, loopVars, peerVars, histVars>>

Spawn(c) ==
    /\ Step(c, "spawn", "record")
    /\ LoopGoto(fresh[c], "none", "lock")
    /\ UNCHANGED <<adapterVars, calls, msg, label, peerVars, histVars>>

\* Faulty variant: the first market stays.
RecordFirst(c) ==
    /\ Return(c, "record")
    /\ current' = IF current = None THEN want[c] ELSE current
    /\ UNCHANGED <<socket, holder, subs, calls, loopVars, peerVars, histVars>>

Record(c) ==
    /\ Return(c, "record")
    /\ current' = want[c]
    /\ UNCHANGED <<socket, holder, subs, calls, loopVars, peerVars, histVars>>

-----------------------------------------------------------------------------
(* ws_close()                                                              *)

WsClose(c) ==
    /\ calls < MaxCalls
    /\ \A d \in Callers : pc[d] = "idle"
    /\ Step(c, "idle", "closing")
    /\ calls' = calls + 1
    /\ calm' = {}
    /\ UNCHANGED <<adapterVars, loopVars, peerVars, overlapped>>

\* The market stays current.
EndClose(c) ==
    /\ Free
    /\ Closed \/ CloseFailed
    /\ Return(c, "closing")
    /\ UNCHANGED <<holder, current, subs, calls, loopVars, dials, market, histVars>>

-----------------------------------------------------------------------------
(* The message loop                                                        *)

\* Faulty variant: a loop without a socket looks again.
LoopLookAgain(n) ==
    /\ loop[n] = "lock"
    /\ Free
    /\ socket # None
    /\ LoopGoto(n, "lock", "waiting")
    /\ holder' = n
    /\ UNCHANGED <<socket, current, subs, callVars, msg, label, peerVars, histVars>>

\* The loop takes whatever socket is there, not the one it was started for.
LoopLock(n) ==
    /\ loop[n] = "lock"
    /\ Free
    /\ \/ /\ socket # None
          /\ LoopGoto(n, "lock", "waiting")
          /\ holder' = n
       \/ /\ socket = None
          /\ LoopGoto(n, "lock", "ended")
          /\ UNCHANGED holder
    /\ UNCHANGED <<socket, current, subs, callVars, msg, label, peerVars, histVars>>

\* A text message, of the book or of trades; the lock is released with the scope of
\* the wait.
Receive(n) ==
    /\ LoopGoto(n, "waiting", "handle")
    /\ socket \notin over
    /\ \E ch \in Channels :
          msg' = [msg EXCEPT ![n] = [channel |-> ch, market |-> market[socket]]]
    /\ holder' = None
    /\ calm' = IF Quiescent /\ loop[socket] # "none" THEN calm \cup {n} ELSE calm
    /\ UNCHANGED <<socket, current, subs, callVars, label, peerVars, overlapped>>

ReceivePing(n) ==
    /\ LoopGoto(n, "waiting", "pong")
    /\ socket \notin over
    /\ holder' = None
    /\ UNCHANGED <<socket, current, subs, callVars, msg, label, peerVars, histVars>>

\* A close frame, an error or the end of the stream: the socket stays where it is.
ReceiveEnd(n) ==
    /\ LoopGoto(n, "waiting", "ended")
    /\ over' = over \cup {socket}
    /\ holder' = None
    /\ UNCHANGED <<socket, current, subs, callVars, msg, label, dials, market,
                   histVars>>

\* A frame that is passed over, or a text that says nothing.
ReceiveOther(n) ==
    /\ LoopGoto(n, "waiting", "lock")
    /\ socket \notin over
    /\ holder' = None
    /\ UNCHANGED <<socket, current, subs, callVars, msg, label, peerVars, histVars>>

Pong(n) ==
    /\ LoopGoto(n, "pong", "lock")
    /\ Free
    /\ UNCHANGED <<adapterVars, callVars, msg, label, peerVars, histVars>>

\* Faulty variant: a message is delivered whether a market is current or not.
LabelUnchecked(n) ==
    /\ LoopGoto(n, "handle", "deliver")
    /\ label' = [label EXCEPT ![n] = current]
    /\ UNCHANGED <<adapterVars, callVars, msg, peerVars, histVars>>

\* handle_message_static(): without a market the message is lost.
Label(n) ==
    /\ \/ /\ current # None
          /\ LoopGoto(n, "handle", "deliver")
          /\ label' = [label EXCEPT ![n] = current]
          /\ UNCHANGED <<msg, calm>>
       \/ /\ current = None
          /\ LoopGoto(n, "handle", "lock")
          /\ msg' = [msg EXCEPT ![n] = None]
          /\ calm' = calm \ {n}
          /\ UNCHANGED label
    /\ UNCHANGED <<adapterVars, callVars, peerVars, overlapped>>

\* Faulty variant: trades are looked up like books.
RecipientsOfBooks(n) == subs \cap {<<"orderbook", ParseSymbol[label[n]]>>}

\* The sender that is registered under the channel of the message and the symbol its
\* label converts to, if there is one.
Recipients(n) == subs \cap {<<msg[n].channel, ParseSymbol[label[n]]>>}

\* The message goes to Recipients(n), and is lost if there are none.
Deliver(n) ==
    /\ LoopGoto(n, "deliver", "lock")
    /\ msg' = [msg EXCEPT ![n] = None]
    /\ label' = [label EXCEPT ![n] = None]
    /\ calm' = calm \ {n}
    /\ UNCHANGED <<adapterVars, callVars, peerVars, overlapped>>

-----------------------------------------------------------------------------

\* A call waits for the outcome of connect_async().
Dial(c) == DialOk(c) \/ DialFail(c)

\* The other steps of a call under way.
Proceed(c) ==
    \/ Compare(c) \/ Peek(c) \/ Leave(c) \/ Store(c) \/ Authenticate(c) \/ Spawn(c)
    \/ Record(c) \/ EndClose(c)

\* The steps of a loop that holds no lock over a wait.
Turn(n) == LoopLock(n) \/ Pong(n) \/ Label(n) \/ Deliver(n)

\* What the peer does to a loop that waits.
Frame(n) == Receive(n) \/ ReceivePing(n) \/ ReceiveOther(n) \/ ReceiveEnd(n)

Next ==
    \/ \E c \in Callers : \E key \in Watched : Watch(c, key)
    \/ \E c \in Callers : WsClose(c) \/ Dial(c) \/ Proceed(c)
    \/ \E n \in Sockets : Turn(n) \/ Frame(n)

Spec == Init /\ [][Next]_vars

\* The lock is passed on in the order it was asked for.  Nothing is assumed of the
\* peer: it may never answer a dial, and never send a frame.
Fairness ==
    /\ \A c \in Callers : SF_vars(Proceed(c))
    /\ \A n \in Sockets : SF_vars(Turn(n))

FairSpec == Spec /\ Fairness

-----------------------------------------------------------------------------
(* Properties                                                              *)

\* Every socket was numbered by a dial, and no loop has a message without an
\* origin or a label to put on it.
TypeOK ==
    /\ socket \in Sockets \cup {None}
    /\ holder \in Sockets \cup {None}
    /\ current \in Markets \cup {None}
    /\ subs \subseteq Watched
    /\ pc \in [Callers -> {"idle", "compare", "peek", "leave", "dial", "store",
                           "authenticate", "spawn", "record", "closing"}]
    /\ want \in [Callers -> Markets \cup {None}]
    /\ fresh \in [Callers -> Sockets \cup {None}]
    /\ calls \in 0..MaxCalls
    /\ loop \in [Sockets -> {"none", "lock", "waiting", "handle", "deliver", "pong", "ended"}]
    /\ msg \in [Sockets -> Messages \cup {None}]
    /\ label \in [Sockets -> Markets \cup {None}]
    /\ dials \in 0..MaxDials
    /\ market \in [Sockets -> Markets \cup {None}]
    /\ over \subseteq Sockets
    /\ overlapped \in BOOLEAN
    /\ calm \subseteq Sockets
    /\ \A n \in Sockets : loop[n] \in {"handle", "deliver"} => msg[n] \in Messages
    /\ \A n \in Sockets : loop[n] = "deliver" => label[n] \in Markets

\* As long as watch_* calls come one after the other, between them a socket that
\* got its loop is the one of current_market.
SocketServesCurrent ==
    Quiescent /\ ~overlapped /\ socket # None /\ loop[socket] # "none"
        => market[socket] = current

\* The symbol comes back from its market as it went.
ConvertsBack(s) == ParseSymbol[FormatSymbol[s]] = s

\* The senders that want a message: of its channel, and of its market under a name the
\* adapter gives back.
Watchers(m) ==
    {key \in subs : /\ key[1] = m.channel
                    /\ FormatSymbol[key[2]] = m.market
                    /\ ConvertsBack(key[2])}

\* As long as watch_* calls come one after the other, a message read and handled between
\* them, by whichever loop, is not lost for want of a market, and reaches all who
\* watch its channel and market under a name that converts back, and nobody else.
MessagesReachWatchers ==
    ~overlapped =>
        \A n \in calm :
            /\ loop[n] = "handle" => current # None
            /\ loop[n] = "deliver" => Recipients(n) = Watchers(msg[n])

\* Every watch_* and ws_close() call returns, or else its dial goes on for ever, or one
\* loop waits for ever with the lock for a frame of a silent peer: that is all a
\* call can wait for, in whatever order calls and loops come to the lock.
CallsReturn ==
    \A c \in Callers :
        \/ []<>(pc[c] = "idle")
        \/ <>[](pc[c] = "dial")
        \/ <>[](\E n \in Sockets : loop[n] = "waiting")

\* Once the socket is taken away and none is put in its place, every loop ends.
LoopsEnd ==
    socket = None ~> socket # None \/ \A n \in Sockets : loop[n] \in {"none", "ended"}

\* WsOrderBookEvent and WsTradeEvent name the market of what they carry: a message
\* is labelled with the market of the connection it came on.
LabelledAsSent == \A n \in Sockets : loop[n] = "deliver" => label[n] = msg[n].market
=============================================================================
