# Verification of ccxt-rust

TLA+ models of the concurrent core of ccxt-rust, the TLC runs that check them on
small instances, and proofs, checked by TLAPS, of the properties that matter most.
Paths are relative to the project: the library is `src/src/`, its guides `src/docs/`.

## 1. The system

ccxt-rust is a library of exchange adapters over a small runtime of its own.  Nine
tenths of the code are the adapters, one REST file and often one WebSocket file per
exchange, that build requests and map responses.  The state that lives across calls
and is shared between tasks is in the runtime, `src/src/client/`, and in what the adapters keep
between calls: connections, books, market maps, tokens and nonces.

| Component | State it keeps | Operations | Interacts with |
|---|---|---|---|
| WebSocket client, `client/websocket.rs` | `state` and `subscriptions` behind RwLocks, metrics, the command and event channels; per task: attempts, first connection, missed pongs, the socket | `connect`, `send`, `subscribe`, `unsubscribe`, `close`, `state`; the task `connection_loop` | adapters call it and consume its events; the exchange's server |
| Rate limiter, `client/rate_limiter.rs` | atomic token count, time of the last refill, backoff level | `throttle`, `try_acquire`, `on_rate_limit_error`, `wait_for_retry` | every REST adapter calls it before a request |
| Luno's stream, `exchanges/cex/luno_ws.rs` | the socket, the market being watched and the senders, each behind a lock | `watch_order_book`, `watch_trades`, `ws_close`, the message loop | a socket of its own, not the WebSocket client |
| Binance's private streams, `exchanges/cex/binance_ws.rs` | listen key and its timestamp, shared by clones of the adapter | `watch_balance`, `watch_orders`, `watch_my_trades`, `ws_authenticate`, a renewal task per stream | a WebSocket client per stream; REST endpoints for the key |
| Shared state of REST adapters, `korbit.rs`, `exmo.rs` and their like | two market maps, access token and expiry, the last nonce | `load_markets`, private requests | HTTP client |
| Order books, `types/orderbook.rs`, `exmo_ws.rs`, `probit_ws.rs` and their like | the sides of a book | snapshot, delta | the streams |
| Browser client, `client/websocket_wasm.rs` | state cell, socket and map shared with the browser's callbacks | `connect`, `subscribe`, `unsubscribe`, `close`; `onopen`, `onclose`, `onerror` | browser socket |
| Cache, `client/cache.rs` | entries with expiry and statistics, each behind a lock | `get`, `set`, `remove`, `clear`, `cleanup` | exported; no adapter uses it |
| HTTP client, `client/http.rs`, `client/config.rs` | none across calls | `get`, `post`; `execute_with_retry`, which nothing calls | adapters |
| Arithmetic, `utils/precise.rs`, `utils/precision.rs` | none | decimal arithmetic, rounding | adapters |
| The rest of the adapters, gRPC, signing, WASM bindings | none across calls | requests and responses | HTTP client |

What is hard, and what makes each part correct:

- **WebSocket client.**  A task per `connect()`, racing its callers, its timers and
  the server.  The published state must agree with the session; the session's
  subscriptions must agree with the map over reconnections; retries must stay in
  their budget and be reported in order; a close must end the task; no lock may be
  held for ever.
- **Rate limiter.**  Callers of several tasks on one atomic counter, refilled by a
  load and a store; a mutex held across a sleep.  No more tokens may be granted than
  the rate allows, and every request must get its turn.
- **Luno's stream.**  A loop that waits for the next frame with the lock of the socket
  that every call needs, a market recorded apart from the socket, and senders found by a name
  computed from it.  Socket and market must agree, messages reach those who watch them, no call may wait
  for anything but the peer, and a loop must end with its socket.
- **Listen keys.**  A key and its timestamp under two locks, renewed by tasks that
  outlive their streams.  A key must not be taken for younger than it is, nor expire.
- **REST state.**  Pairs of cells written one by one after a request that may fail, by calls
  that overlap.  Maps must agree, tokens be valid when sent, nonces rise although clocks do not.
- **Order books.**  Three ways to apply a delta; losses and deltas before the first
  snapshot.  All must show the exchange's book, in order.
- **Browser client.**  Callbacks of an older socket that come after the next `connect()`.
- **Cache.**  The statistics must agree with the entries, an expired value must not be
  served, the entry limit must hold.
- **Arithmetic.**  Rounding and signs at the boundaries.

`PROJECT.json` lists the hazards at their lines, with the properties that cover each.

## 2. What is modelled

### `WsClient.tla`: the handle and its tasks

One variable per piece of state in the code, and one action per step that another
task can see.  `pc[l]` is the place of task `l` in `connection_loop`; actions are cut
where the code awaits, or where another task may read what was just written:

| Phase of `pc` | Where the task is | Actions that leave it |
|---|---|---|
| `start` | head of the loop, 466 | `BeginDial` |
| `dialing` | awaiting `connect_async`, 470-474 | `DialOk`, `DialFail` |
| `opened` | event sent, state not yet written, 491 | `PublishConnected` |
| `connected` | before the read lock of the map, 550 | `RestoreBegin` |
| `restoring` | sending the map, read lock held | `RestoreSend`, `RestoreEnd` |
| `running` | the `select!`, 578-681 | `ReadPong`, `ReadEnd`, `CmdSend`, `CmdClose`, `CmdNone`, `PingTick` |
| `broken` | out of the `select!`, 684 | `PublishDisconnected` |
| `failed`, `dropped` | before the retry test, 499, 522, 687 | `Retry`, `GiveUp` |
| `backoff` | Reconnecting sent, state not yet written | `PublishReconnecting` |
| `sleeping` | in the delay | `Wake` |
| `closed`, `exhausted` | returned | none |

The handle's methods are `Connect`, `Send`, `SubscribeSend` and `SubscribeInsert` (two
steps, with the wait for the write lock between them), `Unsubscribe` (one step: the
removal and the message share the lock guard of the `if let`), `Close`, and
`DropHandle` for the handle going out of scope.  `pending[c]` is the key of the
`subscribe()` caller `c` is in; `connect()` borrows the handle mutably, so it waits for
all callers.  A second `Connect` replaces the command sender and leaves the first task
running, as the code does.

The environment is the peer.  `link[l]` says whether the session is up, `srv[l]` which
keys the peer serves on it.  `LinkDown` may end a session at any time.  A message
written to a session that is up is served; one written to a session that is over is
lost, and the write may report it or not (`Written`).  `unanswered`, `stale` and `raced`
are history variables: the pings sent since the last pong, the callers whose
`subscribe()` straddles a restoration, the keys inserted by such calls.

Left out: text and binary frames and the peer's pings, which touch no modelled state;
`WsCommand::Ping`, which no method sends; the warning timer of the health check; the
message counters; the length of the delays.

### `RateLimiter.tla`: the token bucket

Every load, store, compare-exchange and lock acquisition of `throttle`, `try_acquire`,
`refill_tokens` and the backoff state is a step of a caller `c`, whose place is `pc[c]`:
`enter` (waiting for the backoff mutex), `delaying` (asleep with it: `gate = c`), `refill`
(waiting for the mutex of `last_request`), `store` (between load and store, `refiller = c`),
`check`, `swap`, `short` (asleep for want of tokens), `settle` (recording the success),
`report` (recording a 429), `try` and `trySwap`.

Amounts are the code's, a thousand to the token, and the capacity is computed from
`rate_limit_ms` by the code's integer division.  Time is a clock of `TickMs`.  Only times
*since* something are kept, up to where the code stops telling them apart: `age` since the last
refill up to a second, after which the bucket is full anyway; `quiet` since the last 429 up to
just beyond `CalmMs`.  `sleep[c]` is what is left of a sleep.  The code measures in nanoseconds
and rounds the refill down to a thousandth of a token; with a clock in whole milliseconds there is
nothing to round.  `spent`, `credit` and `regained` are history: what was handed out, what refills
added, and what they gave back because it was spent after they had read the count.

Left out: the request statistics, which only `throttle_rate()` reads, and `allow_burst`, which
nothing reads.

### `WsEventStream.tla`: what the consumer is promised

The abstract specification of the event channel: `Connected` once, later sessions
`Reconnected` with the number of the last attempt, `Reconnecting` numbered from 1 up to
the limit and starting over with each session, an `Error` for every failed dial.
`WsClientProperties` instantiates it for every task with the refinement mapping
`limit <- MaxAttempts, last <- evt[l], attempt <- attempts[l], greeted <- ~first[l]`.

### `LunoWs.tla`: one market per connection

A call `c` is at `pc[c]`: `compare` (with `current_market`, 562), `peek` (is there a socket?),
`leave` (`internal_close`, 170-181), `dial`, `store`, `authenticate` (only with credentials), `spawn`, `record`
(`connect_to_market`, 114-143), or `closing` in `ws_close`.  A loop `n`, numbered as its socket, is at
`loop[n]`: `lock`, `waiting` (with the lock, `holder = n`), `handle` and `deliver`
(before and after the read of the current market that labels the message) and `pong`.  The lock of
`ws_stream` is a variable since it is held over a wait; the others are not, since they are held for an
assignment.

The senders, `subs`, are pairs of a channel and a symbol, the caller's.  A message has a channel and the market of its
connection; it is labelled with `current` and goes to the sender under its channel and
`ParseSymbol` of the label (`Recipients`).  `format_symbol()` and `parse_symbol()` are the constants `FormatSymbol` and
`ParseSymbol`; the instances take their tables from 66-112.  Nothing is assumed of them but that a market comes
back from its symbol (`MarketAssumption`), which holds for all of Luno's names, none of which begins with BTC.  A symbol
need not come back from its market: USDC/ZAR becomes USDCZAR and that USD/CZAR.

`Leave` and `EndClose` have a branch in which the close frame cannot be sent: the call then fails
and the socket stays.  The peer accepts or refuses dials, sends frames of the market of the
connection, pings, and ends connections; it need not do any of it.  `overlapped` and `calm`, the loops whose message was
read while no call was under way and that no call has begun since, are history.

Left out: what a message does to the cached book (`OrderBook` has that).  A text with a book and trades in it
is two messages, and one that says nothing is passed over at once.

### `BinanceWs.tla`: listen keys

A call reads the key (`read`), compares the timestamp (`compare`), asks for a key (`post`), writes key
and timestamp (`writeKey`, `writeAge`) and connects (`connect`), which leaves a renewal task.  Task `t` is
`asleep` for `timer[t]` or in its `put`, with the key's read lock held.  The unit of time is ten
minutes: the renewal's 20, the threshold of 30 and the server's 60 minutes are 2, 3 and 6.  Ages
and remaining lives are kept instead of instants.  `PostOk` hands out a new key or one that is
still valid, as the exchange does.  `refused` is history: some renewal failed.

### `RestAdapter.tla`: what REST calls share

Three protocols over the same callers.  `load_markets` (`korbit.rs`): look at the first map,
fetch, store the maps one by one.  A private request (`korbit.rs`): look at token and expiry, or ask for a
token and store it, then its expiry.  A request with a nonce (`exmo.rs`): draw it under the lock, send
it after that.  Other adapters have copies of these.  The exchange's listing grows, its tokens expire by
themselves (`life`), and it keeps the highest nonce it has seen; requests that
overlap arrive in any order.  The time between a grant and its store is below the margin of the code: `waited`
lets at most one tick of `Minute` pass.  `SetClock` sets the millisecond clock to anything, backwards too.

### `OrderBook.tla`: three ways to keep a side

One exchange's side (`depth`) and three copies fed with the same messages: `library`
(`OrderBook::apply_update`, changed in place or inserted by binary search), `probit` (changed in place or appended,
then sorted; the first message is the book, snapshot or not) and `exmo` (removed and appended, then sorted; dropped
without a snapshot).  A snapshot may come in either order of prices, a delta is any batch of levels,
with a price twice or an amount of zero, and a delta may be lost.  The reference definition is
`depth`: a function from prices to amounts.

`sort_by()` and `retain()` are one operator, `Arranged`: the values of a sequence on a set of its places, in an order of
them, where each place comes behind as many as the order puts before it.  The loop over a delta is a recursive function of the
number of levels applied (`Applied`).

### `BrowserWsClient.tla`: the browser's client

One thread, so that every method and every callback is one action.  `wired` is the socket whose
closures are alive: `setup_handlers` drops those of the older one.  `phase[s]` is
the browser's `readyState`, and `srv[s]` what the peer serves.  A send to a socket that is connecting fails,
to one that is closed does nothing, as browsers do.

### The other modules

`WsClientProperties.tla` holds the client's properties and fairness; the modules `MC...` the
instances for TLC; the modules `...Proofs` the theorems.

Definitions commented "Faulty variant" are not part of the model.  Each is a plausible bug
in the definition that follows it, kept to confirm that the property it breaks would notice.

## 3. The runs

| Run | Asks | Instance | Result |
|---|---|---|---|
| `ws_safety` | do state, budget, health check, map and events stay consistent? | 1 task, 2 callers each with a key of its own, one key sent without `subscribe()`, queue of 2, 3 configurations | holds, 241,975 states |
| `ws_two_tasks` | does it hold when `connect()` is called twice? | 2 tasks, 1 caller, queue of 1 | holds, 676,605 states |
| `ws_live` | does a close end the task, does `subscribe()` return, does the map get served? | 1 task, 1 caller, 1 attempt | holds, 5,152 states |
| `ws_restore` | is every subscription restored, as the module's doc says? | default configuration | no: one that straddles the restoration is not |
| `rate_limiter` | are tokens accounted for, do refills and backoff stay consistent, does every call return? | 2 callers, 2 calls each, 500 ms, 1.5 tokens a request | holds, 90,805 states |
| `rate_limiter_rate` | is it a token bucket, as its doc says? | the same | no: a refill gives back what was spent while it ran |
| `luno_ws` | do socket and market agree, do messages reach their watchers, what can a call wait for, does every loop end? | 2 callers; book and trades of one market, book of another under a name that does not come back; 2 connections, 3 calls, with credentials | holds, 228,634 states |
| `luno_label` | does a message carry the market it is of, as its type says? | 1 caller, 2 markets, 2 calls | no: the first book of a new market is labelled with the old one |
| `binance_ws` | is the key as young as its timestamp, does it stay alive, does every call return? | 2 callers, 2 keys, 3 calls | holds, 41,923 states |
| `rest_adapter` | do maps agree, are tokens valid, do nonces rise? | 2 callers, 4 calls, 3 tokens, 2 listings, 2 ticks | holds, 75,324 states |
| `order_book` | do three ways to apply a delta give the exchange's book? | 3 prices, amounts up to 2, deltas of up to 2 levels, bids and asks | holds, 27,958 states |
| `browser_ws` | do state, map and events follow the present socket? | 3 sockets, 2 keys, one with an unsubscribe message | holds, 15,980 states |

The three configurations of `ws_safety` reach every branch of the configuration:
reconnection by the new flag, by the legacy flag only, and off; the limit from either
field; the health check on, off, and at its smallest limit.

**Bounds.**  `MaxQueue` bounds the commands waiting in a queue (the code's is unbounded):
two is enough for a subscription and the unsubscription or close that overtakes it.
`Loops` bounds the calls of `connect()`: with two tasks one of them is already orphaned,
and a third adds another of the same kind.  The limits of the configurations are 1 or 2:
reset, count and exhaustion all happen.  Nothing else is bounded: sessions may flap for
ever, and the state space is finite because attempts and misses are limited by the code.

The rate limiter's instance has one amount that does not divide the bucket, so that requests
compete for what is left and one of them must wait for more than one refill; two calls per caller let a
429 fall between two requests of the same caller and raise the level to its maximum of 2.  `MaxCalls`
also bounds the competition: the code gives no turn to a caller that waits, and one with a large
amount can starve as long as others keep taking small ones.

Luno's two connections are one before and one after a switch of markets; three calls let a switch, a
return to the first market and a close come in any order, two of them at once.  Binance's third
call leaves a third task to renew the key, and two keys are enough for one to be replaced under a call
that has read it.  In `rest_adapter` two calls of each of two callers make every pair of the protocols
overlap and let a third and fourth meet what they left; `Life` of 3 lets a token be fresh, in the
margin and expired.  In `order_book` the snapshot and the deltas may come for ever: the books are finite.  With
three prices a level is inserted before, between and after others; a batch of two has the same price
twice.  A third socket of `browser_ws` comes when an older one is still closing and a second is connecting.

`CHECK_DEADLOCK FALSE` is set in the native client's and in Luno's runs: a system whose tasks returned,
whose handle is gone or whose calls are used up is at rest.

**Properties worth an explanation.**

- `MapIsServed` compares map and server only when the session is `Settled`, and exempts the
  keys in `raced`: exactly those whose `subscribe()` was between its two steps when the
  session was restored.  Without the exemption it is `SubscriptionsRestored`, which
  `ws_restore` refutes.
- `MapIsServed` holds because each key has one caller (`KeysOwned`, which the instances satisfy).  With one key and two
  callers a `subscribe()` may insert its key after the other's `unsubscribe()` was queued behind its message: the key
  stays in the map and the peer does not serve it.  TLC shows that on an instance with a shared key, in 15 states; the
  code promises nothing for that case.  `ServedIsInMap` holds with shared keys too.
- `ClosedIsFinal` and `FailuresWithinBudget` speak of a client connected once.  With two tasks
  they are false: each task writes the state of the other.
- `SocketServesCurrent`, `MapsAgree` and the second half of `NoncesServe` speak of calls that do not overlap: for those that do they are false, and
  the code takes no lock that would make them true.  A socket that has no loop yet, because sending
  the credentials failed, is not one of the current market.
- `MessagesReachWatchers` says the same of messages: those read and handled between calls (`calm`).  One that a call comes
  across can be labelled with the market before (`luno_label`).  So it promises nothing of the book that opens a
  stream, which may come while its call is under way; and nothing to a watcher whose symbol does not come back.
- Luno's `CallsReturn` names what a call can wait for, a dial or a silent peer, instead of assuming that either comes
  to an end: neither has a timeout in the code.
- `EventsInOrder`, an action property, cannot see the same event sent twice in a row: that is a step that changes nothing.
- `TokenHonoured` speaks of calls that do overlap: the margin of a minute makes up for
  a token stored with the expiry of another.
- `AgeIsHonest`, `KeyKeptAlive` and `StreamKeyHonoured` say "unless a renewal failed", for a renewal that failed refreshes the
  timestamp all the same; after one, the key may be dead for up to half an hour and be handed to new streams.
- `ProbitFollows` and `ExmoFollows` hold from a snapshot on, as long as no delta is lost.  None of the adapters could notice the
  loss: order and uniqueness of the levels, in `TypeOK`, are all that is left then.
- `ConnectedMeansSession` says that a session *exists*, not that it is alive: the link may be
  down unnoticed, and with two tasks the session may be the other task's.

**Fairness** (`FairSpec`).  Weak fairness of a task's own steps outside the `select!`: dials end
by their timeout, sleeps end, tokio schedules runnable tasks.  Strong fairness of serving
commands: `select!` polls its arms in random order, so a ready arm is not passed over for
ever, but a flapping session makes it unready again and again.  Strong fairness of the
insertion in the map: tokio's RwLock is fair, but a restoration may hold it whenever one
looks.  Nothing is assumed of the peer: it may never answer, and need not keep a session.

For the rate limiter: time passes, and a call that can proceed again and again does.  tokio's mutexes
are fair, so the strong form is justified for the two locks; for the compare-exchange it is not needed,
since each failure means another caller's success and calls are finite.

For Luno: the steps of a call and of a loop that wait for the lock of the socket get it in turn, as tokio's RwLock
passes it on in the order it was asked for, and a frame written under the lock is written.  Nothing is assumed of the peer:
it may leave a dial unanswered and a loop without a frame, and then every other call on the adapter
waits, as `CallsReturn` says.

For Binance: calls and requests go on, within the ten minutes of a tick, and time passes.  Strong
fairness of calls because `WriteKey` waits for tasks that hold the key over their request, and tokio's lock queues the
writer.  In the model a reader is not held up by a writer that waits, which allows more than tokio does.

## 4. The proofs

`WsClientProofs.tla` proves, for any number of tasks, callers and keys, any configuration
and any queue bound, under the assumptions `KeysAssumption`, `ConfigsAssumption` and
`QueueAssumption` of `WsClient`:

| Theorem | Property | Argument |
|---|---|---|
| `TypeCorrect` | `TypeOK` | inductive; lemmas for the handle's and the task's actions and for `Enqueue` |
| `ConnectedMeansSessionHolds` | `ConnectedMeansSession` | inductive with `TypeOK`: an action that leaves the published phases writes another state first |
| `HealthFailureNeedsSilenceHolds` | `HealthFailureNeedsSilence` | from `MissesCovered`: in a session the misses never outnumber the unanswered pings, and the tick that ends it counts one ping it does not send |
| `FailuresWithinBudgetHolds` | `FailuresWithinBudget` | from `FailuresCovered`: every counted failure but the last became an attempt, and attempts stay within the limit |
| `ClosedIsFinalHolds` | `ClosedIsFinal` | from `ClosedByTheEnd`: with one task, Closed means that it has returned, and a returned task takes no step |
| `EventsFollowStreamHolds` | `EventsFollowStream` | refinement, from `EventsFitPhases`: the phase of a task tells what its last event was about, so each action sends an event the abstract stream allows |

The four inductive invariants behind these are stated in `WsClientProperties`; none of the properties
they prove is inductive alone.  For instance `HealthFailureNeedsSilence` says nothing of a task
that has not failed yet, so the bound must be carried through the whole session.

`WsSubscriptionProofs.tla`, on top of it, is about map and session:

| Theorem | Property | Argument |
|---|---|---|
| `SoleKeysServed` | one inclusion, that of `MapIsServed`, for the keys that at most one caller touches, whoever else shares the others | from `SessionShape` and `MapReachesSession` |
| `MapIsServedHolds` | `MapIsServed`, for callers that share no key (`KeysOwned`) | every key is then such a key |
| `ServedIsInMapHolds` | `ServedIsInMap`, for keys shared or not | from `SessionShape` and `SessionFollowsMap` |
| `SessionServesMap` | served if and only if in the map, for the keys both are about | from `SoleKeysServed` and `ServedIsInMapHolds` |

The properties speak of settled sessions, with queue and restoration done; the invariants of any state:

- *What the queue says last counts.*  `subscribe()` sends before it inserts, `unsubscribe()` removes and sends in one step.
  So for a key in the map, or about to be, every unsubscription in the queue has a subscription behind it
  (`MapReachesSession`); for one that is neither, every subscription has an unsubscription behind it
  (`SessionFollowsMap`).  The first needs the key to have one caller, the second does not.
- *What a session owes.*  Once its restoration has begun, a key of the map is served, still to be restored, or its
  subscription is queued, unless its `subscribe()` straddled the restoration (`raced`, `stale`).  This is where the
  finding of `ws_restore` lies: without the exception the restoration itself breaks the invariant.
- *What a session has too much.*  A key served or to be restored that is no longer in the map has its
  unsubscription in the queue.

Only the task that `command_tx` leads to is meant: an orphaned one gets no commands.

`RateLimiterProofs.tla` proves, for any number of callers, any amounts, rate, delays and clock step
(`SettingAssumption`, `NoneAssumption`):

| Theorem | Property | Argument |
|---|---|---|
| `TypeCorrect` | `TypeOK`, with the bounds of bucket and level | inductive; what a compare-exchange takes was seen in the bucket, and it takes it only if nothing changed |
| `TokensConservedHolds` | `TokensConserved` | inductive with `TypeOK` |
| `RefillLosesNothingHolds` | `RefillLosesNothing` | from `RefillInv`: the caller between load and store holds the mutex, and the count has not risen since its load |
| `LevelIsRememberedHolds` | `LevelIsRemembered` | inductive with `TypeOK` |

`LunoWsProofs.tla`, for any number of callers, symbols, markets, connections and calls, with credentials or without
(`LunoAssumption`, `MarketAssumption`):

| Theorem | Property | Argument |
|---|---|---|
| `TypeCorrect` | `TypeOK` | with `CallsTyped`: the lock is held by the one loop that waits, and only while there is a socket |
| `SocketServesCurrentHolds` | `SocketServesCurrent` | from `CurrentInv`: alone, a call's socket stays in place and has no loop until the call starts it, and the next thing it does is record the market it dialed (`DialedItsMarket`) |
| `MessagesReachWatchersHolds` | `MessagesReachWatchers` | from `CalmInv`, which builds on `CurrentInv`: only calls change the market, so a message they do not come across keeps the one it was read under; `RightLabel`: a right label leads to those who watch |

`BinanceWsProofs.tla`, for any number of callers, keys and tasks, and any times with
`Period + Refresh < Life` (`TimesAssumption`, which 20 + 30 < 60 minutes satisfies):

| Theorem | Property | Argument |
|---|---|---|
| `TypeCorrect` | `TypeOK` | with `KeyThere`: a key, once there, stays |
| `AgeIsHonestHolds` | `AgeIsHonest` | from `KeyInv`: what a call knows of the key it was given is still so when it writes, as no time passes within a call |
| `KeyKeptAliveHolds` | `KeyKeptAlive` | from `RenewedInTime`, part of `KeyInv`: the key outlives the sleep of every task.  A stream is opened with a key of age `Refresh` at most, and its first renewal comes `Period` later |
| `StreamKeyHonouredHolds` | `StreamKeyHonoured` | from the same |

`RestAdapterProofs.tla`, for any number of callers, a margin of at least one unit and tokens that live for more
than one (`RestAssumption`):

| Theorem | Property | Argument |
|---|---|---|
| `TypeCorrect` | `TypeOK` | inductive; a nonce sent is not above the adapter's |
| `MapsAgreeHolds` | `MapsAgree` | from `MapInv`: without overlap only a call between its two stores keeps the maps apart |
| `TokenHonouredHolds` | `TokenHonoured` | from `TokenInv`: token and expiry, whichever grants they are of, are at most one unit apart, which is what the margin leaves |
| `NoncesServeHolds` | `NoncesServe` | from `NonceInv`: a nonce drawn is above the last, whatever the clock says |

`BrowserWsClientProofs.tla`, for any number of connections and any keys (`BrowserAssumption`):

| Theorem | Property | Argument |
|---|---|---|
| `TypeCorrect` | `TypeOK` | inductive: live callbacks are those of the present socket |
| `ConnectedMeansOpenHolds` | `ConnectedMeansOpen` | inductive with `TypeOK` |
| `MapIsServedHolds` | `MapIsServed` | with `SilentUntilOpen`: a peer serves nothing before its socket opens, when the map is sent |
| `EventsInOrderHolds` | `EventsInOrder` | an open callback comes once to a socket, from `connecting`, and so before anything else |

`OrderBookProofs.tla`, for any number of prices and amounts and deltas of any length (`BookAssumption`):

| Theorem | Property | Argument |
|---|---|---|
| `TypeCorrect` | `TypeOK`: whatever is lost, no price twice, no level without an amount, library and probit in order | inductive (`Kept`) with the next three: a book is what the last snapshot and the deltas since made of it |
| `LibraryFollowsHolds` | `LibraryFollows` | `LibraryLevelIsAfter`: a level leaves a sound side in order sound and in order, with that price at that amount and nothing else changed.  In a side that is in order the binary search has a place to find (`PlaceExists`) |
| `ProbitFollowsHolds` | `ProbitFollows` | the same without the order, which a sort at the end restores; `SortedSaysTheSame`: the delta is sorted before it is applied, and because the sort is stable the last word on every price stays the last |
| `ExmoFollowsHolds` | `ExmoFollows` | the same; without a book there is nothing to go wrong |

They rest on three lemmas about what the model is built from.  `Ranks`: a total order on a finite set ranks it, every
rank taken once, from which what `Arranged` returns follows (`SortedRearranges`, `WithoutRearranges`, `Listed`).
`Recursion`: the recursive function of `Applied` has a value, by induction over a *set* of naturals (`InductiveSet`, from
the well-foundedness of `<`), for the induction theorems of the library take an operator.  `Replay`: levels
applied one after the other, each changing its price only, leave every price at the last word the delta says on it.

Every safety property of the passing runs is thus a theorem.  Only model-checked are the liveness properties
(`CloseEndsTask`, `SubscribeReturns`, `MapGetsServed`, `LoopsEnd`, and `CallsReturn` of three modules), since fairness and
ENABLED are out of the prover's reach.

## 5. Findings

Statements of the source that the code does not keep, each with a run:

- a subscription made while the client reconnects is not restored (`websocket.rs:727` against 6): `ws_restore`;
- the rate limiter hands out more than its rate when a refill races a request (`rate_limiter.rs:212`
  against 16 and 97): `rate_limiter_rate`;
- Luno's loop is started before the market it serves is recorded, so the book that opens the stream after a switch
  may be delivered, and cached, as one of the old market (`luno_ws.rs:135` against 235 and 588): `luno_label`.

Met on the way, shown by reading and without a run.

In the runtime:

- `max_missed_pongs` allows one miss less than documented (`websocket.rs:651` against 138);
- `max_attempts = 0` is not unlimited, as documented (460 against 92);
- `throttle()` blocks for ever at intervals above one second (`rate_limiter.rs:101`), which `yobit.rs`, `timex.rs`,
  `oceanex.rs` and `bit2c.rs` use;
- a second `connect()` or a dropped handle leaves a task that connects and breaks off for ever;
- no event tells the consumer that a task gave up, and its channel stays open because the handle holds a sender;
- `Reconnected` is announced before the state says Connected; `ReconnectConfig.enabled = false` does not turn
  reconnection off while the legacy flag, true by default, is set; `pong_timeout_secs` is not read;
- `Cache` takes more than `max_entries`.

In the browser's client: `onclose` turns Closed into Disconnected; a second `connect()` leaves the older socket
connected, with nobody to hear it; the reconnection settings are not read; a URL the browser refuses leaves
the state Connecting.

In the adapters:

- Binance's `ws_close()` and `ws_is_connected()` act on a client that is never set on the adapter the
  caller holds; renewal tasks never end, and one that fails refreshes the timestamp all the same;
- Luno's `current_market` outlives its connection: a watch of the same market after a close returns a
  receiver nothing is ever sent to; and a close frame that cannot be sent leaves the dead socket in place;
- Luno's symbols are not always given back as they were: `parse_symbol()` cuts after the third letter (`luno_ws.rs:104`), so
  the watcher of USDC/ZAR, registered under that name, gets nothing;
- the book that opens a Luno stream is lost when `watch_trades()` opened it, for there is no sender of books (275), or when it
  comes before the first market is recorded (243); and the updates of the book never get to their code, since line 251
  asks for the sides of a snapshot first;
- `probit.rs` and `deribit.rs` use an access token for ever; requests with a nonce that overlap can
  arrive in the other order and be refused;
- `exmo_ws.rs` and `xt_ws.rs` keep a snapshot unsorted until the first delta; `xt_ws.rs`, `probit_ws.rs`, `p2b_ws.rs` and
  `delta_ws.rs` take a delta without a book for the book; `OrderBook::apply_update` has no caller but its tests.

## 6. Plan

Done: `WsClient`, `RateLimiter`, `LunoWs`, `BinanceWs`, `RestAdapter`, `OrderBook`, `BrowserWsClient`.

Proved: every invariant and every safety action property of the passing runs.

What is left, in order:

1. To prove: the safety half of the liveness properties.  For each, that whoever waits waits for a step that someone can
   take, with the guard of that step spelled out in place of ENABLED: no call waits for a lock nobody holds, no
   command for a task that has returned.
2. `Precise` and `Precision`: pure operators against reference definitions over bounded inputs.

## 7. Not modelled

- **The bulk of the adapters**, some 235,000 of the 267,000 lines: they build requests from arguments and map the
  fields of responses, one function per endpoint, and keep nothing.  A model of such a function is the function; there is no
  step of another actor to come between, and what could be wrong, the name of a field, is a fact about the
  exchange.  The state they do keep is modelled from one source for each kind, so the share of lines mapped stays small however
  much of the behaviour is covered.
- **The other WebSocket adapters**, about a hundred files: a `WsClient` or a socket behind a lock, a parser, a
  cache of books, in the form `WsClient`, `LunoWs` and `OrderBook` model.  `hollaex_ws.rs` and
  `blockchaincom_ws.rs` have Luno's loop.
- **Cache**: used by nothing in the library; its two locks are held for no wait and always taken in the same order.
- **HTTP retry**: nothing calls `execute_with_retry`, so no request is retried.
- **Signing, parsing, gRPC, WASM bindings**: pure encodings and stateless forwarding, of which no small instance says
  anything.
