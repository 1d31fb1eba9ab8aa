# Verification of the ForexConnect–MATLAB library

The repository's own code is `fc_matlab`, a DLL that lets MATLAB trade through
the ForexConnect SDK (`src/fc_matlab_dll/fc_matlab_dll/fc_matlab/source`, called
`S/` below). `src/FXCM-MATLAB-master` is an older copy of the same code; the rest
of `src/` is the SDK's headers, MATLAB's headers and binaries.

## The system

Two threads meet in `S/`:

* the **MATLAB thread** runs one exported function of `fc_matlab.cpp` at a time;
* the **callback thread** of the SDK runs the methods of `ResponseListener` and
  `SessionStatusListener`, one after the other.

They share the fields of the two listeners and no lock at all; two Windows
auto-reset events are the only synchronisation.

| component | state | operations | interacts by |
|---|---|---|---|
| request rendezvous (`ResponseListener`) | `mRequestID`, `mResponse`, `mResponseEvent`, reference counts | `setRequestID`, `waitEvents`, `getResponse`; `onRequestCompleted`, `onRequestFailed` | every exported function that sends a request; answers on the callback thread |
| account balance cache | `accBalance[100][2]` | `getAccountBalance`; Accounts rows of `onTablesUpdates` | shared array, no lock |
| order monitor (`OrderMonitor`) | state, result, stored trades, amounts | `onTradeAdded`, `onClosedTradeAdded`, `onOrderDeleted`, `onMessageAdded` | table updates (its call sites are commented out) |
| session and login | `session`, the listeners, `mConnected`, `mDisconnected`, `mError`, `mSessionEvent` | `login_fc`, `logout_fc`; `onSessionStatusChanged`, `onLoginFailed` | event, globals, reference counts |
| real-time prices | `mInstrument` | `getRealTimePrices`, `stopPrices`; `printOffers` | shared string, no lock |
| history download | `recNum`, `outFile`, the page bound | `getHistoryPrices`, `printPrices` | one request per page |
| order requests | none | `create…Request`, `editOrderRequest`, `removeOrderRequest` | value maps handed to the SDK |
| trading reports | none of their own | Orders, Trades, ClosedTrades rows of `onTablesUpdates`; `onRequestFailed` | `mRequestID`, set by every call, tells which rows the user hears of |
| table listings | the local `saveToFile`, `outFile` | `printOpenPos`, `printWaitingOrders` | the rendezvous; a file or the MATLAB callback |
| order calls | `limitOrderID`, `stopOrderID` | `createMarketOrder` … `deleteOrder`, `changeELSstopLimit` | the rendezvous, without waiting |

What is hard here: a handler and a call interleave without a lock; an answer may
come early, late, twice removed by a timeout, or never; updates of one order come
in any order; pointers are nulled, counted and dereferenced by two threads; 0 has
two meanings in the balance cache. `PROJECT.json` lists each hazard at its line.

## Modules

| module | models |
|---|---|
| `ResponseListener` | the rendezvous, one step per access to a shared field |
| `RequestReply` | what the exported functions promise of a request: the abstract specification of the rendezvous |
| `BalanceTable` | the balance cache |
| `OrderMonitor` | `OrderMonitor.cpp` and the server's updates about one order |
| `SessionStatus` | login and logout, the status listener, and the reference counts of the session and its two listeners |
| `HistoryDownload` | the pages of a download and the file they are written to |
| `Download` | what a download promises of the quotes it keeps: the abstract specification of `HistoryDownload` |
| `TradingReports` | what the user is told of orders and trades, and the listings of positions and orders |
| `PriceStream` | `mInstrument` and the offers printed |
| `OrderRequests` | the value maps of the order requests, as operators |
| `OrderCalls` | the order functions against a server's orders; extends `OrderRequests` |
| `Placement` | what the order functions promise of the requests they place: the abstract specification of `OrderCalls` |
| `MC…` | the instances TLC checks |
| `…Proofs` | the theorems, checked by TLAPS |

The modules meet at `RequestReply`: `ResponseListener` is shown to implement it,
and `HistoryDownload`, `OrderCalls` and `TradingReports` take from it that a query
that no earlier handler disturbs is given its own answer, its own failure, or a
timeout. A query that is disturbed may be given the answer handled when it began,
which these three modules do not have: what they show holds as long as no handler
of an earlier request outlives its call. `ResponseListener` has both.

### ResponseListener

The MATLAB thread is `pc`, `call`, `held`; each value of `pc` names the next
access: `clear`, `release`, `null`, `reset` are the lines of `setRequestID`,
`send` is `sendRequest`, `wait` is `waitEvents`, `get`, `ref`, `return` are the
three accesses of `getResponse`, and `use` is the caller working with the response
until its `O2G2Ptr` releases it. An order call ends at `send`: the code only
sleeps after it. The callback thread is `cbPc`, `cbReq`; it enters a handler only
from `idle`, tests `mRequestID` at once and then takes one step per access.
`lib` is what the SDK did with each request: it answers once, with a response,
without one, or with a failure, at any time, in any order, or never.

A call is named by its request, for every call creates a new one. The pages of
one history download share a request object, but a page is only sent after the
answer to the last one, so that they behave like requests of their own.

The assignment of `mRequestID`, a `std::string` that the other thread may be
comparing, is undefined behaviour; every outcome of the comparison (the old id,
the new one or neither) is that of a comparison just before or just after, so one
step covers them. A NULL or freed response that is dereferenced sets `crashed`,
after which nothing is claimed.

Nothing in the code keeps `setRequestID` from running while a handler that has
passed its test of `mRequestID` is still at work: orders return after a sleep,
queries after a timeout. The history variable `straddler` keeps, for each call, the
request whose handler was at work when it began: that handler disturbs the call.
The properties say exactly how much survives:

* `NoLostWakeup`: always;
* `UndisturbedAnswer`: every call without a straddler is given its own response
  or told of its own failure;
* `ForeignAnswerIsStraddlers`: always. A disturbed call may be given a foreign
  response, but only its straddler's: none that an earlier call left behind, none
  of a request superseded long ago, none of an order answered meanwhile;
* `RefsBalanced`: as long as there is no disturbed call, each reference count is
  the number of owners, and nothing dead is dereferenced. After one, both go wrong
  in the model, as in the code, and nothing is claimed;
* `CallReturns`: every call returns;
* `KeepsPromise`: the module implements `RequestReply`, in which an undisturbed
  query returns with its own response, with nothing because it failed, or by a
  timeout, a disturbed one perhaps with its straddler's response or with nothing,
  and the program may crash once a call has been disturbed. The refinement mapping
  reads `status` and `answer` off the history of the calls.

Fairness: `WF` of the MATLAB thread within a call and of the callback thread
within a handler, which is that the operating system schedules both threads; the
timeout of `waitEvents` is a step of the waiting thread, since
`WaitForSingleObject` returns after `_TIMEOUT`. The SDK is not assumed to
answer.

### BalanceTable

`accBalance` is a function from slots to records of an id and a balance; 0 is the
id of a free slot and what `atoi` makes of an unknown name. `getAccountID` returns
a pointer to a dead local, so the id read is the right one or 0 (`ReadIds`). The
handler's loop takes up to three steps per slot, since it reads the id twice
before it writes. Only the MATLAB thread writes ids, so that its search and claim
are one step. The Accounts table is taken to be loaded at login, as for the
accounts the code is used with.

`tracked` (history) are the accounts that held a slot when an update of theirs
began. `OneSlotPerAccount`, `TrackedSlotIsLatest` and `TrackedAnswerIsLatest` say
what holds for them; `BalanceOfTheAccount`, the sentence of `FC_accBalance.m`,
fails for others.

### OrderMonitor

The vectors of trades are the sums of their amounts. The server picks a fate, the
amount left and how the rest is split between opened and closed trades; each
update is delivered once, in any order. Updates about other orders are refused by
the handlers' first tests and change nothing. `mTotalAmount` starts with any
value, as the constructor leaves it.

A result is announced by `mResult`, which a caller may read at any time.
`ResultTruthful` says what an announced result is true of, `FinalResult` what it is
in the end, and `ResultSettles` what may happen between: nothing, except that a
full rejection becomes a partial one, when the reject message has overtaken the
trades of an order that was partly executed.

### SessionStatus

A session is numbered in the order of creation and its status listener has the
same number; 0 is NULL. `pc` is the MATLAB thread, which logs in, uses the
response listener, and logs out, in any sequence and as often as `MaxSessions`
allows; `cbPc[g]` is the thread on which session `g` calls its listener, one step
per flag. The three global pointers are never set back to NULL, as in the code.
`Follows` gives the statuses the library may report next. The reference counts
are those of the code; the library is taken to hold one reference to a listener
while it is subscribed and one while it calls it.

`failed` (history) records that some login did not connect; `up` and `down` are
the sessions that reported connection or disconnection. `UseIsSafe` is conditional
on `failed` because `login_fc` returns 1 in either case and leaves the pointers of
the last login (or NULL) in place.

Fairness: both threads run on. The timeout of the login is not among the fair
steps: `AnswerEndsWait` holds although the timeout may never come, so it is the
report that ends the wait. `CallsReturn` adds the fairness of the timeout
(`WaitForSingleObject` returns) as its hypothesis: then every call returns or the
program has crashed, also when the library reports only "sub session identifier is
not found" or a status the listener has no case for, neither of which signals.

### HistoryDownload

A date is a number. `Eps` stands for the 0.0001 day under which the code takes two
dates for the same: 0 for bars, more for ticks. `quotes` is any set of dates. A
round of the loop is a `SendRequest` and one of `PageTimeout` (returns at once and
leaves the stream open), `PageFailed`, `PageUnreadable` (no response reader
factory), `PageEnd` and `PageRows`. `io` is the global `outFile` with its failure
bit, and the files. `MayRefuse` and `MayLackFactory` switch the failures of
`open` and of the reader factory on.

`whole` (history) says that nothing has gone wrong in the download and that its
file was opened; `kept` (history) that the last call has got its file. `NewestFirst`
is `Download!Spec` under the mapping that reads the quotes stored off that file:
after each page, and however the download ends, they are all the quotes from the
bound on and no others, so that a failed download leaves the recent part of its
period without a gap. `Complete` adds that a download in which nothing failed
reaches the beginning of its period. Both are stated up to `Eps`, with which the
code compares dates.

Fairness is that the loop goes on; each wait ends by an answer or by the timeout. A
session whose responses can never be read, and are answered each time, makes the
loop go on for ever; `DownloadEnds` leaves this case out by
`[]<><<PageUnreadable>>_vars`.

### PriceStream

`onTablesUpdates` tests `mInstrument` once and hands `printOffers` its `c_str()`,
which reads the characters again for each offer while the MATLAB thread may assign
them. During an assignment the callback thread may read the old name, the new one,
the empty one, or a mixture that equals none (`Readable`). `seen` counts the offers
of the update that have been dealt with, `out` lists those that were printed.

### TradingReports

The MATLAB thread makes order calls, which set `mRequestID`, send and return, and
listings, which wait. The callback thread delivers news: an order's row comes or
goes, a trade, the failure of a request. `handled` is what was delivered, `told`
what reached the user. A row is told if its request is the ID read, and while
`setRequestID` assigns the ID (`pc = "set"`) the old one, the new one or a mixture
may be read; `torn` (history) is the news compared then. Trades, closed trades,
messages and balances are told whatever the ID. What an order call finds out
before it has created its request changes nothing here.

Each piece of news carries a request (`RequestIn`). Assumed of the server: the row
that announces an order carries the request that placed it (`RequestOf`; for orders
of other terminals `Elsewhere`, a request this terminal never sends). The row that
announces its end is not assumed to keep it: it may carry that one, or any request
this terminal has sent, as when `deleteOrder` has removed the order. The code reads
the request from each row, and nothing in the repository says which the server puts
there.

A listing opens its file as soon as the wait has ended, before it knows whether
there is a response; asks whether the file is open only after that; writes the
header to the file in any case; and then each row to the file or to the screen.
`ListUnanswered`, `ListAnswered` and `PrintRow` keep this order.

`OutcomeTold`: whatever is delivered with the request of the last call is told,
even while its ID is being assigned, since a request is only sent afterwards. After
`deleteOrder` this is the order's last row if that carries the removal's request;
if it still carries the one that placed the order, it is not told, since the ID has
moved on. `DeletionAfterAddition`: a deletion is told only if the addition was told
(or lost while an ID was assigned), or if the last row carries a request of this
terminal other than the one that placed the order. An order whose coming was missed
is therefore never taken up again by a later call on its own, and of an order of
another terminal nothing is told but a row that carries a request sent from here,
such as its removal: that deletion does come without its addition.
`ListingDelivered`: the
table answered is delivered whole and in order, in the file, on the screen, or on
the screen without its header if the file was refused.

### OrderRequests, OrderCalls

A request is a value map: a function from the parameters that were set to their
values. `toServer` holds the requests sent and not yet carried out; `state` the
orders, which come and go by themselves as well. A call that only sends is one
step, or is refused when the request cannot be created; `changeELSstopLimit` and
`deleteOrder` go through the answer or failure of a query for the table of orders,
the search, and one or two requests. `LastOf` lets the rows come in any order, of
which the code takes the last match. `getAccountID` is a lookup of one name, and
the empty id otherwise; that its result outlives the call is assumed here, as the
recorded outputs of the scripts show, and not in `BalanceTable`. `sure` (history)
says that the order of `deleteOrder` has been waiting since the call began and that
no step failed; `placed` (history) is what the last call has sent.

Which parameters each request sets is modelled, but no property is about it: to say
that a range is only set for range orders would repeat the test that sets it.
Against the scripts, one parameter is set where they say it is not: a price of 0,
for which `fc_changeOrder.m:15` says "0 = no change", is sent as the order's new
`Rate` (`EditOrderRequest`). What the server makes of it is not known, and so there
is no property of it either.

`SendsWhatIsAsked` is `Placement!Spec`. `Placement` knows no table, no search and no
order ids: a call places the requests its arguments ask for (`AskedBy`), in their
order and each once, or only some of them; a 0 means that nothing was placed, and a
1 that something was. `Placement` leaves to its instance, as constants, whose 1 tells less
(`changeELSstopLimit`, which returns 1 whether its edits could be created or not)
and whose result tells nothing (`changeOrder`, which has no return statement). A
script that calls again after a 0 therefore never places an order twice.

## Runs

| run | shows | bounds |
|---|---|---|
| `rendezvous` | safety under every interleaving, refinement of `RequestReply`, and that every call returns | 2 queries, 2 orders: an order's failure, a late answer and two later calls can meet |
| `balance_table` | the cache under races | 3 accounts, 2 slots, balances 0, 5, 7: the table fills up, and balances tell accounts and updates apart |
| `balance_owner` | `FC_accBalance.m:12` refuted | the same |
| `order_delivery` | every delivery of every fate | an order of 4 lots: up to four trades of either kind and any rest, so that a result can be announced with one, two or more trades still to come |
| `session_lifecycle` | logins and logouts against every report, and that each ends | 2 sessions: a login after a failed login, a logout or another login, with the pointers of the first |
| `history_pages` | order, refinement of `Download`, completeness and end of downloads | 7 dates, pages of 3, `Eps` 1: downloads of up to three pages, rows at both boundaries, any number of downloads one after the other |
| `history_output` | `FC_histData.m:14` refuted | 5 dates, pages of 2, 2 files |
| `price_stream` | what is printed while the name is left alone | 3 instruments, 4 offers |
| `price_stop` | `FC_prices.m:12` refuted | 3 instruments, 2 offers |
| `order_calls` | the order functions against the server, refinement of `Placement` | 4 orders of 2 trades, two requests on their way when a call begins; every order function and every branch of its request |
| `order_entry_edited` | `fc_changeELSstopLimit.m:15` refuted | the same orders, one request on its way |
| `trading_reports` | who is told what, and the listings | 2 order calls, one of which places an order and either of which may remove one, 1 order of another terminal, 1 file or the screen, tables of up to 2 rows of 2 values: an order's news can meet every moment of a later call or listing, and a row that is lost, doubled or swapped shows |

Deadlock is not checked where the system may stop: all requests of the instance
have been made, all sessions used up, or everything about the order delivered.

The four runs that refute a sentence of the scripts each have a finding in
`PROJECT.json`. Each names a behaviour of the code that its documentation does not
describe:

* a free slot of the balance cache has received the last update of any account, and
  the account that claims it is answered with that (`balance_owner`);
* a download that times out leaves `outFile` open, and the next download cannot
  open its own (`history_output`);
* stopping the prices while an update is handled leaves `printOffers` comparing
  with an empty name, which every offer matches (`price_stop`);
* entry orders `LE` and `SE` are taken for the limit and stop orders of their trade
  (`order_entry_edited`).

The models contain further behaviours that differ from a comment or message, and
about which no property is stated: a login waits for its whole timeout after "sub
session identifier is not found", since `onLoginFailed` does not signal
(`SetError`); an emptied account is answered with its balance at login
(`TestSlot`); a canceled order whose last trade comes after its row's deletion gets
the result of a rejected one (`ResultAfterTrade`); a handler that straddles
`setRequestID` ends the next wait early (`SignalAnswer`); the only quote of a
period is dropped if it is at its end (`PageEnd`); `changeOrder` sends a price of 0,
though `fc_changeOrder.m:15` says that 0 changes nothing (`EditOrderRequest`); `deleteOrder` takes an account's id, not its name
(`LookupAccount`); "Order deleted" is printed whatever became of the request
(`OrderDeleted`) and whether or not its last row is told; and an unknown account
name gives a request with an empty id (`GetAccountID`).

## Proofs

All theorems hold for every value of the constants, under the `ASSUME`s of the
modules.

* `ResponseListenerProofs`: `Bookkeeping` ties the two threads' positions to the
  fate of the current request (the request of a call that has not been sent is
  new; the request of a handler has been answered). With it `NoLostWakeup` is
  inductive. `Delivery` strengthens `UndisturbedAnswer`: in an undisturbed call,
  a handler serves this call, `mResponse` is NULL or this call's response, and
  the event tells of this call's answer. `Counted` adds the reference counts.
  `Origin` says of all calls where a response can come from: handlers at work serve
  the call or its straddler, and once `setRequestID` has cleared `mResponse` it holds
  nothing else; `ForeignAnswerIsStraddlers` follows.
  `ListenerKeepsPromise` maps each step to one of `RequestReply` or a stutter, with
  handlers that outlive their calls and without.
* `BalanceTableProofs`: `Caching` says that a tracked account's slot is up to
  date unless the handler has still to reach it, and that the handler never
  passes over it nor is about to overwrite another tracked account's slot.
* `OrderMonitorProofs`: `IInv` says that stored and pending amounts add up to the
  executed amount, what the monitor knows in each state, and which result it may
  announce. `Settles` needs one step more: a trade that comes after a result was
  announced can only follow a full rejection (`LateTrade`).
* `SessionStatusProofs`: `IInv` says of each session what its three reference
  counts are made of (creator, subscription, running callback), where the
  pointers may point in each step of `login_fc` and `logout_fc`, and what the
  flags and the event tell of the reports so far. The safety properties of the
  run follow from it, for any number of logins.
* `OrderCallsProofs`: the two order ids are empty or orders of the table received
  by this call, of its trade and of the right side; the order of `deleteOrder` is
  in the table if `sure`. The three action properties follow from it, for any
  orders, calls and server. For the refinement of `Placement`, `PlacedInv` says at each
  place of the call what it has sent so far: nothing before `limit`, at most the
  edit of the limit order at `stop`, the removal at `sleep`; each step is then a
  `Begin`, `Pass`, `Place` or `Return` of `Placement`, or a stutter (`PromiseStep`).
* `HistoryDownloadProofs`: a page of the newest `QueryDepth` quotes up to the bound
  has every quote from its oldest on (`PageIsUpward`), by counting; its rows in the
  order of the loop exist and are those quotes (`Descending`, `RowsOfPage`). `Inv`
  says that the bound moves down over at least half a date for each row, that the
  stream writes only if this call opened it, and that the file kept holds the
  quotes from the bound on and none below it. A page appended below such lines
  keeps the order (`RowsBelow`). `FilesInOrder`, the refinement of `Download`, and
  `Complete` follow, for any quotes, any period and any page longer than `Eps`;
  for the last, a quote that the last page did not bring lies within `Eps` of the
  bound (`LastPage`) or of the beginning (`BelowBound`).
* `PriceStreamProofs`: a handler that nothing disturbs reads one and the same name
  (`OneName`), and what it has printed are the places of that name so far.
* `TradingReportsProofs`: between calls the ID is that of the last call, and an order
  call is over once its request is sent (`IDInv`); no news carries a request of this
  terminal that was not sent (`HandledInv`); an order whose coming was handled, not
  told and not compared during an assignment had the request that placed it
  superseded, and no later call has that request (`SupersededInv`). So a deletion
  told of such an order carries another call's request. The listings need in addition that the rows
  printed are the beginning of the table.

Each of the four sentences that a run refutes holds under a condition, which is a
theorem; the condition names all that the sentence fails by:

* `TrackedAnswerIsOwn`: an account that held its slot when an update of it began is
  answered with a balance of its own, unless one is just being written;
* `OutputWithoutTimeout`: if files can be opened and responses read, the sentence
  about the output file holds until a download times out. `ClosedInv` says that the
  stream is then closed between the calls and until the first page;
* `StopStopsLaterUpdates`: no price is printed of an update that is handled after
  `stopPrices`;
* `LimitAndStopWithoutEntry`: the new limit and stop prices go to a limit and to a
  stop order if the table read shows no entry order of the trade.

Only model-checked: the liveness properties (`CallReturns`, `CallsReturn`,
`AnswerEndsWait`, `DownloadEnds`), which TLAPS cannot prove under fairness. Every
other property that holds is a theorem.

## Left to do

The whole program as one composition, in which a disturbed query of
`ResponseListener` gives `HistoryDownload` or `OrderCalls` a foreign answer.

## Not modelled

* `SampleParams` and `OfferCollection`: no function of the library calls them.
  `LoginParams` copies four strings. `dllmain` returns TRUE. `printResult`,
  `printTrades` and `printClosedTrades` of `ResponseListener`, `getAccount` of
  `CommonSources`: the calls are commented out or absent. There is no state or
  order of events to check in them.
* The scripts of `fc_matlab_run` other than `FC_login.m` and `FC_logout.m` are
  single calls with literal arguments, and `fc_mexCallback.c` passes a message on.
* The SDK's and MATLAB's headers and the COM stubs under `include-matlab` are
  third-party declarations. They, and `src/FXCM-MATLAB-master`, the older copy of
  the same project, make up all but about 3000 of the repository's 186000 lines of
  C and C++, so that a model of everything the library does covers about one line
  in a hundred of the repository.
* Formatting, logging, the text of messages and memory that is only leaked.
