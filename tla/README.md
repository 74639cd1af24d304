# Verification of the flash coupon service

TLA+ models of the coupon service under `src/`, the TLC configurations that
check them on small instances, and proofs of the main theorems for every value
of the constants. The service lets users reserve, turns one reservation in five
into a coupon, and lets users grab the coupons in a window of one minute.

## 1. The system

| Component | State | Operations | Code |
|---|---|---|---|
| Reservation endpoint | rows of `coupon_reservations`, the filter for reservations | `createCouponReservation` | `api/coupon_reservation.go:112-162` |
| Reservation listener | `is_processed`, rows of `coupons`, loop variables of a cycle | `reservationListener`, `handleReservations` and all it calls | `api/coupon_reservation.go:20-72, 164-320`, `db/sqlc/batch_operations.go` |
| Grab endpoint | the filter for grabs, `grabRequestChan` | `handleGrabRequest` | `api/grab.go:33-88` |
| Grab loop | coupon list, received requests, the pool of tokens, `coupons.user_id` | `handleGrabbing`, `receiveGrabRequests`, `updateCouponsForWinners`, `fallbackUpdateCouponsForWinners` | `api/grab.go:90-312` |
| Bloom filters | set bits | test, add, `resetBloomFilterDaily` | `api/server.go:53-75`, `github.com/willf/bloom` |
| Time windows | four atomics of `timeConfig`, the timers | `couponClockTimer`, `specialTimeMiddleware`, `isWithinGrabWindow` | `api/server.go:77-96`, `api/middleware.go:185-207`, `util/time.go` |
| Rate limiter | a counter and a time per address | `isAllowed`, `cleanupVisitors` | `api/middleware.go:16-108` |
| Life cycle | the context of the background loops | `main`, `Start` | `main.go`, `api/server.go:217-226` |
| Authentication | none | `authMiddleware`, `checkUserAuthorization` | `api/middleware.go:110-183` |
| Users, coupons (read) | rows of `users` | `createUser`, `getUser`, `getCoupon` | `api/user.go`, `api/coupon.go` |

How they interact. Endpoints run one goroutine per request. `POST /reserve`
writes rows that the listener reads three seconds later. The listener writes
coupon rows that the grab loop lists. `POST /grab` hands its request to the
grab loop through a channel and answers before the request is served; nothing
ever tells the handler what became of it. Everything else is shared through the
database, whose UNIQUE constraints (`coupons.code`, `coupons.user_id`,
`coupon_reservations.user_id`) are the only synchronisation between processes.

What is hard, and what makes each part correct:

* *Listener.* A cycle is up to a dozen separate statements. Each may fail, or
  take effect although its reply is lost; the process may die between any two.
  The batch transaction has a fallback that repeats its inserts with the same
  codes, and every cycle starts from the rows alone. Correct means: a settled
  reservation has a reason, no reservation yields two coupons, a cycle stays
  within its quota, and every reservation is settled some day.
* *Grab.* The filter is tested and updated under two separate locks, with a
  query and a send between them. The loop keeps a coupon list across a wait of
  three seconds and a failed statement, and the fallback writes rows by id
  alone, with goroutines that compete for tokens. Correct means: an accepted
  request is not forgotten, a coupon does not change hands, the pool is whole
  after every round, rounds end, and the channel drains.
* *Reservation endpoint.* Filter and row are updated separately, while resets,
  restarts and other handlers intervene, and the user's own row may not be there
  yet. Correct means: one granted reservation per user, and no refusal but of a
  user with a row or, by a false positive of the filter, through rows of others.
* *Time windows.* Four atomics are stored one by one and read one by one, they
  are zero until the first tick, and their date is local while their hour is UTC. The
  filters are cleared by a timer of its own. Correct means: nothing passes
  outside its window, a window that is due is open, and the filter of a window
  holds users of that day, not of days long gone.
* *Rate limiter.* A counter per address restarts after a pause of a window, and a
  goroutine deletes counters meanwhile. Correct means: no interval of a window
  has more requests than the rate, and deletions change no answer.
* *The whole.* The listener inserts the coupons that the grab sells, in one
  process that dies as a whole. Correct means: a coupon is sold once, after it was
  issued, to a user with a reservation, and no user gets two.

## 2. The modules

| Module | What it is |
|---|---|
| `CouponIssue` | the listener, statement by statement, for any number of server processes |
| `IssueLedger` | what the listener promises: one final outcome per reservation, in the end |
| `CouponGrab` | grab handlers, channel, loop, batch statement, fallback goroutines |
| `ReserveAdmission` | `POST /reserve`, its filter, and `POST /user`, on whose row it depends |
| `TimeWindows` | clock, windows, their checks, the daily reset of the filter |
| `RateLimiter` | counters per address, their cleanup |
| `RunLimit` | what the rate limiter promises, in terms of the times requests were served |
| `FlashSale` | `CouponIssue` and `CouponGrab` over the same rows, clock and process |
| `Sale` | what the service promises about its rows |
| `BloomFilter` | the filter as the set of its bits (external library, as `src/` uses it) |
| `MC...` | values of the constants for TLC |
| `CouponIssueProofs`, `IssueOnceProofs`, `IssueQuotaProofs` | theorems about `CouponIssue` |
| `CouponGrabProofs`, `ReserveAdmissionProofs`, `TimeWindowsProofs`, `RateLimiterProofs` | theorems about the module of that name |
| `FlashSaleProofs` | theorems about the composition, from those about its parts |

### CouponIssue

`job[i]` holds the local variables of `handleReservations` in process `i`:
`rest` is the part of the listing not yet batched, `numCoupons` the quota left,
`pending` the winners whose coupons are still to be made, `nonWinners` those of
the batch, `generated` the return value being built. `pc` names the call to be
made next. Actions and code:

| Action | Code |
|---|---|
| `List` | `reservationListener` tick and `ListCouponReservationsWithLimit` |
| `StartBatch` | loop head of `handleReservations`, `partitionReservations`, `generateCodesForWinners` |
| `BatchCreateCouponsWithTx` | the transaction (insert, mark, commit), atomic as the database makes it |
| `CreateCoupon`, `MarkCreated` | `fallbackCreateCouponsIndividually`, one insert, one update |
| `MarkNonWinners`, `MarkEachNonWinner` | `markNonWinnersProcessed` and its fallback |
| `Crash` | the process dies; rows stay, the job is lost |
| `Reserve`, `ClockTick` | the environment: new rows, the window opens and closes |

Each call returns `ok`, fails without effect, or takes effect while the reply is
lost; `Failing`, `Losing`, `CrashPoints` say which of this a run allows, and
`MaxFaults` bounds how often. A coupon is named by its reservation and the cycle
that minted its code; a fallback re-uses the codes of its cycle, so the UNIQUE
constraint on `code` is equality of names. `FOR UPDATE SKIP LOCKED` is modelled
as the code uses it, outside a transaction: a listing may miss rows another
process is updating or listing at that very moment (`Locked`), and holds no lock
after it returns.

### CouponGrab

`req[q]` is one running `handleGrabRequest` (filter test, lookup, send, filter
update); `grabber[s]` the local variables of `handleGrabbing`; `worker[s][c]` the
goroutine that updates coupon `c` in the fallback; `tokens[s]` the pool. The send
has a `default` branch, so the three-second timeout beside it is never taken and
a full channel refuses at once. The winners are all users received, in the order
of a Go map, which is any order: `Pairings` is the set of possible assignments.
`Signal` cancels the context: a call made under it may then fail or lose its
reply for free, goroutines waiting for a token may give up, the loop lists no
more, and handlers go on. `Crash` loses all but the rows.

`accepted` counts per server, since its filter was last cleared; `asked` and
`forgotten` follow a user's last accepted request, so that "not lost" can be
said under crashes and failing updates too. A coupon expires at any time after
it was issued, also while the loop holds it in its list.

### ReserveAdmission

`req[q]` is a running `createCouponReservation`; `granted` and `refused` record
the answers users got. An insert for a user without a row in `users` fails on
the foreign key. `ResetBloom` may come anywhere in a handler. `NextDay` waits
for the handlers of the day, as no request runs for 24 hours, and clears the
filter as the reset at 23:10 does; with `"skip"` among the `Disruptions` it may
leave the filter as it is, for the first day of a server whose reset skips a day.

### TimeWindows

`now` counts units of UTC, `zone` is the server's offset. `opens` and `closes` are the
atomics, `storing` the stores the current tick of `couponClockTimer` has still to make,
in the order of the code; `check` is one comparison under way, of the
middleware, the listener or the grab loop, which reads the clock first and then
`opens` and `closes` one by one. `LoadStart` and `LoadEnd` are these reads.
`SpecificTime` is `GetSpecificTime` (date of the local calendar, hour in UTC) and
`NextReset` the target of the timer of `resetBloomFilterDaily`. `filter` keeps, for
each user let in, the date and whether the window moved under that check.

Time passes only when no timer is due and no check is older than `Lag`: a timer
runs within a unit of time and a check takes at most `Lag`. Without this nothing could be
said about time at all. Offsets are constant (no daylight saving), and a
restart is another initial state, since the process keeps nothing of this.

### RateLimiter

`isAllowed` is one step (`Allow` or `Refuse`), as is a round of `cleanupVisitors`:
both hold the mutex throughout. `served` records when requests were let in. The
cleanup's ticker fires every `Window`; the goroutine is taken to be scheduled within a
unit of time, and after a signal it ends, perhaps after one more round. `RunLimit` has
no counters: it decides from `served` alone.

### FlashSale

`Issue` and `Grab` are instances of the two component modules. A user stands for his
reservation's id and a coupon for the reservation it was minted for, so
`coupons` gives `CouponGrab` its `status`, and the listener's window is the phase
`reserve` of its clock. `IssueStep` and `GrabStep` leave the other component's
local state alone; `Crash` takes both. Each component's own environment actions (new
coupons in `CouponGrab`, the window in `CouponIssue`) are thereby replaced by the steps of the other.

## 3. The runs

| Run | Shows | Bounds |
|---|---|---|
| `issue_faults` | `TypeOK`, `ProcessedHasCause`, `HalfDoneByFaults`, `CycleQuota` with every fault | 2 processes, 4 rows, listing 4, batch 3, 2 faults |
| `issue_settles` | `NoDoubleIssue`, `TotalQuotaWithoutFaults`, `WithheldIsCutOff`, `EveryReservationSettled`, `ImplementsLedger` | 1 process, 4 rows, listing 3, batch 2, 2 faults |
| `grab_faults` | `TypeOK`, `AcceptedServed`, `DuplicatesBounded`, `WorkersConserved`, `OwnersReserved`, `OwnerStable` | 2 users, 2 coupons, 2 handlers, channel of 2, 1 token, 1 fault, crash, signal, reset |
| `grab_live` | `RoundEnds`, `AskedIsServed` under fairness | 2 users, 2 coupons, 1 handler, 1 token, 2 faults, signal |
| `reserve_races` | `TypeOK`, `ReservedOnce`, `RefusedByRows` | 3 users with 2 of 3 filter positions each, 2 handlers, 2 days, 2 faults, resets, also skipped |
| `window_times` | `TypeOK`, `PassedInWindow`, `OpenWhenDue`, `FilterOfTodayOnceSettled` | a day of 16 units, start at any of them, 5 time zones, 3 days |
| `rate_limits` | `TypeOK`, `RateBound`, `EntriesExpire`, `ImplementsRunLimit` | 2 addresses, rate 2, window 2, 7 units of time |
| `flash_sale` | `SoldWithinShare`, `ImplementsSale` | 3 users, ratio one in two, batch 2, 1 handler, channel of 1, 1 fault, resets |
| `issue_skip_locked`, `reserve_tomorrow`, `rate_steady`, `window_reset` | a documented statement the code violates, section 6 | |

Why these bounds reach the interesting cases. The sizes keep the proportions of
the code: there 10000 rows are listed in batches of 3000; here the listing is
larger than a batch, so a quota is carried over from one batch to the next, and in
`issue_settles` a full table is larger than a listing. Two faults let a failed
transaction meet a failed fallback, or a crash meet a lost reply. Two processes suffice for every race over rows, as a third sees nothing
but rows. In `reserve_races` any two users cover the bits of the third, so that false
positives are as frequent as three users allow. One token and two goroutines make the pool contended; a channel of two with two
users fills up, and two handlers race. In `window_times` the day is scaled: a window is one or two
units, a refresh two; the zones put local midnight after, before and into the
windows, and in one of them the daily reset falls between the windows. In `rate_limits` seven units hold three windows, so that a run of requests, a
pause, a deletion and a second run fit. In `flash_sale` days repeat, and
although three reservations are worth one coupon, a lost commit yields a second
one, so that two coupons are sold in rounds of their own and together.

Why some runs exclude some faults. A fallback insert whose reply is lost, a
failed or interrupted mark after it, or a second process do lead to two coupons
for one reservation: the code logs this (`CRITICAL: coupon created but
MarkAsProcessed failed`) and nothing promises otherwise. So `issue_settles`
excludes exactly these (`create` lost, `mark` failing, a crash at `mark`), and
`IssuedOnce` proves that excluding them is enough. A coupon that was created but
whose reply was lost is not counted as generated; `CycleQuota` leaves out just
these (`uncounted`), so it is checked under every fault. `flash_sale` names a
coupon by its reservation and so excludes the same faults, and a second
process; of the others it takes those that leave rows half done: a lost commit,
a crash at three points of the listener and at any point of the grab, and a failed or lost
batch assignment. The rest is in the component runs.

Fairness (`FairSpec`). Steps of a running cycle, handler, round or goroutine are
weakly fair: goroutines are scheduled and database calls return. The clock goes
on. `List` and `ListCoupons` are strongly fair: they are enabled only inside a
window, but a window lasts five minutes (one minute) and the ticker fires every
three seconds (every second), so a window that recurs contains ticks.
`Receive` is strongly fair beside `ReceiveTimeout`: a request already in the
channel when a round starts is taken, as the timeout fires three seconds later.
Nothing is assumed of new requests or new reservations, and none of
failures except that `MaxFaults` bounds them.

Refinements. `IssueLedger` is refined through `Outcome(r)`, computed from the
rows alone; a reservation with more than one coupon maps to a value the ledger never
takes. `RunLimit` is refined through the history of served requests:
the counters and their deletion disappear. `Sale` is refined through the rows.

Every property of a passing run has a mutant in `PROJECT.json`: a changed helper
(a quota rounded up, a token returned on success only, a mark left out of the
transaction, the ends of the windows stored first, ...) under which TLC finds
that property violated. These are the definitions of the component modules that
nothing uses.

Some properties name their exceptions, as narrow as the code allows: `HalfDoneByFaults`
counts against the faults that happened, `AcceptedServed` lets a request be
forgotten only after a fault or a signal, `PassedInWindow` lets a moved window
admit something only at the first refresh and where the local date changes, and
`FilterOfTodayOnceSettled` allows users of the day before only in a window that
begins before the reset. `PassedInWindow` and `FilterOfTodayOnceSettled` are violated in
`window_times` when one of these exceptions is taken out.

## 4. The proofs

All are for every value of the constants within the assumptions below: any
finite set of rows, any number of processes or handlers, any sizes, zones and
faults. The general form is an inductive invariant, one lemma per action, and a
theorem that combines them.

**The listener** (`CouponIssueProofs`, `IssueOnceProofs`, `IssueQuotaProofs`)

* `TypeCorrect`: `[]TypeOK`.
* `NoReservationLost`: `[]ProcessedHasCause`. The property is not inductive: a
  step marks rows because of what an earlier step of the same process did.
  `CauseInv` adds, per process, that the rows it is about to mark as non-winners
  were passed over, and that the row it is about to mark as a winner has its
  coupon. No process can invalidate this for another, since coupons and
  passed-over rows only accumulate.
* `HalfDoneIsBounded`: `[]HalfDoneByFaults`, for any number of processes. A reservation
  with a coupon and no mark is at the `mark` of the process that has just inserted the
  coupon, or was left there by a fault; so the set grows by one at most in a step
  that takes a fault, and in no other.
* `IssuedOnce`: `[]NoDoubleIssue` under `IssuedOnceConditions` (one process; the
  fallback's insert does not lose its reply, its mark does not fail, no crash in
  between). `OnceInv` says that the sets of rows a job holds are apart, that its
  rows still to be batched have no coupon and its winners none but one of this very cycle,
  and that a row with a coupon is processed, except for the row at `mark`.
* `ImplementsLedgerSafely`: `Ledger!Spec`, which is `ImplementsLedger` without
  its fairness, under the same conditions. By `OnceInv` a row that gets its coupon or
  its mark had no other outcome, so each step settles the rows it touches or
  stutters; `Outcome` of a settled row never changes.
* `CycleWithinQuota`: `[]CycleQuota` under every fault and any number of
  processes. What a cycle has issued is spread over the batches it has done, the
  winners in hand and the counter it will subtract them from. `Budget` is this account:
  what is spent plus what is left is the quota plus what was generated but is
  not subtracted yet. Cycles are numbered, so that no process spends another's budget.
* `AllCyclesWithinQuota`: `[]TotalQuotaWithoutFaults` for one process. `ShareInv`
  counts rows, not cycles: coupons issued and those the cycle may still issue
  are within the share of the rows settled and those still open in the job. It
  needs one process, since two draw winners from the same rows.
* `OnlyFractionsWithheld`: `[]WithheldIsCutOff` for one process. `WithheldInv` says that
  the account holds now and, with the coupons still due, for all rows of the running cycle.
  For that the sets of rows of a job are apart and unprocessed, it has a row for each
  coupon still due, and it passes over rows only when the winners in hand are all that is due:
  the quota handed on from batch to batch is never spent on a row that is not there.

**The grab** (`CouponGrabProofs`)

* `TypeCorrect` and `OwnersHaveReserved` (`[]OwnersReserved`). `FlowInv` follows a
  user: whoever is in the channel, received, paired or an owner has reserved and
  was accepted, and goroutines exist only in the fallback and for a pair.
* `TokensConserved`: `[]WorkersConserved`, inductive with `TypeOK`: the tokens in
  the pool and the running goroutines always make `NumWorkers`.
* `DuplicatesAreBounded`: `[]DuplicatesBounded` for any number of handlers. The
  bound alone is not inductive, as a reset empties the filter while handlers are on
  their way. `DupInv` has two cases: while the filter does not know the user,
  accepted requests and those past the test are at most the handlers; once it does,
  no more than those that have still to add.
* `OwnersKeepCoupons` (`OwnerStable`) and `AcceptedAreServed`
  (`[]AcceptedServed`), both for one server (`OneServer`). `FreeInv`: the coupons of a round have no owner until
  they are assigned, and then only the user they were paired with. It fails with
  two servers, whose lists overlap, and so do the properties. `ServedInv` says of each user asked
  where his request is: channel, round, rows, or among the forgotten; `BlameInv` that
  nobody is forgotten before a fault or a signal.

**Reservations** (`ReserveAdmissionProofs`)

* `TypeCorrect`, `OneReservation` (`[]ReservedOnce`) and `RefusalsAreExplained`
  (`[]RefusedByRows`). `FilterInv` says that the filter holds bits of users with a row
  only, and that a handler past its insert has a user with a row. Nothing is assumed
  of the hash: a false positive refuses a user who has no row (the filter is sized for
  one in a thousand at a million users), and the theorem says that all bits it hits
  were set for users who do.

**The windows** (`TimeWindowsProofs`)

* `TypeCorrect` and `PassedOnlyInWindow` (`[]PassedInWindow`). `TimesInv`: every end stored is of
  a date up to today, start and end of a window are of one date or leave no time
  between them, and between the two stores of a window its start is that of today. So a
  check that read the start and reads the end later is right, or knows that the
  window moved. That starts are stored before ends is what makes this inductive.
  `MovedInv`, from `ClockInv` below: a start that changes under a check was zero until then, or
  is of the tick before, a refresh ago, on another local date.
* `DueWindowsAreOpen` (`[]OpenWhenDue`). `ClockInv`: each atomic is of the last
  tick, or of the one before while its store is pending, and the last tick is no longer ago than a
  refresh; so whatever a check reads is of a tick since `Refresh` before it began.
  `LookInv`: a window that is due is never passed over.
* `FilterSettles` (`[]FilterOfTodayOnceSettled`). `ResetInv`: the timer fires a
  whole number of days after its first time, that is within two days of the start, and whoever is in
  the filter came in since the last reset. `ResetBetweenDates` concludes that the timer
  fires between a window and any of an earlier date, unless it fires on each date after that
  window has begun (`ResetAfter`); `ResetWithinTwoDates`, that it then fires between it and
  any of a date before the last. The attempt to prove it without this exception showed that it is
  needed: TLC has a counterexample in zone 3.

**The rate limiter** (`RateLimiterProofs`)

* `TypeCorrect`, `RateBounded` (`[]RateBound`) and `Refinement`
  (`ImplementsRunLimit`). `LimitInv`: the times served are in order; an entry's counter is
  the length of the current run of requests and its time that of the last; where
  there is no entry, the last run is over. The last part is why deletions change no answer.
* `EntriesGo` (`[]EntriesExpire`). `KeptInv`: an entry is no older than a window and
  the time since the last round of the cleanup.

**The sale** (`FlashSaleProofs`)

* `SoldIsWithinShare` (`[]SoldWithinShare`) and `SaleIsImplemented`
  (`ImplementsSale`), for one process (`OneServer`). The theorems of the parts are about
  `Spec`s that the composition does not run, but their lemmas about single actions hold in
  it: each step of `FlashSale` is shown to be a step of `CouponIssue` or `CouponGrab`, and to look
  to the other like one of its environment's steps or none (`Sides`).
  `PartsInv` and `SaleInv` are the invariants of the parts together, with `StockInv`: what is
  listed, paired or sold was issued, and a coupon stays issued.

`OneServer` and `OneInstance` say that there is exactly one process, as `main.go` runs it; where
they are missing a theorem is about any number.

Assumptions on constants: row ids are a finite set of naturals, sizes are
positive, users and servers exist, each user has at least one bit in the filter, the fault sets are
sets of calls, windows lie within a day of UTC, further from its midnight than a refresh
(five seconds) before and the time of a check after, and 23:10 is in no window. All are ASSUMEs of the
component modules and are evaluated in every run of them.

With this every invariant, every action property and every safety refinement of the
passing runs is a theorem. Only model-checked, as the prover has no ENABLED:
`EveryReservationSettled`, `RoundEnds`, `AskedIsServed` and the fairness of `IssueLedger` in
`ImplementsLedger`.

## 5. What is not modelled, and abstractions

* `CouponIssue` and `CouponGrab` see the time windows as a flag and a cycle of phases;
  how these come about is `TimeWindows`. A signal is in `CouponGrab`, `TimeWindows`
  and `RateLimiter`, not in `CouponIssue`, where it makes calls fail, which
  `Failing` covers, and ends the listener, after which the rows stay as a crash
  leaves them.
* `resetBloomFilterDaily` fires at 23:10 local time, which is in no time zone
  inside a window (an assumption of `TimeWindows`, evaluated for the scaled
  day); at UTC+9 it lies between the windows (section 6). `CouponGrab` resets outside the windows and `ReserveAdmission`
  anywhere, which is more.
* `BatchCreateCoupons` sends its rows in chunks, inside one transaction, so its
  effect is one step.
* Coupon codes are random; two equal codes make the transaction or the insert fail
  without effect, which `Failing` covers.
* Two servers may overwrite each other's assignments, since `UpdateCoupon` has
  no `user_id IS NULL`; `OwnerStable` and `AcceptedServed` are checked and proved for one
  server, which is how `main.go` and the README run the program.
* Requests racing with each other in `isAllowed` are serialised by its mutex and are
  not split further. The limiter's clock is monotonic; the windows use the
  wall clock, whose jumps are not modelled.
* Authentication compares a header with the request, keeps nothing, and comes
  before the modelled handlers. `getUser`, `getCoupon` and `getCouponReservation`
  only read. Error formatting has no state. `collectUnwinners` has no caller. `cmd/hello-mcp-server`
  is an unrelated example program.

## 6. Where the code and its documentation disagree

With a run:

* `issue_skip_locked`: the listing's row locks end with the statement; a
  second process lists the same rows and both issue a coupon.
* `reserve_tomorrow`: one row per user for ever, though coupons are issued daily. The filter
  is cleared between the days; the UNIQUE row refuses. With a key of user and day
  instead the property holds in this run.
* `rate_steady`: a client that keeps sending below the limit is refused once
  its run reaches the rate, since each request it makes moves the window.
* `window_reset`: a server started before 23:10 skips the first reset, so users of its
  first day are refused on the second (`FilterOfTodayOnceSettled` says that this happens once).

Seen while modelling, with no run of its own:

* The 20% are cut in every three-second cycle, so five reservations that arrive in
  two cycles yield no coupon (README, "20% of the number of reserved users").
  `WithheldIsCutOff` says that no more than this is withheld.
* Non-winners that could not be marked are counted again by the next cycle,
  so more than 20% may be issued after a failure.
* Two concurrent requests of one user both pass the filter (README, "each user
  can only grab once"). `DuplicatesBounded` says how far this goes, and
  `OwnerStable` with UNIQUE `user_id` that it never yields a second coupon.
* 23:10 is local. At UTC+9 it is 14:10 UTC, between the windows: in the reserve
  window the grab filter still has the users of the day before, and the reset "daily" is
  one within the day of the sale (`ResetAfter`, the exception in
  `FilterOfTodayOnceSettled`).
* Where local midnight lies in or before a window, the window is on the wrong
  day: `OpenWhenDue` leaves such checks out, as no document says in which zone a server runs.
* At the refresh after local midnight a check that reads a start before it and the end after
  it takes the window to last from one day to the next, and passes at midnight:
  the exception in `PassedInWindow`.

## 7. The plan

1. Done: all the components above, their composition, three abstract
   specifications.
2. Done: proofs of all safety properties of the passing runs.
3. Next: how far the theorems for one process carry to several. Two listeners
   issue twice, but `CycleQuota` holds; for two grabbing servers the property to look
   for is that a coupon that changes hands leaves its first owner among those served or
   forgotten. Without `IssuedOnceConditions`, `HalfDoneByFaults` bounds the reservations that
   may be issued again; a bound on the coupons themselves is open.
4. Next: the rows and endpoints that are only read so far (`getCoupon`,
   `getCouponReservation`), if a property is found that depends on them.
