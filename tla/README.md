# FulfillOS in TLA+

FulfillOS is a multi-tenant order and inventory system: a NestJS API
(`src/apps/api`) over PostgreSQL and Redis, and a Next.js web client
(`src/apps/web`). This directory holds TLA+ models of it, the TLC runs that check
them on small instances, and TLAPS proofs. Paths below are relative to `src/apps/`
unless they begin with `docs/`.

Run a model with `tlc -config Contention.cfg MCStock`; check the proofs with
`tlapm StockProofs.tla`, and likewise for the other modules whose names end in
`Proofs`.

## 1. The system's parts

| Part | State it keeps | Operations | Hard behaviour | What makes it correct |
|---|---|---|---|---|
| Reservations (`api/src/reservations`) | `orders`, `order_items`, `inventory.reserved`, `inventory_movements`, `audit_log` | `createReservation`, `releaseReservation`, `fulfillOrder`, each one transaction of many statements | transactions interleave statement by statement; row locks; a crash before COMMIT | never oversold; counters agree with pending orders; each order ends once; no deadlock |
| Inventory (`api/src/inventory`) | `inventory.on_hand`, movements | `adjustStock`, `listInventory` | first insert of a row; int4 limit; a floor at what is reserved | same counters, same ledger |
| Idempotency (`api/src/idempotency`) | `idempotency_keys` | claim, complete, resolve | retries while the first attempt is open, after it committed or rolled back; lost answers; reused keys | one effect and one outcome per key |
| Orders (`api/src/orders`) | none of its own | `fulfillOrder`, `cancelOrder` delegate to Reservations; `listOrders`, `getOrder` read | `getOrder` reads twice with no transaction | an order is never seen without its items |
| Catalogue (`api/src/products`, `api/scripts/seed.ts`) | `products`, their first `inventory` rows | create, list, get; seed | unique SKU race, lost answers; seed stopped half-way and run again | one product per SKU, each with its inventory row; a seed that completes and resets nothing |
| Pagination (`api/src/common/pagination.util.ts`) | none (cursor); the list page keeps a stack of them | encode, decode, page forth and back | rows dated before they are committed; timestamps finer than the cursor | every row once |
| Sessions (`api/src/auth`) | `sessions`, `users`, cookies | register, login, logout, validate, touch, rotate CSRF | stale read in `touch`; revocation during a request; expiry | no use after revocation, expiry or the CSRF secret's replacement |
| Rate limit (`api/src/auth/guards/rate-limit.guard.ts`) | Redis counters | INCR, EXPIRE | stop between the two commands; windows that meet | a window's limit holds, and it ends |
| Tenancy (`api/src/organizations`) | `organizations`, `memberships` | register, list, rename, guards | membership changed between guard and handler | no access without membership and role |
| Dashboard (`api/src/dashboard`) | none | three parallel reads | no common snapshot | - |
| Connection pool (`api/src/database`) | `pg` Pool, 10 connections | one connection per transaction, another for a replay read | transactions waiting for locks keep their connection | somebody can always proceed |
| Web submission (`web/lib/idempotency.ts`, the order and adjustment forms, the order page) | one key per mounted form or opened dialog | fill in, submit, confirm, retry, leave | lost and late requests; a recorded refusal replayed to a changed form | one form, one effect; what is told is true |
| Web contexts (`web/lib/*-context.tsx`) | current user, organization, page | `me`, login, logout, switch, reload | answers out of order, failures | the user, the organization and the page's data belong together |

They interact through the database: a browser form sends a request with its
`Idempotency-Key`; guards read session and membership; the handler opens a
transaction that claims the key, does the work under row locks, records the outcome
and commits; after a unique violation a second connection reads the recorded
outcome back. `PROJECT.json` lists all components with their status and every hazard
with the line where it bites.

## 2. The modules

| Module | What it is |
|---|---|
| `StockRules` | The vocabulary and the pure decisions: requests, rows, outcomes, `BadRequest`, `ShortLines`, `AdjustmentOutcome`, `CannotConsume`, `Written` |
| `StockEngine` | The four stock-changing operations as concurrent transactions over shared tables |
| `StockContract` | The abstract specification: every request takes effect in one step, at most once per key |
| `StockRefinement` | The refinement mapping from `StockEngine` to `StockContract` |
| `MCStock` | The small instances TLC explores |
| `StockProofs` | TLAPS proofs about `StockEngine`, for every value of its constants: its types, that its locks exclude what they should and are taken in order, idempotency; then what follows from the locks: orders, stock, movements, tenants, and that `StockEngine` implements `StockContract` |
| `Access`, `MCAccess` | How the API admits a request: session, idle window, membership, role, CSRF secret, then the handler; login, logout and CSRF rotation |
| `Accounts`, `MCAccounts` | Registration and login behind the rate limiter |
| `Catalog`, `MCCatalog` | Creating products, and the seed script, next to stock operations |
| `Pagination`, `MCPagination` | Keyset pages of a growing list, read by the list page of the client |
| `Submission`, `MCSubmission` | The two forms that change stock, their keys, and the idempotency table they meet |
| `OrderPage`, `MCOrderPage` | The page of one order: `getOrder`, the fulfil and cancel dialogs, the reload after them |
| `WebContexts`, `MCWebContexts` | One tab of the client: the user, the organizations, the page, with answers in any order |
| `AccessProofs` | TLAPS proofs of the five properties of `Access` |
| `AccountsProofs` | That registrations are whole, registered users can log in, and the limiter limits |
| `CatalogProofs` | The four safety properties of `Catalog` |
| `SubmissionProofs` | The three invariants of `Submission` |
| `OrderPageProofs` | The three invariants of `OrderPage` |
| `WebContextsProofs` | The three invariants of `WebContexts` |
| `PaginationProofs` | The three invariants of `Pagination` |

`StockContract` is where the parts meet. `StockEngine` implements it, statement by
statement; `Submission` and `OrderPage` put the browser and the network around it,
and so treat a stock request as one step; `Catalog` lets its steps change the stock
that it creates. `Access` and `WebContexts` meet in the session: `Access` decides what
a cookie is good for, `WebContexts` takes that as the answer of a request.

### How StockEngine corresponds to the code

A process is one request attempt. `pc[t]` names the statement it will issue next:

| `pc` | Statement | Action |
|---|---|---|
| `idle` | the request arrives; duplicate lines and foreign products are refused before any transaction | `Send` |
| `claim` | `INSERT INTO idempotency_keys` | `Claim` |
| `update` | `UPDATE orders ... WHERE status = 'pending'` | `UpdateOrder` |
| `reread` | the SELECT that finds out why nothing was flipped | `RereadOrder` |
| `select` | the locking SELECT of the inventory rows starts | `SelectRows` |
| `lock` | its row locks are granted, one at a time in ascending product id; then the rest of the transaction and COMMIT | `LockRow`, `CommitReservation`, `RefuseReservation`, `FinishOrder`, `CommitAdjustment`, `RefuseAdjustment`, `FailInsert` |
| `resolve` | `resolveIdempotencyConflict` on a fresh connection | `Resolve` |
| `reply` | the transaction is over; the answer is delivered or lost | `Reply` |

`Crash` ends an attempt anywhere before COMMIT, with nothing written. A lost answer
is `Reply` followed by a `Send` of the same request.

The tables: `inventory[p]` is the committed row (`exists` is FALSE before the first
adjustment inserts one), `orders[o]` an order with its items, `keys` the committed
idempotency rows with their outcomes, `ledger[p][type]` the sum of the movements of
a product by type, `audit[o][action]` the number of audit rows of an order.
`need[t]` is the set of rows a locking SELECT returns; `locked[t][p]` is the row as
read when its lock was granted, from which the handler later computes what it writes,
as the code does (`row.reserved + item.quantity`, not an increment).

What PostgreSQL does is modelled as follows, at READ COMMITTED:

* An INSERT that meets an uncommitted entry of a unique index waits for its
  transaction to end, then succeeds or fails (`Claim`, `HoldsKey`).
* An UPDATE that meets a row another transaction has written waits, and then tests
  its condition again on the new row (`UpdateOrder`, `HoldsOrder`).
* `FOR UPDATE` locks rows one by one in the order of the sort and reads each as it is
  when the lock is granted (`LockRow`, `RowBusy`). Which rows it returns is settled
  when it starts: a row inserted later is not among them.
* A transaction's writes are invisible to the others until COMMIT. The statements
  after its last lock wait for nobody, so they and COMMIT are one step. The first
  insert of an inventory row is one of them: two of them conflict whatever the order,
  and the later one fails (`FailInsert`).

Abstracted: money and currency, timestamps, product names, reasons and wording. The
fingerprint is the request's content itself (SHA-256 taken to be collision-free).
Product ids are integers, because their order is what the lock order depends on.
An order can only be named once its creation has committed, since its random id is
not known before. Idempotency rows are never deleted: no cleanup job exists.

Operators named `Faulty_...` are variants with one plausible mistake. No action uses
them; putting one in the place of the operator after it shows that a property can
fail.

### How the other modules correspond to the code

**Access.** A request is a process; `pc[r]` is its next statement: `select`
(`validateToken`), `touch` (its UPDATE), `guard` (`MembershipGuard`'s SELECT, then
`RolesGuard` and `CsrfGuard`, which only compare), `handle` (the handler), `answer`.
`seen[r]` is what its guards have read; it is not read again, so a role, a secret or a
session may have changed by the time the handler runs. `sessions` is the table;
tokens and secrets are numbered in the order they are issued, which is what random
values that never repeat amount to. The jar is shared by all requests of the browser.
`Production` selects the cookie names that `resolveCookieNames` computes, while the
guard and `lib/api.ts` use their own constants, as in the code.

**Accounts.** An attempt passes `incr` and, as the first of its window, `expire`;
then `register`, `insert_user`, `insert_membership` (and COMMIT), or `login`. `tx[t]`
are the rows of its open transaction. `Normalized` is the generated column,
`lower(btrim(email))` of PostgreSQL, on which the unique index is (`SameAddress`,
`Taken`); `LookedUp` is what login makes of the address in JavaScript,
`toLowerCase().trim()`, and compares the column with (`FindUser`). An INSERT waits for an
uncommitted row with the same normalized address. `Crash` rolls back and leaves Redis as
it is. A time to live
counts down with `Tick`, and a key at its end is gone.

**Catalog.** `InsertProduct`, `InsertInventory`, `CommitProduct` are the statements of
`createProduct`'s transaction; the seed's statements (`SeedOrganization`, and
`SeedProduct` and `SeedInventory` for each product) commit one by one. `ON CONFLICT
(id) DO NOTHING` covers only its own conflict: a SKU taken under another id ends the
run.

**Pagination.** A row is dated when its transaction begins (`now()`) and seen when it
commits. `Rows` is the statement, `paginate` what is made of it; `cursorStack`,
`items`, `nextCursor` are the page's state. A cursor keeps `createdAt` to the
millisecond, `TICKS_PER_MS` ticks of the clock. `NewestFirst` says what ORDER BY returns,
not how it is computed: the sequence of the rows found in which each is newer than those
after it.

**Submission.** `Key(m)` is the key of the m-th form mounted, drawn with it and never
renewed. A form's content is the change it makes to the stock of one product. The
request waits in `network`, its promise in `waiting`, its answer in `answers`; each is
taken in any order or lost. `GiveUp` is a `fetch` that rejects: the request may still
arrive later. The inputs stay enabled while a request is pending, and the success of an
order navigates even after its page was left, as in the code.

**OrderPage.** `getOrder.next` is the next of the two statements of `getOrder`. Opening
a dialog draws a key, its retries keep it; `Reload` is the `finally` of
`handleFulfill` and `handleCancel`. `Show` has the three ends of a load: an order, an
error, and a 401, which shows no error: the page is pushed to `/login` and meanwhile
shows, and lets the user act on, the order it had (`page.expired`). Until `Visit` the
navigation has not been completed. A request that was sent may be handled again: a
browser or proxy may repeat it.

**WebContexts.** `Render` is what React makes of a new path or user: the layout mounts
`OrganizationProvider` for a user only, its effect loads the organizations, the key of
`<main>` replaces the page when the organization changes. `me`, `form[f]`, `logout`,
`provider.loads` and `page.fetches` are the calls on their way, with whom their cookie
stood for when they were sent.

## 3. What is checked

| Run | Instance | Properties |
|---|---|---|
| `Contention.cfg` | 3 attempts, 2 products with 3 units, reservations in opposite product order, one with a duplicate line, one order to fulfil; fairness | `ReservedIsHeld`, `LedgerExplainsStock`, `NoWaitCycle`, `EveryRequestEnds` |
| `Lifecycle.cfg` | 3 attempts, 1 product with 2 units, 2 orders, 2 keys; create, cancel (under either key), fulfil, adjust down by 2 and up by 1, past `Int4Max` = 2 | `TypeOK`, `NoOversell`, `OneTransitionPerOrder`, `NeverBroken`, `RefusalNamesTheWinner`, `OneOutcomePerKey`, `AnswersAreRecorded`, `ClaimLoserFindsWinner`, `HistoryIsFinal` |
| `Tenants.cfg` | 2 attempts, 2 organizations, a product without an inventory row, adjustments up to `Int4Max` = 2 | `TenantIsolation`, `ImplementsContract` |
| `Access.cfg` | 2 requests of one browser, 1 login, 2 CSRF secrets, clock to 4, idle window 2, absolute window 4 | `TypeOK`, `UnusedSessionsExpire`, `RevocationIsFinal`, `RenameIsAuthorized`, `LiveCookieIsAccepted` |
| `Production.cfg` | the same with the cookie names of production; a violation is expected | `LiveCookieIsAccepted` |
| `Accounts.cfg` | 2 attempts, an address typed in three ways, of one of which JavaScript and PostgreSQL make different things, limit 2 per window of 2; fairness | `RegistrationIsWhole`, `RegisteredCanLogin`, `AtMostTwiceTheLimit`, `WindowEnds` |
| `Catalog.cfg` | 2 creates, a seed of 2 products stopped at most twice, stock up to 1; fairness | `AnswersAreTrue`, `ProductsHaveInventory`, `MovementsExplainStock`, `OnlyStockOperationsChangeStock`, `SeedCompletes` |
| `Pages.cfg` | 4 rows, pages of 1, timestamps twice as fine as the cursor | `SkipsShareAMillisecond`, `DeadEndIsCutOff` |
| `Microseconds.cfg` | 3 rows, timestamps twice as fine; a violation is expected | `EachRowOnce` |
| `Submission.cfg` | 2 forms, 4 requests, changes of -2, -1 and 1, stock up to 2 | `OneEffectPerForm`, `RefusedFormHasNoEffect`, `SuccessIsWhatWasSent` |
| `OrderPage.cfg` | an order of one line, 3 keys | `ConflictIsShown`, `ToldIsShown`, `ShownOrderIsWhole` |
| `WebContexts.cfg` | 2 users with an organization in common, 1 form, 3 logins | `UserIsSession`, `SelectedIsTheirs`, `ShownIsOfCurrent` |

* **NoOversell**: `0 <= reserved <= on_hand <= Int4Max` always. The CHECK constraints
  of `inventory.schema.ts` promise it; the run shows that the handlers never rely on
  them.
* **ReservedIsHeld**: `reserved` is exactly the number of units pending orders hold.
* **LedgerExplainsStock**: the movements account for both counters.
* **NoWaitCycle**, **EveryRequestEnds**: the lock order (idempotency row, order row,
  inventory rows by ascending id) excludes deadlock, and each request is answered
  unless its process dies.
* **OneTransitionPerOrder**, **HistoryIsFinal**: of all the cancels and fulfils of an
  order one takes effect, and nothing about it changes afterwards.
* **NeverBroken**: the "Invariant violated" throws of `releaseStock` and
  `fulfillStock` are unreachable, adjustments included.
* **RefusalNamesTheWinner**: the second SELECT of a refused transition never answers
  "already pending".
* **OneOutcomePerKey**, **AnswersAreRecorded**: a key has one outcome, and every
  attempt is told that one or that the key was used for something else. The
  exceptions, in the property's text, are answers 400 and 500.
* **ClaimLoserFindsWinner**: `idempotency.util.ts:101-102` and
  `docs/architecture/inventory.md` describe a narrow window in which the winner of a
  claim has rolled back before the loser reads it. The run shows the branch to be
  dead: the unique violation is raised only after the winner has committed, and
  nothing deletes a row. The `in_progress` branch of `resolveIdempotencyConflict` is
  dead for the same reason; the model has no state for it, since claim and completion
  commit together.
* **TenantIsolation**: a row changes only in the transaction of a request of its own
  organization.
* **ImplementsContract**: with the mapping of `StockRefinement` (control state
  forgotten; a request takes effect at COMMIT) the engine implements
  `StockContract!Spec`: clients cannot tell the interleaved transactions from atomic
  ones.
* **UnusedSessionsExpire**, **RevocationIsFinal**: `touch` writes a deadline computed
  before the session was read, and only two columns: an unused session expires on
  time, and a revoked or over one never comes back, however late the UPDATE lands.
* **RenameIsAuthorized**: what the guards have read is out of date by at most the
  request's own duration.
* **LiveCookieIsAccepted**: holds with the plain cookie names, fails with those of
  production (see the findings).
* **RegistrationIsWhole**, **RegisteredCanLogin**: accounts are created whole or not at
  all, one per normalized address, and open with the password they were given, however
  the address is typed, with one exception. `auth.service.ts:101` looks for what
  JavaScript makes of the address in a column that holds what PostgreSQL makes of it
  (`users.schema.ts:30`), and of some addresses that `IsEmail` accepts these are not the
  same: a capital sigma at the end of a word, a capital I with a dot. A login that types
  such an address is not promised anything (`Agree`): in the run the account that was
  registered in capitals is not found under its own address, but is under another
  spelling of it.
* **AtMostTwiceTheLimit**, **WindowEnds**: what a fixed window promises, and that it ends
  unless the process stopped between INCR and EXPIRE. That exception is real: such a
  counter refuses its client for good once it is over the limit.
* **AnswersAreTrue**, **ProductsHaveInventory**: a create is answered by what is there,
  and a product without its inventory row is the seed's alone.
* **MovementsExplainStock**, **OnlyStockOperationsChangeStock**, **SeedCompletes**: the
  seed gives stock without a movement once, never resets it, and ends when it is run
  again, unless another product of the organization has one of its SKUs.
* **SkipsShareAMillisecond**, **DeadEndIsCutOff**: paging forth and back shows no row
  twice, however late rows commit. It misses a row that was there at the first page only
  if that row shares a millisecond with one that was shown, and leads to an empty page, which
  has no controls to leave it by, only past such a row.
* **EachRowOnce**: what the documentation promises, without that exception (see the
  findings).
* **OneEffectPerForm**, **RefusedFormHasNoEffect**, **SuccessIsWhatWasSent**: a form's
  one key makes its first request to arrive the only one that counts, whatever was
  edited since. The price, which the model shows as `reused` and repeated `refused`
  answers, is that a refused form stays refused until it is opened anew.
* **ConflictIsShown**, **ToldIsShown**, **ShownOrderIsWhole**: after an answer the page
  shows the order as it ended. One exception, in the text of the first two: if the reload
  after the answer is itself answered 401 (`order-detail-view.tsx:67-79`), no error is set
  and the order loaded before is shown again, as pending, under the notice and with its
  dialog, until `/login` is rendered. What the user was told is how the order ended even
  then, whatever is confirmed from that page. The items are read after the order, and an
  order is committed with them.
* **UserIsSession**, **SelectedIsTheirs**, **ShownIsOfCurrent**: with two exceptions, in
  the text of the properties: while a login awaits its check, and after a check that was
  sent under an earlier cookie has answered last. Nothing in `auth-context.tsx` excludes
  the second, which a login form submitted before the first check has answered can
  reach. `SelectedIsTheirs` says nothing of a provider that either has reached (`mixed`):
  there the load that ends last decides. What it does exclude is that the organization
  localStorage remembers of one user is selected for the next.

**Findings.** Two runs expect a violation.

* `Production.cfg`: `docs/architecture/authentication.md:90` and `cookie.util.ts` prefix
  both cookie names with `__Host-` in production. `session-auth.guard.ts:46` reads the
  session cookie, and `web/lib/api.ts:16` the CSRF cookie, under the plain name. A request
  with the cookie of a valid session is answered 401.
* `Microseconds.cfg`: `docs/architecture/order-lifecycle.md:184` says 'A page is "rows
  strictly after this cursor position"', and so does `pagination.util.ts:5-6`. The cursor
  has milliseconds (`toISOString`), `created_at` has microseconds, so a row that comes
  after the last one shown, in the same millisecond, is on no page.

**Bounds.** Two transactions show every lost update, race and duplicate claim, and
three let a third see the outcome of the first two (a retry of a race's loser, two
waiters on one lock). Two products are the fewest that can be locked in two orders.
Two order ids and two keys let one order or key be finished while another is open.
`Int4Max` is 2 or 3, so that adjustments reach the limit. Creations stop when the
order ids run out: an attempt then waits at its COMMIT until it crashes, which is
the bound on `OrderIds`. Two keys allow at most two creations per organization, so
it does not happen in the runs. Symmetry is used over the processes only, and not in
the run that checks liveness.

In `Access`, two requests let each statement of one fall between any two of the other;
one session and two secrets are the fewest that can be revoked and replaced, and the
clock passes both windows. In `Accounts` a limit and a window of 2 are the smallest with
requests in the middle of a window, and three spellings of an address are one to register
first, one that login does not look for, and one that finds either. In `Catalog` the second stop shows a seed stopped
while it makes up for the first. `Pages.cfg` has four rows, so that a row can come
late on either side of two cursors; two ticks to a millisecond are the fewest of which a
cursor cuts one off, and its clock runs for three milliseconds. Four requests and two forms let a request of one
form arrive while the next form is open; three keys let the page retry, and try the
other operation. Three logins let a user return after another. Symmetry is used in the
runs of `Access`, over the two requests.

**Fairness.** `SF_vars(Statement(t))` for each attempt: PostgreSQL queues the waiters
of a lock and grants it in turn, so a transaction whose statement can run again and
again does run. `WF_vars(Reply(t))`: the server sends its answer. Nothing is assumed
of clients, and crashes are never forced. `Accounts`: `WF_vars(Tick)`, time
passes, and `WF_vars(Step(t))` for each attempt, the server goes on with what it has
begun. `Catalog`: weak fairness of each statement of a create; `SF_vars(SeedStep(s))`
for the seed, whose INSERT may have to wait for one create after another but is queued
by PostgreSQL; and whoever stopped the seed starts it again (`WF`), which is what the
comment in `seed.ts` expects of its user. The other modules have no liveness property:
their users need not do anything.

**Deadlock checking** stays on in every run: an idle attempt can always be sent a
request, and a page can always be left.

## 4. What is proved

The theorems hold for every value of the constants: any number of attempts,
organizations, products, orders, keys and requests; of requests in flight, sessions,
secrets and time; of forms, dialogs, users and memberships. The assumptions are those
the modules declare, which TLC evaluates in each run. `StockRules` and `StockEngine`:
products and order ids are finite sets, products are natural numbers, requests are
well-formed, the opening stock has nothing reserved, and the value that stands for "no
outcome yet" is none of the outcomes (`NoOutcomeAssumption`). `Access`: the timeouts and bounds
are naturals (`NaturalTimeouts`). `Accounts`: every request names a route and an address
(`RequestAssumption`), and the limit and the window are not 0 (`LimiterAssumption`).
Of the two functions that normalize an address nothing is assumed but that both are
defined for every address (`EmailAssumption`).
`Catalog`: the seed has products, stock is given in natural numbers, and the random ids
of new products are none of the seed's, which are no version 4 UUIDs (`SeedAssumption`,
`CreateAssumption`, `IdAssumption`). `Submission`: changes are integers other than 0
(`ChangesAreNumbers`), and there are no more forms than requests to send
(`BoundsAssumption`). `OrderPage` and `WebContexts`: the bounds are naturals and an order
has items (`KeysAssumption`, `BoundAssumption`), and a user's memberships are of
organizations there are (`MembershipsAssumption`). `Pagination`: identifiers are positive
numbers (`IdsAreNumbers`), and limits and a cursor's precision are not 0
(`LimitsAssumption`).

| Theorem | Module | What it establishes |
|---|---|---|
| `BaseInvariant` | `StockProofs` | `Spec => []BaseInv` |
| `TypeCorrect` | `StockProofs` | `Spec => []TypeOK` |
| `LocksExclude` | `StockProofs` | `Spec => []LockInv` |
| `NoDeadlock` | `StockProofs` | `Spec => []NoWaitCycle` |
| `KeysHaveOneOutcome` | `StockProofs` | `Spec => []OneOutcomePerKey` |
| `LosersFindWinners` | `StockProofs` | `Spec => []ClaimLoserFindsWinner` |
| `RetriesAgree` | `StockProofs` | `Spec => []AnswersAreRecorded` |
| `OrdersEndOnce` | `StockProofs` | `Spec => []OneTransitionPerOrder` |
| `HistoryKept` | `StockProofs` | `Spec => HistoryIsFinal` |
| `RefusalsNameTheWinner` | `StockProofs` | `Spec => []RefusalNamesTheWinner` |
| `NeverOversold` | `StockProofs` | `Spec => []NoOversell` |
| `LedgerExplains` | `StockProofs` | `Spec => []LedgerExplainsStock` |
| `ReservedUnitsAreHeld` | `StockProofs` | `Spec => []ReservedIsHeld` |
| `NothingBreaks` | `StockProofs` | `Spec => []NeverBroken` |
| `TenantsAreIsolated` | `StockProofs` | `Spec => TenantIsolation` |
| `EngineImplementsContract` | `StockProofs` | `Spec => ImplementsContract` |
| `AccessInvariant` | `AccessProofs` | `Spec => []AccessInv` |
| `AccessTyped` | `AccessProofs` | `Spec => []TypeOK` |
| `RevokedForGood` | `AccessProofs` | `Spec => RevocationIsFinal` |
| `IdleSessionsEnd` | `AccessProofs` | `Spec => []UnusedSessionsExpire` |
| `RenamesAreAuthorized` | `AccessProofs` | `Spec => RenameIsAuthorized` |
| `LiveCookiesAccepted` | `AccessProofs` | `Spec => LiveCookieIsAccepted`, if `Production = FALSE` |
| `AccountsInvariant` | `AccountsProofs` | `Spec => []AccountsInv` |
| `AccountsAreWhole` | `AccountsProofs` | `Spec => []RegistrationIsWhole` |
| `RegisteredLogIn` | `AccountsProofs` | `Spec => []RegisteredCanLogin` |
| `LimiterHolds` | `AccountsProofs` | `Spec => []AtMostTwiceTheLimit` |
| `CatalogInvariant` | `CatalogProofs` | `Spec => []CatalogInv` |
| `CreatesAreAnswered` | `CatalogProofs` | `Spec => []AnswersAreTrue` |
| `InventoryIsThere` | `CatalogProofs` | `Spec => []ProductsHaveInventory` |
| `StockIsExplained` | `CatalogProofs` | `Spec => []MovementsExplainStock` |
| `RunsKeepStock` | `CatalogProofs` | `Spec => OnlyStockOperationsChangeStock` |
| `FormsInvariant` | `SubmissionProofs` | `Spec => []FormsInv` |
| `FormsHaveOneEffect` | `SubmissionProofs` | `Spec => []OneEffectPerForm` |
| `RefusalsAreFinal` | `SubmissionProofs` | `Spec => []RefusedFormHasNoEffect` |
| `SuccessesAreTrue` | `SubmissionProofs` | `Spec => []SuccessIsWhatWasSent` |
| `OrderPageInvariant` | `OrderPageProofs` | `Spec => []PageInv` |
| `ConflictsAreShown` | `OrderPageProofs` | `Spec => []ConflictIsShown` |
| `SuccessesAreShown` | `OrderPageProofs` | `Spec => []ToldIsShown` |
| `OrdersAreWhole` | `OrderPageProofs` | `Spec => []ShownOrderIsWhole` |
| `TabInvariant` | `WebContextsProofs` | `Spec => [](TabInv /\ UserIsSession)` |
| `UsersAreSessions` | `WebContextsProofs` | `Spec => []UserIsSession` |
| `SelectionIsTheirs` | `WebContextsProofs` | `Spec => []SelectedIsTheirs` |
| `ShownBelongs` | `WebContextsProofs` | `Spec => []ShownIsOfCurrent` |
| `PagesInvariant` | `PaginationProofs` | `Spec => []PagesInv` |
| `OnlyAMillisecondIsSkipped` | `PaginationProofs` | `Spec => []SkipsShareAMillisecond` |
| `EachRowOnceIfApart` | `PaginationProofs` | `Spec => [](MillisecondEach => EachRowOnce)` |
| `DeadEndsAreCutOff` | `PaginationProofs` | `Spec => []DeadEndIsCutOff` |

**Types of the stock engine.** `BaseInv == TypeOK /\ RequestsInv /\ OrdersInv /\
LockedInv /\ RowsInv /\ HeldRowsInv`. `TypeOK` is not inductive alone. That `orders'`
and `inventory'` keep their types needs facts of the request being served: it passed
`BadRequest` (`RequestsInv`), so its lines name each product once; committed orders have
such lines too, of products that have a row (`OrdersInv`), so what `LinesOf` returns is
a sequence of lines; a row that is not locked, or not there, reads as `Absent`
(`LockedInv`, `RowsInv`); only rows that were inserted are locked (`HeldRowsInv`).
The proof has one lemma for each action; `NextRowIsLeast` shows that the `CHOOSE` of
`NextRow` picks a least element, which needs the well-ordering of the naturals.

**Locks.** `LockInv` has a part for each class of lock. `ClaimsInv`: open
transactions have claimed different keys, none of them committed. `OrderLocksInv`: a
transaction that flipped an order is alone with it, and the order is still pending
and its organization's for everybody else. `RowLocksInv`: a locked row is locked
once, and is as it was read. The argument for every end of a transaction, committed
or not, is one lemma, `EndStep`: such a step is `Confined` to what the transaction
holds (its key, its order, its rows) and to what did not exist before, so nothing
that another transaction relies on moves.

**Safety of the stock engine.** With `LockInv` the row a handler computed from is the
row it overwrites. `StockSteps` states what that leaves of a step, for one product:
nothing, or a reservation, release, fulfilment or adjustment of it, within the bounds
its handler tested and with its movement. `NeverOversold` and `LedgerExplains` check
these five cases. `OrderSteps` does the same for orders and the audit log, `KeySteps`
for idempotency rows. `TenantsAreIsolated` needs no invariant of its own: the lines of a
good request, the order a transaction flipped and the test of an adjustment each
carry the organization.

**Answers.** `AnswersAreRecorded` is inductive next to `LockInv` and `OutcomesInv` (an
attempt has no outcome before it answers). `CommitRecords` states that every commit
records what it then answers, and `Resolve` answers what is recorded; since rows of
`idempotency_keys` are never rewritten, and no scope has two, the answer stays true.
`RereadInv`: the order an attempt in `reread` asks about is not one it could have
flipped. It was not when the UPDATE found nothing, and `OrderSteps` says that an order
never becomes pending again.

**Waiting.** `LockOrderInv`: the rows a transaction has yet to lock are all greater than
those it holds. In a set of transactions each of which waits for another of them, none
waits for a row: the holder of the greatest row wanted would be waiting for a row too,
and for a greater one. Then none waits for an order, because whoever holds one waits for
rows only, and so none for a claim. `GreatestProduct` finds the greatest row, by the
well-ordering of the naturals.

**Held units.** `HeldInv`: for each product the set `HeldUnits(p)` is finite and has
`reserved` elements. A reservation adds the units of one line of one new order, a
disjoint set whose cardinality is the line's quantity (`UnitsIn`, `OrderUnits`); a
release or a fulfilment takes away exactly these. An order of which a transaction
locked all rows holds its quantity of each, so the row's `reserved`, the cardinality of a
superset, is no smaller: this is what the "Invariant violated" tests compare, hence
`NothingBreaks` (`CanConsume`). It also needs `SelectInv`: a transaction that locks rows
was to lock those that were there when its SELECT started, and a row is never deleted.

**The refinement.** `ContractInit` and `ContractStep` are the two halves of
`EngineImplementsContract`. The arrival of a request is `Ask` or `AskInVain`, the end of
an attempt `Leave`, and every statement before the last changes nothing that the
contract has (`UnseenStep`). One lemma for each way to end (`...Seen`) shows that what
was computed from locked rows is what the contract computes from the whole database at
that instant: the rows read are the rows there are (`LocksExclude`), but for those
inserted since the SELECT, which the contract allows an attempt not to see
(`ViewAtCommit`); a finished order passes its test (`CanConsume`); `RereadInv` and
`LosersFindWinners` give the answers that are read without a lock. `SameRules` says that
the contract's rules are the engine's.

**Access.** What guards have read may be out of date, so the invariant speaks of the
time a request arrived: `Grounds(t, h, now)` says that at `now` session `t` was neither
revoked nor over and secret `h` was its own. `TablesGrow` states what any step may do to
the tables (rows are added, a session is revoked once, a secret is replaced once, the
time of last use moves forward); under it `Grounds` is never lost (`GroundsKept`), which
settles every request that stands still while others move (`Bystander`). `SessionsInv`
ties a session to its last secret, so that a rotation ends the right one, and its idle
deadline to the arrival of a request; `touch` keeps that because its `now` is not after
the last use.

**Accounts.** `RowsInv`: the committed organizations and memberships are exactly those
of the committed users, and no two users share an address. `TxInv` says what an open
transaction holds at each statement. The unique index enters as `ExclusiveInv` (no two
open transactions have inserted one address) and as `~Taken(...)` in `TxInv`, which must
survive the commits of others: it does because theirs are of other addresses.
`RegisteredLogIn` needs that where the two normalizations agree on the address typed,
`FindUser` finds the users of the same normalized address (`LoginStep`).

The limiter has an invariant of its own, `LimiterInv`. `Used(x)` is how many requests the
counter says it let through: the smaller of the count and the limit, less one while the
first request of the window has not got past its EXPIRE, or never will. `WindowInv`: what
was let through since the window started is at most `Used(x)`, and what was let through
in any span as long as a window at most `LIMIT + Used(x)`. When a key expires, a whole
window has passed since it was set, so what lies within a span is at most the limit, and
counting starts from 0. `StartInv` says why one request at most is between INCR and EXPIRE, and
that the key cannot expire under it. `admitted[x][g]` counts what was let through in the
current unit of time and the `g` before, so that no sum is needed.

**Catalog.** `CatalogInv`: SKUs are unique (`SkuInv`); inventory rows are of products and
movements of inventory rows (`RowsInv`); the id an open create has inserted is new, and
its SKU neither committed nor inserted by another (`TxInv`, `ExclusiveInv`), which the
commits of others and of the seed preserve because their INSERTs wait
(`AddProduct`); what a client was told stays so (`ToldInv`), since products are only
added, under other SKUs. `ProductsHaveInventory` and `MovementsExplainStock` are
inductive next to these; `StockMoves` settles the stock operations, which add the same
number to a row and to its movements.

**Submission.** `FormsInv`: a request carries its form's key (`KeysInv`), a key is
recorded as done exactly when its form has its one effect, with the change of that
effect (`EffectsInv`), and answers say what is on record (`AnswersInv`). Since keys are
drawn one per form, one record per key is one effect per form.

**OrderPage.** `KeysInv`: a key is used for one operation only, so a replayed success
tells how the order ended. `ReadInv`: the status a GET has read is "pending" or the
order's, and the items read after it are all there; so is what the page has loaded,
whether it is shown or not, since a 401 shows it again. `KnownInv`: once the user was told
that the order ended, whatever is being read is how it ended, and whatever is shown
unless the last load was answered 401. This needs that every attempt, however it ends,
reloads.

**WebContexts.** `TabInv` has three parts: the session numbers in use name rows of the
sessions table, and what a check has answered is the owner of the session it was sent
under (`AuthInv`); what a page awaits or shows is of the organization it was mounted
for (`PageInv`); a provider that is not mixed has loaded, lists and selects what is its
user's (`ProviderInv`). `UserIsSession` is inductive next to them.

**Pagination.** `PagesInv` ties the page's stack of cursors to the pages that led to them.
`PageFits`, of a page that was read: its rows are those its cursor lets through, down to
those the cursor it came with lets through; of the rows there were at the first page
nothing lies between but what that cursor cuts off. `Passed(e)`, for each depth `e` of
the stack: the earlier pages have no row that the cursor at `e` lets through, and have
all the others. Paging forth turns the one into the other (`NextStep`), which needs that
a cursor lets nothing through that the one before it did not (`CursorDescends`,
`BelowDescends`); paging back forgets the last depth. Rows that commit late change
neither, since both speak of rows that were shown and rows there were at the start.
`PageRead` is the fact about one page, from three lemmas on ORDER BY: rows are
strictly and totally ordered (`NewerOrder`), so a finite set of them has a sequence from
the newest to the oldest (`SortedExists`, where the place of a row is one more than the
number of rows before it), which has every row once (`NewestFirstSorts`). What the cut to
milliseconds does is in `CursorOrder`; that a cursor's next page has a row, unless one was
cut off, in `LeadsOn`. `OnlyAMillisecondIsSkipped` and `DeadEndsAreCutOff` hold for
every precision, so for the microseconds of the columns there are, and so does
`EachRowOnceIfApart`: as long as no two rows were created in the same millisecond
(`MillisecondEach`), each is shown once, as documented. With two that were, the promise
is false, as `Microseconds.cfg` shows. The step between is `SameMillisecond`: what a
cursor cuts off is in the cursor's own millisecond.

**Model-checked only.** Liveness (`EveryRequestEnds`, `WindowEnds`, `SeedCompletes`) is out
of the prover's reach and stays with TLC. Every other property that a passing run checks is
a theorem.

## 5. What remains to be done

Every safety property that holds is proved. One hazard of section 1 could still be stated
as a property: the pool at its limit (`api/src/database`), which needs a model of the
connections that attempts hold. The exceptions named in the properties of section 3 are
the code's own, and would go with a change of it: one normalization of addresses for
registration and login, an order page that shows nothing after a 401, checks and loads
that are cancelled when the user changes.

## 6. Not modelled

* **Dashboard summary.** Three counts read in parallel with no writes. Nothing promises
  that they belong together, so there is no property to state. The page that shows them
  is in `WebContexts`.
* **Connection pool and health checks.** The pool queues inside `pg` and has the
  library's defaults. A transaction keeps its connection while it waits for a lock, and the
  replay read takes its connection after the transaction has given its own back
  (`claimIdempotencyKey` throws, the transaction rolls back, then `resolve` runs), so no
  request holds one connection while it waits for another.
* **Migration, test database guard, configuration.** Scripts that run once, before any
  process serves requests.
* **Upper-case product ids.** `IsUUID` accepts them and PostgreSQL compares them as
  UUIDs, while the handlers look the text up in a `Map`. The models have one spelling
  for each id.
* **Malformed cursors, validation of request bodies, password hashing.** Functions of their input alone, with no state to interleave.
* **Interface components, styling, the OpenAPI documents, logging, Docker files.** No
  state of the system.
