# TLA+ models of the Bubble White backend

The repository is the backend of a shop (Go, Gin, GORM on MySQL, an in-memory
cache): customers sign in with a phone, an e-mail or a provider, fill a cart,
order, and pay in cash or through PPCBank; staff keep the catalogue, the
settings and the orders. This directory holds TLA+ modules of the parts in
which requests, restarts and failing calls can get in each other's way, TLC
configurations that check them on small instances, and TLAPS proofs.

Every HTTP request is a goroutine. It talks to the database one statement at a
time, and almost nothing is in a transaction: a handler reads a whole row, may
call a bank, an SMS gateway or Telegram, and writes the **whole row** back with
GORM's `Save`. That is the system's central difficulty, and the shape of every
model: a set of `Workers`, `task[w]` with the step a worker is at and the rows
it carries, and one action per statement or network call. A few parts are
guarded instead: a Go mutex (bank token, rate limiter), an atomic flag
(backup), one transaction (checking a code).

## Inventory

| Part | State | Operations | What is hard |
|---|---|---|---|
| Order payment (`order_service.go` and its controllers) | order rows: method, payment status, reference, invoice, fulfilment status; the bank's bill | cash and PPCBank checkout, webhook, return page, staff's re-check, status change | webhook late, twice or never; whole-row saves 15 s after the read; restarts between recording and announcing |
| Cart and pricing (`cart_service.go`, `order_service.go`) | `cart_items`, prices, shipping fee, order items | add, change, remove, clear, checkout | find-or-insert without an index; checkout reads, prices and clears in separate statements |
| Phone verification (`otp_service.go`, `telegram_bot_controller.go`) | `otp_requests`, Telegram links | request, tap on the bot's link, SMS fallback, verify, create the account | codes are sent before they are saved; row kept over a network call; two transactions for one registration |
| PPCBank client (`ppcbank_payment.go`) | token in memory and in a row, mutex | get a token, use it, give it up, retry | mutex over network calls, retry after an expired token, database errors |
| Rate limiting (`rate_limit_middleware.go`) | token bucket per address | check, cleanup loop | lazy refill; the sweep forgets; rounding of Retry-After |
| Catalogue (`product_service.go`, `category_service.go`, `cache.go`) | products, categories, three kinds of cache entry | page, listing, create, update, delete | cached pointers edited in place; fills that race with writes |
| Payment methods | one row per method, cached list | list, update, the gate of checkouts | demote-then-save in two statements |
| Settings | one row, cached | get, update | fills that race with updates |
| Customer accounts (`customer_service.go`) | `customers` with unique indexes | sign in (four ways), register, change profile or password, reset, enable or disable | whole-row saves; lookups and inserts apart; two spellings of a phone |
| Backups (`backup_service.go`) | `running` flag, next midnight | nightly run, "Backup now", dump, upload | one flag for two callers, panics, midnight, tables read at different moments |
| Staff, roles and permissions (`user_service.go`, `role_service.go`, `auth_middleware.go`) | users, roles, JWTs | log in; create, change, disable, delete an account; assign a role; create, edit, delete a role | a token outlives the role it was signed for; checks and saves are statements apart; a saved account carries its role along |
| Google and Facebook sign-in (`oauth_google.go`) | Google's key cache, a mutex | verify a token | keys are replaced while sign-ins wait for one fetch; answers that fail or parse as nothing |
| Audit log (`audit_log_service.go`, `ip_intelligence_service.go`) | rows, a cache of countries | record, look up the country, clean up by age, delete by choice | a goroutine per entry, late; removals that remove each other's records |
| Banners (`banner_service.go`) | rows, the cached list | list, create, update, delete | as the other caches |
| Telegram, SMS | none | send | outcome unknown after a timeout |
| Contact messages, uploads | single rows, files | single statements | nothing that other parts depend on |
| Start-up, routes, seed, configuration | seeded rows | once | restart |
| Helpers | none | phone, money, paging | edge cases of pure functions |

How they interact. A **checkout** passes the payment-method gate, reads the
cart, the products and the fee, creates the order, asks the bank client for a
payment page and clears the cart. The **webhook**, the **return page** and the
**re-check** all end in `VerifyPPCBankPayment`, which asks the bank through the
shared token and tells staff by Telegram. **Phone verification** ends in the
creation of a customer or in a login. All public routes pass the **rate
limiter**; all admin routes pass the token and permission check of **staff**,
and what they do is recorded in the **audit log**. The **caches** are shared by
all requests of one process and are empty after a restart. The **backup** reads
every table while all of this goes on.

What makes each part correct is stated by its properties below.

## Modules

| Module | Code | State and actions |
|---|---|---|
| `OrderPayment` | `order_service.go`, three controllers, `models/order.go` | `rows[o]` is the row, `task[w].copy` the row a handler read, `bank[o]` the state of its bill at PPCBank. `Initiate*` are the statements of `InitiatePPCBankCheckout`, `Verify*` those of `VerifyPPCBankPayment`, begun by `WebhookNotify`, `ReturnStatus` or `AdminVerify`; `StatusRead`/`StatusSave` are `UpdateStatus`. `VerifySaveUnanswered` is a save that took effect but whose answer was lost; `VerifyNotify` hands over a message that arrives or is dropped, and `missed` records the orders whose message was due and did not arrive |
| `CartCheckout` | `cart_service.go`, `order_service.go` 30-228 | `lines` by id with an auto-increment. `AddCheck`, `AddFind`, `AddSave`/`AddInsert`; `CheckoutRead`, one `BuildLine` per row, `BuildDone`, `CreateOrder`, `PaymentUrl`, `ClearAfter`; `RequestFails` ends a request at any of these. `wanted` records what requests put into the cart, `split` the rows that a failing lookup did not find |
| `OtpVerification` | `otp_service.go`, its handlers, `CreateFromVerifiedOtp` | `reqs` are the rows, `links` the chat of each phone, a code is the number of its message and `sent` the phone or the chat it went to. `Request*`, `Tap*` (by any chat), `Sms*`/`SaveCodeSent`, `VerifyRight`/`VerifyWrong` (one transaction each), `CreateCheck`, `CreateAccount` |
| `PPCBankToken` | `ppcbank_payment.go` | `mem` is `ppcbankMemToken`, `holder` the mutex's owner. `Load`, `LockToFetch`, `Fetch`, `SaveToken`, `Call`, `CallRefused`, `Invalidate`. What runs under the mutex without a call to the bank is one action |
| `RateLimiter` | `rate_limit_middleware.go` | `check` is `CheckAdmit`/`CheckRefuse`; the loop is `CleanupWakes` (cutoff computed) and `CleanupSweeps` (mutex held) |
| `TokenBucket` | abstract | a bucket per client, filled continuously, never forgotten |
| `Catalogue` | `product_service.go`, `product_controller.go`, `category_service.go`, `cache.go` | products in memory are objects in a `heap`, as the detail cache holds pointers; `Lookup`, `Remember`, `Edit` (in place, word by word), `Copy` (GORM reads the object, word by word), `SaveProduct`, `ClearProducts` ... |
| `PaymentMethods` | `payment_method_service.go` | `UpdateRead`, `ClearPrimary`, `SaveRow`, `ClearCache`, `DemoteFail` and `SaveFail` (which may have been carried out); `ListRead`/`ListFill`; `CheckoutGate` |
| `SettingsCache` | `settings_service.go` | `GetHit`, `GetRead`, `GetFill`, `UpdateRead`, `UpdateSave`, `UpdateCache` |
| `SettingsRegister` | abstract | one register; a page shows a value that was stored, and the current one in the regime where nothing overlaps a write |
| `CustomerAccounts` | `customer_service.go`, two controllers | a request is a list of lookups, then a create or a whole-row save; `FindHit`/`FindMiss` do one lookup, `Clash` is a refusal by an index; a write takes effect whether or not its answer arrives (`AnswerWritten`). `made` records the rows as the written changes made them |
| `BackupService` | `backup_service.go` | `Claim` is the compare-and-swap, `Wake` the scheduler, `DumpTable` one SELECT, `Return` the deferred release |
| `StaffRoles` | `user_service.go`, `role_service.go`, `auth_service.go`, three controllers, `auth_middleware.go`, the roles of `seed.go` | `roles` and `users` by id; a token is an account and a slug. A request begins with the permission check (`Permitted`); then `CanAssign`, `ReadUser`, `Allowed` are its checks and reads, and `SaveUser`, `SaveRole`, `InsertUser` ... its writes. `SaveUser` is GORM's `Save` with the loaded role: it may insert the role again (`RolesAfterSave`) and takes the role's id from it (`SavedRow`) |
| `GoogleKeys` | `oauth_google.go` | `keys`, `age` and `mutex` are the fields of the service; `Lock`, `LookHit`/`LookMiss`, then `Serve` (Google makes up its answer) and `Arrive`, or `FetchFails`; `Rotate` is Google |
| `AuditLog` | `audit_log_service.go`, `ip_intelligence_service.go`, its controller and repository | `entries` by id; `lookups` are the goroutines of entries (`Lookup`, `Fetch`, `Remember`, `UpdateGeoInfo`); `Cleanup`/`DeleteSelected`, `Delete`, `Report` are a removal |
| `Banners` | `banner_service.go`, `banner_controller.go` | the table and the cached list; a write, then `Clear` |
| `OrderPaymentProofs`, `CartCheckoutProofs`, `PPCBankTokenProofs`, `RateLimiterProofs`, `BackupServiceProofs`, `StaffRolesProofs` | | theorems of the module each is named after |
| `AccountsProofs` | | theorems of the two ways to an account, `OtpVerification` and `CustomerAccounts` |
| `CachesProofs` | | theorems of `GoogleKeys`, `PaymentMethods`, `SettingsCache`, `AuditLog`, `Catalogue`, `Banners` |
| `MC*` | | the regimes and the instances TLC checks; `MCCaches` combines the services that keep a cache, `MCCustomerAccounts` puts `CustomerAccounts` beside `OtpVerification`, which rests there |

A definition whose comment begins with "Mutant of X" is X with a plausible
mistake. It is not part of the specification; `PROJECT.json` pairs it with the
property that fails when it takes X's place, so each property is known to
depend on the code.

### Regimes

Much of what the code's comments promise holds only as long as certain requests do
not overlap, and the code does nothing to keep them apart. The MC modules say
how far each promise reaches with a variable `regime` that is chosen in the
initial state: in "any" everything overlaps, in the others some requests wait
for others ("alone": for every other; "apart", "staff apart": as each MC module
says). Properties without a suffix hold in every regime; the suffix `Alone` or
`Apart` names the ones that need a regime, and a property that collects such
ones (`OrderAgrees`, `PaymentsStand`, `CartAsAsked`, `ChangesStay`) is the
conjunction of definitions that each carry their suffix. Faults and restarts
happen in all of them unless the property's comment excludes them.

Where an instance is also cut down so that TLC can finish it (`Bounds`,
`OnePassword`, the values some tables begin with), the module states the
regimes without these cuts as `RegimeSpec`, and `MCSpec` adds them: TLC checks
`MCSpec`, the theorems are about `RegimeSpec`, and `InstancesAreCovered` says
that the one implements the other. In the other MC modules `MCSpec` has no cuts.

`MCCaches` has a second choice, `part`: six services each keep a cache of their
own, share neither state nor keys, and never call each other, so in a behaviour
one of them moves and the others rest in one initial state. The union of these
behaviours shows of each service what a run of its own would; since no formula
speaks of two of them, interleaving two would add states and no new case; the
theorems let all of them move (`RegimeSpec`, where `PartsAreServices` proves each
to behave as its own specification says). What `MCCaches` does not show is a
promise that spans two of these services, and the code makes none.

## Runs

Deadlock is checked in all runs but Customers, whose requests are bounded in
number.

**Order** (`MCOrderPayment`; one order, two workers, two losses; 107 000
states). Orders meet only in the workers they share and the database keeps
their rows apart, so one order shows every overlap; two workers are the fewest
that overlap, and with two losses each may be cut off once.
- `RecordsAreTrue`: what is recorded, invoiced or announced as paid is a
  payment the bank took (it may have refunded it since). Breaks if the
  webhook's payload is believed.
- `PaidIsAnnounced`: a recorded payment has been announced, a worker is about
  to announce it, or the message of that very order was due and lost: Telegram
  dropped it, or its handler was cut off or lost the answer of its save. Two
  verifiers never both leave it to the other.
- `OrderAgrees`: one message per order while requests do not overlap
  (`AlertedOnceAlone`), and the reference of an order survives unless a status
  change overlaps (`UrlHasReferenceApart`).
- `PaymentsStand`: a recorded payment stays recorded while requests do not
  overlap (`PaidIsFinalAlone`), and recording it leaves the status alone unless
  a status change overlaps (`PaymentLeavesStatusApart`).
- `PaymentRecordedAnyway`: a payment the bank holds is recorded in the end,
  whatever fails, as long as the order kept its reference and the bank did not
  refund it.

**Cart** (`MCCartCheckout`; two customers, one product, two workers, two rows,
quantity up to two, two orders, two fees; 1.3 million states). Two customers are
needed for one to touch the other's row, two rows for a duplicate, two orders
for one row ordered twice. Failing lookups and second orders are explored while
a customer waits for answers and prices are low (`Small`).
- `CartInv`: an order charges what its lines and its fee add up to, and its
  lines come from rows of its owner, each counted once, although prices, fee
  and products change between the reads.
- `OnlyOwnerEdits`: a row changes or goes only in a request of its owner.
- `CartAsAsked`, while each customer waits for an answer before the next
  request: one row per product and a cart that holds what requests put there,
  answered or not, unless a lookup of that row failed, which inserts a second
  one (`UniqueLineApart`, `CartKeptApart`); and no row of an order that cleared
  its cart is ordered again (`OrderedOnceApart`). An order whose clearing
  failed, which the code ignores, leaves its rows to be ordered again.

**Otp** (`MCOtpVerification`; two phones, two chats, one form, two workers, two
rows, two codes, one loss; 2.6 million states). Two phones let a code or a form reach the
wrong one; behaviours with a loss deal with one phone
(`LossesWithOnePhone`), since a loss only drops workers.
- `OtpInv`: the code an account was proved by went to its phone or to the one
  chat linked to it, and its form was submitted for that phone. A code that
  came through Telegram proves the chat that opened the link, not the phone:
  the link is answered to the request, and the first chat that sends its token
  is linked (`CompleteTelegramLink`). Codes sent to other chats lead to nothing
  (the unique index of the links refuses the second).
- `OneAccountEach`: overlapping verifications make one account per phone and
  e-mail. `CodeUsedOnce`: a code is accepted once, although rows read earlier
  are written back.
- `RegisteredUnlessCut`: a verified registration leaves an account, or met
  one, unless its own request was cut off between the two transactions.

**Token** (`MCPPCBankToken`; two workers, three tokens, two database errors;
69 000 states). `MutexHeldByFetcher`: the mutex is held exactly by the worker
that fetches or saves. `RetryIsNewer`: the retry after "Token has expired"
never uses the refused token or an older one. `RowIsMemory`: without database
errors there is one row at most and it is the token in memory.
`EveryRequestEnds`: no request waits for ever.

**Rate** (`MCRateLimiter`; two clients, a burst of two, a token of 3 units
refilled by 2 a tick, eight ticks; 418 000 states). The amounts do not divide
each other, so rounding shows, and eight ticks hold two sweeps.
`SustainedRate`: no more is admitted than burst and elapsed time allow.
`RetryWorks`: who waits as long as told is admitted. `BucketSpec`: the
limiter implements `TokenBucket` with `level` mapped to the refilled tokens.

**Staff** (`MCStaffRoles`; the Administrator, one more account and role, room
for a third of each, two permission groups, two workers, three requests with a
token; 1.1 million states). Three requests: one takes away what the two others,
overlapping, have read. Where all overlap passwords rest; where they change,
overlapping requests are about different accounts and roles.
- `StaffInv`: however requests overlap, a permission is on another role only
  because an Administrator once put it there, though a role's editor may lose
  it between the check and the save; and a token that says "admin" is an
  Administrator's, so `canAssignRole` may ask the token.
- `AdministratorsStay`: who is an Administrator stays one, and becomes one only
  by being created by an Administrator. (That nobody is *moved* into the role
  is Finding 3.)
- `SavesOneChangeApart`: while requests about one account or one role do not
  overlap, a save changes no column but the one it is for, to the value asked
  for, in the row as it stands, and brings nothing back. A save that assigns a
  role may change the role, which the code's does not (Finding 3).

**Caches** (`MCCaches`; two workers, one of six services moves; 497 000
states, of which those that differ in an unreachable product object count as one,
`View`). Two workers are the fewest that overlap; what each needs besides:
- *payment methods* (the two methods). `MethodsInv`: a checkout goes on only
  with a method enabled at some moment since it began. `MethodsAgreeApart`, while updates overlap
  checkouts only: never two primary methods, and one unless it was turned off
  or an update stopped between its statements (`OnePrimaryApart`); and a current
  list, unless a save that was not answered returned before the clearing
  (`ListIsCurrentApart`). Where updates overlap each other, none sets the
  primary flag: what is claimed there concerns the other one.
- *settings* (three values: the one stored, the one saved, the one cached).
  `ReadsLikeTheRow`: the row with its cache implements `SettingsRegister`.
- *catalogue* (two products of two words with two texts, one category, one
  fault; what overlaps writes, categories and failing writes are explored with
  one product). `CatalogueInv`: every word of a cached page was saved for that
  product or is being entered by an update under way, until an update that
  edited the page fails to save it. Words, not pages: the nine assignments to
  the shared object are unguarded, so a page of two overlapping updates may mix
  them, and such a mixture may be saved. `CacheAgreesApart`: caches show what a query would return while nothing
  overlaps a write. `DeletedStaysDeletedApart`: a deleted product comes back
  only by being created again.
- *banners* (two, two contents). `CacheAgreesApart` as well: the cached list is
  the active banners once every write has cleared it, although writes overlap
  each other.
- *Google's keys* (two key ids, keys of age 0, 1 or too old). `KeysInv`: one
  sign-in at a time looks or fetches. `KeysAreCurrent`: a sign-in whose key
  Google publishes all along is refused only after a fetch that failed or
  brought an error page, a failing fetch refuses none whose key was fetched
  before, and a key is accepted without a failed fetch only if it was published
  within `keysMaxAge`.
- *audit log* (two public addresses and a private one, the months 0, 1 and 6,
  so that every preset has a month to remove and one to keep, three entries;
  overlapping removals choose one entry at most, and a removal of any choice
  overlaps the lookups with two entries in one month). `AuditInv`: an
  entry shows the country of its own address or none; what the log tells of
  removals adds up to the entries that are gone unless a write or the process
  was lost; and a log from which something was removed still says so.
  `EntriesGoAsAsked`: entries disappear only from the view, by the choice or
  below the age that was asked for, and none comes back.

**Customers** (`MCCustomerAccounts`; one phone, e-mail and provider id, two
passwords, two workers, three requests, one fault; 1.4 million states). The table
is empty or holds a row from before phones were normalized; two requests make
what a third, overlapping, may undo. `CustomersInv`: a session was given for an
account enabled at some moment of the request (and that had the password at
that moment). `ChangesStay`: rows are what the written changes made them, their
answers lost or not, while updates of one account do not overlap
(`AsMadeApart`), and lookups find a duplicate before an index does
(`NoClashAlone`). `NoAccountIsTrueAlone`: "no
account" is told only if neither spelling of the phone has one.

**Backup** (`MCBackupService`; one customer, two orders, one admin, two
midnights, one restart; 57 000 states). `BackupInv`: runs never overlap and the
flag is set exactly while one is under way. `DumpIsConsistent`: a dump misses
nothing that was there when it began, and holds the order of every line.
`OnceADay`, `EveryNight`: the scheduler tries once a day at most, and every
midnight it waits for passes with an attempt or a restart. `RunEnds`: the flag
is given back.

**OrderPaidIsFinal**, **OtpAttemptsCounted** and **StaffRoleIsAssigned** refute
a comment each, see Findings.

Every model bounds restarts or faults where counting them matters, and lets
them happen without bound elsewhere. Symmetry is used for workers, customers,
products, phones and forms, and only in runs without liveness.

### Fairness

- Order: weak fairness of the steps of a begun request (Go runs every
  goroutine and each call has a timeout); strong fairness of `VerifyAsk` and
  `VerifySave` (a call repeated for ever succeeds in the end) and of
  `AdminVerify` while the order is shown as unpaid (staff re-check). The
  webhook, the return page and the customer have none.
- Token: weak fairness of calls, which have a 15-second timeout, strong
  fairness of taking the mutex: Go's mutex hands over to a waiter that has
  waited for 1 ms.
- Backup: weak fairness of `Wake`, `Midnight` and of a run. The upload uses a
  client without a timeout, so that it ends is an assumption about Telegram.
- Google's keys: none. `http.Get` has no timeout and runs under the mutex, so
  nothing in the code bounds how long sign-ins wait.

## Proofs

Every invariant and every action property that the passing runs check, and both
refinements, are theorems: they hold for every value of the constants that
satisfies the `ASSUME`s, however many workers, rows, orders or accounts there
are. Bounds such as `MaxLines` or `MaxRequests` are constants too, so a theorem
holds for each of them. Strengthenings were tried with TLC before they were
proved.

What holds however requests overlap is proved of the module's own `Spec`. What
needs a regime is proved of `RegimeSpec`, or of `MCSpec` where the instance
cuts nothing.

### The argument they share

A handler writes back the row it read. So an invariant on the tables is not
inductive by itself: it has to be said of every **copy** that a request still
holds, in a form that stays true while the rows move on. For each module that
form is the interesting part. In a regime it is simpler: the copy *is* the row.

- `OrderPaymentProofs`. `PaymentsAreTrue`: `IInv` says that every carried copy
  is as true as a row (`CopyInv`), which stays so because the bank
  took a payment for good, refunded or not, and a bill is opened once
  (`BillInv`). `PaymentsAreAnnounced`
  (`AnnounceInv`): who saves "paid" announces it unless the copy said "paid"
  already, so what a copy says is paid must have been announced, be about to
  be, or be missed. `OrdersAgree`, `RecordedPaymentsStand` (`RegimeInv`): the copy that will
  be written is the row, or has its status (`Fresh`).
- `CartCheckoutProofs`. `OrdersAddUp`: an order that is put together has added
  up the items it has, and what is left to do are other rows of the same
  customer (`OrderingInv`). `OnlyOwnersEdit` (`EditInv`): whoever holds a copy
  of a row serves the owner of what is stored under its id now, because ids are
  not used twice. `CartIsAsAsked` (`ApartCart`): one request per customer
  (`Lone`); the cart has one row per product, with the quantity asked for,
  except where a lookup failed (`Counts`); what a request has read is still so (`Fits`), and what a checkout
  orders is in it (`FromCart`), so the clearing takes exactly what was ordered;
  rows of orders that cleared their cart are gone for good (`Spent`).
- `AccountsProofs`, for `OtpVerification` (`AccountsAreProven`,
  `AccountsAreUnique`, `CodesAreUsedOnce`, `RegistrationsAreKept`): a row keeps
  its phone and form for ever, so a late copy changes neither (`HeldInv`); a
  code is in one place, with the request that sent it or on one row
  (`UniqueInv`), and a used one is on no way to a row (`UseInv`); what is on
  a row went to its phone or its chat, since a chat's code is saved only after
  the chat was linked; what was verified has an account, one is being made, or
  its request was cut off (`PendingInv`).
- `AccountsProofs`, for `CustomerAccounts`. `SessionsAreJustified`
  (`CustomerInv`): a request has seen what the rows are now. `ChangesAreKept`,
  `OldPhonesAreFound` (`AnsweredInv`): with updates apart, the row to be saved
  is the current one with the change asked for (`ApartTask`); alone, each
  column the request is going to store is empty, still to be looked up, or no
  other row's (`Sought`), so no index has anything left to refuse.
- `StaffRolesProofs`. `PermissionsAreGiven`, `AdministratorsStayOnes`: role 1 is
  the Administrator's, an id keeps its slug in the table and in every copy of a
  role (`SlugsInv`), and a request holds the Administrator role exactly if its
  account has it (`HeldInv`); so a save that brings an old role back brings
  back no more than was given, and the token's "admin" is still true.
  `SavesAreApart`: requests that overlap name different accounts and roles, and
  each copy stands on the row of now (`StandsOn`), so the one column that
  differs is the one asked for.
- `CachesProofs`. *Keys* (`OneSignInFetches`, `KeysAreNeverStale`): who looks or
  fetches has the mutex, and what is kept is no older than its age says.
  *Payment methods* (`CheckoutsAreOpen`, `MethodsAgree`): between demoting the
  others and saving, no other is primary, and where none is, an update is in
  between, stopped there or turned it off; the list is current unless it is
  about to be cleared or its save was not answered. *Settings* (`SettingsAreARegister`): the refinement,
  step by step: what is read or cached was saved, and with updates apart it is
  the row. *Audit log* (`RemovalsAreAccounted`, `EntriesGoWhenAsked`): entries
  gone = entries told of + what removals are about to tell (`AddsUp`).
  *Catalogue* (`PagesWereSaved`, `CachesAreCurrent`,
  `DeletedProductsStayDeleted`): an object in memory is of one product and,
  until it is cached, has one holder (`Own`), so an edit in place changes no
  other product's page, and each word of it is saved or being entered
  (`Enters`, `WasSaved`); a free object is free (`FreeObjectIsFree`, by counting
  holders and cached products); a cache entry may be old only until the write
  that made it old has cleared it (`Current`). *Banners*: `HomeInv`.
- `BackupServiceProofs` (`BackupIsExclusive`, `DumpsAreConsistent`,
  `ScheduledOnceADay`): the flag is up exactly while one runs; what was read
  lies between the tables of the beginning and those of now (`DumpOK`), which
  only grow; every day that was tried lies behind the midnight waited for.
- `PPCBankTokenProofs` (`TokenTypeCorrect`, `MutexIsExclusive`,
  `RetryUsesNewerToken`, `RowMatchesMemory`): a refused token is taken out of
  memory and row before the mutex is taken again, and whatever is loaded then
  was issued after it (`TokenInv`).
- `RateLimiterProofs` (`LimiterTypeCorrect`, `RateIsSustained`,
  `RetryAfterIsHonoured`, `LimiterImplementsBuckets`): what was admitted plus
  what is in the bucket is charged against burst and elapsed time
  (`BudgetInv`); an announced time is related to the level then
  (`WaitingInv`); and the refinement of `TokenBucket` needs that a bucket swept
  after `Forget` ticks was full again.

Sums and numbers are reasoned about without induction over data: a least
counterexample exists, by the well-foundedness of the naturals, and is taken
apart (`SumExists`, `FoldsAreOne`, `LeastNat`). So `ItemsTotal`, `Taken`,
`InCart` and `ToTell`, which are folds, are pinned down for every finite set.

### Assumptions

- Workers are finitely many (`WorkersAssumption`, `AuditAssumption`,
  `CatalogueAssumption`, `CustomersAssumption`): they are goroutines of one
  process. `Nobody` is none of them (`KeysAssumption`, `TokenAssumption`).
- The model's marks for "nothing" (`None`, `NotCached`, `NoForm`, `NoChat`,
  `NoOrder`) are no values.
- `StaffAssumption`: "admin" is no slug that staff give to a role, and there is
  room for the two accounts and roles that exist at the start.
- `LimiterAssumption`: `Full <= Refill * Forget`, that a bucket is full before
  it is forgotten; every limiter of `routes.go` and `main.go` refills within a
  minute and is kept for fifteen.
- The others say that prices, fees and months are numbers, and bounds naturals.

### Only model-checked

The four liveness properties (`PaymentRecordedAnyway`, `EveryRequestEnds`,
`EveryNight`, `RunEnds`): fairness and `ENABLED` are out of the provers' reach.
That the promises with a suffix fail where requests overlap further was seen in
TLC's counterexamples, and is not a theorem.

## Findings

Refuted by a run:

1. `OrderPaidIsFinal`: `UpdateStatus` (`order_service.go:335`) and a
   verification that got "unpaid" earlier (`order_service.go:267`) save the row
   they read and take a recorded payment back; `models/order.go:38-41` calls
   the two independent.
2. `OtpAttemptsCounted`: the counter of wrong codes is saved in a transaction
   that the error of the same function rolls back (`otp_service.go:259`); the
   comment at 230-234 says the count is accurate. The cap of five attempts is
   never reached.
3. `StaffRoleIsAssigned`: `AssignRole` (`user_service.go:86`) changes `RoleID` of
   an account that was loaded with its `Role`; `Save`
   (`base_repository.go:55`) stores the loaded role first and takes the id from
   it, so the account keeps the role it had while the handler answers "role
   assigned". The comment at `user_service.go:73` says it changes the role.
   This is GORM's rule for a belongs-to association with a non-zero value; the
   model states it in `SavedRow` and `RolesAfterSave`.

Met while modelling, without a run of their own; the corresponding property is
claimed for the regime in which it holds:

- Two verifications may both announce a payment (`AlertedOnce`;
  `order_service.go:251-254`), and a late one writes back the status it read
  (`PaymentLeavesStatus`; `models/order.go:38`).
- A status change during the checkout loses the reference
  (`UrlHasReference`; `order_service.go:199-202` and 335).
- A cash order stores a reference as well (`order_service.go:131`, though
  `models/order.go:60` reserves it for PPCBank).
- Overlapping requests of one customer duplicate cart lines, lose additions and
  order a cart twice (`UniqueLine`, `CartKept`, `OrderedOnce`;
  `models/cart_item.go:5-9`, `order_service.go:84`). One at a time, a failing
  lookup duplicates a line as well (`cart_service.go:85-92`), and an order whose
  clearing failed (`order_service.go:145`) is ordered again.
- Every error of a product lookup leaves its line out of the order
  (`order_service.go:49`), a failed query too, and the cart is cleared
  afterwards, so the line is in neither; the comment at 51-53 says that the
  product no longer exists. (TLC: a checkout with one failing lookup.)
- The other payment methods are demoted in a statement of their own
  (`payment_method_service.go:137`), and when the save that follows fails no
  method is primary; the comment at 122-124 says both are one operation, so that
  exactly one is ever primary. (TLC: one update. `OnePrimary` names the case.)
- The order-paid message is dropped when Telegram is not configured, slow or
  refuses it (`telegram_service.go:28-36` and 59-74), by intention.
- A Telegram link is answered to whoever asked for a code, and the first chat
  to open it is linked to the phone (`otp_service.go:177-202`), while
  `models/otp.go:53` says that the phone "has proven it can receive messages at
  this Telegram chat".
- Readers and savers of a cached product see an update half done, and after a
  failed save they go on seeing it (`product_controller.go:174-184`).
- A failed or unanswered write leaves the caches of products, categories,
  banners and payment methods uncleared though the row may have changed.
- A restart between verification and creation loses the registration
  (`models/otp.go:42-45`), and a row read before a message was sent is saved
  back over its verification (`otp_repository.go:34`).
- A tap on the Telegram link may leave the delivered code unsaved
  (`telegram_bot_controller.go:91-93`).
- Errors in reading the token row can make a second one
  (`models/ppcbank_token.go:5` says there is one).
- Retry-After is a second longer than needed when the wait is a whole number of
  seconds (`rate_limit_middleware.go:155-160`).
- Product writes leave the categories' cached counts alone
  (`category_service.go:25-26`).
- Two overlapping updates leave two primary payment methods
  (`payment_method_service.go:122-124`); an overlapping read leaves old
  settings cached (`settings_service.go:16-21`).
- A whole-row save that overlaps `SetActive` enables a disabled customer again;
  a profile change may clear both phone and e-mail of an account; a token
  signed before an account was disabled keeps working; a registration does not
  look for the old spelling of its phone and makes a second account.
- Overlapping requests about one account undo each other and bring deleted
  accounts and roles back (`SavesOneChange`; `user_service.go:54-86`,
  `role_service.go`).
- The last Administrator can be disabled (`UpdateUser`), although
  `user_service.go:50-51` refuses to delete one so that nobody is locked out.
- An error page of Google's that parses empties the cached keys and refuses the
  sign-in that fetched it, though an older key may have been there; the next
  sign-in fetches again (`oauth_google.go:104-135` does not look at the status).
- A dump reads customers long before orders, so an order may be there without
  its customer (the comment at `backup_service.go:175-179` promises no
  snapshot).

## Abstractions

- Money is whole units; the rounding of `float64` sums is not modelled.
- Codes are numbered by message: two messages never carry the same digits.
- A phone in the old, local spelling is a tagged phone (`LocalVariant`).
- A product stands for its (product, size, image) combination in a cart.
- One listing and one category stand for all; one cache entry per product.
- `SettingsCache` knows refused saves, not saves whose answer is lost, and an
  update replaces all a reader sees.
- Whether an order-paid message arrives is decided when it is handed over: no
  handler reads the outcome.
- A product's fields are machine words; the code's nine assignments write more
  than nine, in an order the model leaves open.
- An account and its role are read in one step (`ReadUser`), in the code in two
  statements; `StaffRoles` names what is left out by it.
- Three tables stand for all in a dump: a reference along the order of reading
  and one against it.
- Rate-limit amounts are whole units per tick; the clock is monotonic.
- Staff permissions are two groups, `user.*` and `role.*`; an account's e-mail
  is its own and never used again. Slugs are given by staff; "*" is not.
- A token of Google's is its key id; whether its other claims pass is decided
  by the caller's outcome. An answer of Google's arrives within a tick of age.
- The country of an address is the address; an hour's expiry may come at any
  time. An entry's month is the one of its insertion, in Phnom Penh time.
- Other handlers' entries in the audit log are `Log` there and left out of the
  other models; that no lookup and no failed entry delays a handler is the
  shape of the code, not a property.
- Wording of messages, SQL literals, names and timestamps are left out.

## Not modelled, and the plan

- Contact messages: a message is read and saved whole like all else
  (`contact_service.go:35` inserts one that was deleted meanwhile), and nothing
  depends on it. Uploads: files go to object storage and no row is tied to
  them.
- Facebook sign-in: two requests to Facebook without any state; it is an
  outcome of the provider sign-in in `CustomerAccounts`.
- Helpers (phone, money, paging, tokens, passwords): pure functions. What
  other parts need of them is in those parts' models; that `float64` sums are
  rounded to the cent is not.
- Wiring and configuration.
- Sold counts in the cached categories after product writes: no schedule keeps
  them current, see Findings.

Done, in the order of the plan: `OrderPayment`; `CartCheckout`;
`OtpVerification` and `CustomerAccounts`; `PPCBankToken`; `RateLimiter` refining
`TokenBucket`; `Catalogue`, `PaymentMethods`, `SettingsCache` refining
`SettingsRegister`, `BackupService`; `StaffRoles`; `GoogleKeys`, `AuditLog`,
`Banners` and their composition in `MCCaches`; proofs of all invariants, action
properties and refinements that the runs check.

What is left: a composition of `CartCheckout` and `OrderPayment` for one order,
in which the cart is cleared after the payment page is opened, and its theorem:
a row of the cart is paid for once.
