# A verification of Play Economy

TLA+ modules, TLC configurations and TLAPS proofs for the services in this
repository: Trading, Inventory, Identity and Catalog, the common library they
share, and the frontend that drives them. The purchase saga, the one workflow
that changes the state of three services, comes first; then the copies that
services keep of each other's data, the token provider their HTTP clients share,
and a browser tab of the frontend. The plan below says what follows.

Paths are relative to the repository root. `Trading/`, `Inventory/`,
`Identity/` stand for `Play.X/src/Play.X.Service/`, `app/` for
`Play.Frontend/play-app/src/components/`.

## 1. The system

| Part | State | Operations | Talks to |
|---|---|---|---|
| Trading: purchase API (`Trading/Controllers/PurchaseController.cs`) | none | POST /purchase, GET status | publishes `PurchaseRequested` |
| Trading: saga (`Trading/StatesMachine/PurchaseStateMachine.cs`) | an instance per idempotency id, **in memory** (`Trading/Program.cs:180`) | one binding per event and state | sends `GrantItems`, `DebitGil`, publishes `SubtractItems`, `PurchaseCompleted`; pushes status to the hub |
| Trading: projections (`Trading/Consumers/`) | MongoDB copies of catalog items, users' gil, inventory | one consumer per event | events of Catalog, Inventory, Identity |
| Trading: synchronisation and HTTP clients (`Trading/Services/`, `Clients/`) | the projections | start-up copy; registered, but its calls in `Trading/Program.cs:127` are commented out | HTTP with Polly policies |
| Trading: `SignalR/MessageHub.cs` | the context of the last client, a singleton | `SendStatusAsync` | the browser |
| Inventory: purchase consumers (`Inventory/Consumers/`) | `inventoryitems` documents with the MessageIds applied to them | `GrantItems`, `SubtractItems` | answers `InventoryItemsGranted`, `InventoryItemsSubtracted`, `InventoryItemUpdated` |
| Inventory: catalog projection, items API, synchronisation | MongoDB | consumers, GET/POST | events of Catalog |
| Identity: `DebitGilConsumer` | users with gil, MessageIds and a concurrency stamp | `DebitGil` | answers `GilDebited`, `UserUpdated` |
| Identity: users API, registration, seed | the same users | PUT, DELETE, register | `UserUpdated` |
| Catalog: items API | items | POST, PUT, DELETE | catalog events |
| Common (`Play.Common/`) | a cached token; nothing else | MongoDB repository, MassTransit hosting, token provider | every service |
| Frontend: session (`app/api-authorization/`, `app/NavMenu.js`) | user in `localStorage` and in memory, Identity's cookie | sign in, sign out, guarded routes, menu | Identity, by redirects |
| Frontend: list pages (`app/Catalog.js`, `Users.js`, `Store.js`, `Inventory.js`, `app/form/`) | rows, status, modals | list, add, edit, delete, grant | Catalog, Identity, Trading, Inventory |
| Frontend: purchase form (`app/form/PurchaseForm.js`) | quantity, flags, chain of retries | confirm, retry, statuses | POST /purchase, SignalR |

### A purchase

    client --POST--> Trading --GrantItems--> Inventory --InventoryItemsGranted--> Trading
                     Trading --DebitGil----> Identity  --GilDebited-------------> Trading  => Completed
                                             Identity  --Fault<DebitGil>--------> Trading  => Faulted,
                     Trading --SubtractItems-> Inventory                                      compensation

What makes it hard: queues are per consumer and handlers run concurrently, so
messages are consumed in any order; a message whose acknowledgement is lost is
delivered again; a handler that throws is run again from its start, and gives
up with `Fault<T>`; handlers of different messages interleave at every `await`
on the same documents; Trading keeps its instances in memory; the outbox is
delivered after the instance changed. `PROJECT.json` lists the hazards with
their lines and the properties that answer them.

### What makes each part correct

* Saga: a command is sent once; a debit follows a grant and is for the terms
  accepted; a compensation undoes exactly the grant; an outcome has a cause.
* Consumers: each command counts once, however often it is delivered; what is
  recorded is what the balance says; updates do not erase one another.
* All three: a purchase ends, and when it has, items are held exactly if paid.
* Projections: the copy ends equal to the original, in whatever order the events
  come; where they cannot be ordered, the next change puts it right. An item that is
  deleted stays in the copies: both consumers of `CatalogItemDeleted` return if they find
  it (`CatalogItemDeletedConsumer.cs:20`). The model does so too.
* Token provider: a token handed out is fresh, as far as its answer came within the
  margin; no token is fetched while a good one is cached, and no error leaves the
  semaphore held.
* Session: requests carry the token of the user the page shows, guarded pages are
  seen by signed-in users, and signing in or out does not stay at "Processing". It may
  end the app: a failure is rendered as an `Error` object, which throws.
* List pages: a row shown was held by the service, a deletion takes its row and no
  other (it does not, see `stale_delete`), and an undisturbed table is what the service
  holds; loading ends.
* Purchase form: while Trading runs, what is confirmed once is bought at most once;
  it is bought as confirmed (it is not, see `unconfirmed_purchase`). After a last failure
  the form can be used again. After a successful POST it should learn the outcome; it
  never does, as the hub sends `ReceiveStatus` (`Trading/SignalR/MessageHub.cs:13`) and the form
  listens to `ReceivePurchaseStatus` (`app/form/PurchaseForm.js:33`), so it stays at "Purchasing..." until the modal is closed.

## 2. Modules

| Module | Models | State |
|---|---|---|
| `PurchaseBus` | message contracts; RabbitMQ and MassTransit as a set of queued messages | `net`, `sent` |
| `PurchaseSaga` | the state machine, its price activity, the in-memory repository and outbox, POST, the price projection, restarts; Inventory and Identity abstract | `saga`, `pushed`, `price`, `restarts`, `mishaps` |
| `ConsumerHost` | how MassTransit runs a consumer: tasks, stages, retries, faults, stops | `tasks`, `failures` |
| `InventoryConsumers` | `GrantItemsConsumer`, `SubtractItemsConsumer`, the repository they use | `docs`, `known` |
| `DebitConsumer` | `DebitGilConsumer` and the user store | `users` |
| `PurchaseFlow` | the three services composed; fairness; refinement | all of the above |
| `PurchaseSagaProofs`, `PurchaseFlowProofs` | theorems about `PurchaseSaga` and `PurchaseFlow` | |
| `ProjectionHost` | how MassTransit runs the consumers of a projection, with the error queue | `published`, `queue`, `errors`, `tasks`, `failures` |
| `CatalogProjection` | Catalog's POST, PUT and DELETE; the created, updated and deleted consumers of one copy | `catalog`, `calls`, `copy` |
| `CatalogProjectionProofs` | theorems about `CatalogProjection` | |
| `TokenProvider` | `ClientCredentialsTokenProvider` under concurrent callers | `cachedToken`, `expiresAt`, `endpoint`, `holder`, `call`, `now`, `weak` |
| `TokenProviderProofs` | theorems about `TokenProvider` | |
| `AccountProjections` | a user's gil or item quantity and Trading's copy: registration, seed, purchases, grants, PUT, DELETE; `UserUpdatedConsumer`, `InventoryItemUpdatedConsumer`; what the store shows | `balance`, `stamp`, `changes`, `replica`, the queue of `ProjectionHost` |
| `AccountProjectionsProofs` | theorems about `AccountProjections` | |
| `BrowserSession` | `AuthorizeService`, the login and logout pages, routes and menu of one tab | `idp`, `stored`, `cached`, `nav`, `at`, `code`, `calls` |
| `ListPage` | the four list pages with their forms and modals | `held`, `items`, `phase`, `shown`, `status`, `open`, `req` |
| `PurchaseForm` | the purchase form and modal, its retries, the hub's pushes, restarts of Trading | `form`, `link`, `chain`, `posts`, `accepted`, `run` |
| `BrowserSessionProofs`, `ListPageProofs`, `PurchaseFormProofs` | theorems about them | |
| `MCPurchaseSaga`, `MCPurchaseFlow`, `MCProjections`, `MCTokenProvider`, `MCFrontend` | instances for TLC | |

`PurchaseFlow` composes the five modules above it in the table. `MCProjections` and
`MCFrontend` hold modules that share no state: a behaviour is about one of them
(`focus`) while the others stay in their initial state.

How code becomes actions:

* **A saga event is one action.** MassTransit's in-memory repository locks an
  instance while an event is handled, so `AcceptPurchase`, `DebitForItems` and
  so on are whole bindings, with their sends, transition and push. `DuringAny`
  bindings run after the state's own (`CompensatePurchase` folds in the second,
  idempotent half). Events a state does not bind are discarded (no instance) or
  fail and end in the error queue (`UnhandledEvent`).
* **The outbox** (`Trading/Program.cs:197`) holds the sends of a binding until
  the instance is stored. It is configured before the retry filter and so
  wraps it: when its delivery fails, nothing runs again (`FlushFails`).
* **A consumer is a task** that moves from `await` to `await`: read, write,
  publish, acknowledge. The document it changes is a copy taken at the read.
  Reads made back to back without a write between them (catalog item and
  document) are one stage. `Task.WhenAll` of two publishes may deliver any
  subset when it fails; two awaited publishes are two stages.
* **An exception** starts the consumer again (`Throw`) until its retries are
  used up, then publishes `Fault<T>` and lets the message go. A failing write
  may have taken effect.
* **MessageIds** are new for each send and kept by redelivery. A command
  carries the sending run and a sequence number in its place, and consumers
  remember the command itself.
* **The user store** compares the concurrency stamp and reports a conflict in a
  result; the consumer ignores it (`Identity/Consumers/DebitGilConsumer.cs:45`).
* **A request to Catalog** stores, then publishes, with nothing around the two:
  between any two of its awaits other requests run, and a failure there leaves an
  item no one hears of (`CallFails`). POST reads the item back and publishes what
  it finds. Trading's and Inventory's consumers of catalog events are the same
  except that Inventory's leave the price out, so one copy stands for either.
* **A projection's consumer** reads its document, then creates, replaces or
  removes it. Creating one that exists by then throws (`WriteRefused`); replacing
  one that is gone does nothing. A message given up on is in `errors`.
* **The token provider** is a caller's program counter through `GetTokenAsync`:
  the check without the semaphore, the second read of the field it returns, the
  wait, the check inside, discovery, fetch, and one action for each of the two
  stores. `weak` says whether the platform lets other threads see those plain
  stores in the other order. `Tick` moves the clock. Each token carries the time its
  answer takes until it is stored (`delay`, one of `Delays`), which the code does not know and
  the clock waits for: expiry is counted from when the answer is handled and not from
  when the token was issued, so an answer slower than the margin lets the token outlive itself.

* **A change of an account** is the code's read, store and publish, in three
  actions. `Make` records what was read: the balance, whether there was a
  document, the user's stamp. Identity's store compares the stamp and the code
  ignores the answer; Inventory's documents have none, and creating one twice
  leaves a second document that no read finds. Purchases appear as changes of an
  amount, administrators as PUT, DELETE and grants; a consumer of a purchase that
  is run again counts as another change. What is published is the new total, not
  the difference. Accounts share no document, so one is modelled.
* **Registration** stores the configured `StartingGil` and announces a constant
  (`Register.cshtml.cs:122` and `:135`). Both are 100 in the settings the
  repository ships, and the model has one constant for both.
* **A tab** runs its code to completion between two awaits on the network, so an
  event and the updates of menu and routes it triggers are one action of
  `BrowserSession`. Calls of `AuthorizeService` are counted, as nothing cancels
  them: they end wherever the tab is by then, unless it left the document. Silent
  sign-in always times out, since the route of `SilentRenew` is an absolute path
  inside another and never matches; pop-ups are switched off. React Router takes
  the absolute return URL for a relative one, so a successful sign-in ends on a
  page without content (`blank`). Logging out removes the stored user before it
  awaits Identity, and its failure is ignored. A render that throws unmounts the app, as
  there is no error boundary: `Crashed` is a tab without menu or page whose calls go on.
  Two addresses the routes know lead there, and so does a failing sign-in or sign-out callback
  whose page is still there: `AuthorizeService.js:84` and `:143` return the `Error` itself as the
  message that `Login.js:54` and `Logout.js:61` render. `LoginCallback` only navigates home. A change of `localStorage` by another tab sets
  `foreign`.
* **A list page** is one machine for four pages, which differ in `Changes(kind)`
  and in how they take a refused list. A request is sent, served and answered in
  three actions. An answer changes the state of the page, `items` and `phase`, and React
  renders it later (`createRoot`, `index.js:10`): `Render` makes `shown` and `status` of it, and
  several answers may come before. The user acts on what is shown. Lists and additions
  change the state; a deletion's answer, whatever it said, filters `shown` and makes that the
  state (`Catalog.js:48-51`, `Users.js:38-41`), so that what was queued and not rendered is
  lost. A modal toggles, and goes with its row when that is rendered. Catalog may refuse an addition it stored, and
  Identity's PUT may store nothing and answer well. `spoiled` says that
  something failed, others changed the service, a list crossed another
  request, or a deletion was answered before an earlier answer was rendered, since the
  table was last loaded.
* **The purchase form** draws an idempotency id when the user confirms, and sends
  it up to three times; each try builds its body anew from the form's state. A
  chain outlives its form. A last failure enables the button again; a successful answer
  sets nothing. Trading takes the first request of an id and ignores the others while it
  runs; `TradingRestart` makes it forget the ids, as its sagas are in memory (`Trading/Program.cs:180`).
  A request that was published may be consumed at any time and more than once (`posts` is never
  emptied). The hub pushes under the name `ReceiveStatus`
  (`Trading/SignalR/MessageHub.cs:13`) and the form listens to
  `ReceivePurchaseStatus` (`app/form/PurchaseForm.js:33`), so in this code the
  handler never runs and a push changes nothing; `method` takes both names, so that what
  the handler would do is checked too. The hub addresses whoever connected or disconnected last: any
  purchase's status may reach the form, or none.

Left out, since no property depends on it: texts, timestamps, names and
descriptions, the intervals between retries, `GetPurchaseState` (it only
reads), and the two `Console.WriteLine` fault handlers.
Gil is a natural number: prices are decimals of which only sum and order matter.

External parts, modelled from how the code uses them: RabbitMQ (durable queues,
redelivery, dropping of messages no queue is bound to), MassTransit (retry,
faults, outbox, missing instances), the MongoDB user store of ASP.NET Identity.

## 3. What is checked

| Run | Instance | Shows |
|---|---|---|
| `saga` | 1 purchase, quantities 1-2, prices 1 and 3, 1 mishap or 1 restart | the saga's safety against services that answer anything, any number of times, and across a restart |
| `flow` | 1 purchase, affordable (2) or not (4 of 3 gil), 1 failed await or stop, 1 retry | consistency once quiet, termination, compensation, refinement of `PurchaseSaga` |
| `flow_contention` | 2 purchases of 1 user and 1 item, only one affordable, item known or unknown | accounting and refinement under every interleaving |
| `projections` | 3 requests about 1 item, 2 contents; or 3 changes of 1 account; 1 failure, 1 retry | a copy survives reordered, repeated and interleaved events; one undisturbed update or change repairs it |
| `token` | 2 callers, clock to 3, answers within the margin and slower | freshness, economy and progress of the token cache |
| `frontend` | 3 people of 3 roles, 2 calls of a kind; or 2 rows, 2 requests, 3 acts; or 1 purchase of 2 tries, 2 quantities and 1 restart; or 2 purchases and 1 push | session, list pages and purchase form under overlapping calls, answers, renders and retries |
| `restart` (violation) | `flow` with 1 restart | README.md:20/77 against the in-memory repository |
| `free_purchase` (violation) | 2 purchases of 1 user, 2 items | an ignored stamp conflict completes a purchase unpaid |
| `lost_grant` (violation) | 2 unaffordable purchases, 1 item | one handler's update erases another's |
| `compensation_lost` (violation) | 2 failures, 1 retry | a compensation that gives up is never repeated |
| `unconfirmed_purchase` (violation) | 1 purchase, 3 tries, 2 quantities | a retry buys what the form says by then, not what was confirmed |
| `stale_delete` (violation) | 2 rows, 2 requests, 2 acts | a deletion's answer undoes an earlier answer that is not rendered yet |

Properties:

* `CommandsUnique`, `DebitForGrantedItems`, `CompensationMirrorsGrant`,
  `OutcomeJustified`: about the history of messages and the saga's instances.
* `OutcomeStable`, `TermsFixed`: what a step may never do while Trading runs.
  The one change of an outcome the code has is Completed to Faulted on a late
  `Fault<DebitGil>`, which a debit that answered twice can cause.
* `DocsAddUp`, `GilAddsUp`: a balance is the sum of the commands recorded with
  it, through retries, redelivery and interleaving. Both are stated of purchases
  only: what administrators grant and set is in `AccountProjections`.
* `DebitsKept` holds for users thanks to the stamp; its counterpart
  `GrantsKept` fails for documents, which have none (`lost_grant`).
* `QuietConsistent`: with nothing queued about a purchase, its saga is terminal
  or absent, and items are held exactly if gil was taken.
* `AcceptedTerminates`, `CompensationArrives`: liveness.
* `ImplementsSaga`: the composed services are a refinement of `PurchaseSaga`,
  so what is proved of the saga with abstract services holds with the real ones.
  The mapping hides what only the projections are told (`PurchaseSent`).
* `UpdatesStick`: once an update was consumed, a late or repeated creation never
  brings the first content back.
* `CopyMatchesCatalog`: with every request answered and every event consumed, an
  item that was updated at most once and not deleted is the same in both, in
  whatever order the events came. Two updates consumed in the other order leave the older
  content, and events carry nothing to order them by; a request that failed may have
  stored what it never published. So the property's other half is about repair: an update that
  began when all other requests about the item were over (`UpdatedAlone`; a
  request notes in `after` which ones were, for the property alone) leaves both equal once it is consumed,
  whatever happened before it, deletions included.
* `CreatedArrives`: a published item appears in the copy, unless its events were
  given up on or it was deleted.
* `CalmCopyIsTrue`: with all quiet, the store page shows the account as it is, if
  the last change that began when all was quiet was not overlapped, refused or
  cut short. Without that condition it is false in many ways: totals overtake each
  other, a conflict or a refusal is announced as a success, a publish that
  failed is not repeated (a consumer run again finds its MessageId and skips it).
  The property says that none of it lasts: totals are not differences, so one
  undisturbed change, or for the administrator one start of Identity, repairs
  it. A deleted user remains in the copy with 0 gil.
* `TotalsArrive`: what was told is consumed or given up on, and the account known.
* `ActsAsShown`, `MenuFitsPage`: token, menu and page are of one user, though each
  is fetched separately and calls are abandoned, overlap or fail half way. With
  two tabs this does not hold, hence `foreign`.
* `ShownWasHeld`: no page shows a row the service never held. `CalmPageIsTrue`: with
  nothing in progress, all rendered and nothing amiss since it was loaded, the table equals
  the service's. A deletion answered while an earlier answer awaits its render is amiss:
  `DeletionTakesOneRow` (violated) says of that case what the code should do.
* `OnePurchaseAtATime`: a form sends one purchase at a time, unless it was told of
  a faulted one, which the hub lets happen for another's purchase.
* `ConfirmedBuysOnce`: however POSTs are repeated, late or lost, one run of Trading
  accepts one confirmation at most once. The user may still be told that it failed. After a
  restart between two tries, or before a redelivery, the next run accepts it again.
* `AcceptedAsConfirmed` (violated): the quantity accepted is the one confirmed.
* `AuthEnds`: nothing stays at "Processing" unless the user navigates for ever: the page is
  left, or the app is gone because the failure was rendered.
* `LoadingEnds`: nothing stays at "Loading...". The inventory page of a user who
  is not signed in does; `ListPage` assumes a signed-in user.
* `SendingEnds`: a purchase is sent until its POST is answered or its last try failed, and in
  the second case the form that began it, if it is still there, can be used again. It says
  nothing of a form whose POST was answered: that one waits for good.
* `TokenFresh`: a token returned had not expired when the call began, or by less than its
  answer was slower than the margin (`Overdue`; nothing for an answer within it). What the
  property rules out is a token paired with another's expiry. Stated
  where `weak` is false: if a thread may see the new expiry first, the first
  check can hand out the old token, a hazard listed in `PROJECT.json` that no property covers.
* `NoNeedlessFetch`, `CallsEnd`: the point of the second check, and of `finally`.

### Bounds

`MaxMishaps` (lost acknowledgements and outbox deliveries of Trading),
`MaxRestarts`, `MaxFailures` (failed awaits and stops of the services) bound
what the environment does; `InventoryRetries` and `DebitRetries` are 1 where
the code has 3 (Identity) or the configured number (Inventory): one retry
already separates a failure that is retried from one that is not, and the
`compensation_lost` run fails as often as there are attempts. One purchase is
enough for the saga module, whose instances share only the price projection;
two are needed where documents or users are shared, which `flow_contention`
and the violation runs do. POST may be repeated at any time with any item and
quantity; a price may change at any time. `net` is a set, so copies of one
message count once; redelivery is a message that stays queued after it was
handled.

Which retry count applies in production cannot be read off the code alone:
`Play.Common/MassTransit/Extensions.cs:46` registers the retry filter after
`ConfigureEndpoints` (line 39). The counts are constants; 0 stands for a
filter that is not applied, and then one failure is enough for what
`compensation_lost` shows, and `QuietConsistent` would not hold in `flow`.

`projections`: items do not interact, so one is enough; three requests allow a
creation, two updates or a deletion, and a request concurrent with them; two
contents tell a stale copy from a fresh one. Three changes (`MaxChanges`) allow a
first one, two that overlap, or one undisturbed change after them; `MaxFaults` is
1 with `Attempts` 1, so a change or a stop may fail at any await and a total may be tried
again; that a total is given up on takes a double insertion and a fault.

`frontend`: three roles see three menus; `MaxCalls` 2 lets a call overlap one of its kind;
two rows and two requests (`MaxRequests`) suffice for any two of list, addition, edit,
deletion and grant to cross, also before a render; `MaxActs` 3 bounds what the user and others do
after the first list. `stale_delete` needs two deletions and one content.

`Tries` is 2 (one repetition) there and 3, as in the code, in `unconfirmed_purchase`.
`Focuses` says what a run's behaviours are about. Those of the form are about one purchase, while
the quantity changes and Trading may restart (`MaxRestarts` 1, so that a retry or a late
delivery meets a Trading that forgot), or about two (`MaxPurchases`), so that a chain of a closed form
meets a new one, and a status (`MaxPushes` 1). All at once have too many states for a run; the
theorems cover them together. `unconfirmed_purchase` and `stale_delete` take one focus each.

`token`: margin and fallback are 1 and 2 units, and lifetimes 0 (no `expires_in`) and 2. A
token of 2 whose answer takes 1 is given up when it ends, and one unit late if the margin were
forgotten; one whose answer takes 2, a unit more than the margin, is kept for a unit beyond its end. The
clock runs to 3, so that it is returned then and another fetched.

### Fairness

`FlowFairness` is weak fairness, per purchase and message type, of Trading
handling a queued event, of a service beginning a queued command, and of a task
taking its next step: RabbitMQ delivers what is queued to a connected consumer
and an await ends, by returning or by throwing. Clients, price changes,
failures, restarts and stops are not fair. A step that can fail or succeed may do
either; failures are bounded, so a retried step succeeds in the end.

`CatalogFairness` and `AccountFairness` are the same for the consumers of a
projection, for the catalog per item and event type; a request or change may be
abandoned at any await. `SessionFairness`, `PagesFairness` and `FormFairness` say that
an await on the network ends, by an answer or an error, that a timer fires, and that React
renders what is queued.
The user, Identity's own pages, other tabs, other users' changes and the hub's
pushes are not fair. `TokenFairness` is weak
fairness of each caller's next step, since an HTTP request ends by answer or by
`HttpClient`'s timeout, and strong fairness of `Acquire`, since `SemaphoreSlim`
lets waiting calls in in turn.

## 4. What is proved

`PurchaseSagaProofs` proves for any purchases, users, items, quantities,
prices and bounds, from `PurchaseAssumption` (quantities are positive, prices
natural) and `TradingAssumption` (the bounds are natural):

* `TypeIsCorrect`, `CommandsAreUnique`, `DebitsAreForGrantedItems`,
  `CompensationsMirrorGrants`, `OutcomesAreJustified` (invariants);
* `TermsAreFixed`, `OutcomesAreStable` (action properties).

None of the properties about the history is inductive. The invariant `SInv`
adds what relates history and instances: queued replies were sent
(`QueuedWereSent`); commands carry a run no later than the present one
(`RunsBounded`); the commands of the present run are among those its state
allows (`IssuedInState`, with `SentIn`) and on the instance's terms
(`IssuedMatch`); an instance's total is a price times its quantity
(`InstancesPriced`); and `ItemsGranted` had its report (`GrantWasReported`).

The argument has two halves. Each action that is not a restart has a *shape*:
it adds at most one command, of a type the old state could not have sent and
the new one can, on the instance's terms, with its cause queued (one lemma per
action: `AcceptShape`, `DebitShape`, ...). The shape preserves each part of the
invariant (`ShapeKeeps...`). A restart (`RestartKeepsInvariant`) begins a run
that has sent nothing. The type invariant includes that the history is finite,
since sequence numbers are cardinalities.

`PurchaseFlowProofs` proves of the three services together, for any purchases, users,
items, quantities, prices, retries, failures, restarts and mishaps, from the assumptions of
the modules it composes:

* `FlowTypeIsCorrect` (`FlowTypeOK`), `DocumentsAddUp` (`DocsAddUp`), `UsersAddUp` (`GilAddsUp`);
* `DebitsAreKept` (`DebitsKept`, an action property);
* `FlowImplementsSaga` (`ImplementsSaga`), and with it the saga's invariants for the real
  services: `FlowCommandsAreUnique`, `FlowDebitsAreForGrantedItems`,
  `FlowCompensationsMirrorGrants`, `FlowOutcomesAreJustified`.

*Sums.* `MapThenSumSet` is a fold that chooses an element and recurs, so what it returns has to
be proved by induction over finite sets without the induction theorems. A function on the
subsets that adds the effect of any element, whichever comes last (`Additive`), solves the
fold's equation; if a set had none, one of its smallest subsets without one would
(`SmallestSubset`, a minimal element of a well-founded relation), and `AdditiveExtends` gives that
one a function all the same; and the equation has one solution (`RecursIsUnique`). Hence
`SumOfOneMore`: a command that was not recorded yet adds its effect and nothing else.

*The invariant* is `FlowInv`: the saga's `SInv` through the mapping, and `ServiceInv`. A queued
message has at most one task (`OneTask`). Documents and users, and the copies that tasks are
about to store, account for the commands they record, which were sent (`GoodDocs`, `GoodUsers`,
`GoodTasks`). And a user about to be stored is older than the stored one, or is the stored one
and this debit (`Current`): that is the stamp argument behind `DebitsKept`. Documents have no
such part, hence `GrantsKept` is not among these theorems: what an overlapping handler
stores adds up, but to something else. Every step of a task becomes one of a few shapes (`Becomes`), so
that each part is shown once for all of them (`BecomesKeeps`).

*The refinement* is proved step by step: what Trading does is the same action of
`PurchaseSaga` on the mapped history (`TradingMaps`, one lemma per operator it is built
from), what a task does is a service's step or a stutter (`ServesMaps`, `TaskStep`), and
`FlowStep` puts them together. The proof corrected the saga module: when the last of two publishes
made together fails, its success and the fault leave in one step, which
`ServiceStep` did not allow and the runs, with one failure, did not meet.

*Consistency* is proved under a hypothesis, `Sheltered`: Trading neither restarts nor loses an
outbox, no more awaits fail than are retried, every item is known to Inventory from the start, and
no user has two purchases. Under it hold `CompletedPurchasesAreSettled` (`CompletedIsSettled`),
`QuietIsConsistent` (`QuietConsistent`) and `ShelteredGrantsAreKept` (`GrantsKept`), for any number of
purchases, items, prices and quantities. The `flow` run's constants satisfy `Sheltered`; four of the
violated runs each drop one part of it: `restart` drops the first, `compensation_lost` has more failures than
retries, `free_purchase` and `lost_grant` two purchases of a user. An outbox that is lost leaves the saga
waiting; an item that is learnt late uses up retries that a failure may need. The theorem says that
there is nothing else. Its invariant is `LoneInv`, beside `FlowInv`: a task about to store
stores over what it read, one about to publish has stored, one about to be acknowledged has
answered (`Fits`); answers are true of documents and users (`AnswersTrue`); while the saga
waits, its command or the answer is queued (`Awaited`); a debit that is recorded could be
paid from the initial gil, and one that was refused could not (`DebitsAffordable`, `RefusalTrue`), so
that no debit is both; each key has one document, granted first (`SingleDocs`); and
no task has failed more often than there were failures (`Budgeted`), which is why none gives up
but a debit for lack of gil.

`CatalogProjectionProofs` proves for any items, contents and numbers of
requests, retries and failures, from `CatalogAssumption` and `HostAssumption`:
`CatalogTypeIsCorrect` and `UpdatesAreKept` (`UpdatesStick`). The invariant
`CInv` adds: a task that found its document still finds it while nothing deletes
the item (`FoundStays`); for an update that was applied, the copy holds
the contents of some update (`AppliedStick`); a task's stage is one its message leads to
(`StagesFit`); and an update carries contents (`EventsDetailed`). The step that
matters is the write of a creation: its stage is `create`, so an existing
document refuses it, and the copy holds an update already.

It also proves `CopyIsRight` (`CopyMatchesCatalog`). Its
invariant `CopyInv` has a half for Catalog and one for the copy. `ApiInv`:
requests and events belong together one to one (`History`); while an item was created
and updated at most once and nothing failed, Catalog stores what its one update says, or
its creation before it (`CalmCatalog`); while an update is alone, everything else about
the item is over and no other event is queued (`AloneCatalog`). Then, of the copy: the one
delivery of a lone update finds what it needs and leaves what the update says (`AloneCopy`);
where nothing is deleted an applied event leaves a document (`CopyKept`), and a
document says what some event said (`CopyTold`). A request's step is shown to leave all
other items alone first (`StepAbout`, `OwnItem`), so that only its own item remains.

`TokenProviderProofs` proves for any callers, lifetimes and times:
`TokenTypeIsCorrect`, which includes that the semaphore's holder is the one call
inside it; `NoFetchIsNeedless`, by `FetchInv`; and `TokensAreFresh`, for any delays of
answers too and without a hypothesis about them: `Overdue` says how much a slow answer costs. Its
invariant `TimeInv` says that no time lies in the future and no answer is later than its delay
(`Chronology`); that between the two stores the old expiry is over (`ExpiryOver`), which is why
the order of the stores matters; that otherwise the expiry is covered by the
cached token's lifetime and what it is overdue (`ExpiryCovered`); and what follows for a call between
its check and its return (`TakesFresh`, `ReturnsFresh`).

`AccountProjectionsProofs` proves for any amounts, balances, numbers of changes,
retries and faults, from `AccountAssumption`: `AccountTypeCorrect` and `CopyIsTrue`
(`CalmCopyIsTrue`). The invariant `AccountInv` follows a total while nothing
disturbs it: at most one change is under way, first at its service and then as
one message (`OneAtATime`); what it is about to store or tell is right
(`Right`); a consumer that creates finds no copy, and one that is done left its
total in it (`Reached`); with nothing under way, copy and account agree, or neither
exists and nothing was told (`Agreed`). `OneTask` (no two deliveries of
one message) makes the task of the one message the only one.

`BrowserSessionProofs` proves for any people, roles and number of calls, from
`SessionAssumption`: `SessionTypeCorrect`, `TokenOfUserShown` (`ActsAsShown`) and
`GuardedMenu` (`MenuFitsPage`). `SessionInv` adds `MenuOfCached`: inside the app the
document has cached nobody or the user of the menu. The cached user comes before
the stored one, so without it a request could carry another's token.

`ListPageProofs` proves for any items, contents and number of requests, from
`PagesAssumption`: `PagesTypeCorrect`, `NothingInvented` (`ShownWasHeld`) and
`CalmPagesAreTrue` (`CalmPageIsTrue`). `PagesInv`
adds that the answers on their way carry rows the service held
(`AnswersWereHeld`), and that a form belongs to what its page offers (`Offered`). A page that
is quiet is right because of what holds while it is not, `CalmInv`: the rows of the state (`items`,
which the next render shows) and the rows held differ exactly by the changes in progress
(`DiffersByChanges`). A row of the state that is not held is being edited or deleted, a row held
and not in the state is being edited or deleted or was added and not answered yet, and the rows of
additions are held, apart from each other and from those of the state. A deletion's answer
filters what was rendered: if that is the state, the deleted row goes and the rest stays, and if it is
not, the page is spoiled from then on, in the property and in the code. A
render changes neither side (`CalmRender`). All that needs that a list in progress crosses nothing and is of the page's heading
(`ListsAlone`), that a deleted id never comes back and an edit names a row the service had, and
that the toggles of answers find their modals (`Named`).

`PurchaseFormProofs` proves for any quantities, tries, purchases and pushes, from
`FormAssumption`: `FormTypeCorrect`, `OneAtATime` (`OnePurchaseAtATime`) and `BoughtOnce`
(`ConfirmedBuysOnce`). `FormInv` adds that, unless a status told it of a fault, the open form has at most one
purchase of its own in progress, and a form that is gone none (`OneOfMine`); and that all requests of
a purchase carry the id drawn when it was confirmed, of which a run of Trading accepts one
(`IdsFixed`); `BoughtOnce` holds for any number of restarts, of each run by itself.

Every invariant and every action property that a passing run checks is proved, and the
refinement. Only model-checked: liveness (`AcceptedTerminates`, `CompensationArrives`,
`CreatedArrives`, `TotalsArrive`, `CallsEnd`, `AuthEnds`, `LoadingEnds`, `SendingEnds`), which is out
of reach of the prover, as is what depends on fairness. `AccountTypeCorrect`, the type invariant
of the accounts, is proved and no run checks it.

## 5. Plan

What is modelled is every part of the program that runs. What remains is to say more
about it:

1. Theorems: the liveness properties rest on safety that could be proved and is not stated:
   that a queued command's handler has a step to take, and that a measure of
   what is in progress goes down with each. Weaker hypotheses for `QuietIsConsistent`: two
   purchases of one user that never overlap, items that are learnt before they are bought.
2. Larger faults in `flow`: as many failures as attempts on a publish, where
   `QuietConsistent` fails for other reasons than in `compensation_lost` (two hazards in
   `PROJECT.json` say how).
3. If the start-up synchronisation is switched on again: its services concurrent with
   events, and retry, breaker and timeout of the HTTP clients.

Abstract specifications worth stating: a purchase outcome decided once
(refined by the saga while Trading runs), eventual equality for projections, a
token cell for the provider.

## 6. Not modelled

Parts, first, and then details of the parts that are modelled.

The start-up synchronisation (`Trading/Services/`, `Inventory/Services/`), the HTTP
clients it uses and their Polly policies: the services are registered, but the calls are
commented out (`Trading/Program.cs:127`, `Inventory/Program.cs:87`), so nothing
runs them. The token provider, which only these clients call, is modelled as the part
of the common library it is.

IdentityServer's configuration, authorization policies, health checks,
telemetry, Docker files and settings: declarations with no state or order of
their own. Identity's Razor pages are the library's, but for what registration
stores and publishes. Of the frontend: `SilentRenew`, which no route reaches,
`Footer` and `reportWebVitals`, which keep no state, and what the pages look like.
Expired tokens, which nothing renews: a request with one is refused like any other.
`PROJECT.json` lists every part with its status.

What the modules leave out of the handlers they model:

* `BrowserSession`: a document that the browser brings back from its back/forward cache
  keeps its cached user and menu; `Visit` always loads it anew.
* `TokenProvider`: the unlocked check reads token and expiry in one step; the second
  read of the token, which it returns, is a step of its own (`TakeCached`).
* `PurchaseSaga`: a failing read of the catalog copy for an item that is known
  (`CalculatePurchaseTotalActivity.cs:29`) is retried and may end in `Fault<PurchaseRequested>`;
  only the unknown item does so here. The push of a status does not throw; in the code a throw
  makes the message be retried after the transition. Nor is the error text of an instance modelled.
* `ConsumerHost`: on a lost channel the handler that runs is ended, where the code's would go
  on beside the redelivery of its message. That its message is redelivered is modelled.
* `PurchaseBus`: an idempotency id belongs to one user (`UserOf`);
  `PurchaseController.cs:51-58` would let two users post the same.
* `AccountProjections`: the first grant has a positive quantity
  (`Inventory/Controllers/ItemsController.cs:115-124` takes any), and only the changes modelled
  write the user's stamp, not logins or password pages.
* `PurchaseForm`: a message that Trading published stays available for ever, which
  includes every redelivery and more.
