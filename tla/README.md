# Ecampus-go: TLA+ models and proofs

Ecampus-go is the backend of a campus application: a Go monolith (it can also be
started as one process per domain, see `src/cmd`) over MySQL (GORM, InnoDB),
MongoDB, Redis, RabbitMQ, WebSocket hubs, an object store and a gRPC agent, with a
Jenkins and GitOps pipeline that delivers it. This directory models its domains in
TLA+, checks small instances with TLC and proves the results that matter most for
every instance with TLAPS.

`PROJECT.json` lists the parts with their sources, the lines every definition
models, the runs, the hazards with the line where each bites, and the theorems.

## The system and its modules

| Part | Modules | What makes it hard |
|---|---|---|
| `marketplace` | `Marketplace`, `Escrow` (what it promises) | services that span several transactions and gateway calls, late and repeated callbacks, the minute job against users, a crash between gateway and table |
| `reservation` | `Reservation`, `Closures` (with the slots a closure overtook) | counters beside rows, closures racing bookings and the generation of slots, snapshot reads |
| `moderation` | `Moderation` | two administrators deciding at once, a cache filled from a stale read |
| `mq`, `notification` | `MessageQueue`, `Notifications`, composed in `NotificationPipeline` | redelivery, deduplication keys, a crash between handler and acknowledgement, read marks beside new notifications |
| `agentchat` | `AgentChat` | counters with a time to live in place of locks, a turn against a deletion |
| `chat` | `Chat` | two databases, several connections of one user |
| `academic`, `file` | `Files`, extended by `Academic` | reference counts without transactions, merges on a snapshot |
| `topic`, `comment` | `Topics`, extended by `Comments` | counters beside arrays, checks and clean-ups that arrive late or twice |
| `user`, `school`, tokens | `Accounts`, `AdminSessions`, `Terms` | check-then-insert, token reuse, lock-out counters, copies of a profile |
| `sensitive`, `theme` | `Sensitive`, `Terms` | filters rebuilt while the table changes; matching and masking |
| `ciimpact`, delivery | `Impact`, extended by `Delivery` | queued builds, failing steps, a cluster that follows later |

Domains meet in a few places: moderation hides targets of other domains and
restricts what users may do; every domain sends notifications after its own
transaction; `topic` and `comment` hand work to `mq`; `academic` releases
references of `file`; accounts spread nicknames to topics and comments.

The `MC...` modules are the instances for TLC, the `...Proofs` modules hold the
theorems.

## How code becomes state and steps

- A table or collection is a function from identifiers to rows; a row that does not
  exist has a value of its own (`None`, `Nothing`, `Absent`). Unique keys of the
  schema are the domains of these functions. Generated identifiers are fresh; what
  an identifier will stand for (the buyer and the item of an order, the queue and the
  receiver of a message) is a constant, which loses nothing and keeps rows small.
- A transaction that locks what it decides on is one step: transactions on the same
  rows are serialised. Where it reads through a snapshot (`CreateBooking`, the merge
  of courses, the deletion of a conversation), reading and writing are separate
  steps. A single MongoDB statement, Redis command or gateway call is a step.
- A handler that reads first, uses several transactions or calls out in between is a
  *call* held by a worker (a request goroutine, a consumer or a job), one step per
  statement. Restarts drop the calls of a process and keep the stores. A step that
  may fail has an action for its failure, limited by a `Max...Faults` constant where
  it would repeat without end.
- Time is a bounded counter, a set of instants, or a timer that counts down.
- *Ghost* variables remember what the code does not: `crossed`, `raced`, `met`,
  `late`, `exposed`, `cut`, `drifted`, `leaked`, `disturbed` and the like name the
  very rows for which two requests overlapped, or a statement failed, where the code
  has no defence. Properties exempt exactly these rows, so they say how far the
  code's own protection reaches; no guard of a component's action depends on them.
  Where the harm can be measured it is bounded instead: counts of comments are off by
  at most the `slips` of their row, a notification comes at most as often as its message
  (`times`), wrong passwords exceed the limit by at most the requests that overlapped
  and the commands that failed, a name changes at most once per overlapping request.

### Marketplace

Payments are keyed by request id; refunds, disputes and settlements by order. Calls:

- `UpdateItem` reads, `WriteItem` writes (with the status read before);
- `StartPayment`, `CreateOrFindPayment`, `GatewayCreatePayment`,
  `AttachPaymentTransaction`;
- `DecideRefund`, `GatewayRefund`, `RecordRefund`;
- `ResolveDispute`, `GatewayDisputeRefund`, `RecordResolution`;
- `ConfirmReceived`, `AutoCompleteOrder` or `RetrySettlement`, then
  `FindSettlement`, `GatewaySettle` or `GatewaySettleFails`, `UpdateSettlement`.

The gateway is the three sets `opened`, `refunded`, `settled` of what it has carried
out; its identifiers are functions of the request id, so a repeated request adds
nothing. Every gateway call may fail. Callbacks arrive for any opened request, at any
time and any number of times. The clock is read in the transaction's own step, except
in `StartPayment`, which keeps the time it read.

`Escrow` is the abstract specification: where the money of an order is in the books, what
the gateway has paid out, and which claims were turned down. Books and gateway move on
their own, in the only order that keeps the money in one place: the seller is paid once
the money is released, it counts as returned once the buyer was paid, and it is released
only if no claim that stands was paid. What the marketplace does not prevent is part of
`Escrow` as well: an administrator can turn down a claim that the gateway has already
paid, or have one paid that was turned down (`DecideRefund` calls the gateway before the
row refuses the decision), and only such an order can pay out twice.

### Reservation and Moderation

`AvailableSlots`, `HasClosure` (slot by slot) and `EnsureSlots` generate the slots of
a day; `BeginBooking` takes the snapshot that `CreateBooking` counts in, after the
locks. Cancellation, check-in, closures and the no-show job are single steps.
`DecideReport`, `RevokePunishment`, `DecideAppeal` and the filling of the capability
cache read first and act later, each held by a handler that may be lost.

### Message queue and notifications

Every process runs one goroutine per queue it serves; `jobs[p][q]` is the delivery it
works on, step by step: look for the deduplication key, set it, try the handler up to
`MaxTries` times, acknowledge or reject, record dead letters. A process whose
connection is lost finishes the delivery it is in while the broker hands it out again.
The notification handler inserts a document (a duplicate key counts as success) and
publishes it to the sessions of every server; domains also notify directly.

### AgentChat, Chat

A turn is rate-limited, takes the counters of its user and its conversation, saves,
calls the agent, saves again and releases; every Redis command can fail, with or without
its effect, and counters have a time to live: an increment whose answer is lost is never
counted back. Chat keeps members in MySQL, messages in MongoDB, and one registered
connection per user; a deletion reads a snapshot and deletes present rows. A member may
write to themselves, and the last member's own message can meet their deletion.

### The other modules

`Files` takes and releases references statement by statement, each of which can fail
without its effect or lose its answer; `Academic` adds courses, merges, reviews (looked
up, then written by identifier) and materials.

`Topics` and `Comments` include the consumers that check, count, notify and clean up. A
delivery of a comment can stop at any statement and start again up to three times, or
come again after it was done; several consumers work at once.

`Accounts` covers logins, identities, certification, tokens, follows, copied nicknames
and the wait between two renames of an anonymous identity; administrators may write user
rows as they like (`NewUsers`), which the properties set apart. `AdminSessions` is the
administrator's lock-out and sessions, with Redis commands that fail or lose their answer.

`Sensitive` is the word table, the filters of the processes and the matching and masking
of a text as operators. Words are looked for in the text after `strings.ToLower` and
masked by a pattern with `(?i)`; the two fold some characters differently (U+0130), so an
occurrence that only the first finds is found and not masked. `HitsAreMasked` speaks of
what the pattern matches.

`Impact` is the selection of services from a diff, an operator over a package graph;
`Delivery` runs push, build, publication, merge, synchronisation and the release records
around it. Argo CD and GitHub are external. `SOURCE_REPO` and `GITOPS_REPO_URL` default
to the same repository (`ecampus.Jenkinsfile:606`, `:619`), so every merge of the
pipeline is a push to the main branch it builds from: it moves the head under the other
branches of the stage, and its webhook may ask for another build, which is a full one
because no Go package has the file (`evaluate.go:69`). Which pushes the webhook reports is set up
outside the repository; a merge asks for a build or does not.

## Runs

| Run | Instance | Question |
|---|---|---|
| `market_trade` | 1 item, 2 orders of which one is complained about, 1 request, 1 worker, clock to 2, windows of 1; fair | Two orders compete for a listing that is edited, withdrawn and hidden: `SoldOnce`, refinement of `Escrow` (`ImplementsEscrow`), `ReservationsEnd`, `DeliveredIsSettled` |
| `market_concurrent` | 1 order, 2 requests, 2 workers, clock to 1, symmetric | Overlapping payments, decisions and settlements: `PaidOnce`, `SettlementsMatchOrders`, `PayoutsAgree` |
| `venues_reports` | 1 venue, 2 courts, 2 users, 3 bookings, 2 workers; 1 report, 2 administrators, 2 handlers; fair | `NeverOversold`, `ClosuresHold`, `NoShowsAreMarked`; `HiddenUnderReview`, `EventuallyEnforced` |
| `notify` | 1 message, 2 processes, 3 accounts (one alternate), 2 sessions, 3 tries; fair | `TwiceOnlyIfExposed`, `NoSilentLoss`, `PushedOnce`, `QueuesDrain` |
| `campus` | 2 turns on 1 conversation; 2 users on 3 connections, 3 messages; 2 courses, 2 reviewers, 3 review rows, 2 materials, 1 content; 1 fault each, 2 in the chat | agent: `ConversationLock`, `DriftNeedsALostRelease`, `DeletedStaysDeleted`; chat: `LatestConnectionIsRegistered`, `MessagesAreReachable`, `LeftoversNeedARace`; library: `FilesAgree`, `MergesAgree`, `MaterialsAgree` |
| `posts` | 3 users (one an alternate identity), 2 topics, 2 comments, 2 calls, 1 fault | `TextsAgree`, `MarksAgree`, `CommentsAgree`, `DeletionHolds` |
| `accounts` | up to 3 users and 3 token pairs, 2 calls, 2 processes, a year of 3 ticks | `AccountsAgree`, `TokensAgree`; `LoginsAreLimited`, `SessionsEnd`; `WordsAgree`, `HitsAreMasked`; `TermsAgree` |
| `delivery` | 2 services, 4 packages, 2 pushes, 1 build by hand, 2 merges that ask for a build, 1 fault; fair | `ReleasesAgree`, `NeverBackwards`, `BuildsEnd`; every diff of up to two lines: `ImpactAgrees` |
| `market_stale_edit` | 1 order, 1 worker | violation of `ReservedHasOrder` |
| `reservation_race` | 1 user, 2 workers, 2 courts | violation of `PersonalLimits` |
| `moderation_appeal_race` | 1 report, 2 handlers | violation of `RejectedAppealStands` |
| `delivery_stable` | as `delivery` | violation of `HealthyIsStable` |

A run that covers several components gives each behaviour a `part`, fixed in the
initial state: the components share no state, so their state spaces add up instead of
multiplying. A part also orders interchangeable workers and leaves out combinations
of faults that another part covers; the comments of the `MC` module say which.

Where a cfg says `CHECK_DEADLOCK FALSE` (`campus`, `posts`, `accounts`, `delivery`)
behaviours end because a bound is reached: every message is sent, every version
written, every push made.

### What the four violations show

- `market_stale_edit`: an edit that read the listing while it was reserved writes that
  status back after the order was cancelled (`marketplace/service.go:142`); the listing
  stays `reserved` with no order, and no operation frees it.
- `reservation_race`: `CreateBooking` counts in the snapshot its first `SELECT` took,
  before it waited for the day lock (`reservation/repository.go:149`, `:180`), so of two
  bookings of one user at the same time neither sees the other and the daily limit or the
  overlap rule is missed.
- `moderation_appeal_race`: the second of two concurrent decisions changes no row of the
  appeal, and still revokes the punishment (`moderation/repository.go:229`).
- `delivery_stable`: `wait-for-release.sh:245` expands `FIXTURE_MODE` under `set -u`, and
  the pipeline does not set it: healthy releases are recorded as failed. The model
  starts with the variable unset or empty; `delivery` checks the rest, its `failing` part
  in both cases.

### Bounds

Two orders are enough for competition over a listing, since the properties of an item
relate at most two orders; two requests and two workers for competition over one
order. A clock of 2 with windows of 1 puts an order before, at and after every
deadline of another; with one order a clock of 1 reaches its deadlines. Price 999 at 500 basis points makes the commission round (49.95)
and keeps it non-zero. Instants 0, 480, 600 and 660 lie before the cancellation limit,
between it and the slot, in the slot and after it. Two handlers are enough for a
decision between another's read and write; a cache entry and a punishment that last 2
ticks can expire in either order. Two processes let a message be delivered again
while the first still works on it; three tries are the code's own number. A guard
that lives 2 ticks outlives a turn of 1, as in the code's configuration. Three review
rows are two reviews of one user and a row that a merge meets. One fault per behaviour
reaches each place a statement can fail; for what several faults do, the ghost
variables already exempt the rows that the first one touched. Two calls are the
smallest number that race; within a part of `posts` or `accounts` any two operations
overlap. Two pushes, or a push and a build by hand, queue behind a running build and
overtake each other's merges; two builds asked for by merges (`MaxEchoes`) are the full
build that follows a merge and the one that follows its own. Texts of up to four characters hold the longest of the four
words, overlapping words, capitals, noise and invisible characters.

### Fairness

- Marketplace: the minute job has a goroutine of its own
  (`src/internal/app/ecampus/jobs.go:29`), so what stays due is done: weak fairness of
  `ExpireOrder`. In the model it shares the workers with requests, hence strong fairness
  of its calls. A call in flight takes its next step. A gateway that is asked again and
  again succeeds eventually (`SF` of `GatewaySettle`), and restarts stop; without these
  two nothing can be promised about settlements.
- Reservation: time passes and the no-show job runs. Moderation: time passes, and a
  request goroutine takes its next step or is lost.
- Notification: a consumer takes its next step, and the broker delivers to a connected
  consumer. `QueuesDrain` assumes in its own statement that connections stop breaking
  and that one process serves the queue.
- Delivery: Jenkins carries a build on, and Argo CD polls the repository. `BuildsEnd`
  says that every build ends and that a build which is asked for leads to another one; it
  does not say that the queue empties. With a webhook that reports the merges a full build
  makes merges that ask for full builds, and only the bound `MaxEchoes` ends this.

## Proofs

The theorems hold for every value of the constants that satisfies the named `ASSUME`s of
the component: any number of items, orders, slots, bookings, reports, messages,
processes, turns, workers, any prices, rates, windows, limits and times to live. TLC
evaluates the assumptions on the runs. They ask that identifiers have owners, that bounds
are natural numbers within what the request validation enforces (positive prices, rates
of 0 to 10000 basis points, at least one try), that the sets counted in are finite
(`Bookings`, `Turns`, the logins in `Requests`), that there is a theme to put in, and that
`None`, `Nil`, `Nobody` and `NoTerm` are no proper values.

Every safety theorem follows the same way: an inductive invariant holds initially, is
preserved by every action (one lemma per action or per group of actions that change the
same thing), and implies the property.

### Marketplace (`MarketplaceProofs`)

`IInv` strengthens the properties: `SoldOnce` needs to know that a listing which can
still be ordered has no uncancelled order (`OnSaleUnsold`), settlement amounts need the
arithmetic of the order row (`Amounts`), the refund and settlement properties need what a
call in flight has already had the gateway do (`Settling`, `Refunding`), what was paid
out or is being decided needs a claim that was made, and a dispute decided for the buyer
its payout (`Claiming`), payments need that rows and calls quote the price of an order
that exists (`Paying`), and the order machine needs that an undelivered order has no
delivery date (`Dated`).

- `CommissionFeeIsExact`: the commission on quotient and remainder equals
  `price * rate \div 10000` and lies between 0 and the price.
- `Invariance`, `TypeCorrect`; `NeverSoldTwice`, `ReservationsAgree`, `NeverPaidTwice`,
  `Freezes`, `SettlementsMatch`, `PayoutsAgreeAlways`; the action properties
  `OrdersFollowTheMachine` and `DecisionsStand`.
- `Refinement`: `Spec => ImplementsEscrow`, a step of the marketplace is a step of
  `Escrow` or changes nothing there. The mapping takes the books from the order rows and
  the payouts from what the gateway has carried out, so that a payout between a decision
  and its record is a step of its own.

### Reservation (`ReservationProofs`)

`IInv` says of every slot that its counter is the number of bookings that hold a place,
that a closed slot has none waiting, and that a slot without a row has no booking; of
every call that books, that its slot exists. From it: `SlotsAreNeverOversold`,
`CountersAgree`, `BookingsFollowTheMachine`, `ClosedSlotsStayClosed`.
`SlotsAreWithinHours` has an invariant of its own (`Hours`): rules stay within a day and
are never removed, and the slots a call is about to insert lie within the rule they were
computed from, whatever the slot length: the last one does not run past closing time.
`ClosuresAreKept` proves `ClosuresHold` of `Closures`, the reservations with the history
`missed`. Its invariant `Held` knows that slots in the table, and those a listing is about
to insert, are of resources that exist, and that a slot a listing found open
and that a closure concerns by now is in `missed`: the closure came after the query.

### Administration (`AdministrationProofs`, `AdminSessionsProofs`)

*Moderation.* `ModerationInv` adds to the properties that a report has an assignee exactly
from its claim on, that a call which decides has a claimed report, and one which revokes
or answers an appeal a punishment that exists. `ReportsAreReviewedOnce`,
`HidingNeedsReview`, `RevocationsHaveRows`, `ReportsFollowTheMachine`.

*Terms and themes.* `TermsAgreeAlways` proves `TermsAgree`. `TermsInv` says what each
request has found out and still relies on unless it was overtaken (`Holds`: the term it is
about to delete is not the current one, the one it is about to make current exists, the one
it is about to add does not), and that two requests in each other's way are on record
(`Apart`). Without `Apart` the write of one request could break what the other relies on.

*Administrators' sessions* (`AdminSessionsProofs`). `AdminSessionsEnd` proves `SessionsEnd`. `SessionsInv` says that a
request is a login or carries the session of the pair it refreshes (`RequestOK`), that a
session which ended while a refresh was let in is on record, and that a refresh token is
spent by one request at a time (`SpentOnce`): who found it unused is alone, has no
successor yet, and the token is still unused until that request has written it.
`AdminLoginsAreLimited` proves `LoginsAreLimited`. `GuessesCounted` is its core: the
failures never exceed the counter; up to the lock, those beyond the limit each belong to
a request that is about to lock the account; after it, failures and requests that may yet
fail stay within the bound together. The step that locks adds up the two sets of
requests, which are disjoint. A command that fails or whose answer is lost adds one to
the bound (`broken`), and a counter it leaves without a time to live is on record (`stuck`).

### Message queue and notifications (`NotificationPipelineProofs`)

`PipelineInv` has four parts. `TypeOK`. `QueueInv` relates every job to its message
(`JobOK`: a live delivery is held by its process; who acknowledges has handled or
recorded; who publishes has stored) and every message to its keys (`MessageOK`: until a
message is exposed its key stays once its handler has begun; a key that is there has
someone who cares for the message, or the message has moved on to the dead letters).
`StoredOnce`. `PushInv`: what waits to be published is nowhere on its way, and what is on
its way to a session was not received there.

The first part shows how one step of a consumer changes its job and its message; the
second adds the documents, the channels and the sessions, and draws the conclusions:
`BegunOnce`, `NoMessageLost`, `DocumentsPushedOnce`, `HandledStored`, `EventsStoredOnce`
and the action property `MarkReadExact`.

### AgentChat (`AgentChatProofs`)

`AgentInv`: a counter that never expired in use counts at least the turns that hold its
guard and the refused ones that will still count back (`Counted`); the rate counts at least
what it let pass and what will be counted back (`Rated`); nobody is about to save a
conversation that was deleted undisturbed (`Deleted`). From it: `AgentConversationLock`,
`AgentCountersExpire`, `AgentRateBound`, `AgentDeletedStaysDeleted`, `AgentSessionsCount`,
`AgentTypeCorrect`.

`AgentDriftNeedsALostRelease` has an invariant of its own (`OneTurn`). Where a conversation
takes one turn at a time and no release of it was lost or never made, its counter is
exactly the number of turns that hold it or will count back, and it lives longer than the turn that holds it
can still take.

### Chat (`ChatProofs`)

`ConnectionsAreRegistered` (`LatestConnectionIsRegistered`) rests on `OwnConnections`: what is
registered for a user is a connection of theirs, so the handler of another user's connection
never removes it.

`LeftoversAreExplained` (`LeftoversNeedARace`) rests on `Kept`, conversation by conversation.
Unless a deletion met a message or a statement failed (`Doomed`), members and messages have
a conversation, sender and receiver of a message on its way are members, and who deletes
alone has emptied what stays empty but for a message to oneself that waits for the rows
(`Clean`, `Empty`). Unless two deletions overlapped, who sees
nobody else is the last member (`Raced`).

### Delivery (`DeliveryProofs`)

`DeliveryInv` follows a release through the pipeline, for any number of pushes, builds by
hand and merges that ask for builds: commits are in order (`stable`, cluster,
values, the build; `InOrder`), what the build merged is in the values and, once found, in the
cluster (`Merged`), the revision a release waits for is the head unless it was overtaken
(`Followed`, `Reasoned`), and a push that changes a service is queued, in the build, or
settled (`Accounted`); a merge changes values and no code (`ValuesAreNoCode`). It gives `DeliveryReleasesAgree` (`ReleasesAgree`) and the
action property `DeliveryNeverBackwards` (`NeverBackwards`). `Accounted` needs the lemma `ImpactSelects`:
`EvaluateDiff` selects every service whose code a diff changes, whatever else is in the diff.

### What is only model-checked

- Liveness: `ReservationsEnd`, `DeliveredIsSettled`, `NoShowsAreMarked`,
  `EventuallyEnforced`, `QueuesDrain`, `BuildsEnd`. The prover does not reason about
  fairness.
- `MessagesAreReachable` adds up unread counts over conversations and scrolls back page by
  page: it would need induction over finite sets.
- The properties of `Files`, `Academic`, `Topics`, `Comments` and `Accounts`. Most of them
  compare a counter with the sum of what it counts, over statements that fail one by one.
- `Sensitive` masks by recursion: what it computes for every input would need induction over
  data. `ImpactAgrees` also compares two diffs and the closure over imports; its half that
  deliveries depend on is `ImpactSelects`. TLC compares `HitsAreMasked` and `ImpactAgrees`,
  which say what must come out, with the result for all short inputs.
- The four violated properties, of course, have no proof.

## Not modelled

Texts, images, page queries, the order of search results, logging, metrics and output
formats; the signing of tokens; the bytes and URLs of objects; the agent's wire format and
the other generated code; reading pages of the school's systems; the service catalog, the
clients of WeChat and of the object store (their answers are nondeterministic in the
modules that use them), routes and construction of services; the `git revert` by hand that
`k3s/README.md` describes for going back to an earlier release. Capability checks inside the
marketplace and reservations only refuse calls and are left out there. Lock waits inside a
transaction, and MySQL aborting one of two deadlocked transactions, are steps that do not
happen.
