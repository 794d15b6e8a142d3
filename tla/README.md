# ProtoLive: a verification development

TLA+ models, model-checking configurations and TLAPS proofs for ProtoLive, a
market of early products: makers register projects, investors and other members
react to them, admins look after both. The models are translated from the code
(`apps/api`, a NestJS server, and `apps/web`, its React client); `PROJECT.json`
maps every definition to the lines it stands for.

## 1. Inventory

| Component | State it keeps | Operations | What is hard |
|---|---|---|---|
| **Write-behind drivers** (`projects/store/postgres-projects-store.ts`, `community/community.store.ts`) | the last saved state not yet drained, a debounce timer, a promise chain, nine tables in Postgres | `load`, `save`, `drain`, `persist` (one transaction replaces everything), `flush` | coalescing, failing and ambiguous transactions, crashes; a waiting state shares the arrays the service goes on changing but copies the counters, one array is replaced, one is read later than the others; flushing while requests go on saving |
| **Accounts, sessions, lifecycle** (`projects.service.ts`) | users, audit log; the session lives in a signed cookie only | `login`, `loginWithGoogle`, `verifySessionToken`, `updateMemberLifecycle`, `updateMemberNotes`, `createProject` | a session checked before an await and used after it, admins acting on each other, accounts created on demand by two operations |
| **Expressions of interest and consent** (`createMatchProposal`, `consent-terms.ts`, `MatchModal.tsx`, `useProtoLiveApp.ts`) | proposals, counters on projects, events, consent entries; the open dialog of each page | poll, open, tick, submit, answer, time out; the handler | a request that outlives the client's patience, terms that change while a page shows them |
| **Reviews, moderation, upvotes, notifications** (`projects.service.ts`) | reviews with reporters, audit log, upvotes, notifications | review, reply, report, moderate, upvote, refresh, feature, mark read | two ways to hide a review, counters and lists that must agree over long sequences |
| **Community** (`community/community.service.ts`) | threads, comments, images, conversations, messages, forbidden terms | see `Community` below | cascades, two parties moderating the same thing, terms that change between posts |
| **Rate limiter** (`common/rate-limit.middleware.ts`) | a map from client key to the current window | `consume`, `cleanup`, `resolveClientKey` | window boundaries, a map that is cleaned only by some requests |
| **URL probes** (`validateUrl`, `refreshProject`, `refreshAllProjects`) | `validation` of each project | probe with redirects, GET fallback, private addresses refused | probes that finish in another order than they started |
| **Web navigation** (`router/route.ts`, `useProtoLiveApp.ts`, `App.tsx`) | the browser's history, the route kept as React state, session role, filters | click handlers, two address effects, Back, Forward, deep links, reload | two owners of one fact: each handler must change the state and push the address, popstate the other way round; debounced filters and late session answers touch the address of whatever page is open by then |
| **Market list** (`projects.service.ts` `getProjectList`, `useProtoLiveApp.ts`, `MarketView.tsx`) | rows; filters, debounced search, address, stored preset, react-query's answers by query | filter, sort, search, page, star, upvote, refresh everything, reload, poll | answers to older queries, patches of the list without a query, four places that remember the filters |
| **Operators' console** (`getAdminDashboard`, `computeRevenueProjection`, `AdminDashboardView.tsx`, `revenue-config.ts`) | projects, proposals and events; revenue inputs with their timer and storage, a bundle of four answers, the queue of reported reviews | edit, choose a template, follow advice, report, moderate, poll | four requests served at different moments, inputs that the server refuses, polls beside moderations |
| **Project page and header** (`useProtoLiveApp.ts`, `ProjectDetailRoute.tsx`, `ProjectReviewWorkspace.tsx`, `NotificationBell.tsx`, `recentlyViewedStore.ts`) | page, its three slots and its row, forms, preview, rail; session, cookie, notices, badge | open, go back, write, submit, check an address, upvote, refresh, mark read, login, logout | every handler goes on after its await, whatever the screen shows by then and whoever is logged in |
| **File store and seed scripts** (`projects.store.ts`, `scripts/seed-test-data.mjs`, `scripts/seed-test-accounts.mjs`) | a JSON file, the server's copy of it, what a script has read | boot, change, write, rename, seed | a script and a server that overwrite each other, fixtures whose ids collide, crashes between write and rename |
| **Other pages** (`DiscussionHub.tsx`, `MessagesView.tsx`, `SupportView.tsx`, design system) | local lists and selection | load, post | not modelled on the client's side |
| Health, exception filter, CORS, validation pipe, SEO pages, external clients, mini app | none, or outside this repository | | stateless or pure input and output; not modelled |

How they interact. Every handler of the API is one synchronous step on the
arrays of its service, except where it awaits something real: the probe of a URL
(`createProject`, `refreshProject`, `refreshAllProjects`) and Google's answer.
After a change the service calls `persist()`, which only hands the state to the
driver; the database is written later. The community service asks the projects
service for projects, owners and sessions but persists on its own. The web client
talks to the API over HTTP with a timeout of 12 s; react-query polls the
configuration, the list or the console's bundle every 30 s, the header polls
notices and unread messages every 60 s. The limiter stands before every handler.
The seed scripts are processes of their own and meet the server in the store only.

What makes each component correct is stated as its properties, below; the hazards
that the properties are for are listed with their lines in `PROJECT.json`.

## 2. Modules and how they correspond to the code

**`WriteBehind`** models both Postgres drivers, the requests that change memory,
and the process around them. Four tables stand for the nine, because the driver
treats them differently: `users` is left a reference by `serializeState` and read two
answers of the database later than the rest, `upvotes` is replaced when one is taken
back, `projects` is named by everything, and `events` stands for the six others that
only grow. A row is its id, the change that made it, and the id of the row it names.
Arrays are objects (`arrays`, those of each table in this process), because what is
written depends on who shares them: `ProjectsService.persist()` copies the counters
into a new object that shares the arrays (`Driver = "projects"`), `CommunityService`
passes its own state object, which is turned into one text at once (`Driver =
"community"`).

`Save`, `TimerFires`/`Drain`, `Begin`/`UsersRead`, `Commit`/`Fail`/`Advance` and
`FlushBegin`/`FlushWaits` are the driver. A transaction begins by reading every array
through the references of its state (`Serialise`), the users' only at `UsersRead`;
`Fail` may or may not have committed (a connection lost at COMMIT). `flush()` awaits
the chain twice, each time the promise of that moment, while requests and sweeps go on
saving and lengthening it: `ahead` is what the present await still waits for. `Login`,
`SubmitProject`, `SubmitAgain`, `AddUpvote` push rows in one table or more (`PushRows`,
in place), `TakeBack` is the filter that makes a new array, `Resave` a request that
saves and changes no row, `SweepStep` and `SweepEnd` the sweep `refreshAllProjects`
that changes memory between awaits and saves at the end. `Stop` ends the process at
any moment, `Restart` loads what is durable.

**`DurableStore`** is the abstract specification, of a set of tables: the durable
content of each is always one that it has had since the boot, later and later ones,
and a boot resumes from it exactly. It says nothing of the moments of two tables.
`WriteBehind` instantiates it twice. `Rows` has the four tables; both drivers
implement it (`TablesSpec`). `Store` has one table, the whole state with its counters;
only the community driver implements it (`StoreSpec`), since the projects driver mixes
moments of its tables and copies its counters early. What holds of the mixtures is
`ReferencesDurable`: whatever they are, the rows name rows that are there.

**`Members`** models accounts (`users`, whose positions are the ids), tokens,
the audit log, and registrations split at their await (`CreateProjectBegin`,
`CreateProjectEnd`, `CreateProjectRefused`). `LifecycleAllowed` holds the rules of
`assertMemberLifecycleAllowed` (not oneself, not the last active admin).

**`Matching`** models the dialog of each investor's page, the wire, and the
handler. A request that timed out at the client stays on the wire. `Deploy` is a
new build with new terms. `read` is history: the version that was on the screen
when the boxes were ticked.

**`Feedback`** models reviews, replies, reports, moderation, upvotes, refreshes,
the featured flag and notifications, all of them one step each.

**`Community`** models threads, one level of replies, images with their data or
without, moderation, forbidden terms and messages. A text is the set of the words
worth forbidding that it contains. `seen` is history: which message was answered
to whom. Left out: moderation notes, names, times.

**`RateLimit`** models the middleware; **`FixedWindow`** is the abstract limiter
that never cleans up. `admitted` and `answer` are history.

**`Navigation`** models the hand-written router. `entries` and `pos` are the
browser's history, `screen` the six fields of React state that make a route
(`view`, `detailProjectId`, `makerProfileId`, `isSubmitOpen`, `discussionRoute`,
`conversationId`), `role` and `hydrating` the session as far as it decides what is
shown, `pending` the `/submit` deep link that waits for it, `typed` and `filters`
the filter before and after its debounce. A handler runs to its end, React
renders, and the effects run in the order of the hook: all of that is one action
(`Render` applies `SubmitSync` and `FilterSync` to the history the handler left).
`Shown` is the order in which `App.tsx` looks for a page, and an action is offered
only where its button is. A path is represented by the route it stands for, a
filter query by whether there is one. Left out: dialogs without an address,
focus, scrolling, titles.

**`Listing`** is what the server answers to `GET /projects`: `Matches` (the
filters), `Before` (the order), `SignalScore`, `PageOf`, `Hydrate` (the redaction of
screened addresses), `Accepted` (what the query DTO refuses), the maker's profile
and the site map. A text is the set of words a search finds in it.

**`Market`** composes it with the market's client. `f` and `typed` are the controls,
`url` and `preset` what remembers them, `cache` and `flight` are react-query's answers
and requests by query (`Key`), `list` and `meta` what the effect copied to the screen,
`sweep` the refresh of all projects under way. `Arrive` applies an answer to the query
it was asked for; `Upvote` and `SweepArrives` patch the list without a query. Before
the configuration has arrived, neither a category nor an access mode is in force
(`Normal`, `NormalAccess`), whatever the controls say. Rows change, appear and are
probed meanwhile. `applied` is history: what an earlier visit left has reached the
controls, and the controls' effect has written it.

**`Dashboard`** holds the server's figures for the operators: health, funnel, trend,
risk, rankings, distributions, advice, and the revenue projection with its levers,
benchmarks and scenarios. A match is kept three times, as a proposal, in its project's
counters and as an event, and each figure is taken from where the code takes it:
ranges from the proposals; categories, totals and the list by matches from the
counters; types and days from the events. `CountersFit` says that counters and
proposals agree, as the service writes them together and the seed script recounts
them; events need not be as many, since `fixtures/test-data.json` brings 9 proposals
and 5 match events, and no property compares them. Amounts are whole numbers of a
unit, rates tenths of a percent and answered multipliers tenths, rounded where the
code rounds. **`Panels`** is what `AdminDashboardView.tsx` draws from the answers.
**`Console`** is the console's client: `inputs` and `applied` on both sides of the 280
ms timer, `fetch` the bundle with its four `parts`, each served at its own moment,
`shown` and `queue` what the effects made of it, `handlers` the moderations under way.

**`Seeding`** has the two scripts as functions of a store and a fixture (`SeedData`,
`SeedAccounts`): normalisation, merging by id, deduplication of votes, recounting,
counters. A date is the number `at` of a row, 0 where a fixture leaves it out; the
normalisers replace that by the time of the run (`Dated`). **`FileStore`** runs them
beside the server: `file` is the store's file, `mem` the server's copy, `writing` the
moment between the temporary file and its rename, `script` what a running script has
read and will write. `acked` and `last` are history.

**`Bell`** is whoever is at the browser: `cookie` is what a request carries, `session`
what the page believes, `asked` the first question for the session, `bell`, `badge`,
`polls` and `marks` the header with its optimistic mark. `mixed` is history: two
accounts met without a logout between them (another tab). **`Detail`** extends it with
the page of a project: `waits` are the requests of its slots, `shown` what they show
and `settled` whether the newest request of each has been answered, `listed` and
`found` where its row comes from, `forms` and `posts` the review, the log entry and
the registration, `acts` what is done to a project from its page or its preview,
`viewed` the rail of projects seen lately. `strays` is history: the slots for which
something was under way for another project when the page was opened. Requests are
served at one moment, their answers come in any order, late, lost or refused; the
answer to a review names the review that this request saved, which is not the same as
the text when it was sent twice.

The `MC` modules give the constants that a `.cfg` cannot write. Operators commented
as mutants are not part of any specification: each is a plausible bug of one mapped
definition, kept to show that a property can fail.

## 3. Runs

| Run | Bounds | What it shows |
|---|---|---|
| `WB_projects` | 2 changes, any number of saves without one while the chain is empty, a first boot with no rows or one of each | `NothingForgotten` (coalescing drops no saved change), `ReferencesDurable`, the refinement `TablesSpec`, and, with fairness, `EventuallyDurable`, `FlushReturns` |
| `WB_nextid` | the same | **violated**: `NextIdAhead` for the projects driver |
| `Members` | 3 seeded accounts, 1 more e-mail, 2 tokens, 2 audit entries, 1 project | `SomeAdminActive`, `AuditExplainsStatus`, `WithdrawalIsFinal` |
| `Matching` | 1 investor, 2 projects (one screened), 2 ranges, 2 versions, 2 requests, 2 events | `TotalsMatchProposals`, `ConsentIsAudited`, `ScreenedAfterMatch` |
| `Feedback` | 1 project, 3 members, 2 reviews, 2 upvotes, 3 audit entries, 2 notices, threshold 2 | `AuditTellsStatus`, `CountsDifferentReporters`, `RepliesShownUnderRoots`, `LadderNeedsOthers` |
| `Community` | 1 project, 1 stored thread, 3 more records, 1 image, 3 members | `NoOrphans`, `CountsWhatIsShown`, `ReadMeansSeen`, `NothingForbiddenPublished` |
| `RateLimit` | 2 callers, window 2, limit 2, cleanup every 3, clock 3 to 8, up to 3 requests in a window | `RefusedOnlyWhenExhausted` and the refinement `WindowSpec` |
| `Navigation` | 1 project, 1 profile, 1 conversation, 1 public page, the dashboard, a maker and an admin, 3 history entries | `DialogHasAddress`, `ScreenFollowsAddress`, `HistoryKept` |
| `Market` | 2 rows (one screened) and a third one later, page sizes 1 and 2, one value per filter (two upper bounds), 4 stored presets (one with a category, one with an access mode only), 2 clicks, 1 probe | `MetaIsCurrent`, `PagesCoverTheRanking`, `ScreenedStaysHidden`, `ReloadRestoresFilters` |
| `Console` | 3 projects, 2 proposals of which one has its match event, 2 events, one more proposal and one more event later, 2 reported reviews, 1 template, 2 edited inputs, 2 typed values (one no number), 2 deeds, 1 change meanwhile | `ConsoleAgrees`, `ReportIsConsistent`, `ReloadRepairsTheQuery`, `QueueCatchesUp` |
| `FileStore` | 2 fixtures (colliding, missing and zero ids, rows without dates), 3 files (none, damaged, in use), 2 e-mails, 2 changes, 2 script runs | `IdsAreFresh`, `ReferencesHold`, `SeededRowsAgree`, `AckedIsDurable`, `SeedAgainIsTheSame` |
| `Detail` | 2 projects (one screened) and a missing one, a maker and an admin, 1 notice, a rail of 2, 1 text, 4 deeds, 1 accident, at most 1 request under way when the visitor goes on | `PageShowsItsOwn`, `DraftsSavedOnce`, `NoticesAreMine` |

Why the bounds are enough. A mixture needs a state that waits in the chain and two
changes after it was saved, one that replaces an array and one that changes another in
place; the waiting state is a `Resave`, which may come as often as it likes, so that
one state is in the running transaction, one in the chain and one waits for the timer,
and `flush()` may wait for a chain that never becomes idle. A chain of three differs
from one of two only in how long it takes; the proof holds for every length. Two
admins and a maker give every rule of the lifecycle its counter-player, and the extra
e-mail lets an account appear while the others change. Two requests are the one the
client gave up and its repetition. With two reviews there is a root and its reply;
with a threshold of 2 the report before the threshold differs from the one at it (the
code's threshold is 3). One stored thread and three records give two threads with a
comment each, a reply, and a term created between two posts. Five clock ticks at a
window of 2 hold more than two windows and a cleanup, and a clean-up interval longer
than the window lets a passed bucket be found by a request before it is cleaned. Three
history entries give one behind the current one, one ahead of it, and room for a push
that cuts off what lies ahead; one id of each kind suffices because no handler
compares two ids. Members and investors are offered less than makers and see the same
pages, so the roles are a maker's, an admin's and nobody's.

Three rows on pages of one give a first, a middle and a last page, and a page past
the last when a filter hides one; two clicks are a filter and its successor while the
answer to the first is still under way, the stored presets add what earlier visits
set, and the chips' single values meet in the presets. In the console the change
falls between two of the four requests, and the two deeds are an edit and a reload,
or two moderations, or an edit and a recommendation. Two scripts and two changes let
a script read before a change and write after it, run again over its own result, and
run over the other's. In the detail run four deeds are opening a page, leaving it for
another, and doing something on both; the bound on requests under way applies only
when the visitor goes on, so that two pages' answers still meet.

`Community`, `RateLimit`, `Market`, `Console`, `FileStore` and `Detail` do not check
for deadlock: every record that may be created has been created and erased, the
clock has reached its bound, or the visitor has done all that the bounds allow and
no answer is outstanding. In the other models some operation is always possible.
`Feedback` uses the symmetry of two members without any role; no liveness
property is checked there.

Fairness is assumed in `WriteBehind` alone (`Fairness`): the event loop runs an
expired timer, Postgres answers every statement with a result or an error. Requests,
sweeps, calls of `flush()`, stops and restarts are not fair. `EventuallyDurable`
allows what the code does: a transaction that fails with nothing behind it is logged,
and its changes wait for the next `save()`.

## 4. Where code and documents disagree

The run **`WB_nextid`** shows the gravest one: `persist()` copies `next…Id` when it is
called and the driver reads the arrays when the transaction starts, the users later
still. A row added in between (the sweep between its awaits, a request while another
transaction runs) becomes durable with a counter that is not ahead of it. After a
crash in that moment the id is given out again; and as ids are primary keys, every
later transaction fails. `README.md:165` of the repository promises the next ids
across restarts.

Four more are stated in the modules but are not among the runs; to see one, replace
the properties of the named `.cfg` by it:

* `WithdrawnHasNoName` (`Members.cfg`): `AdminMembersView.tsx:102` promises that a
  withdrawal removes the public name; `loginWithGoogle` writes the Google name into a
  nameless account before it asks whether the account may log in.
* `RegisteredByActive` (`Members.cfg`, a PROPERTY): `projects.controller.ts:184` says
  that a suspended account's sessions end at once; the session of `createProject` is
  checked before the probe and not after it.
* `ConsentIsToWhatWasRead` (`Matching.cfg`): `consent-terms.ts:13` says that changed
  terms force a new consent; the page's poll replaces the terms under ticked boxes
  and the submission sends the version of that moment.
* `LinkTellsTheQuery` (`Market.cfg`): the toast of "copy the link" says that the
  link carries the conditions in force; the effect that writes the address skips its
  first run, so after a start from a stored preset the chips show the preset's
  conditions and the address none, until one of them changes.

The passing run `Navigation` says where screen and address part, because
`ScreenFollowsAddress` has to name it. The submit dialog opens over any page but
its address is `/submit` and then `/`, so closing it over a profile leaves the
profile under the market's address. `goHome`, `openAbout`, `openPolicy` and
`openProjectDetailById` do not reset `discussionRoute`: the next project opened
shows its discussions under the address of its detail page. `switchView` and
`applyAdminRecommendation` push nothing: an admin who leaves a console page that
way is on the market under the console's address. Three facts are no property,
since nothing in the repository says otherwise: a left-over conversation or
discussion keeps the market from writing its filters into the link; Back to
`/submit` opens the dialog for whoever is logged in by then (the server refuses
the form); and a dialog opened over the dashboard before the session is known has
the address `/submit/admin`, which is why `DialogHasAddress` leaves it out.

What the models show without contradicting a document:

* In `WriteBehind`, what a transaction makes durable need not be a state that the
  service was ever in: upvotes of the time of `save()` beside events of the time of the
  transaction (`toggleUpvote` replaces the array, `projects.service.ts:2107`), users of a
  moment later than their projects (`postgres-projects-store.ts:146`). A restart may find
  an upvote that was taken back before the events beside it happened, or an account
  without the project it came with. What
  cannot come about is a reference to a row that is missing (`ReferencesDurable`): rows
  are pushed in place and what they name was read no earlier.
* `flush()` returns even if the chain never becomes idle, because each of its two awaits
  is for the promise of that moment (`FlushReturns`); for the same reason what requests
  save meanwhile may still be waiting when it has returned, and the process may end
  then.
* In `Detail`, the effects that fetch reviews, events and the log
  (`useProtoLiveApp.ts:412-433`) do not look at the page again when an answer comes. A
  late answer for the project that was open before takes the place of this page's own,
  also after its own newest answer has come, and stays until the next request; the
  answers to a review and to a log entry do the same. `PageShowsItsOwn` therefore speaks
  of the slots for which nothing of another project was under way when the page was
  opened (all but `strays`), and holds of those through everything done on the page.
* In `Detail`, too, a click on the notice of the page already open, and the login button
  of the page, empty the reviews and the events and ask for nothing, because the
  effect's project is the same; a page opened from the list asks for no row when its
  row leaves the list (`found` stays "none"). Both show a spinner until the visitor
  leaves. What is typed while a form is being sent is cleared when its answer comes, and
  a late answer opens the preview again.
* In `Bell`, `NoticesAreMine` has to except `mixed`: another tab that logs in
  changes the cookie under a page that still believes in the old account.
* In `Market`, whatever a visitor changes before the configuration has brought the
  categories and the access modes may be forgotten: a stored one is then in the controls
  but not yet in force. A click on "reset" changes nothing the effect depends on, nothing
  is written, and a reload brings the old preset back; a click on anything else writes
  the preset without the category and the access mode, and a reload in that moment has
  lost them. `ReloadRestoresFilters` therefore speaks of the time after what was stored
  has been applied (`applied`). That an
  open project has the address of a screened one would make the search and a profile
  reveal it, with nothing wrong in the code: `AddressesAssumption` excludes it.
  An upvote's answer puts a row at the head of a list it does not belong
  to; a refresh of everything leaves the unfiltered rows on screen until the next
  poll; the favourites filter looks at the rows of the current page only.
* In `Console`, a cleared percent field makes the server refuse the whole bundle;
  `ReloadRepairsTheQuery` shows that a reload leads out of it. "Apply all" follows
  each recommendation in turn, and each resets the filters of the one before. The
  bundle's four answers may be of four moments; `ConsoleAgrees` judges each by itself,
  as nothing in the code relates them.
* In `FileStore`, a script that runs beside the server loses the changes made
  between its read and its write, and the server's next write undoes the seeding;
  `deploy/aws/README.md:53` seeds the running container. Each side leaves a
  consistent store, which is what the properties say. A seeding may lose an upvote
  whose id another one took; the second run brings it back, which is why
  `SeedAgainIsTheSame` excepts upvotes. It excepts the dates of rows that the fixture
  leaves undated as well: the normalisers give these the time of the run
  (`seed-test-data.mjs:301` and the like), so each run rewrites
  them, where the script's comments (334-336) count on a second run that changes nothing. The
  repository's own fixtures date all their rows.

Two more facts are visible in the model but are no runs, because nothing can hold
there. `main.ts` installs no shutdown hooks, so a SIGTERM is a `Stop` like any
other, although `projects-store.ts:11` says that the rest is flushed at the end.
And `flush()` after a failed transaction finds nothing to write, although memory
is ahead of the database (`failed` in the model). A third one is about deployment:
`render.yaml` puts the API behind a proxy and leaves `RATE_LIMIT_TRUST_PROXY`
unset; then all clients share one key, and `RefusedOnlyWhenExhausted` says of that
key what a reader would like to have said of each client.

## 5. What is proved

All theorems hold for every value of the constants that satisfies the named
assumptions of the module; `tlapm` checks them to the last leaf.

* **`PersistenceProofs`**, on `WriteBehind` (from `DriverAssumption`,
  `BoundsAssumption`, `NoStateAssumption`). The inductive invariant `IInv` adds three
  parts to `TypeOK` and `NothingForgotten`. `RefsOK`: a waiting state names existing
  arrays, the one remembered last the newest. `DriverOK`: something remembered means an
  armed timer, something in the chain a running transaction, nothing at all after a
  failure or an end. `OrderOK`, for each table: contents grow along the database, the
  running transaction, the array it has still to read, the chain and memory
  (`ArraysOK`, `ChainOK`, `ReadingOK`). It is needed because `NothingForgotten` looks at
  the end of the pipeline only: when a transaction settles, what was second becomes
  first, and the order says that it is newer. From it follow `TypeCorrect` and
  `NothingIsForgotten`.

  The steps are then sorted by what they do to memory, transaction and database
  (`Moves`, `Drives`, `Ends`, `Rests`, and `Restart`), and each kind is mapped to a step
  or a stutter of `DurableStore`. `TablesAreStores` is the refinement `TablesSpec`, for
  both drivers: a late transaction reads an array through its reference, so `TablesInv`
  says that every array object, the ones the service has left behind too, holds a
  content its table has had. `CommunityImplementsStore` is the same for the whole state
  of the community driver (`PastInv`). `ReferencesStayWhole` needs an argument across
  tables (`WholeInv`): only `upvotes` is ever replaced, so that all states share one array
  of each other table, and every array of upvotes names projects of memory
  (`MemoryWhole`); a running transaction was whole when it began but for its users, of
  which it will read those of memory (`TxWhole`).

  On `FileStore` (from `FixturesAssumption`: the rows of a fixture are finite in
  number and carry distinct ids or none, and may refer to whatever they like;
  `FilesAssumption`: a file is missing, damaged, or sound, as an earlier start left
  it). A store is `Sound` when its ids are fresh, its references hold and its derived
  fields agree, and `FileInv` says that three stores are sound at once: the file's,
  the server's copy, and what a script has read and will write; any of them may
  overwrite another, which is why none of the three properties is inductive for the
  file alone. The work is in the scripts as functions: that `SeedData` and
  `SeedAccounts` make a sound store of any sound store and any fixture (merging by id,
  collisions, renamed accounts, recounted projects, counters), and that `SeedData`
  applied to its own result gives that result again (`SeedingIsIdempotent`, but for
  the upvotes and the dates the fixture leaves out). Results: `FileTypeCorrect`,
  `IdsStayFresh`, `ReferencesAlwaysHold`, `SeededRowsAlwaysAgree`,
  `SeedingIsIdempotent`, `AckedStaysDurable`.
* **`AccessProofs`**, on `Members` (from `SeedAssumption` and the bounds). `MInv` adds
  two facts to the properties: an e-mail that waits for its probe belongs to a maker
  (`ProbingAreMakers`, which makes the role overwritten by `upsertMaker` the role
  that was there), and a withdrawn account has no password. Four predicates say how
  an operation may change the accounts; one lemma per operation shows that it does
  one of them. Results: `TypeCorrect`, `OneAccountPerEmail`, `AdminRemains`,
  `AuditIsComplete`, `WithdrawalFinal`, `RolesFixed`. `EmailsUnique` and
  `RolesNeverChange` are proved and therefore checked by no run.

  On `RateLimit` (from the assumptions on windows, limits and hosts).
  `ImplementsFixedWindow` maps a bucket whose window has passed to no bucket; a
  cleanup is then invisible. The history invariant `HInv` says that admitted
  requests lie inside windows of their key, that such windows do not overlap and
  number their requests, and that an open window has admitted as many as it counts.
  `RefusalsAreEarned` injects `1 .. Max` into the requests admitted during the last
  window, `TwoWindowsBound` injects the requests of any stretch of one window
  length into `1 .. 2 * Max` (`AtMostTwoWindows`), and `MapIsCleaned` says that a
  kept bucket was still running at the last cleanup (`BucketsAreRecent`); both are
  proved and therefore checked by no run.
* **`FeedbackProofs`**, on `Feedback` (from `OwnerAssumption`, `ThresholdAssumption`
  and the bounds). The log is a sequence, so `AuditTellsStatus` speaks of the last
  entry about a review; `EntriesHaveLast` says that there is one, and an entry appended
  becomes it. The counter is a cardinality, so what is counted must be finite
  (`FinitelyMany`). `RootsShown` needs that a reply answers an earlier root of its own
  project (`RepliesAnswerRoots`), `LadderIsEarned` that an upvote is its member's
  only one and never the owner's (`OneVoteEach`): the ladder counts upvotes, the
  property counts members, and the injection between them is the proof. Proved beyond
  the runs: `TypeOK`, `HiddenAtThreshold`, `ReviewsAreAnnounced`.

  On `Console` (from `ConsoleAssumption`, `InputsAssumption`: what the code's
  defaults and templates are, numbers within the bounds of their fields). `CInv`
  relates question and answer: an answer in the cache was asked for with its key
  (`AnswersFit`), what is shown is the newest answer to the applied inputs
  (`BundleInSync`), the bundle under way asks for what is applied
  (`AsksWhatIsApplied`), no copy knows a review later than the server does
  (`NothingAhead`), and a poll served before a moderation is replaced by one after it
  (`AskedAgain`, `PatchedInStep`). `ReportConsistent` and `QueueIsCaughtUp` follow;
  `QueueCatchesUp` is an action property and uses that the answer being shown was
  served after the last moderation. `FigureInv` is the invariant behind
  `ReloadRepairs` and `ConsoleTellsOneStory`: inputs stay numbers whatever is typed,
  advised or chosen, and whatever is kept or shown was computed from a snapshot of the
  projects, proposals and events (`IsSnapshot`), for a query that the server accepted
  (`RevenueOK`). That needs `ConsoleAssumption`: the records are finite, no two
  projects have one id, a project's counters are those of its proposals, an event has
  one of the types of `ProjectEventType`, is about one of the projects and does not lie
  in the future; a recorded event, an expression of interest and a failed probe keep it
  so (`FiguresOfTheServer`).

  `ConsoleTellsOneStory` is then a theorem about one snapshot and one projection.
  `OneStory`: the proposals counted by project, by category and by range give the same
  number, and their amounts the same sum (`ProjectsTogether`, `CategoriesAgree`,
  `RangesAgree`); the access modes share out the projects and the verified ones
  (`ModesAgree`); the two weeks of the trend add up to the events of fourteen days,
  none of them twice (`DaysAddUp`, `TrendAgrees`); the lists by matches and by signal
  are in order, and the market's is the beginning of the latter (`ListIsOrdered`,
  `ListsAgree`); as many projects are listed at risk as are counted, five at most, and
  none without a warning (`RisksAgree`); the advice is summed up as listed, the urgent
  first (`AdviceAgrees`). `OneProjection`: the total is the sum of its parts,
  a target is reached exactly when nothing is missing and the benchmark says so, and
  larger multipliers never earn less (`ReachedIsReached`, `ScenariosRise`), with the
  rounding the code does. `AgreeingSnapshots` and `AgreeingProjections` only spare TLC
  the same computation; the theorem does not use them.
* **`MatchingProofs`** (from `ProjectsAssumption`, `RangesAssumption`,
  `BoundsAssumption`). The properties are inductive together (`MInv`); what had to be
  shown is that a sum over the proposals of a project grows by the new proposal's
  range. `SumOf` is a recursive function, and induction over data is out of reach as a
  theorem with an operator parameter; here it is stated as a fact about sets
  (`SubsetsByElement` in `FiniteFacts`). From it the recursion has a solution, and the
  sum does not depend on the order in which elements are taken. Proved beyond the
  runs: `TypeOK`, `RecordedAsSent`.
* **`CommunityProofs`**, on `Community` (from `OwnerAssumption`, `RoleAssumption`,
  `NobodyAssumption`, `SeedAssumption`). `CInv` has a part for the board and a part
  for the mail. `CountsWhatIsShown` compares the images the list counts with those
  the page receives, two filters of different code; they agree because an image has
  its data until it is removed (`DataUntilRemoved`) and a deleted comment's images
  are removed with it (`DeletedAreStripped`). `ReadMeansSeen` and `OneConversation`
  need that no id is given twice. `ForbiddenStaysOut` is an action property: what a
  step adds has passed the terms in force at that step. Proved beyond the runs:
  `TypeOK`, `OneConversation`.

  On `Market` and `Listing` (from `CatalogueAssumption`: rows have what the listing
  reads, no two one id or one moment of creation; `AddressesAssumption`;
  `ControlsAssumption`: controls and presets hold filters). Two thirds are about the
  listing as a function, for any set of rows: the order is strict and total
  (`AheadOrders`), so that every place of the ranking is held by one row and the
  ranking lists each match once (`EveryPlaceIsHeld`, `PlacedInOrder`,
  `RankingIsComplete`); pages of any size, flattened, are the ranking
  (`PagesMakeTheWhole`, by induction over the pages), and a page number past the end
  is clipped to the last (`PageIs`, `PagesCover`). The invariant `MktInv`: rows are
  versions of registered projects (`RowsOK`), all that is shown or kept went through
  `Hydrate` (`ShownOK`), the copying effect has seen the answer that belongs to the
  controls (`ListFollows`, without which `MetaIsCurrent` breaks at the next render),
  and what a reload reads is what is set once that has been applied (`MemoryOK`). One
  lemma covers every control (`RenderKeeps`), one both ways to start (`BootKeeps`), one
  every step that leaves the answers alone (`AnswersKept`). Results:
  `MarketTypeCorrect`, `MetaStaysCurrent`, `PagesAlwaysCover`, `ScreenedAlwaysHidden`,
  `ReloadRestores`. The proof of the last corrected the property: it used to ask only
  that the configuration is there and the search settled, and the step that broke the
  invariant is the reset described in section 4; with one more preset TLC finds it.
* **`NavigationProofs`** (from the assumptions of `Navigation`). Address and screen
  are written by handlers, by two effects and by the browser; no property here is
  inductive without saying what the current entry and the screen have in common in
  step or not (`Matches`), which entries an address can be (`EntriesFit`), what the
  dashboard and a profile leave empty (`Settled`) and where the dialog is open
  (`DialogFits`). Every operation is one of five kinds (push, pop, dialog, a page left
  without an address, a render of the same screen), and one lemma per kind shows the
  invariant, `ScreenFollowsAddress` and `HistoryKept` together. Proved beyond the
  runs: `TypeOK`, `FiltersStayOffOwnedPaths`.
* **`DetailProofs`** (from `BellAssumption`, `DetailAssumption`, `StartAssumption`,
  which says that the reviews at the start are numbered one by one and that notices
  and addresses name pages). The state splits into header, forms, page and rail, and
  `DInv` has a part for each. Header: that of nobody is empty, and a live poll was
  asked for the session (`HeaderFits`). Forms: a form waits for at most one request
  (`OneRequestEach`), a text is in one form and its requests only (`TextsAreNew`),
  and a text that is saved is still waited for by its form (`SavedTextsLeave`), which
  is what keeps it from being sent again. Page: the newest question of a slot is
  about the page (`NewestIsForThePage`), and an answer names a review of its project
  (`AnswersNameReviews`). That last part corrected the model: it used to find the
  saved review by its text, and a text given up on one page and sent from another
  would have shown both reviews. That the rail stays a sequence within its limit is
  an induction over its prefixes (`WithoutFits`), stated about sets as above; for
  it `Without` is written as a recursive function. Proved beyond the run: `TypeOK`.

* **`FiniteFacts`** is what several of them rest on. The library states induction with
  an operator parameter, which the provers cannot instantiate; here it is a fact about
  sets: a set of natural numbers that holds 0 and each successor holds them all
  (`NaturalsBySuccessor`, from a minimal element), and likewise for the subsets of a
  finite set (`FiniteByElement`, `SubsetsByElement`). From these: a finite set of
  numbers has a largest element; an order that is strict and total gives each element
  of a finite set a place, and each place an element (`EveryPlaceIsHeld`,
  `PlacedInOrder`), which the market's ranking and the operators' lists rest on; a
  recursion over finite sets has a solution and adds up in any order
  (`RecursionExists`, `SameSums`); and a sum may be taken group by group
  (`AddedByGroup`, `CountedByGroup`), which is what two distributions of the same
  proposals have in common.

Before each proof TLC checked the inductive invariant of `Navigation`, `Detail`,
`Console` and `Market` as an invariant of their runs.

Out of the prover's reach, and left to TLC: the liveness properties
`EventuallyDurable` and `FlushReturns` (fairness, ENABLED). Every other property of
the runs that pass is stated by a theorem.

## 6. Not modelled, and the plan

In this order; modules in parentheses are planned and not part of the project yet.

1. (`CrossStore`) the two stores become durable independently: after a crash a
   conversation may name a project id that is given out again. Composes two
   instances of `DurableStore`.
2. (`Refresh`) probes that finish out of order; `checkedAt` is taken at the start,
   so an older probe may overwrite a newer one; redirects hop by hop.
3. What a mixture of moments, reloaded after a crash, makes of the rules that `Members`
   and `Feedback` keep in memory: `WriteBehind` says which mixtures there are.
4. The client of the discussions and of the messages.

What stays out. The seed scripts' path to Postgres: `seed-test-data.mjs` still reads
the file and replaces the database with the result, `seed-test-accounts.mjs` loads the
database and saves it whole. Either is a single `save` and `flush` of the driver that
`WriteBehind` models, by a process that holds its own copy: what it and a running
server overwrite of each other is what `FileStore` shows for the file. The community's
own JSON file, which is written the same way. The slot of the maker's profile on the
page, and the match dialog opened from the preview, which is `Matching`'s. SEO pages,
framework plumbing (health, exception filter, CORS, validation), layout, external
services and the read-only mini app: nothing interleaves in them, or their state is
elsewhere.

## 7. Running

    tlc -workers 2 -config Members.cfg MCMembers.tla
    tlc -workers 2 -config WB_projects.cfg WriteBehind.tla
    tlapm AccessProofs.tla

The larger runs (`Market`, `Console`, `FileStore`, `Detail`, `Navigation`) take a
minute or two each with two workers.
