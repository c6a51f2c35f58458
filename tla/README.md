# A TLA+ model of podcore

podcore (Rust, PostgreSQL through diesel) ingests podcasts: it searches a
directory, retrieves feeds, stores podcasts and episodes, serves them over web
and GraphQL, keeps accounts, and works background jobs. This directory holds
TLA+ modules that model the parts of it whose correctness depends on threads,
transactions, restarts and stale reads, TLC configurations that check them on
small instances, and proofs that TLAPS checks for every instance.

Paths below are relative to the root of the repository.

## 1. Inventory

Every component is a *mediator*: a struct whose `run` opens a transaction and
calls `run_inner`. Mediators share nothing but the database, and run in
separate processes (`podcore crawl`, `clean`, `work`, `web`, `api`, one
Kubernetes deployment each), in threads of one process (the workers of the
crawler, the reingester, the job worker and the cleaner) or one per request (the
`SyncExecutor` actors of the servers). All transactions run at READ COMMITTED,
PostgreSQL's default; no query takes an explicit lock.

| Component | State | Operations | Hard behaviour | What makes it correct |
|---|---|---|---|---|
| Job worker (`src/mediators/job_worker.rs`, `subcommand_work`) | tables `job`, `job_exception`; two bounded channels; structs in flight | select a batch, send, work, collect, record in one transaction, sleep, run once | channels that fill up; dying between working and recording; two processes on the same rows; LIMIT without ORDER BY | results are conserved, no deadlock, no job lost, errors and exceptions agree, work repeated only after a crash, every job settles |
| Jobs (`src/jobs.rs`) | the same tables | `enqueue`, `no_op`, `verification_mailer` | enqueued inside a caller's transaction | a job becomes visible when its caller commits |
| HTTP requester (`src/http_requester.rs`) | none | follow redirects, decode | recursion limit, which URL is returned | at most the documented redirects; permanent redirects are remembered, temporary ones are not |
| Podcast updater (`src/mediators/podcast_updater.rs`) | `podcast`, `podcast_feed_location`, `podcast_feed_content`, `episode`, `podcast_exception` | pick the URL, fetch, parse, upsert, shortcut, recover | two callers on one feed, check then insert, recovery in a second transaction, shortcut on old content | the tables agree with the newest content, an exception says that the last retrieval failed, no podcast without its location |
| Crawler, reingester (`src/mediators/podcast_crawler.rs`, `podcast_reingester.rs`, `src/static/sql/podcast_crawler_select.sql`) | a bounded channel, a page cursor, the pool | page through podcasts, send them to workers that run the updater | workers gone while control sends, a page read long before it is applied, one row per content row | every due podcast is updated once, the run ends |
| Cleaner (`src/mediators/cleaner.rs`, `src/static/sql/cleaner_*.sql`) | rows past their horizon in five tables | five threads that delete batches until nothing is left | races with returning users and searches, foreign keys, a thread's error | never deletes what is in use, stops, errors are reported |
| Directory search (`src/mediators/directory_podcast_searcher.rs`) | `directory_search`, joins, `directory_podcast` | cached search, fetch, upsert, refresh the joins | concurrent first searches, a rollback of the refresh, cleaner | a fresh search has the joins of its last fetch |
| Directory podcast updater (`src/mediators/directory_podcast_updater.rs`) | `directory_podcast`, its exception | updater inside an outer transaction | nested transactions and an error | a failure leaves an exception, a success removes it |
| Feed location upgrader (`src/mediators/podcast_feed_location_upgrader.rs` and its SQL) | `podcast_feed_location` | one INSERT ... SELECT | a URL another podcast owns | adds the https twin of an http location |
| Accounts (`account_*`, `key_creator`, `verification_code_creator`) | `account`, `key`, `verification_code`, `account_podcast`, `account_podcast_episode` | sign up, sign in, subscribe, favorite, delete | check then insert, foreign keys without cascade, cleaner | no half-created or half-deleted account, unique email |
| Middleware (`src/middleware.rs`) | session cookie | authenticates or creates an ephemeral account | first requests in parallel | one account per session |
| Servers, web, GraphQL, command line (`src/server.rs`, `src/web`, `src/graphql`, `src/bin/podcore/main.rs`) | none of their own | run mediators, render | user errors and internal errors | they only decide which mediators run concurrently |
| Error reporter, HTML sanitizer, links, helpers | none | formatting, I/O | none | outside of the model |

`PROJECT.json` lists the same components file by file, and under `hazards` each
hard behaviour at the line where it bites. A panic in a job and the deletion of an
account by `account_destroyer`, which no call of the program reaches, are not listed.

## 2. Modules and plan

| Modules | What | Checked | Proved |
|---|---|---|---|
| `JobQueue`, `JobWorker` | the job system and its abstract specification | safety, liveness, refinement | safety, refinement |
| `HttpRequester` | the recursion over redirects | with `PodcastFeed` | safety |
| `PodcastFeed`, which extends `HttpRequester` | `fetch_feed` over that requester, and the parser | safety, liveness | safety |
| `FeedStore`, `PodcastUpdater` | the mediator, statement by statement, the upgrader, the cleaner of contents, and their abstract specification | safety, liveness, refinement | safety, refinement |
| `PodcastCrawler` | crawler and reingester, and the cleaner of contents | safety, liveness | safety |
| `Directory` | searcher, directory updater, search page, the cleaner of searches and results | safety, liveness | safety |
| `Accounts` | authenticator, endpoints, mutations, their mediators, the cleaner of accounts | safety, liveness | safety |

Each module composes the components that race on the same tables, so that each
of the cleaner's threads is where its victims are used. The two that nest are
linked by what one promises the other: the updater that `PodcastCrawler`,
`PodcastFeed` and `Directory` run as a step is `PodcastUpdater`, with its own
transaction and recovery. `<Module>Proofs` holds a module's theorems and
`MC<Module>` its instances for TLC; `JobQueueProofs` has those about `JobWorker`
that need a sole process.

Every safety property that a run checks is a theorem, and so are both
refinements and every action property. Liveness (`JobsSettle`, `ExecuteReturns`,
`RunsEnd`, `OverdueIsRetrieved`, `RequestsEnd`, `CleanedInTheEnd`) rests on
fairness and ENABLED, which are beyond TLAPS, and is only model-checked. So are
the five violations, which are about small instances by nature.

Left: abstract specifications of a crawl (everybody due once) and of the cache of
searches; the thread of the cleaner for keys, once keys expire.

Modules meant for proof declare no recursive operator, take their bounds as
CONSTANTS with named assumptions and write records with constructor operators.

## 3. The job worker

### State

| Variable | Code |
|---|---|
| `job`, `used` | table `job` and its id sequence (`migrations/2018-04-21-233945_create_job_system/up.sql`); a row keeps `name`, `live`, `num_errors`, and `due` for `try_at <= now` |
| `exceptions` | table `job_exception`, unique by `job_id` |
| `pc`, `once` | where the control thread of a process is; `Mediator::run_once` |
| `at`, `copy` | which thread, channel or vector owns a `model::Job` (they are moved, never cloned), and what the struct holds |
| `pending` | turns left in the loop of `wait_results` |
| `exited` | worker threads that returned, for `join` |
| `failures`, `successes`, `crashes` | history, read by no action |

### Actions

`Enqueue` is `jobs.rs`' `enqueue` at the commit of its caller. `SelectJobs`,
`NoJobs`, `Wake`, `SendJob`, `WaitResult`, `RecordResults` are the loop of
`queue_jobs_and_record_results`; `RecordResults` is the whole transaction of
`record_results_inner`, with the upsert that inserts a row again if it has gone.
`ReceiveJob`, `JobOk`, `JobErr`, `WorkerExit` are the loop of `work`;
`CreateErroredJob` translates `create_errored_job`. `Join` and `RunAgain` are the
end of `run_inner` and the loop of `subcommand_work`. `Crash` kills a process at
any point; `DatabaseError` is an error of a transaction, which rolls it back and
ends the process through `handle_error`; `Start` is the cluster's restart. `Tick`
lets a `try_at` pass.

Abstracted: arguments and error texts, `created_at`, the order within a channel
(any worker may receive any job anyway), the length of the backoff.
Any job may fail, as its arguments may not be those that the worker's version
reads (`serde_json::from_value(..)?`) and the mailer's query may; a name that the
worker does not know always fails.

### Abstract specification

`JobQueue` is the table as a caller of `enqueue` sees it: absent, live, dead or
deleted, with a count of errors. `ImplementsQueue` is the refinement: for a sole
process, every step of `JobWorker` is a `Put`, a `Settle` or a stutter.

### Runs

| Run | Instance | What it shows |
|---|---|---|
| `job_worker` | one process, two threads, three jobs, batches and channels of two, `MAX_ERRORS` 2, one crash, jobs of one name | types and the bound on errors (`TypeOK`), conservation of results (`BatchConserved`), channels never full (`ChannelsHaveRoom`), the two tables agree (`ExceptionPerError`), structs in flight are not stale (`SnapshotCurrent`), work is repeated only after a crash (`RepeatsOnlyByCrash`), no job is lost (`NoJobLost`), the refinement, and `JobsSettle`: under fair scheduling every live job is deleted or dead in the end |
| `job_worker_overlap` | two processes, one job, no crash | a violation of the comment on `MAX_ERRORS`: both processes select the same unlocked row, each writes back the error count it read, and a failure is lost |
| `job_worker_run_once` | one process | a violation of the help text of `--run-once`: `subcommand_work` never leaves its loop |

Bounds. Three jobs over batches of two make a batch that leaves a job out and a
channel that could fill; two threads let results come back in another order
than jobs were sent; two errors give a retry and a death; one crash reaches
every point. `Jobs` also bounds how often `Enqueue` happens, `MaxCrashes` how
often processes die. The history counters stop at `HistoryCap`, one above
anything a property compares. One name of jobs is enough, since any job may
fail each time, as one with a name that the worker does not know does. The run
`job_worker` has 261,292 states. The proofs need none of these bounds.

Deadlock is checked in every run: a sleeping process always wakes.

Fairness. Weak fairness of the control thread and of each worker thread: the
operating system schedules them and none waits for a condition another can
take away for ever. Weak fairness of `Start`: the deployment restarts its pod.
Weak fairness of `Tick`: time passes. Nothing is assumed of jobs: they may fail
each time. `JobsSettle` needs no fairness of the LIMIT that leaves jobs out: a
job that is selected instead either succeeds or uses up one of its errors, so
the others run out; that argument depends on the bounded number of enqueued
jobs, and with an endless supply of new jobs the query's order would matter.

### Proofs

`JobWorkerProofs` proves for any finite set of jobs, any processes and workers,
any positive limits, overlapping processes included:

`Spec => []TypeOK`, `[]BatchConserved`, `[]ChannelsHaveRoom`,
`[]ExceptionPerError`, `[]NoJobLost`.

The inductive invariant `IInv` is a conjunction: `Types`; `Phases` (which places
can hold structs in each phase of the control thread); `Structs` (a struct in
flight exists, and its error count is at most `MAX_ERRORS`, less if it has not
been worked, and positive with a result of error); `Rows` (a live row counts
fewer than `MAX_ERRORS`); `IdsUsed` (rows and structs have ids the sequence
handed out); `Succeeded` (an id whose struct lies with the successes has
succeeded); and the three safety properties themselves. `ChannelsHaveRoom` is not
inductive: it follows from `BatchConserved` and the size of a batch. Lemmas on
moving one struct between places give the cardinalities.

`JobQueueProofs` goes on from there with one hypothesis, `SingleProcess`: one
process works the table, as the deployment runs it and as the run `job_worker`
has it. It may die and be restarted any number of times. Without it all
three theorems are false, which `job_worker_overlap` shows. The invariant `AInv`
adds to `IInv`

- `SnapshotCurrent`: nobody else writes a row between `select_jobs` and the
  transaction that records it, so that a struct in flight is its row, plus one
  error if it has one to record. It is inductive with `IInv`;
- `RepeatsCounted`: each call of `work_job` is still to be recorded, is recorded in
  the tables, or was lost by a crash. `RepeatsOnlyByCrash` follows from it and from
  the bound on errors.

`QueueImplemented` is the refinement, step by step: `EnqueuePuts` and
`RecordSettles` are the two lemmas with content, since every other action keeps
`QueueState` and `QueueErrors` of every job (`QueueStep`). `RecordSettles` needs
`SnapshotCurrent`: that the error count written back is one more than the row's,
and that only live rows are settled.

The assumptions are those named in `JobWorker`: the sets of jobs and workers are
finite, no worker is named like a stage, limits are positive, `NoRow` is not a
row. Only model-checked: `JobsSettle`.

### Not modelled

A panic inside a job: its worker would end without a result and the control
thread would wait for ever, but nothing `work_job` calls panics. Zero workers
(`NUM_WORKERS=0`), which would block likewise. The pool: `verification_mailer`
fails if it gets no connection in time, which is one of its failures here.

## 4. The HTTP requester and the parser of feeds

`HttpRequester` is `HttpRequesterLive` (`src/http_requester.rs`): one call of
`execute`, whose recursion is a stack of frames. `frames[d]` holds the local
variables of the call with `redirect_depth` *d*: the URL it requests and the
redirect that answered it. `HitLimit`, `RequestFails`, `Redirected` and
`Answered` are the ways `execute_inner` goes on; `Return` and `Finish` unwind
it, with `ReturnedUri` the choice of the URL. Hosts answer anything at any time.
`last` is history: the URL that gave the answer.

| Run | Instance | What it shows |
|---|---|---|
| `http_requester` | two URLs, the code's limit of five; documents of up to two items with two guids, four elements deep | of the requester: no request at the limit (`RequestsWithinLimit`), a URL behind a temporary redirect is never returned for storing (`TemporaryNotRemembered`), cycles of redirects end (`ExecuteReturns`, with weak fairness of `Step`: the event loop of a call runs on and, although no timeout is set, a request has an outcome). Of the parser: a document that is cut off is refused (`TruncatedRefused`), the first channel is read as it is (`FirstChannelRead`), every complete item is an episode once (`EpisodesOnce`), and a feed is refused only for a cause (`RefusedForCause`) |
| `http_requester_permanent` | two URLs, limit two | a violation of the comment on permanent redirects: the `status` of the inner result shadows that of the redirect, and no final answer has the status 308 |

Two URLs make chains, self-loops and cycles of every length up to the limit.
Deadlock is checked: a caller may always ask again. `HttpRequesterProofs` proves
`RequestsWithinLimit` and `TemporaryNotRemembered` for any URLs and any positive
limit, from the invariant `HInv`, which adds `Returning` to the types: what is
being returned is a status that is no redirect, so never 308, with the URL of the
call that returns it. `NothingRemembered` states what follows from that for the
code as it is, and what the updater rests on: the URL returned is the one asked
for. `TypeOK` is a theorem too, and `RequesterInFeed` says that the same holds
when `fetch_feed` drives the requester. `ExecuteReturns` is only model-checked.

`PodcastFeed` puts the requester to use: `FetchFeed` calls it, `FetchSucceeds` and
`FetchFails` take its result, and then `parse_feed`, `parse_rss`, `parse_channel`
and `parse_item` read events. The functions call each other, so `calls` is their
stack, while `open` is the stack of elements that are really open. The parser
never looks at the name of an end: whichever function runs takes it for its own.
That the two stacks agree, or that the document is refused, is what
`TruncatedRefused` and `FirstChannelRead` say; `doc` is the document's own account
of its first channel and `closed` whether that has ended. Elements are picked
one by one, so that every document up to the bounds is read, not a list of
samples; `Malformed` is an error of the reader, which may have dropped an
element, and after which nothing is said about the items. `Convert` is
`convert_podcast`, `validate_episode` and the loop of `convert_episodes`, whose
state after *n* items is `Kept[n]`. Bounds: two items share a guid or not, and either may lack a
field or have a bad date; four levels are one more than a feed has, so a second
channel nests anywhere. Deadlock is checked.

`PodcastFeedProofs` proves the four properties of the parser for any documents,
however long and deep. The invariant `FInv` ties the two stacks
together. `InStep`: until the reader meets an error the functions that run are those
of the elements that are open, and `raws` is what `doc` has of the first channel.
`Reading` is what an error leaves, and it is enough for `TruncatedRefused`: while a
channel is parsed the document has one open or has ended it (`closed`), so the parser
gets past `parse_channel` only by the end of a channel.
`EpisodesOnce` is about a recursive function, for which the library's induction
theorems cannot be used here, as they take an operator; the proof takes a least
counterexample instead (`LeastNatural`, from `WFMin`, and `UpTo`).

`REDIRECT_LIMIT` is documented as "Maximum number of redirects that we'll
follow": it counts requests, so of five redirects the fifth is not requested.
The text a `Uri` prints is taken to be the text it was parsed from.

## 5. The podcast updater

### State

| Variable | Code |
|---|---|
| `podcast`, `location`, `content`, `episode`, `exception` | the committed rows of `podcast`, `podcast_feed_location` (unique by `feed_url`), `podcast_feed_content` (unique by podcast and hash), `episode` (unique by podcast and guid), `podcast_exception` |
| `nextId` | the sequence of `podcast.id`, which no rollback takes back |
| `clock` | `Utc::now()`, advanced by each timestamp that is stored |
| `processed` | history: the contents each podcast has ever stored completely |
| `batch` | the rows of `podcast_feed_content` that the cleaner's statement has selected |
| `pc`, `run` | where a caller is in `run`, its arguments, and what its open transaction has read and written |
| `runs` | how many runs were begun; a bound |

A body stands for everything a feed says: the podcast's and the episodes'
columns are represented by the body they were last written from.

### Actions

`Add`, `Crawl` and `Reingest` are the callers (`podcore add`, the workers of the
crawler and of the reingester). `SelectLatestUrl`, `FetchFeed`, `UpdatePodcast`
or `InsertPodcast`, `UpsertLocation` or `UrlConflict`, `Shortcut` or
`UpsertContent`, and `Commit` are `run_inner`; `upsert_episodes` and
`delete_exception` follow the content in the same transaction and wait for
nothing, so their rows appear with `Commit`. `Fail` is any `?`, `Recover` and
`RecoveryFails` are `run_recovery`, `Crash` the death of the process. `Upgrade` is
`podcast_feed_location_upgrader`: the hosts that it trusts are those it lists and
those that have an https location at that moment (`SecureHosts`).

`SelectExcess`, `DeleteExcess` and `CleanFails` are the cleaner's thread for
contents (`src/mediators/cleaner.rs:218`, `cleaner_podcast_feed_content.sql`): one
statement, in two steps, since it reads its snapshot first and then waits for the
locks of the rows it deletes. A run may store one of them anew in between.
Episodes outlive the contents they were read from, and no run can bring those
back.

Two external rules of PostgreSQL are modelled: an UPDATE waits for the end of
another transaction that updated the row (`Blocked`), and an insertion waits for
a pending one of the same unique key (`UrlPending`). Statements that read and
that no other step can tell apart from the next are one action (the two queries
of `select_latest_url`: a location's podcast never changes).

### Abstract specification

`FeedStore` is what readers of the five tables rely on: a set of URLs for each
podcast, its title, its contents and the newest of them, its episodes, and whether
it has an exception. A retrieval is one step: `Publish`, `Recognize` (the
shortcut) or `RetrieveFails`; `AddTwins` is the upgrade, `Discard` a batch of the
cleaner, which leaves each podcast some content. It has no transactions, no locks,
no times. A podcast begins with a URL that nobody has and a URL never changes its
podcast (`Attach`); what is published is the newest content, whatever was
published in the meantime. `ImplementsStore` is the refinement: a commit is one of
the first two, a recovery the third, a deletion a `Discard`, and nothing else
shows. It is a statement on READ COMMITTED, where no two statements of a run need
read the same state.

### Runs

| Run | Instance | What it shows |
|---|---|---|
| `podcast_updater` | two callers, one URL, two contents, three runs, a cleaner that keeps one content | `NewestContentShown`: no kept content has an episode that shows an older kept one, although two runs fetched different ones and overlapped, or the reingester applied one it read before; `PodcastHasContent`: whatever the cleaner selected before, no podcast loses its last content; `RetrievalRecorded`: every run that ends, also through recovery, gives the podcast a new retrieval time |
| `podcast_updater_urls` | two callers, the http and the https URL of a feed and another feed of its host, two contents, two runs, upgrades, the cleaner, liveness | `PodcastHasLocation` under the race of two first retrievals, `TypeOK` with the foreign keys, `RunsEnd`, and `ImplementsStore`: with races, recoveries, upgrades and deletions the tables change as if one retrieval happened at a time (`StoreImplemented` proves it for overlaps of any number of runs) |
| `podcast_updater_shortcut` | one caller, one URL, three runs | a violation of what the comment on the shortcut takes for granted: after contents A, B, A the podcast has A's title and B's episodes |

Bounds. The first run stores the podcast and two more overlap on it: that is
what needs `MaxRuns` 3 in `podcast_updater`, which is checked up to a permutation
of the callers. With several URLs, two runs cover the race of first retrievals, a
failing run beside a committing one, and upgrades between them, for a host that
becomes trusted through the other feed. No host is whitelisted in these runs.
A cleaner that keeps one content has a row to delete as soon as there are two;
the code keeps five. The runs have 531,570 and 199,804 states. Deadlock is not
checked in these runs because they stop when `MaxRuns` is used up; `RunsEnd`
says more: no caller stays in a run.

Fairness. Weak fairness of `Progress` for each caller: its thread is scheduled,
and PostgreSQL grants a lock some time after it is free. Failures are not
needed: `Fail` and `RecoveryFails` have no fairness. `Progress` includes
`FetchFeed`, for which the code sets no timeout: `RunsEnd` assumes that hosts
answer or break off, as a run whose host is silent for ever keeps its transaction
open. (At that point it has read only, so it holds no row that others wait for.)

### Proofs

`PodcastUpdaterProofs` proves `PodcastHasLocation`, `PodcastHasContent` and
`NewestContentShown` for any limit of the cleaner and any callers, URLs, contents
and number of runs. The invariant `PInv` has a part for each caller: `FilledBy`
(what its run has filled in), `HoldsAlone` (no two open transactions hold one
podcast's row, and ids come from the sequence), `OwnsUrl` (the location it writes
is its own podcast's, or is free and no one else is inserting it) and `StoresLast`
(what it is about to store is later than all that the podcast has, or, after a
shortcut, is there already). Two parts are about the tables: `ContentsInv`
(contents were stored at different times, by runs that completed) and `BatchInv`
(of what the cleaner has selected, some content of each podcast is left out: rows
have `ContentLimit` newer ones when they are selected, and runs only add).
`NewestContentShown` needs `HoldsAlone` and `StoresLast`, `PodcastHasLocation`
needs `OwnsUrl`, `PodcastHasContent` needs `BatchInv`. `LocalStep` reduces the
steps that leave the tables alone to the moving caller's part; `CommitStep`,
`RecoverStep`, `UpgradeStep` and `CleanStep` treat the others.

`TypeOK` is more than it seems, since it bounds ids and times by the number of
runs: were that wrong, the model would silently stop in some behaviours. `UInv`
adds two budgets to `PInv`. `ClockBudget`: the ticks so far and those that the open
runs still owe (four for a run that has not fetched, one for a run that can
only fail) are at most four for each run begun and one for each location;
`IdBudget` is the same for ids and insertions. `RunInv` says of a run that its
start is not in the future, that it converts the feed after it began, and
(`SameOwner`) that the URL it has chosen is its caller's or one of the same podcast;
the last holds until the end because a location stays its podcast's
(`OwnersKept`). `RetrievalIsRecorded` follows: the podcast a run has written is
the one its caller's URL leads to at the commit.

`StoreImplemented` proves the refinement. `SInv` adds that a podcast that a run
inserts is not there for anybody else (`InsertsFresh`) and that contents belong to
podcasts. `CommitAttaches` needs `OwnsUrl` and `InsertsFresh`; `CommitPublishes`
needs `StoresLast`, without which the newest content would not be the published
one; `UpgradeAddsTwins` needs that different URLs have different twins; `DeleteDiscards`
needs `BatchInv`.

Assumptions: those named in `PodcastUpdater` (the https twins of two URLs differ
and are URLs, `GuidsOf` is a function on bodies, `None` is none of the values).
Only model-checked: `RunsEnd`.

### Not modelled

The directory updater's outer transaction, which is in `Directory`. The cleaner's
`DELETE_LIMIT`: a batch is any part of what it may select. Which URL a host serves
what content for is left open: any content at any time.

An upgrade can be lost to a race that no property forbids: a run that fetched
the http URL and commits after `Upgrade` makes http the latest again, and as the
twin exists the upgrade is not repeated until https is used for another reason.

## 6. Crawler and reingester

`PodcastCrawler` is the process of `podcore crawl` or `podcore reingest`.

| Variable | Code |
|---|---|
| `age`, `recent`, `old` | `podcast.last_retrieved_at`, and the contents of a podcast within and beyond the month of the query |
| `command`, `pc`, `last_id`, `page` | which subcommand runs, where its control thread is, the cursor of `page_podcasts`, and the rows of its page that are not sent yet |
| `channel`, `worker`, `hand` | the bounded channel, where each worker is, and the row it works on |
| `changes`, `faults` | bounds on what others do and on errors and deaths |
| `sent`, `handled`, `promised` | history of a run: rows sent and handled, and the podcasts it owes a retrieval |

`CrawlerRows` is the query of `podcast_crawler_select.sql`: the join gives a row
for each content, and `DueAt` the interval computed from it with its random
minutes. `IsPage` cuts the rows at the limit, in the order of ids, wherever that
falls. `CrawlerSelects` and `ReingesterSelects`, `SendRow`, `SelectsNone` and
`Join` are the control thread; `ReceiveRow`, `RetrieveRow`, `RetrievalFails` and
`WorkerReturns` the workers, and `HostSilent` a retrieval that never ends, since
requests have no timeout: its worker keeps row and connection. `ControlConnects`
and `WorkerConnects` take connections from a pool of `NumConnections`, of which
`NumWorkers` leaves one to the control thread. `Start`, `NextRun`, `Sleep`, `Exit`
and `Crash` are the subcommand's loop, its end on an error, and the restart by the
cluster. `ContentAges`, `UpdatedElsewhere` and `DeleteContents` happen at any
time.

Run `podcast_crawler`: two podcasts with up to two contents in pages of two rows,
so that a page is cut between two rows of a podcast; one place in the channel
and one worker; one change by others and one fault, at any point. Intervals of 2
and 3 and a jitter of 1 make podcasts that are due by chance, for one content
but not the other, and overdue. It shows `EveryPromiseSent`, `RowsHandled`,
`PoolSuffices`, `SentFromOnePage`, `ContentKept` and `OverdueIsRetrieved`. Deadlock
is not checked, as a reingestion ends.

The run has 128,687 states.

Fairness: weak for the control thread and for each worker. They are scheduled by
the operating system and wait for each other, for a connection, or for a host;
that a host answers is not assumed, as `HostSilent` may happen in any retrieval of
a crawl and ends the worker's part in `Work`. `OverdueIsRetrieved` therefore has the
two exceptions of the code, in which a process stops for good (`Stuck`): the
control thread stays in `send` when the channel is full and each worker has failed
to get a connection or waits for a silent host; and it stays in `join` when the
others have ended and one waits for a silent host. With a worker left that
receives, a run does not stop before its `join`.

`PodcastCrawlerProofs` proves the five safety properties for any podcasts, sizes
of pool, page and channel, intervals and limit of the cleaner. `CInv` consists of
the types and: `StillDue` and `NoneSkipped` (who is promised is sent, on the page,
or ahead of the cursor and still selected by the query), `SentBehind` (who was
sent is behind the cursor, or will not be selected again), `PageWhileSending`;
`Accounted` (each row sent is in the channel, in a hand, or handled), `HandsFull`,
`ReturnedDrained` (a worker returns only when the channel is closed and empty)
and `AllJoined`. `EveryPromiseSent` is inductive with the first group only,
`RowsHandled` follows from the second; `PoolSuffices` is a count of threads, and
`ContentKept` needs that the cleaner keeps at least one. `OverdueIsRetrieved` is
liveness and stays with TLC.

## 7. Directory

`Directory` has the tables `directory_search`, their joins, `directory_podcast`
and its link to a podcast; one thread per request; and two threads of the cleaner.
`search`, `joins`, `entry` (its vendor), `feed` (its `feed_url`), `link` (its
`podcast_id`) and `podcastOf` (the podcast whose location a feed is) are committed
rows, `tx` is what an open transaction has read and written, `batch` what a thread
of the cleaner has selected and locked, `fetched` and `fetchAge` the history of
the last fetch of a search.

`SelectDirectorySearch`, `SelectCachedResults`, `UpdateDirectorySearch` or
`InsertDirectorySearch`, `FetchResults`, one `UpsertRow` per row, and
`CommitSearch` with `refresh_joins` are the searcher. `LoadResults` is the
statement with which `search_get` reads the page after that transaction.
`SaveDirPodcast` and `DirPodcastGone` end the directory updater's transaction around
the nested updater; `StatementFails` is any error of either mediator. A vendor's
result may come with another feed than before: the upsert's DO UPDATE sets the
entry's `feed` and leaves its `link`, so that an entry may be linked to the
podcast of a feed that it no longer has. `SaveDirPodcast` writes the row back as
the endpoint had read it, which undoes such a move, and sets `link` to the podcast
of that feed. A batch selects, locks row after row and deletes (`SelectBatch`,
`LockRow`, `DeleteSearches`, `DeleteEntries`), or fails.

PostgreSQL's rules are external: who holds a row (`Holders`), who waits
(`WaitsFor`), and that a transaction on a cycle is aborted (`DeadlockVictim`). The
upsert takes its rows in the order of the results, so two searches with results
in opposite orders do deadlock in the model. A result list that names a
collection twice fails its search (`RowRepeated`): one INSERT may not touch a row
twice. Foreign keys are guards:
`Restricted` for results that a search shows, CASCADE for the joins of a search.

Run `directory`: two threads and three requests, one query, two vendors and two
feeds, one of them that of a podcast at first. An answer has both vendors, each
with its feed; or both in the opposite order, the second vendor having moved to
the first one's feed; or the first vendor twice. Two first searches
make two rows of the query, which are then like two queries. Three requests are
a search, one that races it, and an expansion or a refresh; three ids of each
table are enough that one is always free. The run has 72,060 states. It shows
`CacheCoherent`, `LinkKept` (an entry's link is set to the podcast of the feed it has
from then on, however feeds move and podcasts are made between the reads and the
write; once set, only an expansion of this entry points it elsewhere, and only a
batch that had selected the entry takes it away), `RequestsEnd` and
`CleanedInTheEnd`. Deadlock is not checked, as requests are bounded.

Fairness: statements whose locks are free are executed, and `subcommand_clean` runs
its threads again and again; requests, the ageing of searches and failures have
none. `FetchResults` and `SaveDirPodcast` contain HTTP requests, the first while the
search's row is locked, and the code gives them no timeout. `RequestsEnd` and
`CleanedInTheEnd` assume that the directory and the hosts answer or break off: a
silent directory would keep the row locked, and a batch of the cleaner that has
selected it waiting.

`DirectoryProofs` proves `TypeOK`, `CacheCoherent` and `LinkKept` for any requests,
queries, vendors and results. `DInv` has the part of `CacheCoherent` that is about
the tables (`TablesCoherent`) and for each request what locks and sequences
achieve between its statements: `Named` (the search that it goes on with is of
its query, or has gone), `Locked` (while it writes, no batch holds the search),
`Alone` (a search that it inserts is no one else's) and `RowsLocked` (the rows that it
has upserted are there, or its own, and no batch holds them), so that the joins
it writes refer to rows. `EntriesLinked` keeps rows, feeds and links of entries in
step, and for the cleaner there is `HeldSelected`. `LinkKept` needs `LInv` besides:
the map of podcasts that a search has read agrees with `podcastOf` until it commits,
since a location never changes its podcast, and the entries that it inserts are
no one else's (`Pending`). Ids are the
smallest free ones, which exist by `LeastNatural`. `RequestsEnd` and
`CleanedInTheEnd` are liveness and stay with TLC.

Left out: positions, titles and images; the
limit of a batch; the row of `directory` itself, which is there after the first
search.

## 8. Accounts

`Accounts` has the tables `account`, `key`, `verification_code`, `account_podcast`
and `account_podcast_episode` of one podcast and one episode, a cookie per
browser, and requests, each of which passes `SelectKey` and
`TouchAndSelectAccount`, `NotCreated` or `CreateEphemeral` before its handler.
`UpsertSubscribed`, `CheckAccountPodcast`, `UpdateUnsubscribed` and `NotSubscribed`
are the subscriber; `InsertAccountPodcast` or `AccountPodcastConflict` with
`SelectAccountPodcast`, and `UpsertEpisode`, the favoriter and the upserter, whose
columns are `FavoritedRow` and `PlayedRow`; `CheckExistingAccount`,
`InsertOwnedAccount` and `EmailTaken` the sign-up; `SelectAccount` and
`TouchAccount` the login; `RowGone` is a statement that finds its row deleted.
`Respond` sets or removes the cookie, in any order of responses; `Lost` is a
response that never arrives. `SelectExpired`, `DeleteBatch` and `BatchFails` are the
cleaner's thread. `wish` is history: what the mutations that went through ask
for.

Run `accounts`: two requests at once of one browser, all ten operations, one
email, and every state a visitor can have left. Two requests are every pair of
operations, before, during or after a batch. It shows `AccountsWhole`,
`LastWordWins`, `FailsOnlyIfCleaned`, `SessionKept`, `NothingLost` and
`CleanedInTheEnd`. The run `accounts_unsubscribe` finds `UnsubscribeFindsRow` violated on
the same instance: the cleaner deletes the account, and the row with it, between
the check and the update of an unsubscription (section 9). `BatchFails` is the
foreign key; a batch that is lost for another reason leaves the tables as if it
had not begun, and has no step. Deadlock is not checked, as requests are bounded. Fairness:
executors take their messages, and the cleaner runs again and again.

`AccountsProofs` proves the five safety properties for any requests, browsers,
emails and operations. `AInv` has the types, `FreshIds` (no row has an id that the
sequence has yet to give), `BatchInside`, `JarsKnown`, and for each request
`KnownBy` (the ids it holds were given out), `FilledBy` (what its phase has filled
in), `RowThere` (the row it goes on with exists, or its account has gone),
`InsertsAlone` (no two open insertions for one account), `FailsFairly` and
`KeepsSession`. The argument is that of `RequestKeeps`: whatever a step does to the
tables, it keeps what another request relies on, since ids are not reused,
owned accounts stay and a row goes only with its account. `CleanedInTheEnd` is
liveness and stays with TLC.

Left out: several podcasts (rows of different ones never meet but in the
deletion of their account), hashes, the merge of an ephemeral account into a
new one that a TODO announces, and `account_destroyer`, which only its tests
call. Pages read rows in one statement and change nothing (`View`).

## 9. Findings and observations

- `subcommand_work` ignores `run_once` (`src/bin/podcore/main.rs:411`), whose
  help text says "Run only one time instead of looping".
- Overlapping workers lose error counts (`src/mediators/job_worker.rs:161`).
- The comment at `src/mediators/job_worker.rs:77` has the flag inverted: the
  loop is only left when `run_once` is true.
- A permanent redirect is never remembered (`src/http_requester.rs:130`).
- The shortcut mixes two contents when a feed returns to an earlier one
  (`src/mediators/podcast_updater.rs:111`).
- An unsubscription may find no row (`src/mediators/account_podcast_subscriber.rs:95`),
  where the comment says that after the check, in the same transaction, it is
  safe to expect a result: the check takes no lock, and the cleaner may delete the
  ephemeral account in between.
- An exception outlives a success that took the shortcut
  (`src/mediators/podcast_updater.rs:132`); nothing promises otherwise.

What the models show of the code and no text denies, or what a reader of the
modules will ask:

- A search has no unique index on directory and query: two first searches
  insert two rows, and later searches take either
  (`src/mediators/directory_podcast_searcher.rs:64`).
- Two searches whose results come in opposite orders may deadlock; one request
  fails (`:283`). A search fails as well if the directory's answer names a
  collection twice, since all results are upserted by one statement.
- The cleaner may delete a search that was refreshed after it had been selected,
  and the page that was to show it is empty, while
  `src/mediators/cleaner.rs:128` says that searches in use are never removed.
- The directory updater's exception is never stored: the error that it records
  rolls back its transaction (`src/mediators/directory_podcast_updater.rs:49`). The
  comment at `:151` says as much, that the record should still be there but is not;
  no test reads it.
- Its `save_changes` (`:71`) writes the whole row that the endpoint has read before the
  retrieval: a `feed_url` that a search has moved meanwhile is set back, with the
  podcast of the old feed. If the row was read after the move, the expansion
  points it to the podcast of the new feed, while a search that moves the feed
  of an entry leaves it linked to the podcast of the old one
  (`src/mediators/directory_podcast_searcher.rs:290`).
- The cleaner keeps five contents of a podcast, and no episode is ever deleted:
  episodes that a feed has dropped outlive the content they were read from, and
  reingesting, which reads the newest content only, does not bring them back
  (`src/static/sql/cleaner_podcast_feed_content.sql`).
- Two first mutations in parallel create two ephemeral accounts, and the one
  whose cookie arrives first is lost to its user. So is one whose response
  comes after that of a login. A login without a session creates an ephemeral
  account on the way; a sign-up or login leaves the former account behind
  (`src/web/endpoints.rs:1620` has a TODO).
- The mutation that unsubscribes is documented to return null for who was not
  subscribed (`src/graphql/operations.rs:91`); it returns a row if one exists
  through a favorite or a played episode. The account page lists podcasts by
  such rows too, unsubscribed ones included.
- The cleaner deletes an account that was touched after it had been selected,
  since the condition is not evaluated again (`src/static/sql/cleaner_account.sql:6`).
  A new row of the account makes its whole batch fail, and the process ends and
  is started again.
- No HTTP request has a timeout (`src/http_requester.rs`). A host that never answers
  keeps a worker of the crawler, so that the run does not pass its `join`; with no
  worker left that has a connection and is not so kept, the crawler waits in
  `send` (`src/mediators/podcast_crawler.rs:91`). Either way nothing is crawled until the
  process is started anew.
- One complete item with a date that does not parse fails the whole feed
  (`src/mediators/podcast_updater.rs:197`), an item that lacks a field does not; an
  empty tag fails it as well (`:673`). A second channel is said to be skipped but
  is only logged (`:763`); its elements reach `parse_rss`, whose end may then come
  early, which is harmless as the first channel has been read. Errors of the
  reader are passed over (`:711`).
