--------------------------- MODULE PodcastCrawler ---------------------------
(***************************************************************************)
(* The process that retrieves every podcast that is due, `podcore crawl`   *)
(* (mediators/podcast_crawler.rs), the one that writes every podcast anew, *)
(* `podcore reingest` (mediators/podcast_reingester.rs), and the cleaner's *)
(* deletion of old contents, on which what they select depends.            *)
(*                                                                         *)
(* The control thread selects pages of rows in the order of ids and sends  *)
(* each row over a bounded channel; worker threads receive rows and run    *)
(* the updater on them.  Every thread needs a connection of the pool.      *)
(*                                                                         *)
(* Abstractions.  A row of a page is the id of its podcast, so that pages, *)
(* channel and history count rows per podcast.  Time is the age of a       *)
(* podcast's last_retrieved_at, in a unit of the jitter, up to Long; a     *)
(* content is recent or old, for the month of the query.  A run of the     *)
(* updater is one step here: PodcastUpdater has its statements.            *)
(***************************************************************************)
EXTENDS Naturals, FiniteSets

CONSTANTS
    Podcasts,        \* ids of table podcast
    NumConnections,  \* --num-connections: the size of the pool
    PageSize,        \* PAGE_SIZE
    Capacity,        \* capacity of the channel
    Short, Long,     \* REFRESH_INTERVAL_SHORT, REFRESH_INTERVAL_LONG
    Jitter,          \* JITTER_MINUTES
    ContentLimit,    \* PODCAST_FEED_CONTENT_LIMIT
    MaxContents,     \* bound: contents of one podcast
    MaxChanges,      \* bound: what other processes do, and contents that age
    MaxFaults        \* bound: errors of the database and deaths of the process

ASSUME PodcastsAssumption == Podcasts \subseteq Nat \ {0} /\ IsFiniteSet(Podcasts)
ASSUME SizesAssumption ==
    /\ NumConnections \in Nat \ {0} /\ PageSize \in Nat \ {0} /\ Capacity \in Nat \ {0}
    /\ ContentLimit \in Nat \ {0} /\ MaxContents \in Nat \ {0}
    /\ MaxChanges \in Nat /\ MaxFaults \in Nat
ASSUME IntervalsAssumption ==
    Short \in Nat /\ Long \in Nat /\ Jitter \in Nat /\ Jitter < Short /\ Short <= Long

VARIABLES
    \* the database
    age,        \* [Podcasts -> age of last_retrieved_at]
    recent,     \* [Podcasts -> contents retrieved within a month]
    old,        \* [Podcasts -> other contents]; no content at all: no podcast
    \* the process
    command,    \* the subcommand it was started with
    pc,         \* where the control thread is
    last_id,    \* the local variable of page_podcasts
    page,       \* rows of the page that have not been sent
    channel,    \* rows in the channel
    worker,     \* where a worker thread is
    hand,       \* the podcast it is retrieving, or 0
    changes,    \* changes by others so far
    faults,     \* errors and deaths so far
    \* history of a run, read by the loop of subcommand_crawl only (num_podcasts)
    sent,       \* rows sent, for each podcast
    handled,    \* rows a worker has finished
    promised    \* podcasts the run has to send

dbVars == <<age, recent, old>>
controlVars == <<command, pc, last_id, page>>
workerVars == <<worker, hand>>
historyVars == <<sent, handled, promised>>
counters == <<changes, faults>>
vars == <<dbVars, controlVars, channel, workerVars, counters, historyVars>>

NoRows == [p \in Podcasts |-> 0]

(* The number of rows in a page or a channel. *)
Size(rows) == Cardinality({r \in Podcasts \X (1..MaxContents) : r[2] <= rows[r[1]]})

NumWorkers_All == NumConnections
NumWorkers == NumConnections - 1
Spawned == 1..NumWorkers

Existing == {p \in Podcasts : recent[p] + old[p] > 0}

Connected(w) == worker[w] \in {"receive", "retrieve", "hung"}
Free ==
    NumConnections - Cardinality({w \in Spawned : Connected(w)})
                   - (IF pc \in {"select", "send"} THEN 1 ELSE 0)

(* The Sender has been dropped: page_podcasts has returned, or failed. *)
Closed == pc \in {"join", "exit"}

-----------------------------------------------------------------------------
(***************************************************************************)
(* The query of the crawler: a podcast is joined with its contents, and so *)
(* has a row for each content for which it is due.  Jitter is drawn per    *)
(* row and lets a row be due earlier, never later.                         *)
(***************************************************************************)
DueAt_RecentOnly(p, a) == IF a >= Short THEN recent[p] ELSE 0
DueAt(p, a) == (IF a >= Short THEN recent[p] ELSE 0) + (IF a >= Long THEN old[p] ELSE 0)

CrawlerRows ==
    {rows \in [Podcasts -> 0..MaxContents] :
        \A p \in Podcasts : rows[p] \in DueAt(p, age[p])..DueAt(p, age[p] + Jitter)}

(* The query of the reingester: every podcast, with its newest content. *)
ReingesterRows == {[p \in Podcasts |-> IF p \in Existing THEN 1 ELSE 0]}

Rows == IF command = "crawl" THEN CrawlerRows ELSE ReingesterRows

(* WHERE id > from ORDER BY id LIMIT PageSize *)
After_NotBefore(from, p) == p >= from
After(from, p) == p > from

IsPage_Unordered(pg, rows, from) ==
    /\ \A p \in Podcasts : pg[p] <= (IF After(from, p) THEN rows[p] ELSE 0)
    /\ Size(pg) <= PageSize
    /\ (\E p \in Podcasts : After(from, p) /\ pg[p] < rows[p]) => Size(pg) = PageSize
IsPage(pg, rows, from) ==
    /\ \A p \in Podcasts : pg[p] <= (IF After(from, p) THEN rows[p] ELSE 0)
    /\ \A p, q \in Podcasts : After(from, p) /\ p < q /\ pg[q] > 0 => pg[p] = rows[p]
    /\ Size(pg) <= PageSize
    /\ (\E p \in Podcasts : After(from, p) /\ pg[p] < rows[p]) => Size(pg) = PageSize

Pages == {pg \in [Podcasts -> 0..MaxContents] : \E rows \in Rows : IsPage(pg, rows, last_id)}

LastOf(pg) == CHOOSE p \in Podcasts : pg[p] > 0 /\ \A q \in Podcasts : pg[q] > 0 => q <= p
FirstOf(pg) == CHOOSE p \in Podcasts : pg[p] > 0 /\ \A q \in Podcasts : pg[q] > 0 => p <= q

(* What every run has to send: jitter or not, each row of these is due. *)
Overdue(p) == p \in Existing /\ age[p] = Long
Promised == IF command = "crawl" THEN {p \in Podcasts : Overdue(p)} ELSE Existing

-----------------------------------------------------------------------------
Init ==
    /\ recent \in [Podcasts -> {0, 1}]
    /\ old = NoRows
    /\ age \in {a \in [Podcasts -> {0, Long}] : \A p \in Podcasts : recent[p] = 0 => a[p] = 0}
    /\ command \in {"crawl", "reingest"}
    /\ pc = "down"
    /\ last_id = 0
    /\ page = NoRows
    /\ channel = NoRows
    /\ worker = [w \in Spawned |-> "none"]
    /\ hand = [w \in Spawned |-> 0]
    /\ changes = 0
    /\ faults = 0
    /\ sent = NoRows
    /\ handled = NoRows
    /\ promised = {}

(***************************************************************************)
(* The world around the process.                                           *)
(***************************************************************************)
Tick ==
    /\ \E p \in Existing : age[p] < Long
    /\ age' = [p \in Podcasts |->
                  IF p \in Existing /\ age[p] < Long THEN age[p] + 1 ELSE age[p]]
    /\ UNCHANGED <<recent, old, controlVars, channel, workerVars, counters, historyVars>>

Change == changes < MaxChanges /\ changes' = changes + 1

(* A content turns a month old. *)
ContentAges(p) ==
    /\ Change
    /\ recent[p] > 0
    /\ recent' = [recent EXCEPT ![p] = @ - 1]
    /\ old' = [old EXCEPT ![p] = @ + 1]
    /\ UNCHANGED <<age, controlVars, channel, workerVars, faults, historyVars>>

(* Another process brings a podcast up to date, or adds it; ids are drawn  *)
(* before transactions commit, and so may appear in any order.             *)
UpdatedElsewhere(p) ==
    /\ Change
    /\ p \in Existing => age[p] > 0
    /\ age' = [age EXCEPT ![p] = 0]
    /\ recent' = [recent EXCEPT ![p] = IF p \in Existing THEN @ ELSE 1]
    /\ promised' = promised \ {p}
    /\ UNCHANGED <<old, controlVars, channel, workerVars, faults, sent, handled>>

(* A batch of the cleaner's thread for contents: those beyond the newest   *)
(* ones of a podcast are deleted.                                          *)
Kept_OneLess == ContentLimit - 1
Kept == ContentLimit

DeleteContents(p) ==
    /\ Change
    /\ recent[p] + old[p] > Kept
    /\ recent' = [recent EXCEPT ![p] = IF @ < Kept THEN @ ELSE Kept]
    /\ old' = [old EXCEPT ![p] = IF recent[p] < Kept THEN Kept - recent[p] ELSE 0]
    /\ UNCHANGED <<age, controlVars, channel, workerVars, faults, historyVars>>

Environment ==
    \/ Tick
    \/ \E p \in Podcasts : ContentAges(p) \/ UpdatedElsewhere(p) \/ DeleteContents(p)

-----------------------------------------------------------------------------
(***************************************************************************)
(* The control thread: run_inner and page_podcasts, in the loop of         *)
(* subcommand_crawl, or once for subcommand_reingest.                      *)
(***************************************************************************)
BeginRun ==
    /\ pc' = "connect"
    /\ worker' = [w \in Spawned |-> "connect"]
    /\ hand' = [w \in Spawned |-> 0]
    /\ channel' = NoRows
    /\ page' = NoRows
    /\ last_id' = 0
    /\ sent' = NoRows
    /\ handled' = NoRows
    /\ promised' = Promised
    /\ UNCHANGED <<dbVars, command, counters>>

(* The process starts, or is started again by the cluster. *)
Start == pc = "down" /\ BeginRun

(* The loop of subcommand_crawl: at once if the run has sent any podcast,  *)
(* else after a sleep.                                                     *)
Sleep ==
    /\ pc = "ended" /\ command = "crawl" /\ sent = NoRows
    /\ pc' = "sleep"
    /\ UNCHANGED <<dbVars, command, last_id, page, channel, workerVars, counters, historyVars>>

NextRun ==
    /\ \/ pc = "sleep"
       \/ pc = "ended" /\ command = "crawl" /\ sent # NoRows
    /\ BeginRun

ControlConnects ==
    /\ pc = "connect"
    /\ Free > 0
    /\ pc' = "select"
    /\ UNCHANGED <<dbVars, command, last_id, page, channel, workerVars, counters, historyVars>>

(* The crawler takes last_id from the page it has selected, the reingester *)
(* once it has sent the page.                                              *)
CrawlerSelects ==
    /\ pc = "select" /\ command = "crawl"
    /\ \E pg \in Pages \ {NoRows} :
          /\ page' = pg
          /\ last_id' = LastOf(pg)
    /\ pc' = "send"
    /\ UNCHANGED <<dbVars, command, channel, workerVars, counters, historyVars>>

ReingesterSelects ==
    /\ pc = "select" /\ command = "reingest"
    /\ \E pg \in Pages \ {NoRows} : page' = pg
    /\ pc' = "send"
    /\ UNCHANGED <<dbVars, command, last_id, channel, workerVars, counters, historyVars>>

(* All podcasts consumed: the Sender is dropped. *)
SelectsNone ==
    /\ pc = "select"
    /\ NoRows \in Pages
    /\ pc' = "join"
    /\ UNCHANGED <<dbVars, command, last_id, page, channel, workerVars, counters, historyVars>>

(* Blocks while the channel is full. *)
SendRow ==
    /\ pc = "send"
    /\ Size(channel) < Capacity
    /\ LET p == FirstOf(page)
           rest == [page EXCEPT ![p] = @ - 1]
       IN  /\ page' = rest
           /\ channel' = [channel EXCEPT ![p] = @ + 1]
           /\ sent' = [sent EXCEPT ![p] = @ + 1]
           /\ pc' = IF rest = NoRows THEN "select" ELSE "send"
           /\ last_id' = IF rest = NoRows /\ command = "reingest" THEN p ELSE last_id
    /\ UNCHANGED <<dbVars, command, workerVars, counters, handled, promised>>

Join ==
    /\ pc = "join"
    /\ \A w \in Spawned : worker[w] \in {"returned", "failed"}
    /\ pc' = "ended"
    /\ UNCHANGED <<dbVars, command, last_id, page, channel, workerVars, counters, historyVars>>

(* The `?` of the pool or of a query: run_inner returns without joining    *)
(* its workers, which go on until handle_error has ended the process.      *)
ControlFails ==
    /\ pc \in {"connect", "select"}
    /\ faults < MaxFaults
    /\ faults' = faults + 1
    /\ pc' = "exit"
    /\ UNCHANGED <<dbVars, command, last_id, page, channel, workerVars, changes, historyVars>>

ProcessGone ==
    /\ pc' = "down"
    /\ worker' = [w \in Spawned |-> "none"]
    /\ hand' = [w \in Spawned |-> 0]
    /\ channel' = NoRows
    /\ page' = NoRows
    /\ last_id' = 0
    /\ sent' = NoRows
    /\ handled' = NoRows
    /\ promised' = {}
    /\ UNCHANGED <<dbVars, command, changes>>

Exit == pc = "exit" /\ ProcessGone /\ UNCHANGED faults

(* The process dies; open transactions are rolled back. *)
Crash ==
    /\ pc \notin {"down", "exit"}
    /\ pc = "ended" => command = "crawl"
    /\ faults < MaxFaults
    /\ faults' = faults + 1
    /\ ProcessGone

Control ==
    \/ Start \/ Sleep \/ NextRun \/ ControlConnects
    \/ CrawlerSelects \/ ReingesterSelects \/ SelectsNone
    \/ SendRow \/ Join \/ Exit

-----------------------------------------------------------------------------
(***************************************************************************)
(* A worker thread: the function `work` of either mediator.                *)
(***************************************************************************)
WorkerConnects(w) ==
    /\ worker[w] = "connect"
    /\ Free > 0
    /\ worker' = [worker EXCEPT ![w] = "receive"]
    /\ UNCHANGED <<dbVars, controlVars, channel, hand, counters, historyVars>>

(* pool.get times out: the thread returns an error that nobody reads. *)
WorkerFails(w) ==
    /\ worker[w] = "connect"
    /\ faults < MaxFaults
    /\ faults' = faults + 1
    /\ worker' = [worker EXCEPT ![w] = "failed"]
    /\ UNCHANGED <<dbVars, controlVars, channel, hand, changes, historyVars>>

ReceiveRow(w) ==
    /\ worker[w] = "receive"
    /\ \E p \in Podcasts :
          /\ channel[p] > 0
          /\ channel' = [channel EXCEPT ![p] = @ - 1]
          /\ hand' = [hand EXCEPT ![w] = p]
    /\ worker' = [worker EXCEPT ![w] = "retrieve"]
    /\ UNCHANGED <<dbVars, controlVars, counters, historyVars>>

Retrieved(w) ==
    /\ worker[w] = "retrieve"
    /\ handled' = [handled EXCEPT ![hand[w]] = @ + 1]
    /\ hand' = [hand EXCEPT ![w] = 0]
    /\ worker' = [worker EXCEPT ![w] = "receive"]
    /\ UNCHANGED <<controlVars, channel, changes, sent, promised>>

(* The updater commits, or fails and records the exception: both set       *)
(* last_retrieved_at.  A success may have inserted a content or refreshed  *)
(* an old one.                                                             *)
RetrieveRow(w) ==
    LET p == hand[w]
    IN  /\ Retrieved(w)
        /\ age' = [age EXCEPT ![p] = 0]
        /\ \/ UNCHANGED <<recent, old>>
           \/ /\ recent[p] + old[p] < MaxContents
              /\ recent' = [recent EXCEPT ![p] = @ + 1]
              /\ UNCHANGED old
           \/ /\ old[p] > 0
              /\ recent' = [recent EXCEPT ![p] = @ + 1]
              /\ old' = [old EXCEPT ![p] = @ - 1]
        /\ UNCHANGED faults

(* The updater fails before it has an update to recover from, or its       *)
(* recovery fails too.  The worker goes on with the next row.              *)
RetrievalFails(w) ==
    /\ faults < MaxFaults
    /\ faults' = faults + 1
    /\ Retrieved(w)
    /\ UNCHANGED dbVars

(* The host neither answers nor breaks off: the request of the crawler has *)
(* no timeout (http_requester.rs), and the worker keeps its connection and *)
(* its row for as long as the process lives.                               *)
HostSilent(w) ==
    /\ worker[w] = "retrieve" /\ command = "crawl"
    /\ worker' = [worker EXCEPT ![w] = "hung"]
    /\ UNCHANGED <<dbVars, controlVars, channel, hand, counters, historyVars>>

(* recv returns None once the Sender is dropped and the channel is empty. *)
Drained_NotAwaited == Closed
Drained == Closed /\ channel = NoRows

WorkerReturns(w) ==
    /\ worker[w] = "receive"
    /\ Drained
    /\ worker' = [worker EXCEPT ![w] = "returned"]
    /\ UNCHANGED <<dbVars, controlVars, channel, hand, counters, historyVars>>

Work(w) ==
    \/ WorkerConnects(w) \/ ReceiveRow(w) \/ RetrieveRow(w) \/ WorkerReturns(w)

Faults ==
    \/ ControlFails \/ Crash
    \/ \E w \in Spawned : WorkerFails(w) \/ RetrievalFails(w) \/ HostSilent(w)

Next ==
    \/ Environment
    \/ Control
    \/ \E w \in Spawned : Work(w)
    \/ Faults

(***************************************************************************)
(* Threads are scheduled, and the cluster starts the process again; none   *)
(* waits for a condition that another can take away for ever.  A retrieval *)
(* ends unless its host is silent.  Nothing is assumed of the environment, *)
(* not that hosts answer.                                                  *)
(***************************************************************************)
Fairness == WF_vars(Control) /\ \A w \in Spawned : WF_vars(Work(w))
Spec == Init /\ [][Next]_vars /\ Fairness

-----------------------------------------------------------------------------
TypeOK ==
    /\ age \in [Podcasts -> 0..Long]
    /\ recent \in [Podcasts -> Nat] /\ old \in [Podcasts -> Nat]
    /\ command \in {"crawl", "reingest"}
    /\ pc \in {"down", "connect", "select", "send", "join", "ended", "sleep", "exit"}
    /\ last_id \in Podcasts \cup {0}
    /\ page \in [Podcasts -> 0..MaxContents]
    /\ channel \in [Podcasts -> Nat]
    /\ worker \in [Spawned -> {"none", "connect", "receive", "retrieve", "hung", "returned", "failed"}]
    /\ hand \in [Spawned -> Podcasts \cup {0}]
    /\ changes \in 0..MaxChanges /\ faults \in 0..MaxFaults
    /\ sent \in [Podcasts -> Nat] /\ handled \in [Podcasts -> Nat]
    /\ promised \subseteq Podcasts

(* Paging skips nobody: when page_podcasts returns, every podcast that was *)
(* overdue when the run began, or that existed when a reingestion began,   *)
(* has been sent, whatever changed between two pages.                      *)
EveryPromiseSent ==
    pc \in {"join", "ended", "sleep"} => \A p \in promised : sent[p] > 0

(* A run selects a podcast in one page only: a page that is cut between    *)
(* two rows of a podcast does not make the next page begin with it, and a  *)
(* podcast just retrieved is not found again by the run that retrieved it. *)
SentFromOnePage ==
    [][pc = "select" /\ pc' = "send" =>
          \A p \in Podcasts : page'[p] > 0 => sent[p] = 0]_vars

(* A run that ends has handled each row it sent exactly once, unless no    *)
(* worker ever had a connection: then the rows stay in the channel, and    *)
(* run_inner returns Ok all the same.                                      *)
RowsHandled ==
    pc \in {"ended", "sleep"} =>
        handled = sent \/ \A w \in Spawned : worker[w] = "failed"

(* The pool has a connection for every thread: whoever waits for one can   *)
(* have it, and never waits for another thread to end.                     *)
PoolSuffices ==
    pc = "connect" \/ (\E w \in Spawned : worker[w] = "connect") => Free > 0

(* Neither the updater nor the cleaner leaves a podcast without a content: *)
(* the join of the crawler's query would never select it again, and the    *)
(* reingester's query would fail for the whole page.                       *)
ContentKept ==
    [][\A p \in Podcasts : p \in Existing => recent'[p] + old'[p] > 0]_vars

(* A podcast that is overdue is retrieved in the end, through errors and   *)
(* restarts, but for two ways in which a process stops for good: a control *)
(* thread in send with a full channel and no worker left to receive, and   *)
(* one in join with a worker whose host is silent.                         *)
Stuck ==
    \/ /\ pc = "send" /\ Size(channel) = Capacity
       /\ \A w \in Spawned : worker[w] \in {"failed", "hung"}
    \/ /\ pc = "join"
       /\ \A w \in Spawned : worker[w] \in {"returned", "failed", "hung"}
       /\ \E w \in Spawned : worker[w] = "hung"

OverdueIsRetrieved ==
    \A p \in Podcasts :
        command = "crawl" /\ Overdue(p) ~> age[p] < Long \/ Stuck
=============================================================================
