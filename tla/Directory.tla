------------------------------ MODULE Directory ------------------------------
(***************************************************************************)
(* The directory's cached searches: the mediator that searches iTunes      *)
(* (mediators/directory_podcast_searcher.rs), the one that turns a result  *)
(* into a podcast (mediators/directory_podcast_updater.rs), the endpoints  *)
(* that run them, one request per thread, and the two threads of the       *)
(* cleaner that delete old searches and dangling results.  Tables:         *)
(* directory_search, directory_podcast, directory_podcast_directory_search *)
(* and, as far as a directory podcast refers to it, podcast.               *)
(*                                                                         *)
(* Each run of a mediator and each batch is a transaction at READ          *)
(* COMMITTED.  What it writes is kept in its record until it commits; the  *)
(* rows it has written are locked until it ends.  A statement that writes  *)
(* several rows takes their locks one after the other, and PostgreSQL      *)
(* aborts a transaction that it finds on a cycle of waiting ones.          *)
(*                                                                         *)
(* Abstractions.  A search is fresh for an hour (0), stale (1), and        *)
(* expired after a week (2).  The positions of results, their titles and   *)
(* images are left out.  The nested podcast_updater is one step, as its    *)
(* writes belong to the outer transaction; the podcasts that other callers *)
(* of it make are the known ones.  When it fails, the exceptions that it   *)
(* and upsert_exception write are rolled back with the outer transaction,  *)
(* and so directory_podcast_exception never has a row.                     *)
(***************************************************************************)
EXTENDS Naturals, FiniteSets, Sequences

CONSTANTS
    Requests,     \* threads that serve requests, and commands
    Queries,      \* queries that are searched for
    Searches,     \* ids of table directory_search
    Vendors,      \* vendor_ids of results
    Feeds,        \* feed_urls of results
    Podcasts,     \* ids of table podcast
    KnownPodcasts,\* [Feeds -> the podcast with that location at first, or 0]
    Results,      \* answers of the directory: sequences of SearchResult
    Entries,      \* ids of table directory_podcast
    MaxRequests,  \* bound: requests that are begun
    None          \* no row

Cleaners == {"directory_search", "directory_podcast"}

ASSUME IdsAssumption ==
    /\ Searches \subseteq Nat \ {0} /\ IsFiniteSet(Searches)
    /\ Entries \subseteq Nat \ {0} /\ IsFiniteSet(Entries)
    /\ Podcasts \subseteq Nat \ {0}
ASSUME ResultsAssumption ==
    /\ Results \subseteq Seq([vendor_id : Vendors, feed_url : Feeds])
    /\ KnownPodcasts \in [Feeds -> Podcasts \cup {0}]
ASSUME NoneAssumption ==
    /\ None \notin Vendors /\ None \notin Feeds /\ None \notin Queries
    /\ None \notin [query : Queries, age : 0..2]
ASSUME ActorsAssumption == Requests \cap Cleaners = {}
ASSUME RequestsAssumption == MaxRequests \in Nat

VARIABLES
    \* the database
    search,      \* directory_search: [Searches -> [query, age] or None]
    joins,       \* [Searches -> entries of directory_podcast it is joined with]
    entry,       \* directory_podcast: [Entries -> vendor_id or None]
    feed,        \* its feed_url: [Entries -> Feeds or None]
    link,        \* its podcast_id: [Entries -> Podcasts or 0]
    podcastOf,   \* podcast_feed_location: [Feeds -> the podcast, or 0]
    \* a transaction
    pc,          \* the statement a request or a cleaner is about to execute
    tx,          \* what the request has read and written
    batch,       \* [Cleaners -> the rows selected, and those locked so far]
    requests,    \* requests begun so far
    \* history
    fetched,     \* [Searches -> entries its last committed fetch returned]
    fetchAge     \* [Searches -> age of that fetch]

dbVars == <<search, joins, entry, feed, link, podcastOf>>
txVars == <<pc, tx, batch>>
historyVars == <<fetched, fetchAge>>
vars == <<dbVars, txVars, requests, historyVars>>

SearchResult(v, f) == [vendor_id |-> v, feed_url |-> f]

(* query, the search found or inserted; the entry to expand and the        *)
(* feed_url it was read with; results left to upsert, the podcast_id_map   *)
(* of their feeds, the feed_url upserted for an entry, and the entry       *)
(* inserted for a vendor.                                                  *)
NewTx(query, dir_podcast, feed_url) ==
    [query |-> query, search |-> 0, dir_podcast |-> dir_podcast, feed_url |-> feed_url,
     todo |-> <<>>, podcasts |-> [f \in Feeds |-> 0],
     feeds |-> [e \in Entries |-> None], inserted |-> [v \in Vendors |-> 0]]
NoTx == NewTx(None, 0, None)
NoBatch == [todo |-> {}, held |-> {}]

SearchRow(query, age) == [query |-> query, age |-> age]

-----------------------------------------------------------------------------
(***************************************************************************)
(* Rows, locks and ids.                                                    *)
(***************************************************************************)
Inserted(r) == {tx[r].inserted[v] : v \in Vendors} \ {0}
Upserted(r) == {e \in Entries : tx[r].feeds[e] # None}
Writing == {"fetch", "upsert"}

(* The transactions that hold the row of a search, or an entry's row, or   *)
(* are about to commit a row with a vendor_id.                             *)
SearchHolders(s) ==
    {r \in Requests : pc[r] \in Writing /\ tx[r].search = s}
    \cup {c \in {"directory_search"} : s \in batch[c].held}
EntryHolders(e) ==
    {r \in Requests : e \in Upserted(r)}
    \cup {c \in {"directory_podcast"} : e \in batch[c].held}
VendorHolders(v) == {r \in Requests : tx[r].inserted[v] # 0}

EntriesOf(v) == {e \in Entries : entry[e] = v}
Joined(e) == \E s \in Searches : e \in joins[s]

(* Ids come from sequences: one that has never been used is one that       *)
(* nothing refers to.                                                      *)
Smallest(S) == CHOOSE n \in S : \A m \in S : n <= m
FreshSearches ==
    {s \in Searches : search[s] = None /\ \A r \in Requests : tx[r].search # s
                      /\ s \notin batch["directory_search"].todo}
FreshEntries ==
    {e \in Entries : /\ entry[e] = None
                     /\ e \notin batch["directory_podcast"].todo
                     /\ \A r \in Requests : e # tx[r].dir_podcast /\ e \notin Inserted(r)}
FreshPodcasts == Podcasts \ {podcastOf[f] : f \in Feeds}

(* Whom an actor's next statement waits for. *)
NextEntry(c) == Smallest(batch[c].todo \ batch[c].held)

Holders(a) ==
    CASE pc[a] = "update" -> SearchHolders(tx[a].search)
      [] pc[a] = "upsert" /\ tx[a].todo # <<>> ->
            LET v == Head(tx[a].todo).vendor_id
            IN  VendorHolders(v) \cup UNION {EntryHolders(e) : e \in EntriesOf(v)}
      [] pc[a] = "expand" -> EntryHolders(tx[a].dir_podcast)
      [] pc[a] = "delete" /\ batch[a].todo # batch[a].held ->
            IF a = "directory_search" THEN SearchHolders(NextEntry(a))
            ELSE EntryHolders(NextEntry(a))
      [] OTHER -> {}

WaitsFor(a) == Holders(a) \ {a}

(* On a cycle of waiting transactions. *)
Waiting == {b \in Requests \cup Cleaners : WaitsFor(b) # {}}
Deadlocked(a) ==
    /\ WaitsFor(a) # {}
    /\ \E S \in SUBSET Waiting :
        /\ a \in S
        /\ \A b \in S : WaitsFor(b) \cap S # {} /\ \E c \in S : b \in WaitsFor(c)

Init ==
    /\ search = [s \in Searches |-> None]
    /\ joins = [s \in Searches |-> {}]
    /\ entry = [e \in Entries |-> None]
    /\ feed = [e \in Entries |-> None]
    /\ link = [e \in Entries |-> 0]
    /\ podcastOf = KnownPodcasts
    /\ pc = [a \in Requests \cup Cleaners |-> "idle"]
    /\ tx = [r \in Requests |-> NoTx]
    /\ batch = [c \in Cleaners |-> NoBatch]
    /\ requests = 0
    /\ fetched = [s \in Searches |-> {}]
    /\ fetchAge = [s \in Searches |-> 0]

(* A search grows old. *)
Age(s) ==
    /\ search[s] # None /\ search[s].age < 2
    /\ search' = [search EXCEPT ![s] = SearchRow(@.query, @.age + 1)]
    /\ fetchAge' = [fetchAge EXCEPT ![s] = IF @ < 2 THEN @ + 1 ELSE @]
    /\ UNCHANGED <<joins, entry, feed, link, podcastOf, txVars, requests, fetched>>

-----------------------------------------------------------------------------
(***************************************************************************)
(* Requests: search_get or `podcore search`, and directory_podcast_get.    *)
(***************************************************************************)
Go(r, to) == pc' = [pc EXCEPT ![r] = to]

Begin(r, to, record) ==
    /\ pc[r] = "idle"
    /\ requests < MaxRequests
    /\ requests' = requests + 1
    /\ Go(r, to)
    /\ tx' = [tx EXCEPT ![r] = record]
    /\ UNCHANGED <<dbVars, batch, historyVars>>

BeginSearch(r, query) == Begin(r, "select", NewTx(query, 0, None))

(* The user follows the link of a result, from a page that may be old.     *)
(* The endpoint reads the row before the transaction of the mediator.      *)
BeginExpand(r, e) == entry[e] # None /\ Begin(r, "expand", NewTx(None, e, feed[e]))

(* The end of a request: rolled back, or committed along with it. *)
End(r) ==
    /\ Go(r, "idle")
    /\ tx' = [tx EXCEPT ![r] = NoTx]

Fail(r) ==
    /\ End(r)
    /\ UNCHANGED <<dbVars, batch, requests, historyVars>>

-----------------------------------------------------------------------------
(***************************************************************************)
(* directory_podcast_searcher, statement by statement.  No index makes a   *)
(* query unique, so that two first searches may insert it twice;           *)
(* select_directory_search then takes any of its rows.                     *)
(***************************************************************************)
SearchesOf(query) == {s \in Searches : search[s] # None /\ search[s].query = query}

SelectDirectorySearch(r) ==
    /\ pc[r] = "select"
    /\ \E s \in SearchesOf(tx[r].query) :
          /\ search[s].age > 0
          /\ tx' = [tx EXCEPT ![r].search = s]
    /\ Go(r, "update")
    /\ UNCHANGED <<dbVars, batch, requests, historyVars>>

(* The transaction of a search has ended; its endpoint has a page to fill. *)
EndSearch(r, s) ==
    /\ Go(r, "load")
    /\ tx' = [tx EXCEPT ![r] = [NewTx(@.query, 0, None) EXCEPT !.search = s]]

(* The answer comes from the cache: nothing is written or locked. *)
SelectCachedResults(r) ==
    /\ pc[r] = "select"
    /\ \E s \in SearchesOf(tx[r].query) : search[s].age = 0 /\ EndSearch(r, s)
    /\ UNCHANGED <<dbVars, batch, requests, historyVars>>

(* Waits for the row, and finds it gone if the cleaner was faster. *)
UpdateDirectorySearch(r) ==
    /\ pc[r] = "update"
    /\ WaitsFor(r) = {}
    /\ search[tx[r].search] # None
    /\ Go(r, "fetch")
    /\ UNCHANGED <<dbVars, tx, batch, requests, historyVars>>

SearchGone(r) ==
    /\ pc[r] = "update"
    /\ WaitsFor(r) = {}
    /\ search[tx[r].search] = None
    /\ Fail(r)

(* There is none.  The new row is seen by others when it is committed, so  *)
(* that its insertion and the query before it are one step.                *)
InsertDirectorySearch(r) ==
    /\ pc[r] = "select"
    /\ SearchesOf(tx[r].query) = {}
    /\ FreshSearches # {}
    /\ tx' = [tx EXCEPT ![r].search = Smallest(FreshSearches)]
    /\ Go(r, "fetch")
    /\ UNCHANGED <<dbVars, batch, requests, historyVars>>

(* fetch_results, parse_results, and the lookup of the podcasts that have  *)
(* the feeds; results without a feed are dropped.                          *)
FetchResults(r) ==
    /\ pc[r] = "fetch"
    /\ \E results \in Results :
          tx' = [tx EXCEPT ![r] = [@ EXCEPT !.todo = results, !.podcasts = podcastOf]]
    /\ Go(r, "upsert")
    /\ UNCHANGED <<dbVars, batch, requests, historyVars>>

(* The statement has inserted or updated the row of the next result        *)
(* already: PostgreSQL does not let one command affect a row twice.        *)
Repeated(r) ==
    LET v == Head(tx[r].todo).vendor_id
    IN  tx[r].inserted[v] # 0 \/ EntriesOf(v) \cap Upserted(r) # {}

RowRepeated(r) ==
    /\ pc[r] = "upsert" /\ tx[r].todo # <<>>
    /\ WaitsFor(r) = {}
    /\ Repeated(r)
    /\ Fail(r)

(* upsert_directory_podcasts takes its rows in the order of the results.   *)
UpsertRow(r) ==
    /\ pc[r] = "upsert" /\ tx[r].todo # <<>>
    /\ WaitsFor(r) = {}
    /\ ~Repeated(r)
    /\ LET result == Head(tx[r].todo)
           old == EntriesOf(result.vendor_id)
           e == Smallest(IF old # {} THEN old ELSE FreshEntries)
       IN  /\ old \cup FreshEntries # {}
           /\ tx' = [tx EXCEPT ![r].todo = Tail(@),
                               ![r].feeds[e] = result.feed_url,
                               ![r].inserted[result.vendor_id] = IF old # {} THEN @ ELSE e]
    /\ UNCHANGED <<dbVars, pc, batch, requests, historyVars>>

(* All rows are in: refresh_joins, and the commit.  A new entry is linked  *)
(* if its feed was known; the DO UPDATE of an old one sets its feed_url    *)
(* and leaves its podcast_id alone.                                        *)
JoinsLeft(r) == {}

LinkedAfter_Excluded(r) ==
    [e \in Entries |-> IF e \in Upserted(r) THEN tx[r].podcasts[tx[r].feeds[e]] ELSE link[e]]
LinkedAfter(r) ==
    [e \in Entries |-> IF e \in Inserted(r) THEN tx[r].podcasts[tx[r].feeds[e]] ELSE link[e]]

CommitSearch(r) ==
    LET s == tx[r].search
    IN  /\ pc[r] = "upsert" /\ tx[r].todo = <<>>
        /\ search' = [search EXCEPT ![s] = SearchRow(tx[r].query, 0)]
        /\ joins' = [joins EXCEPT ![s] = JoinsLeft(r) \cup Upserted(r)]
        /\ entry' = [e \in Entries |->
              IF e \in Inserted(r) THEN CHOOSE v \in Vendors : tx[r].inserted[v] = e
              ELSE entry[e]]
        /\ feed' = [e \in Entries |-> IF e \in Upserted(r) THEN tx[r].feeds[e] ELSE feed[e]]
        /\ link' = LinkedAfter(r)
        /\ fetched' = [fetched EXCEPT ![s] = Upserted(r)]
        /\ fetchAge' = [fetchAge EXCEPT ![s] = 0]
        /\ EndSearch(r, s)
        /\ UNCHANGED <<podcastOf, batch, requests>>

(* search_get reads the results for its page in a statement of its own: by *)
(* then the search may have been refreshed again, or deleted, which leaves *)
(* the page empty.                                                         *)
PageOf(r) == joins[tx[r].search]
LoadResults(r) == pc[r] = "load" /\ Fail(r)

-----------------------------------------------------------------------------
(***************************************************************************)
(* directory_podcast_updater.                                              *)
(***************************************************************************)

(* The nested updater retrieves the feed, into the podcast that has it as  *)
(* a location or a new one.  save_changes updates the row by its id, every *)
(* column as the endpoint had read it but for podcast_id; delete_exception *)
(* follows, and the transaction commits, podcast included.                 *)
PodcastFor(f) == IF podcastOf[f] # 0 THEN podcastOf[f] ELSE Smallest(FreshPodcasts)

SaveDirPodcast(r) ==
    LET e == tx[r].dir_podcast
        f == tx[r].feed_url
    IN  /\ pc[r] = "expand"
        /\ WaitsFor(r) = {}
        /\ entry[e] # None
        /\ podcastOf[f] # 0 \/ FreshPodcasts # {}
        /\ feed' = [feed EXCEPT ![e] = f]
        /\ link' = [link EXCEPT ![e] = PodcastFor(f)]
        /\ podcastOf' = [podcastOf EXCEPT ![f] = PodcastFor(f)]
        /\ End(r)
        /\ UNCHANGED <<search, joins, entry, batch, requests, historyVars>>

(* The cleaner has deleted the row: save_changes finds none, and the       *)
(* podcast just retrieved is rolled back.                                  *)
DirPodcastGone(r) ==
    /\ pc[r] = "expand"
    /\ WaitsFor(r) = {}
    /\ entry[tx[r].dir_podcast] = None
    /\ Fail(r)

DeadlockVictim(r) == Deadlocked(r) /\ Fail(r)

(* No answer of the directory or of the feed's host, one that is refused,  *)
(* a row that the schema rejects, a lost connection, the process's end.    *)
StatementFails(r) == pc[r] \in {"select", "update", "fetch", "upsert", "expand"} /\ Fail(r)

Statement(r) ==
    \/ SelectDirectorySearch(r) \/ SelectCachedResults(r)
    \/ UpdateDirectorySearch(r) \/ SearchGone(r) \/ InsertDirectorySearch(r)
    \/ FetchResults(r) \/ UpsertRow(r) \/ RowRepeated(r)
    \/ CommitSearch(r) \/ LoadResults(r)
    \/ SaveDirPodcast(r) \/ DirPodcastGone(r)
    \/ DeadlockVictim(r)

-----------------------------------------------------------------------------
(***************************************************************************)
(* The cleaner: a batch is one statement, which selects rows as they were  *)
(* when it began, waits for the lock of each and deletes it whatever has   *)
(* become of it, as the condition is not evaluated again.                  *)
(***************************************************************************)
Expired == {s \in Searches : search[s] # None /\ search[s].age = 2}
Dangling == {e \in Entries : entry[e] # None /\ link[e] = 0 /\ ~Joined(e)}

SelectBatch(c) ==
    LET rows == IF c = "directory_search" THEN Expired ELSE Dangling
    IN  /\ pc[c] = "idle"
        /\ rows # {}
        /\ batch' = [batch EXCEPT ![c] = [todo |-> rows, held |-> {}]]
        /\ Go(c, "delete")
        /\ UNCHANGED <<dbVars, tx, requests, historyVars>>

LockRow(c) ==
    /\ pc[c] = "delete"
    /\ batch[c].todo # batch[c].held
    /\ WaitsFor(c) = {}
    /\ batch' = [batch EXCEPT ![c].held = @ \cup {NextEntry(c)}]
    /\ UNCHANGED <<dbVars, pc, tx, requests, historyVars>>

EndBatch_LeftOpen(c) == Go(c, "idle") /\ UNCHANGED batch
EndBatch(c) ==
    /\ Go(c, "idle")
    /\ batch' = [batch EXCEPT ![c] = NoBatch]

(* The joins of a search are declared ON DELETE CASCADE, and go with it.   *)
JoinsHinder_Restrict(rows) == \E s \in rows : joins[s] # {}
JoinsHinder(rows) == FALSE

DeleteSearches ==
    LET c == "directory_search"
        rows == batch[c].held
    IN  /\ pc[c] = "delete"
        /\ batch[c].todo = rows
        /\ ~JoinsHinder(rows)
        /\ search' = [s \in Searches |-> IF s \in rows THEN None ELSE search[s]]
        /\ joins' = [s \in Searches |-> IF s \in rows THEN {} ELSE joins[s]]
        /\ fetched' = [s \in Searches |-> IF s \in rows THEN {} ELSE fetched[s]]
        /\ EndBatch(c)
        /\ UNCHANGED <<entry, feed, link, podcastOf, tx, requests, fetchAge>>

(* ON DELETE RESTRICT protects an entry that a search has come to show.    *)
Restricted_Cascade(rows) == FALSE
Restricted(rows) == \E e \in rows : Joined(e)

DeleteEntries ==
    LET c == "directory_podcast"
        rows == batch[c].held
    IN  /\ pc[c] = "delete"
        /\ batch[c].todo = rows
        /\ ~Restricted(rows)
        /\ entry' = [e \in Entries |-> IF e \in rows THEN None ELSE entry[e]]
        /\ feed' = [e \in Entries |-> IF e \in rows THEN None ELSE feed[e]]
        /\ link' = [e \in Entries |-> IF e \in rows THEN 0 ELSE link[e]]
        /\ EndBatch(c)
        /\ UNCHANGED <<search, joins, podcastOf, tx, requests, historyVars>>

(* The foreign key or a deadlock: the batch is rolled back.  The error     *)
(* ends the process, which is started again.  A batch that is lost for     *)
(* another reason has no step: it is as if it had not begun.               *)
BatchFails(c) ==
    /\ pc[c] = "delete"
    /\ \/ Deadlocked(c)
       \/ /\ batch[c].todo = batch[c].held
          /\ IF c = "directory_search" THEN JoinsHinder(batch[c].held)
             ELSE Restricted(batch[c].held)
    /\ EndBatch(c)
    /\ UNCHANGED <<dbVars, tx, requests, historyVars>>

Clean ==
    \/ \E c \in Cleaners : SelectBatch(c) \/ LockRow(c) \/ BatchFails(c)
    \/ DeleteSearches \/ DeleteEntries

Next ==
    \/ \E s \in Searches : Age(s)
    \/ \E r \in Requests :
          \/ \E query \in Queries : BeginSearch(r, query)
          \/ \E e \in Entries : BeginExpand(r, e)
          \/ Statement(r) \/ StatementFails(r)
    \/ Clean

CleanerStep(c) ==
    \/ SelectBatch(c) \/ LockRow(c) \/ BatchFails(c)
    \/ c = "directory_search" /\ DeleteSearches
    \/ c = "directory_podcast" /\ DeleteEntries

(***************************************************************************)
(* Statements are executed once their locks are free; the threads of the   *)
(* cleaner run again and again.  No request has to arrive, no search has   *)
(* to grow old, and no statement has to fail.  FetchResults and            *)
(* SaveDirPodcast contain HTTP requests: the code sets no timeout, and     *)
(* that the directory and the hosts answer, or break off, is assumed.      *)
(***************************************************************************)
Fairness ==
    /\ \A r \in Requests : WF_vars(Statement(r))
    /\ \A c \in Cleaners : WF_vars(CleanerStep(c))
Spec == Init /\ [][Next]_vars /\ Fairness

-----------------------------------------------------------------------------
TypeOK ==
    /\ search \in [Searches -> [query : Queries, age : 0..2] \cup {None}]
    /\ joins \in [Searches -> SUBSET Entries]
    /\ entry \in [Entries -> Vendors \cup {None}]
    /\ feed \in [Entries -> Feeds \cup {None}]
    /\ link \in [Entries -> Podcasts \cup {0}]
    /\ podcastOf \in [Feeds -> Podcasts \cup {0}]
    /\ pc \in [Requests \cup Cleaners ->
                  {"idle", "select", "update", "fetch", "upsert",
                   "load", "expand", "delete"}]
    /\ tx \in [Requests ->
                  [query : Queries \cup {None}, search : Searches \cup {0},
                   dir_podcast : Entries \cup {0}, feed_url : Feeds \cup {None},
                   todo : Seq([vendor_id : Vendors, feed_url : Feeds]),
                   podcasts : [Feeds -> Podcasts \cup {0}],
                   feeds : [Entries -> Feeds \cup {None}], inserted : [Vendors -> Entries \cup {0}]]]
    /\ batch \in [Cleaners -> [todo : SUBSET (Searches \cup Entries),
                                held : SUBSET (Searches \cup Entries)]]
    /\ requests \in 0..MaxRequests
    /\ fetched \in [Searches -> SUBSET Entries] /\ fetchAge \in [Searches -> 0..2]

(* The cache does not lie: a search shows exactly what its last fetch      *)
(* returned, each of it still a row, and is not younger than that fetch,   *)
(* whatever refreshes and batches raced and failed in between; a page that *)
(* is about to be filled shows such an answer to its own query, or nothing *)
(* if the search was deleted.                                              *)
CacheCoherent ==
    \A s \in Searches :
        /\ joins[s] = fetched[s]
        /\ \A e \in joins[s] : entry[e] # None
        /\ search[s] # None => fetchAge[s] <= search[s].age
        /\ search[s] = None => joins[s] = {}
    /\ \A r \in Requests : pc[r] = "load" =>
        /\ PageOf(r) = fetched[tx[r].search]
        /\ PageOf(r) # {} => search[tx[r].search].query = tx[r].query

(* A podcast_id is set to the podcast of the feed_url that its row has     *)
(* from then on, though a search may move the feed, and another expansion  *)
(* make its podcast, between the read of the row or of the map and the     *)
(* write.  Once set, a search that finds the result again leaves it alone, *)
(* with a feed that has moved as well: only an expansion of this row takes *)
(* it to another podcast, and only a batch that had selected the row       *)
(* before deletes it.                                                      *)
LinkKept ==
    [][\A e \in Entries : link'[e] # link[e] =>
          \/ link'[e] = 0 /\ e \in batch["directory_podcast"].held
          \/ /\ link'[e] # 0 /\ link'[e] = podcastOf'[feed'[e]]
             /\ link[e] # 0 => \E r \in Requests : pc[r] = "expand" /\ tx[r].dir_podcast = e]_vars

(* Every request ends: it waits for locks only as long as others run, or   *)
(* a deadlock is resolved.                                                 *)
RequestsEnd == \A r \in Requests : pc[r] # "idle" ~> pc[r] = "idle"

(* Searches past their week and results nobody can reach are removed.      *)
CleanedInTheEnd ==
    /\ \A s \in Searches : s \in Expired ~> s \notin Expired
    /\ \A e \in Entries : e \in Dangling ~> e \notin Dangling
=============================================================================
