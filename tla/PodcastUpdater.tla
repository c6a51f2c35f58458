--------------------------- MODULE PodcastUpdater ---------------------------
(***************************************************************************)
(* The mediator that brings one podcast up to date                         *)
(* (mediators/podcast_updater.rs), run by several callers at once: the     *)
(* workers of the crawler and of the reingester, and `podcore add`; the    *)
(* upgrade of feed locations to https                                      *)
(* (mediators/podcast_feed_location_upgrader.rs); and the cleaner's thread *)
(* that deletes old contents (mediators/cleaner.rs); over the tables       *)
(* podcast, podcast_feed_location, podcast_feed_content, episode and       *)
(* podcast_exception.                                                      *)
(*                                                                         *)
(* A run is one transaction at READ COMMITTED.  What it wrote is kept in   *)
(* the caller's record and reaches the tables when it commits, so that     *)
(* nobody reads it before and an error simply drops it.  Two things make   *)
(* transactions wait for each other.  The UPDATE of a podcast's row locks  *)
(* it to the end of the transaction; every later statement of a run writes *)
(* rows of that podcast only.  And an insertion of a feed URL waits for    *)
(* the end of a transaction that has inserted the same URL.  A failed run  *)
(* is followed by a second, short transaction, run_recovery.               *)
(*                                                                         *)
(* Time is a counter that each stored timestamp advances.  A body stands   *)
(* for everything a feed says; what cannot be fetched, parsed or stored is *)
(* a failing step.  The URL that is stored is the one that was requested:  *)
(* HttpRequesterProofs!NothingRemembered.                                  *)
(***************************************************************************)
EXTENDS Naturals, FiniteSets

CONSTANTS
    Callers,     \* threads that run the mediator
    Urls,        \* feed URLs, http and https
    SecureUrl,   \* function from the http URLs to their https twins
    HostOf,      \* function from URLs to their hosts
    Whitelisted, \* hosts that the upgrade takes to serve https anyway
    ContentLimit,\* PODCAST_FEED_CONTENT_LIMIT, contents kept of a podcast
    Bodies,      \* feed contents, told apart by their hash
    Guids,       \* guids of episodes
    GuidsOf,     \* function from bodies to the guids of their valid items
    MaxRuns,     \* bound: how many runs are begun
    None         \* no row, no value

ASSUME UrlsAssumption == IsFiniteSet(Urls)
ASSUME SecureUrlAssumption ==
    /\ DOMAIN SecureUrl \subseteq Urls
    /\ \A u \in DOMAIN SecureUrl :
          /\ SecureUrl[u] \in Urls \ DOMAIN SecureUrl
          /\ HostOf[SecureUrl[u]] = HostOf[u]
          /\ \A v \in DOMAIN SecureUrl : SecureUrl[u] = SecureUrl[v] => u = v
ASSUME ContentLimitAssumption == ContentLimit \in Nat \ {0}
ASSUME GuidsAssumption == GuidsOf \in [Bodies -> SUBSET Guids]
ASSUME NoneAssumption ==
    /\ None \notin Callers
    /\ None \notin Urls
    /\ None \notin Bodies
    /\ None \notin [title : Bodies, retrieved : Nat]
    /\ None \notin [podcast : Nat, retrieved : Nat]
ASSUME MaxRunsAssumption == MaxRuns \in Nat

Podcasts == 1..MaxRuns   \* ids of table podcast; a run uses up one at most
Stamps == 0..(5 * MaxRuns + Cardinality(Urls))

VARIABLES
    \* the database
    podcast,     \* [Podcasts -> [title, retrieved] or None]; title names the
                 \* body that the row was last written from
    location,    \* [Urls -> [podcast, retrieved] or None]; feed_url is unique
    content,     \* [Podcasts -> [Bodies -> retrieved_at, 0 if there is no row]]
    episode,     \* [Podcasts -> [Guids -> body it was last written from or None]]
    exception,   \* podcasts that have a row in podcast_exception
    processed,   \* history: [Podcasts -> bodies ever stored completely]
    nextId,      \* the sequence of table podcast
    clock,
    batch,       \* pairs of podcast and body: the rows of podcast_feed_content
                 \* that the cleaner's statement has selected, {} if none runs
    \* a caller
    pc,          \* the statement it is about to execute
    run,         \* its arguments and what its transaction has written
    runs         \* how many runs were begun

dbVars == <<podcast, location, content, episode, exception, processed, nextId>>
vars == <<dbVars, clock, batch, pc, run, runs>>

PodcastRow(title, retrieved) == [title |-> title, retrieved |-> retrieved]
LocationRow(owner, retrieved) == [podcast |-> owner, retrieved |-> retrieved]

(* disable_shortcut is `force`; `given` is the body a reingesting caller   *)
(* hands to HttpRequesterPassThrough.  The rest is filled in as the run    *)
(* goes on: the times at which the podcast was converted, its location and *)
(* its content written.                                                    *)
NewRun(feed_url, force, given) ==
    [feed_url |-> feed_url, force |-> force, given |-> given, started |-> clock,
     url |-> None, body |-> None, podcast |-> 0, inserted |-> FALSE,
     converted |-> 0, located |-> 0, stored |-> 0]

Idle == [feed_url |-> None, force |-> FALSE, given |-> None, started |-> 0,
         url |-> None, body |-> None, podcast |-> 0, inserted |-> FALSE,
         converted |-> 0, located |-> 0, stored |-> 0]

-----------------------------------------------------------------------------
Exists(p) == podcast[p] # None

UrlsOf(p) == {u \in Urls : location[u] # None /\ location[u].podcast = p}

(* ORDER BY last_retrieved_at DESC LIMIT 1: equal times are in any order. *)
LatestUrls(p) ==
    {u \in UrlsOf(p) : \A v \in UrlsOf(p) : location[v].retrieved <= location[u].retrieved}

NewestBodies(p) ==
    {b \in Bodies : content[p][b] > 0 /\ \A d \in Bodies : content[p][d] <= content[p][b]}

ContentsOf(p) == {b \in Bodies : content[p][b] > 0}

(* Phases in which a caller holds the row of its podcast, or has inserted  *)
(* its URL, in a transaction that is still open.                           *)
RowHeld == {"location", "content", "commit"}
UrlHeld == {"content", "commit"}

Blocked_ByItself(c, p) ==
    \E d \in Callers : pc[d] \in RowHeld \cup {"recover"} /\ run[d].podcast = p
Blocked_Never(c, p) == FALSE
Blocked(c, p) ==
    \E d \in Callers \ {c} : pc[d] \in RowHeld /\ run[d].podcast = p

UrlPending_Never(c, u) == FALSE
UrlPending(c, u) ==
    \E d \in Callers \ {c} : pc[d] \in UrlHeld /\ run[d].inserted /\ run[d].url = u

Init ==
    /\ podcast = [p \in Podcasts |-> None]
    /\ location = [u \in Urls |-> None]
    /\ content = [p \in Podcasts |-> [b \in Bodies |-> 0]]
    /\ episode = [p \in Podcasts |-> [g \in Guids |-> None]]
    /\ exception = {}
    /\ processed = [p \in Podcasts |-> {}]
    /\ nextId = 1
    /\ clock = 0
    /\ batch = {}
    /\ pc = [c \in Callers |-> "idle"]
    /\ run = [c \in Callers |-> Idle]
    /\ runs = 0

-----------------------------------------------------------------------------
(***************************************************************************)
(* The callers.                                                            *)
(***************************************************************************)

Begin(c, feed_url, force, given) ==
    /\ pc[c] = "idle"
    /\ runs < MaxRuns
    /\ runs' = runs + 1
    /\ pc' = [pc EXCEPT ![c] = "select"]
    /\ run' = [run EXCEPT ![c] = NewRun(feed_url, force, given)]
    /\ UNCHANGED <<dbVars, clock, batch>>

(* `podcore add` with any URL, with or without --force. *)
Add(c, feed_url, force) == Begin(c, feed_url, force, None)

(* The crawler uses the latest URL of a podcast that has a content. *)
Crawl(c, p) ==
    /\ NewestBodies(p) # {}
    /\ \E u \in LatestUrls(p) : Begin(c, u, FALSE, None)

(* The reingester has read the newest content along with the URL. *)
Reingest(c, p) ==
    \E u \in LatestUrls(p), b \in NewestBodies(p) : Begin(c, u, TRUE, b)

(* The process dies; the database rolls its transaction back. *)
Crash(c) ==
    /\ pc[c] # "idle"
    /\ pc' = [pc EXCEPT ![c] = "idle"]
    /\ run' = [run EXCEPT ![c] = Idle]
    /\ UNCHANGED <<dbVars, clock, batch, runs>>

-----------------------------------------------------------------------------
(***************************************************************************)
(* run_inner, statement by statement.                                      *)
(***************************************************************************)

SelectLatestUrl(c) ==
    /\ pc[c] = "select"
    /\ LET feed_url == run[c].feed_url
       IN  \E u \in IF location[feed_url] = None THEN {feed_url}
                    ELSE LatestUrls(location[feed_url].podcast) :
              run' = [run EXCEPT ![c].url = u]
    /\ pc' = [pc EXCEPT ![c] = "fetch"]
    /\ UNCHANGED <<dbVars, clock, batch, runs>>

(* fetch_feed, parse_feed and convert_podcast.  The host may serve any     *)
(* content at any time.                                                    *)
FetchFeed(c) ==
    /\ pc[c] = "fetch"
    /\ \E b \in IF run[c].given = None THEN Bodies ELSE {run[c].given} :
          run' = [run EXCEPT ![c] = [@ EXCEPT !.body = b, !.converted = clock + 1]]
    /\ clock' = clock + 1
    /\ pc' = [pc EXCEPT ![c] = "podcast"]
    /\ UNCHANGED <<dbVars, batch, runs>>

(* upsert_podcast: an update, which locks the row, if some podcast has the *)
(* URL, else an insertion.                                                 *)
UpdatePodcast(c) ==
    /\ pc[c] = "podcast"
    /\ location[run[c].url] # None
    /\ LET p == location[run[c].url].podcast
       IN  /\ ~Blocked(c, p)
           /\ run' = [run EXCEPT ![c].podcast = p]
    /\ pc' = [pc EXCEPT ![c] = "location"]
    /\ UNCHANGED <<dbVars, clock, batch, runs>>

InsertPodcast(c) ==
    /\ pc[c] = "podcast"
    /\ location[run[c].url] = None
    /\ run' = [run EXCEPT ![c] = [@ EXCEPT !.podcast = nextId, !.inserted = TRUE]]
    /\ nextId' = nextId + 1
    /\ pc' = [pc EXCEPT ![c] = "location"]
    /\ UNCHANGED <<podcast, location, content, episode, exception, processed,
                   clock, batch, runs>>

(* The URL has been committed for another podcast since upsert_podcast     *)
(* looked: ON CONFLICT names the pair of podcast and URL, so the unique    *)
(* index on the URL alone raises an error.                                 *)
UrlTaken_Ignored(c) == FALSE
UrlTaken(c) ==
    /\ location[run[c].url] # None
    /\ location[run[c].url].podcast # run[c].podcast

UpsertLocation(c) ==
    /\ pc[c] = "location"
    /\ ~UrlPending(c, run[c].url)
    /\ ~UrlTaken(c)
    /\ run' = [run EXCEPT ![c].located = clock + 1]
    /\ clock' = clock + 1
    /\ pc' = [pc EXCEPT ![c] = "content"]
    /\ UNCHANGED <<dbVars, batch, runs>>

UrlConflict(c) ==
    /\ pc[c] = "location"
    /\ ~UrlPending(c, run[c].url)
    /\ UrlTaken(c)
    /\ pc' = [pc EXCEPT ![c] = "recover"]
    /\ UNCHANGED <<dbVars, clock, batch, run, runs>>

(* already_processed: any content of the podcast with the same hash. *)
AlreadyProcessed(c) ==
    ~run[c].force /\ content[run[c].podcast][run[c].body] > 0

Shortcut(c) ==
    /\ pc[c] = "content"
    /\ AlreadyProcessed(c)
    /\ pc' = [pc EXCEPT ![c] = "commit"]
    /\ UNCHANGED <<dbVars, clock, batch, run, runs>>

UpsertContent(c) ==
    /\ pc[c] = "content"
    /\ ~AlreadyProcessed(c)
    /\ run' = [run EXCEPT ![c].stored = clock + 1]
    /\ clock' = clock + 1
    /\ pc' = [pc EXCEPT ![c] = "commit"]
    /\ UNCHANGED <<dbVars, batch, runs>>

(* A statement may fail: no answer, a status that is not OK, a feed that   *)
(* does not parse or has no title, a value a CHECK refuses, a lost         *)
(* connection.  The transaction is rolled back and its locks are released. *)
Fail(c) ==
    /\ \/ pc[c] \in {"select", "fetch", "podcast", "content", "commit"}
       \/ pc[c] = "location" /\ ~UrlPending(c, run[c].url)
    /\ pc' = [pc EXCEPT ![c] = "recover"]
    /\ UNCHANGED <<dbVars, clock, batch, run, runs>>

(* What the transaction has written becomes visible.  A run that took the  *)
(* shortcut wrote the podcast and the location only; any other also wrote  *)
(* content and episodes (upsert_episodes) and removed the exception.       *)
WrittenEpisodes(c) ==
    [g \in Guids |-> IF g \in GuidsOf[run[c].body] THEN run[c].body
                     ELSE episode[run[c].podcast][g]]

Commit(c) ==
    LET p == run[c].podcast
        full == run[c].stored > 0
    IN  /\ pc[c] = "commit"
        /\ podcast' = [podcast EXCEPT ![p] = PodcastRow(run[c].body, run[c].converted)]
        /\ location' = [location EXCEPT ![run[c].url] = LocationRow(p, run[c].located)]
        /\ content' = IF full THEN [content EXCEPT ![p][run[c].body] = run[c].stored]
                      ELSE content
        /\ episode' = IF full THEN [episode EXCEPT ![p] = WrittenEpisodes(c)] ELSE episode
        /\ exception' = IF full THEN exception \ {p} ELSE exception
        /\ processed' = IF full THEN [processed EXCEPT ![p] = @ \cup {run[c].body}]
                        ELSE processed
        /\ pc' = [pc EXCEPT ![c] = "idle"]
        /\ run' = [run EXCEPT ![c] = Idle]
        /\ UNCHANGED <<nextId, clock, batch, runs>>

(***************************************************************************)
(* run_recovery: a transaction of its own, which looks the podcast up by   *)
(* the URL the caller gave and may wait for its row.                       *)
(***************************************************************************)
FailedPodcasts_OfTransaction(c) == {run[c].podcast} \ {0}
FailedPodcasts(c) ==
    IF location[run[c].feed_url] = None THEN {} ELSE {location[run[c].feed_url].podcast}

RecoveredRow_KeepsTime(row) == row
RecoveredRow(row) ==
    IF row = None THEN None ELSE PodcastRow(row.title, clock + 1)

EndRecovery(c) ==
    /\ pc' = [pc EXCEPT ![c] = "idle"]
    /\ run' = [run EXCEPT ![c] = Idle]

Recover(c) ==
    /\ pc[c] = "recover"
    /\ \A p \in FailedPodcasts(c) : ~Blocked(c, p)
    /\ podcast' = [p \in Podcasts |->
          IF p \in FailedPodcasts(c) THEN RecoveredRow(podcast[p]) ELSE podcast[p]]
    /\ exception' = exception \cup FailedPodcasts(c)
    /\ clock' = clock + 1
    /\ EndRecovery(c)
    /\ UNCHANGED <<location, content, episode, processed, nextId, batch, runs>>

(* The recovery fails as well: its error is printed and reported. *)
RecoveryFails(c) ==
    /\ pc[c] = "recover"
    /\ EndRecovery(c)
    /\ UNCHANGED <<dbVars, clock, batch, runs>>

(***************************************************************************)
(* podcast_feed_location_upgrader: one INSERT for every http location that *)
(* has no twin with the same podcast.  It waits for pending insertions,    *)
(* and a twin that belongs to another podcast fails all of it.  The host   *)
(* of the location is whitelisted, or has some https location already,     *)
(* of whatever podcast.                                                    *)
(***************************************************************************)
SecureHosts ==
    {HostOf[u] : u \in {v \in Urls \ DOMAIN SecureUrl : location[v] # None}}

Upgradable ==
    {u \in DOMAIN SecureUrl :
        /\ location[u] # None
        /\ SecureUrl[u] \notin UrlsOf(location[u].podcast)
        /\ HostOf[u] \in Whitelisted \cup SecureHosts}

Upgrade ==
    /\ Upgradable # {}
    /\ \A u \in Upgradable :
          location[SecureUrl[u]] = None /\ ~UrlPending(None, SecureUrl[u])
    /\ location' = [v \in Urls |->
          IF \E u \in Upgradable : SecureUrl[u] = v
          THEN LocationRow(location[CHOOSE u \in Upgradable : SecureUrl[u] = v].podcast, clock + 1)
          ELSE location[v]]
    /\ clock' = clock + 1
    /\ UNCHANGED <<podcast, content, episode, exception, processed, nextId, batch,
                   pc, run, runs>>

-----------------------------------------------------------------------------
(***************************************************************************)
(* The cleaner's thread for contents.  One statement selects rows that     *)
(* have ContentLimit newer ones of the same podcast, at most DELETE_LIMIT  *)
(* of them, and deletes them.  The deletion waits for a run that has       *)
(* written one of the rows and is still open; what the statement has       *)
(* selected is not read again then, so that a row goes even if a run has   *)
(* stored its body anew meanwhile and made it the newest.                  *)
(***************************************************************************)
Excess_OffByOne ==
    {r \in Podcasts \X Bodies :
        /\ content[r[1]][r[2]] > 0
        /\ Cardinality({b \in Bodies : content[r[1]][b] > content[r[1]][r[2]]})
              >= ContentLimit - 1}
Excess ==
    {r \in Podcasts \X Bodies :
        /\ content[r[1]][r[2]] > 0
        /\ Cardinality({b \in Bodies : content[r[1]][b] > content[r[1]][r[2]]})
              >= ContentLimit}

SelectExcess ==
    /\ batch = {}
    /\ batch' \in SUBSET Excess \ {{}}
    /\ UNCHANGED <<dbVars, clock, pc, run, runs>>

DeleteExcess ==
    /\ batch # {}
    /\ \A c \in Callers :
          pc[c] = "commit" /\ run[c].stored > 0 => <<run[c].podcast, run[c].body>> \notin batch
    /\ content' = [p \in Podcasts |->
          [b \in Bodies |-> IF <<p, b>> \in batch THEN 0 ELSE content[p][b]]]
    /\ batch' = {}
    /\ UNCHANGED <<podcast, location, episode, exception, processed, nextId, clock,
                   pc, run, runs>>

(* The statement fails or the process ends: nothing is deleted. *)
CleanFails ==
    /\ batch # {}
    /\ batch' = {}
    /\ UNCHANGED <<dbVars, clock, pc, run, runs>>

Clean == SelectExcess \/ DeleteExcess \/ CleanFails

-----------------------------------------------------------------------------
Progress(c) ==
    \/ SelectLatestUrl(c) \/ FetchFeed(c)
    \/ UpdatePodcast(c) \/ InsertPodcast(c) \/ UpsertLocation(c)
    \/ UrlConflict(c) \/ Shortcut(c) \/ UpsertContent(c) \/ Commit(c)
    \/ Recover(c)

Step(c) == Progress(c) \/ Fail(c) \/ RecoveryFails(c)

Next ==
    \/ \E c \in Callers :
          \/ \E u \in Urls, force \in BOOLEAN : Add(c, u, force)
          \/ \E p \in Podcasts : Crawl(c, p) \/ Reingest(c, p)
          \/ Step(c)
          \/ Crash(c)
    \/ Upgrade
    \/ Clean

Spec == Init /\ [][Next]_vars

(* Threads are scheduled and PostgreSQL hands a lock on when it is free;   *)
(* nothing needs to fail.  Progress includes FetchFeed, a request for      *)
(* which http_requester.rs sets no timeout: it is assumed that a host      *)
(* answers or breaks off.  Neither upgrades nor the cleaner have to come.  *)
FairSpec == Spec /\ \A c \in Callers : WF_vars(Progress(c))
-----------------------------------------------------------------------------
(* The type of every variable, and the foreign keys. *)
TypeOK ==
    /\ podcast \in [Podcasts -> [title : Bodies, retrieved : Stamps] \cup {None}]
    /\ location \in [Urls -> [podcast : Podcasts, retrieved : Stamps] \cup {None}]
    /\ content \in [Podcasts -> [Bodies -> Stamps]]
    /\ episode \in [Podcasts -> [Guids -> Bodies \cup {None}]]
    /\ exception \in SUBSET {p \in Podcasts : Exists(p)}
    /\ processed \in [Podcasts -> SUBSET Bodies]
    /\ batch \in SUBSET (Podcasts \X Bodies)
    /\ nextId \in 1..(MaxRuns + 1)
    /\ clock \in Stamps
    /\ pc \in [Callers -> {"idle", "select", "fetch", "podcast", "location",
                           "content", "commit", "recover"}]
    /\ run \in [Callers ->
          [feed_url : Urls \cup {None}, force : BOOLEAN, given : Bodies \cup {None},
           started : Stamps, url : Urls \cup {None}, body : Bodies \cup {None},
           podcast : Podcasts \cup {0}, inserted : BOOLEAN,
           converted : Stamps, located : Stamps, stored : Stamps]]
    /\ runs \in 0..MaxRuns
    /\ \A u \in Urls : location[u] # None => Exists(location[u].podcast)

(* No podcast is left without a location, which no URL would lead to and   *)
(* no later run would find: two first retrievals of one feed both see none *)
(* and both insert one, and the loser has to take its own back.            *)
PodcastHasLocation == \A p \in Podcasts : Exists(p) => UrlsOf(p) # {}

(* No podcast is ever without a content, else the joins of the crawler and *)
(* of the reingester would drop it for good: no first retrieval takes the  *)
(* shortcut on another podcast's content, and the cleaner, deleting what   *)
(* it selected earlier, leaves some row of each podcast whatever runs have *)
(* stored in between.                                                      *)
PodcastHasContent ==
    \A p \in Podcasts : Exists(p) => \E b \in Bodies : content[p][b] > 0

(* No kept content has an episode that still shows an older kept one: for  *)
(* each of its guids the episode was written from that content or a newer  *)
(* one, or from one that the cleaner has deleted since.  Whichever runs on *)
(* the podcast overlapped and whatever they had fetched in which order,    *)
(* the lock taken by upsert_podcast makes contents and episodes agree.     *)
NewestContentShown ==
    \A p \in Podcasts : \A b \in ContentsOf(p) : \A g \in GuidsOf[b] :
        LET shown == episode[p][g]
        IN  /\ shown # None
            /\ content[p][shown] = 0 \/ content[p][shown] >= content[p][b]

(* A run that ends, well or through run_recovery, leaves the podcast its   *)
(* caller named with a retrieval time later than the run's start: else the *)
(* crawler would pick it up again and again, as the comment in `run` says. *)
RetrievalRecorded ==
    [][\A c \in Callers :
          (Commit(c) \/ Recover(c)) /\ location'[run[c].feed_url] # None
          => podcast'[location'[run[c].feed_url].podcast].retrieved > run[c].started]_vars

(* Every run ends, though runs wait for each other's rows and URLs. *)
RunsEnd == \A c \in Callers : pc[c] # "idle" ~> pc[c] = "idle"

(* What the tables say of a podcast, in the terms of the abstract store.   *)
TitleOf(p) == IF Exists(p) THEN podcast[p].title ELSE None
NewestBody(p) ==
    IF NewestBodies(p) = {} THEN None ELSE CHOOSE b \in NewestBodies(p) : TRUE

Store == INSTANCE FeedStore WITH
    urls <- [p \in Podcasts |-> UrlsOf(p)],
    title <- [p \in Podcasts |-> TitleOf(p)],
    newest <- [p \in Podcasts |-> NewestBody(p)],
    contents <- [p \in Podcasts |-> ContentsOf(p)],
    failed <- exception

(* What readers of the tables see is the abstract store: each run changes  *)
(* them at once or not at all, although transactions overlap, wait for     *)
(* each other's rows and URLs, fail and recover, although podcasts,        *)
(* locations, contents and episodes are looked up one after the other, and *)
(* although the cleaner deletes by what it read before.                    *)
ImplementsStore == Store!StoreSpec

(* What the comment on the shortcut says: a content with the same hash was *)
(* successfully processed in the past, so that skipping the rest saves     *)
(* work and loses nothing: the newest content is what was last fetched.    *)
ShortcutLosesNothing ==
    \A p \in Podcasts : Exists(p) => NewestBodies(p) = {podcast[p].title}
=============================================================================
