------------------------ MODULE PodcastUpdaterProofs ------------------------
(***************************************************************************)
(* Proofs about PodcastUpdater for any callers, URLs, contents and number  *)
(* of runs.  The invariant PInv says what the two kinds of locks achieve.  *)
(***************************************************************************)
EXTENDS PodcastUpdater, FiniteSetTheorems, WellFoundedInduction, TLAPS

Phases == {"idle", "select", "fetch", "podcast", "location", "content", "commit", "recover"}

PodcastRows == [title : Bodies, retrieved : Nat]
LocationRows == [podcast : Nat, retrieved : Nat]
RunRecords ==
    [feed_url : Urls \cup {None}, force : BOOLEAN, given : Bodies \cup {None},
     started : Nat, url : Urls \cup {None}, body : Bodies \cup {None},
     podcast : Nat, inserted : BOOLEAN, converted : Nat, located : Nat, stored : Nat]

Types ==
    /\ podcast \in [Podcasts -> PodcastRows \cup {None}]
    /\ location \in [Urls -> LocationRows \cup {None}]
    /\ content \in [Podcasts -> [Bodies -> Nat]]
    /\ episode \in [Podcasts -> [Guids -> Bodies \cup {None}]]
    /\ processed \in [Podcasts -> SUBSET Bodies]
    /\ batch \in SUBSET (Podcasts \X Bodies)
    /\ nextId \in Nat
    /\ clock \in Nat
    /\ pc \in [Callers -> Phases]
    /\ run \in [Callers -> RunRecords]

(* What a run has filled in when it gets to a statement. *)
FilledBy(c) ==
    /\ pc[c] # "idle" => run[c].feed_url \in Urls
    /\ pc[c] \in {"fetch", "podcast"} \cup RowHeld => run[c].url \in Urls
    /\ pc[c] \in {"podcast"} \cup RowHeld => run[c].body \in Bodies
    /\ pc[c] \in {"select", "fetch", "podcast", "location", "content"} => run[c].stored = 0

(* A podcast's row is held by one transaction at a time. *)
HoldsAlone(c) ==
    pc[c] \in RowHeld =>
        /\ run[c].podcast < nextId
        /\ \A d \in Callers \ {c} : pc[d] \in RowHeld => run[d].podcast # run[c].podcast

(* The location a run writes is its own podcast's, or nobody's and only    *)
(* this run inserts it.                                                    *)
OwnsUrl(c) ==
    LET row == location[run[c].url]
    IN  /\ pc[c] \in RowHeld /\ ~run[c].inserted
              => row # None /\ row.podcast = run[c].podcast
        /\ pc[c] \in UrlHeld /\ run[c].inserted
              => (row # None => row.podcast = run[c].podcast) /\ ~UrlPending(c, run[c].url)

(* A run about to commit found its content in the table or stores it, and  *)
(* what it stores is later than all the podcast has.                       *)
StoresLast(c) ==
    /\ run[c].stored <= clock
    /\ pc[c] = "commit" /\ run[c].podcast \in Podcasts
          => IF run[c].stored = 0 THEN run[c].body \in processed[run[c].podcast]
             ELSE \A b \in Bodies : content[run[c].podcast][b] < run[c].stored

(* The tables hold ids that the sequence has handed out, and past times. *)
TablesInPast ==
    /\ \A u \in Urls : location[u] # None => location[u].podcast < nextId
    /\ \A p \in Podcasts : \A b \in Bodies : content[p][b] <= clock

(* Contents were processed, of podcasts that exist, no two at a time. *)
ContentsInv ==
    /\ \A p \in Podcasts : processed[p] # {} => Exists(p)
    /\ \A p \in Podcasts : ContentsOf(p) \subseteq processed[p]
    /\ \A p \in Podcasts : \A b, d \in ContentsOf(p) :
          content[p][b] = content[p][d] => b = d

(* The cleaner has not selected every content of a podcast, and nothing of *)
(* one that is still to be inserted.                                       *)
BatchInv ==
    /\ \A p \in Podcasts, b \in Bodies : <<p, b>> \in batch => Exists(p)
    /\ \A p \in Podcasts : Exists(p) => \E b \in ContentsOf(p) : <<p, b>> \notin batch

CallerInv(c) == FilledBy(c) /\ HoldsAlone(c) /\ OwnsUrl(c) /\ StoresLast(c)
TablesInv ==
    /\ TablesInPast /\ PodcastHasLocation /\ NewestContentShown
    /\ ContentsInv /\ BatchInv
PInv == Types /\ TablesInv /\ \A c \in Callers : CallerInv(c)
-----------------------------------------------------------------------------
(* Rows are rows, not None, and have the fields they are built from. *)
LEMMA PodcastRowFacts ==
    ASSUME NEW t \in Bodies, NEW n \in Nat
    PROVE  /\ PodcastRow(t, n) \in PodcastRows
           /\ PodcastRow(t, n) # None
           /\ PodcastRow(t, n).title = t
           /\ PodcastRow(t, n).retrieved = n
    BY NoneAssumption DEF PodcastRow, PodcastRows

LEMMA LocationRowFacts ==
    ASSUME NEW p \in Nat, NEW n \in Nat
    PROVE  /\ LocationRow(p, n) \in LocationRows
           /\ LocationRow(p, n) # None
           /\ LocationRow(p, n).podcast = p
    BY NoneAssumption DEF LocationRow, LocationRows

(* Typing of the runs a caller begins and of the empty one. *)
LEMMA RunFacts ==
    ASSUME clock \in Nat, NEW u \in Urls, NEW f \in BOOLEAN, NEW g \in Bodies \cup {None}
    PROVE  /\ NewRun(u, f, g) \in RunRecords
           /\ NewRun(u, f, g).feed_url = u
           /\ NewRun(u, f, g).stored = 0
           /\ Idle \in RunRecords
           /\ Idle.stored = 0
    BY DEF NewRun, Idle, RunRecords

(* One caller moves on with a changed run; the others stay. *)
LEMMA CallerMoves ==
    ASSUME Types, NEW c \in Callers, NEW s \in RunRecords, NEW ph \in Phases,
           run' = [run EXCEPT ![c] = s], pc' = [pc EXCEPT ![c] = ph]
    PROVE  /\ run'[c] = s /\ run' \in [Callers -> RunRecords]
           /\ pc'[c] = ph /\ pc' \in [Callers -> Phases]
           /\ \A d \in Callers \ {c} : run'[d] = run[d] /\ pc'[d] = pc[d]
    BY DEF Types

(* Every begun run is a Begin with a URL of the set. *)
LEMMA BegunRuns ==
    ASSUME Types, NEW c \in Callers,
           \/ \E u \in Urls, force \in BOOLEAN : Add(c, u, force)
           \/ \E p \in Podcasts : Crawl(c, p) \/ Reingest(c, p)
    PROVE  \E u \in Urls, f \in BOOLEAN, g \in Bodies \cup {None} : Begin(c, u, f, g)
    BY DEF Add, Crawl, Reingest, LatestUrls, UrlsOf, NewestBodies

LEMMA InitPInv == Init => PInv
<1> SUFFICES ASSUME Init PROVE PInv
    OBVIOUS
<1>1. Idle \in RunRecords /\ Idle.stored = 0
    BY DEF Idle, RunRecords
<1>2. Types
    BY <1>1 DEF Init, Types, Phases
<1>3. \A c \in Callers : CallerInv(c)
    BY <1>1 DEF Init, CallerInv, FilledBy, HoldsAlone, OwnsUrl, StoresLast, RowHeld, UrlHeld
<1>4. TablesInv
    BY DEF Init, TablesInv, TablesInPast, PodcastHasLocation, NewestContentShown,
           ContentsInv, BatchInv, ContentsOf, Exists
<1> QED
    BY <1>2, <1>3, <1>4 DEF PInv

-----------------------------------------------------------------------------
(* The other callers' part of the invariant survives a step that changes   *)
(* neither locations nor contents.                                         *)
LEMMA OthersKeep ==
    ASSUME PInv, NEW c \in Callers,
           \A d \in Callers \ {c} : run'[d] = run[d] /\ pc'[d] = pc[d],
           UNCHANGED <<location, content, processed>>,
           nextId' \in Nat, nextId <= nextId', clock' \in Nat, clock <= clock',
           run'[c] \in RunRecords, CallerInv(c)',
           NEW d \in Callers \ {c}
    PROVE  CallerInv(d)'
<1>1. CallerInv(d) /\ run'[d] = run[d] /\ pc'[d] = pc[d] /\ run[d] \in RunRecords
    BY DEF PInv, Types
<1>2. FilledBy(d)'
    BY <1>1 DEF CallerInv, FilledBy
<1>3. HoldsAlone(d)'
    BY <1>1 DEF CallerInv, HoldsAlone, PInv, Types, RunRecords
<1>4. OwnsUrl(d)'
    BY <1>1 DEF CallerInv, OwnsUrl, UrlPending
<1>5. StoresLast(d)'
    BY <1>1 DEF CallerInv, StoresLast, PInv, Types, RunRecords
<1> QED
    BY <1>2, <1>3, <1>4, <1>5 DEF CallerInv

(* A step of one caller that leaves the tables alone keeps the invariant   *)
(* if it establishes that caller's part of it.                             *)
LEMMA LocalStep ==
    ASSUME PInv, NEW c \in Callers,
           run' \in [Callers -> RunRecords], pc' \in [Callers -> Phases],
           \A d \in Callers \ {c} : run'[d] = run[d] /\ pc'[d] = pc[d],
           UNCHANGED <<podcast, location, content, episode, processed, batch>>,
           nextId' \in Nat, nextId <= nextId', clock' \in Nat, clock <= clock',
           CallerInv(c)'
    PROVE  PInv'
<1>1. Types'
    BY DEF PInv, Types
<1>2. TablesInPast'
  <2>1. \A u \in Urls : location[u] # None => location[u].podcast \in Nat
    BY DEF PInv, Types, LocationRows
  <2>2. \A p \in Podcasts, b \in Bodies : content[p][b] \in Nat
    BY DEF PInv, Types
  <2> QED
    BY <2>1, <2>2 DEF PInv, Types, TablesInv, TablesInPast
<1>3. PodcastHasLocation' /\ NewestContentShown' /\ ContentsInv' /\ BatchInv'
    BY DEF PInv, TablesInv, PodcastHasLocation, NewestContentShown, ContentsInv, BatchInv,
           ContentsOf, Exists, UrlsOf
<1>4. \A d \in Callers \ {c} : CallerInv(d)'
    BY OthersKeep
<1> QED
    BY <1>1, <1>2, <1>3, <1>4 DEF PInv, TablesInv

(* A caller that is not to hold anything only has to know what it filled   *)
(* in.                                                                     *)
LEMMA NothingHeld ==
    ASSUME NEW c \in Callers, pc'[c] \notin RowHeld, FilledBy(c)', run'[c].stored <= clock'
    PROVE  CallerInv(c)'
    BY DEF CallerInv, HoldsAlone, OwnsUrl, StoresLast, RowHeld, UrlHeld

-----------------------------------------------------------------------------
(* Steps of one caller that hold nothing afterwards. *)
LEMMA BeginStep ==
    ASSUME PInv, NEW c \in Callers, NEW u \in Urls, NEW f \in BOOLEAN,
           NEW g \in Bodies \cup {None}, Begin(c, u, f, g)
    PROVE  PInv'
<1>1. clock \in Nat /\ nextId \in Nat
    BY DEF PInv, Types
<1>2. NewRun(u, f, g) \in RunRecords /\ NewRun(u, f, g).feed_url = u /\ NewRun(u, f, g).stored = 0
    BY <1>1, RunFacts
<1>3. /\ run'[c] = NewRun(u, f, g) /\ run' \in [Callers -> RunRecords]
      /\ pc'[c] = "select" /\ pc' \in [Callers -> Phases]
      /\ \A d \in Callers \ {c} : run'[d] = run[d] /\ pc'[d] = pc[d]
      /\ UNCHANGED <<dbVars, batch, clock>>
    BY <1>2 DEF Begin, PInv, Types, Phases
<1>4. CallerInv(c)'
    BY <1>1, <1>2, <1>3, NothingHeld DEF FilledBy, RowHeld
<1> QED
    BY <1>1, <1>3, <1>4, LocalStep DEF dbVars

LEMMA EndStep ==
    ASSUME PInv, NEW c \in Callers, pc' = [pc EXCEPT ![c] = "idle"],
           run' = [run EXCEPT ![c] = Idle],
           UNCHANGED <<dbVars, batch, clock>>
    PROVE  PInv'
<1>1. clock \in Nat /\ nextId \in Nat
    BY DEF PInv, Types
<1>2. Idle \in RunRecords /\ Idle.stored = 0
    BY DEF Idle, RunRecords
<1>3. /\ run'[c] = Idle /\ run' \in [Callers -> RunRecords]
      /\ pc'[c] = "idle" /\ pc' \in [Callers -> Phases]
      /\ \A d \in Callers \ {c} : run'[d] = run[d] /\ pc'[d] = pc[d]
    BY <1>2 DEF PInv, Types, Phases
<1>4. CallerInv(c)'
    BY <1>1, <1>2, <1>3, NothingHeld DEF FilledBy, RowHeld, dbVars
<1> QED
    BY <1>1, <1>3, <1>4, LocalStep DEF dbVars

LEMMA FailStep ==
    ASSUME PInv, NEW c \in Callers, pc[c] # "idle",
           pc' = [pc EXCEPT ![c] = "recover"], UNCHANGED <<dbVars, batch, clock, run>>
    PROVE  PInv'
<1>1. clock \in Nat /\ nextId \in Nat /\ run[c].stored <= clock
    BY DEF PInv, Types, CallerInv, StoresLast
<1>2. /\ run' \in [Callers -> RunRecords]
      /\ pc'[c] = "recover" /\ pc' \in [Callers -> Phases]
      /\ \A d \in Callers \ {c} : run'[d] = run[d] /\ pc'[d] = pc[d]
    BY DEF PInv, Types, Phases
<1>3. FilledBy(c)'
    BY <1>2 DEF PInv, CallerInv, FilledBy, RowHeld
<1>4. CallerInv(c)'
    BY <1>1, <1>2, <1>3, NothingHeld DEF RowHeld, dbVars
<1> QED
    BY <1>1, <1>2, <1>4, LocalStep DEF dbVars

LEMMA SelectLatestUrlStep ==
    ASSUME PInv, NEW c \in Callers, SelectLatestUrl(c)
    PROVE  PInv'
<1>1. clock \in Nat /\ nextId \in Nat /\ run[c] \in RunRecords /\ run[c].stored <= clock
    BY DEF PInv, Types, CallerInv, StoresLast
<1>2. FilledBy(c) /\ pc[c] = "select"
    BY DEF PInv, CallerInv, SelectLatestUrl
<1>3. PICK u \in Urls : run' = [run EXCEPT ![c] = [run[c] EXCEPT !.url = u]]
    BY <1>2, Zenon DEF SelectLatestUrl, LatestUrls, UrlsOf, FilledBy
<1>4. DEFINE s == [run[c] EXCEPT !.url = u]
<1>5. s \in RunRecords /\ s.url = u /\ s.feed_url = run[c].feed_url /\ s.stored = run[c].stored
    BY <1>1 DEF RunRecords
<1> HIDE DEF s
<1>6. /\ run'[c] = s /\ run' \in [Callers -> RunRecords]
      /\ pc'[c] = "fetch" /\ pc' \in [Callers -> Phases]
      /\ \A d \in Callers \ {c} : run'[d] = run[d] /\ pc'[d] = pc[d]
      /\ UNCHANGED <<dbVars, batch, clock>>
    BY <1>3, <1>5 DEF s, PInv, Types, Phases, SelectLatestUrl
<1>7. FilledBy(c)'
    BY <1>2, <1>5, <1>6 DEF FilledBy, RowHeld
<1>8. CallerInv(c)'
    BY <1>1, <1>5, <1>6, <1>7, NothingHeld DEF RowHeld
<1> QED
    BY <1>1, <1>6, <1>8, LocalStep DEF dbVars

LEMMA FetchFeedStep ==
    ASSUME PInv, NEW c \in Callers, FetchFeed(c)
    PROVE  PInv'
<1>1. clock \in Nat /\ clock + 1 \in Nat /\ nextId \in Nat /\ run[c] \in RunRecords /\ run[c].stored <= clock
    BY DEF PInv, Types, CallerInv, StoresLast
<1>2. FilledBy(c) /\ pc[c] = "fetch"
    BY DEF PInv, CallerInv, FetchFeed
<1>3. PICK b \in Bodies :
        run' = [run EXCEPT ![c] = [run[c] EXCEPT !.body = b, !.converted = clock + 1]]
  <2>1. run[c].given = None \/ run[c].given \in Bodies
    BY <1>1 DEF RunRecords
  <2> QED
    BY <2>1, Zenon DEF FetchFeed
<1>4. DEFINE s == [run[c] EXCEPT !.body = b, !.converted = clock + 1]
<1>5. /\ s \in RunRecords
      /\ s.body = b /\ s.url = run[c].url /\ s.feed_url = run[c].feed_url
      /\ s.stored = run[c].stored
    BY <1>1 DEF RunRecords
<1>6. run' = [run EXCEPT ![c] = s] /\ "podcast" \in Phases
    BY <1>3 DEF Phases
<1> HIDE DEF s
<1>7. /\ run'[c] = s /\ run' \in [Callers -> RunRecords]
      /\ pc'[c] = "podcast" /\ pc' \in [Callers -> Phases]
      /\ \A d \in Callers \ {c} : run'[d] = run[d] /\ pc'[d] = pc[d]
      /\ clock' = clock + 1 /\ UNCHANGED <<dbVars, batch>>
    BY <1>5, <1>6, CallerMoves DEF PInv, FetchFeed
<1>8. FilledBy(c)'
    BY <1>2, <1>5, <1>7 DEF FilledBy, RowHeld
<1>9. run'[c].stored <= clock'
    BY <1>1, <1>5, <1>7 DEF RunRecords
<1>10. CallerInv(c)'
    BY <1>7, <1>8, <1>9, NothingHeld DEF RowHeld
<1> QED
    BY <1>1, <1>7, <1>10, LocalStep DEF dbVars

-----------------------------------------------------------------------------
(* Steps of one caller that hold a row afterwards. *)
LEMMA UpdatePodcastStep ==
    ASSUME PInv, NEW c \in Callers, UpdatePodcast(c)
    PROVE  PInv'
<1> DEFINE p == location[run[c].url].podcast
           s == [run[c] EXCEPT !.podcast = p]
<1>1. clock \in Nat /\ nextId \in Nat /\ run[c] \in RunRecords
    BY DEF PInv, Types
<1>2. CallerInv(c) /\ pc[c] = "podcast" /\ run[c].url \in Urls /\ location[run[c].url] # None
    BY DEF PInv, CallerInv, FilledBy, UpdatePodcast
<1>3. p \in Nat /\ p < nextId
    BY <1>2 DEF PInv, Types, LocationRows, TablesInv, TablesInPast
<1>4. /\ s \in RunRecords
      /\ s.podcast = p /\ s.url = run[c].url /\ s.body = run[c].body
      /\ s.feed_url = run[c].feed_url /\ s.stored = run[c].stored
    BY <1>1, <1>3 DEF RunRecords
<1>5. /\ run' = [run EXCEPT ![c] = s] /\ pc' = [pc EXCEPT ![c] = "location"]
      /\ "location" \in Phases /\ UNCHANGED <<dbVars, batch, clock>>
      /\ ~Blocked(c, p)
    BY DEF UpdatePodcast, Phases
<1> HIDE DEF s
<1>6. /\ run'[c] = s /\ run' \in [Callers -> RunRecords]
      /\ pc'[c] = "location" /\ pc' \in [Callers -> Phases]
      /\ \A d \in Callers \ {c} : run'[d] = run[d] /\ pc'[d] = pc[d]
    BY <1>4, <1>5, CallerMoves DEF PInv
<1>7. FilledBy(c)'
    BY <1>2, <1>4, <1>6 DEF CallerInv, FilledBy, RowHeld
<1>8. HoldsAlone(c)'
    BY <1>3, <1>4, <1>5, <1>6 DEF HoldsAlone, Blocked, dbVars
<1>9. OwnsUrl(c)'
    BY <1>2, <1>4, <1>5, <1>6 DEF OwnsUrl, UrlHeld, dbVars
<1>10. StoresLast(c)'
    BY <1>2, <1>4, <1>5, <1>6 DEF CallerInv, StoresLast
<1> QED
    BY <1>1, <1>5, <1>6, <1>7, <1>8, <1>9, <1>10, LocalStep DEF CallerInv, dbVars

LEMMA InsertPodcastStep ==
    ASSUME PInv, NEW c \in Callers, InsertPodcast(c)
    PROVE  PInv'
<1> DEFINE s == [run[c] EXCEPT !.podcast = nextId, !.inserted = TRUE]
<1>1. clock \in Nat /\ nextId \in Nat /\ run[c] \in RunRecords
    BY DEF PInv, Types
<1>2. CallerInv(c) /\ pc[c] = "podcast"
    BY DEF PInv, InsertPodcast
<1>3. /\ s \in RunRecords
      /\ s.podcast = nextId /\ s.inserted /\ s.url = run[c].url /\ s.body = run[c].body
      /\ s.feed_url = run[c].feed_url /\ s.stored = run[c].stored
    BY <1>1 DEF RunRecords
<1>4. /\ run' = [run EXCEPT ![c] = s] /\ pc' = [pc EXCEPT ![c] = "location"]
      /\ "location" \in Phases /\ nextId' = nextId + 1
      /\ UNCHANGED <<podcast, location, content, episode, processed, batch, clock>>
    BY DEF InsertPodcast, Phases
<1> HIDE DEF s
<1>5. /\ run'[c] = s /\ run' \in [Callers -> RunRecords]
      /\ pc'[c] = "location" /\ pc' \in [Callers -> Phases]
      /\ \A d \in Callers \ {c} : run'[d] = run[d] /\ pc'[d] = pc[d]
    BY <1>3, <1>4, CallerMoves DEF PInv
<1>6. FilledBy(c)'
    BY <1>2, <1>3, <1>5 DEF CallerInv, FilledBy, RowHeld
<1>7. HoldsAlone(c)'
  <2>1. \A d \in Callers \ {c} : pc[d] \in RowHeld => run[d].podcast < nextId
    BY DEF PInv, CallerInv, HoldsAlone
  <2> QED
    BY <1>1, <1>3, <1>4, <1>5, <2>1 DEF HoldsAlone
<1>8. OwnsUrl(c)'
    BY <1>3, <1>5 DEF OwnsUrl, UrlHeld
<1>9. StoresLast(c)'
    BY <1>2, <1>3, <1>4, <1>5 DEF CallerInv, StoresLast
<1> QED
    BY <1>1, <1>4, <1>5, <1>6, <1>7, <1>8, <1>9, LocalStep DEF CallerInv

LEMMA UpsertLocationStep ==
    ASSUME PInv, NEW c \in Callers, UpsertLocation(c)
    PROVE  PInv'
<1> DEFINE s == [run[c] EXCEPT !.located = clock + 1]
<1>1. clock \in Nat /\ nextId \in Nat /\ run[c] \in RunRecords
    BY DEF PInv, Types
<1>2. CallerInv(c) /\ pc[c] = "location" /\ ~UrlPending(c, run[c].url) /\ ~UrlTaken(c)
    BY DEF PInv, UpsertLocation
<1>3. /\ s \in RunRecords /\ s.podcast = run[c].podcast
      /\ s.inserted = run[c].inserted /\ s.url = run[c].url /\ s.body = run[c].body
      /\ s.feed_url = run[c].feed_url /\ s.stored = run[c].stored
    BY <1>1 DEF RunRecords
<1>4. /\ run' = [run EXCEPT ![c] = s] /\ pc' = [pc EXCEPT ![c] = "content"]
      /\ "content" \in Phases /\ clock' = clock + 1 /\ UNCHANGED <<dbVars, batch>>
    BY DEF UpsertLocation, Phases
<1> HIDE DEF s
<1>5. /\ run'[c] = s /\ run' \in [Callers -> RunRecords]
      /\ pc'[c] = "content" /\ pc' \in [Callers -> Phases]
      /\ \A d \in Callers \ {c} : run'[d] = run[d] /\ pc'[d] = pc[d]
    BY <1>3, <1>4, CallerMoves DEF PInv
<1>6. FilledBy(c)'
    BY <1>2, <1>3, <1>5 DEF CallerInv, FilledBy, RowHeld
<1>7. HoldsAlone(c)'
    BY <1>2, <1>3, <1>4, <1>5 DEF CallerInv, HoldsAlone, RowHeld, dbVars
<1>8. OwnsUrl(c)'
    BY <1>2, <1>3, <1>4, <1>5 DEF CallerInv, OwnsUrl, UrlTaken, UrlPending, RowHeld, UrlHeld, dbVars
<1>9. StoresLast(c)'
    BY <1>1, <1>2, <1>3, <1>4, <1>5 DEF CallerInv, StoresLast, RunRecords
<1> QED
    BY <1>1, <1>4, <1>5, <1>6, <1>7, <1>8, <1>9, LocalStep DEF CallerInv, dbVars

LEMMA ShortcutStep ==
    ASSUME PInv, NEW c \in Callers, Shortcut(c)
    PROVE  PInv'
<1>1. clock \in Nat /\ nextId \in Nat /\ run \in [Callers -> RunRecords]
    BY DEF PInv, Types
<1>2. CallerInv(c) /\ pc[c] = "content" /\ AlreadyProcessed(c)
    BY DEF PInv, Shortcut
<1>3. /\ UNCHANGED <<dbVars, batch, clock, run>> /\ pc'[c] = "commit" /\ pc' \in [Callers -> Phases]
      /\ \A d \in Callers \ {c} : run'[d] = run[d] /\ pc'[d] = pc[d]
    BY DEF PInv, Types, Shortcut, Phases
<1>4. FilledBy(c)' /\ run[c].stored = 0
    BY <1>2, <1>3 DEF CallerInv, FilledBy, RowHeld
<1>5. HoldsAlone(c)'
    BY <1>2, <1>3 DEF CallerInv, HoldsAlone, RowHeld, dbVars
<1>6. OwnsUrl(c)'
    BY <1>2, <1>3 DEF CallerInv, OwnsUrl, UrlPending, RowHeld, UrlHeld, dbVars
<1>7. StoresLast(c)'
  <2>1. run[c].body \in Bodies
    BY <1>2 DEF CallerInv, FilledBy, RowHeld
  <2>2. run[c].podcast \in Podcasts => run[c].body \in processed[run[c].podcast]
    BY <1>2, <2>1 DEF PInv, TablesInv, ContentsInv, ContentsOf, AlreadyProcessed
  <2> QED
    BY <1>2, <1>3, <1>4, <2>2 DEF CallerInv, StoresLast, dbVars
<1> QED
    BY <1>1, <1>3, <1>4, <1>5, <1>6, <1>7, LocalStep DEF CallerInv, dbVars

LEMMA UpsertContentStep ==
    ASSUME PInv, NEW c \in Callers, UpsertContent(c)
    PROVE  PInv'
<1> DEFINE s == [run[c] EXCEPT !.stored = clock + 1]
<1>1. clock \in Nat /\ nextId \in Nat /\ run[c] \in RunRecords
    BY DEF PInv, Types
<1>2. CallerInv(c) /\ pc[c] = "content"
    BY DEF PInv, UpsertContent
<1>3. /\ s \in RunRecords /\ s.podcast = run[c].podcast
      /\ s.inserted = run[c].inserted /\ s.url = run[c].url /\ s.body = run[c].body
      /\ s.feed_url = run[c].feed_url /\ s.stored = clock + 1
    BY <1>1 DEF RunRecords
<1>4. /\ run' = [run EXCEPT ![c] = s] /\ pc' = [pc EXCEPT ![c] = "commit"]
      /\ "commit" \in Phases /\ clock' = clock + 1 /\ UNCHANGED <<dbVars, batch>>
    BY DEF UpsertContent, Phases
<1> HIDE DEF s
<1>5. /\ run'[c] = s /\ run' \in [Callers -> RunRecords]
      /\ pc'[c] = "commit" /\ pc' \in [Callers -> Phases]
      /\ \A d \in Callers \ {c} : run'[d] = run[d] /\ pc'[d] = pc[d]
    BY <1>3, <1>4, CallerMoves DEF PInv
<1>6. FilledBy(c)'
    BY <1>2, <1>3, <1>5 DEF CallerInv, FilledBy, RowHeld
<1>7. HoldsAlone(c)'
    BY <1>2, <1>3, <1>4, <1>5 DEF CallerInv, HoldsAlone, RowHeld, dbVars
<1>8. OwnsUrl(c)'
    BY <1>2, <1>3, <1>4, <1>5 DEF CallerInv, OwnsUrl, UrlPending, RowHeld, UrlHeld, dbVars
<1>9. StoresLast(c)'
  <2>1. \A p \in Podcasts, b \in Bodies : content[p][b] \in Nat /\ content[p][b] < clock + 1
    BY <1>1 DEF PInv, Types, TablesInv, TablesInPast
  <2> QED
    BY <1>1, <1>3, <1>4, <1>5, <2>1 DEF StoresLast, dbVars
<1> QED
    BY <1>1, <1>4, <1>5, <1>6, <1>7, <1>8, <1>9, LocalStep DEF CallerInv, dbVars

-----------------------------------------------------------------------------
(* The steps that change the tables. *)
LEMMA RecoverStep ==
    ASSUME PInv, NEW c \in Callers, Recover(c)
    PROVE  PInv'
<1>1. Types /\ clock + 1 \in Nat /\ clock <= clock + 1
    BY DEF PInv, Types
<1>2. Idle \in RunRecords /\ Idle.stored = 0 /\ "idle" \in Phases
    BY DEF Idle, RunRecords, Phases
<1>3. /\ UNCHANGED <<location, content, episode, processed, batch, nextId>>
      /\ clock' = clock + 1
      /\ run' = [run EXCEPT ![c] = Idle] /\ pc' = [pc EXCEPT ![c] = "idle"]
    BY DEF Recover, EndRecovery
<1>4. /\ run'[c] = Idle /\ run' \in [Callers -> RunRecords]
      /\ pc'[c] = "idle" /\ pc' \in [Callers -> Phases]
      /\ \A d \in Callers \ {c} : run'[d] = run[d] /\ pc'[d] = pc[d]
    BY <1>1, <1>2, <1>3, CallerMoves
<1>5. ASSUME NEW p \in Podcasts
      PROVE  /\ podcast'[p] \in PodcastRows \cup {None}
             /\ podcast'[p] = None <=> podcast[p] = None
             /\ podcast[p] # None => podcast'[p].title = podcast[p].title
  <2>1. podcast'[p] = IF p \in FailedPodcasts(c) THEN RecoveredRow(podcast[p]) ELSE podcast[p]
    BY DEF Recover
  <2>2. podcast[p] = None \/ podcast[p] \in PodcastRows
    BY <1>1 DEF Types
  <2>3. CASE podcast[p] = None
    BY <2>1, <2>3 DEF RecoveredRow
  <2>4. CASE podcast[p] # None
    <3>1. podcast[p].title \in Bodies /\ podcast[p] \in PodcastRows
      BY <2>2, <2>4 DEF PodcastRows
    <3>2. podcast'[p] = podcast[p] \/ podcast'[p] = PodcastRow(podcast[p].title, clock + 1)
      BY <2>1, <2>4 DEF RecoveredRow
    <3> QED
      BY <1>1, <2>4, <3>1, <3>2, PodcastRowFacts
  <2> QED
    BY <2>3, <2>4
<1>6. Types'
  <2>1. podcast' \in [Podcasts -> PodcastRows \cup {None}]
    BY <1>5 DEF Recover
  <2> QED
    BY <1>1, <1>3, <1>4, <2>1 DEF Types
<1>7. CallerInv(c)'
    BY <1>1, <1>2, <1>3, <1>4, NothingHeld DEF FilledBy, RowHeld, Types
<1>8. \A d \in Callers \ {c} : CallerInv(d)'
    BY <1>1, <1>2, <1>3, <1>4, <1>7, OthersKeep DEF Types
<1>9. TablesInPast'
    BY <1>1, <1>3 DEF PInv, Types, TablesInv, TablesInPast
<1>10. PodcastHasLocation' /\ NewestContentShown' /\ ContentsInv' /\ BatchInv'
    BY <1>3, <1>5 DEF PInv, TablesInv, PodcastHasLocation, NewestContentShown,
       ContentsInv, BatchInv, ContentsOf, Exists, UrlsOf
<1> QED
    BY <1>6, <1>7, <1>8, <1>9, <1>10 DEF PInv, TablesInv

LEMMA UpgradeStep ==
    ASSUME PInv, Upgrade
    PROVE  PInv'
<1>1. Types /\ clock + 1 \in Nat /\ clock <= clock + 1
    BY DEF PInv, Types
<1>2. /\ UNCHANGED <<podcast, content, episode, processed, batch, nextId, pc, run>>
      /\ clock' = clock + 1
    BY DEF Upgrade
<1>3. ASSUME NEW v \in Urls
      PROVE  /\ location'[v] \in LocationRows \cup {None}
             /\ location[v] # None => location'[v] = location[v]
             /\ location'[v] # None => location'[v].podcast < nextId
             /\ location'[v] # location[v] => ~UrlPending(None, v)
  <2>1. CASE \E u \in Upgradable : SecureUrl[u] = v
    <3> DEFINE w == CHOOSE u \in Upgradable : SecureUrl[u] = v
    <3>1. w \in Upgradable /\ SecureUrl[w] = v
      BY <2>1
    <3> HIDE DEF w
    <3>2. w \in Urls /\ location[w] # None
      BY <3>1, SecureUrlAssumption DEF Upgradable
    <3>3. location[w].podcast \in Nat /\ location[w].podcast < nextId
      BY <1>1, <3>2 DEF Types, LocationRows, PInv, TablesInv, TablesInPast
    <3>4. location[v] = None /\ ~UrlPending(None, v)
      BY <3>1 DEF Upgrade
    <3>5. location'[v] = LocationRow(location[w].podcast, clock + 1)
      BY <2>1 DEF Upgrade, w
    <3> QED
      BY <1>1, <3>3, <3>4, <3>5, LocationRowFacts
  <2>2. CASE ~\E u \in Upgradable : SecureUrl[u] = v
    <3>1. location'[v] = location[v]
      BY <2>2 DEF Upgrade
    <3> QED
      BY <1>1, <3>1 DEF Types, PInv, TablesInv, TablesInPast
  <2> QED
    BY <2>1, <2>2
<1>4. Types'
  <2>1. location' \in [Urls -> LocationRows \cup {None}]
    BY <1>3 DEF Upgrade
  <2> QED
    BY <1>1, <1>2, <2>1 DEF Types
<1>5. TablesInPast'
    BY <1>1, <1>2, <1>3 DEF PInv, Types, TablesInv, TablesInPast
<1>6. PodcastHasLocation'
    BY <1>2, <1>3 DEF PInv, TablesInv, PodcastHasLocation, Exists, UrlsOf
<1>7. NewestContentShown' /\ ContentsInv' /\ BatchInv'
    BY <1>2 DEF PInv, TablesInv, NewestContentShown, ContentsInv, BatchInv, ContentsOf, Exists
<1>8. ASSUME NEW c \in Callers PROVE CallerInv(c)'
  <2>1. CallerInv(c) /\ run[c] \in RunRecords
    BY DEF PInv, Types
  <2>2. FilledBy(c)' /\ HoldsAlone(c)'
    BY <1>2, <2>1 DEF CallerInv, FilledBy, HoldsAlone
  <2>3. OwnsUrl(c)'
    <3>1. pc[c] \in RowHeld => run[c].url \in Urls
      BY <2>1 DEF CallerInv, FilledBy
    <3>2. pc[c] \in UrlHeld /\ run[c].inserted => UrlPending(None, run[c].url)
      BY NoneAssumption DEF UrlPending
    <3> QED
      BY <1>2, <1>3, <2>1, <3>1, <3>2 DEF CallerInv, OwnsUrl, UrlPending, RowHeld, UrlHeld
  <2>4. StoresLast(c)'
    BY <1>1, <1>2, <2>1 DEF CallerInv, StoresLast, Types, RunRecords
  <2> QED
    BY <2>2, <2>3, <2>4 DEF CallerInv
<1> QED
    BY <1>4, <1>5, <1>6, <1>7, <1>8 DEF PInv, TablesInv

LEMMA CommitStep ==
    ASSUME PInv, NEW c \in Callers, Commit(c)
    PROVE  PInv'
<1> DEFINE p == run[c].podcast
           u == run[c].url
           b == run[c].body
           full == run[c].stored > 0
<1>1. /\ Types /\ CallerInv(c) /\ pc[c] = "commit"
      /\ clock \in Nat /\ nextId \in Nat
      /\ p \in Nat /\ run[c].converted \in Nat /\ run[c].located \in Nat
      /\ run[c].stored \in Nat
    BY DEF PInv, Types, Commit, RunRecords
<1>2. u \in Urls /\ b \in Bodies /\ p < nextId /\ run[c].stored <= clock
    BY <1>1 DEF CallerInv, FilledBy, HoldsAlone, StoresLast, RowHeld
<1>3. location[u] = None \/ location[u].podcast = p
    BY <1>1 DEF CallerInv, OwnsUrl, RowHeld, UrlHeld
<1>4. /\ podcast' = [podcast EXCEPT ![p] = PodcastRow(b, run[c].converted)]
      /\ location' = [location EXCEPT ![u] = LocationRow(p, run[c].located)]
      /\ content' = IF full THEN [content EXCEPT ![p][b] = run[c].stored] ELSE content
      /\ episode' = IF full THEN [episode EXCEPT ![p] = WrittenEpisodes(c)] ELSE episode
      /\ processed' = IF full THEN [processed EXCEPT ![p] = @ \cup {b}] ELSE processed
      /\ run' = [run EXCEPT ![c] = Idle] /\ pc' = [pc EXCEPT ![c] = "idle"]
      /\ UNCHANGED <<nextId, clock, batch>>
    BY DEF Commit
<1>5. Idle \in RunRecords /\ Idle.stored = 0 /\ "idle" \in Phases
    BY DEF Idle, RunRecords, Phases
<1>6. /\ run'[c] = Idle /\ run' \in [Callers -> RunRecords]
      /\ pc'[c] = "idle" /\ pc' \in [Callers -> Phases]
      /\ \A d \in Callers \ {c} : run'[d] = run[d] /\ pc'[d] = pc[d]
    BY <1>1, <1>4, <1>5, CallerMoves
<1>7. /\ PodcastRow(b, run[c].converted) \in PodcastRows
      /\ PodcastRow(b, run[c].converted) # None
      /\ LocationRow(p, run[c].located) \in LocationRows
      /\ LocationRow(p, run[c].located) # None
      /\ LocationRow(p, run[c].located).podcast = p
    BY <1>1, <1>2, PodcastRowFacts, LocationRowFacts
<1>8. /\ location' \in [Urls -> LocationRows \cup {None}]
      /\ location'[u] # None /\ location'[u].podcast = p
      /\ \A v \in Urls \ {u} : location'[v] = location[v]
    BY <1>1, <1>2, <1>4, <1>7 DEF Types
<1>9. /\ podcast' \in [Podcasts -> PodcastRows \cup {None}]
      /\ p \in Podcasts => podcast'[p] # None
      /\ \A q \in Podcasts \ {p} : podcast'[q] = podcast[q]
    BY <1>1, <1>4, <1>7 DEF Types
<1>10. /\ content' \in [Podcasts -> [Bodies -> Nat]]
       /\ p \in Podcasts /\ full => content'[p] = [content[p] EXCEPT ![b] = run[c].stored]
       /\ \A q \in Podcasts : q # p \/ ~full => content'[q] = content[q]
    BY <1>1, <1>2, <1>4 DEF Types
<1>11. p \in Podcasts => WrittenEpisodes(c) \in [Guids -> Bodies \cup {None}]
    BY <1>1, <1>2 DEF WrittenEpisodes, Types
<1>12. /\ episode' \in [Podcasts -> [Guids -> Bodies \cup {None}]]
       /\ p \in Podcasts /\ full => episode'[p] = WrittenEpisodes(c)
       /\ \A q \in Podcasts : q # p \/ ~full => episode'[q] = episode[q]
    BY <1>1, <1>4, <1>11 DEF Types
<1>22. /\ processed' \in [Podcasts -> SUBSET Bodies]
       /\ p \in Podcasts /\ full => processed'[p] = processed[p] \cup {b}
       /\ \A q \in Podcasts : q # p \/ ~full => processed'[q] = processed[q]
    BY <1>1, <1>2, <1>4 DEF Types
<1>13. Types'
    BY <1>1, <1>4, <1>6, <1>8, <1>9, <1>10, <1>12, <1>22 DEF Types
<1> HIDE DEF p, u, b, full
<1>14. TablesInPast'
  <2>1. \A v \in Urls : location'[v] # None => location'[v].podcast < nextId
    BY <1>2, <1>8 DEF PInv, TablesInv, TablesInPast
  <2>2. \A q \in Podcasts, d \in Bodies : content'[q][d] <= clock
    <3> TAKE q \in Podcasts, d \in Bodies
    <3>1. content'[q][d] = content[q][d] \/ content'[q][d] = run[c].stored
      <4>1. CASE q = p /\ full
        BY <1>1, <1>2, <1>10, <4>1 DEF Types
      <4> QED
        BY <1>10, <4>1
    <3> QED
      BY <1>2, <3>1 DEF PInv, TablesInv, TablesInPast
  <2> QED
    BY <1>4, <2>1, <2>2 DEF TablesInPast
<1>15. PodcastHasLocation'
  <2> SUFFICES ASSUME NEW q \in Podcasts, podcast'[q] # None
               PROVE  \E v \in Urls : location'[v] # None /\ location'[v].podcast = q
    BY DEF PodcastHasLocation, Exists, UrlsOf
  <2>1. CASE q = p
    BY <1>2, <1>8, <2>1
  <2>2. CASE q # p
    <3>1. PICK v \in Urls : location[v] # None /\ location[v].podcast = q
      BY <1>9, <2>2 DEF PInv, TablesInv, PodcastHasLocation, Exists, UrlsOf
    <3>2. v # u
      BY <1>3, <2>2, <3>1
    <3> QED
      BY <1>8, <3>1, <3>2
  <2> QED
    BY <2>1, <2>2
<1>16. ASSUME NEW q \in Podcasts, q = p, full
       PROVE  /\ content'[q][b] = run[c].stored
              /\ \A x \in Bodies \ {b} : content'[q][x] = content[q][x]
              /\ \A x \in Bodies : content[q][x] < run[c].stored /\ content[q][x] \in Nat
              /\ ContentsOf(q)' = ContentsOf(q) \cup {b}
  <2>1. \A x \in Bodies : content[q][x] < run[c].stored /\ content[q][x] \in Nat
    BY <1>1, <1>16 DEF CallerInv, StoresLast, Types, p, full
  <2>2. /\ content'[q][b] = run[c].stored
        /\ \A x \in Bodies \ {b} : content'[q][x] = content[q][x]
    BY <1>1, <1>2, <1>10, <1>16 DEF Types
  <2> QED
    BY <1>1, <1>2, <1>16, <2>1, <2>2 DEF ContentsOf, full
<1>17. ASSUME NEW q \in Podcasts, q # p \/ ~full
       PROVE  /\ content'[q] = content[q] /\ episode'[q] = episode[q]
              /\ processed'[q] = processed[q] /\ ContentsOf(q)' = ContentsOf(q)
    BY <1>10, <1>12, <1>17, <1>22 DEF ContentsOf
<1>18. ContentsInv'
  <2>1. ASSUME NEW q \in Podcasts, processed'[q] # {}
        PROVE  podcast'[q] # None
    BY <1>9, <1>17, <2>1 DEF PInv, TablesInv, ContentsInv, Exists
  <2>2. ASSUME NEW q \in Podcasts
        PROVE  ContentsOf(q)' \subseteq processed'[q]
    BY <1>16, <1>17, <1>22 DEF PInv, TablesInv, ContentsInv
  <2>3. ASSUME NEW q \in Podcasts, NEW x \in ContentsOf(q)', NEW y \in ContentsOf(q)',
               content'[q][x] = content'[q][y]
        PROVE  x = y
    <3>1. CASE q = p /\ full
      <4>1. /\ x = b \/ (x \in ContentsOf(p) /\ x \in Bodies)
            /\ y = b \/ (y \in ContentsOf(p) /\ y \in Bodies)
        BY <1>16, <2>3, <3>1 DEF ContentsOf
      <4>2. \A z \in Bodies \ {b} : content'[p][z] < content'[p][b]
        BY <1>1, <1>16, <3>1
      <4>3. (x = b) <=> (y = b)
        BY <1>1, <1>16, <2>3, <3>1, <4>1, <4>2
      <4>4. x # b /\ y # b => content[p][x] = content[p][y]
        BY <1>16, <2>3, <3>1, <4>1
      <4> QED
        BY <3>1, <4>1, <4>3, <4>4 DEF PInv, TablesInv, ContentsInv
    <3>2. CASE ~(q = p /\ full)
      BY <1>17, <2>3, <3>2 DEF PInv, TablesInv, ContentsInv
    <3> QED
      BY <3>1, <3>2
  <2> QED
    BY <2>1, <2>2, <2>3 DEF ContentsInv, Exists
<1>23. BatchInv'
  <2>1. ASSUME NEW q \in Podcasts, NEW x \in Bodies, <<q, x>> \in batch
        PROVE  podcast'[q] # None
    BY <1>9, <2>1 DEF PInv, TablesInv, BatchInv, Exists
  <2>2. ASSUME NEW q \in Podcasts, podcast'[q] # None
        PROVE  \E x \in ContentsOf(q)' : <<q, x>> \notin batch
    <3>1. CASE podcast[q] # None
      <4>1. PICK x \in ContentsOf(q) : <<q, x>> \notin batch
        BY <3>1 DEF PInv, TablesInv, BatchInv, Exists
      <4>2. x \in ContentsOf(q)'
        BY <1>16, <1>17, <4>1
      <4> QED
        BY <4>1, <4>2
    <3>2. CASE podcast[q] = None
      <4>1. q = p
        BY <1>9, <2>2, <3>2
      <4>2. full
        <5> SUFFICES ASSUME ~full PROVE FALSE
          OBVIOUS
        <5>1. run[c].stored = 0
          BY <1>1 DEF full
        <5>2. b \in processed[p]
          BY <1>1, <4>1, <5>1 DEF CallerInv, StoresLast, p, b
        <5> QED
          BY <3>2, <4>1, <5>2 DEF PInv, TablesInv, ContentsInv, Exists
      <4>3. b \in ContentsOf(q)'
        BY <1>16, <4>1, <4>2
      <4>4. <<q, b>> \notin batch
        BY <1>2, <3>2 DEF PInv, TablesInv, BatchInv, Exists
      <4> QED
        BY <4>3, <4>4
    <3> QED
      BY <3>1, <3>2
  <2> QED
    BY <1>4, <2>1, <2>2 DEF BatchInv, Exists
<1>19. NewestContentShown'
  <2> SUFFICES ASSUME NEW q \in Podcasts, NEW d \in ContentsOf(q)', NEW g \in GuidsOf[d]
               PROVE  /\ episode'[q][g] # None
                      /\ \/ content'[q][episode'[q][g]] = 0
                         \/ content'[q][episode'[q][g]] >= content'[q][d]
    BY DEF NewestContentShown
  <2>1. d \in Bodies /\ content'[q][d] > 0
    BY DEF ContentsOf
  <2>2. g \in Guids
    BY <2>1, GuidsAssumption
  <2>3. CASE q = p /\ full
    <3>1. episode'[p][g] = IF g \in GuidsOf[b] THEN b ELSE episode[p][g]
      BY <1>12, <2>2, <2>3 DEF WrittenEpisodes, p, b
    <3>2. content'[p][d] \in Nat /\ content'[p][d] <= run[c].stored
      BY <1>1, <1>16, <2>1, <2>3
    <3>3. CASE g \in GuidsOf[b]
      BY <1>1, <1>2, <1>16, <2>3, <3>1, <3>2, <3>3, NoneAssumption
    <3>4. CASE g \notin GuidsOf[b]
      <4>1. d # b /\ d \in ContentsOf(p) /\ content'[p][d] = content[p][d]
        BY <1>16, <2>1, <2>3, <3>4
      <4>2. /\ episode[p][g] # None
            /\ content[p][episode[p][g]] = 0 \/ content[p][episode[p][g]] >= content[p][d]
        BY <2>3, <4>1 DEF PInv, TablesInv, NewestContentShown
      <4>3. episode[p][g] \in Bodies
        BY <1>1, <2>2, <2>3, <4>2 DEF Types
      <4>4. \/ content'[p][episode[p][g]] = content[p][episode[p][g]]
            \/ content'[p][episode[p][g]] = run[c].stored
        BY <1>16, <2>3, <4>3
      <4> QED
        BY <1>1, <2>3, <3>1, <3>2, <3>4, <4>1, <4>2, <4>4
    <3> QED
      BY <3>3, <3>4
  <2>4. CASE ~(q = p /\ full)
    BY <1>17, <2>4 DEF PInv, TablesInv, NewestContentShown
  <2> QED
    BY <2>3, <2>4
<1>20. CallerInv(c)'
    BY <1>1, <1>4, <1>5, <1>6, NothingHeld DEF FilledBy, RowHeld
<1>21. ASSUME NEW d \in Callers \ {c} PROVE CallerInv(d)'
  <2>1. CallerInv(d) /\ run[d] \in RunRecords /\ run'[d] = run[d] /\ pc'[d] = pc[d]
    BY <1>1, <1>6 DEF PInv, Types
  <2>2. pc[d] \in RowHeld => run[d].podcast # p
    BY <1>1 DEF CallerInv, HoldsAlone, RowHeld, p
  <2>3. FilledBy(d)'
    BY <2>1 DEF CallerInv, FilledBy
  <2>4. HoldsAlone(d)'
    BY <1>4, <1>6, <2>1 DEF CallerInv, HoldsAlone, RowHeld
  <2>5. OwnsUrl(d)'
    <3>1. pc[d] \in RowHeld => run[d].url \in Urls
      BY <2>1 DEF CallerInv, FilledBy
    <3>2. CASE pc[d] \in RowHeld /\ ~run[d].inserted
      <4>1. location[run[d].url] # None /\ location[run[d].url].podcast = run[d].podcast
        BY <2>1, <3>2 DEF CallerInv, OwnsUrl
      <4>2. run[d].url # u
        BY <1>3, <2>2, <3>2, <4>1
      <4> QED
        BY <1>8, <2>1, <3>1, <3>2, <4>1, <4>2 DEF OwnsUrl
    <3>3. CASE pc[d] \in UrlHeld /\ run[d].inserted
      <4>1. /\ location[run[d].url] # None => location[run[d].url].podcast = run[d].podcast
            /\ ~UrlPending(d, run[d].url)
        BY <2>1, <3>3 DEF CallerInv, OwnsUrl
      <4>2. run[d].url # u
        <5> SUFFICES ASSUME run[d].url = u PROVE FALSE
          OBVIOUS
        <5>1. ~run[c].inserted
          BY <1>1, <4>1 DEF UrlPending, UrlHeld, u
        <5>2. location[u] # None /\ location[u].podcast = p
          BY <1>1, <5>1 DEF CallerInv, OwnsUrl, RowHeld, u, p
        <5> QED
          BY <2>2, <3>3, <4>1, <5>2 DEF RowHeld, UrlHeld
      <4>3. ~UrlPending(d, run[d].url)'
        BY <1>6, <2>1, <4>1 DEF UrlPending, UrlHeld
      <4> QED
        BY <1>8, <2>1, <3>1, <3>3, <4>1, <4>2, <4>3 DEF OwnsUrl, RowHeld, UrlHeld
    <3> QED
      BY <2>1, <3>2, <3>3 DEF OwnsUrl
  <2>6. StoresLast(d)'
    <3>1. pc[d] = "commit" /\ run[d].podcast \in Podcasts
             => /\ content'[run[d].podcast] = content[run[d].podcast]
                /\ processed'[run[d].podcast] = processed[run[d].podcast]
      BY <1>10, <1>22, <2>2 DEF RowHeld
    <3> QED
      BY <1>4, <2>1, <3>1 DEF CallerInv, StoresLast
  <2> QED
    BY <2>3, <2>4, <2>5, <2>6 DEF CallerInv
<1> QED
    BY <1>13, <1>14, <1>15, <1>18, <1>19, <1>20, <1>21, <1>23 DEF PInv, TablesInv

-----------------------------------------------------------------------------
(* The cleaner.  A podcast that has contents has a newest: the time since  *)
(* it was stored is the least.                                             *)
LEMMA NewestExists ==
    ASSUME PInv, NEW p \in Podcasts, NEW S \in SUBSET Bodies, S # {}
    PROVE  \E b \in S : \A d \in S : content[p][d] <= content[p][b]
<1>1. clock \in Nat /\ \A b \in Bodies : content[p][b] \in Nat /\ content[p][b] <= clock
    BY DEF PInv, Types, TablesInv, TablesInPast
<1> DEFINE Ages == {clock - content[p][b] : b \in S}
<1>2. Ages \subseteq Nat /\ Ages # {}
    BY <1>1
<1> HIDE DEF Ages
<1>3. PICK age \in Ages : \A a \in Ages : <<a, age>> \notin OpToRel(<, Nat)
    BY <1>2, NatLessThanWellFounded, WFMin
<1>4. \A a \in Ages : ~(a < age)
    BY <1>2, <1>3 DEF OpToRel
<1>5. PICK b \in S : age = clock - content[p][b]
    BY DEF Ages
<1>6. ASSUME NEW d \in S PROVE content[p][d] <= content[p][b]
  <2>1. clock - content[p][d] \in Ages
    BY DEF Ages
  <2> QED
    BY <1>1, <1>4, <1>5, <2>1
<1> QED
    BY <1>5, <1>6

(* What the statement selects has a newer content of the same podcast. *)
LEMMA ExcessHasNewer ==
    ASSUME NEW p \in Podcasts, NEW b \in Bodies, <<p, b>> \in Excess
    PROVE  content[p][b] > 0 /\ \E d \in Bodies : content[p][d] > content[p][b]
<1>1. /\ content[p][b] > 0
      /\ Cardinality({d \in Bodies : content[p][d] > content[p][b]}) >= ContentLimit
    BY DEF Excess
<1>2. {d \in Bodies : content[p][d] > content[p][b]} # {}
    BY <1>1, ContentLimitAssumption, FS_EmptySet
<1> QED
    BY <1>1, <1>2

LEMMA SelectExcessStep ==
    ASSUME PInv, SelectExcess
    PROVE  PInv'
<1>1. UNCHANGED <<dbVars, clock, pc, run>> /\ batch' \subseteq Excess
    BY DEF SelectExcess
<1>2. Types'
    BY <1>1 DEF PInv, Types, Excess, dbVars
<1>3. \A c \in Callers : CallerInv(c)'
    BY <1>1 DEF PInv, CallerInv, FilledBy, HoldsAlone, OwnsUrl, StoresLast, UrlPending, dbVars
<1>4. TablesInPast' /\ PodcastHasLocation' /\ NewestContentShown' /\ ContentsInv'
    BY <1>1 DEF PInv, TablesInv, TablesInPast, PodcastHasLocation, NewestContentShown,
       ContentsInv, ContentsOf, Exists, UrlsOf, dbVars
<1>5. ASSUME NEW p \in Podcasts, NEW b \in Bodies, <<p, b>> \in batch'
      PROVE  Exists(p)
  <2>1. b \in ContentsOf(p)
    BY <1>1, <1>5, ExcessHasNewer DEF ContentsOf
  <2> QED
    BY <2>1 DEF PInv, TablesInv, ContentsInv
<1>6. ASSUME NEW p \in Podcasts, Exists(p)
      PROVE  \E b \in ContentsOf(p) : <<p, b>> \notin batch'
  <2>1. PICK d \in ContentsOf(p) : TRUE
    BY <1>6 DEF PInv, TablesInv, BatchInv
  <2>2. ContentsOf(p) \in SUBSET Bodies /\ ContentsOf(p) # {}
    BY <2>1 DEF ContentsOf
  <2>3. PICK b \in ContentsOf(p) : \A x \in ContentsOf(p) : content[p][x] <= content[p][b]
    BY <2>2, NewestExists
  <2>4. /\ b \in Bodies /\ content[p][b] > 0
        /\ \A x \in Bodies : content[p][x] \in Nat
    BY <2>3 DEF ContentsOf, PInv, Types
  <2>5. \A x \in Bodies : ~(content[p][x] > content[p][b])
    BY <2>3, <2>4 DEF ContentsOf
  <2> QED
    BY <1>1, <2>3, <2>4, <2>5, ExcessHasNewer
<1>7. BatchInv'
    BY <1>1, <1>5, <1>6 DEF BatchInv, ContentsOf, Exists, dbVars
<1> QED
    BY <1>2, <1>3, <1>4, <1>7 DEF PInv, TablesInv

(* What the deletion leaves. *)
LEMMA DeleteFacts ==
    ASSUME PInv, DeleteExcess, NEW p \in Podcasts
    PROVE  /\ \A b \in Bodies :
                 /\ content'[p][b] = IF <<p, b>> \in batch THEN 0 ELSE content[p][b]
                 /\ content'[p][b] \in Nat
           /\ ContentsOf(p)' = {b \in ContentsOf(p) : <<p, b>> \notin batch}
<1>1. ASSUME NEW b \in Bodies
      PROVE  /\ content'[p][b] = IF <<p, b>> \in batch THEN 0 ELSE content[p][b]
             /\ content'[p][b] \in Nat
    BY DEF DeleteExcess, PInv, Types
<1>2. ContentsOf(p)' = {b \in ContentsOf(p) : <<p, b>> \notin batch}
    BY <1>1 DEF ContentsOf
<1> QED
    BY <1>1, <1>2

LEMMA DeleteExcessStep ==
    ASSUME PInv, DeleteExcess
    PROVE  PInv'
<1>1. /\ UNCHANGED <<podcast, location, episode, processed, nextId, clock, pc, run>>
      /\ batch' = {}
    BY DEF DeleteExcess
<1>2. Types'
  <2>1. content' \in [Podcasts -> [Bodies -> Nat]]
    BY DEF DeleteExcess, PInv, Types
  <2> QED
    BY <1>1, <2>1 DEF PInv, Types
<1>3. ASSUME NEW c \in Callers PROVE CallerInv(c)'
  <2>1. FilledBy(c)' /\ HoldsAlone(c)' /\ OwnsUrl(c)'
    BY <1>1 DEF PInv, CallerInv, FilledBy, HoldsAlone, OwnsUrl, UrlPending
  <2>2. StoresLast(c)'
    <3>1. StoresLast(c) /\ run[c].stored \in Nat
      BY DEF PInv, CallerInv, Types, RunRecords
    <3>2. ASSUME pc[c] = "commit", run[c].podcast \in Podcasts, run[c].stored # 0,
                 NEW b \in Bodies
          PROVE  content'[run[c].podcast][b] < run[c].stored
      <4>1. content[run[c].podcast][b] < run[c].stored
        BY <3>1, <3>2 DEF StoresLast
      <4>2. \/ content'[run[c].podcast][b] = 0
            \/ content'[run[c].podcast][b] = content[run[c].podcast][b]
        BY <3>2, DeleteFacts
      <4> QED
        BY <3>1, <3>2, <4>1, <4>2
    <3> QED
      BY <1>1, <3>1, <3>2 DEF StoresLast
  <2> QED
    BY <2>1, <2>2 DEF CallerInv
<1>4. TablesInPast'
  <2>1. ASSUME NEW p \in Podcasts, NEW b \in Bodies PROVE content'[p][b] <= clock
    <3>1. content'[p][b] = 0 \/ content'[p][b] = content[p][b]
      BY DeleteFacts
    <3> QED
      BY <3>1 DEF PInv, Types, TablesInv, TablesInPast
  <2> QED
    BY <1>1, <2>1 DEF PInv, TablesInv, TablesInPast
<1>5. PodcastHasLocation'
    BY <1>1 DEF PInv, TablesInv, PodcastHasLocation, Exists, UrlsOf
<1>6. NewestContentShown'
  <2> SUFFICES ASSUME NEW p \in Podcasts, NEW b \in ContentsOf(p)', NEW g \in GuidsOf[b]
               PROVE  /\ episode[p][g] # None
                      /\ \/ content'[p][episode[p][g]] = 0
                         \/ content'[p][episode[p][g]] >= content'[p][b]
    BY <1>1 DEF NewestContentShown
  <2>1. b \in ContentsOf(p) /\ b \in Bodies /\ content'[p][b] = content[p][b]
    BY DeleteFacts DEF ContentsOf
  <2>2. /\ episode[p][g] # None
        /\ content[p][episode[p][g]] = 0 \/ content[p][episode[p][g]] >= content[p][b]
    BY <2>1 DEF PInv, TablesInv, NewestContentShown
  <2>3. episode[p][g] \in Bodies
    BY <2>1, <2>2, GuidsAssumption DEF PInv, Types
  <2> QED
    BY <2>1, <2>2, <2>3, DeleteFacts
<1>7. ContentsInv'
  <2>1. ASSUME NEW p \in Podcasts
        PROVE  /\ ContentsOf(p)' \subseteq ContentsOf(p)
               /\ \A b \in ContentsOf(p)' : content'[p][b] = content[p][b]
    BY DeleteFacts DEF ContentsOf
  <2> QED
    BY <1>1, <2>1 DEF PInv, TablesInv, ContentsInv, Exists
<1>8. BatchInv'
    BY <1>1, DeleteFacts DEF PInv, TablesInv, BatchInv, Exists
<1> QED
    BY <1>2, <1>3, <1>4, <1>5, <1>6, <1>7, <1>8 DEF PInv, TablesInv

LEMMA CleanStep ==
    ASSUME PInv, Clean
    PROVE  PInv'
<1>1. CASE CleanFails
  <2>1. UNCHANGED <<dbVars, clock, pc, run>> /\ batch' = {}
    BY <1>1 DEF CleanFails
  <2>2. \A c \in Callers : CallerInv(c)'
    BY <2>1 DEF PInv, CallerInv, FilledBy, HoldsAlone, OwnsUrl, StoresLast, UrlPending, dbVars
  <2>3. TablesInPast' /\ PodcastHasLocation' /\ NewestContentShown' /\ ContentsInv'
    BY <2>1 DEF PInv, TablesInv, TablesInPast, PodcastHasLocation, NewestContentShown,
       ContentsInv, ContentsOf, Exists, UrlsOf, dbVars
  <2>4. BatchInv'
    BY <2>1 DEF PInv, TablesInv, BatchInv, ContentsOf, Exists, dbVars
  <2> QED
    BY <2>1, <2>2, <2>3, <2>4 DEF PInv, Types, TablesInv, dbVars
<1> QED
    BY <1>1, SelectExcessStep, DeleteExcessStep DEF Clean

-----------------------------------------------------------------------------
LEMMA CallerStep ==
    ASSUME PInv, NEW c \in Callers, Step(c)
    PROVE  PInv'
<1>1. CASE Fail(c) \/ UrlConflict(c)
    BY <1>1, FailStep DEF Fail, UrlConflict
<1>2. CASE RecoveryFails(c)
    BY <1>2, EndStep DEF RecoveryFails, EndRecovery
<1> QED
    BY <1>1, <1>2, SelectLatestUrlStep, FetchFeedStep, UpdatePodcastStep, InsertPodcastStep,
       UpsertLocationStep, ShortcutStep, UpsertContentStep, CommitStep, RecoverStep
       DEF Step, Progress

(* What the locks achieve is an invariant of every step. *)
LEMMA NextPInv == PInv /\ [Next]_vars => PInv'
<1> SUFFICES ASSUME PInv, [Next]_vars PROVE PInv'
    OBVIOUS
<1>1. CASE UNCHANGED vars
  <2>1. \A c \in Callers : CallerInv(c)'
    BY <1>1 DEF PInv, CallerInv, FilledBy, HoldsAlone, OwnsUrl, StoresLast, UrlPending,
       vars, dbVars
  <2>2. Types' /\ TablesInPast' /\ PodcastHasLocation'
    BY <1>1 DEF PInv, Types, TablesInv, TablesInPast, PodcastHasLocation, Exists, UrlsOf,
       vars, dbVars
  <2>3. NewestContentShown' /\ ContentsInv' /\ BatchInv'
    BY <1>1 DEF PInv, TablesInv, NewestContentShown, ContentsInv, BatchInv, ContentsOf,
       Exists, vars, dbVars
  <2> QED
    BY <2>1, <2>2, <2>3 DEF PInv, TablesInv
<1>2. CASE Upgrade
    BY <1>2, UpgradeStep
<1>3. ASSUME NEW c \in Callers,
             \/ \E u \in Urls, force \in BOOLEAN : Add(c, u, force)
             \/ \E p \in Podcasts : Crawl(c, p) \/ Reingest(c, p)
      PROVE  PInv'
  <2>1. PICK u \in Urls, f \in BOOLEAN, g \in Bodies \cup {None} : Begin(c, u, f, g)
    BY <1>3, BegunRuns DEF PInv
  <2> QED
    BY <2>1, BeginStep
<1>4. ASSUME NEW c \in Callers, Crash(c) PROVE PInv'
    BY <1>4, EndStep DEF Crash
<1>5. CASE Clean
    BY <1>5, CleanStep
<1> QED
    BY <1>1, <1>2, <1>3, <1>4, <1>5, CallerStep DEF Next

(* The invariant that the rows' locks and the pending insertions of URLs   *)
(* keep, whatever the runs, crashes and upgrades.                          *)
THEOREM PInvariant == Spec => []PInv
    BY InitPInv, NextPInv, PTL DEF Spec

(* However many runs race for a feed, no podcast is committed without a    *)
(* location that leads to it (upsert_podcast, upsert_podcast_feed_location *)
(* and the unique index on feed URLs).                                     *)
THEOREM HasLocation == Spec => []PodcastHasLocation
<1>1. PInv => PodcastHasLocation
    BY DEF PInv, TablesInv
<1> QED
    BY <1>1, PInvariant, PTL

(* The cleaner never leaves a podcast without a content, though it deletes *)
(* by what it read before runs stored new contents, and no first retrieval *)
(* takes the shortcut: the joins of the crawler and of the reingester find *)
(* every podcast.                                                          *)
THEOREM HasContent == Spec => []PodcastHasContent
<1>1. PInv => PodcastHasContent
    BY DEF PInv, TablesInv, BatchInv, PodcastHasContent, ContentsOf
<1> QED
    BY <1>1, PInvariant, PTL

(* Overlapping runs never leave episodes of an older content behind a      *)
(* newer one.                                                              *)
THEOREM NewestShown == Spec => []NewestContentShown
<1>1. PInv => NewestContentShown
    BY DEF PInv, TablesInv
<1> QED
    BY <1>1, PInvariant, PTL

-----------------------------------------------------------------------------
(***************************************************************************)
(* Types, and times of retrieval.  UInv adds to PInv what bounds the clock *)
(* and the ids, by what the runs that are under way still owe: a run makes *)
(* the clock tick four times at most and inserts one podcast at most, and  *)
(* an upgrade adds a location for good.                                    *)
(***************************************************************************)
StampedRuns ==
    [feed_url : Urls \cup {None}, force : BOOLEAN, given : Bodies \cup {None},
     started : Stamps, url : Urls \cup {None}, body : Bodies \cup {None},
     podcast : Podcasts \cup {0}, inserted : BOOLEAN,
     converted : Stamps, located : Stamps, stored : Stamps]

StampedPodcasts == [title : Bodies, retrieved : Stamps]
StampedLocations == [podcast : Podcasts, retrieved : Stamps]

Inserting == {"select", "fetch", "podcast"}

(* The clock may tick k times before a run in the phase has ended.         *)
Owes(phase, k) ==
    \/ k = 1 /\ phase # "idle"
    \/ k = 2 /\ phase \in Inserting \cup {"location", "content"}
    \/ k = 3 /\ phase \in Inserting \cup {"location"}
    \/ k = 4 /\ phase \in {"select", "fetch"}

Owed == {ck \in Callers \X (1..4) : Owes(pc[ck[1]], ck[2])}
ToInsert == {c \in Callers : pc[c] \in Inserting}
Located == {u \in Urls : location[u] # None}

ClockBudget == IsFiniteSet(Owed) /\ clock + Cardinality(Owed) <= 4 * runs + Cardinality(Located)
IdBudget == IsFiniteSet(ToInsert) /\ nextId + Cardinality(ToInsert) <= runs + 1

(* The URL a run has chosen is the caller's, or one of the same podcast.   *)
SameOwner(c) ==
    LET given == location[run[c].feed_url]
        chosen == location[run[c].url]
    IN  \/ run[c].url = run[c].feed_url
        \/ given # None /\ chosen # None /\ given.podcast = chosen.podcast

RunInv(c) ==
    /\ run[c].started <= clock
    /\ pc[c] \in RowHeld => run[c].podcast \in Podcasts
    /\ pc[c] \in {"podcast"} \cup RowHeld => run[c].started < run[c].converted
    /\ pc[c] \in {"fetch", "podcast"} \cup RowHeld => SameOwner(c)

UInv == PInv /\ TypeOK /\ ClockBudget /\ IdBudget /\ \A c \in Callers : RunInv(c)

(* A location stays its podcast's. *)
OwnersKept ==
    \A u \in Urls : location[u] # None =>
        location'[u] # None /\ location'[u].podcast = location[u].podcast

-----------------------------------------------------------------------------
LEMMA IdleType == Idle \in StampedRuns /\ Idle.started = 0
<1>. Cardinality(Urls) \in Nat
    BY UrlsAssumption, FS_CardinalityType
<1>. QED
    BY MaxRunsAssumption DEF Idle, StampedRuns, Stamps

LEMMA LocatedFacts ==
    ASSUME NEW S \in SUBSET Urls, NEW T \in SUBSET S
    PROVE  /\ IsFiniteSet(S) /\ Cardinality(S) \in Nat /\ Cardinality(T) \in Nat
           /\ Cardinality(T) <= Cardinality(S) /\ Cardinality(S) <= Cardinality(Urls)
           /\ T # S => Cardinality(T) + 1 <= Cardinality(S)
BY UrlsAssumption, FS_Subset, FS_CardinalityType

LEMMA OneMore ==
    ASSUME NEW S, NEW x, IsFiniteSet(S)
    PROVE  /\ IsFiniteSet(S \cup {x})
           /\ Cardinality(S) \in Nat /\ Cardinality(S \cup {x}) \in Nat
           /\ Cardinality(S \cup {x}) <= Cardinality(S) + 1
<1>1. /\ IsFiniteSet(S \cup {x})
      /\ Cardinality(S \cup {x}) = IF x \in S THEN Cardinality(S) ELSE Cardinality(S) + 1
    BY FS_AddElement
<1>2. Cardinality(S) \in Nat
    BY FS_CardinalityType
<1>. QED
    BY <1>1, <1>2

(* What the budgets bound, after a step. *)
LEMMA BudgetsBound ==
    ASSUME ClockBudget', IdBudget', clock' \in Nat, nextId' \in Nat \ {0}, runs' \in 0..MaxRuns
    PROVE  clock' \in Stamps /\ nextId' \in 1..(MaxRuns + 1)
<1>1. Cardinality(Owed') \in Nat /\ Cardinality(ToInsert') \in Nat
    BY FS_CardinalityType DEF ClockBudget, IdBudget
<1>2. Cardinality(Located') \in Nat /\ Cardinality(Located') <= Cardinality(Urls) /\ Cardinality(Urls) \in Nat
  <2>1. Located' \subseteq Urls
    BY DEF Located
  <2>. QED
    BY <2>1, LocatedFacts, UrlsAssumption, FS_CardinalityType
<1>. QED
    BY <1>1, <1>2, MaxRunsAssumption DEF ClockBudget, IdBudget, Stamps

(* A caller moves to another phase and pays for the tick, if there is one. *)
LEMMA ClockPaid ==
    ASSUME UInv, NEW c \in Callers, NEW phase \in Phases,
           pc' = [pc EXCEPT ![c] = phase],
           \A k \in 1..4 : Owes(phase, k) => Owes(pc[c], k),
           \/ clock' = clock
           \/ clock' = clock + 1 /\ \E k \in 1..4 : Owes(pc[c], k) /\ ~Owes(phase, k),
           runs' = runs, \A u \in Urls : location[u] # None => location'[u] # None
    PROVE  ClockBudget'
<1>1. /\ pc \in [Callers -> Phases] /\ clock \in Nat /\ runs \in Nat
      /\ IsFiniteSet(Owed) /\ clock + Cardinality(Owed) <= 4 * runs + Cardinality(Located)
    BY MaxRunsAssumption DEF UInv, PInv, Types, TypeOK, ClockBudget
<1>2. Cardinality(Located) <= Cardinality(Located') /\ Cardinality(Located) \in Nat /\ Cardinality(Located') \in Nat
  <2>1. Located \subseteq Located' /\ Located' \subseteq Urls
    BY DEF Located
  <2>. QED
    BY <2>1, LocatedFacts
<1>3. Owed' \subseteq Owed
  <2>1. \A d \in Callers : pc'[d] = IF d = c THEN phase ELSE pc[d]
    BY <1>1
  <2>. QED
    BY <2>1 DEF Owed
<1>4. IsFiniteSet(Owed') /\ Cardinality(Owed') <= Cardinality(Owed)
      /\ Cardinality(Owed') \in Nat /\ Cardinality(Owed) \in Nat
    BY <1>1, <1>3, FS_Subset, FS_CardinalityType
<1>5. CASE clock' = clock
    BY <1>1, <1>2, <1>4, <1>5 DEF ClockBudget
<1>6. CASE clock' = clock + 1 /\ \E k \in 1..4 : Owes(pc[c], k) /\ ~Owes(phase, k)
  <2>1. PICK k \in 1..4 : Owes(pc[c], k) /\ ~Owes(phase, k)
    BY <1>6
  <2>2. <<c, k>> \in Owed /\ <<c, k>> \notin Owed'
    BY <1>1, <2>1 DEF Owed
  <2>3. Cardinality(Owed') # Cardinality(Owed)
    BY <1>1, <1>3, <2>2, FS_Subset
  <2>. QED
    BY <1>1, <1>2, <1>4, <1>6, <2>3 DEF ClockBudget
<1>. QED
    BY <1>5, <1>6

LEMMA IdsPaid ==
    ASSUME UInv, NEW c \in Callers, NEW phase \in Phases,
           pc' = [pc EXCEPT ![c] = phase],
           phase \in Inserting => pc[c] \in Inserting,
           \/ nextId' = nextId
           \/ nextId' = nextId + 1 /\ pc[c] \in Inserting /\ phase \notin Inserting,
           runs' = runs
    PROVE  IdBudget'
<1>1. /\ pc \in [Callers -> Phases] /\ nextId \in Nat /\ runs \in Nat
      /\ IsFiniteSet(ToInsert) /\ nextId + Cardinality(ToInsert) <= runs + 1
    BY MaxRunsAssumption DEF UInv, PInv, Types, TypeOK, IdBudget
<1>2. \A d \in Callers : pc'[d] = IF d = c THEN phase ELSE pc[d]
    BY <1>1
<1>3. ToInsert' \subseteq ToInsert
    BY <1>2 DEF ToInsert
<1>4. IsFiniteSet(ToInsert') /\ Cardinality(ToInsert') <= Cardinality(ToInsert)
      /\ Cardinality(ToInsert') \in Nat /\ Cardinality(ToInsert) \in Nat
    BY <1>1, <1>3, FS_Subset, FS_CardinalityType
<1>5. CASE nextId' = nextId
    BY <1>1, <1>4, <1>5 DEF IdBudget
<1>6. CASE nextId' = nextId + 1 /\ pc[c] \in Inserting /\ phase \notin Inserting
  <2>1. c \in ToInsert /\ c \notin ToInsert'
    BY <1>2, <1>6 DEF ToInsert
  <2>2. Cardinality(ToInsert') # Cardinality(ToInsert)
    BY <1>1, <1>3, <2>1, FS_Subset
  <2>. QED
    BY <1>1, <1>4, <1>6, <2>2 DEF IdBudget
<1>. QED
    BY <1>5, <1>6

(* A run that begins owes four ticks and an insertion. *)
LEMMA BudgetsBegin ==
    ASSUME UInv, NEW c \in Callers, pc' = [pc EXCEPT ![c] = "select"],
           runs' = runs + 1, UNCHANGED <<clock, nextId, location>>
    PROVE  ClockBudget' /\ IdBudget'
<1>1. /\ pc \in [Callers -> Phases] /\ clock \in Nat /\ nextId \in Nat /\ runs \in Nat
      /\ IsFiniteSet(Owed) /\ clock + Cardinality(Owed) <= 4 * runs + Cardinality(Located)
      /\ IsFiniteSet(ToInsert) /\ nextId + Cardinality(ToInsert) <= runs + 1
    BY MaxRunsAssumption DEF UInv, PInv, Types, TypeOK, ClockBudget, IdBudget
<1>2. \A d \in Callers : pc'[d] = IF d = c THEN "select" ELSE pc[d]
    BY <1>1
<1>3. Cardinality(Located) \in Nat /\ Located' = Located
    BY LocatedFacts DEF Located
<1>4. /\ IsFiniteSet(ToInsert') /\ Cardinality(ToInsert') <= Cardinality(ToInsert) + 1
      /\ Cardinality(ToInsert') \in Nat /\ Cardinality(ToInsert) \in Nat
  <2>1. ToInsert' \subseteq ToInsert \cup {c}
    BY <1>2 DEF ToInsert
  <2>2. /\ IsFiniteSet(ToInsert \cup {c}) /\ Cardinality(ToInsert) \in Nat
        /\ Cardinality(ToInsert \cup {c}) <= Cardinality(ToInsert) + 1
    BY <1>1, OneMore
  <2>3. IsFiniteSet(ToInsert') /\ Cardinality(ToInsert') <= Cardinality(ToInsert \cup {c})
    BY <2>1, <2>2, FS_Subset
  <2>4. Cardinality(ToInsert') \in Nat /\ Cardinality(ToInsert \cup {c}) \in Nat
    BY <2>2, <2>3, FS_CardinalityType
  <2>. QED
    BY <2>2, <2>3, <2>4
<1>5. /\ IsFiniteSet(Owed') /\ Cardinality(Owed') <= Cardinality(Owed) + 4
      /\ Cardinality(Owed') \in Nat /\ Cardinality(Owed) \in Nat
  <2>. DEFINE one == Owed \cup {<<c, 1>>}
              two == one \cup {<<c, 2>>}
              three == two \cup {<<c, 3>>}
              four == three \cup {<<c, 4>>}
  <2>1. Owed' \subseteq four
    BY <1>2 DEF Owed
  <2>2. /\ Cardinality(Owed) \in Nat /\ IsFiniteSet(one)
        /\ Cardinality(one) \in Nat /\ Cardinality(one) <= Cardinality(Owed) + 1
    BY <1>1, OneMore
  <2>. HIDE DEF one
  <2>3. IsFiniteSet(two) /\ Cardinality(two) \in Nat /\ Cardinality(two) <= Cardinality(one) + 1
    BY <2>2, OneMore
  <2>. HIDE DEF two
  <2>4. IsFiniteSet(three) /\ Cardinality(three) \in Nat /\ Cardinality(three) <= Cardinality(two) + 1
    BY <2>3, OneMore
  <2>. HIDE DEF three
  <2>5. IsFiniteSet(four) /\ Cardinality(four) \in Nat /\ Cardinality(four) <= Cardinality(three) + 1
    BY <2>4, OneMore
  <2>. HIDE DEF four
  <2>6. IsFiniteSet(Owed') /\ Cardinality(Owed') <= Cardinality(four)
    BY <2>1, <2>5, FS_Subset
  <2>7. Cardinality(Owed') \in Nat
    BY <2>6, FS_CardinalityType
  <2>. QED
    BY <2>2, <2>3, <2>4, <2>5, <2>6, <2>7
<1>6. 4 * runs' = 4 * runs + 4 /\ runs' = runs + 1
    BY <1>1
<1>. QED
    BY <1>1, <1>3, <1>4, <1>5, <1>6 DEF ClockBudget, IdBudget

-----------------------------------------------------------------------------
LEMMA InitUInv == Init => UInv
<1>. SUFFICES ASSUME Init PROVE UInv
    OBVIOUS
<1>1. Cardinality(Urls) \in Nat
    BY UrlsAssumption, FS_CardinalityType
<1>2. 0 \in Stamps /\ MaxRuns + 1 \in Nat /\ 1 \in 1..(MaxRuns + 1)
    BY <1>1, MaxRunsAssumption DEF Stamps
<1>3. TypeOK
  <2>1. run \in [Callers -> StampedRuns]
    BY IdleType DEF Init
  <2>2. content \in [Podcasts -> [Bodies -> Stamps]]
    BY <1>2 DEF Init
  <2>. QED
    BY <1>2, <2>1, <2>2, MaxRunsAssumption DEF Init, TypeOK, StampedRuns
<1>4. Owed = {} /\ ToInsert = {} /\ Located = {}
  <2>1. \A c \in Callers, k \in 1..4 : ~Owes("idle", k)
    BY DEF Owes, Inserting
  <2>2. \A c \in Callers : pc[c] = "idle"
    BY DEF Init
  <2>. QED
    BY <2>1, <2>2 DEF Init, Owed, ToInsert, Located, Inserting
<1>5. ClockBudget /\ IdBudget
    BY <1>4, FS_EmptySet DEF Init, ClockBudget, IdBudget
<1>6. \A c \in Callers : RunInv(c)
    BY IdleType DEF Init, RunInv, RowHeld
<1>. QED
    BY <1>3, <1>5, <1>6, InitPInv DEF UInv

(* Another caller's run is not concerned by a step that takes no location  *)
(* from its podcast.                                                       *)
LEMMA OthersRun ==
    ASSUME UInv, NEW d \in Callers, run'[d] = run[d], pc'[d] = pc[d],
           OwnersKept, clock' \in Nat, clock <= clock'
    PROVE  RunInv(d)'
<1>1. /\ RunInv(d) /\ clock \in Nat /\ run[d].started \in Nat
      /\ pc[d] # "idle" => run[d].feed_url \in Urls
      /\ pc[d] \in {"fetch", "podcast"} \cup RowHeld => run[d].url \in Urls
    BY DEF UInv, PInv, Types, RunRecords, CallerInv, FilledBy
<1>2. run'[d].started <= clock'
    BY <1>1 DEF RunInv
<1>3. pc[d] \in {"fetch", "podcast"} \cup RowHeld => SameOwner(d)'
    BY <1>1 DEF RunInv, SameOwner, OwnersKept, RowHeld
<1>. QED
    BY <1>1, <1>2, <1>3 DEF RunInv

(* One caller moves on, and the tables stay. *)
LEMMA LocalRun ==
    ASSUME UInv, NEW c \in Callers, NEW s \in StampedRuns, NEW phase \in Phases,
           run' = [run EXCEPT ![c] = s], pc' = [pc EXCEPT ![c] = phase],
           UNCHANGED <<podcast, location, content, episode, exception, processed, batch>>,
           PInv', clock <= clock', nextId <= nextId', runs' \in 0..MaxRuns,
           ClockBudget', IdBudget', RunInv(c)'
    PROVE  UInv'
<1>1. /\ clock' \in Nat /\ nextId' \in Nat \ {0}
    BY DEF UInv, TypeOK, PInv, Types
<1>2. clock' \in Stamps /\ nextId' \in 1..(MaxRuns + 1)
    BY <1>1, BudgetsBound
<1>3. /\ run' \in [Callers -> StampedRuns] /\ pc' \in [Callers -> Phases]
      /\ \A d \in Callers \ {c} : run'[d] = run[d] /\ pc'[d] = pc[d]
    BY DEF UInv, TypeOK, StampedRuns, Phases
<1>4. TypeOK'
    BY <1>2, <1>3 DEF UInv, TypeOK, StampedRuns, Phases, Exists
<1>5. OwnersKept
    BY DEF OwnersKept
<1>6. \A d \in Callers \ {c} : RunInv(d)'
    BY <1>1, <1>3, <1>5, OthersRun
<1>. QED
    BY <1>4, <1>6 DEF UInv

(* A run that has ended or failed has nothing to say of its URLs. *)
LEMMA Released ==
    ASSUME UInv, NEW c \in Callers, NEW s \in StampedRuns, NEW phase \in {"idle", "recover"},
           run' = [run EXCEPT ![c] = s], pc' = [pc EXCEPT ![c] = phase],
           s.started <= clock, clock <= clock', clock' \in Nat
    PROVE  RunInv(c)'
<1>1. run'[c] = s /\ pc'[c] = phase
    BY DEF UInv, TypeOK
<1>2. s.started \in Nat /\ clock \in Nat
    BY MaxRunsAssumption, UrlsAssumption, FS_CardinalityType DEF StampedRuns, Stamps, UInv, PInv, Types
<1>. QED
    BY <1>1, <1>2 DEF RunInv, RowHeld

LEMMA RunFields ==
    ASSUME UInv, NEW c \in Callers
    PROVE  /\ run[c] \in StampedRuns /\ run[c].started \in Nat /\ run[c].converted \in Nat
           /\ RunInv(c) /\ CallerInv(c) /\ clock \in Stamps /\ clock \in Nat
           /\ nextId \in Nat /\ runs \in 0..MaxRuns
           /\ pc[c] \in Phases
BY DEF UInv, TypeOK, PInv, Types, StampedRuns, RunRecords

LEMMA BeginUInv ==
    ASSUME UInv, NEW c \in Callers, NEW u \in Urls, NEW f \in BOOLEAN,
           NEW g \in Bodies \cup {None}, Begin(c, u, f, g)
    PROVE  UInv'
<1>. DEFINE s == NewRun(u, f, g)
<1>1. /\ pc' = [pc EXCEPT ![c] = "select"] /\ run' = [run EXCEPT ![c] = s]
      /\ runs' = runs + 1 /\ runs < MaxRuns /\ UNCHANGED <<dbVars, batch, clock>> /\ "select" \in Phases
    BY DEF Begin, Phases
<1>2. clock \in Stamps /\ clock \in Nat /\ nextId \in Nat /\ runs \in 0..MaxRuns /\ 0 \in Stamps
    BY RunFields, IdleType DEF Idle, StampedRuns
<1>3. s \in StampedRuns /\ s.started = clock
    BY <1>2 DEF NewRun, StampedRuns
<1>. HIDE DEF s
<1>4. PInv'
    BY BeginStep DEF UInv
<1>5. ClockBudget' /\ IdBudget'
    BY <1>1, BudgetsBegin DEF dbVars
<1>6. run'[c] = s /\ pc'[c] = "select"
    BY <1>1 DEF UInv, TypeOK
<1>7. RunInv(c)'
    BY <1>1, <1>2, <1>3, <1>6 DEF RunInv, RowHeld
<1>8. runs' \in 0..MaxRuns
    BY <1>1, <1>2, MaxRunsAssumption
<1>9. /\ UNCHANGED <<podcast, location, content, episode, exception, processed, batch>>
      /\ clock' \in Nat /\ clock <= clock' /\ nextId <= nextId'
    BY <1>1, <1>2 DEF dbVars
<1>. QED
    BY <1>1, <1>3, <1>4, <1>5, <1>7, <1>8, <1>9, LocalRun

(* A crash, or a recovery that fails. *)
LEMMA EndUInv ==
    ASSUME UInv, NEW c \in Callers, pc' = [pc EXCEPT ![c] = "idle"],
           run' = [run EXCEPT ![c] = Idle], UNCHANGED <<dbVars, batch, clock, runs>>
    PROVE  UInv'
<1>1. clock \in Nat /\ nextId \in Nat /\ runs' \in 0..MaxRuns /\ 0 <= clock
    BY RunFields
<1>2. PInv'
    BY EndStep DEF UInv
<1>3. ClockBudget' /\ IdBudget'
  <2>1. \A k \in 1..4 : ~Owes("idle", k)
    BY DEF Owes, Inserting
  <2>2. "idle" \in Phases /\ "idle" \notin Inserting
    BY DEF Phases, Inserting
  <2>. QED
    BY <2>1, <2>2, ClockPaid, IdsPaid DEF dbVars
<1>4. /\ UNCHANGED <<podcast, location, content, episode, exception, processed, batch>>
      /\ clock' \in Nat /\ clock <= clock' /\ nextId <= nextId'
    BY <1>1 DEF dbVars
<1>5. RunInv(c)'
    BY <1>1, <1>4, IdleType, Released
<1>6. "idle" \in Phases
    BY DEF Phases
<1>. QED
    BY <1>1, <1>2, <1>3, <1>4, <1>5, <1>6, IdleType, LocalRun

LEMMA FailUInv ==
    ASSUME UInv, NEW c \in Callers, pc[c] # "idle",
           pc' = [pc EXCEPT ![c] = "recover"], UNCHANGED <<dbVars, batch, clock, run, runs>>
    PROVE  UInv'
<1>1. clock \in Nat /\ nextId \in Nat /\ runs' \in 0..MaxRuns /\ run[c] \in StampedRuns
      /\ run[c].started <= clock
    BY RunFields DEF RunInv
<1>2. PInv' /\ run' = [run EXCEPT ![c] = run[c]]
    BY FailStep DEF UInv, TypeOK
<1>3. ClockBudget' /\ IdBudget'
  <2>1. \A k \in 1..4 : Owes("recover", k) => Owes(pc[c], k)
    BY DEF Owes, Inserting
  <2>2. "recover" \in Phases /\ "recover" \notin Inserting
    BY DEF Phases, Inserting
  <2>. QED
    BY <2>1, <2>2, ClockPaid, IdsPaid DEF dbVars
<1>4. /\ UNCHANGED <<podcast, location, content, episode, exception, processed, batch>>
      /\ clock' \in Nat /\ clock <= clock' /\ nextId <= nextId'
    BY <1>1 DEF dbVars
<1>5. RunInv(c)'
    BY <1>1, <1>2, <1>4, Released
<1>6. "recover" \in Phases
    BY DEF Phases
<1>. QED
    BY <1>1, <1>2, <1>3, <1>4, <1>5, <1>6, LocalRun

-----------------------------------------------------------------------------
(* The steps of run_inner, but for the commit.  Here one caller moves on   *)
(* to the next statement, with its run filled in.                          *)
LEMMA StatementUInv ==
    ASSUME UInv, NEW c \in Callers, NEW s \in StampedRuns, NEW phase \in Phases,
           run' = [run EXCEPT ![c] = s], pc' = [pc EXCEPT ![c] = phase],
           UNCHANGED <<podcast, location, content, episode, exception, processed, batch, runs>>,
           PInv', \A k \in 1..4 : Owes(phase, k) => Owes(pc[c], k),
           \/ clock' = clock
           \/ clock' = clock + 1 /\ \E k \in 1..4 : Owes(pc[c], k) /\ ~Owes(phase, k),
           phase \in Inserting => pc[c] \in Inserting,
           \/ nextId' = nextId
           \/ nextId' = nextId + 1 /\ pc[c] \in Inserting /\ phase \notin Inserting,
           s.started = run[c].started,
           phase \in RowHeld => s.podcast \in Podcasts,
           phase \in {"podcast"} \cup RowHeld => s.started < s.converted,
           phase \in {"fetch", "podcast"} \cup RowHeld =>
              LET given == location[s.feed_url]
                  chosen == location[s.url]
              IN  \/ s.url = s.feed_url
                  \/ given # None /\ chosen # None /\ given.podcast = chosen.podcast
    PROVE  UInv'
<1>1. clock \in Nat /\ nextId \in Nat /\ runs' \in 0..MaxRuns /\ run[c].started \in Nat
      /\ run[c].started <= clock
    BY RunFields DEF RunInv
<1>2. clock' \in Nat /\ clock <= clock' /\ nextId <= nextId'
    BY <1>1
<1>3. ClockBudget' /\ IdBudget'
    BY ClockPaid, IdsPaid
<1>4. run'[c] = s /\ pc'[c] = phase
    BY DEF UInv, TypeOK
<1>5. RunInv(c)'
    BY <1>1, <1>2, <1>4 DEF RunInv, SameOwner
<1>. QED
    BY <1>1, <1>2, <1>3, <1>5, LocalRun

LEMMA SelectUInv ==
    ASSUME UInv, NEW c \in Callers, SelectLatestUrl(c)
    PROVE  UInv'
<1>1. /\ pc[c] = "select" /\ run[c].feed_url \in Urls /\ run[c] \in StampedRuns
      /\ pc' = [pc EXCEPT ![c] = "fetch"] /\ UNCHANGED <<dbVars, batch, clock, runs>>
      /\ PInv'
    BY RunFields, SelectLatestUrlStep DEF SelectLatestUrl, CallerInv, FilledBy, UInv
<1>2. PICK u \in Urls :
        /\ run' = [run EXCEPT ![c] = [run[c] EXCEPT !.url = u]]
        /\ IF location[run[c].feed_url] = None THEN u = run[c].feed_url
           ELSE u \in LatestUrls(location[run[c].feed_url].podcast)
    BY <1>1, Zenon DEF SelectLatestUrl, LatestUrls, UrlsOf
<1>. DEFINE s == [run[c] EXCEPT !.url = u]
<1>3. /\ s \in StampedRuns /\ s.url = u /\ s.feed_url = run[c].feed_url
      /\ s.started = run[c].started
    BY <1>1 DEF StampedRuns
<1>4. run' = [run EXCEPT ![c] = s]
    BY <1>2
<1>. HIDE DEF s
<1>5. \/ s.url = s.feed_url
      \/ /\ location[s.feed_url] # None /\ location[s.url] # None
         /\ location[s.feed_url].podcast = location[s.url].podcast
    BY <1>2, <1>3 DEF LatestUrls, UrlsOf
<1>6. /\ "fetch" \in Phases /\ "fetch" \notin {"podcast"} \cup RowHeld
      /\ pc[c] \in Inserting /\ \A k \in 1..4 : Owes("fetch", k) => Owes(pc[c], k)
    BY <1>1 DEF Phases, RowHeld, Inserting, Owes
<1>. QED
    BY <1>1, <1>3, <1>4, <1>5, <1>6, StatementUInv DEF dbVars

(* A statement that writes a timestamp uses up one of the ticks it owed.   *)
LEMMA TickPaid ==
    ASSUME UInv, NEW c \in Callers, NEW phase \in Phases, NEW k \in 1..4,
           pc' = [pc EXCEPT ![c] = phase], clock' = clock + 1, UNCHANGED <<nextId, runs>>,
           \A u \in Urls : location[u] # None => location'[u] # None,
           \A j \in 1..4 : Owes(phase, j) => Owes(pc[c], j),
           Owes(pc[c], k), ~Owes(phase, k),
           phase \in Inserting => pc[c] \in Inserting
    PROVE  clock + 1 \in Stamps
<1>1. /\ \E j \in 1..4 : Owes(pc[c], j) /\ ~Owes(phase, j)
      /\ nextId' = nextId /\ runs' = runs
    OBVIOUS
<1>2. ClockBudget' /\ IdBudget'
  <2>1. \/ clock' = clock
        \/ clock' = clock + 1 /\ \E j \in 1..4 : Owes(pc[c], j) /\ ~Owes(phase, j)
    BY <1>1
  <2>2. ClockBudget'
    BY <1>1, <2>1, ClockPaid
  <2>3. IdBudget'
    BY <1>1, IdsPaid
  <2>. QED
    BY <2>2, <2>3
<1>3. clock' \in Nat /\ nextId' \in Nat \ {0} /\ runs' \in 0..MaxRuns
    BY <1>1, RunFields DEF UInv, TypeOK
<1>. QED
    BY <1>2, <1>3, BudgetsBound

LEMMA FetchUInv ==
    ASSUME UInv, NEW c \in Callers, FetchFeed(c)
    PROVE  UInv'
<1>1. /\ pc[c] = "fetch" /\ run[c] \in StampedRuns /\ SameOwner(c)
      /\ run[c].started \in Nat /\ run[c].started <= clock
      /\ pc' = [pc EXCEPT ![c] = "podcast"] /\ clock' = clock + 1 /\ UNCHANGED <<dbVars, batch, runs>>
      /\ PInv'
    BY RunFields, FetchFeedStep DEF FetchFeed, RunInv, UInv
<1>2. PICK b \in Bodies :
        run' = [run EXCEPT ![c] = [run[c] EXCEPT !.body = b, !.converted = clock + 1]]
  <2>1. run[c].given = None \/ run[c].given \in Bodies
    BY <1>1 DEF StampedRuns
  <2>. QED
    BY <2>1, Zenon DEF FetchFeed
<1>3. /\ "podcast" \in Phases /\ "podcast" \notin RowHeld /\ pc[c] \in Inserting
      /\ \A k \in 1..4 : Owes("podcast", k) => Owes(pc[c], k)
      /\ Owes(pc[c], 4) /\ ~Owes("podcast", 4) /\ 4 \in 1..4
    BY <1>1 DEF Phases, RowHeld, Inserting, Owes
<1>4. clock + 1 \in Stamps
    BY <1>1, <1>3, TickPaid DEF dbVars
<1>. DEFINE s == [run[c] EXCEPT !.body = b, !.converted = clock + 1]
<1>5. /\ s \in StampedRuns /\ s.url = run[c].url /\ s.feed_url = run[c].feed_url
      /\ s.started = run[c].started /\ s.converted = clock + 1
    BY <1>1, <1>4 DEF StampedRuns
<1>6. run' = [run EXCEPT ![c] = s]
    BY <1>2
<1>. HIDE DEF s
<1>7. clock \in Nat /\ s.started < s.converted
    BY <1>1, <1>5, RunFields
<1>8. clock' = clock + 1 /\ \E k \in 1..4 : Owes(pc[c], k) /\ ~Owes("podcast", k)
    BY <1>1, <1>3
<1>. QED
    BY <1>1, <1>3, <1>5, <1>6, <1>7, <1>8, StatementUInv DEF dbVars, SameOwner

LEMMA UpdateUInv ==
    ASSUME UInv, NEW c \in Callers, UpdatePodcast(c)
    PROVE  UInv'
<1>. DEFINE p == location[run[c].url].podcast
            s == [run[c] EXCEPT !.podcast = p]
<1>1. /\ pc[c] = "podcast" /\ run[c] \in StampedRuns /\ SameOwner(c)
      /\ run[c].url \in Urls /\ location[run[c].url] # None
      /\ run[c].started < run[c].converted
      /\ run' = [run EXCEPT ![c] = s] /\ pc' = [pc EXCEPT ![c] = "location"]
      /\ UNCHANGED <<dbVars, batch, clock, runs>> /\ PInv'
    BY RunFields, UpdatePodcastStep DEF UpdatePodcast, RunInv, CallerInv, FilledBy, UInv
<1>2. p \in Podcasts
    BY <1>1 DEF UInv, TypeOK
<1>3. /\ s \in StampedRuns /\ s.url = run[c].url /\ s.feed_url = run[c].feed_url
      /\ s.started = run[c].started /\ s.converted = run[c].converted /\ s.podcast = p
    BY <1>1, <1>2 DEF StampedRuns
<1>. HIDE DEF s, p
<1>4. /\ "location" \in Phases /\ "location" \notin Inserting
      /\ \A k \in 1..4 : Owes("location", k) => Owes(pc[c], k)
    BY <1>1 DEF Phases, Inserting, Owes
<1>. QED
    BY <1>1, <1>2, <1>3, <1>4, StatementUInv DEF dbVars, SameOwner

(* Of the ids there are as many as runs, and this run has not used one.    *)
LEMMA InsertUInv ==
    ASSUME UInv, NEW c \in Callers, InsertPodcast(c)
    PROVE  UInv'
<1>. DEFINE s == [run[c] EXCEPT !.podcast = nextId, !.inserted = TRUE]
<1>1. /\ pc[c] = "podcast" /\ run[c] \in StampedRuns /\ SameOwner(c)
      /\ run[c].started < run[c].converted
      /\ run' = [run EXCEPT ![c] = s] /\ pc' = [pc EXCEPT ![c] = "location"]
      /\ nextId' = nextId + 1 /\ PInv'
      /\ UNCHANGED <<podcast, location, content, episode, exception, processed, batch, clock, runs>>
    BY RunFields, InsertPodcastStep DEF InsertPodcast, RunInv, UInv
<1>2. /\ "location" \in Phases /\ "location" \notin Inserting /\ pc[c] \in Inserting
      /\ \A k \in 1..4 : Owes("location", k) => Owes(pc[c], k)
    BY <1>1 DEF Phases, Inserting, Owes
<1>3. nextId \in Podcasts
  <2>1. ClockBudget' /\ IdBudget'
    BY <1>1, <1>2, ClockPaid, IdsPaid
  <2>2. clock' \in Nat /\ nextId' \in Nat \ {0} /\ runs' \in 0..MaxRuns /\ nextId \in Nat \ {0}
    BY <1>1, RunFields DEF UInv, TypeOK
  <2>3. nextId' \in 1..(MaxRuns + 1)
    BY <2>1, <2>2, BudgetsBound
  <2>. QED
    BY <1>1, <2>2, <2>3, MaxRunsAssumption DEF Podcasts
<1>4. /\ s \in StampedRuns /\ s.url = run[c].url /\ s.feed_url = run[c].feed_url
      /\ s.started = run[c].started /\ s.converted = run[c].converted /\ s.podcast = nextId
    BY <1>1, <1>3 DEF StampedRuns
<1>. HIDE DEF s
<1>. QED
    BY <1>1, <1>2, <1>3, <1>4, StatementUInv DEF SameOwner

LEMMA UpsertLocationUInv ==
    ASSUME UInv, NEW c \in Callers, UpsertLocation(c)
    PROVE  UInv'
<1>. DEFINE s == [run[c] EXCEPT !.located = clock + 1]
<1>1. /\ pc[c] = "location" /\ run[c] \in StampedRuns /\ SameOwner(c)
      /\ run[c].started < run[c].converted /\ run[c].podcast \in Podcasts
      /\ run' = [run EXCEPT ![c] = s] /\ pc' = [pc EXCEPT ![c] = "content"]
      /\ clock' = clock + 1 /\ PInv' /\ UNCHANGED <<dbVars, batch, runs>>
    BY RunFields, UpsertLocationStep DEF UpsertLocation, RunInv, RowHeld, UInv
<1>2. /\ "content" \in Phases /\ "content" \notin Inserting
      /\ \A k \in 1..4 : Owes("content", k) => Owes(pc[c], k)
      /\ Owes(pc[c], 3) /\ ~Owes("content", 3) /\ 3 \in 1..4
    BY <1>1 DEF Phases, Inserting, Owes
<1>3. clock + 1 \in Stamps
    BY <1>1, <1>2, TickPaid DEF dbVars
<1>4. /\ s \in StampedRuns /\ s.url = run[c].url /\ s.feed_url = run[c].feed_url
      /\ s.started = run[c].started /\ s.converted = run[c].converted
      /\ s.podcast = run[c].podcast
    BY <1>1, <1>3 DEF StampedRuns
<1>. HIDE DEF s
<1>8. clock' = clock + 1 /\ \E k \in 1..4 : Owes(pc[c], k) /\ ~Owes("content", k)
    BY <1>1, <1>2
<1>. QED
    BY <1>1, <1>2, <1>4, <1>8, StatementUInv DEF dbVars, SameOwner

LEMMA ShortcutUInv ==
    ASSUME UInv, NEW c \in Callers, Shortcut(c)
    PROVE  UInv'
<1>1. /\ pc[c] = "content" /\ run[c] \in StampedRuns /\ SameOwner(c)
      /\ run[c].started < run[c].converted /\ run[c].podcast \in Podcasts
      /\ run' = [run EXCEPT ![c] = run[c]] /\ pc' = [pc EXCEPT ![c] = "commit"]
      /\ PInv' /\ UNCHANGED <<dbVars, batch, clock, runs>>
    BY RunFields, ShortcutStep DEF Shortcut, RunInv, RowHeld, UInv, TypeOK
<1>2. /\ "commit" \in Phases /\ "commit" \notin Inserting
      /\ \A k \in 1..4 : Owes("commit", k) => Owes(pc[c], k)
    BY <1>1 DEF Phases, Inserting, Owes
<1>. QED
    BY <1>1, <1>2, StatementUInv DEF dbVars, SameOwner

LEMMA UpsertContentUInv ==
    ASSUME UInv, NEW c \in Callers, UpsertContent(c)
    PROVE  UInv'
<1>. DEFINE s == [run[c] EXCEPT !.stored = clock + 1]
<1>1. /\ pc[c] = "content" /\ run[c] \in StampedRuns /\ SameOwner(c)
      /\ run[c].started < run[c].converted /\ run[c].podcast \in Podcasts
      /\ run' = [run EXCEPT ![c] = s] /\ pc' = [pc EXCEPT ![c] = "commit"]
      /\ clock' = clock + 1 /\ PInv' /\ UNCHANGED <<dbVars, batch, runs>>
    BY RunFields, UpsertContentStep DEF UpsertContent, RunInv, RowHeld, UInv
<1>2. /\ "commit" \in Phases /\ "commit" \notin Inserting
      /\ \A k \in 1..4 : Owes("commit", k) => Owes(pc[c], k)
      /\ Owes(pc[c], 2) /\ ~Owes("commit", 2) /\ 2 \in 1..4
    BY <1>1 DEF Phases, Inserting, Owes
<1>3. clock + 1 \in Stamps
    BY <1>1, <1>2, TickPaid DEF dbVars
<1>4. /\ s \in StampedRuns /\ s.url = run[c].url /\ s.feed_url = run[c].feed_url
      /\ s.started = run[c].started /\ s.converted = run[c].converted
      /\ s.podcast = run[c].podcast
    BY <1>1, <1>3 DEF StampedRuns
<1>. HIDE DEF s
<1>8. clock' = clock + 1 /\ \E k \in 1..4 : Owes(pc[c], k) /\ ~Owes("commit", k)
    BY <1>1, <1>2
<1>. QED
    BY <1>1, <1>2, <1>4, <1>8, StatementUInv DEF dbVars, SameOwner

-----------------------------------------------------------------------------
(* The transactions that end and change the tables.                        *)
LEMMA EndedUInv ==
    ASSUME UInv, NEW c \in Callers, pc[c] # "idle",
           pc' = [pc EXCEPT ![c] = "idle"], run' = [run EXCEPT ![c] = Idle],
           UNCHANGED <<nextId, runs>>, clock' = clock \/ clock' = clock + 1,
           PInv', OwnersKept,
           podcast' \in [Podcasts -> StampedPodcasts \cup {None}],
           location' \in [Urls -> StampedLocations \cup {None}],
           content' \in [Podcasts -> [Bodies -> Stamps]],
           episode' \in [Podcasts -> [Guids -> Bodies \cup {None}]],
           processed' \in [Podcasts -> SUBSET Bodies], batch' = batch,
           exception' \in SUBSET {p \in Podcasts : podcast'[p] # None},
           \A u \in Urls : location'[u] # None => podcast'[location'[u].podcast] # None
    PROVE  UInv'
<1>1. /\ clock \in Nat /\ nextId \in Nat /\ runs' \in 0..MaxRuns
      /\ nextId' \in Nat \ {0} /\ pc[c] \in Phases
    BY RunFields DEF UInv, TypeOK
<1>2. clock' \in Nat /\ clock <= clock' /\ nextId <= nextId'
    BY <1>1
<1>3. ClockBudget' /\ IdBudget'
  <2>1. /\ "idle" \in Phases /\ "idle" \notin Inserting
        /\ \A k \in 1..4 : ~Owes("idle", k)
        /\ Owes(pc[c], 1) /\ 1 \in 1..4
    BY DEF Phases, Inserting, Owes
  <2>2. \/ clock' = clock
        \/ clock' = clock + 1 /\ \E k \in 1..4 : Owes(pc[c], k) /\ ~Owes("idle", k)
    BY <2>1
  <2>3. \A u \in Urls : location[u] # None => location'[u] # None
    BY DEF OwnersKept
  <2>4. ClockBudget'
    BY <2>1, <2>2, <2>3, ClockPaid
  <2>5. IdBudget'
    BY <2>1, IdsPaid
  <2>. QED
    BY <2>4, <2>5
<1>4. clock' \in Stamps /\ nextId' \in 1..(MaxRuns + 1)
    BY <1>1, <1>2, <1>3, BudgetsBound
<1>5. /\ run' \in [Callers -> StampedRuns] /\ pc' \in [Callers -> Phases]
      /\ \A d \in Callers \ {c} : run'[d] = run[d] /\ pc'[d] = pc[d]
    BY IdleType DEF UInv, TypeOK, StampedRuns, Phases
<1>6. TypeOK'
  <2>1. batch' \in SUBSET (Podcasts \X Bodies)
    BY DEF UInv, TypeOK
  <2>. QED
    BY <1>1, <1>4, <1>5, <2>1
    DEF TypeOK, StampedRuns, StampedPodcasts, StampedLocations, Phases, Exists
<1>7. \A d \in Callers \ {c} : RunInv(d)'
    BY <1>2, <1>5, OthersRun
<1>8. RunInv(c)'
  <2>1. Idle \in StampedRuns /\ Idle.started <= clock /\ "idle" \in {"idle", "recover"}
    BY <1>1, IdleType
  <2>. HIDE DEF Idle
  <2>. QED
    BY <1>2, <2>1, Released
<1>. QED
    BY <1>3, <1>6, <1>7, <1>8 DEF UInv

(* Rows whose times are stamps. *)
LEMMA StampedRows ==
    ASSUME NEW b \in Bodies, NEW p \in Podcasts, NEW n \in Stamps
    PROVE  /\ PodcastRow(b, n) \in StampedPodcasts
           /\ PodcastRow(b, n) # None /\ PodcastRow(b, n).retrieved = n
           /\ LocationRow(p, n) \in StampedLocations
           /\ LocationRow(p, n) # None /\ LocationRow(p, n).podcast = p
<1>1. p \in Nat /\ n \in Nat
    BY MaxRunsAssumption, UrlsAssumption, FS_CardinalityType DEF Podcasts, Stamps
<1>2. /\ PodcastRow(b, n) \in StampedPodcasts /\ LocationRow(p, n) \in StampedLocations
    BY DEF PodcastRow, LocationRow, StampedPodcasts, StampedLocations
<1>. QED
    BY <1>1, <1>2, PodcastRowFacts, LocationRowFacts

(* What a run knows when it commits, and what its commit writes. *)
LEMMA CommitFacts ==
    ASSUME UInv, NEW c \in Callers, Commit(c)
    PROVE  /\ pc[c] = "commit" /\ run[c].podcast \in Podcasts
           /\ run[c].feed_url \in Urls /\ run[c].url \in Urls /\ run[c].body \in Bodies
           /\ run[c].converted \in Stamps /\ run[c].located \in Stamps /\ run[c].stored \in Stamps
           /\ run[c].started < run[c].converted /\ SameOwner(c)
           /\ location[run[c].url] = None \/ location[run[c].url].podcast = run[c].podcast
           /\ podcast' = [podcast EXCEPT ![run[c].podcast] =
                             PodcastRow(run[c].body, run[c].converted)]
           /\ location' = [location EXCEPT ![run[c].url] =
                              LocationRow(run[c].podcast, run[c].located)]
<1>1. pc[c] = "commit" /\ CallerInv(c) /\ RunInv(c) /\ run[c] \in StampedRuns
    BY RunFields DEF Commit
<1>. QED
    BY <1>1 DEF Commit, CallerInv, FilledBy, OwnsUrl, RunInv, RowHeld, UrlHeld, StampedRuns

LEMMA CommitUInv ==
    ASSUME UInv, NEW c \in Callers, Commit(c)
    PROVE  UInv'
<1>. DEFINE p == run[c].podcast
            u == run[c].url
            b == run[c].body
            row == PodcastRow(b, run[c].converted)
            place == LocationRow(p, run[c].located)
<1>1. /\ p \in Podcasts /\ u \in Urls /\ b \in Bodies /\ pc[c] # "idle"
      /\ run[c].stored \in Stamps
      /\ location[u] = None \/ location[u].podcast = p
      /\ podcast' = [podcast EXCEPT ![p] = row] /\ location' = [location EXCEPT ![u] = place]
      /\ row \in StampedPodcasts /\ row # None
      /\ place \in StampedLocations /\ place # None /\ place.podcast = p
    BY CommitFacts, StampedRows
<1>2. /\ pc' = [pc EXCEPT ![c] = "idle"] /\ run' = [run EXCEPT ![c] = Idle]
      /\ UNCHANGED <<nextId, runs, batch>> /\ clock' = clock
      /\ exception' \subseteq exception
    BY DEF Commit
<1>3. /\ podcast \in [Podcasts -> StampedPodcasts \cup {None}]
      /\ location \in [Urls -> StampedLocations \cup {None}]
      /\ content \in [Podcasts -> [Bodies -> Stamps]]
      /\ episode \in [Podcasts -> [Guids -> Bodies \cup {None}]]
      /\ exception \in SUBSET {q \in Podcasts : podcast[q] # None}
      /\ \A v \in Urls : location[v] # None => podcast[location[v].podcast] # None
    BY DEF UInv, TypeOK, StampedPodcasts, StampedLocations, Exists
<1>4. content' \in [Podcasts -> [Bodies -> Stamps]]
    BY <1>1, <1>3 DEF Commit
<1>5. episode' \in [Podcasts -> [Guids -> Bodies \cup {None}]]
  <2>1. WrittenEpisodes(c) \in [Guids -> Bodies \cup {None}]
    BY <1>1, <1>3 DEF WrittenEpisodes
  <2>. QED
    BY <1>1, <1>3, <2>1 DEF Commit
<1>6. PInv' /\ processed' \in [Podcasts -> SUBSET Bodies]
    BY CommitStep DEF UInv, PInv, Types
<1>. HIDE DEF p, u, b, row, place
<1>7. podcast' \in [Podcasts -> StampedPodcasts \cup {None}]
      /\ \A q \in Podcasts : podcast[q] # None => podcast'[q] # None
    BY <1>1, <1>3
<1>8. location' \in [Urls -> StampedLocations \cup {None}]
    BY <1>1, <1>3
<1>9. OwnersKept
    BY <1>1, <1>3 DEF OwnersKept
<1>10. exception' \in SUBSET {q \in Podcasts : podcast'[q] # None}
    BY <1>2, <1>3, <1>7
<1>11. ASSUME NEW v \in Urls, location'[v] # None
       PROVE  podcast'[location'[v].podcast] # None
  <2>1. CASE v = u
    BY <1>1, <1>3, <2>1
  <2>2. CASE v # u
    <3>1. location'[v] = location[v] /\ location[v].podcast \in Podcasts
      BY <1>1, <1>3, <1>11, <2>2 DEF StampedLocations
    <3>. QED
      BY <1>3, <1>7, <1>11, <3>1
  <2>. QED
    BY <2>1, <2>2
<1>. QED
    BY <1>1, <1>2, <1>4, <1>5, <1>6, <1>7, <1>8, <1>9, <1>10, <1>11, EndedUInv

(* What a recovery knows and writes: the podcast it finds exists. *)
LEMMA RecoverFacts ==
    ASSUME UInv, NEW c \in Callers, Recover(c)
    PROVE  /\ pc[c] = "recover" /\ run[c].feed_url \in Urls /\ run[c].started <= clock
           /\ clock + 1 \in Stamps /\ clock' = clock + 1
           /\ \A p \in FailedPodcasts(c) : p \in Podcasts /\ podcast[p] # None
           /\ \A p \in Podcasts :
                 /\ podcast'[p] \in StampedPodcasts \cup {None}
                 /\ podcast[p] # None => podcast'[p] # None
                 /\ p \in FailedPodcasts(c) => podcast'[p].retrieved = clock + 1
<1>1. pc[c] = "recover" /\ run[c].feed_url \in Urls /\ run[c].started <= clock
    BY RunFields DEF Recover, CallerInv, FilledBy, RunInv
<1>2. /\ pc' = [pc EXCEPT ![c] = "idle"] /\ clock' = clock + 1
      /\ UNCHANGED <<location, nextId, runs>>
    BY DEF Recover, EndRecovery
<1>3. clock + 1 \in Stamps
  <2>1. /\ "idle" \in Phases /\ "idle" \notin Inserting
        /\ \A k \in 1..4 : ~Owes("idle", k)
        /\ Owes(pc[c], 1) /\ 1 \in 1..4
    BY <1>1 DEF Phases, Inserting, Owes
  <2>. QED
    BY <1>2, <2>1, TickPaid
<1>4. \A p \in FailedPodcasts(c) : p \in Podcasts /\ podcast[p] # None
    BY <1>1 DEF FailedPodcasts, UInv, TypeOK, Exists
<1>5. ASSUME NEW p \in Podcasts
      PROVE  /\ podcast'[p] \in StampedPodcasts \cup {None}
             /\ podcast[p] # None => podcast'[p] # None
             /\ p \in FailedPodcasts(c) => podcast'[p].retrieved = clock + 1
  <2>1. podcast'[p] = IF p \in FailedPodcasts(c) THEN RecoveredRow(podcast[p]) ELSE podcast[p]
    BY DEF Recover
  <2>2. podcast[p] \in StampedPodcasts \cup {None}
    BY DEF UInv, TypeOK, StampedPodcasts
  <2>3. CASE podcast[p] = None
    BY <1>4, <2>1, <2>3
  <2>4. CASE podcast[p] # None
    <3>1. podcast[p].title \in Bodies
      BY <2>2, <2>4 DEF StampedPodcasts
    <3>2. RecoveredRow(podcast[p]) = PodcastRow(podcast[p].title, clock + 1)
      BY <2>4 DEF RecoveredRow
    <3>. QED
      BY <1>3, <2>1, <2>2, <2>4, <3>1, <3>2, StampedRows
  <2>. QED
    BY <2>3, <2>4
<1>. QED
    BY <1>1, <1>2, <1>3, <1>4, <1>5

LEMMA RecoverUInv ==
    ASSUME UInv, NEW c \in Callers, Recover(c)
    PROVE  UInv'
<1>1. /\ pc' = [pc EXCEPT ![c] = "idle"] /\ run' = [run EXCEPT ![c] = Idle]
      /\ UNCHANGED <<nextId, runs, location, content, episode, processed, batch>>
      /\ clock' = clock + 1
      /\ exception' = exception \cup FailedPodcasts(c)
      /\ pc[c] # "idle"
    BY DEF Recover, EndRecovery
<1>2. /\ location \in [Urls -> StampedLocations \cup {None}]
      /\ content \in [Podcasts -> [Bodies -> Stamps]]
      /\ episode \in [Podcasts -> [Guids -> Bodies \cup {None}]]
      /\ exception \in SUBSET {q \in Podcasts : podcast[q] # None}
      /\ \A v \in Urls : location[v] # None =>
            location[v].podcast \in Podcasts /\ podcast[location[v].podcast] # None
    BY DEF UInv, TypeOK, StampedPodcasts, StampedLocations, Exists
<1>3. PInv' /\ processed' \in [Podcasts -> SUBSET Bodies]
    BY RecoverStep DEF UInv, PInv, Types
<1>4. OwnersKept
    BY <1>1 DEF OwnersKept
<1>5. podcast' \in [Podcasts -> StampedPodcasts \cup {None}]
    BY RecoverFacts DEF Recover
<1>6. exception' \in SUBSET {q \in Podcasts : podcast'[q] # None}
    BY <1>1, <1>2, RecoverFacts
<1>7. \A v \in Urls : location'[v] # None => podcast'[location'[v].podcast] # None
    BY <1>1, <1>2, RecoverFacts
<1>. QED
    BY <1>1, <1>2, <1>3, <1>4, <1>5, <1>6, <1>7, EndedUInv

(* An upgrade adds the https twins of some locations, each for its podcast. *)
LEMMA UpgradeFacts ==
    ASSUME UInv, Upgrade
    PROVE  /\ OwnersKept /\ Located \subseteq Located' /\ Located' # Located
           /\ \A v \in Urls : location'[v] # location[v] =>
                 \E u \in Urls :
                    /\ location[u] # None
                    /\ location'[v] = LocationRow(location[u].podcast, clock + 1)
<1>1. ASSUME NEW v \in Urls, \E u \in Upgradable : SecureUrl[u] = v
      PROVE  /\ location[v] = None
             /\ \E u \in Urls :
                   /\ location[u] # None
                   /\ location'[v] = LocationRow(location[u].podcast, clock + 1)
             /\ location'[v] # None
  <2>. DEFINE w == CHOOSE u \in Upgradable : SecureUrl[u] = v
  <2>1. w \in Upgradable /\ SecureUrl[w] = v
    BY <1>1
  <2>. HIDE DEF w
  <2>2. w \in Urls /\ location[w] # None
    BY <2>1, SecureUrlAssumption DEF Upgradable
  <2>3. location[v] = None
    BY <2>1 DEF Upgrade
  <2>4. location'[v] = LocationRow(location[w].podcast, clock + 1)
    BY <1>1 DEF Upgrade, w
  <2>5. location[w].podcast \in Nat /\ clock + 1 \in Nat
    BY <2>2 DEF UInv, PInv, Types, LocationRows
  <2>. QED
    BY <2>2, <2>3, <2>4, <2>5, LocationRowFacts
<1>2. ASSUME NEW v \in Urls, ~\E u \in Upgradable : SecureUrl[u] = v
      PROVE  location'[v] = location[v]
    BY <1>2 DEF Upgrade
<1>3. OwnersKept
    BY <1>1, <1>2 DEF OwnersKept
<1>4. Located' # Located
  <2>1. PICK u \in Upgradable : TRUE
    BY DEF Upgrade
  <2>2. SecureUrl[u] \in Urls
    BY <2>1, SecureUrlAssumption DEF Upgradable
  <2>3. location[SecureUrl[u]] = None /\ location'[SecureUrl[u]] # None
    BY <1>1, <2>1, <2>2
  <2>. QED
    BY <2>2, <2>3 DEF Located
<1>5. Located \subseteq Located'
    BY <1>3 DEF OwnersKept, Located
<1>. QED
    BY <1>1, <1>2, <1>3, <1>4, <1>5

LEMMA UpgradeUInv ==
    ASSUME UInv, Upgrade
    PROVE  UInv'
<1>1. /\ UNCHANGED <<podcast, content, episode, exception, processed, batch, nextId, pc, run, runs>>
      /\ clock' = clock + 1 /\ clock \in Nat /\ clock' \in Nat /\ clock <= clock'
      /\ OwnersKept
    BY UpgradeFacts DEF Upgrade, UInv, PInv, Types
<1>2. PInv'
    BY UpgradeStep DEF UInv
<1>3. IdBudget'
    BY <1>1 DEF UInv, IdBudget, ToInsert
<1>4. ClockBudget'
  <2>1. /\ Cardinality(Located) \in Nat /\ Cardinality(Located') \in Nat
        /\ Cardinality(Located) + 1 <= Cardinality(Located')
    <3>1. Located' \subseteq Urls
      BY DEF Located
    <3>. QED
      BY <3>1, UpgradeFacts, LocatedFacts
  <2>2. Owed' = Owed /\ Cardinality(Owed) \in Nat /\ runs \in Nat
    BY <1>1, FS_CardinalityType, MaxRunsAssumption DEF UInv, ClockBudget, Owed, TypeOK
  <2>. QED
    BY <1>1, <2>1, <2>2 DEF UInv, ClockBudget
<1>5. clock + 1 \in Stamps
  <2>1. nextId' \in Nat \ {0} /\ runs' \in 0..MaxRuns
    BY <1>1 DEF UInv, TypeOK
  <2>. QED
    BY <1>1, <1>3, <1>4, <2>1, BudgetsBound
<1>6. ASSUME NEW v \in Urls
      PROVE  /\ location'[v] \in StampedLocations \cup {None}
             /\ location'[v] # None => Exists(location'[v].podcast)
  <2>1. /\ location[v] \in StampedLocations \cup {None}
        /\ location[v] # None => Exists(location[v].podcast)
    BY DEF UInv, TypeOK, StampedLocations
  <2>2. CASE location'[v] # location[v]
    <3>1. PICK u \in Urls :
            /\ location[u] # None
            /\ location'[v] = LocationRow(location[u].podcast, clock + 1)
      BY <2>2, UpgradeFacts
    <3>2. location[u].podcast \in Podcasts /\ Exists(location[u].podcast)
      BY <3>1 DEF UInv, TypeOK
    <3>3. /\ LocationRow(location[u].podcast, clock + 1) \in StampedLocations
          /\ LocationRow(location[u].podcast, clock + 1).podcast = location[u].podcast
      BY <1>5, <3>2 DEF LocationRow, StampedLocations
    <3>. QED
      BY <3>1, <3>2, <3>3
  <2>. QED
    BY <2>1, <2>2
<1>7. TypeOK'
  <2>1. location' \in [Urls -> StampedLocations \cup {None}]
    BY <1>6 DEF Upgrade
  <2>2. \A v \in Urls : location'[v] # None => podcast'[location'[v].podcast] # None
    BY <1>1, <1>6 DEF Exists
  <2>3. /\ exception' \in SUBSET {p \in Podcasts : podcast'[p] # None}
        /\ location' \in [Urls -> [podcast : Podcasts, retrieved : Stamps] \cup {None}]
        /\ clock' \in Stamps
    BY <1>1, <1>5, <2>1 DEF UInv, TypeOK, StampedLocations, Exists
  <2>. QED
    BY <1>1, <2>2, <2>3 DEF UInv, TypeOK, Exists
<1>8. \A c \in Callers : RunInv(c)'
  <2>1. \A c \in Callers : run'[c] = run[c] /\ pc'[c] = pc[c]
    BY <1>1
  <2>. QED
    BY <1>1, <2>1, OthersRun
<1>. QED
    BY <1>2, <1>3, <1>4, <1>7, <1>8 DEF UInv

(* The cleaner lets no clock tick and takes no row but contents.           *)
LEMMA CleanUInv ==
    ASSUME UInv, Clean
    PROVE  UInv'
<1>1. /\ UNCHANGED <<podcast, location, episode, exception, processed, nextId, clock, pc, run, runs>>
      /\ clock \in Nat
    BY DEF Clean, SelectExcess, DeleteExcess, CleanFails, dbVars, UInv, PInv, Types
<1>2. PInv'
    BY CleanStep DEF UInv
<1>3. ClockBudget' /\ IdBudget'
    BY <1>1 DEF UInv, ClockBudget, IdBudget, Owed, ToInsert, Located
<1>4. content' \in [Podcasts -> [Bodies -> Stamps]] /\ batch' \in SUBSET (Podcasts \X Bodies)
  <2>1. batch' \in SUBSET (Podcasts \X Bodies)
    BY <1>2 DEF PInv, Types
  <2>2. content' \in [Podcasts -> [Bodies -> Stamps]]
    <3>1. content \in [Podcasts -> [Bodies -> Stamps]] /\ 0 \in Stamps
      BY IdleType DEF UInv, TypeOK, Idle, StampedRuns
    <3>2. CASE DeleteExcess
      BY <3>1, <3>2 DEF DeleteExcess
    <3>3. CASE SelectExcess \/ CleanFails
      BY <3>1, <3>3 DEF SelectExcess, CleanFails, dbVars
    <3>. QED
      BY <3>2, <3>3 DEF Clean
  <2>. QED
    BY <2>1, <2>2
<1>5. TypeOK'
    BY <1>1, <1>4 DEF UInv, TypeOK, Exists
<1>6. \A c \in Callers : RunInv(c)'
  <2>1. OwnersKept /\ clock' \in Nat /\ clock <= clock'
    BY <1>1 DEF OwnersKept
  <2>. QED
    BY <1>1, <2>1, OthersRun
<1>. QED
    BY <1>2, <1>3, <1>5, <1>6 DEF UInv

-----------------------------------------------------------------------------
LEMMA CallerUInv ==
    ASSUME UInv, NEW c \in Callers, Step(c)
    PROVE  UInv'
<1>1. CASE Fail(c) \/ UrlConflict(c)
    BY <1>1, FailUInv DEF Fail, UrlConflict
<1>2. CASE RecoveryFails(c)
    BY <1>2, EndUInv DEF RecoveryFails, EndRecovery
<1>. QED
    BY <1>1, <1>2, SelectUInv, FetchUInv, UpdateUInv, InsertUInv, UpsertLocationUInv,
       ShortcutUInv, UpsertContentUInv, CommitUInv, RecoverUInv DEF Step, Progress

LEMMA NextUInv == UInv /\ [Next]_vars => UInv'
<1>. SUFFICES ASSUME UInv, [Next]_vars PROVE UInv'
    OBVIOUS
<1>1. CASE UNCHANGED vars
  <2>1. PInv'
    BY NextPInv DEF UInv
  <2>2. ClockBudget' /\ IdBudget'
    BY <1>1 DEF UInv, ClockBudget, IdBudget, Owed, ToInsert, Located, vars, dbVars
  <2>3. TypeOK'
    BY <1>1 DEF UInv, TypeOK, Exists, vars, dbVars
  <2>4. \A c \in Callers : RunInv(c)'
    BY <1>1 DEF UInv, RunInv, SameOwner, vars, dbVars
  <2>. QED
    BY <2>1, <2>2, <2>3, <2>4 DEF UInv
<1>2. CASE Upgrade
    BY <1>2, UpgradeUInv
<1>3. ASSUME NEW c \in Callers,
             \/ \E u \in Urls, force \in BOOLEAN : Add(c, u, force)
             \/ \E p \in Podcasts : Crawl(c, p) \/ Reingest(c, p)
      PROVE  UInv'
  <2>1. PICK u \in Urls, f \in BOOLEAN, g \in Bodies \cup {None} : Begin(c, u, f, g)
    BY <1>3, BegunRuns DEF UInv, PInv
  <2>. QED
    BY <2>1, BeginUInv
<1>4. ASSUME NEW c \in Callers, Crash(c) PROVE UInv'
    BY <1>4, EndUInv DEF Crash
<1>5. CASE Clean
    BY <1>5, CleanUInv
<1>. QED
    BY <1>1, <1>2, <1>3, <1>4, <1>5, CallerUInv DEF Next

(* What runs owe the clock and the sequence bounds both, and a run's URL   *)
(* leads to the podcast its caller named, in every state.                  *)
THEOREM UInvariant == Spec => []UInv
    BY InitUInv, NextUInv, PTL DEF Spec

(* Every variable keeps its type and every location its podcast: in        *)
(* particular ids and timestamps stay within the bounds that the model     *)
(* gives them, so that no step is lost to a bound.                         *)
THEOREM UpdaterTyped == Spec => []TypeOK
<1>1. UInv => TypeOK
    BY DEF UInv
<1>. QED
    BY <1>1, UInvariant, PTL

LEMMA CommitRecords ==
    ASSUME UInv, NEW c \in Callers, Commit(c), location'[run[c].feed_url] # None
    PROVE  podcast'[location'[run[c].feed_url].podcast].retrieved > run[c].started
<1>. DEFINE p == run[c].podcast
            u == run[c].url
            row == PodcastRow(run[c].body, run[c].converted)
            place == LocationRow(p, run[c].located)
<1>1. /\ p \in Podcasts /\ u \in Urls /\ run[c].feed_url \in Urls
      /\ run[c].started < run[c].converted /\ SameOwner(c)
      /\ location[u] = None \/ location[u].podcast = p
      /\ podcast' = [podcast EXCEPT ![p] = row] /\ location' = [location EXCEPT ![u] = place]
      /\ row.retrieved = run[c].converted /\ place.podcast = p
    BY CommitFacts, StampedRows
<1>2. podcast'[p] = row /\ location'[u] = place
    BY <1>1 DEF UInv, TypeOK
<1>3. location'[run[c].feed_url].podcast = p
  <2>1. CASE run[c].feed_url = u
    BY <1>1, <1>2, <2>1
  <2>2. CASE run[c].feed_url # u
    BY <1>1, <2>2 DEF SameOwner
  <2>. QED
    BY <2>1, <2>2
<1>4. run[c].started \in Nat /\ run[c].converted \in Nat
    BY RunFields
<1>. QED
    BY <1>1, <1>2, <1>3, <1>4

LEMMA RecoverRecords ==
    ASSUME UInv, NEW c \in Callers, Recover(c), location'[run[c].feed_url] # None
    PROVE  podcast'[location'[run[c].feed_url].podcast].retrieved > run[c].started
<1>. DEFINE p == location[run[c].feed_url].podcast
<1>1. location' = location
    BY DEF Recover
<1>2. p \in FailedPodcasts(c)
    BY <1>1 DEF FailedPodcasts
<1>3. podcast'[p].retrieved = clock + 1 /\ run[c].started <= clock
    BY <1>2, RecoverFacts
<1>4. run[c].started \in Nat /\ clock \in Nat
    BY RunFields
<1>. QED
    BY <1>1, <1>3, <1>4

(* A run that commits, and a run_recovery that succeeds, leave the podcast *)
(* that the caller's URL leads to with a time of retrieval later than the  *)
(* start of the run: also when another URL of the podcast was fetched, or  *)
(* the podcast was inserted by somebody else in the meantime.              *)
THEOREM RetrievalIsRecorded == Spec => RetrievalRecorded
<1>1. UInv /\ [Next]_vars =>
        [\A c \in Callers :
            (Commit(c) \/ Recover(c)) /\ location'[run[c].feed_url] # None
            => podcast'[location'[run[c].feed_url].podcast].retrieved > run[c].started]_vars
    BY CommitRecords, RecoverRecords
<1>. QED
    BY <1>1, UInvariant, PTL DEF Spec, RetrievalRecorded

-----------------------------------------------------------------------------
(***************************************************************************)
(* The tables implement the abstract store.  SInv adds that a podcast which *)
(* a run inserts is nobody's to see before the run commits.                *)
(***************************************************************************)
InsertsFresh(c) ==
    /\ pc[c] \in Inserting => ~run[c].inserted
    /\ pc[c] \in RowHeld /\ run[c].inserted => podcast[run[c].podcast] = None

SInv == UInv /\ \A c \in Callers : InsertsFresh(c)

LEMMA InitSInv == Init => SInv
<1>. SUFFICES ASSUME Init PROVE SInv
    OBVIOUS
<1>1. \A c \in Callers : InsertsFresh(c)
    BY DEF Init, InsertsFresh, Inserting, RowHeld
<1>. QED
    BY <1>1, InitUInv DEF SInv

(* One caller moves on, and podcasts stay. *)
LEMMA LocalFresh ==
    ASSUME SInv, UInv', NEW c \in Callers, UNCHANGED podcast,
           \A d \in Callers \ {c} : run'[d] = run[d] /\ pc'[d] = pc[d],
           \/ pc'[c] \in {"idle", "recover"}
           \/ InsertsFresh(c)'
    PROVE  SInv'
<1>1. InsertsFresh(c)'
    BY DEF InsertsFresh, Inserting, RowHeld
<1>2. \A d \in Callers \ {c} : InsertsFresh(d)'
    BY DEF SInv, InsertsFresh
<1>. QED
    BY <1>1, <1>2 DEF SInv

(* A podcast that exists has an id that the sequence has handed out. *)
LEMMA NextIdUnused ==
    ASSUME SInv, nextId \in Podcasts
    PROVE  podcast[nextId] = None
<1>. SUFFICES ASSUME podcast[nextId] # None PROVE FALSE
    OBVIOUS
<1>1. PICK u \in Urls : location[u] # None /\ location[u].podcast = nextId
    BY DEF SInv, UInv, PInv, TablesInv, PodcastHasLocation, Exists, UrlsOf
<1>2. location[u].podcast < nextId /\ nextId \in Nat
    BY <1>1 DEF SInv, UInv, PInv, TablesInv, TablesInPast, Types
<1>. QED
    BY <1>1, <1>2

LEMMA StatementFresh ==
    ASSUME SInv, UInv', NEW c \in Callers,
           \/ SelectLatestUrl(c) \/ FetchFeed(c) \/ UpdatePodcast(c) \/ InsertPodcast(c)
           \/ UpsertLocation(c) \/ Shortcut(c) \/ UpsertContent(c)
    PROVE  SInv'
<1>1. /\ pc \in [Callers -> Phases] /\ run \in [Callers -> RunRecords] /\ InsertsFresh(c)
    BY DEF SInv, UInv, PInv, Types
<1>2. UNCHANGED podcast
    BY DEF SelectLatestUrl, FetchFeed, UpdatePodcast, InsertPodcast, UpsertLocation,
           Shortcut, UpsertContent, dbVars
<1>3. CASE SelectLatestUrl(c)
  <2>1. PICK u : run' = [run EXCEPT ![c].url = u]
    BY <1>3 DEF SelectLatestUrl
  <2>2. pc[c] = "select" /\ pc' = [pc EXCEPT ![c] = "fetch"]
    BY <1>3 DEF SelectLatestUrl
  <2>3. run'[c].inserted = run[c].inserted /\ pc'[c] = "fetch"
    BY <1>1, <2>1, <2>2 DEF RunRecords
  <2>4. InsertsFresh(c)'
    BY <1>1, <2>2, <2>3 DEF InsertsFresh, Inserting, RowHeld
  <2>. QED
    BY <1>1, <1>2, <2>1, <2>2, <2>4, LocalFresh
<1>4. CASE FetchFeed(c)
  <2>1. PICK b : run' = [run EXCEPT ![c] = [run[c] EXCEPT !.body = b, !.converted = clock + 1]]
    BY <1>4, Zenon DEF FetchFeed
  <2>2. pc[c] = "fetch" /\ pc' = [pc EXCEPT ![c] = "podcast"]
    BY <1>4 DEF FetchFeed
  <2>3. run'[c].inserted = run[c].inserted /\ pc'[c] = "podcast"
    BY <1>1, <2>1, <2>2 DEF RunRecords
  <2>4. InsertsFresh(c)'
    BY <1>1, <2>2, <2>3 DEF InsertsFresh, Inserting, RowHeld
  <2>. QED
    BY <1>1, <1>2, <2>1, <2>2, <2>4, LocalFresh
<1>5. CASE UpdatePodcast(c)
  <2>1. PICK p : run' = [run EXCEPT ![c].podcast = p]
    BY <1>5 DEF UpdatePodcast
  <2>2. pc[c] = "podcast" /\ pc' = [pc EXCEPT ![c] = "location"]
    BY <1>5 DEF UpdatePodcast
  <2>3. run'[c].inserted = run[c].inserted /\ pc'[c] = "location"
    BY <1>1, <2>1, <2>2 DEF RunRecords
  <2>4. InsertsFresh(c)'
    BY <1>1, <2>2, <2>3 DEF InsertsFresh, Inserting, RowHeld
  <2>. QED
    BY <1>1, <1>2, <2>1, <2>2, <2>4, LocalFresh
<1>6. CASE InsertPodcast(c)
  <2>1. /\ run' = [run EXCEPT ![c] = [run[c] EXCEPT !.podcast = nextId, !.inserted = TRUE]]
        /\ pc[c] = "podcast" /\ pc' = [pc EXCEPT ![c] = "location"]
    BY <1>6 DEF InsertPodcast
  <2>2. run'[c].podcast = nextId /\ pc'[c] = "location"
    BY <1>1, <2>1 DEF RunRecords
  <2>3. nextId \in Podcasts
    BY <2>2 DEF UInv, RunInv, RowHeld
  <2>4. InsertsFresh(c)'
    BY <1>2, <2>2, <2>3, NextIdUnused DEF InsertsFresh, Inserting
  <2>. QED
    BY <1>1, <1>2, <2>1, <2>4, LocalFresh
<1>7. CASE UpsertLocation(c) \/ Shortcut(c) \/ UpsertContent(c)
  <2>1. PICK s \in {run[c], [run[c] EXCEPT !.located = clock + 1],
                    [run[c] EXCEPT !.stored = clock + 1]} :
          run' = [run EXCEPT ![c] = s]
    <3>1. run = [run EXCEPT ![c] = run[c]]
      BY <1>1
    <3>. QED
      BY <1>7, <3>1 DEF UpsertLocation, Shortcut, UpsertContent
  <2>2. PICK phase \in RowHeld : pc[c] \in RowHeld /\ pc' = [pc EXCEPT ![c] = phase]
    BY <1>7 DEF UpsertLocation, Shortcut, UpsertContent, RowHeld
  <2>3. /\ run'[c].inserted = run[c].inserted /\ run'[c].podcast = run[c].podcast
        /\ pc'[c] = phase
    BY <1>1, <2>1, <2>2 DEF RunRecords
  <2>4. InsertsFresh(c)'
    BY <1>1, <1>2, <2>2, <2>3 DEF InsertsFresh, Inserting, RowHeld
  <2>. QED
    BY <1>1, <1>2, <2>1, <2>2, <2>4, LocalFresh
<1>. QED
    BY <1>3, <1>4, <1>5, <1>6, <1>7

(* A commit shows its own podcast only. *)
LEMMA CommitFresh ==
    ASSUME SInv, UInv', NEW c \in Callers, Commit(c)
    PROVE  SInv'
<1>. DEFINE p == run[c].podcast
            row == PodcastRow(run[c].body, run[c].converted)
<1>1. /\ pc[c] = "commit" /\ p \in Podcasts /\ podcast' = [podcast EXCEPT ![p] = row]
      /\ row # None
    BY CommitFacts, StampedRows DEF SInv
<1>2. /\ pc \in [Callers -> Phases] /\ run \in [Callers -> RunRecords]
      /\ podcast \in [Podcasts -> PodcastRows \cup {None}]
    BY DEF SInv, UInv, PInv, Types
<1>3. pc' = [pc EXCEPT ![c] = "idle"] /\ run' = [run EXCEPT ![c] = Idle]
    BY DEF Commit
<1>. HIDE DEF p, row
<1>5. InsertsFresh(c)'
    BY <1>2, <1>3 DEF InsertsFresh, Inserting, RowHeld
<1>6. ASSUME NEW d \in Callers \ {c}
      PROVE  InsertsFresh(d)'
  <2>1. run'[d] = run[d] /\ pc'[d] = pc[d] /\ InsertsFresh(d)
    BY <1>2, <1>3 DEF SInv
  <2>2. pc[d] \in RowHeld => run[d].podcast # p /\ run[d].podcast \in Podcasts
    BY <1>1 DEF SInv, UInv, RunInv, PInv, CallerInv, HoldsAlone, RowHeld, p
  <2>. QED
    BY <1>1, <1>2, <2>1, <2>2 DEF InsertsFresh
<1>. QED
    BY <1>5, <1>6 DEF SInv

(* A recovery changes rows, but brings none. *)
LEMMA RecoveredRows ==
    ASSUME UInv, NEW c \in Callers, Recover(c), NEW p \in Podcasts
    PROVE  /\ podcast'[p] = None <=> podcast[p] = None
           /\ podcast[p] # None => podcast'[p].title = podcast[p].title
<1>1. podcast'[p] = IF p \in FailedPodcasts(c) THEN RecoveredRow(podcast[p]) ELSE podcast[p]
    BY DEF Recover
<1>2. CASE podcast[p] = None
    BY <1>1, <1>2 DEF RecoveredRow
<1>3. CASE podcast[p] # None
  <2>1. podcast[p].title \in Bodies /\ clock + 1 \in Nat
    BY <1>3 DEF UInv, TypeOK, PInv, Types
  <2>. QED
    BY <1>1, <1>3, <2>1, PodcastRowFacts DEF RecoveredRow
<1>. QED
    BY <1>2, <1>3

LEMMA RecoverFresh ==
    ASSUME SInv, UInv', NEW c \in Callers, Recover(c)
    PROVE  SInv'
<1>1. pc' = [pc EXCEPT ![c] = "idle"] /\ run' = [run EXCEPT ![c] = Idle]
    BY DEF Recover, EndRecovery
<1>2. \A p \in Podcasts : podcast'[p] = None <=> podcast[p] = None
    BY RecoveredRows DEF SInv
<1>4. /\ pc'[c] = "idle"
      /\ \A d \in Callers \ {c} : run'[d] = run[d] /\ pc'[d] = pc[d]
    BY <1>1 DEF SInv, UInv, TypeOK
<1>5. \A d \in Callers \ {c} : pc[d] \in RowHeld => run[d].podcast \in Podcasts
    BY DEF SInv, UInv, RunInv
<1>6. \A d \in Callers : InsertsFresh(d)'
    BY <1>2, <1>4, <1>5 DEF SInv, InsertsFresh, Inserting, RowHeld
<1>. QED
    BY <1>6 DEF SInv

LEMMA NextSInv == SInv /\ [Next]_vars => SInv'
<1>. SUFFICES ASSUME SInv, [Next]_vars PROVE SInv'
    OBVIOUS
<1>1. UInv'
    BY NextUInv DEF SInv
<1>2. /\ pc \in [Callers -> Phases] /\ run \in [Callers -> RunRecords]
    BY DEF SInv, UInv, PInv, Types
<1>3. CASE UNCHANGED <<podcast, pc, run>>
    BY <1>1, <1>3 DEF SInv, InsertsFresh
<1>4. ASSUME NEW c \in Callers,
             \/ \E u \in Urls, force \in BOOLEAN : Add(c, u, force)
             \/ \E p \in Podcasts : Crawl(c, p) \/ Reingest(c, p)
      PROVE  SInv'
  <2>1. PICK u \in Urls, f \in BOOLEAN, g \in Bodies \cup {None} : Begin(c, u, f, g)
    BY <1>4, BegunRuns DEF SInv, UInv, PInv
  <2>2. /\ pc' = [pc EXCEPT ![c] = "select"] /\ run' = [run EXCEPT ![c] = NewRun(u, f, g)]
        /\ UNCHANGED podcast
    BY <2>1 DEF Begin, dbVars
  <2>3. /\ ~run'[c].inserted /\ pc'[c] = "select"
        /\ \A d \in Callers \ {c} : run'[d] = run[d] /\ pc'[d] = pc[d]
    BY <1>2, <2>2 DEF NewRun
  <2>4. InsertsFresh(c)'
    BY <2>3 DEF InsertsFresh, RowHeld
  <2>. QED
    BY <1>1, <2>2, <2>3, <2>4, LocalFresh
<1>5. ASSUME NEW c \in Callers,
             Crash(c) \/ RecoveryFails(c) \/ Fail(c) \/ UrlConflict(c)
      PROVE  SInv'
  <2>1. UNCHANGED podcast
    BY <1>5 DEF Crash, RecoveryFails, Fail, UrlConflict, dbVars
  <2>2. \A d \in Callers \ {c} : run'[d] = run[d] /\ pc'[d] = pc[d]
    BY <1>2, <1>5 DEF Crash, RecoveryFails, EndRecovery, Fail, UrlConflict
  <2>3. pc'[c] \in {"idle", "recover"}
    BY <1>2, <1>5 DEF Crash, RecoveryFails, EndRecovery, Fail, UrlConflict
  <2>. QED
    BY <1>1, <2>1, <2>2, <2>3, LocalFresh
<1>6. CASE UNCHANGED vars \/ Upgrade \/ Clean
    BY <1>3, <1>6 DEF vars, dbVars, Upgrade, Clean, SelectExcess, DeleteExcess, CleanFails
<1>. QED
    BY <1>1, <1>4, <1>5, <1>6, StatementFresh, CommitFresh, RecoverFresh DEF Next, Step, Progress

-----------------------------------------------------------------------------
LEMMA StoreStarts == Init => Store!StoreInit
<1>. SUFFICES ASSUME Init PROVE Store!StoreInit
    OBVIOUS
<1>1. \A p \in Podcasts :
        UrlsOf(p) = {} /\ TitleOf(p) = None /\ NewestBody(p) = None /\ ContentsOf(p) = {}
    BY DEF Init, UrlsOf, TitleOf, Exists, NewestBody, NewestBodies, ContentsOf
<1>. QED
    BY <1>1 DEF Init, Store!StoreInit

LEMMA StoreStutters ==
    ASSUME UNCHANGED <<episode, exception, processed>>,
           \A p \in Podcasts :
              /\ UrlsOf(p)' = UrlsOf(p) /\ TitleOf(p)' = TitleOf(p)
              /\ NewestBody(p)' = NewestBody(p) /\ ContentsOf(p)' = ContentsOf(p)
    PROVE  UNCHANGED Store!storeVars
BY DEF Store!storeVars

(* What a podcast's contents are follows from its rows alone. *)
LEMMA SameContents ==
    ASSUME NEW p \in Podcasts, content'[p] = content[p]
    PROVE  NewestBody(p)' = NewestBody(p) /\ ContentsOf(p)' = ContentsOf(p)
<1>1. NewestBodies(p)' = NewestBodies(p)
    BY DEF NewestBodies
<1>. QED
    BY <1>1 DEF NewestBody, ContentsOf

(* The podcast and the location that a commit makes visible. *)
LEMMA CommitAttaches ==
    ASSUME SInv, NEW c \in Callers, Commit(c)
    PROVE  LET p == run[c].podcast
               u == run[c].url
           IN  /\ IF TitleOf(p) # None THEN u \in UrlsOf(p)
                  ELSE \A q \in Podcasts : u \notin UrlsOf(q)
               /\ podcast[p] # None => TitleOf(p) # None
               /\ \A q \in Podcasts :
                     /\ UrlsOf(q)' = IF q = p THEN UrlsOf(q) \cup {u} ELSE UrlsOf(q)
                     /\ TitleOf(q)' = IF q = p THEN run[c].body ELSE TitleOf(q)
<1>. DEFINE p == run[c].podcast
            u == run[c].url
            b == run[c].body
            row == PodcastRow(b, run[c].converted)
            place == LocationRow(p, run[c].located)
<1>1. /\ pc[c] = "commit" /\ p \in Podcasts /\ u \in Urls /\ b \in Bodies
      /\ location[u] = None \/ location[u].podcast = p
      /\ podcast' = [podcast EXCEPT ![p] = row] /\ location' = [location EXCEPT ![u] = place]
      /\ row # None /\ place # None /\ place.podcast = p
    BY CommitFacts, StampedRows DEF SInv
<1>2. row.title = b
    BY DEF PodcastRow
<1>3. /\ podcast \in [Podcasts -> PodcastRows \cup {None}]
      /\ location \in [Urls -> LocationRows \cup {None}]
      /\ \A v \in Urls : location[v] # None => podcast[location[v].podcast] # None
    BY DEF SInv, UInv, PInv, Types, TypeOK, Exists
<1>4. ~run[c].inserted => location[u] # None /\ location[u].podcast = p
    BY <1>1 DEF SInv, UInv, PInv, CallerInv, OwnsUrl, RowHeld
<1>5. run[c].inserted => podcast[p] = None
    BY <1>1 DEF SInv, InsertsFresh, RowHeld
<1>. HIDE DEF p, u, b, row, place
<1>6. podcast[p] # None => TitleOf(p) # None
    BY <1>1, <1>3, NoneAssumption DEF TitleOf, Exists, PodcastRows
<1>7. IF TitleOf(p) # None THEN u \in UrlsOf(p) ELSE \A q \in Podcasts : u \notin UrlsOf(q)
  <2>1. CASE podcast[p] # None
    BY <1>1, <1>4, <1>5, <1>6, <2>1 DEF UrlsOf
  <2>2. CASE podcast[p] = None
    <3>1. location[u] = None
      BY <1>1, <1>3, <2>2
    <3>. QED
      BY <2>2, <3>1 DEF TitleOf, Exists, UrlsOf
  <2>. QED
    BY <2>1, <2>2
<1>8. ASSUME NEW q \in Podcasts
      PROVE  UrlsOf(q)' = IF q = p THEN UrlsOf(q) \cup {u} ELSE UrlsOf(q)
  <2>1. location'[u] = place /\ \A v \in Urls \ {u} : location'[v] = location[v]
    BY <1>1, <1>3
  <2>. QED
    BY <1>1, <2>1 DEF UrlsOf
<1>9. ASSUME NEW q \in Podcasts
      PROVE  TitleOf(q)' = IF q = p THEN b ELSE TitleOf(q)
    BY <1>1, <1>2, <1>3 DEF TitleOf, Exists
<1>. QED
    BY <1>6, <1>7, <1>8, <1>9 DEF p, u, b

(* A run that stored its content publishes it: nothing newer is there. *)
LEMMA CommitPublishes ==
    ASSUME SInv, NEW c \in Callers, Commit(c), run[c].stored > 0
    PROVE  Store!Publish(run[c].podcast, run[c].url, run[c].body)
<1>0. PICK p, b, at : p = run[c].podcast /\ b = run[c].body /\ at = run[c].stored
    OBVIOUS
<1>1. /\ pc[c] = "commit" /\ p \in Podcasts /\ run[c].url \in Urls /\ b \in Bodies
      /\ at \in Nat /\ at > 0
    BY <1>0, CommitFacts, RunFields DEF SInv, UInv, PInv, Types, RunRecords
<1>2. /\ content \in [Podcasts -> [Bodies -> Nat]]
      /\ episode \in [Podcasts -> [Guids -> Bodies \cup {None}]]
    BY DEF SInv, UInv, PInv, Types
<1>3. \A d \in Bodies : content[p][d] < at
    BY <1>0, <1>1 DEF SInv, UInv, PInv, CallerInv, StoresLast
<1>4. /\ content' = [content EXCEPT ![p][b] = at]
      /\ episode' = [episode EXCEPT ![p] = WrittenEpisodes(c)]
      /\ exception' = exception \ {p}
      /\ processed' = [processed EXCEPT ![p] = @ \cup {b}]
    BY <1>0, <1>1 DEF Commit
<1>5. WrittenEpisodes(c) = [g \in Guids |-> IF g \in GuidsOf[b] THEN b ELSE episode[p][g]]
    BY <1>0 DEF WrittenEpisodes
<1>6. /\ Store!Attach(p, run[c].url)
      /\ \A q \in Podcasts : TitleOf(q)' = IF q = p THEN b ELSE TitleOf(q)
    BY <1>0, <1>1, CommitAttaches DEF Store!Attach
<1>7. /\ content'[p][b] = at
      /\ \A d \in Bodies \ {b} : content'[p][d] = content[p][d]
      /\ \A q \in Podcasts \ {p} : content'[q] = content[q]
    BY <1>1, <1>2, <1>4
<1>8. NewestBody(p)' = b
  <2>1. NewestBodies(p)' = {b}
    <3>1. \A d \in Bodies \ {b} : content'[p][d] < content'[p][b] /\ content'[p][d] \in Nat
      BY <1>1, <1>2, <1>3, <1>7
    <3>2. b \in NewestBodies(p)'
      BY <1>1, <1>7, <3>1 DEF NewestBodies
    <3>3. \A d \in Bodies \ {b} : d \notin NewestBodies(p)'
      BY <1>1, <1>7, <3>1 DEF NewestBodies
    <3>4. NewestBodies(p)' \subseteq Bodies
      BY DEF NewestBodies
    <3>. QED
      BY <3>2, <3>3, <3>4
  <2>. QED
    BY <2>1 DEF NewestBody
<1>9. ContentsOf(p)' = ContentsOf(p) \cup {b}
    BY <1>1, <1>7 DEF ContentsOf
<1>10. \A q \in Podcasts \ {p} :
          NewestBody(q)' = NewestBody(q) /\ ContentsOf(q)' = ContentsOf(q)
    BY <1>7, SameContents
<1>11. Store!Publish(p, run[c].url, b)
    BY <1>4, <1>5, <1>6, <1>8, <1>9, <1>10 DEF Store!Publish
<1>. QED
    BY <1>0, <1>11

(* A run that took the shortcut shows a body that was published before.   *)
LEMMA CommitRecognizes ==
    ASSUME SInv, NEW c \in Callers, Commit(c), ~(run[c].stored > 0)
    PROVE  Store!Recognize(run[c].podcast, run[c].url, run[c].body)
<1>1. /\ pc[c] = "commit" /\ run[c].podcast \in Podcasts /\ run[c].body \in Bodies
      /\ run[c].stored = 0
    BY CommitFacts, RunFields DEF SInv, UInv, PInv, Types, RunRecords
<1>2. run[c].body \in processed[run[c].podcast]
    BY <1>1 DEF SInv, UInv, PInv, CallerInv, StoresLast
<1>3. podcast[run[c].podcast] # None
    BY <1>1, <1>2 DEF SInv, UInv, PInv, TablesInv, ContentsInv, Exists
<1>4. UNCHANGED <<content, episode, exception, processed>>
    BY <1>1 DEF Commit
<1>5. \A q \in Podcasts : NewestBody(q)' = NewestBody(q) /\ ContentsOf(q)' = ContentsOf(q)
    BY <1>4, SameContents
<1>7. /\ Store!Attach(run[c].podcast, run[c].url)
      /\ TitleOf(run[c].podcast) # None
      /\ \A q \in Podcasts : TitleOf(q)' = IF q = run[c].podcast THEN run[c].body ELSE TitleOf(q)
    BY <1>1, <1>3, CommitAttaches DEF Store!Attach
<1>. QED
    BY <1>1, <1>2, <1>4, <1>5, <1>7 DEF Store!Recognize

(* A recovery leaves the exception of the podcast it finds, if any. *)
LEMMA RecoverFailsOne ==
    ASSUME SInv, NEW c \in Callers, Recover(c)
    PROVE  UNCHANGED Store!storeVars \/ \E p \in Podcasts : Store!RetrieveFails(p)
<1>1. /\ UNCHANGED <<location, content, episode, processed>>
      /\ exception' = exception \cup FailedPodcasts(c)
    BY DEF Recover
<1>2. ASSUME NEW p \in Podcasts
      PROVE  /\ UrlsOf(p)' = UrlsOf(p) /\ TitleOf(p)' = TitleOf(p)
             /\ NewestBody(p)' = NewestBody(p) /\ ContentsOf(p)' = ContentsOf(p)
  <2>1. TitleOf(p)' = TitleOf(p)
    BY RecoveredRows DEF SInv, TitleOf, Exists
  <2>2. UrlsOf(p)' = UrlsOf(p)
    BY <1>1 DEF UrlsOf
  <2>. QED
    BY <1>1, <2>1, <2>2, SameContents
<1>3. CASE FailedPodcasts(c) = {}
    BY <1>1, <1>2, <1>3, StoreStutters
<1>4. CASE FailedPodcasts(c) # {}
  <2>. DEFINE p == location[run[c].feed_url].podcast
  <2>1. FailedPodcasts(c) = {p}
    BY <1>4 DEF FailedPodcasts
  <2>2. p \in Podcasts /\ podcast[p] # None
    BY <2>1, RecoverFacts DEF SInv
  <2>. HIDE DEF p
  <2>3. TitleOf(p) # None
    BY <2>2, NoneAssumption DEF TitleOf, Exists, SInv, UInv, TypeOK
  <2>4. Store!RetrieveFails(p)
    BY <1>1, <1>2, <2>1, <2>2, <2>3 DEF Store!RetrieveFails
  <2>. QED
    BY <2>2, <2>4
<1>. QED
    BY <1>3, <1>4

(* The upgrade's one statement gives every podcast all its missing twins. *)
LEMMA UpgradeAddsTwins ==
    ASSUME SInv, Upgrade
    PROVE  Store!AddTwins
<1>1. /\ UNCHANGED <<podcast, content, episode, exception, processed>>
      /\ OwnersKept
    BY UpgradeFacts DEF SInv, Upgrade
<1>. DEFINE Twinned(p) == {u \in UrlsOf(p) \cap DOMAIN SecureUrl :
                             HostOf[u] \in Whitelisted \cup SecureHosts}
<1>2. ASSUME NEW p \in Podcasts
      PROVE  Store!Twins(p) = {SecureUrl[u] : u \in Twinned(p)}
  <2>1. (UNION {[r \in Podcasts |-> UrlsOf(r)][q] : q \in Podcasts}) \ DOMAIN SecureUrl
           = {v \in Urls \ DOMAIN SecureUrl : location[v] # None}
    <3>. DEFINE all == UNION {[r \in Podcasts |-> UrlsOf(r)][q] : q \in Podcasts}
    <3>1. \A v \in all : v \in Urls /\ location[v] # None
      <4>1. \A v \in all : \E q \in Podcasts : v \in UrlsOf(q)
        OBVIOUS
      <4>. HIDE DEF all
      <4>. QED
        BY <4>1 DEF UrlsOf
    <3>2. ASSUME NEW v \in Urls, location[v] # None PROVE v \in all
      <4>1. location[v].podcast \in Podcasts /\ v \in UrlsOf(location[v].podcast)
        BY <3>2 DEF SInv, UInv, TypeOK, UrlsOf
      <4>2. \A q \in Podcasts : UrlsOf(q) \subseteq all
        OBVIOUS
      <4>. HIDE DEF all
      <4>. QED
        BY <4>1, <4>2
    <3>. HIDE DEF all
    <3>3. all \ DOMAIN SecureUrl = {v \in Urls \ DOMAIN SecureUrl : location[v] # None}
      BY <3>1, <3>2
    <3>. QED
      BY <3>3 DEF all
  <2>2. Store!SecureHosts = SecureHosts
    BY <2>1, Zenon DEF Store!SecureHosts, SecureHosts
  <2>. QED
    BY <2>2 DEF Store!Twins
<1>3. ASSUME NEW p \in Podcasts, NEW u \in Twinned(p)
      PROVE  /\ u \in Urls /\ location[u] # None /\ location[u].podcast = p
             /\ SecureUrl[u] \in Urls
             /\ SecureUrl[u] \in UrlsOf(p) \/ u \in Upgradable
    BY SecureUrlAssumption DEF UrlsOf, Upgradable
<1>4. ASSUME NEW u \in Upgradable
      PROVE  /\ location[SecureUrl[u]] = None
             /\ location'[SecureUrl[u]] # None
             /\ location'[SecureUrl[u]].podcast = location[u].podcast
  <2>. DEFINE v == SecureUrl[u]
              w == CHOOSE x \in Upgradable : SecureUrl[x] = v
  <2>1. v \in Urls /\ u \in Urls /\ location[u] # None
    BY SecureUrlAssumption DEF Upgradable
  <2>2. w = u
    <3>1. w \in Upgradable /\ SecureUrl[w] = v
      OBVIOUS
    <3>2. w \in DOMAIN SecureUrl /\ u \in DOMAIN SecureUrl
      BY <3>1 DEF Upgradable
    <3>. QED
      BY <3>1, <3>2, SecureUrlAssumption
  <2>3. location'[v] = LocationRow(location[w].podcast, clock + 1)
    BY <2>1 DEF Upgrade
  <2>. HIDE DEF w
  <2>4. location[u].podcast \in Nat /\ clock + 1 \in Nat
    BY <2>1 DEF SInv, UInv, PInv, Types, LocationRows
  <2>5. location[v] = None
    BY DEF Upgrade
  <2>. QED
    BY <2>2, <2>3, <2>4, <2>5, LocationRowFacts
<1>5. ASSUME NEW v \in Urls, ~\E u \in Upgradable : SecureUrl[u] = v
      PROVE  location'[v] = location[v]
    BY <1>5 DEF Upgrade
<1>6. ASSUME NEW p \in Podcasts
      PROVE  UrlsOf(p)' = UrlsOf(p) \cup Store!Twins(p)
  <2>1. ASSUME NEW v \in UrlsOf(p)'
        PROVE  v \in UrlsOf(p) \cup Store!Twins(p)
    <3>1. v \in Urls /\ location'[v] # None /\ location'[v].podcast = p
      BY DEF UrlsOf
    <3>2. CASE \E u \in Upgradable : SecureUrl[u] = v
      <4>1. PICK u \in Upgradable : SecureUrl[u] = v
        BY <3>2
      <4>2. u \in Twinned(p)
        BY <1>4, <3>1, <4>1, SecureUrlAssumption DEF UrlsOf, Upgradable
      <4>. QED
        BY <1>2, <4>1, <4>2
    <3>3. CASE ~\E u \in Upgradable : SecureUrl[u] = v
      BY <1>5, <3>1, <3>3 DEF UrlsOf
    <3>. QED
      BY <3>2, <3>3
  <2>2. ASSUME NEW v \in UrlsOf(p)
        PROVE  v \in UrlsOf(p)'
    BY <1>1 DEF OwnersKept, UrlsOf
  <2>3. ASSUME NEW v \in Store!Twins(p)
        PROVE  v \in UrlsOf(p)'
    <3>1. PICK u \in Twinned(p) : v = SecureUrl[u]
      BY <1>2
    <3>2. CASE u \in Upgradable
      BY <1>3, <1>4, <3>1, <3>2 DEF UrlsOf
    <3>. QED
      BY <1>3, <2>2, <3>1, <3>2
  <2>. QED
    BY <2>1, <2>2, <2>3
<1>7. ASSUME NEW p \in Podcasts, NEW q \in Podcasts, p # q
      PROVE  Store!Twins(p) \cap UrlsOf(q) = {}
  <2>. SUFFICES ASSUME NEW v \in Store!Twins(p), v \in UrlsOf(q) PROVE FALSE
    OBVIOUS
  <2>1. PICK u \in Twinned(p) : v = SecureUrl[u]
    BY <1>2
  <2>2. location[v] # None /\ v \notin UrlsOf(p)
    BY <1>7 DEF UrlsOf
  <2>. QED
    BY <1>3, <1>4, <2>1, <2>2
<1>8. ASSUME NEW p \in Podcasts
      PROVE  /\ TitleOf(p)' = TitleOf(p)
             /\ NewestBody(p)' = NewestBody(p) /\ ContentsOf(p)' = ContentsOf(p)
  <2>1. TitleOf(p)' = TitleOf(p)
    BY <1>1 DEF TitleOf, Exists
  <2>. QED
    BY <1>1, <2>1, SameContents
<1>. QED
    BY <1>1, <1>6, <1>7, <1>8 DEF Store!AddTwins

(* Of the contents of a podcast one is the newest. *)
NewestKnown ==
    \A p \in Podcasts :
        \/ ContentsOf(p) = {} /\ NewestBody(p) = None
        \/ /\ NewestBody(p) \in ContentsOf(p)
           /\ \A d \in ContentsOf(p) \ {NewestBody(p)} :
                 content[p][d] < content[p][NewestBody(p)]

LEMMA NewestIsKnown == PInv => NewestKnown
<1>. SUFFICES ASSUME PInv, NEW p \in Podcasts
              PROVE  \/ ContentsOf(p) = {} /\ NewestBody(p) = None
                     \/ /\ NewestBody(p) \in ContentsOf(p)
                        /\ \A d \in ContentsOf(p) \ {NewestBody(p)} :
                              content[p][d] < content[p][NewestBody(p)]
    BY DEF NewestKnown
<1>1. \A b \in Bodies : content[p][b] \in Nat
    BY DEF PInv, Types
<1>2. CASE ContentsOf(p) = {}
  <2>1. NewestBodies(p) = {}
    BY <1>2 DEF NewestBodies, ContentsOf
  <2>. QED
    BY <1>2, <2>1 DEF NewestBody
<1>3. CASE ContentsOf(p) # {}
  <2>1. ContentsOf(p) \in SUBSET Bodies
    BY DEF ContentsOf
  <2>2. PICK b \in ContentsOf(p) : \A d \in ContentsOf(p) : content[p][d] <= content[p][b]
    BY <1>3, <2>1, NewestExists
  <2>3. b \in NewestBodies(p)
    BY <1>1, <2>2 DEF NewestBodies, ContentsOf
  <2>4. NewestBody(p) \in NewestBodies(p)
    BY <2>3 DEF NewestBody
  <2>5. \A x, y \in ContentsOf(p) : content[p][x] = content[p][y] => x = y
    BY DEF PInv, TablesInv, ContentsInv
  <2>. QED
    BY <1>1, <2>4, <2>5 DEF NewestBodies, ContentsOf
<1>. QED
    BY <1>2, <1>3

(* A deletion of the cleaner discards contents.  Those it leaves are as    *)
(* they were, so the newest of them is the newest that was, if that stays. *)
LEMMA DeleteDiscards ==
    ASSUME SInv, DeleteExcess
    PROVE  Store!Discard
<1>1. UNCHANGED <<podcast, location, episode, exception, processed>>
    BY DEF DeleteExcess
<1>2. PInv /\ PInv'
    BY DeleteExcessStep DEF SInv, UInv
<1>3. ASSUME NEW p \in Podcasts
      PROVE  /\ ContentsOf(p)' \subseteq ContentsOf(p) /\ ContentsOf(p) \subseteq Bodies
             /\ \A b \in ContentsOf(p)' : content'[p][b] = content[p][b]
    BY <1>2, DeleteFacts DEF ContentsOf
<1>4. NewestKnown /\ NewestKnown'
    BY <1>2, NewestIsKnown, PTL
<1>5. ASSUME NEW p \in Podcasts, ContentsOf(p) # {}
      PROVE  ContentsOf(p)' # {}
  <2>1. PICK b \in ContentsOf(p) : <<p, b>> \notin batch
    BY <1>2, <1>5 DEF PInv, TablesInv, ContentsInv, BatchInv
  <2>. QED
    BY <1>2, <2>1, DeleteFacts
<1>6. ASSUME NEW p \in Podcasts
      PROVE  /\ UrlsOf(p)' = UrlsOf(p) /\ TitleOf(p)' = TitleOf(p)
             /\ NewestBody(p)' \in Bodies \cup {None}
             /\ IF NewestBody(p) \in ContentsOf(p)' \cup {None}
                THEN NewestBody(p)' = NewestBody(p)
                ELSE NewestBody(p)' \in ContentsOf(p)'
  <2>1. UrlsOf(p)' = UrlsOf(p) /\ TitleOf(p)' = TitleOf(p)
    BY <1>1 DEF UrlsOf, TitleOf, Exists
  <2>2. CASE ContentsOf(p) = {}
    <3>1. ContentsOf(p)' = {}
      BY <1>3, <2>2
    <3>2. NewestBody(p) = None /\ NewestBody(p)' = None
      BY <1>4, <2>2, <3>1 DEF NewestKnown
    <3>. QED
      BY <2>1, <3>2
  <2>3. CASE ContentsOf(p) # {}
    <3>1. /\ NewestBody(p) \in ContentsOf(p)
          /\ \A d \in ContentsOf(p) \ {NewestBody(p)} : content[p][d] < content[p][NewestBody(p)]
      BY <1>4, <2>3 DEF NewestKnown
    <3>2. /\ NewestBody(p)' \in ContentsOf(p)'
          /\ \A d \in ContentsOf(p)' \ {NewestBody(p)'} :
                content'[p][d] < content'[p][NewestBody(p)']
      BY <1>4, <1>5, <2>3 DEF NewestKnown
    <3>3. \A d \in Bodies : content[p][d] \in Nat
      BY <1>2 DEF PInv, Types
    <3>4. NewestBody(p) \in ContentsOf(p)' => NewestBody(p)' = NewestBody(p)
      BY <1>3, <3>1, <3>2, <3>3
    <3>. QED
      BY <1>3, <2>1, <3>1, <3>2, <3>4, NoneAssumption
  <2>. QED
    BY <2>2, <2>3
<1>. QED
    BY <1>1, <1>3, <1>6 DEF Store!Discard

LEMMA StoreStep ==
    ASSUME SInv, [Next]_vars
    PROVE  [Store!StoreNext]_Store!storeVars
<1>1. CASE UNCHANGED <<podcast, location, content, episode, exception, processed>>
  <2>1. ASSUME NEW p \in Podcasts
        PROVE  /\ UrlsOf(p)' = UrlsOf(p) /\ TitleOf(p)' = TitleOf(p)
               /\ NewestBody(p)' = NewestBody(p) /\ ContentsOf(p)' = ContentsOf(p)
    <3>1. UrlsOf(p)' = UrlsOf(p) /\ TitleOf(p)' = TitleOf(p)
      BY <1>1 DEF UrlsOf, TitleOf, Exists
    <3>. QED
      BY <1>1, <3>1, SameContents
  <2>. QED
    BY <1>1, <2>1, StoreStutters
<1>2. ASSUME NEW c \in Callers, Commit(c)
      PROVE  Store!StoreNext
  <2>1. run[c].podcast \in Podcasts /\ run[c].url \in Urls /\ run[c].body \in Bodies
    BY <1>2, CommitFacts DEF SInv
  <2>2. \/ Store!Publish(run[c].podcast, run[c].url, run[c].body)
        \/ Store!Recognize(run[c].podcast, run[c].url, run[c].body)
    BY <1>2, CommitPublishes, CommitRecognizes
  <2>. QED
    BY <2>1, <2>2 DEF Store!StoreNext
<1>3. ASSUME NEW c \in Callers, Recover(c)
      PROVE  [Store!StoreNext]_Store!storeVars
    BY <1>3, RecoverFailsOne DEF Store!StoreNext
<1>4. CASE Upgrade
    BY <1>4, UpgradeAddsTwins DEF Store!StoreNext
<1>5. CASE DeleteExcess
    BY <1>5, DeleteDiscards DEF Store!StoreNext
<1>. QED
    BY <1>1, <1>2, <1>3, <1>4, <1>5
    DEF Next, Step, Progress, Add, Crawl, Reingest, Begin, Crash, Fail, RecoveryFails,
        SelectLatestUrl, FetchFeed, UpdatePodcast, InsertPodcast, UpsertLocation,
        UrlConflict, Shortcut, UpsertContent, Clean, SelectExcess, CleanFails, vars, dbVars

(* Whatever transactions of the updater overlap, wait, fail and recover,   *)
(* and whenever upgrades and the cleaner come, the five tables change as   *)
(* if one retrieval or deletion happened at a time: every step implements  *)
(* one of FeedStore or none.                                               *)
THEOREM StoreImplemented == Spec => ImplementsStore
<1>1. SInv /\ [Next]_vars => [Store!StoreNext]_Store!storeVars
    BY StoreStep
<1>. QED
    BY <1>1, StoreStarts, InitSInv, NextSInv, PTL DEF Spec, ImplementsStore, Store!StoreSpec
=============================================================================
