--------------------------- MODULE DirectoryProofs ---------------------------
(***************************************************************************)
(* Proofs about Directory, for any requests, queries, vendors, feeds and   *)
(* results and any sets of ids.                                            *)
(*                                                                         *)
(* DInv is the inductive invariant.  What it adds to the cache's coherence *)
(* is what the locks and the sequences of ids achieve between a request's  *)
(* statements: the search it names is its query's or gone (Named); while   *)
(* it writes no batch can delete the search (Locked), and one that it      *)
(* inserts is nobody else's (Alone); and the rows it has upserted stay     *)
(* until it commits (RowsLocked).  Pending is what links need besides: an  *)
(* entry that a request inserts is nobody else's and has no row, and the   *)
(* podcasts it has looked up are still those of their feeds.               *)
(***************************************************************************)
EXTENDS Directory, WellFoundedInduction, TLAPS

TxRecords ==
    [query : Queries \cup {None}, search : Searches \cup {0},
     dir_podcast : Entries \cup {0}, feed_url : Feeds \cup {None},
     todo : Seq([vendor_id : Vendors, feed_url : Feeds]),
     podcasts : [Feeds -> Podcasts \cup {0}],
     feeds : [Entries -> Feeds \cup {None}], inserted : [Vendors -> Entries \cup {0}]]

Statements == {"idle", "select", "update", "fetch", "upsert", "load", "expand", "delete"}

Named(r) ==
    /\ pc[r] \in {"select"} \cup Writing => tx[r].query \in Queries
    /\ pc[r] \in {"update", "load"} \cup Writing =>
          /\ tx[r].search \in Searches
          /\ search[tx[r].search] # None => search[tx[r].search].query = tx[r].query
    /\ pc[r] = "expand" => tx[r].dir_podcast \in Entries /\ tx[r].feed_url \in Feeds

Locked(r) == pc[r] \in Writing => tx[r].search \notin batch["directory_search"].held

Alone(r) ==
    pc[r] \in Writing /\ search[tx[r].search] = None =>
        \A q \in Requests \ {r} : tx[q].search # tx[r].search

RowsLocked(r) ==
    /\ Inserted(r) \subseteq Upserted(r)
    /\ \A e \in Upserted(r) :
          /\ entry[e] # None \/ e \in Inserted(r)
          /\ e \notin batch["directory_podcast"].held

RequestInv(r) == Named(r) /\ Locked(r) /\ Alone(r) /\ RowsLocked(r)

(* The part of CacheCoherent that is about the tables. *)
TablesCoherent ==
    \A s \in Searches :
        /\ joins[s] = fetched[s]
        /\ \A e \in joins[s] : entry[e] # None
        /\ search[s] # None => fetchAge[s] <= search[s].age
        /\ search[s] = None => joins[s] = {}

(* A row has a feed, and only a row has a podcast. *)
EntriesLinked ==
    \A e \in Entries : IF entry[e] = None THEN feed[e] = None /\ link[e] = 0 ELSE feed[e] # None

HeldSelected == \A c \in Cleaners : batch[c].held \subseteq batch[c].todo

DInv ==
    /\ TypeOK
    /\ TablesCoherent
    /\ EntriesLinked
    /\ HeldSelected
    /\ \A r \in Requests : RequestInv(r)

-----------------------------------------------------------------------------
(* A set of numbers has a least element, so that Smallest finds an id in   *)
(* any set of ids that is not empty.                                       *)
LEMMA LeastNatural ==
    ASSUME NEW S \in SUBSET Nat, S # {}
    PROVE  \E n \in S : \A m \in S : n <= m
<1>. DEFINE Less == {ss \in Nat \X Nat : ss[1] < ss[2]}
<1>1. IsWellFoundedOn(Less, Nat)
  BY NatLessThanWellFounded DEF OpToRel
<1>2. ASSUME NEW m \in Nat, NEW n \in Nat, m < n
      PROVE  <<m, n>> \in Less
  BY <1>2
<1>. HIDE DEF Less
<1>3. PICK n \in S : \A m \in S : <<m, n>> \notin Less
  BY <1>1, WFMin
<1>4. \A m \in S : ~(m < n)
  BY <1>2, <1>3
<1>. QED
  BY <1>4

LEMMA SmallestIsOne ==
    ASSUME NEW S \in SUBSET Nat, S # {}
    PROVE  Smallest(S) \in S
BY LeastNatural DEF Smallest

LEMMA NewTxType ==
    ASSUME NEW q \in Queries \cup {None}, NEW e \in Entries \cup {0}, NEW f \in Feeds \cup {None}
    PROVE  /\ NewTx(q, e, f) \in TxRecords
           /\ NewTx(q, e, f).query = q
           /\ NewTx(q, e, f).search = 0
           /\ NewTx(q, e, f).dir_podcast = e /\ NewTx(q, e, f).feed_url = f
           /\ \A d \in Entries : NewTx(q, e, f).feeds[d] = None
           /\ \A v \in Vendors : NewTx(q, e, f).inserted[v] = 0
           /\ \A g \in Feeds : NewTx(q, e, f).podcasts[g] = 0
BY DEF NewTx, TxRecords

(* What a request holds when it ends a search: the search, nothing else.   *)
Ended(q, e, f, s) == [NewTx(q, e, f) EXCEPT !.search = s]

LEMMA EndedFields ==
    ASSUME NEW q, NEW e, NEW f, NEW s
    PROVE  /\ Ended(q, e, f, s).query = q /\ Ended(q, e, f, s).search = s
           /\ Ended(q, e, f, s).feeds = [d \in Entries |-> None]
           /\ Ended(q, e, f, s).inserted = [v \in Vendors |-> 0]
           /\ Ended(q, e, f, s).podcasts = [g \in Feeds |-> 0]
BY DEF Ended, NewTx

LEMMA EndedType ==
    ASSUME NEW q \in Queries \cup {None}, NEW e \in Entries \cup {0}, NEW f \in Feeds \cup {None},
           NEW s \in Searches \cup {0}
    PROVE  Ended(q, e, f, s) \in TxRecords
<1>1. NewTx(q, e, f) \in TxRecords
  BY NewTxType
<1>. QED
  BY <1>1 DEF TxRecords, Ended

LEMMA NoTxType ==
    /\ NoTx \in TxRecords /\ NoTx.search = 0
    /\ \A d \in Entries : NoTx.feeds[d] = None
    /\ \A v \in Vendors : NoTx.inserted[v] = 0
    /\ \A g \in Feeds : NoTx.podcasts[g] = 0
BY NewTxType DEF NoTx

LEMMA SearchRowFacts ==
    ASSUME NEW q \in Queries, NEW a \in 0..2
    PROVE  /\ SearchRow(q, a) \in [query : Queries, age : 0..2]
           /\ SearchRow(q, a) # None
           /\ SearchRow(q, a).query = q /\ SearchRow(q, a).age = a
BY NoneAssumption DEF SearchRow

LEMMA InitDInv == Init => DInv
<1>. SUFFICES ASSUME Init PROVE DInv
  OBVIOUS
<1>1. TypeOK
  <2>1. tx \in [Requests -> TxRecords]
    BY NoTxType DEF Init
  <2>2. batch \in [Cleaners -> [todo : SUBSET (Searches \cup Entries),
                                held : SUBSET (Searches \cup Entries)]]
    BY DEF Init, NoBatch
  <2>3. /\ entry \in [Entries -> Vendors \cup {None}] /\ feed \in [Entries -> Feeds \cup {None}]
        /\ link \in [Entries -> Podcasts \cup {0}] /\ podcastOf \in [Feeds -> Podcasts \cup {0}]
    BY ResultsAssumption DEF Init
  <2>4. /\ search \in [Searches -> [query : Queries, age : 0..2] \cup {None}]
        /\ joins \in [Searches -> SUBSET Entries]
        /\ pc \in [Requests \cup Cleaners -> Statements]
        /\ requests \in 0..MaxRequests
        /\ fetched \in [Searches -> SUBSET Entries] /\ fetchAge \in [Searches -> 0..2]
    BY RequestsAssumption DEF Init, Statements
  <2>. QED
    BY <2>1, <2>2, <2>3, <2>4 DEF TypeOK, TxRecords, Statements
<1>2. TablesCoherent /\ EntriesLinked /\ HeldSelected
  BY DEF Init, TablesCoherent, EntriesLinked, HeldSelected, NoBatch
<1>3. \A r \in Requests : RequestInv(r)
  BY NoTxType DEF Init, RequestInv, Named, Locked, Alone, RowsLocked, Inserted, Upserted, Writing
<1>. QED
  BY <1>1, <1>2, <1>3 DEF DInv

-----------------------------------------------------------------------------
(***************************************************************************)
(* Steps of one request that write no table.                               *)
(***************************************************************************)

(* What one request does to its own record leaves the others' part of the  *)
(* invariant alone, unless it takes the search that another inserts.       *)
LEMMA OthersKeep ==
    ASSUME DInv, NEW r \in Requests, NEW t \in TxRecords,
           tx' = [tx EXCEPT ![r] = t],
           \A q \in Requests \ {r} : pc'[q] = pc[q],
           UNCHANGED <<search, entry, batch>>,
           \/ t.search \in {0, tx[r].search}
           \/ search[t.search] # None
           \/ \A q \in Requests : tx[q].search # t.search,
           NEW q \in Requests \ {r}
    PROVE  RequestInv(q)'
<1>1. RequestInv(q) /\ tx'[q] = tx[q] /\ pc'[q] = pc[q] /\ tx'[r] = t
  BY DEF DInv, TypeOK
<1>2. Named(q)' /\ Locked(q)' /\ RowsLocked(q)'
  BY <1>1 DEF RequestInv, Named, Locked, RowsLocked, Inserted, Upserted
<1>3. Alone(q)'
  <2>. SUFFICES ASSUME pc[q] \in Writing, search[tx[q].search] = None
                PROVE  \A d \in Requests \ {q} : tx'[d].search # tx[q].search
    BY <1>1 DEF Alone
  <2>1. \A d \in Requests \ {q} : tx[d].search # tx[q].search
    BY <1>1 DEF RequestInv, Alone
  <2>2. \A d \in Requests \ {q} : d # r => tx'[d] = tx[d]
    BY DEF DInv, TypeOK
  <2>3. tx[q].search # 0
    BY <1>1, IdsAssumption DEF RequestInv, Named
  <2>4. t.search # tx[q].search
    BY <2>1, <2>3
  <2>. QED
    BY <1>1, <2>1, <2>2, <2>4
<1>. QED
  BY <1>2, <1>3 DEF RequestInv

LEMMA LocalStep ==
    ASSUME DInv, NEW r \in Requests, NEW t \in TxRecords, NEW to \in Statements,
           Go(r, to), tx' = [tx EXCEPT ![r] = t],
           UNCHANGED <<dbVars, batch, historyVars>>, requests' \in 0..MaxRequests,
           \/ t.search \in {0, tx[r].search}
           \/ search[t.search] # None
           \/ \A q \in Requests : tx[q].search # t.search,
           RequestInv(r)'
    PROVE  DInv'
<1>1. /\ tx' \in [Requests -> TxRecords]
      /\ pc' \in [Requests \cup Cleaners -> Statements]
      /\ \A q \in Requests \ {r} : pc'[q] = pc[q]
  BY DEF DInv, TypeOK, TxRecords, Go, Statements
<1>2. TypeOK'
  BY <1>1 DEF DInv, TypeOK, dbVars, historyVars, TxRecords, Statements
<1>3. TablesCoherent' /\ EntriesLinked' /\ HeldSelected'
  BY DEF DInv, TablesCoherent, EntriesLinked, HeldSelected, dbVars, historyVars
<1>4. ASSUME NEW q \in Requests \ {r} PROVE RequestInv(q)'
  BY <1>1, OthersKeep DEF dbVars
<1>. QED
  BY <1>2, <1>3, <1>4 DEF DInv

(* The end of a request, well or not, that commits nothing. *)
LEMMA FailStep ==
    ASSUME DInv, NEW r \in Requests, Fail(r)
    PROVE  DInv'
<1>1. /\ Go(r, "idle") /\ tx' = [tx EXCEPT ![r] = NoTx]
      /\ UNCHANGED <<dbVars, batch, historyVars>> /\ requests' = requests
  BY DEF Fail, End
<1>2. pc'[r] = "idle" /\ tx'[r] = NoTx
  BY <1>1 DEF Go, DInv, TypeOK
<1>3. RequestInv(r)'
  BY <1>2, NoTxType DEF RequestInv, Named, Locked, Alone, RowsLocked, Inserted, Upserted, Writing
<1>4. requests' \in 0..MaxRequests
  BY <1>1 DEF DInv, TypeOK
<1>. QED
  BY <1>1, <1>3, <1>4, NoTxType, LocalStep DEF Statements

LEMMA BeginStep ==
    ASSUME DInv, NEW r \in Requests,
           \/ \E query \in Queries : BeginSearch(r, query)
           \/ \E e \in Entries : BeginExpand(r, e)
    PROVE  DInv'
<1>1. PICK to \in {"select", "expand"}, q \in Queries \cup {None}, e \in Entries \cup {0},
           f \in Feeds \cup {None} :
          /\ to = "select" => q \in Queries
          /\ to = "expand" => e \in Entries /\ f \in Feeds
          /\ Begin(r, to, NewTx(q, e, f))
  <2>1. ASSUME NEW e \in Entries, BeginExpand(r, e)
        PROVE  feed[e] \in Feeds /\ Begin(r, "expand", NewTx(None, e, feed[e]))
    BY <2>1 DEF BeginExpand, DInv, TypeOK, EntriesLinked
  <2>. QED
    BY <2>1 DEF BeginSearch
<1>2. /\ Go(r, to) /\ tx' = [tx EXCEPT ![r] = NewTx(q, e, f)]
      /\ UNCHANGED <<dbVars, batch, historyVars>>
      /\ requests' = requests + 1 /\ requests < MaxRequests
  BY <1>1 DEF Begin
<1>3. requests' \in 0..MaxRequests
  BY <1>2, RequestsAssumption DEF DInv, TypeOK
<1>4. pc'[r] = to /\ tx'[r] = NewTx(q, e, f)
  BY <1>2 DEF Go, DInv, TypeOK
<1>5. RequestInv(r)'
  <2>. DEFINE t == NewTx(q, e, f)
  <2>1. /\ t.query = q /\ t.dir_podcast = e /\ t.feed_url = f
        /\ \A d \in Entries : t.feeds[d] = None
        /\ \A v \in Vendors : t.inserted[v] = 0
    BY NewTxType
  <2>2. pc'[r] = to /\ tx'[r] = t
    BY <1>4
  <2>. HIDE DEF t
  <2>3. Named(r)' /\ Locked(r)' /\ Alone(r)'
    BY <1>1, <2>1, <2>2 DEF Named, Locked, Alone, Writing
  <2>4. RowsLocked(r)'
    BY <2>1, <2>2 DEF RowsLocked, Inserted, Upserted
  <2>. QED
    BY <2>3, <2>4 DEF RequestInv
<1>6. NewTx(q, e, f) \in TxRecords /\ NewTx(q, e, f).search = 0 /\ to \in Statements
  BY NewTxType DEF Statements
<1>. QED
  BY <1>2, <1>3, <1>5, <1>6, LocalStep

(* Selecting a stale search: a row that others may refresh or delete. *)
LEMMA SelectDirectorySearchStep ==
    ASSUME DInv, NEW r \in Requests, SelectDirectorySearch(r)
    PROVE  DInv'
<1>1. PICK s \in SearchesOf(tx[r].query) : tx' = [tx EXCEPT ![r].search = s]
  BY DEF SelectDirectorySearch
<1>. DEFINE t == [tx[r] EXCEPT !.search = s]
<1>2. /\ tx[r] \in TxRecords /\ s \in Searches
      /\ search[s] # None /\ search[s].query = tx[r].query
  BY DEF DInv, TypeOK, TxRecords, SearchesOf
<1>3. t \in TxRecords /\ t.search = s /\ t.query = tx[r].query /\ t.feeds = tx[r].feeds
  BY <1>2 DEF TxRecords
<1>4. tx' = [tx EXCEPT ![r] = t]
  BY <1>1
<1>. HIDE DEF t
<1>5. /\ Go(r, "update") /\ UNCHANGED <<dbVars, batch, historyVars>>
      /\ requests' \in 0..MaxRequests /\ pc[r] = "select"
  BY DEF SelectDirectorySearch, DInv, TypeOK
<1>6. pc'[r] = "update" /\ tx'[r] = t
  BY <1>4, <1>5 DEF Go, DInv, TypeOK
<1>7. RequestInv(r)'
  <2>1. tx[r].query \in Queries /\ RowsLocked(r)
    BY <1>5 DEF DInv, RequestInv, Named
  <2>2. t.inserted = tx[r].inserted
    BY <1>2 DEF t, TxRecords
  <2>3. Named(r)' /\ Locked(r)' /\ Alone(r)'
    BY <1>2, <1>3, <1>5, <1>6, <2>1 DEF Named, Locked, Alone, Writing, dbVars
  <2>4. RowsLocked(r)'
    BY <1>3, <1>5, <1>6, <2>1, <2>2 DEF RowsLocked, Inserted, Upserted, dbVars
  <2>. QED
    BY <2>3, <2>4 DEF RequestInv
<1>. QED
  BY <1>2, <1>3, <1>4, <1>5, <1>7, LocalStep DEF Statements

(* A fresh search answers from the cache: the request keeps nothing but    *)
(* the search and its query.                                               *)
LEMMA SelectCachedResultsStep ==
    ASSUME DInv, NEW r \in Requests, SelectCachedResults(r)
    PROVE  DInv'
<1>1. PICK s \in SearchesOf(tx[r].query) : EndSearch(r, s)
  BY DEF SelectCachedResults
<1>2. /\ s \in Searches /\ search[s] # None /\ search[s].query = tx[r].query
      /\ pc[r] = "select" /\ tx[r].query \in Queries
      /\ UNCHANGED <<dbVars, batch, historyVars>> /\ requests' \in 0..MaxRequests
  BY DEF SelectCachedResults, SearchesOf, DInv, TypeOK, RequestInv, Named
<1>. DEFINE t == Ended(tx[r].query, 0, None, s)
<1>3. /\ t \in TxRecords /\ t.search = s /\ t.query = tx[r].query
      /\ \A d \in Entries : t.feeds[d] = None
      /\ \A v \in Vendors : t.inserted[v] = 0
  <2>1. /\ tx[r].query \in Queries \cup {None} /\ 0 \in Entries \cup {0}
        /\ None \in Feeds \cup {None} /\ s \in Searches \cup {0}
    BY <1>2
  <2>2. t \in TxRecords
    BY <2>1, EndedType
  <2>3. /\ t.search = s /\ t.query = tx[r].query
        /\ t.feeds = [d \in Entries |-> None] /\ t.inserted = [v \in Vendors |-> 0]
    BY EndedFields
  <2>. QED
    BY <2>2, <2>3
<1>4. tx' = [tx EXCEPT ![r] = t] /\ Go(r, "load")
  BY <1>1 DEF EndSearch, Ended
<1>. HIDE DEF t
<1>5. pc'[r] = "load" /\ tx'[r] = t
  BY <1>4 DEF Go, DInv, TypeOK
<1>6. RequestInv(r)'
  BY <1>2, <1>3, <1>5 DEF RequestInv, Named, Locked, Alone, RowsLocked, Inserted, Upserted, Writing, dbVars
<1>. QED
  BY <1>2, <1>3, <1>4, <1>6, LocalStep DEF Statements

(* Once the lock is granted, no batch holds the row, and as it is there,   *)
(* others may name it.                                                     *)
LEMMA UpdateDirectorySearchStep ==
    ASSUME DInv, NEW r \in Requests, UpdateDirectorySearch(r)
    PROVE  DInv'
<1>1. /\ pc[r] = "update" /\ WaitsFor(r) = {} /\ search[tx[r].search] # None
      /\ Go(r, "fetch") /\ tx' = tx /\ UNCHANGED <<dbVars, batch, historyVars>>
      /\ requests' \in 0..MaxRequests
  BY DEF UpdateDirectorySearch, DInv, TypeOK
<1>2. tx[r] \in TxRecords /\ tx' = [tx EXCEPT ![r] = tx[r]]
  BY <1>1 DEF DInv, TypeOK, TxRecords
<1>3. pc'[r] = "fetch" /\ tx'[r] = tx[r]
  BY <1>1 DEF Go, DInv, TypeOK
<1>4. tx[r].search \notin batch["directory_search"].held
  <2>1. SearchHolders(tx[r].search) \subseteq {r}
    BY <1>1 DEF WaitsFor, Holders
  <2>2. "directory_search" # r
    BY ActorsAssumption DEF Cleaners
  <2>. QED
    BY <2>1, <2>2 DEF SearchHolders
<1>5. RequestInv(r)'
  <2>1. RequestInv(r) /\ search' = search /\ batch' = batch
    BY <1>1 DEF DInv, dbVars
  <2>2. Named(r)'
    <3>1. tx[r].search \in Searches /\ search[tx[r].search].query = tx[r].query
      BY <1>1, <2>1 DEF RequestInv, Named
    <3>2. tx[r].query \in Queries
      BY <1>1, <3>1 DEF DInv, TypeOK
    <3>. QED
      BY <1>1, <1>3, <2>1, <3>1, <3>2 DEF Named
  <2>3. Locked(r)' /\ Alone(r)'
    BY <1>1, <1>3, <1>4, <2>1 DEF Locked, Alone
  <2>4. RowsLocked(r)'
    BY <1>1, <1>3, <2>1 DEF RequestInv, RowsLocked, Inserted, Upserted, dbVars
  <2>. QED
    BY <2>2, <2>3, <2>4 DEF RequestInv
<1>. QED
  BY <1>1, <1>2, <1>5, LocalStep DEF Statements

(* The id is fresh: no row, no other request and no batch has it. *)
LEMMA InsertDirectorySearchStep ==
    ASSUME DInv, NEW r \in Requests, InsertDirectorySearch(r)
    PROVE  DInv'
<1>. DEFINE s == Smallest(FreshSearches)
            t == [tx[r] EXCEPT !.search = s]
<1>1. /\ s \in Searches /\ search[s] = None
      /\ \A q \in Requests : tx[q].search # s
      /\ s \notin batch["directory_search"].todo
  <2>1. FreshSearches \in SUBSET Nat /\ FreshSearches # {}
    BY IdsAssumption DEF FreshSearches, InsertDirectorySearch
  <2>2. s \in FreshSearches
    BY <2>1, SmallestIsOne
  <2>. QED
    BY <2>2 DEF FreshSearches
<1>2. tx' = [tx EXCEPT ![r] = t] /\ tx[r] \in TxRecords
  BY DEF InsertDirectorySearch, DInv, TypeOK, TxRecords
<1>. HIDE DEF s
<1>3. /\ t \in TxRecords /\ t.search = s /\ t.query = tx[r].query
      /\ t.feeds = tx[r].feeds /\ t.inserted = tx[r].inserted
  BY <1>1, <1>2 DEF TxRecords
<1>. HIDE DEF t
<1>4. /\ pc[r] = "select" /\ Go(r, "fetch") /\ UNCHANGED <<dbVars, batch, historyVars>>
      /\ requests' \in 0..MaxRequests
  BY DEF InsertDirectorySearch, DInv, TypeOK
<1>5. pc'[r] = "fetch" /\ tx'[r] = t /\ \A q \in Requests \ {r} : tx'[q] = tx[q]
  BY <1>2, <1>4 DEF Go, DInv, TypeOK
<1>6. RequestInv(r)'
  <2>1. tx[r].query \in Queries /\ RowsLocked(r) /\ HeldSelected
    BY <1>4 DEF DInv, RequestInv, Named
  <2>2. Named(r)' /\ Alone(r)'
    BY <1>1, <1>3, <1>4, <1>5, <2>1 DEF Named, Alone, Writing, dbVars
  <2>3. Locked(r)'
    BY <1>1, <1>3, <1>4, <1>5, <2>1 DEF Locked, Writing, HeldSelected, Cleaners
  <2>4. RowsLocked(r)'
    BY <1>3, <1>4, <1>5, <2>1 DEF RowsLocked, Inserted, Upserted, dbVars
  <2>. QED
    BY <2>2, <2>3, <2>4 DEF RequestInv
<1>. QED
  BY <1>1, <1>2, <1>3, <1>4, <1>6, LocalStep DEF Statements

LEMMA FetchResultsStep ==
    ASSUME DInv, NEW r \in Requests, FetchResults(r)
    PROVE  DInv'
<1>1. PICK results \in Results :
          tx' = [tx EXCEPT ![r] = [@ EXCEPT !.todo = results, !.podcasts = podcastOf]]
  BY DEF FetchResults
<1>. DEFINE t == [tx[r] EXCEPT !.todo = results, !.podcasts = podcastOf]
<1>2. /\ tx[r] \in TxRecords /\ results \in Seq([vendor_id : Vendors, feed_url : Feeds])
      /\ podcastOf \in [Feeds -> Podcasts \cup {0}]
      /\ tx' = [tx EXCEPT ![r] = t]
  BY <1>1, ResultsAssumption DEF DInv, TypeOK, TxRecords
<1>3. /\ t \in TxRecords /\ t.search = tx[r].search /\ t.query = tx[r].query
      /\ t.feeds = tx[r].feeds /\ t.inserted = tx[r].inserted
  BY <1>2 DEF TxRecords
<1>. HIDE DEF t
<1>4. /\ pc[r] = "fetch" /\ Go(r, "upsert") /\ UNCHANGED <<dbVars, batch, historyVars>>
      /\ requests' \in 0..MaxRequests
  BY DEF FetchResults, DInv, TypeOK
<1>5. pc'[r] = "upsert" /\ tx'[r] = t /\ \A q \in Requests \ {r} : tx'[q] = tx[q]
  BY <1>2, <1>4 DEF Go, DInv, TypeOK
<1>6. RequestInv(r)'
  <2>1. RequestInv(r)
    BY DEF DInv
  <2>2. Named(r)' /\ Locked(r)' /\ Alone(r)'
    BY <1>3, <1>4, <1>5, <2>1 DEF RequestInv, Named, Locked, Alone, Writing, dbVars
  <2>3. RowsLocked(r)'
    BY <1>3, <1>4, <1>5, <2>1 DEF RequestInv, RowsLocked, Inserted, Upserted, dbVars
  <2>. QED
    BY <2>2, <2>3 DEF RequestInv
<1>. QED
  BY <1>2, <1>3, <1>4, <1>6, LocalStep DEF Statements

(* The row upserted is there or will be, and no batch holds it: the        *)
(* request has waited for that of an old row, and the id of a new one is   *)
(* fresh.                                                                  *)
LEMMA UpsertRowStep ==
    ASSUME DInv, NEW r \in Requests, UpsertRow(r)
    PROVE  DInv'
<1>. DEFINE v == Head(tx[r].todo).vendor_id
            f == Head(tx[r].todo).feed_url
            old == EntriesOf(v)
            e == Smallest(IF old # {} THEN old ELSE FreshEntries)
            t == [tx[r] EXCEPT !.todo = Tail(@), !.feeds[e] = f,
                               !.inserted[v] = IF old # {} THEN @ ELSE e]
<1>0. /\ old \cup FreshEntries # {}
      /\ tx' = [tx EXCEPT ![r] = t]
  BY DEF UpsertRow
<1>1. /\ pc[r] = "upsert" /\ tx[r].todo # <<>> /\ WaitsFor(r) = {} /\ ~Repeated(r)
      /\ old \cup FreshEntries # {} /\ tx' = [tx EXCEPT ![r] = t] /\ pc' = pc
      /\ UNCHANGED <<dbVars, batch, historyVars>> /\ requests' \in 0..MaxRequests
  <2>. HIDE DEF t, old
  <2>1. requests \in 0..MaxRequests
    BY DEF DInv, TypeOK
  <2>. QED
    BY <1>0, <2>1, Zenon DEF UpsertRow
<1>2. /\ tx[r] \in TxRecords /\ v \in Vendors /\ f \in Feeds
      /\ Tail(tx[r].todo) \in Seq([vendor_id : Vendors, feed_url : Feeds])
  <2>1. tx[r] \in TxRecords /\ tx[r].todo \in Seq([vendor_id : Vendors, feed_url : Feeds])
    BY DEF DInv, TypeOK, TxRecords
  <2>2. \A S : \A sq \in Seq(S) : sq # <<>> => Head(sq) \in S /\ Tail(sq) \in Seq(S)
    OBVIOUS
  <2>3. /\ Head(tx[r].todo) \in [vendor_id : Vendors, feed_url : Feeds]
        /\ Tail(tx[r].todo) \in Seq([vendor_id : Vendors, feed_url : Feeds])
    BY <1>1, <2>1, <2>2
  <2>. QED
    BY <2>1, <2>3
<1>3. e \in Entries /\ (IF old # {} THEN e \in old ELSE e \in FreshEntries)
  <2>1. old \in SUBSET Nat /\ FreshEntries \in SUBSET Nat
        /\ old \subseteq Entries /\ FreshEntries \subseteq Entries
    BY IdsAssumption DEF EntriesOf, FreshEntries
  <2>. HIDE DEF old, v, f
  <2>. QED
    BY <1>1, <2>1, SmallestIsOne
<1>4. tx[r].inserted[v] = 0
  BY <1>1 DEF Repeated
<1>5. e \notin batch["directory_podcast"].held
  <2>1. CASE old # {}
    <3>1. EntryHolders(e) \subseteq {r}
      <4>1. Holders(r) = VendorHolders(v) \cup UNION {EntryHolders(d) : d \in EntriesOf(v)}
        BY <1>1 DEF Holders
      <4>. QED
        BY <1>1, <1>3, <2>1, <4>1 DEF WaitsFor
    <3>2. "directory_podcast" # r
      BY ActorsAssumption DEF Cleaners
    <3>. QED
      BY <3>1, <3>2 DEF EntryHolders
  <2>2. CASE old = {}
    BY <1>3, <2>2 DEF FreshEntries, DInv, HeldSelected, Cleaners
  <2>. QED
    BY <2>1, <2>2
<1>6. old # {} => entry[e] # None
  BY <1>2, <1>3, NoneAssumption DEF EntriesOf
<1>. HIDE DEF e, old, v, f
<1>7. /\ t \in TxRecords /\ t.search = tx[r].search /\ t.query = tx[r].query
      /\ t.feeds = [tx[r].feeds EXCEPT ![e] = f]
      /\ t.inserted = [tx[r].inserted EXCEPT ![v] = IF old # {} THEN @ ELSE e]
  BY <1>2, <1>3 DEF TxRecords
<1>. HIDE DEF t
<1>8. tx'[r] = t /\ Go(r, "upsert") /\ \A q \in Requests \ {r} : tx'[q] = tx[q]
  BY <1>1 DEF Go, DInv, TypeOK
<1>9. RequestInv(r)'
  <2>1. RequestInv(r)
    BY DEF DInv
  <2>2. Named(r)' /\ Locked(r)' /\ Alone(r)'
    BY <1>1, <1>7, <1>8, <2>1 DEF RequestInv, Named, Locked, Alone, Writing, dbVars
  <2>3. RowsLocked(r)'
    <3>1. ASSUME NEW d \in Inserted(r) PROVE d \in Inserted(r)'
      <4>1. PICK w \in Vendors : tx[r].inserted[w] = d /\ d # 0
        BY <3>1 DEF Inserted
      <4>2. w # v
        BY <1>4, <4>1
      <4>3. t.inserted[w] = d
        BY <1>2, <1>7, <4>1, <4>2 DEF TxRecords
      <4>. QED
        BY <1>8, <4>1, <4>3 DEF Inserted
    <3>2. old = {} => e \in Inserted(r)'
      <4>1. e # 0
        BY <1>3, IdsAssumption
      <4>2. old = {} => t.inserted[v] = e
        BY <1>2, <1>7 DEF TxRecords
      <4>. QED
        BY <1>2, <1>8, <4>1, <4>2 DEF Inserted
    <3>3. ASSUME NEW d \in Upserted(r)'
          PROVE  /\ entry'[d] # None \/ d \in Inserted(r)'
                 /\ d \notin batch'["directory_podcast"].held
      <4>1. d = e \/ d \in Upserted(r)
        BY <1>2, <1>7, <1>8, <3>3 DEF Upserted, TxRecords
      <4>. QED
        BY <1>1, <1>5, <1>6, <2>1, <3>1, <3>2, <4>1 DEF RequestInv, RowsLocked, dbVars
    <3>4. e \in Upserted(r)' /\ \A d \in Upserted(r) : d \in Upserted(r)'
      <4>1. \A d \in Entries : t.feeds[d] = IF d = e THEN f ELSE tx[r].feeds[d]
        BY <1>2, <1>3, <1>7 DEF TxRecords
      <4>. QED
        BY <1>2, <1>3, <1>8, <4>1, NoneAssumption DEF Upserted
    <3>5. ASSUME NEW d \in Inserted(r)' PROVE d = e \/ d \in Inserted(r)
      <4>1. PICK w \in Vendors : t.inserted[w] = d /\ d # 0
        BY <1>8, <3>5 DEF Inserted
      <4>2. t.inserted[w] = tx[r].inserted[w] \/ t.inserted[w] = e
        BY <1>2, <1>7, <4>1 DEF TxRecords
      <4>. QED
        BY <4>1, <4>2 DEF Inserted
    <3>6. Inserted(r)' \subseteq Upserted(r)'
      BY <2>1, <3>4, <3>5 DEF RequestInv, RowsLocked
    <3>. QED
      BY <3>3, <3>6 DEF RowsLocked
  <2>. QED
    BY <2>2, <2>3 DEF RequestInv
<1>. QED
  BY <1>1, <1>2, <1>7, <1>8, <1>9, LocalStep DEF Statements

-----------------------------------------------------------------------------
(***************************************************************************)
(* Steps that write tables.                                                *)
(***************************************************************************)

(* The commit of a search.  Another request that names the row it writes   *)
(* searches for the same words: if the row is new, there is none.          *)
LEMMA CommitSearchStep ==
    ASSUME DInv, NEW r \in Requests, CommitSearch(r)
    PROVE  DInv'
<1>. DEFINE s == tx[r].search
            t == Ended(tx[r].query, 0, None, s)
            vendorOf(e) == CHOOSE v \in Vendors : tx[r].inserted[v] = e
<1>1. /\ pc[r] = "upsert" /\ Go(r, "load") /\ tx' = [tx EXCEPT ![r] = t]
      /\ search' = [search EXCEPT ![s] = SearchRow(tx[r].query, 0)]
      /\ joins' = [joins EXCEPT ![s] = Upserted(r)]
      /\ fetched' = [fetched EXCEPT ![s] = Upserted(r)]
      /\ fetchAge' = [fetchAge EXCEPT ![s] = 0]
      /\ link' = LinkedAfter(r)
      /\ feed' = [e \in Entries |-> IF e \in Upserted(r) THEN tx[r].feeds[e] ELSE feed[e]]
      /\ podcastOf' = podcastOf /\ batch' = batch /\ requests' = requests
  BY DEF CommitSearch, EndSearch, JoinsLeft, Ended
<1>2. entry' = [e \in Entries |-> IF e \in Inserted(r) THEN vendorOf(e) ELSE entry[e]]
  BY DEF CommitSearch
<1>3. /\ RequestInv(r) /\ tx[r] \in TxRecords /\ s \in Searches /\ tx[r].query \in Queries
  BY <1>1 DEF DInv, TypeOK, TxRecords, RequestInv, Named, Writing
<1>4. /\ t \in TxRecords /\ t.search = s /\ t.query = tx[r].query
      /\ \A d \in Entries : t.feeds[d] = None
      /\ \A v \in Vendors : t.inserted[v] = 0
  <2>1. /\ tx[r].query \in Queries \cup {None} /\ 0 \in Entries \cup {0}
        /\ None \in Feeds \cup {None} /\ s \in Searches \cup {0}
    BY <1>3
  <2>2. t \in TxRecords
    BY <2>1, EndedType
  <2>3. /\ t.search = s /\ t.query = tx[r].query
        /\ t.feeds = [d \in Entries |-> None] /\ t.inserted = [v \in Vendors |-> 0]
    BY EndedFields
  <2>. QED
    BY <2>2, <2>3
<1>5. ASSUME NEW e \in Inserted(r) PROVE e \in Entries /\ vendorOf(e) \in Vendors
  BY <1>3 DEF Inserted, TxRecords
<1>. HIDE DEF t, s, vendorOf
<1>6. /\ pc'[r] = "load" /\ tx'[r] = t
      /\ \A q \in Requests \ {r} : pc'[q] = pc[q] /\ tx'[q] = tx[q]
      /\ pc' \in [Requests \cup Cleaners -> Statements]
      /\ tx' \in [Requests -> TxRecords]
  BY <1>1, <1>4 DEF Go, DInv, TypeOK, TxRecords, Statements
<1>7. /\ search'[s] # None /\ search'[s].query = tx[r].query /\ search'[s].age = 0
      /\ \A d \in Searches \ {s} : search'[d] = search[d]
      /\ search' \in [Searches -> [query : Queries, age : 0..2] \cup {None}]
  <2>1. search \in [Searches -> [query : Queries, age : 0..2] \cup {None}]
    BY DEF DInv, TypeOK
  <2>. QED
    BY <1>1, <1>3, <2>1, SearchRowFacts
<1>8. /\ entry' \in [Entries -> Vendors \cup {None}]
      /\ \A e \in Entries : entry[e] # None \/ e \in Inserted(r) => entry'[e] # None
  BY <1>2, <1>5, NoneAssumption DEF DInv, TypeOK
<1>9. TypeOK'
  <2>1. /\ link' \in [Entries -> Podcasts \cup {0}]
        /\ feed' \in [Entries -> Feeds \cup {None}]
    <3>1. ASSUME NEW e \in Entries, e \in Upserted(r)
          PROVE  tx[r].feeds[e] \in Feeds /\ tx[r].podcasts[tx[r].feeds[e]] \in Podcasts \cup {0}
      BY <1>3, <3>1 DEF Upserted, TxRecords
    <3>2. Inserted(r) \subseteq Upserted(r)
      BY <1>3 DEF RequestInv, RowsLocked
    <3>. QED
      BY <1>1, <3>1, <3>2 DEF LinkedAfter, DInv, TypeOK
  <2>2. Upserted(r) \subseteq Entries
    BY DEF Upserted
  <2>3. /\ joins' \in [Searches -> SUBSET Entries] /\ fetched' \in [Searches -> SUBSET Entries]
        /\ fetchAge' \in [Searches -> 0..2]
    BY <1>1, <1>3, <2>2 DEF DInv, TypeOK
  <2>. QED
    BY <1>1, <1>6, <1>7, <1>8, <2>1, <2>3 DEF DInv, TypeOK, TxRecords, Statements
<1>10. TablesCoherent'
  <2>. SUFFICES ASSUME NEW d \in Searches
                PROVE  /\ joins'[d] = fetched'[d]
                       /\ \A e \in joins'[d] : entry'[e] # None
                       /\ search'[d] # None => fetchAge'[d] <= search'[d].age
                       /\ search'[d] = None => joins'[d] = {}
    BY DEF TablesCoherent
  <2>1. CASE d = s
    <3>1. joins'[d] = Upserted(r) /\ fetched'[d] = Upserted(r) /\ fetchAge'[d] = 0
      BY <1>1, <2>1 DEF DInv, TypeOK
    <3>2. \A e \in Upserted(r) : entry'[e] # None
      BY <1>3, <1>8 DEF RequestInv, RowsLocked, Upserted
    <3>. QED
      BY <1>7, <2>1, <3>1, <3>2
  <2>2. CASE d # s
    <3>1. joins'[d] = joins[d] /\ fetched'[d] = fetched[d] /\ fetchAge'[d] = fetchAge[d]
          /\ search'[d] = search[d] /\ joins[d] \subseteq Entries
      BY <1>1, <1>7, <2>2 DEF DInv, TypeOK
    <3>. QED
      BY <1>8, <3>1 DEF DInv, TablesCoherent
  <2>. QED
    BY <2>1, <2>2
<1>11. RequestInv(r)'
  BY <1>3, <1>4, <1>6, <1>7 DEF RequestInv, Named, Locked, Alone, RowsLocked, Inserted, Upserted, Writing
<1>12. ASSUME NEW q \in Requests \ {r} PROVE RequestInv(q)'
  <2>1. RequestInv(q) /\ tx[q] \in TxRecords /\ tx'[q] = tx[q] /\ pc'[q] = pc[q]
    BY <1>6 DEF DInv, TypeOK, TxRecords
  <2>2. Named(q)'
    <3>1. CASE tx[q].search = s
      <4>1. search[s] # None
        BY <1>1, <1>3, <3>1 DEF RequestInv, Alone, Writing, s
      <4>2. search[s].query = tx[r].query
        BY <1>1, <1>3, <4>1 DEF RequestInv, Named, Writing, s
      <4>. QED
        BY <1>7, <2>1, <3>1, <4>1, <4>2 DEF RequestInv, Named
    <3>2. CASE tx[q].search # s
      BY <1>7, <2>1, <3>2 DEF RequestInv, Named
    <3>. QED
      BY <3>1, <3>2
  <2>3. Locked(q)'
    BY <1>1, <2>1 DEF RequestInv, Locked
  <2>4. Alone(q)'
    <3>. SUFFICES ASSUME pc[q] \in Writing, search'[tx[q].search] = None,
                         NEW d \in Requests \ {q}
                  PROVE  tx'[d].search # tx[q].search
      BY <2>1 DEF Alone
    <3>1. tx[q].search \in Searches /\ tx[q].search # s
      BY <1>7, <2>1 DEF RequestInv, Named
    <3>2. search[tx[q].search] = None
      BY <1>7, <3>1
    <3>3. tx[d].search # tx[q].search
      BY <2>1, <3>2 DEF RequestInv, Alone
    <3>. QED
      BY <1>4, <1>6, <3>1, <3>3
  <2>5. RowsLocked(q)'
    <3>1. Inserted(q)' = Inserted(q) /\ Upserted(q)' = Upserted(q) /\ Upserted(q) \subseteq Entries
      BY <2>1 DEF Inserted, Upserted
    <3>. QED
      BY <1>1, <1>8, <2>1, <3>1 DEF RequestInv, RowsLocked
  <2>. QED
    BY <2>2, <2>3, <2>4, <2>5 DEF RequestInv
<1>13. HeldSelected'
  BY <1>1 DEF DInv, HeldSelected
<1>14. EntriesLinked'
  <2>. SUFFICES ASSUME NEW e \in Entries
                PROVE  IF entry'[e] = None THEN feed'[e] = None /\ link'[e] = 0 ELSE feed'[e] # None
    BY DEF EntriesLinked
  <2>1. CASE e \in Upserted(r)
    BY <1>1, <1>3, <1>8, <2>1 DEF RequestInv, RowsLocked, Upserted
  <2>2. CASE e \notin Upserted(r)
    <3>1. e \notin Inserted(r)
      BY <1>3, <2>2 DEF RequestInv, RowsLocked
    <3>. QED
      BY <1>1, <1>2, <2>2, <3>1 DEF DInv, EntriesLinked, LinkedAfter
  <2>. QED
    BY <2>1, <2>2
<1>. QED
  BY <1>9, <1>10, <1>11, <1>12, <1>13, <1>14 DEF DInv

(* A feed without a podcast gets a new one. *)
LEMMA PodcastForType ==
    ASSUME podcastOf \in [Feeds -> Podcasts \cup {0}], NEW f \in Feeds,
           podcastOf[f] # 0 \/ FreshPodcasts # {}
    PROVE  PodcastFor(f) \in Podcasts
<1>1. FreshPodcasts \in SUBSET Nat /\ FreshPodcasts \subseteq Podcasts
  BY IdsAssumption DEF FreshPodcasts
<1>2. FreshPodcasts # {} => Smallest(FreshPodcasts) \in FreshPodcasts
  BY <1>1, SmallestIsOne
<1>. QED
  BY <1>1, <1>2 DEF PodcastFor

LEMMA SaveDirPodcastStep ==
    ASSUME DInv, NEW r \in Requests, SaveDirPodcast(r)
    PROVE  DInv'
<1>. DEFINE e == tx[r].dir_podcast
            f == tx[r].feed_url
<1>1. /\ pc[r] = "expand" /\ entry[e] # None
      /\ podcastOf[f] # 0 \/ FreshPodcasts # {}
      /\ feed' = [feed EXCEPT ![e] = f]
      /\ link' = [link EXCEPT ![e] = PodcastFor(f)]
      /\ podcastOf' = [podcastOf EXCEPT ![f] = PodcastFor(f)]
      /\ Go(r, "idle") /\ tx' = [tx EXCEPT ![r] = NoTx]
      /\ UNCHANGED <<search, joins, entry, batch, requests, historyVars>>
  BY DEF SaveDirPodcast, End
<1>2. e \in Entries /\ f \in Feeds
  BY <1>1 DEF DInv, RequestInv, Named
<1>. HIDE DEF e, f
<1>3. /\ pc'[r] = "idle" /\ tx'[r] = NoTx
      /\ \A q \in Requests \ {r} : pc'[q] = pc[q]
      /\ pc' \in [Requests \cup Cleaners -> Statements]
      /\ tx' \in [Requests -> TxRecords]
  BY <1>1, NoTxType DEF Go, DInv, TypeOK, TxRecords, Statements
<1>4. TypeOK'
  <2>1. PodcastFor(f) \in Podcasts
    BY <1>1, <1>2, PodcastForType DEF DInv, TypeOK
  <2>. QED
    BY <1>1, <1>2, <1>3, <2>1 DEF DInv, TypeOK, historyVars, TxRecords, Statements
<1>5. TablesCoherent' /\ HeldSelected'
  BY <1>1 DEF DInv, TablesCoherent, HeldSelected, historyVars
<1>6. EntriesLinked'
  BY <1>1, <1>2, NoneAssumption DEF DInv, TypeOK, EntriesLinked
<1>7. RequestInv(r)'
  BY <1>3, NoTxType DEF RequestInv, Named, Locked, Alone, RowsLocked, Inserted, Upserted, Writing
<1>8. ASSUME NEW q \in Requests \ {r} PROVE RequestInv(q)'
  BY <1>1, <1>3, NoTxType, OthersKeep
<1>. QED
  BY <1>4, <1>5, <1>6, <1>7, <1>8 DEF DInv

(* A search grows old, and never faster than its last fetch. *)
LEMMA AgeStep ==
    ASSUME DInv, NEW s \in Searches, Age(s)
    PROVE  DInv'
<1>. DEFINE row == SearchRow(search[s].query, search[s].age + 1)
<1>1. /\ search[s] # None /\ search[s].age < 2
      /\ search' = [search EXCEPT ![s] = row]
      /\ fetchAge' = [fetchAge EXCEPT ![s] = IF @ < 2 THEN @ + 1 ELSE @]
      /\ UNCHANGED <<joins, entry, feed, link, podcastOf, txVars, requests, fetched>>
  BY DEF Age
<1>2. search[s] \in [query : Queries, age : 0..2] /\ fetchAge[s] \in 0..2
  BY <1>1 DEF DInv, TypeOK
<1>3. /\ row \in [query : Queries, age : 0..2] /\ row # None
      /\ row.query = search[s].query /\ row.age = search[s].age + 1
  <2>1. search[s].query \in Queries /\ search[s].age + 1 \in 0..2
    BY <1>1, <1>2
  <2>. QED
    BY <2>1, SearchRowFacts
<1>. HIDE DEF row
<1>4. /\ search'[s] = row
      /\ \A d \in Searches \ {s} : search'[d] = search[d] /\ fetchAge'[d] = fetchAge[d]
      /\ search' \in [Searches -> [query : Queries, age : 0..2] \cup {None}]
  BY <1>1, <1>3 DEF DInv, TypeOK
<1>5. /\ fetchAge' \in [Searches -> 0..2]
      /\ fetchAge[s] <= search[s].age => fetchAge'[s] <= row.age
  BY <1>1, <1>2, <1>3 DEF DInv, TypeOK
<1>6. TypeOK'
  BY <1>1, <1>4, <1>5 DEF DInv, TypeOK, txVars
<1>7. TablesCoherent'
  BY <1>1, <1>3, <1>4, <1>5 DEF DInv, TablesCoherent, txVars
<1>8. HeldSelected' /\ EntriesLinked'
  BY <1>1 DEF DInv, HeldSelected, EntriesLinked, txVars
<1>9. ASSUME NEW q \in Requests PROVE RequestInv(q)'
  <2>1. RequestInv(q) /\ pc' = pc /\ tx' = tx /\ batch' = batch /\ entry' = entry
    BY <1>1 DEF DInv, txVars
  <2>2. \A d \in Searches : search'[d] = None <=> search[d] = None
    BY <1>1, <1>3, <1>4
  <2>3. \A d \in Searches : search[d] # None => search'[d].query = search[d].query
    BY <1>1, <1>3, <1>4
  <2>4. Named(q)'
    BY <2>1, <2>2, <2>3 DEF RequestInv, Named
  <2>5. Alone(q)'
    BY <2>1, <2>2 DEF RequestInv, Named, Alone
  <2>6. Locked(q)' /\ RowsLocked(q)'
    BY <2>1 DEF RequestInv, Locked, RowsLocked, Inserted, Upserted
  <2>. QED
    BY <2>4, <2>5, <2>6 DEF RequestInv
<1>. QED
  BY <1>6, <1>7, <1>8, <1>9 DEF DInv

-----------------------------------------------------------------------------
(***************************************************************************)
(* Steps of the cleaner.                                                   *)
(***************************************************************************)

(* Such a step leaves the requests' own state alone.                       *)
LEMMA CleanerTypes ==
    ASSUME DInv, NEW c \in Cleaners, NEW b, NEW to \in Statements,
           b \in [todo : SUBSET (Searches \cup Entries), held : SUBSET (Searches \cup Entries)],
           b.held \subseteq b.todo,
           Go(c, to), batch' = [batch EXCEPT ![c] = b]
    PROVE  /\ pc' \in [Requests \cup Cleaners -> Statements]
           /\ \A r \in Requests : pc'[r] = pc[r]
           /\ batch' \in [Cleaners -> [todo : SUBSET (Searches \cup Entries),
                                        held : SUBSET (Searches \cup Entries)]]
           /\ batch'[c] = b
           /\ \A d \in Cleaners \ {c} : batch'[d] = batch[d]
           /\ HeldSelected'
BY ActorsAssumption DEF DInv, TypeOK, Go, HeldSelected, Statements

(* A batch that begins or ends, or takes a lock that no request has.       *)
LEMMA BatchStep ==
    ASSUME DInv, NEW c \in Cleaners, NEW b, NEW to \in Statements,
           b \in [todo : SUBSET (Searches \cup Entries), held : SUBSET (Searches \cup Entries)],
           b.held \subseteq b.todo,
           Go(c, to), batch' = [batch EXCEPT ![c] = b],
           UNCHANGED <<dbVars, tx, requests, historyVars>>,
           \A n \in b.held \ batch[c].held :
               IF c = "directory_search" THEN SearchHolders(n) \subseteq {c}
               ELSE EntryHolders(n) \subseteq {c}
    PROVE  DInv'
<1>1. /\ pc' \in [Requests \cup Cleaners -> Statements]
      /\ \A r \in Requests : pc'[r] = pc[r]
      /\ batch' \in [Cleaners -> [todo : SUBSET (Searches \cup Entries),
                                   held : SUBSET (Searches \cup Entries)]]
      /\ batch'[c] = b
      /\ \A d \in Cleaners \ {c} : batch'[d] = batch[d]
      /\ HeldSelected'
  BY CleanerTypes
<1>2. TypeOK'
  BY <1>1 DEF DInv, TypeOK, dbVars, historyVars, Statements
<1>3. TablesCoherent' /\ EntriesLinked'
  BY DEF DInv, TablesCoherent, EntriesLinked, dbVars, historyVars
<1>4. ASSUME NEW r \in Requests PROVE RequestInv(r)'
  <2>1. RequestInv(r) /\ tx' = tx /\ search' = search /\ entry' = entry /\ pc'[r] = pc[r]
    BY <1>1 DEF DInv, dbVars
  <2>2. r \notin Cleaners
    BY ActorsAssumption
  <2>3. Named(r)'
    BY <2>1 DEF RequestInv, Named
  <2>4. Alone(r)'
    BY <2>1 DEF RequestInv, Alone
  <2>5. Locked(r)'
    <3>1. CASE c = "directory_search"
      <4>1. \A n \in b.held \ batch[c].held : ~(pc[r] \in Writing /\ tx[r].search = n)
        BY <2>2, <3>1 DEF SearchHolders
      <4>. QED
        BY <1>1, <2>1, <3>1, <4>1 DEF RequestInv, Locked
    <3>2. CASE c # "directory_search"
      BY <1>1, <2>1, <3>2 DEF RequestInv, Locked, Cleaners
    <3>. QED
      BY <3>1, <3>2
  <2>6. RowsLocked(r)'
    <3>1. CASE c = "directory_podcast"
      <4>1. \A n \in b.held \ batch[c].held : n \notin Upserted(r)
        BY <2>2, <3>1 DEF EntryHolders
      <4>. QED
        BY <1>1, <2>1, <3>1, <4>1 DEF RequestInv, RowsLocked, Inserted, Upserted
    <3>2. CASE c # "directory_podcast"
      BY <1>1, <2>1, <3>2 DEF RequestInv, RowsLocked, Inserted, Upserted, Cleaners
    <3>. QED
      BY <3>1, <3>2
  <2>. QED
    BY <2>3, <2>4, <2>5, <2>6 DEF RequestInv
<1>. QED
  BY <1>1, <1>2, <1>3, <1>4 DEF DInv

LEMMA NoBatchType ==
    /\ NoBatch \in [todo : SUBSET (Searches \cup Entries), held : SUBSET (Searches \cup Entries)]
    /\ NoBatch.held = {} /\ NoBatch.held \subseteq NoBatch.todo
BY DEF NoBatch

LEMMA SelectBatchStep ==
    ASSUME DInv, NEW c \in Cleaners, SelectBatch(c)
    PROVE  DInv'
<1>. DEFINE rows == IF c = "directory_search" THEN Expired ELSE Dangling
            b == [todo |-> rows, held |-> {}]
<1>1. /\ batch' = [batch EXCEPT ![c] = b] /\ Go(c, "delete")
      /\ UNCHANGED <<dbVars, tx, requests, historyVars>>
  BY DEF SelectBatch
<1>2. rows \in SUBSET (Searches \cup Entries)
  BY DEF Expired, Dangling
<1>3. /\ b \in [todo : SUBSET (Searches \cup Entries), held : SUBSET (Searches \cup Entries)]
      /\ b.held = {} /\ b.held \subseteq b.todo /\ "delete" \in Statements
  BY <1>2 DEF Statements
<1>. HIDE DEF b
<1>. QED
  BY <1>1, <1>3, BatchStep

LEMMA LockRowStep ==
    ASSUME DInv, NEW c \in Cleaners, LockRow(c)
    PROVE  DInv'
<1>. DEFINE n == NextEntry(c)
            b == [batch[c] EXCEPT !.held = @ \cup {n}]
<1>1. /\ pc[c] = "delete" /\ batch[c].todo # batch[c].held /\ WaitsFor(c) = {}
      /\ batch' = [batch EXCEPT ![c] = b]
      /\ UNCHANGED <<dbVars, pc, tx, requests, historyVars>>
  BY DEF LockRow, DInv, TypeOK
<1>2. /\ batch[c] \in [todo : SUBSET (Searches \cup Entries), held : SUBSET (Searches \cup Entries)]
      /\ batch[c].held \subseteq batch[c].todo
  BY DEF DInv, TypeOK, HeldSelected
<1>3. n \in batch[c].todo \ batch[c].held
  <2>1. batch[c].todo \ batch[c].held # {} /\ batch[c].todo \ batch[c].held \in SUBSET Nat
    BY <1>1, <1>2, IdsAssumption
  <2>. QED
    BY <2>1, SmallestIsOne DEF NextEntry
<1>4. IF c = "directory_search" THEN SearchHolders(n) \subseteq {c}
      ELSE EntryHolders(n) \subseteq {c}
  BY <1>1 DEF WaitsFor, Holders
<1>5. Go(c, "delete") /\ "delete" \in Statements
  BY <1>1 DEF Go, DInv, TypeOK, Statements
<1>. HIDE DEF n
<1>6. /\ b \in [todo : SUBSET (Searches \cup Entries), held : SUBSET (Searches \cup Entries)]
      /\ b.held = batch[c].held \cup {n} /\ b.held \subseteq b.todo
  BY <1>2, <1>3
<1>. HIDE DEF b
<1>7. \A m \in b.held \ batch[c].held : m = n
  BY <1>6
<1>. QED
  BY <1>1, <1>4, <1>5, <1>6, <1>7, BatchStep

LEMMA BatchFailsStep ==
    ASSUME DInv, NEW c \in Cleaners, BatchFails(c)
    PROVE  DInv'
<1>1. /\ Go(c, "idle") /\ batch' = [batch EXCEPT ![c] = NoBatch]
      /\ UNCHANGED <<dbVars, tx, requests, historyVars>> /\ "idle" \in Statements
  BY DEF BatchFails, EndBatch, Statements
<1>. QED
  BY <1>1, NoBatchType, BatchStep

(* The searches deleted are those the batch has locked, and no request is  *)
(* writing one of them; one that waits for it finds it gone.               *)
LEMMA DeleteSearchesStep ==
    ASSUME DInv, DeleteSearches
    PROVE  DInv'
<1>. DEFINE c == "directory_search"
            rows == batch[c].held
<1>1. /\ search' = [s \in Searches |-> IF s \in rows THEN None ELSE search[s]]
      /\ joins' = [s \in Searches |-> IF s \in rows THEN {} ELSE joins[s]]
      /\ fetched' = [s \in Searches |-> IF s \in rows THEN {} ELSE fetched[s]]
      /\ Go(c, "idle") /\ batch' = [batch EXCEPT ![c] = NoBatch]
      /\ UNCHANGED <<entry, feed, link, podcastOf, tx, requests, fetchAge>>
      /\ c \in Cleaners /\ "idle" \in Statements
  BY DEF DeleteSearches, EndBatch, Cleaners, Statements
<1>2. /\ pc' \in [Requests \cup Cleaners -> Statements]
      /\ \A r \in Requests : pc'[r] = pc[r]
      /\ batch' \in [Cleaners -> [todo : SUBSET (Searches \cup Entries),
                                   held : SUBSET (Searches \cup Entries)]]
      /\ batch'[c] = NoBatch
      /\ \A d \in Cleaners \ {c} : batch'[d] = batch[d]
      /\ HeldSelected'
  BY <1>1, NoBatchType, CleanerTypes
<1>3. TypeOK'
  BY <1>1, <1>2 DEF DInv, TypeOK, Statements
<1>4. TablesCoherent'
  <2>1. TablesCoherent /\ search \in [Searches -> [query : Queries, age : 0..2] \cup {None}]
    BY DEF DInv, TypeOK
  <2>. HIDE DEF rows
  <2>. QED
    BY <1>1, <2>1 DEF TablesCoherent
<1>5. ASSUME NEW r \in Requests PROVE RequestInv(r)'
  <2>1. RequestInv(r) /\ tx' = tx /\ entry' = entry /\ pc'[r] = pc[r]
    BY <1>1, <1>2 DEF DInv
  <2>2. Named(r)'
    BY <1>1, <2>1 DEF RequestInv, Named
  <2>3. Alone(r)'
    BY <1>1, <2>1 DEF RequestInv, Named, Locked, Alone
  <2>4. Locked(r)'
    BY <1>2, NoBatchType DEF Locked
  <2>5. RowsLocked(r)'
    BY <1>2, <2>1 DEF RequestInv, RowsLocked, Inserted, Upserted, Cleaners
  <2>. QED
    BY <2>2, <2>3, <2>4, <2>5 DEF RequestInv
<1>6. EntriesLinked'
  BY <1>1 DEF DInv, EntriesLinked
<1>. QED
  BY <1>2, <1>3, <1>4, <1>5, <1>6 DEF DInv

(* The entries deleted are shown by no search, and no request has them.    *)
LEMMA DeleteEntriesStep ==
    ASSUME DInv, DeleteEntries
    PROVE  DInv'
<1>. DEFINE c == "directory_podcast"
            rows == batch[c].held
<1>1. /\ ~Restricted(rows)
      /\ entry' = [e \in Entries |-> IF e \in rows THEN None ELSE entry[e]]
      /\ feed' = [e \in Entries |-> IF e \in rows THEN None ELSE feed[e]]
      /\ link' = [e \in Entries |-> IF e \in rows THEN 0 ELSE link[e]]
      /\ Go(c, "idle") /\ batch' = [batch EXCEPT ![c] = NoBatch]
      /\ UNCHANGED <<search, joins, podcastOf, tx, requests, historyVars>>
      /\ c \in Cleaners /\ "idle" \in Statements
  BY DEF DeleteEntries, EndBatch, Cleaners, Statements
<1>2. /\ pc' \in [Requests \cup Cleaners -> Statements]
      /\ \A r \in Requests : pc'[r] = pc[r]
      /\ batch' \in [Cleaners -> [todo : SUBSET (Searches \cup Entries),
                                   held : SUBSET (Searches \cup Entries)]]
      /\ batch'[c] = NoBatch
      /\ \A d \in Cleaners \ {c} : batch'[d] = batch[d]
      /\ HeldSelected'
  BY <1>1, NoBatchType, CleanerTypes
<1>3. TypeOK'
  BY <1>1, <1>2 DEF DInv, TypeOK, historyVars, Statements
<1>4. TablesCoherent'
  <2>1. TablesCoherent /\ \A s \in Searches : joins[s] \subseteq Entries
    BY DEF DInv, TypeOK
  <2>2. \A s \in Searches : joins[s] \cap rows = {}
    BY <1>1 DEF Restricted, Joined
  <2>3. \A s \in Searches : \A e \in joins[s] : entry'[e] = entry[e]
    BY <1>1, <2>1, <2>2
  <2>. QED
    BY <1>1, <2>1, <2>3 DEF TablesCoherent, historyVars
<1>5. ASSUME NEW r \in Requests PROVE RequestInv(r)'
  <2>1. RequestInv(r) /\ tx' = tx /\ search' = search /\ pc'[r] = pc[r] /\ Upserted(r) \subseteq Entries
    BY <1>1, <1>2 DEF DInv, TypeOK, Upserted
  <2>2. Named(r)' /\ Alone(r)'
    BY <2>1 DEF RequestInv, Named, Alone
  <2>3. Locked(r)'
    BY <1>2, <2>1 DEF RequestInv, Locked, Cleaners
  <2>4. RowsLocked(r)'
    <3>1. \A e \in Upserted(r) : entry'[e] = entry[e]
      BY <1>1, <2>1 DEF RequestInv, RowsLocked
    <3>. QED
      BY <1>2, <2>1, <3>1, NoBatchType DEF RequestInv, RowsLocked, Inserted, Upserted
  <2>. QED
    BY <2>2, <2>3, <2>4 DEF RequestInv
<1>6. EntriesLinked'
  BY <1>1 DEF DInv, EntriesLinked
<1>. QED
  BY <1>2, <1>3, <1>4, <1>5, <1>6 DEF DInv

-----------------------------------------------------------------------------
(***************************************************************************)
(* Every step of the specification.                                        *)
(***************************************************************************)
LEMMA StatementStep ==
    ASSUME DInv, NEW r \in Requests, Statement(r) \/ StatementFails(r)
    PROVE  DInv'
<1>1. CASE SelectDirectorySearch(r)
  BY <1>1, SelectDirectorySearchStep
<1>2. CASE SelectCachedResults(r)
  BY <1>2, SelectCachedResultsStep
<1>3. CASE UpdateDirectorySearch(r)
  BY <1>3, UpdateDirectorySearchStep
<1>4. CASE InsertDirectorySearch(r)
  BY <1>4, InsertDirectorySearchStep
<1>5. CASE FetchResults(r)
  BY <1>5, FetchResultsStep
<1>6. CASE UpsertRow(r)
  BY <1>6, UpsertRowStep
<1>7. CASE CommitSearch(r)
  BY <1>7, CommitSearchStep
<1>8. CASE SaveDirPodcast(r)
  BY <1>8, SaveDirPodcastStep
<1>9. CASE \/ SearchGone(r) \/ RowRepeated(r) \/ LoadResults(r)
           \/ DirPodcastGone(r) \/ DeadlockVictim(r) \/ StatementFails(r)
  <2>1. Fail(r)
    BY <1>9 DEF SearchGone, RowRepeated, LoadResults, DirPodcastGone, DeadlockVictim, StatementFails
  <2>. QED
    BY <2>1, FailStep
<1>. QED
  BY <1>1, <1>2, <1>3, <1>4, <1>5, <1>6, <1>7, <1>8, <1>9 DEF Statement

LEMMA NextDInv ==
    ASSUME DInv, [Next]_vars
    PROVE  DInv'
<1>1. ASSUME NEW s \in Searches, Age(s) PROVE DInv'
  BY <1>1, AgeStep
<1>2. ASSUME NEW r \in Requests,
             \/ \E query \in Queries : BeginSearch(r, query)
             \/ \E e \in Entries : BeginExpand(r, e)
      PROVE  DInv'
  BY <1>2, BeginStep
<1>3. ASSUME NEW r \in Requests, Statement(r) \/ StatementFails(r) PROVE DInv'
  BY <1>3, StatementStep
<1>4. ASSUME NEW c \in Cleaners, SelectBatch(c) \/ LockRow(c) \/ BatchFails(c) PROVE DInv'
  BY <1>4, SelectBatchStep, LockRowStep, BatchFailsStep
<1>5. ASSUME DeleteSearches \/ DeleteEntries PROVE DInv'
  BY <1>5, DeleteSearchesStep, DeleteEntriesStep
<1>6. CASE UNCHANGED vars
  <2>1. /\ dbVars' = dbVars /\ pc' = pc /\ tx' = tx /\ batch' = batch
        /\ requests' = requests /\ historyVars' = historyVars
    BY <1>6 DEF vars, txVars
  <2>2. TypeOK' /\ TablesCoherent' /\ EntriesLinked' /\ HeldSelected'
    BY <2>1 DEF DInv, TypeOK, TablesCoherent, EntriesLinked, HeldSelected, dbVars, historyVars
  <2>3. \A r \in Requests : RequestInv(r)'
    BY <2>1 DEF DInv, RequestInv, Named, Locked, Alone, RowsLocked, Inserted, Upserted, dbVars
  <2>. QED
    BY <2>2, <2>3 DEF DInv
<1>. QED
  BY <1>1, <1>2, <1>3, <1>4, <1>5, <1>6 DEF Next, Clean

(* DInv holds in every state, whatever requests, cleaner and age do.       *)
THEOREM DirectoryInvariant == Spec => []DInv
BY InitDInv, NextDInv, PTL DEF Spec

(* The types of the tables, the transactions and the batches. *)
THEOREM TypeCorrect == Spec => []TypeOK
<1>1. DInv => TypeOK
  BY DEF DInv
<1>. QED
  BY <1>1, DirectoryInvariant, PTL

(* A search shows exactly what its last committed fetch returned, each     *)
(* result still a row, and its age does not hide that fetch's: refreshes,  *)
(* first searches and batches of the cleaner may race and fail in any way. *)
(* A page about to be filled answers its own query, or is empty.           *)
THEOREM CacheIsCoherent == Spec => []CacheCoherent
<1>1. ASSUME DInv PROVE CacheCoherent
  <2>1. TablesCoherent
    BY <1>1 DEF DInv
  <2>2. ASSUME NEW r \in Requests, pc[r] = "load"
        PROVE  /\ PageOf(r) = fetched[tx[r].search]
               /\ PageOf(r) # {} => search[tx[r].search].query = tx[r].query
    BY <1>1, <2>1, <2>2 DEF DInv, RequestInv, Named, TablesCoherent, PageOf
  <2>. QED
    BY <2>1, <2>2 DEF TablesCoherent, CacheCoherent
<1>. QED
  BY <1>1, DirectoryInvariant, PTL

-----------------------------------------------------------------------------
(***************************************************************************)
(* The links of entries.                                                   *)
(***************************************************************************)
Pending(r) ==
    /\ \A f \in Feeds : tx[r].podcasts[f] # 0 => podcastOf[f] = tx[r].podcasts[f]
    /\ \A e \in Inserted(r) : entry[e] = None /\ \A q \in Requests \ {r} : e \notin Inserted(q)

LInv == DInv /\ \A r \in Requests : Pending(r)

LEMMA InitLInv == Init => LInv
<1>. SUFFICES ASSUME Init PROVE LInv
  OBVIOUS
<1>1. \A r \in Requests : Pending(r)
  BY NoTxType DEF Init, Pending, Inserted
<1>. QED
  BY <1>1, InitDInv DEF LInv

(* A request's step may add podcasts, and rows for what it has inserted.   *)
LEMMA PendingStep ==
    ASSUME LInv, NEW r \in Requests,
           \A q \in Requests \ {r} : tx'[q] = tx[q],
           \A f \in Feeds : podcastOf[f] # 0 => podcastOf'[f] = podcastOf[f],
           \A e \in Entries : entry[e] = None /\ e \notin Inserted(r) => entry'[e] = None,
           Pending(r)'
    PROVE  \A q \in Requests : Pending(q)'
<1>. SUFFICES ASSUME NEW q \in Requests \ {r} PROVE Pending(q)'
  OBVIOUS
<1>1. /\ Pending(q) /\ tx'[q] = tx[q]
      /\ \A d \in Requests \ {r} : Inserted(d)' = Inserted(d)
      /\ Inserted(q) \subseteq Entries
  <2>1. Pending(q) /\ tx[q] \in TxRecords
    BY DEF LInv, DInv, TypeOK, TxRecords
  <2>2. Inserted(q) \subseteq Entries
    BY <2>1 DEF TxRecords, Inserted
  <2>3. \A d \in Requests \ {r} : Inserted(d)' = Inserted(d)
    BY DEF Inserted
  <2>. QED
    BY <2>1, <2>2, <2>3
<1>2. ASSUME NEW f \in Feeds, tx'[q].podcasts[f] # 0 PROVE podcastOf'[f] = tx'[q].podcasts[f]
  BY <1>1, <1>2 DEF Pending
<1>3. ASSUME NEW e \in Inserted(q)'
      PROVE  entry'[e] = None /\ \A d \in Requests \ {q} : e \notin Inserted(d)'
  <2>1. e \in Inserted(q) /\ e \in Entries /\ e \notin Inserted(r) /\ e \notin Inserted(r)'
    BY <1>1, <1>3 DEF Pending
  <2>. QED
    BY <1>1, <2>1 DEF Pending
<1>. QED
  BY <1>2, <1>3 DEF Pending

(* One that writes no table, and inserts no entry.                         *)
LEMMA PendingLocal ==
    ASSUME LInv, NEW r \in Requests, NEW t \in TxRecords,
           tx' = [tx EXCEPT ![r] = t], UNCHANGED <<entry, podcastOf>>,
           t.inserted = tx[r].inserted \/ \A v \in Vendors : t.inserted[v] = 0,
           \/ t.podcasts \in {tx[r].podcasts, podcastOf}
           \/ \A f \in Feeds : t.podcasts[f] = 0
    PROVE  \A q \in Requests : Pending(q)'
<1>1. tx'[r] = t /\ \A q \in Requests \ {r} : tx'[q] = tx[q]
  BY DEF LInv, DInv, TypeOK
<1>2. Pending(r)
  BY DEF LInv
<1>3. Inserted(r)' \subseteq Inserted(r) /\ \A q \in Requests \ {r} : Inserted(q)' = Inserted(q)
  BY <1>1 DEF Inserted
<1>4. \A e \in Inserted(r)' : entry'[e] = None /\ \A q \in Requests \ {r} : e \notin Inserted(q)'
  BY <1>2, <1>3 DEF Pending
<1>5. \A f \in Feeds : tx'[r].podcasts[f] # 0 => podcastOf'[f] = tx'[r].podcasts[f]
  BY <1>1, <1>2 DEF Pending
<1>6. Pending(r)'
  BY <1>4, <1>5 DEF Pending
<1>. QED
  BY <1>1, <1>6, PendingStep

LEMMA PendingOnFail ==
    ASSUME LInv, NEW r \in Requests, Fail(r)
    PROVE  \A q \in Requests : Pending(q)'
BY NoTxType, PendingLocal DEF Fail, End, dbVars

LEMMA PendingOnUpsert ==
    ASSUME LInv, NEW r \in Requests, UpsertRow(r)
    PROVE  \A q \in Requests : Pending(q)'
<1>. DEFINE v == Head(tx[r].todo).vendor_id
            old == EntriesOf(v)
            e == Smallest(IF old # {} THEN old ELSE FreshEntries)
            i == [tx[r].inserted EXCEPT ![v] = IF old # {} THEN @ ELSE e]
<1>1. tx[r] \in TxRecords /\ Pending(r)
  BY DEF LInv, DInv, TypeOK, TxRecords
<1>2. /\ old \cup FreshEntries # {} /\ UNCHANGED dbVars
      /\ tx'[r].inserted = i /\ tx'[r].podcasts = tx[r].podcasts
      /\ \A q \in Requests \ {r} : tx'[q] = tx[q]
  BY <1>1 DEF UpsertRow, LInv, DInv, TypeOK, TxRecords
<1>3. old = {} => e \in FreshEntries
  <2>1. FreshEntries \in SUBSET Nat
    BY IdsAssumption DEF FreshEntries
  <2>2. old = {} => FreshEntries # {} /\ e = Smallest(FreshEntries)
    BY <1>2
  <2>. HIDE DEF old, e
  <2>. QED
    BY <2>1, <2>2, SmallestIsOne
<1>4. \A w \in Vendors : i[w] = tx[r].inserted[w] \/ (old = {} /\ i[w] = e)
  BY <1>1 DEF TxRecords
<1>. HIDE DEF i, e, old
<1>5. \A d \in Inserted(r)' : d \in Inserted(r) \/ d \in FreshEntries
  BY <1>2, <1>3, <1>4 DEF Inserted
<1>6. \A q \in Requests \ {r} : Inserted(q)' = Inserted(q)
  BY <1>2 DEF Inserted
<1>7. \A d \in FreshEntries : entry[d] = None /\ \A q \in Requests : d \notin Inserted(q)
  BY DEF FreshEntries
<1>8. Pending(r)'
  BY <1>1, <1>2, <1>5, <1>6, <1>7 DEF Pending, dbVars
<1>. QED
  BY <1>2, <1>8, PendingStep DEF dbVars

LEMMA PendingOnCommit ==
    ASSUME LInv, NEW r \in Requests, CommitSearch(r)
    PROVE  \A q \in Requests : Pending(q)'
<1>1. /\ tx' = [tx EXCEPT ![r] = [NewTx(tx[r].query, 0, None) EXCEPT !.search = tx[r].search]]
      /\ podcastOf' = podcastOf
      /\ \A e \in Entries : e \notin Inserted(r) => entry'[e] = entry[e]
  BY DEF CommitSearch, EndSearch
<1>2. /\ \A v \in Vendors : tx'[r].inserted[v] = 0
      /\ \A f \in Feeds : tx'[r].podcasts[f] = 0
      /\ \A q \in Requests \ {r} : tx'[q] = tx[q]
  BY <1>1 DEF NewTx, LInv, DInv, TypeOK
<1>3. Pending(r)'
  BY <1>2 DEF Pending, Inserted
<1>. QED
  BY <1>1, <1>2, <1>3, PendingStep

LEMMA PendingOnSave ==
    ASSUME LInv, NEW r \in Requests, SaveDirPodcast(r)
    PROVE  \A q \in Requests : Pending(q)'
<1>1. tx' = [tx EXCEPT ![r] = NoTx] /\ entry' = entry
  BY DEF SaveDirPodcast, End
<1>2. tx'[r] = NoTx /\ \A q \in Requests \ {r} : tx'[q] = tx[q]
  BY <1>1 DEF LInv, DInv, TypeOK
<1>3. Pending(r)'
  BY <1>2, NoTxType DEF Pending, Inserted
<1>4. \A f \in Feeds : podcastOf[f] # 0 => podcastOf'[f] = podcastOf[f]
  BY DEF SaveDirPodcast, PodcastFor, LInv, DInv, TypeOK
<1>. QED
  BY <1>1, <1>2, <1>3, <1>4, PendingStep

LEMMA PendingOnStatement ==
    ASSUME LInv, NEW r \in Requests,
           \/ Statement(r) \/ StatementFails(r)
           \/ \E query \in Queries : BeginSearch(r, query)
           \/ \E e \in Entries : BeginExpand(r, e)
    PROVE  \A q \in Requests : Pending(q)'
<1>1. tx[r] \in TxRecords /\ podcastOf \in [Feeds -> Podcasts \cup {0}]
  BY DEF LInv, DInv, TypeOK, TxRecords
<1>2. CASE \/ SearchGone(r) \/ RowRepeated(r) \/ LoadResults(r)
           \/ DirPodcastGone(r) \/ DeadlockVictim(r) \/ StatementFails(r)
  <2>1. Fail(r)
    BY <1>2 DEF SearchGone, RowRepeated, LoadResults, DirPodcastGone, DeadlockVictim, StatementFails
  <2>. QED
    BY <2>1, PendingOnFail
<1>3. CASE UpsertRow(r) \/ CommitSearch(r) \/ SaveDirPodcast(r)
  BY <1>3, PendingOnUpsert, PendingOnCommit, PendingOnSave
<1>4. CASE UpdateDirectorySearch(r)
  <2>1. tx' = [tx EXCEPT ![r] = tx[r]] /\ UNCHANGED <<entry, podcastOf>>
    BY <1>4 DEF UpdateDirectorySearch, LInv, DInv, TypeOK, dbVars
  <2>. QED
    BY <1>1, <2>1, PendingLocal
<1>5. CASE SelectDirectorySearch(r) \/ InsertDirectorySearch(r)
  <2>1. PICK s \in Searches : /\ tx' = [tx EXCEPT ![r] = [tx[r] EXCEPT !.search = s]]
                              /\ UNCHANGED <<entry, podcastOf>>
    <3>1. CASE SelectDirectorySearch(r)
      BY <3>1 DEF SelectDirectorySearch, SearchesOf, dbVars
    <3>2. CASE InsertDirectorySearch(r)
      <4>1. FreshSearches \in SUBSET Nat /\ FreshSearches \subseteq Searches /\ FreshSearches # {}
        BY <3>2, IdsAssumption DEF FreshSearches, InsertDirectorySearch
      <4>2. Smallest(FreshSearches) \in Searches
        BY <4>1, SmallestIsOne
      <4>. QED
        BY <3>2, <4>2 DEF InsertDirectorySearch, dbVars
    <3>. QED
      BY <1>5, <3>1, <3>2
  <2>. DEFINE t == [tx[r] EXCEPT !.search = s]
  <2>2. t \in TxRecords /\ t.inserted = tx[r].inserted /\ t.podcasts = tx[r].podcasts
    BY <1>1 DEF TxRecords
  <2>3. tx' = [tx EXCEPT ![r] = t]
    BY <2>1
  <2>. HIDE DEF t
  <2>. QED
    BY <2>1, <2>2, <2>3, PendingLocal
<1>6. CASE FetchResults(r)
  <2>1. PICK results \in Results :
            tx' = [tx EXCEPT ![r] = [tx[r] EXCEPT !.todo = results, !.podcasts = podcastOf]]
    BY <1>6 DEF FetchResults
  <2>. DEFINE t == [tx[r] EXCEPT !.todo = results, !.podcasts = podcastOf]
  <2>2. t \in TxRecords /\ t.inserted = tx[r].inserted /\ t.podcasts = podcastOf
    BY <1>1, ResultsAssumption DEF TxRecords
  <2>3. tx' = [tx EXCEPT ![r] = t] /\ UNCHANGED <<entry, podcastOf>>
    BY <1>6, <2>1 DEF FetchResults, dbVars
  <2>. HIDE DEF t
  <2>. QED
    BY <2>2, <2>3, PendingLocal
<1>7. CASE \/ SelectCachedResults(r) \/ \E query \in Queries : BeginSearch(r, query)
           \/ \E e \in Entries : BeginExpand(r, e)
  <2>1. PICK q \in Queries \cup {None}, e \in Entries \cup {0}, f \in Feeds \cup {None},
             s \in Searches \cup {0} :
             tx' = [tx EXCEPT ![r] = [NewTx(q, e, f) EXCEPT !.search = s]]
    <3>1. CASE SelectCachedResults(r)
      <4>1. PICK s \in Searches : EndSearch(r, s)
        BY <3>1 DEF SelectCachedResults, SearchesOf
      <4>2. tx' = [tx EXCEPT ![r] = [NewTx(tx[r].query, 0, None) EXCEPT !.search = s]]
        BY <4>1 DEF EndSearch
      <4>3. tx[r].query \in Queries \cup {None}
        BY <1>1 DEF TxRecords
      <4>. QED
        BY <4>2, <4>3
    <3>2. ASSUME NEW q \in Queries, BeginSearch(r, q)
          PROVE  tx' = [tx EXCEPT ![r] = [NewTx(q, 0, None) EXCEPT !.search = 0]]
      BY <3>2 DEF BeginSearch, Begin, NewTx
    <3>3. ASSUME NEW e \in Entries, BeginExpand(r, e)
          PROVE  tx' = [tx EXCEPT ![r] = [NewTx(None, e, feed[e]) EXCEPT !.search = 0]]
      BY <3>3 DEF BeginExpand, Begin, NewTx
    <3>4. \A e \in Entries : feed[e] \in Feeds \cup {None}
      BY DEF LInv, DInv, TypeOK
    <3>5. CASE \E q \in Queries : BeginSearch(r, q)
      BY <3>2, <3>5
    <3>6. CASE \E e \in Entries : BeginExpand(r, e)
      <4>1. PICK e \in Entries : tx' = [tx EXCEPT ![r] = [NewTx(None, e, feed[e]) EXCEPT !.search = 0]]
        BY <3>3, <3>6
      <4>2. feed[e] \in Feeds \cup {None}
        BY <3>4
      <4>. QED
        BY <4>1, <4>2
    <3>. QED
      BY <1>7, <3>1, <3>5, <3>6
  <2>. DEFINE t == Ended(q, e, f, s)
  <2>2. /\ t \in TxRecords
        /\ \A v \in Vendors : t.inserted[v] = 0
        /\ \A g \in Feeds : t.podcasts[g] = 0
    <3>1. t \in TxRecords
      BY <2>1, EndedType
    <3>2. t.inserted = [v \in Vendors |-> 0] /\ t.podcasts = [g \in Feeds |-> 0]
      BY EndedFields
    <3>. QED
      BY <3>1, <3>2
  <2>3. tx' = [tx EXCEPT ![r] = t] /\ UNCHANGED <<entry, podcastOf>>
    BY <1>7, <2>1 DEF Ended, SelectCachedResults, BeginSearch, BeginExpand, Begin, dbVars
  <2>. HIDE DEF t
  <2>. QED
    BY <2>2, <2>3, PendingLocal
<1>. QED
  BY <1>2, <1>3, <1>4, <1>5, <1>6, <1>7 DEF Statement

(* Neither the cleaner nor age touches a request; the former takes rows    *)
(* away only.                                                              *)
LEMMA PendingOnOthers ==
    ASSUME LInv, UNCHANGED <<tx, podcastOf>>, \A e \in Entries : entry[e] = None => entry'[e] = None
    PROVE  \A r \in Requests : Pending(r)'
<1>. SUFFICES ASSUME NEW r \in Requests PROVE Pending(r)'
  OBVIOUS
<1>1. /\ Pending(r) /\ Inserted(r) \subseteq Entries
      /\ \A q \in Requests : Inserted(q)' = Inserted(q)
  BY DEF LInv, DInv, TypeOK, Inserted
<1>. QED
  BY <1>1 DEF Pending

LEMMA NextLInv ==
    ASSUME LInv, [Next]_vars
    PROVE  LInv'
<1>1. DInv'
  BY NextDInv DEF LInv
<1>2. ASSUME NEW r \in Requests,
             \/ Statement(r) \/ StatementFails(r)
             \/ \E query \in Queries : BeginSearch(r, query)
             \/ \E e \in Entries : BeginExpand(r, e)
      PROVE  \A q \in Requests : Pending(q)'
  BY <1>2, PendingOnStatement
<1>3. ASSUME \/ \E s \in Searches : Age(s)
             \/ \E c \in Cleaners : SelectBatch(c) \/ LockRow(c) \/ BatchFails(c)
             \/ DeleteSearches
             \/ UNCHANGED vars
      PROVE  \A q \in Requests : Pending(q)'
  <2>1. UNCHANGED <<tx, podcastOf, entry>>
    BY <1>3 DEF Age, SelectBatch, LockRow, BatchFails, DeleteSearches, vars, txVars, dbVars
  <2>. QED
    BY <2>1, PendingOnOthers
<1>4. ASSUME DeleteEntries PROVE \A q \in Requests : Pending(q)'
  <2>1. UNCHANGED <<tx, podcastOf>> /\ \A e \in Entries : entry[e] = None => entry'[e] = None
    BY <1>4 DEF DeleteEntries
  <2>. QED
    BY <2>1, PendingOnOthers
<1>. QED
  BY <1>1, <1>2, <1>3, <1>4 DEF LInv, Next, Clean

LEMMA LinksInvariant == Spec => []LInv
BY InitLInv, NextLInv, PTL DEF Spec

(* What a step may do to the link of an entry.                             *)
LEMMA LinkStep ==
    ASSUME LInv, [Next]_vars, NEW e \in Entries, link'[e] # link[e]
    PROVE  \/ link'[e] = 0 /\ e \in batch["directory_podcast"].held
           \/ /\ link'[e] # 0 /\ link'[e] = podcastOf'[feed'[e]]
              /\ link[e] # 0 => \E r \in Requests : pc[r] = "expand" /\ tx[r].dir_podcast = e
<1>1. ASSUME NEW r \in Requests, CommitSearch(r)
      PROVE  link'[e] # 0 /\ link'[e] = podcastOf'[feed'[e]] /\ link[e] = 0
  <2>1. Pending(r) /\ RequestInv(r) /\ EntriesLinked /\ tx[r] \in TxRecords
    BY DEF LInv, DInv, TypeOK, TxRecords
  <2>2. /\ podcastOf' = podcastOf /\ link' = LinkedAfter(r)
        /\ feed' = [d \in Entries |-> IF d \in Upserted(r) THEN tx[r].feeds[d] ELSE feed[d]]
    BY <1>1 DEF CommitSearch
  <2>3. e \in Inserted(r) /\ link'[e] = tx[r].podcasts[tx[r].feeds[e]]
    BY <2>2 DEF LinkedAfter
  <2>4. e \in Upserted(r) /\ link[e] = 0
    BY <2>1, <2>3 DEF RequestInv, RowsLocked, Pending, EntriesLinked
  <2>5. tx[r].feeds[e] \in Feeds /\ feed'[e] = tx[r].feeds[e]
    BY <2>1, <2>2, <2>4 DEF Upserted, TxRecords
  <2>. QED
    BY <2>1, <2>2, <2>3, <2>4, <2>5 DEF Pending
<1>2. ASSUME NEW r \in Requests, SaveDirPodcast(r)
      PROVE  /\ link'[e] # 0 /\ link'[e] = podcastOf'[feed'[e]]
             /\ pc[r] = "expand" /\ tx[r].dir_podcast = e
  <2>. DEFINE f == tx[r].feed_url
  <2>1. /\ pc[r] = "expand"
        /\ podcastOf[f] # 0 \/ FreshPodcasts # {}
        /\ feed' = [feed EXCEPT ![tx[r].dir_podcast] = f]
        /\ link' = [link EXCEPT ![tx[r].dir_podcast] = PodcastFor(f)]
        /\ podcastOf' = [podcastOf EXCEPT ![f] = PodcastFor(f)]
    BY <1>2 DEF SaveDirPodcast
  <2>2. f \in Feeds
    BY <2>1 DEF LInv, DInv, RequestInv, Named
  <2>. HIDE DEF f
  <2>3. /\ podcastOf \in [Feeds -> Podcasts \cup {0}]
        /\ feed \in [Entries -> Feeds \cup {None}] /\ link \in [Entries -> Podcasts \cup {0}]
    BY DEF LInv, DInv, TypeOK
  <2>4. tx[r].dir_podcast = e
    BY <2>1, <2>3
  <2>5. PodcastFor(f) \in Podcasts
    BY <2>1, <2>2, <2>3, PodcastForType
  <2>. QED
    BY <2>1, <2>2, <2>3, <2>4, <2>5, IdsAssumption
<1>3. ASSUME DeleteEntries
      PROVE  link'[e] = 0 /\ e \in batch["directory_podcast"].held
  BY <1>3 DEF DeleteEntries
<1>4. ASSUME NEW r \in Requests, Statement(r) \/ StatementFails(r),
             ~CommitSearch(r), ~SaveDirPodcast(r)
      PROVE  link' = link
  BY <1>4 DEF Statement, StatementFails, SelectDirectorySearch, SelectCachedResults,
              UpdateDirectorySearch, SearchGone, InsertDirectorySearch, FetchResults, UpsertRow,
              RowRepeated, LoadResults, DirPodcastGone, DeadlockVictim, Fail, dbVars
<1>5. ASSUME \/ \E s \in Searches : Age(s)
             \/ \E r \in Requests : \/ \E query \in Queries : BeginSearch(r, query)
                                    \/ \E d \in Entries : BeginExpand(r, d)
             \/ \E c \in Cleaners : SelectBatch(c) \/ LockRow(c) \/ BatchFails(c)
             \/ DeleteSearches
             \/ UNCHANGED vars
      PROVE  link' = link
  BY <1>5 DEF Age, BeginSearch, BeginExpand, Begin, SelectBatch, LockRow, BatchFails,
              DeleteSearches, vars, dbVars
<1>. QED
  BY <1>1, <1>2, <1>3, <1>4, <1>5 DEF Next, Clean

(* An entry's podcast is that of the feed its row has when the podcast is  *)
(* set.  A search that moves the feed of an entry leaves its podcast, an   *)
(* expansion of the entry may take it to the podcast of the feed that the  *)
(* request has read, and else only a batch that had selected the entry     *)
(* before takes the podcast away, with the row.                            *)
THEOREM LinkStays == Spec => LinkKept
<1>1. LInv /\ [Next]_vars =>
             [\A e \in Entries : link'[e] # link[e] =>
                \/ link'[e] = 0 /\ e \in batch["directory_podcast"].held
                \/ /\ link'[e] # 0 /\ link'[e] = podcastOf'[feed'[e]]
                   /\ link[e] # 0 =>
                        \E r \in Requests : pc[r] = "expand" /\ tx[r].dir_podcast = e]_vars
  BY LinkStep
<1>. QED
  BY <1>1, LinksInvariant, PTL DEF Spec, LinkKept
=============================================================================
