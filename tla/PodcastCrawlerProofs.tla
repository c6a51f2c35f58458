------------------------ MODULE PodcastCrawlerProofs ------------------------
(***************************************************************************)
(* Proofs about PodcastCrawler for any podcasts, sizes and intervals.  The *)
(* invariant CInv accounts for every row that was sent and says where      *)
(* last_id stands among the podcasts sent and those still to be sent.      *)
(***************************************************************************)
EXTENDS PodcastCrawler, FiniteSetTheorems, WellFoundedInduction, TLAPS

Places == {"down", "connect", "select", "send", "join", "ended", "sleep", "exit"}
Errands == {"none", "connect", "receive", "retrieve", "hung", "returned", "failed"}

(* The workers that have a row of podcast p in hand. *)
Holders(p) == {w \in Spawned : hand[w] = p}
Held(p) == Cardinality(Holders(p))

(* Each row sent is in the channel, in a worker's hand or handled. *)
Accounted == \A p \in Podcasts : sent[p] = channel[p] + handled[p] + Held(p)
HandsFull == \A w \in Spawned : worker[w] \in {"retrieve", "hung"} <=> hand[w] # 0
PageWhileSending == pc = "send" <=> page # NoRows

(* What has been promised and not sent is selected by a query at any time. *)
StillDue ==
    \A p \in promised : sent[p] = 0 => p \in Existing /\ (command = "crawl" => age[p] = Long)

(* Podcasts that the next page may hold, and those it may not.             *)
Ahead(p) == p > last_id /\ \A q \in Podcasts : page[q] > 0 => q < p
Behind(p) ==
    \/ p <= last_id
    \/ command = "reingest" /\ pc = "send" /\ \A q \in Podcasts : page[q] > 0 => p <= q

Paging == pc \in {"connect", "select", "send"}
NoneSkipped == Paging => \A p \in promised : sent[p] > 0 \/ page[p] > 0 \/ Ahead(p)
SentBehind ==
    Paging => \A p \in Podcasts : /\ sent[p] > 0 => Behind(p)
                                  /\ command = "crawl" /\ page[p] > 0 => p <= last_id
                                  /\ command = "reingest" /\ page[p] > 0 => p > last_id

ReturnedDrained ==
    \A w \in Spawned : worker[w] = "returned" =>
        pc \in {"join", "ended", "sleep", "exit"} /\ channel = NoRows
AllJoined == pc \in {"ended", "sleep"} => \A w \in Spawned : worker[w] \in {"returned", "failed"}

PagingInv == PageWhileSending /\ StillDue /\ NoneSkipped /\ EveryPromiseSent /\ SentBehind
WorkersInv == Accounted /\ HandsFull /\ ReturnedDrained /\ AllJoined
CInv == TypeOK /\ PagingInv /\ WorkersInv
-----------------------------------------------------------------------------
(* A set of ids has a least and a greatest element: the ones below, or     *)
(* above, an element form a finite set, and some such set is smallest.     *)
LEMMA LeastPodcast ==
    ASSUME NEW Q \in SUBSET Podcasts, Q # {}
    PROVE  \E m \in Q : \A q \in Q : m <= q
<1> DEFINE Below(x) == {q \in Q : q < x}
<1> DEFINE T == {Below(x) : x \in Q}
<1>1. T \subseteq FiniteSubsetsOf(Podcasts) /\ T # {}
  <2>1. \A U \in SUBSET Podcasts : U \in FiniteSubsetsOf(Podcasts)
    BY PodcastsAssumption, FS_Subset DEF FiniteSubsetsOf
  <2> QED
    BY <2>1
<1>2. IsWellFoundedOn(StrictSubsetOrdering(Podcasts), FiniteSubsetsOf(Podcasts))
    BY FS_StrictSubsetOrderingWellFounded
<1>3. PICK U \in T : \A V \in T : <<V, U>> \notin StrictSubsetOrdering(Podcasts)
  <2> HIDE DEF T
  <2> QED
    BY <1>1, <1>2, WFMin
<1>4. PICK m \in Q : U = Below(m)
    OBVIOUS
<1>5. ASSUME NEW q \in Q, q < m PROVE FALSE
  <2>0. \A x \in Q : x \in Nat
    BY PodcastsAssumption
  <2>1. Below(q) \subseteq Below(m) /\ q \in Below(m) /\ q \notin Below(q)
    BY <1>5, <2>0
  <2>2. <<Below(q), Below(m)>> \in StrictSubsetOrdering(Podcasts)
    BY <2>1 DEF StrictSubsetOrdering
  <2> QED
    BY <1>3, <1>4, <2>2
<1> QED
    BY <1>5, PodcastsAssumption

LEMMA GreatestPodcast ==
    ASSUME NEW Q \in SUBSET Podcasts, Q # {}
    PROVE  \E m \in Q : \A q \in Q : q <= m
<1> DEFINE Above(x) == {q \in Q : q > x}
<1> DEFINE T == {Above(x) : x \in Q}
<1>1. T \subseteq FiniteSubsetsOf(Podcasts) /\ T # {}
  <2>1. \A U \in SUBSET Podcasts : U \in FiniteSubsetsOf(Podcasts)
    BY PodcastsAssumption, FS_Subset DEF FiniteSubsetsOf
  <2> QED
    BY <2>1
<1>2. IsWellFoundedOn(StrictSubsetOrdering(Podcasts), FiniteSubsetsOf(Podcasts))
    BY FS_StrictSubsetOrderingWellFounded
<1>3. PICK U \in T : \A V \in T : <<V, U>> \notin StrictSubsetOrdering(Podcasts)
  <2> HIDE DEF T
  <2> QED
    BY <1>1, <1>2, WFMin
<1>4. PICK m \in Q : U = Above(m)
    OBVIOUS
<1>5. ASSUME NEW q \in Q, q > m PROVE FALSE
  <2>0. \A x \in Q : x \in Nat
    BY PodcastsAssumption
  <2>1. Above(q) \subseteq Above(m) /\ q \in Above(m) /\ q \notin Above(q)
    BY <1>5, <2>0
  <2>2. <<Above(q), Above(m)>> \in StrictSubsetOrdering(Podcasts)
    BY <2>1 DEF StrictSubsetOrdering
  <2> QED
    BY <1>3, <1>4, <2>2
<1> QED
    BY <1>5, PodcastsAssumption

(* FirstOf and LastOf of a page that is not empty. *)
LEMMA PageEnds ==
    ASSUME NEW pg \in [Podcasts -> 0..MaxContents], pg # NoRows
    PROVE  /\ FirstOf(pg) \in Podcasts /\ pg[FirstOf(pg)] > 0
           /\ \A q \in Podcasts : pg[q] > 0 => FirstOf(pg) <= q
           /\ LastOf(pg) \in Podcasts /\ pg[LastOf(pg)] > 0
           /\ \A q \in Podcasts : pg[q] > 0 => q <= LastOf(pg)
<1> DEFINE Q == {p \in Podcasts : pg[p] > 0}
<1>1. Q # {} /\ Q \in SUBSET Podcasts
    BY SizesAssumption DEF NoRows
<1>2. \E m \in Q : \A q \in Q : m <= q
    BY <1>1, LeastPodcast
<1>3. \E m \in Q : \A q \in Q : q <= m
    BY <1>1, GreatestPodcast
<1>4. \E p \in Podcasts : pg[p] > 0 /\ \A q \in Podcasts : pg[q] > 0 => p <= q
    BY <1>2
<1>5. \E p \in Podcasts : pg[p] > 0 /\ \A q \in Podcasts : pg[q] > 0 => q <= p
    BY <1>3
<1> QED
    BY <1>4, <1>5 DEF FirstOf, LastOf

(* A page that ends the run has no row. *)
LEMMA EmptyPage == Size(NoRows) = 0
<1>1. {r \in Podcasts \X (1..MaxContents) : r[2] <= NoRows[r[1]]} = {}
    BY SizesAssumption DEF NoRows
<1> QED
    BY <1>1, FS_EmptySet DEF Size

LEMMA SpawnedFacts ==
    /\ IsFiniteSet(Spawned) /\ Cardinality(Spawned) = NumConnections - 1
    /\ NumConnections \in Nat \ {0}
<1>1. NumConnections - 1 \in Int /\ NumConnections \in Nat \ {0}
    BY SizesAssumption
<1>2. /\ IsFiniteSet(1..(NumConnections - 1))
      /\ Cardinality(1..(NumConnections - 1)) = IF 1 > NumConnections - 1 THEN 0 ELSE NumConnections - 1 - 1 + 1
    BY <1>1, FS_Interval
<1> QED
    BY <1>1, <1>2 DEF Spawned, NumWorkers

(* Rows in hand, counted. *)
LEMMA HeldType ==
    ASSUME NEW p \in Podcasts
    PROVE  /\ IsFiniteSet(Holders(p)) /\ Held(p) \in Nat
           /\ \A w \in Spawned : hand[w] = p => Held(p) > 0
<1>1. IsFiniteSet(Holders(p)) /\ Held(p) \in Nat
    BY SpawnedFacts, FS_Subset, FS_CardinalityType DEF Holders, Held
<1>2. ASSUME NEW w \in Spawned, hand[w] = p PROVE Held(p) # 0
    BY <1>1, <1>2, FS_EmptySet DEF Holders, Held
<1> QED
    BY <1>1, <1>2

LEMMA HeldTaken ==
    ASSUME TypeOK, NEW w \in Spawned, NEW p \in Podcasts, hand[w] = 0, hand' = [hand EXCEPT ![w] = p]
    PROVE  \A q \in Podcasts : Held(q)' = IF q = p THEN Held(q) + 1 ELSE Held(q)
<1> SUFFICES ASSUME NEW q \in Podcasts PROVE Held(q)' = IF q = p THEN Held(q) + 1 ELSE Held(q)
    OBVIOUS
<1>1. 0 \notin Podcasts
    BY PodcastsAssumption
<1>2. Holders(q)' = IF q = p THEN Holders(q) \cup {w} ELSE Holders(q)
    BY <1>1 DEF Holders, TypeOK
<1>3. w \notin Holders(q)
    BY <1>1 DEF Holders
<1> QED
    BY <1>2, <1>3, HeldType, FS_AddElement DEF Held

LEMMA HeldDropped ==
    ASSUME TypeOK, NEW w \in Spawned, NEW p \in Podcasts, hand[w] = p, hand' = [hand EXCEPT ![w] = 0]
    PROVE  \A q \in Podcasts : Held(q)' = IF q = p THEN Held(q) - 1 ELSE Held(q)
<1> SUFFICES ASSUME NEW q \in Podcasts PROVE Held(q)' = IF q = p THEN Held(q) - 1 ELSE Held(q)
    OBVIOUS
<1>1. 0 \notin Podcasts
    BY PodcastsAssumption
<1>2. Holders(q)' = IF q = p THEN Holders(q) \ {w} ELSE Holders(q)
    BY <1>1 DEF Holders, TypeOK
<1>3. q = p => w \in Holders(q)
    BY DEF Holders
<1> QED
    BY <1>2, <1>3, HeldType, FS_RemoveElement DEF Held

LEMMA HeldNone ==
    ASSUME hand = [w \in Spawned |-> 0]
    PROVE  \A p \in Podcasts : Held(p) = 0
<1>1. \A p \in Podcasts : Holders(p) = {}
    BY PodcastsAssumption DEF Holders
<1> QED
    BY <1>1, FS_EmptySet DEF Held

-----------------------------------------------------------------------------
LEMMA NoRowsFacts ==
    /\ NoRows \in [Podcasts -> 0..MaxContents] /\ NoRows \in [Podcasts -> Nat]
    /\ \A p \in Podcasts : NoRows[p] = 0
    /\ \A rows \in [Podcasts -> Nat] : (\A p \in Podcasts : rows[p] = 0) => rows = NoRows
<1>1. NoRows \in [Podcasts -> 0..MaxContents] /\ NoRows \in [Podcasts -> Nat]
    BY SizesAssumption DEF NoRows
<1>2. \A rows \in [Podcasts -> Nat] : (\A p \in Podcasts : rows[p] = 0) => rows = NoRows
    BY DEF NoRows
<1> QED
    BY <1>1, <1>2 DEF NoRows

(* The tables, whoever changes them. *)
LEMMA TableTypes ==
    ASSUME TypeOK,
           \/ Environment
           \/ \E w \in Spawned : HandsFull /\ (RetrieveRow(w) \/ RetrievalFails(w))
    PROVE  /\ age' \in [Podcasts -> 0..Long]
           /\ recent' \in [Podcasts -> Nat] /\ old' \in [Podcasts -> Nat]
           /\ \A p \in Podcasts : p \in Existing => recent'[p] + old'[p] > 0
<1>1. Kept \in Nat \ {0}
    BY SizesAssumption DEF Kept
<1>2. CASE Tick
  <2>1. \A p \in Podcasts : age[p] < Long => age[p] + 1 \in 0..Long
    BY IntervalsAssumption DEF TypeOK
  <2>2. age' \in [Podcasts -> 0..Long]
    BY <1>2, <2>1 DEF Tick, TypeOK
  <2> QED
    BY <1>2, <2>2 DEF Tick, TypeOK, Existing
<1>3. ASSUME NEW p \in Podcasts, ContentAges(p)
      PROVE  /\ recent' \in [Podcasts -> Nat] /\ old' \in [Podcasts -> Nat] /\ age' = age
             /\ \A q \in Podcasts : q \in Existing => recent'[q] + old'[q] > 0
    BY <1>3 DEF ContentAges, TypeOK, Existing
<1>4. ASSUME NEW p \in Podcasts, UpdatedElsewhere(p)
      PROVE  /\ recent' \in [Podcasts -> Nat] /\ old' = old /\ age' \in [Podcasts -> 0..Long]
             /\ \A q \in Podcasts : q \in Existing => recent'[q] + old'[q] > 0
  <2>1. age' \in [Podcasts -> 0..Long]
    BY <1>4, IntervalsAssumption DEF UpdatedElsewhere, TypeOK
  <2> QED
    BY <1>4, <2>1 DEF UpdatedElsewhere, TypeOK, Existing
<1>5. ASSUME NEW p \in Podcasts, DeleteContents(p)
      PROVE  /\ recent' \in [Podcasts -> Nat] /\ old' \in [Podcasts -> Nat] /\ age' = age
             /\ \A q \in Podcasts : q \in Existing => recent'[q] + old'[q] > 0
  <2>1. recent' \in [Podcasts -> Nat] /\ old' \in [Podcasts -> Nat] /\ age' = age
    BY <1>1, <1>5 DEF DeleteContents, TypeOK
  <2>2. recent'[p] + old'[p] > 0
    BY <1>1, <1>5 DEF DeleteContents, TypeOK
  <2>3. \A q \in Podcasts \ {p} : recent'[q] = recent[q] /\ old'[q] = old[q]
    BY <1>5 DEF DeleteContents, TypeOK
  <2> QED
    BY <2>1, <2>2, <2>3 DEF Existing
<1>6. ASSUME NEW w \in Spawned, HandsFull, RetrieveRow(w)
      PROVE  /\ age' \in [Podcasts -> 0..Long]
             /\ recent' \in [Podcasts -> Nat] /\ old' \in [Podcasts -> Nat]
             /\ \A q \in Podcasts : q \in Existing => recent'[q] + old'[q] > 0
  <2>1. hand[w] \in Podcasts
    BY <1>6 DEF RetrieveRow, Retrieved, HandsFull, TypeOK
  <2>2. age' \in [Podcasts -> 0..Long]
    BY <1>6, <2>1, IntervalsAssumption DEF RetrieveRow, TypeOK
  <2>3. \/ recent' = recent /\ old' = old
        \/ recent' = [recent EXCEPT ![hand[w]] = @ + 1] /\ old' = old
        \/ /\ old[hand[w]] > 0
           /\ recent' = [recent EXCEPT ![hand[w]] = @ + 1]
           /\ old' = [old EXCEPT ![hand[w]] = @ - 1]
    BY <1>6 DEF RetrieveRow
  <2> QED
    BY <2>1, <2>2, <2>3 DEF TypeOK, Existing
<1>7. ASSUME NEW w \in Spawned, RetrievalFails(w)
      PROVE  UNCHANGED <<age, recent, old>>
    BY <1>7 DEF RetrievalFails, dbVars
<1> QED
    BY <1>2, <1>3, <1>4, <1>5, <1>6, <1>7 DEF Environment, TypeOK, Existing

LEMMA InitTypes == Init => TypeOK
<1> SUFFICES ASSUME Init PROVE TypeOK
    OBVIOUS
<1>1. /\ age \in [Podcasts -> 0..Long] /\ recent \in [Podcasts -> Nat]
      /\ old \in [Podcasts -> Nat] /\ page \in [Podcasts -> 0..MaxContents]
      /\ channel \in [Podcasts -> Nat]
      /\ sent \in [Podcasts -> Nat] /\ handled \in [Podcasts -> Nat]
    BY NoRowsFacts, IntervalsAssumption DEF Init
<1> QED
    BY <1>1, SizesAssumption DEF Init, TypeOK

LEMMA EnvironmentTypes == TypeOK /\ Environment => TypeOK'
<1> SUFFICES ASSUME TypeOK, Environment PROVE TypeOK'
    OBVIOUS
<1>1. /\ age' \in [Podcasts -> 0..Long]
      /\ recent' \in [Podcasts -> Nat] /\ old' \in [Podcasts -> Nat]
    BY TableTypes
<1>2. changes' \in 0..MaxChanges /\ promised' \subseteq Podcasts
    BY SizesAssumption
    DEF Environment, Tick, ContentAges, UpdatedElsewhere, DeleteContents, Change, counters,
        historyVars, TypeOK
<1>3. UNCHANGED <<controlVars, channel, workerVars, faults, sent, handled>>
    BY DEF Environment, Tick, ContentAges, UpdatedElsewhere, DeleteContents, counters, historyVars
<1> QED
    BY <1>1, <1>2, <1>3 DEF TypeOK, controlVars, workerVars

LEMMA RestartTypes ==
    ASSUME TypeOK, BeginRun \/ ProcessGone, faults' \in 0..MaxFaults
    PROVE  TypeOK'
<1>1. /\ worker' \in [Spawned -> Errands] /\ hand' \in [Spawned -> Podcasts \cup {0}]
      /\ page' \in [Podcasts -> 0..MaxContents] /\ channel' \in [Podcasts -> Nat]
      /\ sent' \in [Podcasts -> Nat] /\ handled' \in [Podcasts -> Nat]
      /\ pc' \in Places /\ last_id' = 0
    BY NoRowsFacts DEF BeginRun, ProcessGone, Errands, Places
<1>2. promised' \subseteq Podcasts
    BY DEF BeginRun, ProcessGone, Promised, Existing
<1>3. UNCHANGED <<dbVars, command, changes>>
    BY DEF BeginRun, ProcessGone, counters
<1> QED
    BY <1>1, <1>2, <1>3 DEF TypeOK, dbVars, Errands, Places

LEMMA PageTypes ==
    ASSUME TypeOK, CrawlerSelects \/ ReingesterSelects
    PROVE  /\ page' \in [Podcasts -> 0..MaxContents] /\ page' # NoRows
           /\ last_id' \in Podcasts \cup {0}
<1>1. CASE CrawlerSelects
    BY <1>1, PageEnds DEF CrawlerSelects, Pages
<1>2. CASE ReingesterSelects
    BY <1>2 DEF ReingesterSelects, Pages, TypeOK
<1> QED
    BY <1>1, <1>2

LEMMA SendTypes ==
    ASSUME TypeOK, PageWhileSending, SendRow
    PROVE  /\ FirstOf(page) \in Podcasts /\ page[FirstOf(page)] > 0
           /\ page' \in [Podcasts -> 0..MaxContents]
           /\ channel' \in [Podcasts -> Nat] /\ sent' \in [Podcasts -> Nat]
           /\ last_id' \in Podcasts \cup {0} /\ pc' \in {"select", "send"}
<1>1. FirstOf(page) \in Podcasts /\ page[FirstOf(page)] > 0
    BY PageEnds DEF PageWhileSending, SendRow, TypeOK
<1>2. page[FirstOf(page)] - 1 \in 0..MaxContents
    BY <1>1, SizesAssumption DEF TypeOK
<1>3. page' \in [Podcasts -> 0..MaxContents]
    BY <1>1, <1>2 DEF SendRow, TypeOK
<1> QED
    BY <1>1, <1>3 DEF SendRow, TypeOK

LEMMA ControlTypes ==
    ASSUME TypeOK, PageWhileSending, Control \/ ControlFails \/ Crash
    PROVE  TypeOK'
<1>1. CASE Start \/ NextRun \/ Exit \/ Crash
  <2>1. faults' \in 0..MaxFaults /\ (BeginRun \/ ProcessGone)
    BY <1>1, SizesAssumption DEF Start, NextRun, Exit, Crash, BeginRun, counters, TypeOK
  <2> QED
    BY <2>1, RestartTypes
<1>2. CASE Sleep \/ ControlConnects \/ SelectsNone \/ Join
    BY <1>2 DEF Sleep, ControlConnects, SelectsNone, Join, TypeOK, dbVars, workerVars, counters,
                historyVars
<1>3. CASE CrawlerSelects \/ ReingesterSelects
  <2>1. UNCHANGED <<dbVars, command, channel, workerVars, counters, historyVars>> /\ pc' = "send"
    BY <1>3 DEF CrawlerSelects, ReingesterSelects
  <2> QED
    BY <1>3, <2>1, PageTypes DEF TypeOK, dbVars, workerVars, counters, historyVars
<1>4. CASE SendRow
  <2>1. UNCHANGED <<dbVars, command, workerVars, counters, handled, promised>>
    BY <1>4 DEF SendRow
  <2> QED
    BY <1>4, <2>1, SendTypes DEF TypeOK, dbVars, workerVars, counters
<1>5. CASE ControlFails
    BY <1>5, SizesAssumption DEF ControlFails, TypeOK, dbVars, workerVars, historyVars
<1> QED
    BY <1>1, <1>2, <1>3, <1>4, <1>5 DEF Control

LEMMA WorkerTypes ==
    ASSUME TypeOK, HandsFull, NEW w \in Spawned,
           Work(w) \/ WorkerFails(w) \/ RetrievalFails(w) \/ HostSilent(w)
    PROVE  TypeOK'
<1>1. CASE WorkerConnects(w) \/ WorkerFails(w) \/ WorkerReturns(w) \/ HostSilent(w)
    BY <1>1, SizesAssumption
    DEF WorkerConnects, WorkerFails, WorkerReturns, HostSilent, TypeOK, dbVars, controlVars, counters, historyVars
<1>2. CASE ReceiveRow(w)
  <2>1. PICK p \in Podcasts : /\ channel[p] > 0 /\ channel' = [channel EXCEPT ![p] = @ - 1]
                              /\ hand' = [hand EXCEPT ![w] = p]
    BY <1>2 DEF ReceiveRow
  <2>2. channel' \in [Podcasts -> Nat] /\ hand' \in [Spawned -> Podcasts \cup {0}]
    BY <2>1 DEF TypeOK
  <2>3. worker' \in [Spawned -> Errands]
    BY <1>2 DEF ReceiveRow, TypeOK, Errands
  <2> QED
    BY <1>2, <2>2, <2>3 DEF ReceiveRow, TypeOK, Errands, dbVars, controlVars, counters, historyVars
<1>3. CASE RetrieveRow(w) \/ RetrievalFails(w)
  <2>1. /\ age' \in [Podcasts -> 0..Long]
        /\ recent' \in [Podcasts -> Nat] /\ old' \in [Podcasts -> Nat]
    BY <1>3, TableTypes
  <2>2. Retrieved(w) /\ hand[w] \in Podcasts
    BY <1>3 DEF RetrieveRow, RetrievalFails, Retrieved, HandsFull, TypeOK
  <2>3. /\ handled' \in [Podcasts -> Nat] /\ hand' \in [Spawned -> Podcasts \cup {0}]
        /\ worker' \in [Spawned -> Errands]
    BY <2>2 DEF Retrieved, TypeOK, Errands
  <2>4. faults' \in 0..MaxFaults
    BY <1>3, SizesAssumption DEF RetrieveRow, RetrievalFails, TypeOK
  <2> QED
    BY <2>1, <2>2, <2>3, <2>4 DEF Retrieved, TypeOK, Errands, controlVars
<1> QED
    BY <1>1, <1>2, <1>3 DEF Work

-----------------------------------------------------------------------------
LEMMA WorkersSame ==
    ASSUME WorkersInv, UNCHANGED <<pc, channel, worker, hand, sent, handled>>
    PROVE  WorkersInv'
<1>1. \A p \in Podcasts : Held(p)' = Held(p)
    BY DEF Held, Holders
<1> QED
    BY <1>1 DEF WorkersInv, Accounted, HandsFull, ReturnedDrained, AllJoined

LEMMA EnvironmentInv == CInv /\ Environment => CInv'
<1> SUFFICES ASSUME CInv, Environment PROVE CInv'
    OBVIOUS
<1>1. TypeOK /\ TypeOK'
    BY EnvironmentTypes DEF CInv
<1>2. /\ UNCHANGED <<command, pc, last_id, page, channel, worker, hand, sent, handled>>
      /\ promised' \subseteq promised
    BY DEF Environment, Tick, ContentAges, UpdatedElsewhere, DeleteContents, counters, historyVars,
           controlVars, workerVars
<1>3. \A p \in Podcasts : p \in Existing => p \in Existing'
  <2>1. \A p \in Podcasts : p \in Existing => recent'[p] + old'[p] > 0
    BY <1>1, TableTypes
  <2> QED
    BY <2>1 DEF Existing
<1>4. \A p \in promised' : age[p] = Long => age'[p] = Long
  <2>1. CASE Tick
    BY <1>1, <2>1, IntervalsAssumption DEF Tick, TypeOK, historyVars
  <2>2. ASSUME NEW q \in Podcasts, ContentAges(q) \/ DeleteContents(q) PROVE age' = age
    BY <2>2 DEF ContentAges, DeleteContents
  <2>3. ASSUME NEW q \in Podcasts, UpdatedElsewhere(q), NEW p \in promised', age[p] = Long
        PROVE  age'[p] = Long
    BY <1>1, <2>3 DEF UpdatedElsewhere, TypeOK
  <2> QED
    BY <2>1, <2>2, <2>3 DEF Environment
<1>5. StillDue'
    BY <1>1, <1>2, <1>3, <1>4 DEF CInv, PagingInv, StillDue, TypeOK
<1>6. PageWhileSending' /\ NoneSkipped' /\ EveryPromiseSent' /\ SentBehind'
    BY <1>2 DEF CInv, PagingInv, PageWhileSending, NoneSkipped, EveryPromiseSent, SentBehind,
                Paging, Ahead, Behind
<1> QED
    BY <1>1, <1>2, <1>5, <1>6, WorkersSame DEF CInv, PagingInv

-----------------------------------------------------------------------------
(* A run begins, or the process is gone. *)
LEMMA RestartInv ==
    ASSUME CInv, BeginRun \/ ProcessGone, faults' \in 0..MaxFaults
    PROVE  CInv'
<1>1. TypeOK /\ TypeOK'
    BY RestartTypes DEF CInv
<1>2. /\ page' = NoRows /\ channel' = NoRows /\ sent' = NoRows /\ handled' = NoRows
      /\ last_id' = 0 /\ hand' = [w \in Spawned |-> 0]
      /\ \A w \in Spawned : worker'[w] \in {"none", "connect"}
      /\ UNCHANGED <<age, recent, old, command>>
    BY DEF BeginRun, ProcessGone, dbVars
<1>3. \/ pc' = "connect" /\ promised' = Promised
      \/ pc' = "down" /\ promised' = {}
    BY DEF BeginRun, ProcessGone
<1>4. StillDue'
  <2>1. \A p \in Promised : p \in Existing /\ (command = "crawl" => age[p] = Long)
    BY <1>1 DEF Promised, Overdue, TypeOK
  <2> QED
    BY <1>2, <1>3, <2>1 DEF StillDue, Existing
<1>5. NoneSkipped' /\ SentBehind'
  <2>1. \A p \in promised' : p > 0
    BY <1>1, PodcastsAssumption DEF TypeOK
  <2> QED
    BY <1>2, <2>1, NoRowsFacts DEF NoneSkipped, SentBehind, Ahead, Behind
<1>6. PageWhileSending' /\ EveryPromiseSent'
    BY <1>2, <1>3 DEF PageWhileSending, EveryPromiseSent
<1>7. Accounted'
  <2>1. \A p \in Podcasts : Held(p)' = 0
    <3>1. \A p \in Podcasts : Holders(p)' = {}
        BY <1>2, PodcastsAssumption DEF Holders
    <3> QED
        BY <3>1, FS_EmptySet DEF Held
  <2> QED
    BY <1>2, <2>1, NoRowsFacts DEF Accounted
<1>8. HandsFull' /\ ReturnedDrained' /\ AllJoined'
    BY <1>2, <1>3 DEF HandsFull, ReturnedDrained, AllJoined
<1> QED
    BY <1>1, <1>4, <1>5, <1>6, <1>7, <1>8 DEF CInv, PagingInv, WorkersInv

(* The control thread moves on and leaves everything else alone. *)
LEMMA PlaceInv ==
    ASSUME CInv, TypeOK',
           UNCHANGED <<dbVars, command, last_id, page, channel, workerVars, historyVars>>,
           pc' # "send", pc # "send",
           Paging' => Paging,
           pc' \in {"join", "ended", "sleep"} => \A p \in promised : sent[p] > 0,
           pc' \in {"ended", "sleep"} => \A w \in Spawned : worker[w] \in {"returned", "failed"},
           pc \in {"join", "ended", "sleep", "exit"} => pc' \in {"join", "ended", "sleep", "exit"}
    PROVE  CInv'
<1>1. UNCHANGED <<age, recent, old, channel, worker, hand, sent, handled, promised>>
    BY DEF dbVars, workerVars, historyVars
<1>2. \A p \in Podcasts : Held(p)' = Held(p)
    BY <1>1 DEF Held, Holders
<1>3. Accounted' /\ HandsFull' /\ ReturnedDrained' /\ AllJoined'
    BY <1>1, <1>2 DEF CInv, WorkersInv, Accounted, HandsFull, ReturnedDrained, AllJoined
<1>4. PageWhileSending' /\ StillDue'
    BY <1>1 DEF CInv, PagingInv, PageWhileSending, StillDue, Existing
<1>5. NoneSkipped' /\ SentBehind'
    BY <1>1 DEF CInv, PagingInv, NoneSkipped, SentBehind, Ahead, Behind
<1>6. EveryPromiseSent'
    BY <1>1 DEF EveryPromiseSent
<1> QED
    BY <1>3, <1>4, <1>5, <1>6 DEF CInv, PagingInv, WorkersInv

(* The query returns a row of every podcast that is still to be sent. *)
LEMMA StillSelected ==
    ASSUME CInv, pc = "select", NEW rows \in Rows, NEW p \in promised, ~(sent[p] > 0)
    PROVE  /\ After(last_id, p) /\ rows[p] > 0 /\ rows \in [Podcasts -> 0..MaxContents]
           /\ p \in Podcasts
<1>1. TypeOK /\ p \in Podcasts /\ sent[p] = 0 /\ page = NoRows
    BY DEF CInv, TypeOK, PagingInv, PageWhileSending
<1>2. After(last_id, p)
    BY <1>1, NoRowsFacts DEF CInv, PagingInv, NoneSkipped, Paging, Ahead, After
<1>3. p \in Existing /\ (command = "crawl" => age[p] = Long)
    BY <1>1 DEF CInv, PagingInv, StillDue
<1>4. CASE command = "crawl"
  <2>1. DueAt(p, Long) = recent[p] + old[p] /\ recent[p] + old[p] > 0
    BY <1>1, <1>3, IntervalsAssumption DEF DueAt, Existing, TypeOK
  <2>2. /\ rows \in [Podcasts -> 0..MaxContents]
        /\ rows[p] \in DueAt(p, age[p])..DueAt(p, age[p] + Jitter)
    BY <1>1, <1>4 DEF Rows, CrawlerRows
  <2> QED
    BY <1>1, <1>2, <1>3, <1>4, <2>1, <2>2 DEF TypeOK
<1>5. CASE command # "crawl"
    BY <1>1, <1>2, <1>3, <1>5, SizesAssumption DEF Rows, ReingesterRows
<1> QED
    BY <1>4, <1>5

(* A run ends when a query finds nobody after last_id: then nobody is left. *)
LEMMA SelectsNoneInv ==
    ASSUME CInv, SelectsNone
    PROVE  CInv'
<1>1. TypeOK'
    BY ControlTypes DEF CInv, PagingInv, Control
<1>2. PICK rows \in Rows : IsPage(NoRows, rows, last_id)
    BY DEF SelectsNone, Pages
<1>3. ASSUME NEW p \in promised, ~(sent[p] > 0) PROVE FALSE
  <2>1. After(last_id, p) /\ NoRows[p] < rows[p] /\ p \in Podcasts
    BY <1>3, StillSelected, NoRowsFacts DEF SelectsNone
  <2> QED
    BY <1>2, <2>1, EmptyPage, SizesAssumption DEF IsPage
<1> QED
    BY <1>1, <1>3, PlaceInv DEF SelectsNone, Paging, counters

(* Whoever is left out of a page follows its last podcast. *)
LEMMA SelectsInv ==
    ASSUME CInv, CrawlerSelects \/ ReingesterSelects
    PROVE  CInv'
<1>1. TypeOK /\ TypeOK' /\ pc = "select" /\ page = NoRows
    BY ControlTypes DEF CInv, PagingInv, PageWhileSending, Control, CrawlerSelects, ReingesterSelects
<1>2. /\ UNCHANGED <<age, recent, old, command, channel, worker, hand, sent, handled, promised>>
      /\ pc' = "send"
    BY DEF CrawlerSelects, ReingesterSelects, dbVars, workerVars, historyVars
<1>3. page' \in [Podcasts -> 0..MaxContents] /\ page' # NoRows
    BY <1>1, PageTypes
<1>4. PICK rows \in Rows : IsPage(page', rows, last_id)
    BY DEF CrawlerSelects, ReingesterSelects, Pages
<1>5. \/ command = "crawl" /\ last_id' = LastOf(page')
      \/ command = "reingest" /\ last_id' = last_id
    BY DEF CrawlerSelects, ReingesterSelects
<1>6. /\ LastOf(page') \in Podcasts /\ page'[LastOf(page')] > 0
      /\ \A q \in Podcasts : page'[q] > 0 => q <= LastOf(page')
    BY <1>3, PageEnds
<1>7. /\ \A p \in Podcasts : p \in Nat
      /\ last_id \in Nat /\ last_id' \in Nat
    BY <1>1, PodcastsAssumption DEF TypeOK
<1>8. \A p \in Podcasts : page'[p] > 0 => p > last_id
    BY <1>3, <1>4, <1>7 DEF IsPage, After
<1>9. NoneSkipped'
  <2> SUFFICES ASSUME NEW p \in promised, ~(sent[p] > 0), ~(page'[p] > 0)
               PROVE  p > last_id' /\ \A q \in Podcasts : page'[q] > 0 => q < p
    BY <1>2 DEF NoneSkipped, Ahead
  <2>1. /\ After(last_id, p) /\ rows[p] > 0 /\ rows \in [Podcasts -> 0..MaxContents]
        /\ p \in Podcasts
    BY <1>1, StillSelected
  <2>2. \A q \in Podcasts : page'[q] > 0 => ~(p < q)
    BY <1>3, <1>4, <2>1 DEF IsPage
  <2>3. \A q \in Podcasts : page'[q] > 0 => q < p
    BY <1>7, <2>1, <2>2
  <2> QED
    BY <1>5, <1>6, <2>1, <2>3 DEF After
<1>10. SentBehind'
  <2> SUFFICES ASSUME NEW p \in Podcasts
               PROVE  /\ sent[p] > 0 => p <= last_id'
                      /\ command = "crawl" /\ page'[p] > 0 => p <= last_id'
                      /\ command = "reingest" /\ page'[p] > 0 => p > last_id'
    BY <1>2 DEF SentBehind, Behind
  <2>1. sent[p] > 0 => p <= last_id
    BY <1>1 DEF CInv, PagingInv, SentBehind, Behind, Paging
  <2>2. last_id <= last_id'
    BY <1>5, <1>6, <1>7, <1>8
  <2> QED
    BY <1>5, <1>6, <1>7, <1>8, <2>1, <2>2
<1>11. StillDue' /\ PageWhileSending' /\ EveryPromiseSent'
    BY <1>2, <1>3 DEF CInv, PagingInv, StillDue, Existing, PageWhileSending, EveryPromiseSent
<1>12. WorkersInv'
  <2>1. \A p \in Podcasts : Held(p)' = Held(p)
    BY <1>2 DEF Held, Holders
  <2> QED
    BY <1>1, <1>2, <2>1 DEF CInv, WorkersInv, Accounted, HandsFull, ReturnedDrained, AllJoined
<1> QED
    BY <1>1, <1>9, <1>10, <1>11, <1>12 DEF CInv, PagingInv

LEMMA SendRowInv ==
    ASSUME CInv, SendRow
    PROVE  CInv'
<1> DEFINE p == FirstOf(page)
<1>1. TypeOK /\ TypeOK' /\ pc = "send" /\ page # NoRows
    BY ControlTypes DEF CInv, PagingInv, PageWhileSending, Control, SendRow
<1>2. /\ p \in Podcasts /\ page[p] > 0 /\ \A q \in Podcasts : page[q] > 0 => p <= q
      /\ page \in [Podcasts -> 0..MaxContents]
    BY <1>1, PageEnds DEF TypeOK
<1>3. /\ page' = [page EXCEPT ![p] = @ - 1]
      /\ channel' = [channel EXCEPT ![p] = @ + 1]
      /\ sent' = [sent EXCEPT ![p] = @ + 1]
      /\ pc' = IF page' = NoRows THEN "select" ELSE "send"
      /\ last_id' = IF page' = NoRows /\ command = "reingest" THEN p ELSE last_id
      /\ UNCHANGED <<age, recent, old, command, worker, hand, handled, promised>>
    BY DEF SendRow, dbVars, workerVars
<1> HIDE DEF p
<1>4. /\ \A q \in Podcasts : page'[q] > 0 => page[q] > 0
      /\ \A q \in Podcasts \ {p} : page'[q] = page[q] /\ channel'[q] = channel[q] /\ sent'[q] = sent[q]
      /\ channel'[p] = channel[p] + 1 /\ sent'[p] = sent[p] + 1
      /\ \A q \in Podcasts : sent[q] \in Nat /\ channel[q] \in Nat /\ handled[q] \in Nat
    BY <1>1, <1>2, <1>3 DEF TypeOK
<1>5. \A q \in Podcasts : q \in Nat
    BY PodcastsAssumption
<1>6. last_id \in Nat /\ last_id' \in Nat
    BY <1>1, PodcastsAssumption DEF TypeOK
<1>7. StillDue'
    BY <1>1, <1>2, <1>3, <1>4 DEF CInv, PagingInv, StillDue, Existing, TypeOK
<1>8. NoneSkipped'
  <2> SUFFICES ASSUME NEW q \in promised, ~(sent'[q] > 0), ~(page'[q] > 0)
               PROVE  q > last_id' /\ \A x \in Podcasts : page'[x] > 0 => x < q
    BY <1>3 DEF NoneSkipped, Ahead
  <2>1. q \in Podcasts /\ q # p
    BY <1>1, <1>4 DEF TypeOK
  <2>2. q > last_id /\ \A x \in Podcasts : page[x] > 0 => x < q
    BY <1>1, <1>4, <2>1 DEF CInv, PagingInv, NoneSkipped, Paging, Ahead
  <2> QED
    BY <1>2, <1>3, <1>4, <2>2
<1>9. SentBehind'
  <2> SUFFICES ASSUME NEW q \in Podcasts
               PROVE  /\ sent'[q] > 0 => Behind(q)'
                      /\ command = "crawl" /\ page'[q] > 0 => q <= last_id'
                      /\ command = "reingest" /\ page'[q] > 0 => q > last_id'
    BY <1>3 DEF SentBehind
  <2>1. \A x \in Podcasts : /\ command = "crawl" /\ page[x] > 0 => x <= last_id
                            /\ command = "reingest" /\ page[x] > 0 => x > last_id
    BY <1>1 DEF CInv, PagingInv, SentBehind, Paging
  <2>2. sent[q] > 0 => q <= last_id \/ (command = "reingest" /\ \A x \in Podcasts : page[x] > 0 => q <= x)
    BY <1>1 DEF CInv, PagingInv, SentBehind, Paging, Behind
  <2>3. command = "crawl" \/ command = "reingest"
    BY <1>1 DEF TypeOK
  <2>4. CASE command = "crawl"
    <3>1. last_id' = last_id /\ p <= last_id
        BY <1>2, <1>3, <2>1, <2>4
    <3>2. sent'[q] > 0 => q <= last_id'
        BY <1>4, <2>2, <2>4, <3>1
    <3>3. page'[q] > 0 => q <= last_id'
        BY <1>4, <2>1, <2>4, <3>1
    <3> QED
        BY <2>4, <3>2, <3>3 DEF Behind
  <2>5. CASE command = "reingest"
    <3>1. sent'[q] > 0 => q <= last_id \/ \A x \in Podcasts : page[x] > 0 => q <= x
        BY <1>2, <1>4, <2>2
    <3>2. CASE page' = NoRows
      <4>1. last_id' = p /\ pc' = "select"
        BY <1>3, <2>5, <3>2
      <4>2. sent'[q] > 0 => q <= p \/ q <= last_id
        BY <1>2, <3>1
      <4>3. p > last_id
        BY <1>2, <2>1, <2>5
      <4>4. \A x \in Podcasts : page'[x] = 0
        BY <3>2, NoRowsFacts
      <4> QED
        BY <1>2, <1>5, <1>6, <2>5, <4>1, <4>2, <4>3, <4>4 DEF Behind
    <3>3. CASE page' # NoRows
        BY <1>3, <1>4, <2>1, <2>5, <3>1, <3>3 DEF Behind
    <3> QED
        BY <3>2, <3>3
  <2> QED
    BY <2>3, <2>4, <2>5
<1>10. PageWhileSending' /\ EveryPromiseSent'
    BY <1>3 DEF PageWhileSending, EveryPromiseSent
<1>11. WorkersInv'
  <2>1. \A q \in Podcasts : Held(q)' = Held(q) /\ Held(q) \in Nat
    BY <1>3, HeldType DEF Held, Holders
  <2>2. Accounted'
    BY <1>2, <1>3, <1>4, <2>1 DEF CInv, WorkersInv, Accounted
  <2> QED
    BY <1>1, <1>3, <2>2 DEF CInv, WorkersInv, HandsFull, ReturnedDrained, AllJoined
<1> QED
    BY <1>1, <1>7, <1>8, <1>9, <1>10, <1>11 DEF CInv, PagingInv

LEMMA ControlInv ==
    ASSUME CInv, Control \/ ControlFails \/ Crash
    PROVE  CInv'
<1>1. TypeOK /\ TypeOK'
    BY ControlTypes DEF CInv, PagingInv
<1>2. CASE Start \/ NextRun \/ Exit \/ Crash
  <2>1. faults' \in 0..MaxFaults /\ (BeginRun \/ ProcessGone)
    BY <1>1, <1>2 DEF Start, NextRun, Exit, Crash, TypeOK
  <2> QED
    BY <2>1, RestartInv
<1>3. CASE Sleep
    BY <1>1, <1>3, PlaceInv DEF Sleep, CInv, PagingInv, WorkersInv, EveryPromiseSent, AllJoined, Paging
<1>4. CASE ControlConnects
    BY <1>1, <1>4, PlaceInv DEF ControlConnects, Paging
<1>5. CASE Join
    BY <1>1, <1>5, PlaceInv DEF Join, CInv, PagingInv, EveryPromiseSent, Paging
<1>6. CASE ControlFails
    BY <1>1, <1>6, PlaceInv DEF ControlFails, Paging
<1>7. CASE CrawlerSelects \/ ReingesterSelects \/ SelectsNone \/ SendRow
    BY <1>7, SelectsInv, SelectsNoneInv, SendRowInv
<1> QED
    BY <1>2, <1>3, <1>4, <1>5, <1>6, <1>7 DEF Control

(* A worker's step leaves last_id, the page and what was sent alone.       *)
LEMMA WorkerInv ==
    ASSUME CInv, NEW w \in Spawned,
           Work(w) \/ WorkerFails(w) \/ RetrievalFails(w) \/ HostSilent(w)
    PROVE  CInv'
<1>1. TypeOK /\ TypeOK'
    BY WorkerTypes DEF CInv, WorkersInv
<1>2. UNCHANGED <<command, pc, last_id, page, sent, promised>>
    BY DEF Work, WorkerConnects, ReceiveRow, RetrieveRow, Retrieved, WorkerReturns, WorkerFails,
           RetrievalFails, HostSilent, controlVars, historyVars
<1>3. NoneSkipped' /\ SentBehind' /\ PageWhileSending' /\ EveryPromiseSent'
    BY <1>2 DEF CInv, PagingInv, PageWhileSending, NoneSkipped, EveryPromiseSent, SentBehind,
                Paging, Ahead, Behind
<1>4. CASE WorkerConnects(w) \/ WorkerFails(w) \/ WorkerReturns(w)
  <2>1. UNCHANGED <<age, recent, old, channel, hand, handled>>
    BY <1>4 DEF WorkerConnects, WorkerFails, WorkerReturns, dbVars, historyVars
  <2>2. worker[w] \in {"connect", "receive"}
    BY <1>4 DEF WorkerConnects, WorkerFails, WorkerReturns
  <2>3. \E x \in {"receive", "failed", "returned"} :
            worker' = [worker EXCEPT ![w] = x] /\ (x = "returned" => Closed /\ channel = NoRows)
    <3>1. CASE WorkerConnects(w) \/ WorkerFails(w)
        BY <3>1 DEF WorkerConnects, WorkerFails
    <3>2. CASE WorkerReturns(w)
        BY <3>2 DEF WorkerReturns, Drained
    <3> QED
        BY <1>4, <3>1, <3>2
  <2>4. PICK e \in {"receive", "failed", "returned"} :
            worker' = [worker EXCEPT ![w] = e] /\ (e = "returned" => Closed /\ channel = NoRows)
    BY <2>3
  <2>5. \A p \in Podcasts : Held(p)' = Held(p)
    BY <2>1 DEF Held, Holders
  <2>6. Accounted'
    BY <1>2, <2>1, <2>5 DEF CInv, WorkersInv, Accounted
  <2>7. HandsFull'
    BY <1>1, <2>1, <2>2, <2>4 DEF CInv, WorkersInv, HandsFull, TypeOK
  <2>8. ReturnedDrained' /\ AllJoined'
    BY <1>1, <1>2, <2>1, <2>2, <2>4
    DEF CInv, WorkersInv, ReturnedDrained, AllJoined, Closed, TypeOK
  <2>9. StillDue'
    BY <1>2, <2>1 DEF CInv, PagingInv, StillDue, Existing
  <2> QED
    BY <1>1, <1>3, <2>6, <2>7, <2>8, <2>9 DEF CInv, PagingInv, WorkersInv
<1>5. CASE ReceiveRow(w)
  <2>1. PICK p \in Podcasts : /\ channel[p] > 0 /\ channel' = [channel EXCEPT ![p] = @ - 1]
                              /\ hand' = [hand EXCEPT ![w] = p]
    BY <1>5 DEF ReceiveRow
  <2>2. /\ UNCHANGED <<age, recent, old, handled>> /\ worker[w] = "receive"
        /\ worker' = [worker EXCEPT ![w] = "retrieve"]
    BY <1>5 DEF ReceiveRow, dbVars, historyVars
  <2>3. hand[w] = 0 /\ p # 0
    BY <1>1, <2>2, PodcastsAssumption DEF CInv, WorkersInv, HandsFull, TypeOK
  <2>4. \A q \in Podcasts : Held(q)' = IF q = p THEN Held(q) + 1 ELSE Held(q)
    BY <1>1, <2>1, <2>3, HeldTaken
  <2>5. Accounted'
    BY <1>1, <1>2, <2>1, <2>2, <2>4, HeldType DEF CInv, WorkersInv, Accounted, TypeOK
  <2>6. HandsFull'
    BY <1>1, <2>1, <2>2, <2>3 DEF CInv, WorkersInv, HandsFull, TypeOK
  <2>7. channel # NoRows
    BY <2>1, NoRowsFacts
  <2>8. ReturnedDrained' /\ AllJoined'
    BY <1>1, <1>2, <2>2, <2>7 DEF CInv, WorkersInv, ReturnedDrained, AllJoined, TypeOK
  <2>9. StillDue'
    BY <1>2, <2>2 DEF CInv, PagingInv, StillDue, Existing
  <2> QED
    BY <1>1, <1>3, <2>5, <2>6, <2>8, <2>9 DEF CInv, PagingInv, WorkersInv
<1>6. CASE RetrieveRow(w) \/ RetrievalFails(w)
  <2>1. Retrieved(w)
    BY <1>6 DEF RetrieveRow, RetrievalFails
  <2> DEFINE p == hand[w]
  <2>2. /\ worker[w] = "retrieve" /\ worker' = [worker EXCEPT ![w] = "receive"]
        /\ handled' = [handled EXCEPT ![p] = @ + 1] /\ hand' = [hand EXCEPT ![w] = 0]
        /\ channel' = channel
    BY <2>1 DEF Retrieved
  <2>3. p \in Podcasts
    BY <1>1, <2>2 DEF CInv, WorkersInv, HandsFull, TypeOK
  <2>4. Held(p) > 0
    BY <2>3, HeldType
  <2>5. sent[p] > 0
    BY <1>1, <2>3, <2>4, HeldType DEF CInv, WorkersInv, Accounted, TypeOK
  <2>6. \A q \in Podcasts : q \in Existing => q \in Existing'
    BY <1>1, <1>6, TableTypes DEF CInv, WorkersInv, Existing
  <2>7. \A q \in Podcasts \ {p} : age'[q] = age[q]
    BY <1>1, <1>6 DEF RetrieveRow, RetrievalFails, dbVars, TypeOK
  <2> HIDE DEF p
  <2>8. \A q \in Podcasts : Held(q)' = IF q = p THEN Held(q) - 1 ELSE Held(q)
    BY <1>1, <2>2, <2>3, HeldDropped DEF p
  <2>9. Accounted'
    <3> SUFFICES ASSUME NEW q \in Podcasts
                 PROVE  sent'[q] = channel'[q] + handled'[q] + Held(q)'
        BY DEF Accounted
    <3>1. sent[q] = channel[q] + handled[q] + Held(q)
        BY DEF CInv, WorkersInv, Accounted
    <3>2. Held(q) \in Nat /\ channel[q] \in Nat /\ handled[q] \in Nat
        BY <1>1, HeldType DEF TypeOK
    <3>3. handled'[q] = IF q = p THEN handled[q] + 1 ELSE handled[q]
        BY <1>1, <2>2, <2>3 DEF TypeOK
    <3>4. Held(q)' = IF q = p THEN Held(q) - 1 ELSE Held(q)
        BY <2>8
    <3> HIDE DEF Held
    <3> QED
        BY <1>2, <2>2, <3>1, <3>2, <3>3, <3>4
  <2>10. HandsFull'
    BY <1>1, <2>2 DEF CInv, WorkersInv, HandsFull, TypeOK
  <2>11. ReturnedDrained' /\ AllJoined'
    BY <1>1, <1>2, <2>2 DEF CInv, WorkersInv, ReturnedDrained, AllJoined, TypeOK
  <2>12. StillDue'
    BY <1>1, <1>2, <2>5, <2>6, <2>7 DEF CInv, PagingInv, StillDue, TypeOK
  <2> QED
    BY <1>1, <1>3, <2>9, <2>10, <2>11, <2>12 DEF CInv, PagingInv, WorkersInv
<1>7. CASE HostSilent(w)
  <2>1. /\ UNCHANGED <<age, recent, old, channel, hand, handled>> /\ worker[w] = "retrieve"
        /\ worker' = [worker EXCEPT ![w] = "hung"]
    BY <1>7 DEF HostSilent, dbVars, historyVars
  <2>2. \A p \in Podcasts : Held(p)' = Held(p)
    BY <2>1 DEF Held, Holders
  <2>3. Accounted' /\ StillDue'
    BY <1>2, <2>1, <2>2 DEF CInv, WorkersInv, PagingInv, Accounted, StillDue, Existing
  <2>4. HandsFull' /\ ReturnedDrained' /\ AllJoined'
    BY <1>1, <1>2, <2>1 DEF CInv, WorkersInv, HandsFull, ReturnedDrained, AllJoined, TypeOK
  <2> QED
    BY <1>1, <1>3, <2>3, <2>4 DEF CInv, PagingInv, WorkersInv
<1> QED
    BY <1>4, <1>5, <1>6, <1>7 DEF Work

LEMMA InitInv == Init => CInv
<1> SUFFICES ASSUME Init PROVE CInv
    OBVIOUS
<1>1. TypeOK
    BY InitTypes
<1>2. Accounted
    BY HeldNone, NoRowsFacts DEF Init, Accounted
<1>3. HandsFull /\ ReturnedDrained /\ AllJoined
    BY DEF Init, HandsFull, ReturnedDrained, AllJoined
<1>4. PagingInv
    BY DEF Init, PagingInv, PageWhileSending, StillDue, NoneSkipped, EveryPromiseSent, SentBehind, Paging
<1> QED
    BY <1>1, <1>2, <1>3, <1>4 DEF CInv, WorkersInv

LEMMA NextInv == CInv /\ [Next]_vars => CInv'
<1> SUFFICES ASSUME CInv, [Next]_vars PROVE CInv'
    OBVIOUS
<1>1. CASE Environment
    BY <1>1, EnvironmentInv
<1>2. CASE Control \/ ControlFails \/ Crash
    BY <1>2, ControlInv
<1>3. ASSUME NEW w \in Spawned, Work(w) \/ WorkerFails(w) \/ RetrievalFails(w) \/ HostSilent(w)
      PROVE  CInv'
    BY <1>3, WorkerInv
<1>4. CASE UNCHANGED vars
  <2>1. \A p \in Podcasts : Held(p)' = Held(p)
    BY <1>4 DEF Held, Holders, vars, workerVars
  <2>2. TypeOK' /\ WorkersInv'
    BY <1>4, <2>1
    DEF CInv, TypeOK, WorkersInv, Accounted, HandsFull, ReturnedDrained, AllJoined, vars, dbVars,
        controlVars, workerVars, counters, historyVars
  <2>3. PagingInv'
    BY <1>4
    DEF CInv, PagingInv, PageWhileSending, StillDue, NoneSkipped, EveryPromiseSent, SentBehind,
        Paging, Ahead, Behind, Existing, vars, dbVars, controlVars, historyVars
  <2> QED
    BY <2>2, <2>3 DEF CInv
<1> QED
    BY <1>1, <1>2, <1>3, <1>4 DEF Next, Faults

(* The invariant, for any instance. *)
THEOREM Invariant == Spec => []CInv
<1>1. Init => CInv
    BY InitInv
<1>2. CInv /\ [Next]_vars => CInv'
    BY NextInv
<1> QED
    BY <1>1, <1>2, PTL DEF Spec

(* Every variable keeps its type. *)
THEOREM TypeCorrect == Spec => []TypeOK
<1>1. CInv => TypeOK
    BY DEF CInv
<1> QED
    BY <1>1, Invariant, PTL

(* Paging by id skips no podcast that a run has to send, for pages of any  *)
(* size and whatever else writes to the tables.                            *)
THEOREM NobodySkipped == Spec => []EveryPromiseSent
<1>1. CInv => EveryPromiseSent
    BY DEF CInv, PagingInv
<1> QED
    BY <1>1, Invariant, PTL

(* A run that ends has handled each row it sent exactly once, unless no    *)
(* worker ever had a connection.                                           *)
THEOREM EveryRowHandled == Spec => []RowsHandled
<1>1. ASSUME CInv PROVE RowsHandled
  <2> SUFFICES ASSUME pc \in {"ended", "sleep"}, NEW w \in Spawned, worker[w] # "failed"
               PROVE  handled = sent
    BY DEF RowsHandled
  <2>1. channel = NoRows
    BY <1>1 DEF CInv, WorkersInv, AllJoined, ReturnedDrained
  <2>2. \A p \in Podcasts : Held(p) = 0
    <3>1. \A v \in Spawned : hand[v] = 0
        BY <1>1 DEF CInv, WorkersInv, AllJoined, HandsFull
    <3>2. \A p \in Podcasts : Holders(p) = {}
        BY <3>1, PodcastsAssumption DEF Holders
    <3> QED
        BY <3>2, FS_EmptySet DEF Held
  <2>3. \A p \in Podcasts : handled[p] = sent[p]
    BY <1>1, <2>1, <2>2, NoRowsFacts DEF CInv, WorkersInv, Accounted, TypeOK
  <2> QED
    BY <1>1, <2>3 DEF CInv, TypeOK
<1> QED
    BY <1>1, Invariant, PTL

(* The pool has a connection for whoever waits for one. *)
THEOREM PoolIsLargeEnough == Spec => []PoolSuffices
<1>1. ASSUME TypeOK PROVE PoolSuffices
  <2> DEFINE C == {w \in Spawned : Connected(w)}
  <2>1. /\ IsFiniteSet(C) /\ Cardinality(C) \in Nat
        /\ Cardinality(C) <= NumConnections - 1
        /\ Cardinality(C) = NumConnections - 1 => C = Spawned
    BY SpawnedFacts, FS_Subset, FS_CardinalityType
  <2>2. ASSUME NEW w \in Spawned, worker[w] = "connect" PROVE C # Spawned
    BY <2>2 DEF Connected
  <2> HIDE DEF C
  <2>3. /\ Free = NumConnections - Cardinality(C) - (IF pc \in {"select", "send"} THEN 1 ELSE 0)
        /\ NumConnections \in Nat
    BY SpawnedFacts DEF Free, C
  <2> QED
    BY <2>1, <2>2, <2>3 DEF PoolSuffices
<1> QED
    BY <1>1, TypeCorrect, PTL

(* A podcast is sent from one page of a run only. *)
THEOREM OnePageEach == Spec => SentFromOnePage
<1>1. ASSUME CInv, [Next]_vars, pc = "select", pc' = "send", NEW p \in Podcasts, page'[p] > 0
      PROVE  sent[p] = 0
  <2>1. CrawlerSelects \/ ReingesterSelects
    BY <1>1
    DEF Next, vars, Environment, Tick, ContentAges, UpdatedElsewhere, DeleteContents, controlVars,
        Control, Start, BeginRun, Sleep, NextRun, ControlConnects, SelectsNone, SendRow, Join, Exit,
        ProcessGone, Work, WorkerConnects, ReceiveRow, RetrieveRow, Retrieved, WorkerReturns, Faults,
        ControlFails, Crash, WorkerFails, RetrievalFails, HostSilent
  <2>2. PICK rows \in Rows : IsPage(page', rows, last_id)
    BY <2>1 DEF CrawlerSelects, ReingesterSelects, Pages
  <2>3. page' \in [Podcasts -> 0..MaxContents]
    BY <1>1, <2>1, PageTypes DEF CInv
  <2>4. p > last_id /\ p \in Nat /\ last_id \in Nat
    BY <1>1, <2>2, <2>3, PodcastsAssumption DEF IsPage, After, CInv, TypeOK
  <2>5. sent[p] > 0 => p <= last_id
    BY <1>1 DEF CInv, PagingInv, SentBehind, Behind, Paging
  <2> QED
    BY <1>1, <2>4, <2>5 DEF CInv, TypeOK
<1>2. CInv /\ [Next]_vars =>
        [pc = "select" /\ pc' = "send" =>
          \A p \in Podcasts : page'[p] > 0 => sent[p] = 0]_vars
    BY <1>1
<1> QED
    BY <1>2, Invariant, PTL DEF Spec, SentFromOnePage

(* No podcast loses its last content, to the updater or to the cleaner. *)
THEOREM ContentsStay == Spec => ContentKept
<1>1. ASSUME CInv, [Next]_vars, NEW p \in Podcasts, p \in Existing
      PROVE  recent'[p] + old'[p] > 0
  <2>1. CASE Environment \/ \E w \in Spawned : RetrieveRow(w) \/ RetrievalFails(w)
    BY <1>1, <2>1, TableTypes DEF CInv, WorkersInv
  <2>2. CASE ~(Environment \/ \E w \in Spawned : RetrieveRow(w) \/ RetrievalFails(w))
    <3>1. UNCHANGED <<recent, old>>
        BY <1>1, <2>2
        DEF Next, vars, dbVars, Control, Start, BeginRun, Sleep, NextRun, ControlConnects,
            CrawlerSelects, ReingesterSelects, SelectsNone, SendRow, Join, Exit, ProcessGone, Work,
            WorkerConnects, ReceiveRow, WorkerReturns, Faults, ControlFails, Crash, WorkerFails, HostSilent
    <3> QED
        BY <1>1, <3>1 DEF Existing
  <2> QED
    BY <2>1, <2>2
<1>2. CInv /\ [Next]_vars =>
        [\A p \in Podcasts : p \in Existing => recent'[p] + old'[p] > 0]_vars
    BY <1>1
<1> QED
    BY <1>2, Invariant, PTL DEF Spec, ContentKept
=============================================================================
