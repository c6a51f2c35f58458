--------------------------- MODULE AccountsProofs ---------------------------
(***************************************************************************)
(* Proofs about Accounts for any requests, browsers and emails, and any    *)
(* number of requests.  The invariant AInv relates what a request is about *)
(* to do to the rows that it has read.                                     *)
(***************************************************************************)
EXTENDS Accounts, FiniteSetTheorems, TLAPS

AccountRows == [email : Emails \cup {None}, seen : BOOLEAN]
PodcastRows == [subscribed_at : BOOLEAN, unsubscribed_at : BOOLEAN]
EpisodeRows == [favorited : BOOLEAN, played : BOOLEAN]
Wishes == [subscribed : BOOLEAN, favorited : BOOLEAN, played : BOOLEAN]
Phases == {"idle", "auth", "touch", "handle", "update", "select",
           "episode", "insert", "login", "respond"}
Transactions ==
    [browser : Browsers \cup {None}, op : Operations,
     email : Emails \cup {None}, secret : Ids \cup {None},
     account : Ids \cup {None}, inserted : BOOLEAN,
     session : {"keep", "set", "remove"},
     status : {"ok", "user_error", "error"}]

(* TypeOK in the names of this module. *)
Types ==
    /\ account \in [Ids -> AccountRows \cup {None}]
    /\ key \subseteq Ids /\ code \subseteq Ids
    /\ podcast \in [Ids -> PodcastRows \cup {None}]
    /\ episode \in [Ids -> EpisodeRows \cup {None}]
    /\ nextId \in 1..(MaxRequests + 2)
    /\ pc \in [Requests -> Phases]
    /\ tx \in [Requests -> Transactions]
    /\ batch \in [accounts : SUBSET Ids, podcasts : SUBSET Ids, episodes : SUBSET Ids]
    /\ cookie \in [Browsers -> Ids \cup {None}]
    /\ requests \in 0..MaxRequests
    /\ wish \in [Ids -> Wishes]

(* Ids that the sequence has not handed out are nobody's. *)
FreshIds == \A a \in Ids : a >= nextId => account[a] = None /\ wish[a] = NoWish

BatchInside == batch.podcasts \subseteq batch.accounts /\ batch.episodes \subseteq batch.accounts
JarsKnown == \A b \in Browsers : cookie[b] # None => cookie[b] < nextId

(* The ids that a request knows have been handed out. *)
KnownBy(r) ==
    /\ tx[r].account # None => tx[r].account < nextId
    /\ tx[r].secret # None => tx[r].secret < nextId

(* What a request has filled in when it gets to a statement. *)
FilledBy(r) ==
    /\ pc[r] # "idle" => tx[r].browser # None
    /\ pc[r] # "idle" /\ tx[r].op \in Forms => tx[r].email # None
    /\ pc[r] \in {"touch", "update", "select", "episode", "login"} => tx[r].account # None
    /\ pc[r] = "touch" => tx[r].account = tx[r].secret
    /\ pc[r] \in {"select", "episode"} => tx[r].op \in EpisodeUpdates
    /\ pc[r] = "insert" => tx[r].op = "signup"
    /\ pc[r] = "login" => tx[r].op = "login"
    /\ tx[r].status = "error" => pc[r] = "respond"

(* A row that a request has found is there until its account goes, and an  *)
(* account whose row it inserts cannot go.                                 *)
RowThere(r) ==
    LET a == tx[r].account
    IN  /\ tx[r].inserted => pc[r] = "episode" /\ account[a] # None /\ podcast[a] = None
        /\ pc[r] \in {"update", "select", "episode"} /\ ~tx[r].inserted
              => podcast[a] # None \/ account[a] = None

InsertsAlone(r) ==
    \A s \in Requests : tx[r].inserted /\ tx[s].inserted /\ tx[r].account = tx[s].account => r = s

(* The parts of FailsOnlyIfCleaned and SessionKept. *)
FailsFairly(r) ==
    tx[r].status = "error" =>
        \/ tx[r].op = "signup" /\ Taken(tx[r].email)
        \/ tx[r].account # None /\ account[tx[r].account] = None
KeepsSession(r) ==
    /\ pc[r] \notin {"idle", "auth"}
    /\ tx[r].op \in Gets \cup Mutations
    /\ tx[r].secret # None /\ account[tx[r].secret] # None
    => tx[r].account = tx[r].secret

RequestPart(r) == KnownBy(r) /\ FilledBy(r) /\ RowThere(r) /\ FailsFairly(r) /\ KeepsSession(r)
RequestInv(r) == RequestPart(r) /\ InsertsAlone(r)
TablesInv == AccountsWhole /\ LastWordWins /\ FreshIds
AInv == Types /\ TablesInv /\ BatchInside /\ JarsKnown /\ \A r \in Requests : RequestInv(r)
-----------------------------------------------------------------------------
(* Rows are rows, not None, and have the fields they are built from. *)
LEMMA AccountRowFacts ==
    ASSUME NEW e \in Emails \cup {None}, NEW s \in BOOLEAN
    PROVE  /\ AccountRow(e, s) \in AccountRows /\ AccountRow(e, s) # None
           /\ AccountRow(e, s).email = e
           /\ \A row \in AccountRows :
                 /\ [row EXCEPT !.seen = s] \in AccountRows /\ [row EXCEPT !.seen = s] # None
                 /\ [row EXCEPT !.seen = s].email = row.email
    BY NoneAssumption DEF AccountRow, AccountRows

LEMMA PodcastRowFacts ==
    /\ \A s, u \in BOOLEAN : PodcastRow(s, u) \in PodcastRows /\ PodcastRow(s, u) # None
    /\ IsSubscribed(PodcastRow(TRUE, FALSE))
    /\ ~IsSubscribed(PodcastRow(FALSE, FALSE)) /\ ~IsSubscribed(None)
    /\ \A row \in PodcastRows :
          /\ UnsubscribedRow(row) \in PodcastRows /\ UnsubscribedRow(row) # None
          /\ ~IsSubscribed(UnsubscribedRow(row))
<1>1. \A s, u \in BOOLEAN : PodcastRow(s, u) \in PodcastRows /\ PodcastRow(s, u) # None
    BY NoneAssumption DEF PodcastRow, PodcastRows
<1>2. /\ IsSubscribed(PodcastRow(TRUE, FALSE))
      /\ ~IsSubscribed(PodcastRow(FALSE, FALSE)) /\ ~IsSubscribed(None)
    BY <1>1 DEF PodcastRow, IsSubscribed
<1>3. ASSUME NEW row \in PodcastRows
      PROVE  /\ UnsubscribedRow(row) \in PodcastRows /\ UnsubscribedRow(row) # None
             /\ ~IsSubscribed(UnsubscribedRow(row))
    BY NoneAssumption DEF PodcastRows, IsSubscribed, UnsubscribedRow
<1> QED
    BY <1>1, <1>2, <1>3

(* An upsert and the history take note of the same change. *)
LEMMA EpisodeRowFacts ==
    ASSUME NEW row \in EpisodeRows \cup {None}, NEW w \in Wishes, NEW op \in EpisodeUpdates
    PROVE  /\ EpisodeRow(row, op) \in EpisodeRows /\ EpisodeRow(row, op) # None
           /\ Wished(w, op) \in Wishes /\ Wished(w, op).subscribed = w.subscribed
           /\ Unset(row) = [favorited |-> w.favorited, played |-> w.played]
                => Unset(EpisodeRow(row, op)) = [favorited |-> Wished(w, op).favorited,
                                                 played |-> Wished(w, op).played]
<1>1. Unset(row) \in EpisodeRows
    BY DEF Unset, EpisodeRows
<1>2. EpisodeRow(row, op) \in EpisodeRows /\ EpisodeRow(row, op) # None
    BY <1>1, NoneAssumption DEF EpisodeRow, FavoritedRow, PlayedRow, EpisodeRows, EpisodeUpdates
<1>3. Wished(w, op) \in Wishes /\ Wished(w, op).subscribed = w.subscribed
    BY DEF Wished, Wishes, EpisodeUpdates
<1>4. Unset(EpisodeRow(row, op)) = EpisodeRow(row, op)
    BY <1>2 DEF Unset
<1>5. ASSUME Unset(row) = [favorited |-> w.favorited, played |-> w.played]
      PROVE  EpisodeRow(row, op) = [favorited |-> Wished(w, op).favorited,
                                    played |-> Wished(w, op).played]
  <2>1. Unset(row).favorited = w.favorited /\ Unset(row).played = w.played
    BY <1>5
  <2>2. \A x \in EpisodeRows, f, p \in BOOLEAN :
            x.favorited = f /\ x.played = p => x = [favorited |-> f, played |-> p]
    BY DEF EpisodeRows
  <2>3. /\ Wished(w, op).favorited \in BOOLEAN /\ Wished(w, op).played \in BOOLEAN
        /\ EpisodeRow(row, op).favorited = Wished(w, op).favorited
        /\ EpisodeRow(row, op).played = Wished(w, op).played
    BY <1>1, <2>1 DEF EpisodeRow, FavoritedRow, PlayedRow, Wished, Wishes, EpisodeUpdates, EpisodeRows
  <2> QED
    BY <1>2, <2>2, <2>3
<1> QED
    BY <1>2, <1>3, <1>4, <1>5

(* A wish for nothing, and for one thing. *)
LEMMA WishFacts ==
    /\ NoWish \in Wishes /\ ~NoWish.subscribed /\ ~NoWish.favorited /\ ~NoWish.played
    /\ \A w \in Wishes : ~w.subscribed /\ ~w.favorited /\ ~w.played => w = NoWish
    /\ \A p \in BOOLEAN : /\ [NoWish EXCEPT !.played = p] \in Wishes
                          /\ ~[NoWish EXCEPT !.played = p].subscribed
                          /\ ~[NoWish EXCEPT !.played = p].favorited
                          /\ [NoWish EXCEPT !.played = p].played = p
<1>1. NoWish \in Wishes /\ ~NoWish.subscribed /\ ~NoWish.favorited /\ ~NoWish.played
    BY DEF NoWish, Wishes
<1>2. \A w \in Wishes : ~w.subscribed /\ ~w.favorited /\ ~w.played => w = NoWish
    BY DEF NoWish, Wishes
<1>3. ASSUME NEW p \in BOOLEAN, NEW w \in Wishes
      PROVE  /\ [w EXCEPT !.played = p] \in Wishes
             /\ [w EXCEPT !.played = p].subscribed = w.subscribed
             /\ [w EXCEPT !.played = p].favorited = w.favorited
             /\ [w EXCEPT !.played = p].played = p
    BY DEF Wishes
<1> QED
    BY <1>1, <1>2, <1>3

(* Transactions as requests begin them, and as they are changed. *)
LEMMA TxFacts ==
    /\ NoTx \in Transactions /\ NoTx.status = "ok" /\ ~NoTx.inserted
    /\ NoTx.account = None /\ NoTx.secret = None
    /\ \A b \in Browsers, op \in Operations, e \in Emails \cup {None}, s \in Ids \cup {None} :
          LET t == NewTx(b, op, e, s)
          IN  /\ t \in Transactions /\ t.status = "ok" /\ ~t.inserted
              /\ t.browser = b /\ t.op = op /\ t.email = e /\ t.secret = s /\ t.account = None
    BY DEF NoTx, NewTx, Transactions, Operations, Gets

(* One request moves on; the others stay. *)
LEMMA RequestMoves ==
    ASSUME Types, NEW r \in Requests, NEW t \in Transactions, NEW ph \in Phases,
           tx' = [tx EXCEPT ![r] = t], pc' = [pc EXCEPT ![r] = ph]
    PROVE  /\ tx'[r] = t /\ tx' \in [Requests -> Transactions]
           /\ pc'[r] = ph /\ pc' \in [Requests -> Phases]
           /\ \A s \in Requests \ {r} : tx'[s] = tx[s] /\ pc'[s] = pc[s]
    BY DEF Types

(* A transaction with other fields set. *)
LEMMA Refilled ==
    ASSUME NEW t \in Transactions, NEW a \in Ids \cup {None}, NEW s \in {"keep", "set", "remove"},
           NEW st \in {"ok", "user_error", "error"}, NEW b \in BOOLEAN
    PROVE  /\ [t EXCEPT !.account = a] \in Transactions
           /\ [t EXCEPT !.account = a, !.session = s] \in Transactions
           /\ [t EXCEPT !.session = s] \in Transactions
           /\ [t EXCEPT !.status = st] \in Transactions
           /\ [t EXCEPT !.inserted = b] \in Transactions
           /\ [t EXCEPT !.status = st, !.inserted = b] \in Transactions
<1>1. [t EXCEPT !.account = a] \in Transactions
    BY DEF Transactions
<1>2. [t EXCEPT !.account = a, !.session = s] \in Transactions
    BY DEF Transactions
<1>3. [t EXCEPT !.session = s] \in Transactions
    BY DEF Transactions
<1>4. [t EXCEPT !.status = st] \in Transactions
    BY DEF Transactions
<1>5. [t EXCEPT !.inserted = b] \in Transactions
    BY DEF Transactions
<1>6. [t EXCEPT !.status = st, !.inserted = b] \in Transactions
    BY DEF Transactions
<1> QED
    BY <1>1, <1>2, <1>3, <1>4, <1>5, <1>6

(* A row of account that is set to seen or not is still a row. *)
LEMMA SeenTypes ==
    ASSUME Types, NEW a \in Ids, account[a] # None, NEW s \in BOOLEAN
    PROVE  [account EXCEPT ![a].seen = s] \in [Ids -> AccountRows \cup {None}]
<1>1. account[a] \in AccountRows
    BY DEF Types
<1>2. [account[a] EXCEPT !.seen = s] \in AccountRows
    BY <1>1 DEF AccountRows
<1> QED
    BY <1>2 DEF Types

LEMMA RowTypes ==
    ASSUME Types, NEW a \in Ids
    PROVE  /\ account[a] # None => account[a] \in AccountRows
           /\ podcast[a] # None => podcast[a] \in PodcastRows
           /\ episode[a] \in EpisodeRows \cup {None}
           /\ wish[a] \in Wishes
    BY DEF Types

LEMMA TxFields ==
    ASSUME Types, NEW r \in Requests
    PROVE  /\ tx[r] \in Transactions
           /\ tx[r].account \in Ids \cup {None} /\ tx[r].secret \in Ids \cup {None}
           /\ tx[r].email \in Emails \cup {None} /\ tx[r].browser \in Browsers \cup {None}
           /\ tx[r].op \in Operations /\ tx[r].inserted \in BOOLEAN
           /\ tx[r].session \in {"keep", "set", "remove"}
<1>1. tx[r] \in Transactions
    BY DEF Types
<1> QED
    BY <1>1 DEF Transactions

(* What is left of a request that its handler has answered. *)
AnsweredAs(t, ph, r, status) ==
    \/ t = NoTx /\ ph = "idle" /\ status # "error"
    \/ /\ ph = "respond"
       /\ t = [tx[r] EXCEPT !.status = status, !.inserted = FALSE]

LEMMA AnswerFacts ==
    ASSUME Types, NEW r \in Requests, NEW status \in {"ok", "user_error", "error"},
           Answer(r, status)
    PROVE  \E t \in Transactions, ph \in Phases :
              /\ tx' = [tx EXCEPT ![r] = t] /\ pc' = [pc EXCEPT ![r] = ph]
              /\ AnsweredAs(t, ph, r, status)
<1>1. CASE status = "error" \/ tx[r].session # "keep"
  <2>1. [tx[r] EXCEPT !.status = status, !.inserted = FALSE] \in Transactions
    BY Refilled DEF Types
  <2> QED
    BY <1>1, <2>1 DEF Answer, Go, AnsweredAs, Phases
<1>2. CASE ~(status = "error" \/ tx[r].session # "keep")
    BY <1>2, TxFacts DEF Answer, Go, AnsweredAs, Phases
<1> QED
    BY <1>1, <1>2

(* Steps that read. *)
LEMMA AnswerTypes ==
    ASSUME Types, NEW r \in Requests, NEW status \in {"ok", "user_error", "error"},
           Answer(r, status)
    PROVE  tx' \in [Requests -> Transactions] /\ pc' \in [Requests -> Phases]
    BY AnswerFacts, RequestMoves

LEMMA InsertTypes ==
    ASSUME Types, NEW e \in Emails \cup {None}, InsertAccount(e)
    PROVE  /\ account' \in [Ids -> AccountRows \cup {None}]
           /\ key' \subseteq Ids /\ code' \subseteq Ids
           /\ nextId' \in 1..(MaxRequests + 2)
           /\ UNCHANGED <<podcast, episode, batch, cookie, requests, wish>>
<1>1. nextId \in Ids /\ AccountRow(e, TRUE) \in AccountRows
    BY AccountRowFacts DEF InsertAccount
<1>2. account' \in [Ids -> AccountRows \cup {None}]
    BY <1>1 DEF Types, InsertAccount
<1>3. key' \subseteq Ids /\ code' \subseteq Ids
    BY <1>1 DEF Types, InsertAccount, Keys, Codes
<1>4. nextId' \in 1..(MaxRequests + 2)
    BY <1>1, RequestsAssumption DEF Types, InsertAccount, Ids
<1> QED
    BY <1>2, <1>3, <1>4 DEF InsertAccount

LEMMA InitTypes == Init => Types
<1> SUFFICES ASSUME Init PROVE Types
    OBVIOUS
<1>1. PICK b \in Browsers \cup {None}, row \in {None, PodcastRow(TRUE, TRUE)} : Visited(b, row)
    BY DEF Init
<1>2. 1 \in Ids /\ nextId \in {1, 2} /\ key \subseteq {1}
  <2>1. Cardinality({}) = 0 /\ Cardinality({1}) = 1
    BY FS_EmptySet, FS_Singleton
  <2> QED
    BY <1>1, <2>1, RequestsAssumption DEF Visited, Ids
<1>3. /\ account \in [Ids -> AccountRows \cup {None}]
      /\ podcast \in [Ids -> PodcastRows \cup {None}]
      /\ cookie \in [Browsers -> Ids \cup {None}]
    BY <1>1, <1>2, AccountRowFacts, PodcastRowFacts DEF Visited
<1>4. episode \in [Ids -> EpisodeRows \cup {None}] /\ wish \in [Ids -> Wishes]
    BY <1>1 DEF Visited, EpisodeRows, Wishes, NoWish
<1>5. tx \in [Requests -> Transactions] /\ pc \in [Requests -> Phases]
    BY TxFacts DEF Init, Phases
<1>6. batch \in [accounts : SUBSET Ids, podcasts : SUBSET Ids, episodes : SUBSET Ids]
    BY DEF Init, NoBatch
<1> QED
    BY <1>2, <1>3, <1>4, <1>5, <1>6, RequestsAssumption DEF Types, Init

LEMMA SendTypes ==
    ASSUME Types, NEW r \in Requests, NEW b \in Browsers, NEW op \in Operations,
           NEW e \in Emails \cup {None}, Send(r, b, op, e)
    PROVE  Types'
<1>1. NewTx(b, op, e, cookie[b]) \in Transactions
    BY TxFacts DEF Types
<1>2. tx' \in [Requests -> Transactions] /\ pc' \in [Requests -> Phases]
    BY <1>1, RequestMoves DEF Send, Phases
<1> QED
    BY <1>2, RequestsAssumption DEF Types, Send, dbVars

LEMMA AuthenticateTypes ==
    ASSUME Types, NEW r \in Requests, FilledBy(r), Authenticate(r)
    PROVE  Types'
<1> USE RequestMoves, Refilled DEF Types
<1>1. CASE SelectKey(r)
  <2>1. tx[r].secret \in Ids
    BY <1>1 DEF SelectKey, Matches
  <2>2. [tx[r] EXCEPT !.account = tx[r].secret] \in Transactions
    BY <2>1
  <2> QED
    BY <1>1, <2>2 DEF SelectKey, Go, Phases, dbVars
<1>2. CASE TouchAndSelectAccount(r)
  <2>1. account' \in [Ids -> AccountRows \cup {None}]
    BY <1>2, TxFields, SeenTypes DEF TouchAndSelectAccount, FilledBy
  <2> QED
    BY <1>2, <2>1 DEF TouchAndSelectAccount, Go, Phases
<1>3. CASE TouchFails(r)
    BY <1>3, AnswerTypes DEF TouchFails, Fail, AnswerWithoutWriting, dbVars
<1>4. CASE NotCreated(r)
    BY <1>4 DEF NotCreated, Go, Phases, dbVars
<1>5. CASE CreateEphemeral(r)
  <2>1. nextId \in Ids
    BY <1>5 DEF CreateEphemeral, InsertAccount
  <2>2. [tx[r] EXCEPT !.account = nextId, !.session = "set"] \in Transactions
    BY <2>1
  <2> QED
    BY <1>5, <2>2, InsertTypes DEF CreateEphemeral, Go, Phases
<1> QED
    BY <1>1, <1>2, <1>3, <1>4, <1>5 DEF Authenticate

(* Handlers that change no row, and those that change one. *)
LEMMA ReadTypes ==
    ASSUME Types, NEW r \in Requests,
           \/ View(r) \/ Logout(r) \/ Unauthorized(r) \/ CheckAccountPodcast(r)
           \/ InsertAccountPodcast(r) \/ AccountPodcastConflict(r) \/ SelectAccountPodcast(r)
           \/ RowGone(r) \/ Invalid(r) \/ CheckExistingAccount(r) \/ EmailTaken(r)
           \/ SelectAccount(r)
    PROVE  Types'
<1> USE RequestMoves, Refilled DEF Types
<1>1. CASE View(r) \/ Unauthorized(r) \/ RowGone(r) \/ Invalid(r) \/ EmailTaken(r)
    BY <1>1, AnswerTypes
    DEF View, Unauthorized, RowGone, Invalid, SignUpInvalid, LogInInvalid, EmailTaken, Fail, AnswerWithoutWriting, dbVars
<1>2. CASE Logout(r)
  <2>1. [tx[r] EXCEPT !.session = "remove"] \in Transactions
    OBVIOUS
  <2> QED
    BY <1>2, <2>1 DEF Logout, Go, Phases, dbVars
<1>3. CASE \/ CheckAccountPodcast(r) \/ AccountPodcastConflict(r) \/ SelectAccountPodcast(r)
           \/ CheckExistingAccount(r)
    BY <1>3 DEF CheckAccountPodcast, AccountPodcastConflict, SelectAccountPodcast,
                CheckExistingAccount, Go, Phases, dbVars
<1>4. CASE InsertAccountPodcast(r)
  <2>1. [tx[r] EXCEPT !.inserted = TRUE] \in Transactions
    OBVIOUS
  <2> QED
    BY <1>4, <2>1 DEF InsertAccountPodcast, Go, Phases, dbVars
<1>5. CASE SelectAccount(r)
  <2>1. PICK a \in Ids : tx' = [tx EXCEPT ![r] = [@ EXCEPT !.account = a]]
    BY <1>5 DEF SelectAccount
  <2>2. [tx[r] EXCEPT !.account = a] \in Transactions
    OBVIOUS
  <2> QED
    BY <1>5, <2>1, <2>2 DEF SelectAccount, Go, Phases, dbVars
<1> QED
    BY <1>1, <1>2, <1>3, <1>4, <1>5

LEMMA WriteTypes ==
    ASSUME Types, NEW r \in Requests, FilledBy(r),
           \/ UpsertSubscribed(r) \/ NotSubscribed(r) \/ UpdateUnsubscribed(r) \/ UpsertEpisode(r)
           \/ InsertOwnedAccount(r) \/ TouchAccount(r)
    PROVE  Types'
<1> DEFINE a == tx[r].account
<1> USE RequestMoves, Refilled DEF Types
<1>1. ASSUME NEW f \in BOOLEAN
      PROVE  [wish EXCEPT ![a].subscribed = f] \in [Ids -> Wishes]
    BY DEF Wishes
<1>2. CASE UpsertSubscribed(r) \/ UpdateUnsubscribed(r) \/ NotSubscribed(r)
  <2>1. podcast' \in [Ids -> PodcastRows \cup {None}]
    <3>1. CASE UpsertSubscribed(r)
        BY <3>1, PodcastRowFacts DEF UpsertSubscribed, SubscribedRow
    <3>2. CASE UpdateUnsubscribed(r)
      <4>1. a \in Ids
        BY <3>2, TxFields DEF UpdateUnsubscribed, FilledBy
      <4>2. podcast[a] # None
        BY <3>2 DEF UpdateUnsubscribed
      <4>3. podcast[a] \in PodcastRows
        BY <4>1, <4>2, RowTypes
      <4> QED
        BY <3>2, <4>3, PodcastRowFacts DEF UpdateUnsubscribed
    <3>3. CASE NotSubscribed(r)
        BY <3>3 DEF NotSubscribed, dbVars
    <3> QED
        BY <1>2, <3>1, <3>2, <3>3
  <2> QED
    BY <1>1, <1>2, <2>1, AnswerTypes DEF UpsertSubscribed, UpdateUnsubscribed, NotSubscribed, dbVars
<1>3. CASE UpsertEpisode(r)
  <2>1. tx[r].op \in EpisodeUpdates /\ a \in Ids
    BY <1>3, TxFields DEF UpsertEpisode, FilledBy
  <2>2. /\ EpisodeRow(episode[a], tx[r].op) \in EpisodeRows
        /\ Wished(wish[a], tx[r].op) \in Wishes
    BY <2>1, EpisodeRowFacts
  <2>3. /\ podcast' \in [Ids -> PodcastRows \cup {None}]
        /\ episode' \in [Ids -> EpisodeRows \cup {None}]
        /\ wish' \in [Ids -> Wishes]
    BY <1>3, <2>1, <2>2, PodcastRowFacts DEF UpsertEpisode
  <2> QED
    BY <1>3, <2>3, AnswerTypes DEF UpsertEpisode
<1>4. CASE InsertOwnedAccount(r)
  <2>1. nextId \in Ids /\ tx[r].email \in Emails \cup {None}
    BY <1>4, TxFields DEF InsertOwnedAccount, InsertAccount
  <2>2. [tx[r] EXCEPT !.account = nextId, !.session = "set"] \in Transactions
    BY <2>1
  <2> QED
    BY <1>4, <2>1, <2>2, InsertTypes DEF InsertOwnedAccount, Go, Phases
<1>5. CASE TouchAccount(r)
  <2>0. a \in Ids
    BY <1>5, TxFields DEF TouchAccount, FilledBy
  <2>1. /\ [tx[r] EXCEPT !.session = "set"] \in Transactions
        /\ [tx[r] EXCEPT !.status = "error"] \in Transactions
    OBVIOUS
  <2>2. account' \in [Ids -> AccountRows \cup {None}]
    BY <1>5, <2>0, SeenTypes DEF TouchAccount
  <2>3. tx' \in [Requests -> Transactions] /\ pc' \in [Requests -> Phases]
    BY <1>5, <2>1 DEF TouchAccount, Go, Phases
  <2> QED
    BY <1>5, <2>2, <2>3 DEF TouchAccount
<1> QED
    BY <1>2, <1>3, <1>4, <1>5

LEMMA EndTypes ==
    ASSUME Types, NEW r \in Requests, FilledBy(r), Respond(r) \/ Lost(r)
    PROVE  Types'
<1>1. tx' \in [Requests -> Transactions] /\ pc' \in [Requests -> Phases]
    BY TxFacts, RequestMoves DEF Respond, Lost, End, Go, Phases
<1>2. cookie' \in [Browsers -> Ids \cup {None}]
    BY DEF Types, Respond, Lost, Transactions
<1> QED
    BY <1>1, <1>2 DEF Types, Respond, Lost, End, dbVars

LEMMA CleanTypes ==
    ASSUME Types, Clean \/ \E a \in Ids : Age(a)
    PROVE  Types'
<1>1. CASE \E a \in Ids : Age(a)
  <2>1. account' \in [Ids -> AccountRows \cup {None}]
    BY <1>1, SeenTypes DEF Age
  <2> QED
    BY <1>1, <2>1 DEF Types, Age
<1>2. CASE SelectExpired
    BY <1>2 DEF Types, SelectExpired, Expired, dbVars
<1>3. CASE DeleteBatch
    BY <1>3 DEF Types, DeleteBatch, NoBatch, NoWish, Wishes
<1>4. CASE BatchFails
    BY <1>4 DEF Types, BatchFails, NoBatch, dbVars
<1> QED
    BY <1>1, <1>2, <1>3, <1>4 DEF Clean

-----------------------------------------------------------------------------
(* What a step does to the tables that the requests in R rely on. *)
TablesKeep(R) ==
    /\ nextId <= nextId'
    /\ \A a \in Ids : a < nextId /\ account[a] = None => account'[a] = None
    /\ \A a \in Ids : account[a] # None /\ account[a].email # None
                         => account'[a] # None /\ account'[a].email = account[a].email
    /\ \A a \in Ids : podcast[a] # None => podcast'[a] # None \/ account'[a] = None
    /\ \A d \in R : tx[d].inserted => /\ account'[tx[d].account] # None
                                      /\ podcast'[tx[d].account] = None

LEMMA SameTables ==
    ASSUME AInv, UNCHANGED <<account, podcast, nextId>>
    PROVE  TablesKeep(Requests)
<1>1. nextId <= nextId'
    BY DEF AInv, Types
<1>2. \A d \in Requests : tx[d].inserted => account[tx[d].account] # None /\ podcast[tx[d].account] = None
    BY DEF AInv, RequestInv, RequestPart, RowThere
<1> QED
    BY <1>1, <1>2 DEF TablesKeep

LEMMA RequestKeeps ==
    ASSUME AInv, Types', NEW R \in SUBSET Requests, TablesKeep(R), NEW d \in R,
           tx'[d] = tx[d], pc'[d] = pc[d]
    PROVE  RequestPart(d)'
<1>1. RequestPart(d) /\ Types /\ d \in Requests
    BY DEF AInv, RequestInv
<1>2. tx[d].account \in Ids \cup {None} /\ tx[d].secret \in Ids \cup {None}
    BY <1>1, TxFields
<1>3. nextId \in Nat /\ nextId' \in Nat /\ Ids \subseteq Nat
    BY <1>1, RequestsAssumption DEF Types, Ids
<1>4. KnownBy(d)'
  <2>1. nextId <= nextId' /\ KnownBy(d)
    BY <1>1 DEF RequestPart, TablesKeep
  <2>2. tx[d].account # None => tx[d].account \in Nat /\ tx[d].account < nextId
    BY <1>2, <1>3, <2>1 DEF KnownBy
  <2>3. tx[d].secret # None => tx[d].secret \in Nat /\ tx[d].secret < nextId
    BY <1>2, <1>3, <2>1 DEF KnownBy
  <2>4. \A n \in Nat : n < nextId => n < nextId'
    BY <1>3, <2>1
  <2> QED
    BY <2>2, <2>3, <2>4 DEF KnownBy
<1>5. FilledBy(d)'
    BY <1>1 DEF RequestPart, FilledBy
<1>6. RowThere(d)'
  <2>1. tx[d].inserted => pc[d] = "episode"
    BY <1>1 DEF RequestPart, RowThere
  <2>2. ASSUME pc[d] \in {"update", "select", "episode"}, ~tx[d].inserted
        PROVE  podcast'[tx[d].account] # None \/ account'[tx[d].account] = None
    BY <1>1, <1>2, <2>2 DEF RequestPart, RowThere, FilledBy, KnownBy, TablesKeep
  <2> QED
    BY <2>1, <2>2 DEF RowThere, TablesKeep
<1>7. FailsFairly(d)'
  <2> SUFFICES ASSUME tx[d].status = "error"
               PROVE  \/ tx[d].op = "signup" /\ Taken(tx[d].email)'
                      \/ tx[d].account # None /\ account'[tx[d].account] = None
    BY DEF FailsFairly, Taken
  <2>1. CASE tx[d].op = "signup" /\ Taken(tx[d].email)
    <3>1. tx[d].email # None
        BY <1>1, <2>1 DEF RequestPart, FilledBy, Forms
    <3> QED
        BY <2>1, <3>1 DEF TablesKeep, Taken
  <2>2. CASE tx[d].account # None /\ account[tx[d].account] = None
    BY <1>1, <1>2, <2>2 DEF RequestPart, KnownBy, TablesKeep
  <2> QED
    BY <1>1, <2>1, <2>2 DEF RequestPart, FailsFairly
<1>8. KeepsSession(d)'
    BY <1>1, <1>2 DEF RequestPart, KeepsSession, KnownBy, TablesKeep
<1> QED
    BY <1>4, <1>5, <1>6, <1>7, <1>8 DEF RequestPart

(* A step of one request keeps what the others know, and establishes what  *)
(* it knows itself.                                                        *)
LEMMA OneMoves ==
    ASSUME AInv, Types', NEW r \in Requests, NEW t \in Transactions, NEW ph \in Phases,
           tx' = [tx EXCEPT ![r] = t], pc' = [pc EXCEPT ![r] = ph],
           TablesKeep(Requests \ {r}), RequestPart(r)',
           t.inserted => \A d \in Requests \ {r} : ~(tx[d].inserted /\ tx[d].account = t.account)
    PROVE  \A d \in Requests : RequestInv(d)'
<1>1. tx'[r] = t /\ \A d \in Requests \ {r} : tx'[d] = tx[d] /\ pc'[d] = pc[d]
    BY RequestMoves DEF AInv
<1>2. \A d \in Requests : InsertsAlone(d)'
  <2>1. \A d \in Requests : InsertsAlone(d)
    BY DEF AInv, RequestInv
  <2> QED
    BY <1>1, <2>1 DEF InsertsAlone
<1>3. \A d \in Requests \ {r} : RequestPart(d)'
    BY <1>1, RequestKeeps
<1> QED
    BY <1>2, <1>3 DEF RequestInv

(* A request that is answered.  It fails for a reason that lasts.          *)
LEMMA OneAnswered ==
    ASSUME AInv, Types', NEW r \in Requests, NEW status \in {"ok", "user_error", "error"},
           Answer(r, status), pc[r] \notin {"idle", "auth"},
           TablesKeep(Requests \ {r}),
           status = "error" =>
              \/ /\ tx[r].op = "signup"
                 /\ \E a \in Ids : account'[a] # None /\ account'[a].email = tx[r].email
              \/ tx[r].account # None /\ account'[tx[r].account] = None
    PROVE  \A d \in Requests : RequestInv(d)'
<1>0. Types /\ RequestPart(r)
    BY DEF AInv, RequestInv
<1>1. PICK t \in Transactions, ph \in Phases :
              /\ tx' = [tx EXCEPT ![r] = t] /\ pc' = [pc EXCEPT ![r] = ph]
              /\ AnsweredAs(t, ph, r, status)
    BY <1>0, AnswerFacts
<1>2. tx'[r] = t /\ pc'[r] = ph
    BY <1>0, <1>1, RequestMoves
<1>3. CASE t = NoTx /\ ph = "idle"
  <2>1. RequestPart(r)'
    BY <1>2, <1>3, TxFacts DEF RequestPart, KnownBy, FilledBy, RowThere, FailsFairly, KeepsSession
  <2> QED
    BY <1>1, <1>3, <2>1, OneMoves, TxFacts
<1>4. CASE ph = "respond" /\ t = [tx[r] EXCEPT !.status = status, !.inserted = FALSE]
  <2>1. tx[r] \in Transactions /\ tx[r].account \in Ids \cup {None} /\ tx[r].secret \in Ids \cup {None}
    BY <1>0, TxFields
  <2>2. /\ t.account = tx[r].account /\ t.secret = tx[r].secret /\ t.op = tx[r].op
        /\ t.email = tx[r].email /\ t.browser = tx[r].browser
        /\ t.status = status /\ ~t.inserted
    BY <1>4, <2>1 DEF Transactions
  <2>3. nextId \in Nat /\ nextId' \in Nat /\ Ids \subseteq Nat
    BY <1>0, RequestsAssumption DEF Types, Ids
  <2>4. KnownBy(r)'
    <3>1. nextId <= nextId' /\ KnownBy(r)
        BY <1>0 DEF RequestPart, TablesKeep
    <3>2. t.account # None => t.account \in Nat /\ t.account < nextId
        BY <2>1, <2>2, <2>3, <3>1 DEF KnownBy
    <3>3. t.secret # None => t.secret \in Nat /\ t.secret < nextId
        BY <2>1, <2>2, <2>3, <3>1 DEF KnownBy
    <3>4. \A n \in Nat : n < nextId => n < nextId'
        BY <2>3, <3>1
    <3> QED
        BY <1>2, <3>2, <3>3, <3>4 DEF KnownBy
  <2>5. FilledBy(r)'
    BY <1>0, <1>2, <1>4, <2>2 DEF RequestPart, FilledBy
  <2>6. RowThere(r)'
    BY <1>2, <1>4, <2>2 DEF RowThere
  <2>7. FailsFairly(r)'
    BY <1>2, <2>2 DEF FailsFairly, Taken
  <2>8. KeepsSession(r)'
    BY <1>0, <1>2, <2>1, <2>2 DEF RequestPart, KeepsSession, KnownBy, TablesKeep
  <2> QED
    BY <1>1, <2>2, <2>4, <2>5, <2>6, <2>7, <2>8, OneMoves DEF RequestPart
<1> QED
    BY <1>1, <1>3, <1>4 DEF AnsweredAs

(* Steps that leave the tables alone. *)
LEMMA TablesSame ==
    ASSUME AInv, Types', UNCHANGED <<dbVars, wish, batch, cookie>>,
           \A d \in Requests : RequestInv(d)'
    PROVE  AInv'
<1>1. TablesInv'
    BY DEF AInv, TablesInv, AccountsWhole, LastWordWins, FreshIds, dbVars
<1>2. BatchInside' /\ JarsKnown'
    BY DEF AInv, BatchInside, JarsKnown, dbVars
<1> QED
    BY <1>1, <1>2 DEF AInv

LEMMA ReadAnswered ==
    ASSUME AInv, Types', NEW r \in Requests, NEW status \in {"ok", "user_error", "error"},
           AnswerWithoutWriting(r, status), pc[r] \notin {"idle", "auth"},
           status = "error" => \/ tx[r].op = "signup" /\ Taken(tx[r].email)
                               \/ tx[r].account # None /\ account[tx[r].account] = None
    PROVE  AInv'
<1>1. UNCHANGED <<dbVars, wish, batch, cookie>> /\ Answer(r, status)
    BY DEF AnswerWithoutWriting
<1>2. TablesKeep(Requests \ {r})
    BY <1>1, SameTables DEF TablesKeep, dbVars
<1>3. \A d \in Requests : RequestInv(d)'
    BY <1>1, <1>2, OneAnswered DEF dbVars, Taken
<1> QED
    BY <1>1, <1>3, TablesSame

LEMMA ReadMoves ==
    ASSUME AInv, Types', NEW r \in Requests, NEW t \in Transactions, NEW ph \in Phases,
           tx' = [tx EXCEPT ![r] = t], pc' = [pc EXCEPT ![r] = ph],
           UNCHANGED <<dbVars, wish, batch, cookie>>, RequestPart(r)',
           t.inserted => \A d \in Requests \ {r} : ~(tx[d].inserted /\ tx[d].account = t.account)
    PROVE  AInv'
<1>1. TablesKeep(Requests \ {r})
    BY SameTables DEF TablesKeep, dbVars
<1>2. \A d \in Requests : RequestInv(d)'
    BY <1>1, OneMoves
<1> QED
    BY <1>2, TablesSame

-----------------------------------------------------------------------------
LEMMA SendInv ==
    ASSUME AInv, NEW r \in Requests, NEW b \in Browsers, NEW op \in Operations,
           NEW e \in Emails \cup {None}, op \in Forms => e \in Emails, Send(r, b, op, e)
    PROVE  AInv'
<1> DEFINE t == NewTx(b, op, e, cookie[b])
<1>1. Types /\ Types'
    BY SendTypes DEF AInv
<1>2. cookie[b] \in Ids \cup {None} /\ (cookie[b] # None => cookie[b] < nextId)
    BY <1>1 DEF AInv, JarsKnown, Types
<1>3. /\ t \in Transactions /\ t.status = "ok" /\ ~t.inserted
      /\ t.browser = b /\ t.op = op /\ t.email = e /\ t.secret = cookie[b] /\ t.account = None
    BY <1>2, TxFacts
<1>4. tx' = [tx EXCEPT ![r] = t] /\ pc' = [pc EXCEPT ![r] = "auth"] /\ "auth" \in Phases
    BY DEF Send, Phases
<1> HIDE DEF t
<1>5. tx'[r] = t /\ pc'[r] = "auth"
    BY <1>1, <1>3, <1>4, RequestMoves
<1>6. UNCHANGED <<dbVars, wish, batch, cookie>> /\ nextId' = nextId
    BY DEF Send, dbVars
<1>7. RequestPart(r)'
    BY <1>2, <1>3, <1>5, <1>6, NoneAssumption
    DEF RequestPart, KnownBy, FilledBy, RowThere, FailsFairly, KeepsSession
<1> QED
    BY <1>1, <1>3, <1>4, <1>6, <1>7, ReadMoves

(* The secret a request was sent with is all that it knows so far. *)
LEMMA NotAuthenticatedInv ==
    ASSUME AInv, NEW r \in Requests, SelectKey(r) \/ NotCreated(r)
    PROVE  AInv'
<1>1. Types /\ RequestPart(r) /\ TablesInv
    BY DEF AInv, RequestInv
<1>2. Types'
    BY <1>1, AuthenticateTypes DEF Authenticate, RequestPart
<1>3. tx[r] \in Transactions /\ tx[r].secret \in Ids \cup {None}
    BY <1>1, TxFields
<1>4. UNCHANGED <<dbVars, wish, batch, cookie>> /\ nextId' = nextId /\ account' = account
    BY DEF SelectKey, NotCreated, dbVars
<1>5. ~tx[r].inserted /\ tx[r].status # "error" /\ pc[r] = "auth"
    BY <1>1 DEF SelectKey, NotCreated, RequestPart, RowThere, FilledBy
<1>6. CASE SelectKey(r)
  <2> DEFINE t == [tx[r] EXCEPT !.account = tx[r].secret]
  <2>1. /\ t \in Transactions /\ t.account = tx[r].secret /\ t.secret = tx[r].secret
        /\ t.op = tx[r].op /\ t.email = tx[r].email /\ t.browser = tx[r].browser
        /\ t.status = tx[r].status /\ t.inserted = tx[r].inserted
    BY <1>3 DEF Transactions
  <2>2. tx' = [tx EXCEPT ![r] = t] /\ pc' = [pc EXCEPT ![r] = "touch"] /\ "touch" \in Phases
    BY <1>6 DEF SelectKey, Go, Phases
  <2> HIDE DEF t
  <2>3. tx'[r] = t /\ pc'[r] = "touch"
    BY <1>1, <2>1, <2>2, RequestMoves
  <2>4. tx[r].secret # None
    BY <1>6 DEF SelectKey, Matches
  <2>5. RequestPart(r)'
    BY <1>1, <1>4, <1>5, <2>1, <2>3, <2>4
    DEF RequestPart, KnownBy, FilledBy, RowThere, FailsFairly, KeepsSession
  <2> QED
    BY <1>2, <1>4, <1>5, <2>1, <2>2, <2>5, ReadMoves
<1>7. CASE NotCreated(r)
  <2>1. /\ tx' = [tx EXCEPT ![r] = tx[r]] /\ pc' = [pc EXCEPT ![r] = "handle"]
        /\ "handle" \in Phases
    BY <1>1, <1>7 DEF NotCreated, Go, Phases, Types
  <2>2. tx'[r] = tx[r] /\ pc'[r] = "handle"
    BY <1>1, <1>3, <2>1, RequestMoves
  <2>3. tx[r].secret # None => account[tx[r].secret] = None
    BY <1>1, <1>3, <1>7 DEF NotCreated, Matches, TablesInv, AccountsWhole
  <2>4. RequestPart(r)'
    BY <1>1, <1>4, <1>5, <2>2, <2>3
    DEF RequestPart, KnownBy, FilledBy, RowThere, FailsFairly, KeepsSession
  <2> QED
    BY <1>2, <1>3, <1>4, <1>5, <2>1, <2>4, ReadMoves
<1> QED
    BY <1>6, <1>7

(* Requests that are answered without a write. *)
LEMMA AnsweredInv ==
    ASSUME AInv, NEW r \in Requests,
           View(r) \/ Unauthorized(r) \/ Invalid(r) \/ RowGone(r) \/ EmailTaken(r) \/ TouchFails(r)
    PROVE  AInv'
<1>1. Types /\ RequestPart(r) /\ TablesInv
    BY DEF AInv, RequestInv
<1>2. Types'
    BY <1>1, ReadTypes, AuthenticateTypes DEF Authenticate, RequestPart
<1>3. CASE View(r) \/ Unauthorized(r) \/ Invalid(r)
    BY <1>2, <1>3, ReadAnswered DEF View, Unauthorized, Invalid, SignUpInvalid, LogInInvalid, Handling
<1>4. CASE EmailTaken(r)
    BY <1>1, <1>2, <1>4, ReadAnswered DEF EmailTaken, Fail, RequestPart, FilledBy
<1>5. CASE TouchFails(r)
    BY <1>1, <1>2, <1>5, ReadAnswered DEF TouchFails, Fail, RequestPart, FilledBy
<1>6. CASE RowGone(r)
  <2>1. tx[r].account # None /\ account[tx[r].account] = None /\ pc[r] \notin {"idle", "auth"}
    BY <1>1, <1>6 DEF RowGone, Acting, Handling, RequestPart, FilledBy, RowThere
  <2> QED
    BY <1>2, <1>6, <2>1, ReadAnswered DEF RowGone, Fail
<1> QED
    BY <1>3, <1>4, <1>5, <1>6

(* Handlers that get on with what they have read. *)
LEMMA HandlerMovesInv ==
    ASSUME AInv, NEW r \in Requests,
           \/ CheckAccountPodcast(r) \/ AccountPodcastConflict(r) \/ SelectAccountPodcast(r)
           \/ CheckExistingAccount(r)
    PROVE  AInv'
<1>1. Types /\ RequestPart(r)
    BY DEF AInv, RequestInv
<1>2. Types'
    BY <1>1, ReadTypes
<1>3. tx[r] \in Transactions
    BY <1>1, TxFields
<1>4. UNCHANGED <<dbVars, wish, batch, cookie>> /\ UNCHANGED <<account, podcast, nextId>>
    BY DEF CheckAccountPodcast, AccountPodcastConflict, SelectAccountPodcast, CheckExistingAccount,
           dbVars
<1>5. pc[r] \in {"handle", "select"} /\ tx' = [tx EXCEPT ![r] = tx[r]]
    BY <1>1 DEF CheckAccountPodcast, AccountPodcastConflict, SelectAccountPodcast,
                CheckExistingAccount, Acting, Handling, Types
<1>6. ~tx[r].inserted /\ tx[r].status # "error"
    BY <1>1, <1>5 DEF RequestPart, RowThere, FilledBy
<1>7. PICK ph \in {"update", "select", "episode", "insert"} :
        /\ pc' = [pc EXCEPT ![r] = ph]
        /\ ph = "insert" => tx[r].op = "signup"
        /\ ph \in {"select", "episode"} => tx[r].op \in EpisodeUpdates
        /\ ph # "insert" => tx[r].account # None /\ podcast[tx[r].account] # None
  <2>1. CASE CheckAccountPodcast(r)
    BY <2>1 DEF CheckAccountPodcast, Acting, AccountPodcastExists, Go
  <2>2. CASE AccountPodcastConflict(r)
    BY <2>2 DEF AccountPodcastConflict, Acting, Handling, Go
  <2>3. CASE SelectAccountPodcast(r)
    BY <1>1, <2>3 DEF SelectAccountPodcast, RequestPart, FilledBy, Go
  <2>4. CASE CheckExistingAccount(r)
    BY <2>4 DEF CheckExistingAccount, Handling, Go
  <2> QED
    BY <2>1, <2>2, <2>3, <2>4
<1>8. ph \in Phases
    BY DEF Phases
<1>9. tx'[r] = tx[r] /\ pc'[r] = ph
    BY <1>1, <1>3, <1>5, <1>7, <1>8, RequestMoves
<1>10. RequestPart(r)'
    BY <1>1, <1>4, <1>5, <1>6, <1>7, <1>9
    DEF RequestPart, KnownBy, FilledBy, RowThere, FailsFairly, KeepsSession
<1> QED
    BY <1>2, <1>3, <1>4, <1>5, <1>6, <1>7, <1>8, <1>10, ReadMoves

LEMMA LogoutInv ==
    ASSUME AInv, NEW r \in Requests, Logout(r)
    PROVE  AInv'
<1> DEFINE t == [tx[r] EXCEPT !.session = "remove"]
<1>1. Types /\ Types' /\ RequestPart(r)
    BY ReadTypes DEF AInv, RequestInv
<1>2. tx[r] \in Transactions
    BY <1>1, TxFields
<1>3. /\ t \in Transactions /\ t.account = tx[r].account /\ t.secret = tx[r].secret
      /\ t.op = tx[r].op /\ t.email = tx[r].email /\ t.browser = tx[r].browser
      /\ t.status = tx[r].status /\ t.inserted = tx[r].inserted
    BY <1>2 DEF Transactions
<1>4. tx' = [tx EXCEPT ![r] = t] /\ pc' = [pc EXCEPT ![r] = "respond"] /\ "respond" \in Phases
    BY DEF Logout, Go, Phases
<1> HIDE DEF t
<1>5. tx'[r] = t /\ pc'[r] = "respond"
    BY <1>1, <1>3, <1>4, RequestMoves
<1>6. UNCHANGED <<dbVars, wish, batch, cookie>> /\ UNCHANGED <<nextId, account>>
    BY DEF Logout, dbVars
<1>7. pc[r] = "handle" /\ ~tx[r].inserted /\ tx[r].status # "error"
    BY <1>1 DEF Logout, Handling, RequestPart, RowThere, FilledBy
<1>8. RequestPart(r)'
    BY <1>1, <1>3, <1>5, <1>6, <1>7
    DEF RequestPart, KnownBy, FilledBy, RowThere, FailsFairly, KeepsSession
<1> QED
    BY <1>1, <1>3, <1>4, <1>6, <1>7, <1>8, ReadMoves

(* An account_podcast is inserted by one transaction at a time. *)
LEMMA InsertAccountPodcastInv ==
    ASSUME AInv, NEW r \in Requests, InsertAccountPodcast(r)
    PROVE  AInv'
<1> DEFINE t == [tx[r] EXCEPT !.inserted = TRUE]
<1>1. Types /\ Types' /\ RequestPart(r)
    BY ReadTypes DEF AInv, RequestInv
<1>2. tx[r] \in Transactions
    BY <1>1, TxFields
<1>3. /\ t \in Transactions /\ t.account = tx[r].account /\ t.secret = tx[r].secret
      /\ t.op = tx[r].op /\ t.email = tx[r].email /\ t.browser = tx[r].browser
      /\ t.status = tx[r].status /\ t.inserted
    BY <1>2 DEF Transactions
<1>4. tx' = [tx EXCEPT ![r] = t] /\ pc' = [pc EXCEPT ![r] = "episode"] /\ "episode" \in Phases
    BY DEF InsertAccountPodcast, Go, Phases
<1> HIDE DEF t
<1>5. tx'[r] = t /\ pc'[r] = "episode"
    BY <1>1, <1>3, <1>4, RequestMoves
<1>6. UNCHANGED <<dbVars, wish, batch, cookie>> /\ UNCHANGED <<nextId, account, podcast>>
    BY DEF InsertAccountPodcast, dbVars
<1>7. /\ pc[r] = "handle" /\ tx[r].op \in EpisodeUpdates /\ tx[r].account # None
      /\ Inserting(tx[r].account) = {}
      /\ podcast[tx[r].account] = None /\ account[tx[r].account] # None
    BY DEF InsertAccountPodcast, Acting, Handling
<1>8. tx[r].status # "error"
    BY <1>1, <1>7 DEF RequestPart, FilledBy
<1>9. RequestPart(r)'
    BY <1>1, <1>3, <1>5, <1>6, <1>7, <1>8
    DEF RequestPart, KnownBy, FilledBy, RowThere, FailsFairly, KeepsSession
<1>10. \A d \in Requests \ {r} : ~(tx[d].inserted /\ tx[d].account = t.account)
    BY <1>3, <1>7 DEF Inserting
<1> QED
    BY <1>1, <1>3, <1>4, <1>6, <1>9, <1>10, ReadMoves

LEMMA SelectAccountInv ==
    ASSUME AInv, NEW r \in Requests, SelectAccount(r)
    PROVE  AInv'
<1>1. Types /\ Types' /\ RequestPart(r) /\ TablesInv
    BY ReadTypes DEF AInv, RequestInv
<1>2. PICK a \in Ids :
        /\ account[a] # None
        /\ tx' = [tx EXCEPT ![r] = [@ EXCEPT !.account = a]]
    BY DEF SelectAccount
<1> DEFINE t == [tx[r] EXCEPT !.account = a]
<1>3. tx[r] \in Transactions
    BY <1>1, TxFields
<1>4. /\ t \in Transactions /\ t.account = a /\ t.secret = tx[r].secret
      /\ t.op = tx[r].op /\ t.email = tx[r].email /\ t.browser = tx[r].browser
      /\ t.status = tx[r].status /\ t.inserted = tx[r].inserted
    BY <1>3 DEF Transactions
<1>5. tx' = [tx EXCEPT ![r] = t] /\ pc' = [pc EXCEPT ![r] = "login"] /\ "login" \in Phases
    BY <1>2 DEF SelectAccount, Go, Phases
<1> HIDE DEF t
<1>6. tx'[r] = t /\ pc'[r] = "login"
    BY <1>1, <1>4, <1>5, RequestMoves
<1>7. UNCHANGED <<dbVars, wish, batch, cookie>> /\ UNCHANGED <<nextId, account>>
    BY DEF SelectAccount, dbVars
<1>8. pc[r] = "handle" /\ tx[r].op = "login" /\ ~tx[r].inserted /\ tx[r].status # "error"
    BY <1>1 DEF SelectAccount, Handling, RequestPart, RowThere, FilledBy
<1>9. a < nextId /\ a # None
  <2>1. a \in Nat /\ nextId \in Nat
    BY <1>1, RequestsAssumption DEF Types, Ids
  <2>2. ~(a >= nextId)
    BY <1>1, <1>2 DEF TablesInv, FreshIds
  <2> QED
    BY <2>1, <2>2, NoneAssumption DEF Ids
<1>10. RequestPart(r)'
    BY <1>1, <1>4, <1>6, <1>7, <1>8, <1>9
    DEF RequestPart, KnownBy, FilledBy, RowThere, FailsFairly, KeepsSession, Gets, Mutations,
        EpisodeUpdates
<1> QED
    BY <1>1, <1>4, <1>5, <1>7, <1>8, <1>10, ReadMoves

(* A response, or none. *)
LEMMA EndInv ==
    ASSUME AInv, NEW r \in Requests, Respond(r) \/ Lost(r)
    PROVE  AInv'
<1>1. Types /\ RequestPart(r)
    BY DEF AInv, RequestInv
<1>2. Types'
    BY <1>1, EndTypes DEF RequestPart
<1>3. tx' = [tx EXCEPT ![r] = NoTx] /\ pc' = [pc EXCEPT ![r] = "idle"] /\ "idle" \in Phases
    BY DEF Respond, Lost, End, Go, Phases
<1>4. tx'[r] = NoTx /\ pc'[r] = "idle"
    BY <1>1, <1>3, TxFacts, RequestMoves
<1>5. UNCHANGED <<dbVars, wish, batch>> /\ UNCHANGED <<nextId, account, podcast>>
    BY DEF Respond, Lost, End, dbVars
<1>6. RequestPart(r)'
    BY <1>4, TxFacts DEF RequestPart, KnownBy, FilledBy, RowThere, FailsFairly, KeepsSession
<1>7. TablesKeep(Requests \ {r})
    BY <1>5, SameTables DEF TablesKeep
<1>8. \A d \in Requests : RequestInv(d)'
    BY <1>2, <1>3, <1>6, <1>7, TxFacts, OneMoves
<1>9. TablesInv' /\ BatchInside'
    BY <1>5 DEF AInv, TablesInv, AccountsWhole, LastWordWins, FreshIds, BatchInside, dbVars
<1>10. JarsKnown'
  <2>1. \A b \in Browsers : cookie'[b] \in {cookie[b], tx[r].account, None}
    BY <1>1 DEF Respond, Lost, Types
  <2> QED
    BY <1>1, <1>5, <2>1 DEF AInv, JarsKnown, RequestPart, KnownBy
<1> QED
    BY <1>2, <1>8, <1>9, <1>10 DEF AInv

-----------------------------------------------------------------------------
(* Whether an account has been seen is no part of the invariant. *)
LEMMA SeenChanges ==
    ASSUME AInv, Types', NEW a \in Ids, account[a] # None, NEW s \in BOOLEAN,
           account' = [account EXCEPT ![a].seen = s],
           UNCHANGED <<key, code, podcast, episode, nextId, wish>>
    PROVE  TablesInv' /\ TablesKeep(Requests)
<1>1. Types /\ TablesInv
    BY DEF AInv
<1>2. account[a] \in AccountRows
    BY <1>1, RowTypes
<1>3. \A x \in Ids : /\ account'[x] # None <=> account[x] # None
                     /\ account[x] # None => account'[x].email = account[x].email
  <2>1. \A x \in Ids \ {a} : account'[x] = account[x]
    BY <1>1 DEF Types
  <2>2. account'[a] = [account[a] EXCEPT !.seen = s]
    BY <1>1 DEF Types
  <2>3. account'[a] # None /\ account'[a].email = account[a].email
    BY <1>2, <2>2, AccountRowFacts
  <2> QED
    BY <2>1, <2>3
<1>4. AccountsWhole'
    BY <1>1, <1>3 DEF TablesInv, AccountsWhole
<1>5. LastWordWins' /\ FreshIds'
    BY <1>1, <1>3 DEF TablesInv, LastWordWins, FreshIds
<1>6. TablesKeep(Requests)
  <2>1. nextId <= nextId'
    BY <1>1 DEF Types
  <2>2. \A d \in Requests : tx[d].inserted =>
            /\ tx[d].account \in Ids
            /\ account[tx[d].account] # None /\ podcast[tx[d].account] = None
    <3> SUFFICES ASSUME NEW d \in Requests, tx[d].inserted
                 PROVE  /\ tx[d].account \in Ids
                        /\ account[tx[d].account] # None /\ podcast[tx[d].account] = None
        OBVIOUS
    <3>1. RequestPart(d)
        BY DEF AInv, RequestInv
    <3>2. tx[d].account \in Ids \cup {None}
        BY <1>1, TxFields
    <3> QED
        BY <3>1, <3>2 DEF RequestPart, RowThere, FilledBy
  <2> QED
    BY <1>3, <2>1, <2>2 DEF TablesKeep
<1> QED
    BY <1>4, <1>5, <1>6 DEF TablesInv

LEMMA AgeInv ==
    ASSUME AInv, NEW a \in Ids, Age(a)
    PROVE  AInv'
<1>1. Types'
    BY CleanTypes DEF AInv
<1>2. TablesInv' /\ TablesKeep(Requests)
    BY <1>1, SeenChanges DEF Age
<1>3. UNCHANGED <<tx, pc>>
    BY DEF Age
<1>4. \A d \in Requests : RequestInv(d)'
    BY <1>1, <1>2, <1>3, RequestKeeps DEF AInv, RequestInv, InsertsAlone
<1> QED
    BY <1>1, <1>2, <1>4 DEF AInv, Age, BatchInside, JarsKnown

LEMMA TouchAndSelectAccountInv ==
    ASSUME AInv, NEW r \in Requests, TouchAndSelectAccount(r)
    PROVE  AInv'
<1>1. Types /\ RequestPart(r)
    BY DEF AInv, RequestInv
<1>2. Types'
    BY <1>1, AuthenticateTypes DEF Authenticate, RequestPart
<1>3. /\ pc[r] = "touch" /\ tx[r].account \in Ids /\ tx[r].account = tx[r].secret
      /\ ~tx[r].inserted /\ tx[r].status # "error"
    BY <1>1, TxFields DEF TouchAndSelectAccount, RequestPart, FilledBy, RowThere
<1>4. TablesInv' /\ TablesKeep(Requests)
    BY <1>2, <1>3, SeenChanges DEF TouchAndSelectAccount
<1>5. /\ tx[r] \in Transactions /\ tx' = [tx EXCEPT ![r] = tx[r]]
      /\ pc' = [pc EXCEPT ![r] = "handle"] /\ "handle" \in Phases
    BY <1>1, TxFields DEF TouchAndSelectAccount, Go, Phases, Types
<1>6. tx'[r] = tx[r] /\ pc'[r] = "handle" /\ nextId' = nextId
    BY <1>1, <1>5, RequestMoves DEF TouchAndSelectAccount
<1>7. RequestPart(r)'
    BY <1>1, <1>3, <1>6
    DEF RequestPart, KnownBy, FilledBy, RowThere, FailsFairly, KeepsSession
<1>8. TablesKeep(Requests \ {r})
    BY <1>4 DEF TablesKeep
<1>9. \A d \in Requests : RequestInv(d)'
    BY <1>2, <1>3, <1>5, <1>7, <1>8, OneMoves
<1> QED
    BY <1>2, <1>4, <1>9 DEF AInv, TouchAndSelectAccount, BatchInside, JarsKnown

LEMMA TouchAccountInv ==
    ASSUME AInv, NEW r \in Requests, TouchAccount(r)
    PROVE  AInv'
<1> DEFINE a == tx[r].account
<1> DEFINE found == account[a] # None /\ a \in key
<1> DEFINE t == IF found THEN [tx[r] EXCEPT !.session = "set"] ELSE [tx[r] EXCEPT !.status = "error"]
<1>1. Types /\ RequestPart(r) /\ TablesInv
    BY DEF AInv, RequestInv
<1>2. Types'
    BY <1>1, WriteTypes DEF RequestPart
<1>3. /\ pc[r] = "login" /\ a \in Ids /\ a # None /\ tx[r].op = "login"
      /\ ~tx[r].inserted /\ tx[r].status # "error"
    BY <1>1, TxFields DEF TouchAccount, RequestPart, FilledBy, RowThere
<1>4. found <=> account[a] # None
    BY <1>1, <1>3 DEF TablesInv, AccountsWhole
<1>5. TablesInv' /\ TablesKeep(Requests) /\ (~found => account' = account)
  <2>1. CASE found
    BY <1>2, <1>3, <2>1, SeenChanges DEF TouchAccount
  <2>2. CASE ~found
    <3>1. UNCHANGED <<account, key, code, podcast, episode, nextId, wish>>
        BY <2>2 DEF TouchAccount
    <3> QED
        BY <1>1, <3>1, SameTables DEF TablesInv, AccountsWhole, LastWordWins, FreshIds
  <2> QED
    BY <2>1, <2>2
<1>6. tx[r] \in Transactions
    BY <1>1, TxFields
<1>7. /\ t \in Transactions /\ t.account = a /\ t.secret = tx[r].secret
      /\ t.op = tx[r].op /\ t.email = tx[r].email /\ t.browser = tx[r].browser
      /\ t.status = (IF found THEN tx[r].status ELSE "error") /\ t.inserted = tx[r].inserted
    BY <1>6 DEF Transactions
<1>8. /\ tx' = [tx EXCEPT ![r] = t] /\ pc' = [pc EXCEPT ![r] = "respond"]
      /\ "respond" \in Phases
    BY DEF TouchAccount, Go, Phases
<1> HIDE DEF t
<1>9. tx'[r] = t /\ pc'[r] = "respond" /\ nextId' = nextId
    BY <1>1, <1>7, <1>8, RequestMoves DEF TouchAccount
<1>10. RequestPart(r)'
    BY <1>1, <1>3, <1>4, <1>5, <1>7, <1>9
    DEF RequestPart, KnownBy, FilledBy, RowThere, FailsFairly, KeepsSession, Gets, Mutations,
        EpisodeUpdates
<1>11. TablesKeep(Requests \ {r})
    BY <1>5 DEF TablesKeep
<1>12. \A d \in Requests : RequestInv(d)'
    BY <1>2, <1>3, <1>7, <1>8, <1>10, <1>11, OneMoves
<1> QED
    BY <1>2, <1>5, <1>12 DEF AInv, TouchAccount, BatchInside, JarsKnown

(* A new account has an id that nobody knows. *)
LEMMA InsertChanges ==
    ASSUME AInv, Types', NEW e \in Emails \cup {None}, InsertAccount(e),
           e # None => ~Taken(e)
    PROVE  /\ TablesInv' /\ TablesKeep(Requests) /\ BatchInside' /\ JarsKnown'
           /\ nextId \in Ids /\ nextId # None /\ nextId < nextId' /\ nextId' \in Nat
           /\ account[nextId] = None
           /\ account'[nextId] # None /\ account'[nextId].email = e
<1>1. Types /\ TablesInv
    BY DEF AInv
<1>2. nextId \in Ids /\ nextId # None /\ nextId \in Nat /\ nextId' = nextId + 1
    BY <1>1, NoneAssumption, RequestsAssumption DEF InsertAccount, Ids
<1>3. account[nextId] = None /\ wish[nextId] = NoWish
    BY <1>1, <1>2 DEF TablesInv, FreshIds
<1>4. /\ account'[nextId] # None /\ account'[nextId].email = e
      /\ \A x \in Ids \ {nextId} : account'[x] = account[x]
    BY <1>1, <1>2, AccountRowFacts DEF InsertAccount, Types
<1>5. UNCHANGED <<podcast, episode, batch, cookie, wish>>
    BY DEF InsertAccount
<1>6. podcast[nextId] = None /\ episode[nextId] = None
    BY <1>1, <1>2, <1>3 DEF TablesInv, AccountsWhole
<1>7. AccountsWhole'
  <2>1. \A x \in Ids : x \in key' <=> x \in key \/ x = nextId
    BY DEF InsertAccount, Keys
  <2>2. \A x \in Ids : x \in code' <=> x \in code \/ (x = nextId /\ e # None)
    BY DEF InsertAccount, Codes
  <2>3. \A x \in Ids :
          /\ account'[x] # None <=> x \in key'
          /\ x \in code' <=> account'[x] # None /\ account'[x].email # None
          /\ podcast'[x] # None => account'[x] # None
          /\ episode'[x] # None => podcast'[x] # None
    BY <1>1, <1>2, <1>3, <1>4, <1>5, <2>1, <2>2 DEF TablesInv, AccountsWhole
  <2>4. \A x, y \in Ids : account'[x] # None /\ account'[y] # None
                            /\ account'[x].email = account'[y].email /\ account'[x].email # None => x = y
    <3>1. e # None => \A x \in Ids : account[x] # None => account[x].email # e
        BY DEF Taken
    <3>2. \A x, y \in Ids : account[x] # None /\ account[y] # None
                              /\ account[x].email = account[y].email /\ account[x].email # None => x = y
        BY <1>1 DEF TablesInv, AccountsWhole
    <3> QED
        BY <1>2, <1>4, <3>1, <3>2
  <2> QED
    BY <2>3, <2>4 DEF AccountsWhole
<1>8. LastWordWins'
  <2>1. \A x \in Ids \ {nextId} : account'[x] # None =>
            /\ IsSubscribed(podcast'[x]) <=> wish'[x].subscribed
            /\ Unset(episode'[x]) = [favorited |-> wish'[x].favorited, played |-> wish'[x].played]
    BY <1>1, <1>4, <1>5 DEF TablesInv, LastWordWins
  <2>2. /\ IsSubscribed(podcast'[nextId]) <=> wish'[nextId].subscribed
        /\ Unset(episode'[nextId]) = [favorited |-> wish'[nextId].favorited,
                                       played |-> wish'[nextId].played]
    <3>1. wish'[nextId] = NoWish /\ podcast'[nextId] = None /\ episode'[nextId] = None
        BY <1>3, <1>5, <1>6
    <3>2. /\ ~NoWish.subscribed /\ ~IsSubscribed(None)
          /\ Unset(None) = [favorited |-> NoWish.favorited, played |-> NoWish.played]
        BY PodcastRowFacts DEF NoWish, Unset
    <3> QED
        BY <3>1, <3>2
  <2> QED
    BY <2>1, <2>2 DEF LastWordWins
<1>9. FreshIds'
    BY <1>1, <1>2, <1>4, <1>5 DEF TablesInv, FreshIds, Ids
<1>10. TablesKeep(Requests)
  <2>1. \A d \in Requests : tx[d].inserted =>
            account[tx[d].account] # None /\ podcast[tx[d].account] = None
    BY DEF AInv, RequestInv, RequestPart, RowThere
  <2>2. \A d \in Requests : tx[d].account \in Ids \cup {None}
    BY <1>1, TxFields
  <2>3. \A d \in Requests : tx[d].inserted => tx[d].account # None
    BY DEF AInv, RequestInv, RequestPart, RowThere, FilledBy
  <2> QED
    <3>1. \A d \in Requests : tx[d].inserted => tx[d].account \in Ids \ {nextId}
        BY <1>3, <2>1, <2>2, <2>3
    <3>2. \A d \in Requests : tx[d].inserted => /\ account'[tx[d].account] # None
                                               /\ podcast'[tx[d].account] = None
        BY <1>4, <1>5, <2>1, <3>1
    <3>3. \A x \in Ids : x < nextId => x # nextId
        BY <1>2 DEF Ids
    <3>4. nextId <= nextId'
        BY <1>2
    <3> QED
        BY <1>2, <1>3, <1>4, <1>5, <3>2, <3>3, <3>4 DEF TablesKeep
<1>11. BatchInside' /\ JarsKnown'
  <2>1. \A b \in Browsers : cookie[b] # None => cookie[b] \in Nat
    BY <1>1, RequestsAssumption DEF Types, Ids
  <2> QED
    BY <1>2, <1>5, <2>1 DEF AInv, BatchInside, JarsKnown
<1> QED
    BY <1>2, <1>3, <1>4, <1>7, <1>8, <1>9, <1>10, <1>11 DEF TablesInv

LEMMA CreateEphemeralInv ==
    ASSUME AInv, NEW r \in Requests, CreateEphemeral(r)
    PROVE  AInv'
<1> DEFINE t == [tx[r] EXCEPT !.account = nextId, !.session = "set"]
<1>1. Types /\ RequestPart(r) /\ TablesInv
    BY DEF AInv, RequestInv
<1>2. Types'
    BY <1>1, AuthenticateTypes DEF Authenticate, RequestPart
<1>3. /\ TablesInv' /\ TablesKeep(Requests) /\ BatchInside' /\ JarsKnown'
      /\ nextId \in Ids /\ nextId # None /\ nextId < nextId' /\ nextId' \in Nat
      /\ account[nextId] = None
    BY <1>2, InsertChanges DEF CreateEphemeral
<1>4. tx[r] \in Transactions /\ tx[r].secret \in Ids \cup {None}
    BY <1>1, TxFields
<1>5. /\ t \in Transactions /\ t.account = nextId /\ t.secret = tx[r].secret
      /\ t.op = tx[r].op /\ t.email = tx[r].email /\ t.browser = tx[r].browser
      /\ t.status = tx[r].status /\ t.inserted = tx[r].inserted
    BY <1>3, <1>4 DEF Transactions
<1>6. tx' = [tx EXCEPT ![r] = t] /\ pc' = [pc EXCEPT ![r] = "handle"] /\ "handle" \in Phases
    BY DEF CreateEphemeral, Go, Phases
<1> HIDE DEF t
<1>7. tx'[r] = t /\ pc'[r] = "handle"
    BY <1>1, <1>5, <1>6, RequestMoves
<1>8. pc[r] = "auth" /\ ~tx[r].inserted /\ tx[r].status # "error"
    BY <1>1 DEF CreateEphemeral, RequestPart, RowThere, FilledBy
<1>9. tx[r].secret # None => tx[r].secret < nextId /\ tx[r].secret \in Nat
    BY <1>1, <1>4, RequestsAssumption DEF RequestPart, KnownBy, Ids
<1>10. tx[r].secret # None => account'[tx[r].secret] = None
  <2>1. tx[r].secret # None => account[tx[r].secret] = None
    BY <1>1, <1>4 DEF CreateEphemeral, Matches, TablesInv, AccountsWhole
  <2> QED
    BY <1>3, <1>4, <1>9, <2>1 DEF TablesKeep
<1>11. nextId \in Nat
    BY <1>3, RequestsAssumption DEF Ids
<1>12. KnownBy(r)'
    BY <1>3, <1>5, <1>7, <1>9, <1>11 DEF KnownBy
<1>13. RequestPart(r)'
    BY <1>1, <1>5, <1>7, <1>8, <1>10, <1>12
    DEF RequestPart, FilledBy, RowThere, FailsFairly, KeepsSession
<1>14. TablesKeep(Requests \ {r})
    BY <1>3 DEF TablesKeep
<1>15. \A d \in Requests : RequestInv(d)'
    BY <1>2, <1>5, <1>6, <1>8, <1>13, <1>14, OneMoves
<1> QED
    BY <1>2, <1>3, <1>15 DEF AInv

LEMMA InsertOwnedAccountInv ==
    ASSUME AInv, NEW r \in Requests, InsertOwnedAccount(r)
    PROVE  AInv'
<1> DEFINE t == [tx[r] EXCEPT !.account = nextId, !.session = "set"]
<1>1. Types /\ RequestPart(r)
    BY DEF AInv, RequestInv
<1>2. Types'
    BY <1>1, WriteTypes DEF RequestPart
<1>3. tx[r] \in Transactions /\ tx[r].email \in Emails \cup {None} /\ tx[r].secret \in Ids \cup {None}
    BY <1>1, TxFields
<1>4. /\ TablesInv' /\ TablesKeep(Requests) /\ BatchInside' /\ JarsKnown'
      /\ nextId \in Ids /\ nextId # None /\ nextId < nextId' /\ nextId' \in Nat
    BY <1>2, <1>3, InsertChanges DEF InsertOwnedAccount
<1>5. /\ t \in Transactions /\ t.account = nextId /\ t.secret = tx[r].secret
      /\ t.op = tx[r].op /\ t.email = tx[r].email /\ t.browser = tx[r].browser
      /\ t.status = tx[r].status /\ t.inserted = tx[r].inserted
    BY <1>3, <1>4 DEF Transactions
<1>6. tx' = [tx EXCEPT ![r] = t] /\ pc' = [pc EXCEPT ![r] = "respond"] /\ "respond" \in Phases
    BY DEF InsertOwnedAccount, Go, Phases
<1> HIDE DEF t
<1>7. tx'[r] = t /\ pc'[r] = "respond"
    BY <1>1, <1>5, <1>6, RequestMoves
<1>8. pc[r] = "insert" /\ tx[r].op = "signup" /\ ~tx[r].inserted /\ tx[r].status # "error"
    BY <1>1 DEF InsertOwnedAccount, RequestPart, RowThere, FilledBy
<1>9. /\ tx[r].secret # None => tx[r].secret < nextId /\ tx[r].secret \in Nat
      /\ nextId \in Nat
    BY <1>1, <1>3, <1>4, RequestsAssumption DEF RequestPart, KnownBy, Ids
<1>10. KnownBy(r)'
    BY <1>4, <1>5, <1>7, <1>9 DEF KnownBy
<1>11. RequestPart(r)'
    BY <1>1, <1>5, <1>7, <1>8, <1>10
    DEF RequestPart, FilledBy, RowThere, FailsFairly, KeepsSession, Gets, Mutations, EpisodeUpdates
<1>12. TablesKeep(Requests \ {r})
    BY <1>4 DEF TablesKeep
<1>13. \A d \in Requests : RequestInv(d)'
    BY <1>2, <1>5, <1>6, <1>8, <1>11, <1>12, OneMoves
<1> QED
    BY <1>2, <1>4, <1>13 DEF AInv

-----------------------------------------------------------------------------
(* A mutation that changes the rows of account a, as it was asked to.      *)
LEMMA RowChanges ==
    ASSUME AInv, Types', NEW a \in Ids, NEW R \in SUBSET Requests,
           UNCHANGED <<account, key, code, nextId>>,
           \A x \in Ids \ {a} : /\ podcast'[x] = podcast[x] /\ episode'[x] = episode[x]
                                /\ wish'[x] = wish[x],
           account[a] # None,
           podcast'[a] # None,
           IsSubscribed(podcast'[a]) <=> wish'[a].subscribed,
           Unset(episode'[a]) = [favorited |-> wish'[a].favorited, played |-> wish'[a].played],
           \A d \in R : ~(tx[d].inserted /\ tx[d].account = a)
    PROVE  TablesInv' /\ TablesKeep(R)
<1>1. Types /\ TablesInv
    BY DEF AInv
<1>2. AccountsWhole'
  <2>1. \A x \in Ids : /\ account'[x] # None <=> x \in key'
                       /\ x \in code' <=> account'[x] # None /\ account'[x].email # None
                       /\ podcast'[x] # None => account'[x] # None
                       /\ episode'[x] # None => podcast'[x] # None
    BY <1>1 DEF TablesInv, AccountsWhole
  <2> QED
    BY <1>1, <2>1 DEF TablesInv, AccountsWhole
<1>3. LastWordWins'
    BY <1>1 DEF TablesInv, LastWordWins
<1>4. FreshIds'
    BY <1>1 DEF TablesInv, FreshIds
<1>5. TablesKeep(R)
  <2>1. \A d \in R : tx[d].inserted => /\ tx[d].account \in Ids \ {a}
                                       /\ account[tx[d].account] # None
                                       /\ podcast[tx[d].account] = None
    <3> SUFFICES ASSUME NEW d \in R, tx[d].inserted
                 PROVE  /\ tx[d].account \in Ids \ {a}
                        /\ account[tx[d].account] # None /\ podcast[tx[d].account] = None
        OBVIOUS
    <3>1. RequestPart(d) /\ tx[d].account \in Ids \cup {None}
        BY <1>1, TxFields DEF AInv, RequestInv
    <3> QED
        BY <3>1 DEF RequestPart, RowThere, FilledBy
  <2>2. nextId <= nextId'
    BY <1>1 DEF Types
  <2> QED
    BY <2>1, <2>2 DEF TablesKeep
<1> QED
    BY <1>2, <1>3, <1>4, <1>5 DEF TablesInv

(* A request that is answered after its mutation. *)
LEMMA WriteAnswered ==
    ASSUME AInv, NEW r \in Requests, Types', Answer(r, "ok"), pc[r] \notin {"idle", "auth"},
           TablesInv', TablesKeep(Requests \ {r}), UNCHANGED <<nextId, batch, cookie>>
    PROVE  AInv'
<1>1. \A d \in Requests : RequestInv(d)'
    BY OneAnswered
<1> QED
    BY <1>1 DEF AInv, BatchInside, JarsKnown

LEMMA UpsertSubscribedInv ==
    ASSUME AInv, NEW r \in Requests, UpsertSubscribed(r)
    PROVE  AInv'
<1> DEFINE a == tx[r].account
<1>1. Types /\ RequestPart(r) /\ TablesInv
    BY DEF AInv, RequestInv
<1>2. Types'
    BY <1>1, WriteTypes DEF RequestPart
<1>3. pc[r] = "handle" /\ a \in Ids
    BY <1>1, TxFields DEF UpsertSubscribed, Acting, Handling
<1>4. account[a] # None
    BY <1>1, <1>3 DEF UpsertSubscribed, TablesInv, AccountsWhole
<1>5. /\ podcast'[a] = PodcastRow(TRUE, FALSE) /\ episode' = episode
      /\ wish'[a] = [wish[a] EXCEPT !.subscribed = TRUE]
      /\ \A x \in Ids \ {a} : podcast'[x] = podcast[x] /\ wish'[x] = wish[x]
    BY <1>1, <1>3 DEF UpsertSubscribed, SubscribedRow, Types
<1>6. /\ wish'[a].subscribed
      /\ wish'[a].favorited = wish[a].favorited /\ wish'[a].played = wish[a].played
  <2>1. wish[a] \in Wishes
    BY <1>1, <1>3, RowTypes
  <2> QED
    BY <1>5, <2>1 DEF Wishes
<1>7. \A d \in Requests : ~(tx[d].inserted /\ tx[d].account = a)
    BY DEF UpsertSubscribed, Inserting
<1>8. /\ podcast'[a] # None
      /\ IsSubscribed(podcast'[a]) <=> wish'[a].subscribed
      /\ Unset(episode'[a]) = [favorited |-> wish'[a].favorited, played |-> wish'[a].played]
    BY <1>1, <1>3, <1>4, <1>5, <1>6, PodcastRowFacts DEF TablesInv, LastWordWins
<1>9. UNCHANGED <<account, key, code, nextId, batch, cookie>> /\ Answer(r, "ok")
    BY DEF UpsertSubscribed
<1> HIDE DEF a
<1>10. TablesInv' /\ TablesKeep(Requests \ {r})
    BY <1>2, <1>3, <1>4, <1>5, <1>7, <1>8, <1>9, RowChanges
<1> QED
    BY <1>2, <1>3, <1>9, <1>10, WriteAnswered

(* Whoever is not subscribed has nothing to unsubscribe from. *)
LEMMA NotSubscribedInv ==
    ASSUME AInv, NEW r \in Requests, NotSubscribed(r)
    PROVE  AInv'
<1> DEFINE a == tx[r].account
<1>1. Types /\ RequestPart(r) /\ TablesInv
    BY DEF AInv, RequestInv
<1>2. Types'
    BY <1>1, WriteTypes DEF RequestPart
<1>3. pc[r] = "handle" /\ a \in Ids /\ podcast[a] = None
    BY <1>1, TxFields DEF NotSubscribed, Acting, Handling, AccountPodcastExists
<1>4. UNCHANGED <<dbVars, batch, cookie>> /\ Answer(r, "ok")
    BY DEF NotSubscribed
<1>5. UNCHANGED <<account, key, code, podcast, episode, nextId>>
    BY <1>4 DEF dbVars
<1>6. /\ wish'[a] = [wish[a] EXCEPT !.subscribed = FALSE]
      /\ \A x \in Ids \ {a} : wish'[x] = wish[x]
    BY <1>1, <1>3 DEF NotSubscribed, Types
<1>7. /\ ~wish'[a].subscribed
      /\ wish'[a].favorited = wish[a].favorited /\ wish'[a].played = wish[a].played
      /\ wish[a] = NoWish => wish'[a] = NoWish
  <2>1. wish[a] \in Wishes
    BY <1>1, <1>3, RowTypes
  <2>2. /\ wish'[a] \in Wishes /\ ~wish'[a].subscribed
        /\ wish'[a].favorited = wish[a].favorited /\ wish'[a].played = wish[a].played
    BY <1>6, <2>1 DEF Wishes
  <2> QED
    BY <2>2, WishFacts
<1> HIDE DEF a
<1>8. LastWordWins'
  <2>1. ~IsSubscribed(podcast'[a])
    BY <1>3, <1>5, PodcastRowFacts
  <2>2. account[a] # None => Unset(episode[a]) = [favorited |-> wish[a].favorited, played |-> wish[a].played]
    BY <1>1, <1>3 DEF TablesInv, LastWordWins
  <2>3. \A x \in Ids \ {a} : account'[x] # None =>
            /\ IsSubscribed(podcast'[x]) <=> wish'[x].subscribed
            /\ Unset(episode'[x]) = [favorited |-> wish'[x].favorited, played |-> wish'[x].played]
    BY <1>1, <1>5, <1>6 DEF TablesInv, LastWordWins
  <2> QED
    BY <1>3, <1>5, <1>7, <2>1, <2>2, <2>3 DEF LastWordWins
<1>9. FreshIds'
    BY <1>1, <1>3, <1>5, <1>6, <1>7 DEF TablesInv, FreshIds
<1>10. AccountsWhole'
    BY <1>1, <1>5 DEF TablesInv, AccountsWhole
<1>11. TablesKeep(Requests \ {r})
    BY <1>5, SameTables DEF TablesKeep
<1> QED
    BY <1>2, <1>3, <1>4, <1>5, <1>8, <1>9, <1>10, <1>11, WriteAnswered DEF TablesInv

LEMMA UpdateUnsubscribedInv ==
    ASSUME AInv, NEW r \in Requests, UpdateUnsubscribed(r)
    PROVE  AInv'
<1> DEFINE a == tx[r].account
<1>1. Types /\ RequestPart(r) /\ TablesInv
    BY DEF AInv, RequestInv
<1>2. Types'
    BY <1>1, WriteTypes DEF RequestPart
<1>3. pc[r] = "update" /\ podcast[a] # None
    BY DEF UpdateUnsubscribed
<1>4. a \in Ids
    BY <1>1, <1>3, TxFields DEF RequestPart, FilledBy
<1>5. account[a] # None /\ podcast[a] \in PodcastRows /\ wish[a] \in Wishes
    BY <1>1, <1>3, <1>4, RowTypes DEF TablesInv, AccountsWhole
<1>6. /\ podcast'[a] = UnsubscribedRow(podcast[a]) /\ episode' = episode
      /\ wish'[a] = [wish[a] EXCEPT !.subscribed = FALSE]
      /\ \A x \in Ids \ {a} : podcast'[x] = podcast[x] /\ wish'[x] = wish[x]
    BY <1>1, <1>4 DEF UpdateUnsubscribed, Types
<1>7. /\ ~wish'[a].subscribed
      /\ wish'[a].favorited = wish[a].favorited /\ wish'[a].played = wish[a].played
    BY <1>5, <1>6 DEF Wishes
<1>8. \A d \in Requests : ~(tx[d].inserted /\ tx[d].account = a)
    BY <1>3 DEF AInv, RequestInv, RequestPart, RowThere
<1>9. /\ podcast'[a] # None
      /\ IsSubscribed(podcast'[a]) <=> wish'[a].subscribed
      /\ Unset(episode'[a]) = [favorited |-> wish'[a].favorited, played |-> wish'[a].played]
    BY <1>1, <1>4, <1>5, <1>6, <1>7, PodcastRowFacts DEF TablesInv, LastWordWins
<1>10. UNCHANGED <<account, key, code, nextId, batch, cookie>> /\ Answer(r, "ok")
    BY DEF UpdateUnsubscribed
<1> HIDE DEF a
<1>11. TablesInv' /\ TablesKeep(Requests \ {r})
    BY <1>2, <1>4, <1>5, <1>6, <1>8, <1>9, <1>10, RowChanges
<1> QED
    BY <1>2, <1>3, <1>10, <1>11, WriteAnswered

(* The row it inserts nobody else does, and its account cannot go. *)
LEMMA UpsertEpisodeInv ==
    ASSUME AInv, NEW r \in Requests, UpsertEpisode(r)
    PROVE  AInv'
<1> DEFINE a == tx[r].account
<1> DEFINE op == tx[r].op
<1>1. Types /\ RequestInv(r) /\ RequestPart(r) /\ TablesInv
    BY DEF AInv, RequestInv
<1>2. Types'
    BY <1>1, WriteTypes DEF RequestPart
<1>3. pc[r] = "episode" /\ (tx[r].inserted \/ podcast[a] # None)
    BY DEF UpsertEpisode
<1>4. a \in Ids /\ op \in EpisodeUpdates
    BY <1>1, <1>3, TxFields DEF RequestPart, FilledBy
<1>5. account[a] # None /\ (tx[r].inserted => podcast[a] = None)
    BY <1>1, <1>3, <1>4 DEF TablesInv, AccountsWhole, RequestPart, RowThere
<1>6. /\ episode[a] \in EpisodeRows \cup {None} /\ wish[a] \in Wishes
      /\ IsSubscribed(podcast[a]) <=> wish[a].subscribed
      /\ Unset(episode[a]) = [favorited |-> wish[a].favorited, played |-> wish[a].played]
    BY <1>1, <1>4, <1>5, RowTypes DEF TablesInv, LastWordWins
<1>7. /\ podcast'[a] = IF tx[r].inserted THEN PodcastRow(FALSE, FALSE) ELSE podcast[a]
      /\ episode'[a] = EpisodeRow(episode[a], op)
      /\ wish'[a] = Wished(wish[a], op)
      /\ \A x \in Ids \ {a} : /\ podcast'[x] = podcast[x] /\ episode'[x] = episode[x]
                              /\ wish'[x] = wish[x]
    BY <1>1, <1>4 DEF UpsertEpisode, Types
<1>8. \A d \in Requests \ {r} : ~(tx[d].inserted /\ tx[d].account = a)
  <2>1. CASE tx[r].inserted
    BY <1>1, <2>1 DEF RequestInv, InsertsAlone
  <2>2. CASE podcast[a] # None
    BY <2>2 DEF AInv, RequestInv, RequestPart, RowThere
  <2> QED
    BY <1>3, <2>1, <2>2
<1>9. UNCHANGED <<account, key, code, nextId, batch, cookie>> /\ Answer(r, "ok")
    BY DEF UpsertEpisode
<1> HIDE DEF a, op
<1>10. podcast'[a] # None /\ (IsSubscribed(podcast'[a]) <=> IsSubscribed(podcast[a]))
    BY <1>3, <1>5, <1>7, PodcastRowFacts DEF a
<1>11. /\ wish'[a].subscribed = wish[a].subscribed
       /\ Unset(episode'[a]) = [favorited |-> wish'[a].favorited, played |-> wish'[a].played]
    BY <1>4, <1>6, <1>7, EpisodeRowFacts
<1>12. TablesInv' /\ TablesKeep(Requests \ {r})
    BY <1>2, <1>4, <1>5, <1>6, <1>7, <1>8, <1>9, <1>10, <1>11, RowChanges
<1> QED
    BY <1>2, <1>3, <1>9, <1>12, WriteAnswered

-----------------------------------------------------------------------------
LEMMA InitInv == Init => AInv
<1> SUFFICES ASSUME Init PROVE AInv
    OBVIOUS
<1>1. Types
    BY InitTypes
<1>2. PICK b \in Browsers \cup {None}, row \in {None, PodcastRow(TRUE, TRUE)} : Visited(b, row)
    BY DEF Init
<1> DEFINE known == IF b = None THEN {} ELSE {1}
<1>3. /\ Cardinality({}) = 0 /\ Cardinality({1}) = 1
    BY FS_EmptySet, FS_Singleton
<1>4. /\ nextId = IF b = None THEN 1 ELSE 2
      /\ \A a \in Ids : a < nextId <=> a \in known
    BY <1>2, <1>3, RequestsAssumption DEF Visited, Ids
<1>5. /\ key = known /\ code = {} /\ 1 # None
      /\ \A a \in Ids : account[a] = IF a \in known THEN AccountRow(None, TRUE) ELSE None
      /\ \A a \in Ids : podcast[a] = IF a \in known THEN row ELSE None
      /\ \A a \in Ids : episode[a] = IF podcast[a] = None THEN None
                                     ELSE [favorited |-> FALSE, played |-> TRUE]
      /\ \A a \in Ids : wish[a] = [NoWish EXCEPT !.played = podcast[a] # None]
      /\ \A c \in Browsers : cookie[c] # None => cookie[c] = 1 /\ b # None
  <2>1. code = {} /\ 1 # None
    BY RequestsAssumption, NoneAssumption DEF Init
  <2>2. \A c \in Browsers : cookie[c] # None => cookie[c] = 1 /\ b # None
    BY <1>2, NoneAssumption DEF Visited
  <2> QED
    BY <1>2, <2>1, <2>2 DEF Visited
<1> HIDE DEF known
<1>6. AccountRow(None, TRUE) # None /\ AccountRow(None, TRUE).email = None
    BY AccountRowFacts
<1>7. /\ ~IsSubscribed(None) /\ ~IsSubscribed(PodcastRow(TRUE, TRUE))
      /\ PodcastRow(TRUE, TRUE) # None
    BY PodcastRowFacts DEF IsSubscribed, PodcastRow
<1>8. /\ [favorited |-> FALSE, played |-> TRUE] # None
      /\ Unset(None) = [favorited |-> FALSE, played |-> FALSE]
      /\ Unset([favorited |-> FALSE, played |-> TRUE]) = [favorited |-> FALSE, played |-> TRUE]
  <2>1. [favorited |-> FALSE, played |-> TRUE] \in EpisodeRows
    BY DEF EpisodeRows
  <2>2. [favorited |-> FALSE, played |-> TRUE] # None
    BY <2>1, NoneAssumption DEF EpisodeRows
  <2> QED
    BY <2>2 DEF Unset
<1>9. \A a \in Ids : /\ ~wish[a].subscribed /\ ~wish[a].favorited
                     /\ wish[a].played <=> podcast[a] # None
    BY <1>5, WishFacts
<1>10. \A a \in Ids : podcast[a] = None => wish[a] = NoWish
    BY <1>1, <1>9, WishFacts DEF Types
<1>11. AccountsWhole
  <2>1. \A a \in Ids : /\ account[a] # None <=> a \in key
                       /\ a \in code <=> account[a] # None /\ account[a].email # None
                       /\ podcast[a] # None => account[a] # None
                       /\ episode[a] # None => podcast[a] # None
    BY <1>5, <1>6
  <2>2. \A a \in Ids : account[a] # None => account[a].email = None
    BY <1>5, <1>6
  <2> QED
    BY <2>1, <2>2 DEF AccountsWhole
<1>12. LastWordWins
  <2>1. ASSUME NEW a \in Ids
        PROVE  ~IsSubscribed(podcast[a]) /\ ~wish[a].subscribed
    <3>1. podcast[a] \in {None, PodcastRow(TRUE, TRUE)}
        BY <1>5
    <3>2. ~IsSubscribed(podcast[a])
        BY <1>7, <3>1
    <3> QED
        BY <1>9, <3>2
  <2>2. ASSUME NEW a \in Ids
        PROVE  Unset(episode[a]) = [favorited |-> wish[a].favorited, played |-> wish[a].played]
    <3>1. CASE podcast[a] = None
      <4>1. wish[a] = NoWish /\ NoWish.favorited = FALSE /\ NoWish.played = FALSE
        BY <1>10, <3>1 DEF NoWish
      <4>2. episode[a] = None
        BY <1>5, <3>1
      <4> QED
        BY <1>8, <4>1, <4>2
    <3>2. CASE podcast[a] # None
      <4>1. wish[a].favorited = FALSE /\ wish[a].played = TRUE
        BY <1>1, <1>9, <3>2 DEF Types, Wishes
      <4>2. episode[a] = [favorited |-> FALSE, played |-> TRUE]
        BY <1>5, <3>2
      <4> QED
        BY <1>8, <4>1, <4>2
    <3> QED
        BY <3>1, <3>2
  <2> QED
    BY <2>1, <2>2 DEF LastWordWins
<1>13. FreshIds
  <2>1. ASSUME NEW a \in Ids, a >= nextId PROVE a \notin known
    BY <1>1, <1>4, <2>1, RequestsAssumption DEF Types, Ids
  <2> QED
    BY <1>5, <1>10, <2>1 DEF FreshIds
<1>14. BatchInside
    BY DEF Init, NoBatch, BatchInside
<1>15. JarsKnown
    BY <1>4, <1>5 DEF JarsKnown
<1>16. \A r \in Requests : RequestInv(r)
  <2>1. \A r \in Requests : tx[r] = NoTx /\ pc[r] = "idle"
    BY DEF Init
  <2> QED
    BY <2>1, TxFacts DEF RequestInv, RequestPart, KnownBy, FilledBy, RowThere, InsertsAlone,
                         FailsFairly, KeepsSession
<1> QED
    BY <1>1, <1>11, <1>12, <1>13, <1>14, <1>15, <1>16 DEF AInv, TablesInv

(* A batch deletes the rows it has selected and whatever they refer to, or *)
(* fails.                                                                  *)
LEMMA DeleteBatchInv ==
    ASSUME AInv, DeleteBatch
    PROVE  AInv'
<1>1. Types /\ Types' /\ TablesInv /\ BatchInside
    BY CleanTypes DEF AInv, Clean
<1>2. \A a \in batch.accounts : /\ a \notin code
                                /\ podcast[a] # None => a \in batch.podcasts
                                /\ episode[a] # None => a \in batch.episodes
    BY DEF DeleteBatch, Referenced, EpisodesDeleted
<1>3. /\ \A a \in Ids : account'[a] = IF a \in batch.accounts THEN None ELSE account[a]
      /\ \A a \in Ids : podcast'[a] = IF a \in batch.podcasts THEN None ELSE podcast[a]
      /\ \A a \in Ids : episode'[a] = IF a \in batch.episodes THEN None ELSE episode[a]
      /\ \A a \in Ids : wish'[a] = IF a \in batch.accounts THEN NoWish ELSE wish[a]
      /\ key' = key \ batch.accounts /\ UNCHANGED <<code, nextId, pc, tx, cookie>>
      /\ batch' = NoBatch
    BY DEF DeleteBatch, EpisodesDeleted
<1>4. \A a \in Ids :
        /\ a \in batch.accounts => account'[a] = None /\ podcast'[a] = None /\ episode'[a] = None
        /\ a \notin batch.accounts => /\ account'[a] = account[a] /\ podcast'[a] = podcast[a]
                                      /\ episode'[a] = episode[a] /\ wish'[a] = wish[a]
    BY <1>1, <1>2, <1>3 DEF BatchInside
<1>5. AccountsWhole'
    BY <1>1, <1>2, <1>3, <1>4 DEF TablesInv, AccountsWhole
<1>6. LastWordWins'
    BY <1>1, <1>4 DEF TablesInv, LastWordWins
<1>7. FreshIds'
    BY <1>1, <1>3, <1>4 DEF TablesInv, FreshIds
<1>8. TablesKeep(Requests)
  <2>1. nextId <= nextId'
    BY <1>1, <1>3 DEF Types
  <2>2. \A a \in Ids : account[a] # None /\ account[a].email # None => a \notin batch.accounts
    BY <1>1, <1>2 DEF TablesInv, AccountsWhole
  <2>3. ASSUME NEW d \in Requests, tx[d].inserted
        PROVE  account'[tx[d].account] # None /\ podcast'[tx[d].account] = None
    <3>1. RequestPart(d) /\ tx[d].account \in Ids \cup {None}
        BY <1>1, TxFields DEF AInv, RequestInv
    <3>2. tx[d].account \in Ids /\ account[tx[d].account] # None /\ podcast[tx[d].account] = None
        BY <2>3, <3>1 DEF RequestPart, RowThere, FilledBy
    <3>3. tx[d].account \notin batch.accounts
        BY <2>3 DEF DeleteBatch, NobodyInserts, Inserting
    <3> QED
        BY <1>4, <3>2, <3>3
  <2> QED
    BY <1>4, <2>1, <2>2, <2>3 DEF TablesKeep
<1>9. \A d \in Requests : RequestInv(d)'
    BY <1>1, <1>3, <1>8, RequestKeeps DEF AInv, RequestInv, InsertsAlone
<1>10. BatchInside' /\ JarsKnown'
    BY <1>3 DEF AInv, BatchInside, NoBatch, JarsKnown
<1> QED
    BY <1>1, <1>5, <1>6, <1>7, <1>9, <1>10 DEF AInv, TablesInv

LEMMA CleanInv ==
    ASSUME AInv, Clean
    PROVE  AInv'
<1>1. CASE SelectExpired \/ BatchFails
  <2>1. Types /\ Types' /\ TablesInv
    BY CleanTypes DEF AInv
  <2>2. UNCHANGED <<dbVars, wish, pc, tx, cookie>> /\ UNCHANGED <<account, podcast, nextId>>
    BY <1>1 DEF SelectExpired, BatchFails, dbVars
  <2>3. TablesInv' /\ JarsKnown'
    BY <2>2 DEF AInv, TablesInv, AccountsWhole, LastWordWins, FreshIds, JarsKnown, dbVars
  <2>4. BatchInside'
    BY <1>1 DEF SelectExpired, BatchFails, NoBatch, BatchInside
  <2>5. \A d \in Requests : RequestInv(d)'
    BY <2>1, <2>2, SameTables, RequestKeeps DEF AInv, RequestInv, InsertsAlone
  <2> QED
    BY <2>1, <2>3, <2>4, <2>5 DEF AInv
<1>2. CASE DeleteBatch
    BY <1>2, DeleteBatchInv
<1> QED
    BY <1>1, <1>2 DEF Clean

LEMMA NextInv == AInv /\ [Next]_vars => AInv'
<1> SUFFICES ASSUME AInv, [Next]_vars PROVE AInv'
    OBVIOUS
<1>1. CASE \E a \in Ids : Age(a)
    BY <1>1, AgeInv
<1>2. ASSUME NEW r \in Requests, NEW b \in Browsers, NEW op \in Sent \ Forms, Send(r, b, op, None)
      PROVE  AInv'
    BY <1>2, SendInv, SentAssumption
<1>3. ASSUME NEW r \in Requests, NEW b \in Browsers, NEW op \in Sent \cap Forms,
             NEW e \in Emails, Send(r, b, op, e)
      PROVE  AInv'
    BY <1>3, SendInv, SentAssumption
<1>4. ASSUME NEW r \in Requests, Authenticate(r)
      PROVE  AInv'
    BY <1>4, NotAuthenticatedInv, TouchAndSelectAccountInv, AnsweredInv, CreateEphemeralInv
    DEF Authenticate
<1>5. ASSUME NEW r \in Requests, Handle(r)
      PROVE  AInv'
    BY <1>5, AnsweredInv, LogoutInv, UpsertSubscribedInv, HandlerMovesInv, NotSubscribedInv,
       UpdateUnsubscribedInv, InsertAccountPodcastInv, UpsertEpisodeInv, InsertOwnedAccountInv,
       SelectAccountInv, TouchAccountInv
    DEF Handle
<1>6. ASSUME NEW r \in Requests, Respond(r) \/ Lost(r)
      PROVE  AInv'
    BY <1>6, EndInv
<1>7. CASE Clean
    BY <1>7, CleanInv
<1>8. CASE UNCHANGED vars
    BY <1>8 DEF AInv, Types, TablesInv, AccountsWhole, LastWordWins, FreshIds, BatchInside,
                JarsKnown, RequestInv, RequestPart, KnownBy, FilledBy, RowThere, InsertsAlone,
                FailsFairly, KeepsSession, Taken, vars, dbVars
<1> QED
    BY <1>1, <1>2, <1>3, <1>4, <1>5, <1>6, <1>7, <1>8 DEF Next, Serve

(* The invariant, for any instance: whatever requests overlap with each    *)
(* other and with the cleaner.                                             *)
THEOREM Invariant == Spec => []AInv
<1>1. Init => AInv
    BY InitInv
<1>2. AInv /\ [Next]_vars => AInv'
    BY NextInv
<1> QED
    BY <1>1, <1>2, PTL DEF Spec

(* Every variable keeps its type. *)
THEOREM TypeCorrect == Spec => []TypeOK
<1>1. AInv => TypeOK
    BY DEF AInv, Types, TypeOK, AccountRows, PodcastRows, EpisodeRows, Phases, Transactions, Wishes
<1> QED
    BY <1>1, Invariant, PTL

(* No account without its key and no row without the one it refers to,     *)
(* though accounts are created, used and deleted at once.                  *)
THEOREM AccountsStayWhole == Spec => []AccountsWhole
<1>1. AInv => AccountsWhole
    BY DEF AInv, TablesInv
<1> QED
    BY <1>1, Invariant, PTL

(* The last mutation that went through wins, each in its own column, for   *)
(* any number of overlapping requests.                                     *)
THEOREM LastMutationWins == Spec => []LastWordWins
<1>1. AInv => LastWordWins
    BY DEF AInv, TablesInv
<1> QED
    BY <1>1, Invariant, PTL

(* An internal error is always the doing of the cleaner or of another      *)
(* sign-up, never of two mutations that overlap.                           *)
THEOREM FailsForCause == Spec => []FailsOnlyIfCleaned
<1>1. AInv => FailsOnlyIfCleaned
    BY DEF AInv, RequestInv, RequestPart, FailsFairly, FailsOnlyIfCleaned
<1> QED
    BY <1>1, Invariant, PTL

(* A request is served for the account of its session as long as that      *)
(* exists.                                                                 *)
THEOREM SessionStays == Spec => []SessionKept
<1>1. AInv => SessionKept
    BY DEF AInv, RequestInv, RequestPart, KeepsSession, SessionKept
<1> QED
    BY <1>1, Invariant, PTL

-----------------------------------------------------------------------------
(* What NothingLost says of a step and an account. *)
Kept(a) ==
    /\ account[a] # None /\ account[a].email # None => account'[a] # None
    /\ account'[a] # None =>
          /\ a \in key => a \in key'
          /\ podcast[a] # None => podcast'[a] # None
          /\ episode[a] # None => episode'[a] # None

LEMMA AccountsKept ==
    ASSUME Types, NEW r \in Requests, NEW a \in Ids, account[a] # None,
           \/ TouchAndSelectAccount(r) \/ TouchAccount(r)
           \/ \E e \in Emails \cup {None} : InsertAccount(e)
    PROVE  account'[a] # None
<1>1. account[a] \in AccountRows
    BY RowTypes
<1>2. \A s \in BOOLEAN : [account[a] EXCEPT !.seen = s] # None
    BY <1>1, AccountRowFacts
<1>4. CASE TouchAndSelectAccount(r)
    BY <1>2, <1>4 DEF TouchAndSelectAccount, Types
<1>5. CASE TouchAccount(r)
    BY <1>2, <1>5 DEF TouchAccount, Types
<1>6. CASE \E e \in Emails \cup {None} : InsertAccount(e)
    BY <1>6, AccountRowFacts DEF InsertAccount, Keys, Types
<1> QED
    BY <1>4, <1>5, <1>6

LEMMA MutationKeeps ==
    ASSUME Types, NEW r \in Requests, NEW a \in Ids, RequestPart(r),
           UpsertSubscribed(r) \/ UpdateUnsubscribed(r) \/ UpsertEpisode(r)
    PROVE  Kept(a)
<1>1. tx[r].account \in Ids
    BY TxFields DEF UpsertSubscribed, UpdateUnsubscribed, UpsertEpisode, Acting, RequestPart, FilledBy
<1>2. UNCHANGED <<account, key>>
    BY DEF UpsertSubscribed, UpdateUnsubscribed, UpsertEpisode
<1>3. CASE UpsertSubscribed(r)
    BY <1>1, <1>2, <1>3, PodcastRowFacts DEF UpsertSubscribed, SubscribedRow, Kept, Types
<1>4. CASE UpdateUnsubscribed(r)
  <2>1. podcast[tx[r].account] \in PodcastRows
    BY <1>1, <1>4, RowTypes DEF UpdateUnsubscribed
  <2>2. UnsubscribedRow(podcast[tx[r].account]) # None
    BY <2>1, PodcastRowFacts
  <2> QED
    BY <1>1, <1>2, <1>4, <2>2 DEF UpdateUnsubscribed, Kept, Types
<1>5. CASE UpsertEpisode(r)
  <2>1. EpisodeRow(episode[tx[r].account], tx[r].op) # None
    BY <1>1, <1>5, RowTypes, EpisodeRowFacts DEF UpsertEpisode, RequestPart, FilledBy
  <2>2. PodcastRow(FALSE, FALSE) # None
    BY PodcastRowFacts
  <2> QED
    BY <1>1, <1>2, <1>5, <2>1, <2>2 DEF UpsertEpisode, Kept, Types
<1> QED
    BY <1>3, <1>4, <1>5

LEMMA StepKeeps ==
    ASSUME AInv, [Next]_vars, NEW a \in Ids
    PROVE  Kept(a)
<1>1. Types /\ TablesInv /\ BatchInside /\ \A r \in Requests : RequestPart(r)
    BY DEF AInv, RequestInv
<1>2. ASSUME UNCHANGED <<key, podcast, episode>>, account[a] # None => account'[a] # None
      PROVE  Kept(a)
    BY <1>2 DEF Kept
<1>3. ASSUME NEW r \in Requests, NEW b \in Browsers, NEW op \in Operations, NEW e \in Emails \cup {None},
             Send(r, b, op, e)
      PROVE  Kept(a)
    BY <1>2, <1>3 DEF Send, dbVars
<1>4. ASSUME NEW x \in Ids, Age(x)
      PROVE  Kept(a)
  <2>1. account[a] # None => account'[a] # None
    BY <1>1, <1>4, RowTypes, AccountRowFacts DEF Age, Types
  <2> QED
    BY <1>2, <1>4, <2>1 DEF Age
<1>5. ASSUME NEW r \in Requests, Authenticate(r)
      PROVE  Kept(a)
  <2>1. CASE SelectKey(r) \/ TouchFails(r) \/ NotCreated(r)
    BY <1>2, <2>1 DEF SelectKey, TouchFails, Fail, AnswerWithoutWriting, NotCreated, dbVars
  <2>2. CASE TouchAndSelectAccount(r)
    BY <1>1, <1>2, <2>2, AccountsKept DEF TouchAndSelectAccount
  <2>3. CASE CreateEphemeral(r)
    <3>1. account[a] # None => account'[a] # None
        BY <1>1, <2>3, AccountsKept DEF CreateEphemeral
    <3> QED
        BY <2>3, <3>1 DEF CreateEphemeral, InsertAccount, Keys, Kept
  <2> QED
    BY <1>5, <2>1, <2>2, <2>3 DEF Authenticate
<1>6. ASSUME NEW r \in Requests, Handle(r)
      PROVE  Kept(a)
  <2>1. CASE \/ View(r) \/ Logout(r) \/ Unauthorized(r) \/ CheckAccountPodcast(r)
             \/ InsertAccountPodcast(r) \/ AccountPodcastConflict(r) \/ SelectAccountPodcast(r)
             \/ RowGone(r) \/ Invalid(r) \/ CheckExistingAccount(r) \/ EmailTaken(r)
             \/ SelectAccount(r) \/ NotSubscribed(r)
    BY <1>2, <2>1
    DEF View, Logout, Unauthorized, CheckAccountPodcast, InsertAccountPodcast, AccountPodcastConflict,
        SelectAccountPodcast, RowGone, Invalid, SignUpInvalid, LogInInvalid, CheckExistingAccount, EmailTaken, SelectAccount,
        NotSubscribed, Fail, AnswerWithoutWriting, dbVars
  <2>2. CASE UpsertSubscribed(r) \/ UpdateUnsubscribed(r) \/ UpsertEpisode(r)
    BY <1>1, <2>2, MutationKeeps
  <2>3. CASE InsertOwnedAccount(r)
    <3>1. tx[r].email \in Emails \cup {None}
        BY <1>1, TxFields
    <3>2. account[a] # None => account'[a] # None
        BY <1>1, <2>3, <3>1, AccountsKept DEF InsertOwnedAccount
    <3> QED
        BY <2>3, <3>2 DEF InsertOwnedAccount, InsertAccount, Keys, Kept
  <2>4. CASE TouchAccount(r)
    BY <1>1, <1>2, <2>4, AccountsKept DEF TouchAccount
  <2> QED
    BY <1>6, <2>1, <2>2, <2>3, <2>4 DEF Handle
<1>7. ASSUME NEW r \in Requests, Respond(r) \/ Lost(r)
      PROVE  Kept(a)
    BY <1>2, <1>7 DEF Respond, Lost, End, dbVars
<1>8. CASE SelectExpired \/ BatchFails \/ UNCHANGED vars
    BY <1>2, <1>8 DEF SelectExpired, BatchFails, vars, dbVars
<1>9. CASE DeleteBatch
  <2>1. a \in batch.accounts => account'[a] = None /\ a \notin code
    BY <1>9 DEF DeleteBatch, Referenced
  <2>2. a \notin batch.accounts =>
            /\ account'[a] = account[a] /\ podcast'[a] = podcast[a] /\ episode'[a] = episode[a]
            /\ a \in key => a \in key'
    BY <1>1, <1>9 DEF DeleteBatch, EpisodesDeleted, BatchInside
  <2>3. a \in code <=> account[a] # None /\ account[a].email # None
    BY <1>1 DEF TablesInv, AccountsWhole
  <2> QED
    BY <2>1, <2>2, <2>3 DEF Kept
<1> QED
    BY <1>3, <1>4, <1>5, <1>6, <1>7, <1>8, <1>9, SentAssumption DEF Next, Serve, Clean

(* An owned account is never deleted, and an account's rows are deleted    *)
(* with it or not at all.                                                  *)
THEOREM NothingIsLost == Spec => NothingLost
<1>1. AInv /\ [Next]_vars => [\A a \in Ids : Kept(a)]_vars
    BY StepKeeps
<1>2. [\A a \in Ids : Kept(a)]_vars =>
        [\A a \in Ids :
          /\ account[a] # None /\ account[a].email # None => account'[a] # None
          /\ account'[a] # None =>
                /\ a \in key => a \in key'
                /\ podcast[a] # None => podcast'[a] # None
                /\ episode[a] # None => episode'[a] # None]_vars
    BY DEF Kept
<1> QED
    BY <1>1, <1>2, Invariant, PTL DEF Spec, NothingLost
=============================================================================
