------------------------------ MODULE Accounts ------------------------------
(***************************************************************************)
(* Accounts on the web: a request passes the authenticator of              *)
(* middleware.rs, then its endpoint or GraphQL mutation, each of which is  *)
(* a message to one of the sync executors and runs mediators: account_     *)
(* creator, account_key_authenticator, account_password_authenticator,     *)
(* account_podcast_subscriber, account_podcast_episode_favoriter and       *)
(* account_podcast_episode_upserter.  The cleaner deletes ephemeral        *)
(* accounts that have not been seen for a month.                           *)
(*                                                                         *)
(* Each mediator is a transaction at READ COMMITTED, modelled statement by *)
(* statement; its last statement and the commit are one step.  An account, *)
(* its key and its code are inserted by one transaction and are one step.  *)
(*                                                                         *)
(* Abstractions.  There is one podcast with one episode.  A secret is the  *)
(* id of the account its only key is for, and that key never expires, as   *)
(* every key the program creates.  A password is right or wrong.  Times    *)
(* are set or not, and an account was last seen within a month or not.     *)
(***************************************************************************)
EXTENDS Naturals, FiniteSets

CONSTANTS
    Requests,     \* requests that are served at once
    Browsers,     \* each with a cookie jar
    Sent,         \* operations that are sent
    Emails,
    MaxRequests,  \* bound: requests that are sent
    None          \* no row, no secret, no account

ASSUME RequestsAssumption == MaxRequests \in Nat
ASSUME NoneAssumption ==
    /\ None \notin Emails /\ None \notin 1..(MaxRequests + 1) /\ None \notin Browsers
    /\ None \notin [email : Emails \cup {None}, seen : BOOLEAN]
    /\ None \notin [subscribed_at : BOOLEAN, unsubscribed_at : BOOLEAN]
    /\ None \notin [favorited : BOOLEAN, played : BOOLEAN]

Ids == 1..(MaxRequests + 1)
EpisodeUpdates == {"favorite", "unfavorite", "play", "unplay"}
Mutations == {"subscribe", "unsubscribe"} \cup EpisodeUpdates
Gets == {"view", "logout"}
Forms == {"login", "signup"}
Operations == Gets \cup Mutations \cup Forms

ASSUME SentAssumption == Sent \subseteq Operations

VARIABLES
    \* the database
    account,   \* [Ids -> [email, seen within a month] or None]
    key,       \* accounts with a key
    code,      \* accounts with a verification_code
    podcast,   \* account_podcast: [Ids -> [subscribed_at, unsubscribed_at] or None]
    episode,   \* account_podcast_episode: [Ids -> [favorited, played] or None]
    nextId,    \* account_id_seq
    \* the program
    pc,        \* what a request is about to do
    tx,        \* what it was sent with and has read, written and answered
    batch,     \* what the cleaner has selected
    cookie,    \* [Browsers -> secret or None]
    requests,  \* requests sent so far
    \* history
    wish       \* [Ids -> what the mutations that went through ask for]

dbVars == <<account, key, code, podcast, episode, nextId>>
vars == <<dbVars, pc, tx, batch, cookie, requests, wish>>

AccountRow(email, seen) == [email |-> email, seen |-> seen]
PodcastRow(subscribed, unsubscribed) ==
    [subscribed_at |-> subscribed, unsubscribed_at |-> unsubscribed]

(* inserted: whether its transaction has inserted an account_podcast;      *)
(* session: what its response does to the cookie.                          *)
NewTx(b, op, email, secret) ==
    [browser |-> b, op |-> op, email |-> email, secret |-> secret,
     account |-> None, inserted |-> FALSE, session |-> "keep", status |-> "ok"]
NoTx == NewTx(None, "view", None, None)
NoBatch == [accounts |-> {}, podcasts |-> {}, episodes |-> {}]
NoWish == [subscribed |-> FALSE, favorited |-> FALSE, played |-> FALSE]

(* Nobody has come before; or a visitor, who may have subscribed, listened *)
(* to the episode and unsubscribed.                                        *)
Visited(b, row) ==
    LET known == IF b = None THEN {} ELSE {1}
    IN  /\ cookie = [c \in Browsers |-> IF c = b THEN 1 ELSE None]
        /\ account = [a \in Ids |-> IF a \in known THEN AccountRow(None, TRUE) ELSE None]
        /\ key = known
        /\ nextId = Cardinality(known) + 1
        /\ podcast = [a \in Ids |-> IF a \in known THEN row ELSE None]
        /\ episode = [a \in Ids |-> IF podcast[a] = None THEN None
                                     ELSE [favorited |-> FALSE, played |-> TRUE]]
        /\ wish = [a \in Ids |-> [NoWish EXCEPT !.played = podcast[a] # None]]

Init ==
    /\ \E b \in Browsers \cup {None}, row \in {None, PodcastRow(TRUE, TRUE)} : Visited(b, row)
    /\ code = {}
    /\ pc = [r \in Requests |-> "idle"]
    /\ tx = [r \in Requests |-> NoTx]
    /\ batch = NoBatch
    /\ requests = 0

IsSubscribed(row) == row # None /\ row.subscribed_at /\ ~row.unsubscribed_at

(* The transactions that have inserted account a's account_podcast and not *)
(* yet committed: whoever inserts it as well waits for them, and so does   *)
(* whoever deletes the account.                                            *)
Inserting(a) == {r \in Requests : tx[r].inserted /\ tx[r].account = a}

(* A month passes. *)
Age(a) ==
    /\ account[a] # None /\ account[a].seen
    /\ account' = [account EXCEPT ![a].seen = FALSE]
    /\ UNCHANGED <<key, code, podcast, episode, nextId, pc, tx, batch, cookie, requests, wish>>

-----------------------------------------------------------------------------
(***************************************************************************)
(* A request and its response.                                             *)
(***************************************************************************)

(* The browser sends the cookie it has, whatever it is still waiting for.  *)
Send(r, b, op, email) ==
    /\ pc[r] = "idle"
    /\ requests < MaxRequests
    /\ requests' = requests + 1
    /\ pc' = [pc EXCEPT ![r] = "auth"]
    /\ tx' = [tx EXCEPT ![r] = NewTx(b, op, email, cookie[b])]
    /\ UNCHANGED <<dbVars, batch, cookie, wish>>

Go(r, to) == pc' = [pc EXCEPT ![r] = to]

(* The handler has its result, and its transaction has ended.  The         *)
(* response of a request that leaves the cookie alone is not followed.     *)
Answer(r, status) ==
    LET followed == status = "error" \/ tx[r].session # "keep"
    IN  /\ Go(r, IF followed THEN "respond" ELSE "idle")
        /\ tx' = [tx EXCEPT ![r] =
              IF followed THEN [@ EXCEPT !.status = status, !.inserted = FALSE] ELSE NoTx]

AnswerWithoutWriting(r, status) ==
    /\ Answer(r, status)
    /\ UNCHANGED <<dbVars, batch, cookie, requests, wish>>

(* An error, and the transaction is rolled back. *)
Fail(r) == AnswerWithoutWriting(r, "error")

End(r) ==
    /\ Go(r, "idle")
    /\ tx' = [tx EXCEPT ![r] = NoTx]
    /\ UNCHANGED <<dbVars, batch, requests, wish>>

(* Responses reach a browser in any order, and it keeps the last cookie.   *)
Respond(r) ==
    /\ pc[r] = "respond"
    /\ cookie' = [cookie EXCEPT ![tx[r].browser] =
                    CASE tx[r].session = "set" -> tx[r].account
                      [] tx[r].session = "remove" -> None
                      [] OTHER -> @]
    /\ End(r)

(* The process or the connection to the browser ends first. *)
Lost(r) ==
    /\ pc[r] # "idle"
    /\ End(r)
    /\ UNCHANGED cookie

-----------------------------------------------------------------------------
(***************************************************************************)
(* The authenticator.  A secret that no key matches is no error: such a    *)
(* request is one without a session.                                       *)
(***************************************************************************)
Matches_NotIfNull(secret) == FALSE
Matches(secret) == secret # None /\ secret \in key

SelectKey(r) ==
    /\ pc[r] = "auth"
    /\ Matches(tx[r].secret)
    /\ tx' = [tx EXCEPT ![r].account = tx[r].secret]
    /\ Go(r, "touch")
    /\ UNCHANGED <<dbVars, batch, cookie, requests, wish>>

TouchAndSelectAccount(r) ==
    LET a == tx[r].account
    IN  /\ pc[r] = "touch"
        /\ account[a] # None
        /\ account' = [account EXCEPT ![a].seen = TRUE]
        /\ Go(r, "handle")
        /\ UNCHANGED <<key, code, podcast, episode, nextId, tx, batch, cookie, requests, wish>>

(* The cleaner has been there since the key was read. *)
TouchFails(r) ==
    /\ pc[r] = "touch"
    /\ account[tx[r].account] = None
    /\ Fail(r)

(* A GET, a sign-up, or a bot. *)
NotCreated(r) ==
    /\ pc[r] = "auth"
    /\ ~Matches(tx[r].secret)
    /\ Go(r, "handle")
    /\ UNCHANGED <<dbVars, tx, batch, cookie, requests, wish>>

(* account_creator, with key_creator and verification_code_creator: what   *)
(* is inserted for an account.  The job that mails a code is JobWorker's.  *)
Keys == {nextId}
Codes(email) == IF email = None THEN {} ELSE {nextId}

InsertAccount(email) ==
    /\ nextId \in Ids                 \* bound
    /\ account' = [account EXCEPT ![nextId] = AccountRow(email, TRUE)]
    /\ key' = key \cup Keys
    /\ code' = code \cup Codes(email)
    /\ nextId' = nextId + 1
    /\ UNCHANGED <<podcast, episode, batch, cookie, requests, wish>>

(* The secret is set in the session before the handler runs, and stays     *)
(* there whatever the handler answers.                                     *)
CreateEphemeral(r) ==
    /\ pc[r] = "auth"
    /\ ~Matches(tx[r].secret)
    /\ tx[r].op \notin Gets \cup {"signup"}
    /\ InsertAccount(None)
    /\ tx' = [tx EXCEPT ![r] = [@ EXCEPT !.account = nextId, !.session = "set"]]
    /\ Go(r, "handle")

-----------------------------------------------------------------------------
(***************************************************************************)
(* Handlers.  The account they work for is the one the authenticator read, *)
(* whatever has become of it.                                              *)
(***************************************************************************)
Handling(r, ops) == pc[r] = "handle" /\ tx[r].op \in ops

View(r) == Handling(r, {"view"}) /\ AnswerWithoutWriting(r, "ok")

Logout(r) ==
    /\ Handling(r, {"logout"})
    /\ Go(r, "respond")
    /\ tx' = [tx EXCEPT ![r].session = "remove"]
    /\ UNCHANGED <<dbVars, batch, cookie, requests, wish>>

Unauthorized(r) ==
    /\ Handling(r, Mutations)
    /\ tx[r].account = None
    /\ AnswerWithoutWriting(r, "user_error")

Acting(r, ops) == Handling(r, ops) /\ tx[r].account # None

(* account_podcast_subscriber. *)
SubscribedRow(row) == PodcastRow(TRUE, FALSE)

UpsertSubscribed(r) ==
    LET a == tx[r].account
    IN  /\ Acting(r, {"subscribe"})
        /\ Inserting(a) = {}
        /\ podcast[a] # None \/ account[a] # None
        /\ podcast' = [podcast EXCEPT ![a] = SubscribedRow(@)]
        /\ wish' = [wish EXCEPT ![a].subscribed = TRUE]
        /\ Answer(r, "ok")
        /\ UNCHANGED <<account, key, code, episode, nextId, batch, cookie, requests>>

AccountPodcastExists_Assumed(a) == TRUE
AccountPodcastExists(a) == podcast[a] # None

CheckAccountPodcast(r) ==
    /\ Acting(r, {"unsubscribe"})
    /\ AccountPodcastExists(tx[r].account)
    /\ Go(r, "update")
    /\ UNCHANGED <<dbVars, tx, batch, cookie, requests, wish>>

NotSubscribed(r) ==
    LET a == tx[r].account
    IN  /\ Acting(r, {"unsubscribe"})
        /\ ~AccountPodcastExists(a)
        /\ wish' = [wish EXCEPT ![a].subscribed = FALSE]
        /\ Answer(r, "ok")
        /\ UNCHANGED <<dbVars, batch, cookie, requests>>

UnsubscribedRow_Deleted(row) == None
UnsubscribedRow(row) == [row EXCEPT !.unsubscribed_at = TRUE]

UpdateUnsubscribed(r) ==
    LET a == tx[r].account
    IN  /\ pc[r] = "update"
        /\ podcast[a] # None
        /\ podcast' = [podcast EXCEPT ![a] = UnsubscribedRow(@)]
        /\ wish' = [wish EXCEPT ![a].subscribed = FALSE]
        /\ Answer(r, "ok")
        /\ UNCHANGED <<account, key, code, episode, nextId, batch, cookie, requests>>

(* account_podcast_episode_favoriter and _upserter, which both begin with  *)
(* INSERT .. ON CONFLICT DO NOTHING.                                       *)
InsertAccountPodcast(r) ==
    LET a == tx[r].account
    IN  /\ Acting(r, EpisodeUpdates)
        /\ Inserting(a) = {}
        /\ podcast[a] = None /\ account[a] # None
        /\ tx' = [tx EXCEPT ![r].inserted = TRUE]
        /\ Go(r, "episode")
        /\ UNCHANGED <<dbVars, batch, cookie, requests, wish>>

AccountPodcastConflict(r) ==
    LET a == tx[r].account
    IN  /\ Acting(r, EpisodeUpdates)
        /\ Inserting(a) = {}
        /\ podcast[a] # None
        /\ Go(r, "select")
        /\ UNCHANGED <<dbVars, tx, batch, cookie, requests, wish>>

SelectAccountPodcast(r) ==
    /\ pc[r] = "select"
    /\ podcast[tx[r].account] # None
    /\ Go(r, "episode")
    /\ UNCHANGED <<dbVars, tx, batch, cookie, requests, wish>>

(* What an upsert makes of a row, none of which is set by default: either  *)
(* mutation writes its own columns, listened_seconds along with played.    *)
Unset(row) == IF row = None THEN [favorited |-> FALSE, played |-> FALSE] ELSE row

FavoritedRow_Reset(row, favorited) == [favorited |-> favorited, played |-> FALSE]
FavoritedRow(row, favorited) == [Unset(row) EXCEPT !.favorited = favorited]
PlayedRow(row, played) == [Unset(row) EXCEPT !.played = played]

EpisodeRow(row, op) ==
    CASE op = "favorite" -> FavoritedRow(row, TRUE)
      [] op = "unfavorite" -> FavoritedRow(row, FALSE)
      [] op = "play" -> PlayedRow(row, TRUE)
      [] op = "unplay" -> PlayedRow(row, FALSE)

Wished(w, op) ==
    CASE op = "favorite" -> [w EXCEPT !.favorited = TRUE]
      [] op = "unfavorite" -> [w EXCEPT !.favorited = FALSE]
      [] op = "play" -> [w EXCEPT !.played = TRUE]
      [] op = "unplay" -> [w EXCEPT !.played = FALSE]

UpsertEpisode(r) ==
    LET a == tx[r].account
    IN  /\ pc[r] = "episode"
        /\ tx[r].inserted \/ podcast[a] # None
        /\ podcast' = [podcast EXCEPT ![a] = IF tx[r].inserted THEN PodcastRow(FALSE, FALSE)
                                             ELSE @]
        /\ episode' = [episode EXCEPT ![a] = EpisodeRow(@, tx[r].op)]
        /\ wish' = [wish EXCEPT ![a] = Wished(@, tx[r].op)]
        /\ Answer(r, "ok")
        /\ UNCHANGED <<account, key, code, nextId, batch, cookie, requests>>

(* The row a statement needs, or the one it refers to, has been deleted.   *)
RowGone(r) ==
    LET a == tx[r].account
    IN  /\ \/ Acting(r, {"subscribe"} \cup EpisodeUpdates) /\ account[a] = None
           \/ pc[r] \in {"update", "select"}
           \/ pc[r] = "episode" /\ ~tx[r].inserted
        /\ podcast[a] = None
        /\ Fail(r)

-----------------------------------------------------------------------------
(***************************************************************************)
(* signup_post with account_creator, and login_post with                   *)
(* account_password_authenticator.                                         *)
(***************************************************************************)
Taken(email) == \E a \in Ids : account[a] # None /\ account[a].email = email

(* The form, the email or the password does not do, an account has the     *)
(* email already or none has it.                                           *)
SignUpInvalid(r) == Handling(r, {"signup"}) /\ AnswerWithoutWriting(r, "user_error")
LogInInvalid(r) == Handling(r, {"login"}) /\ AnswerWithoutWriting(r, "user_error")
Invalid(r) == SignUpInvalid(r) \/ LogInInvalid(r)

CheckExistingAccount(r) ==
    /\ Handling(r, {"signup"})
    /\ ~Taken(tx[r].email)
    /\ Go(r, "insert")
    /\ UNCHANGED <<dbVars, tx, batch, cookie, requests, wish>>

(* The password has been hashed in between. *)
InsertOwnedAccount(r) ==
    /\ pc[r] = "insert"
    /\ ~Taken(tx[r].email)
    /\ InsertAccount(tx[r].email)
    /\ tx' = [tx EXCEPT ![r] = [@ EXCEPT !.account = nextId, !.session = "set"]]
    /\ Go(r, "respond")

(* The unique index on email. *)
EmailTaken(r) ==
    /\ pc[r] = "insert"
    /\ Taken(tx[r].email)
    /\ Fail(r)

SelectAccount(r) ==
    /\ Handling(r, {"login"})
    /\ \E a \in Ids :
          /\ account[a] # None /\ account[a].email = tx[r].email
          /\ tx' = [tx EXCEPT ![r] = [@ EXCEPT !.account = a]]
    /\ Go(r, "login")
    /\ UNCHANGED <<dbVars, batch, cookie, requests, wish>>

(* touch_account, which locks the account, and select_key: either finds no *)
(* row if the account has gone.                                            *)
TouchAccount(r) ==
    LET a == tx[r].account
        found == account[a] # None /\ a \in key
    IN  /\ pc[r] = "login"
        /\ account' = IF found THEN [account EXCEPT ![a].seen = TRUE] ELSE account
        /\ tx' = [tx EXCEPT ![r] =
              IF found THEN [@ EXCEPT !.session = "set"] ELSE [@ EXCEPT !.status = "error"]]
        /\ Go(r, "respond")
        /\ UNCHANGED <<key, code, podcast, episode, nextId, batch, cookie, requests, wish>>

-----------------------------------------------------------------------------
(***************************************************************************)
(* The cleaner's account thread.  Its statement selects accounts and the   *)
(* rows to delete with them as they were when it began; it deletes an      *)
(* account that has been touched since all the same, as its condition on   *)
(* last_seen_at is not evaluated again.                                    *)
(***************************************************************************)
Expired == {a \in Ids : account[a] # None /\ account[a].email = None /\ ~account[a].seen}

SelectExpired ==
    /\ batch = NoBatch
    /\ Expired # {}
    /\ batch' = [accounts |-> Expired,
                 podcasts |-> {a \in Expired : podcast[a] # None},
                 episodes |-> {a \in Expired : episode[a] # None}]
    /\ UNCHANGED <<dbVars, pc, tx, cookie, requests, wish>>

EpisodesDeleted_None == {}
EpisodesDeleted == batch.episodes

(* Rows that the statement does not delete, as it has not seen them, refer *)
(* to one that it does.                                                    *)
Referenced_Never == FALSE
Referenced ==
    \E a \in batch.accounts :
        \/ a \in code
        \/ podcast[a] # None /\ a \notin batch.podcasts
        \/ episode[a] # None /\ a \notin EpisodesDeleted

NobodyInserts == \A a \in batch.accounts : Inserting(a) = {}

DeleteBatch ==
    /\ batch # NoBatch
    /\ NobodyInserts
    /\ ~Referenced
    /\ account' = [a \in Ids |-> IF a \in batch.accounts THEN None ELSE account[a]]
    /\ key' = key \ batch.accounts
    /\ podcast' = [a \in Ids |-> IF a \in batch.podcasts THEN None ELSE podcast[a]]
    /\ episode' = [a \in Ids |-> IF a \in EpisodesDeleted THEN None ELSE episode[a]]
    /\ wish' = [a \in Ids |-> IF a \in batch.accounts THEN NoWish ELSE wish[a]]
    /\ batch' = NoBatch
    /\ UNCHANGED <<code, nextId, pc, tx, cookie, requests>>

(* ON DELETE RESTRICT: the batch is rolled back and the process ends, to   *)
(* be started again.  A batch lost for another reason, with its process or *)
(* its connection, has no step: it leaves all as if it had not begun, and  *)
(* the one selected after it is a step of SelectExpired.                   *)
BatchFails ==
    /\ batch # NoBatch
    /\ NobodyInserts
    /\ Referenced
    /\ batch' = NoBatch
    /\ UNCHANGED <<dbVars, pc, tx, cookie, requests, wish>>

Clean == SelectExpired \/ DeleteBatch \/ BatchFails

Authenticate(r) ==
    \/ SelectKey(r) \/ TouchAndSelectAccount(r) \/ TouchFails(r)
    \/ NotCreated(r) \/ CreateEphemeral(r)

Handle(r) ==
    \/ View(r) \/ Logout(r) \/ Unauthorized(r)
    \/ UpsertSubscribed(r) \/ CheckAccountPodcast(r) \/ NotSubscribed(r)
    \/ UpdateUnsubscribed(r) \/ InsertAccountPodcast(r) \/ AccountPodcastConflict(r)
    \/ SelectAccountPodcast(r) \/ UpsertEpisode(r) \/ RowGone(r)
    \/ Invalid(r) \/ CheckExistingAccount(r) \/ InsertOwnedAccount(r) \/ EmailTaken(r)
    \/ SelectAccount(r) \/ TouchAccount(r)

Serve(r) == Authenticate(r) \/ Handle(r) \/ Respond(r)

Next ==
    \/ \E a \in Ids : Age(a)
    \/ \E r \in Requests :
          \/ \E b \in Browsers :
                \/ \E op \in Sent \ Forms : Send(r, b, op, None)
                \/ \E op \in Sent \cap Forms, email \in Emails : Send(r, b, op, email)
          \/ Serve(r)
          \/ Lost(r)
    \/ Clean

(***************************************************************************)
(* Executors take their messages and the cleaner runs again and again.     *)
(***************************************************************************)
Fairness == WF_vars(Clean) /\ \A r \in Requests : WF_vars(Serve(r))
Spec == Init /\ [][Next]_vars /\ Fairness

-----------------------------------------------------------------------------
TypeOK ==
    /\ account \in [Ids -> [email : Emails \cup {None}, seen : BOOLEAN] \cup {None}]
    /\ key \subseteq Ids /\ code \subseteq Ids
    /\ podcast \in [Ids -> [subscribed_at : BOOLEAN, unsubscribed_at : BOOLEAN] \cup {None}]
    /\ episode \in [Ids -> [favorited : BOOLEAN, played : BOOLEAN] \cup {None}]
    /\ nextId \in 1..(MaxRequests + 2)
    /\ pc \in [Requests -> {"idle", "auth", "touch", "handle", "update", "select",
                            "episode", "insert", "login", "respond"}]
    /\ tx \in [Requests ->
                  [browser : Browsers \cup {None}, op : Operations,
                   email : Emails \cup {None}, secret : Ids \cup {None},
                   account : Ids \cup {None}, inserted : BOOLEAN,
                   session : {"keep", "set", "remove"},
                   status : {"ok", "user_error", "error"}]]
    /\ batch \in [accounts : SUBSET Ids, podcasts : SUBSET Ids, episodes : SUBSET Ids]
    /\ cookie \in [Browsers -> Ids \cup {None}]
    /\ requests \in 0..MaxRequests
    /\ wish \in [Ids -> [subscribed : BOOLEAN, favorited : BOOLEAN, played : BOOLEAN]]

(* No account without its key, and no row without the one it refers to,    *)
(* however creations, mutations and batches interleave; an owned account   *)
(* has the code it is verified with, and an email is one account's.        *)
AccountsWhole ==
    /\ \A a \in Ids :
          /\ account[a] # None <=> a \in key
          /\ a \in code <=> account[a] # None /\ account[a].email # None
          /\ podcast[a] # None => account[a] # None
          /\ episode[a] # None => podcast[a] # None
    /\ \A a, b \in Ids : account[a] # None /\ account[b] # None /\ account[a].email = account[b].email
                           /\ account[a].email # None => a = b

(* What a user has left is never lost: an owned account stays, and the     *)
(* rows of an account are deleted with it or not at all, so that whoever   *)
(* unsubscribes and subscribes again finds what they have listened to.     *)
NothingLost ==
    [][\A a \in Ids :
          /\ account[a] # None /\ account[a].email # None => account'[a] # None
          /\ account'[a] # None =>
                /\ a \in key => a \in key'
                /\ podcast[a] # None => podcast'[a] # None
                /\ episode[a] # None => episode'[a] # None]_vars

(* The last mutation that went through wins, each in its own column: a     *)
(* subscription does not undo a favorite, nor a favorite what was played,  *)
(* whatever requests overlap on the same rows.                             *)
LastWordWins ==
    \A a \in Ids : account[a] # None =>
        /\ IsSubscribed(podcast[a]) <=> wish[a].subscribed
        /\ Unset(episode[a]) = [favorited |-> wish[a].favorited, played |-> wish[a].played]

(* The comment at account_podcast_subscriber.rs:95: as the row has been     *)
(* checked for existence, in the same transaction, the update of an        *)
(* unsubscription may expect a result.                                     *)
UnsubscribeFindsRow ==
    \A r \in Requests : pc[r] = "update" => podcast[tx[r].account] # None

(* A request fails with an internal error only if the cleaner has deleted  *)
(* the account it works for since it was authenticated, or another sign-up *)
(* was faster with the same email.                                         *)
FailsOnlyIfCleaned ==
    \A r \in Requests : tx[r].status = "error" =>
        \/ tx[r].op = "signup" /\ Taken(tx[r].email)
        \/ tx[r].account # None /\ account[tx[r].account] = None

(* As long as the account of its session exists, a request is served for   *)
(* that account and no other is created, unless it signs up or logs in.    *)
SessionKept ==
    \A r \in Requests :
        /\ pc[r] \notin {"idle", "auth"}
        /\ tx[r].op \in Gets \cup Mutations
        /\ tx[r].secret # None /\ account[tx[r].secret] # None
        => tx[r].account = tx[r].secret

(* An ephemeral account that is not seen for a month is deleted with all   *)
(* its rows, unless its user returns.                                      *)
CleanedInTheEnd == \A a \in Ids : a \in Expired ~> a \notin Expired
=============================================================================
