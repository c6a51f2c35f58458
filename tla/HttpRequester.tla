--------------------------- MODULE HttpRequester ---------------------------
(***************************************************************************)
(* HttpRequesterLive (http_requester.rs): one GET that follows redirects   *)
(* by recursion and returns a status, a body and the URL to remember.      *)
(*                                                                         *)
(* Each call of execute_inner has a frame: the URL it requests and the     *)
(* redirect it was answered with.  The recursion descends (phase request)  *)
(* and, once some call gets an answer that is no redirect, returns through *)
(* the frames again (phase return).  What a host answers is arbitrary, and *)
(* the same URL may be answered differently each time.  Headers, bodies    *)
(* and the gzip coding are left out, except that reading a body may fail.  *)
(***************************************************************************)
EXTENDS Naturals

CONSTANTS
    Urls,           \* URLs that are requested or named by a Location
    RedirectLimit,  \* REDIRECT_LIMIT
    None            \* no URL, no redirect, no answer

(* Redirecting statuses (3xx): the 308 that StatusCode::PermanentRedirect  *)
(* stands for, and all the others.                                         *)
Redirects == {"permanent_redirect", "other_redirect"}
Answers == {"ok", "other_status"}
Frame == [uri : Urls \cup {None}, redirect : Redirects \cup {None}]

ASSUME RedirectLimitAssumption == RedirectLimit \in Nat \ {0}
ASSUME NoneAssumption == None \notin Urls \cup Redirects \cup Answers

VARIABLES
    phase,   \* "idle", "request", "return", "done" or "failed"
    depth,   \* redirect_depth of the call that runs
    frames,  \* [0..RedirectLimit -> Frame], the calls that have begun
    status,  \* the status that is being returned
    uri,     \* the URL that is being returned
    last     \* history: the URL that gave the answer

vars == <<phase, depth, frames, status, uri, last>>

EmptyFrames == [d \in 0..RedirectLimit |-> [uri |-> None, redirect |-> None]]

Init ==
    /\ phase = "idle"
    /\ depth = 0
    /\ frames = EmptyFrames
    /\ status = None
    /\ uri = None
    /\ last = None

(* execute: a caller asks for a URL.  The requester keeps no state between *)
(* two calls.                                                              *)
Execute(url) ==
    /\ phase \in {"idle", "done", "failed"}
    /\ phase' = "request"
    /\ depth' = 0
    /\ frames' = [EmptyFrames EXCEPT ![0].uri = url]
    /\ status' = None
    /\ uri' = None
    /\ last' = None

(* The check that execute_inner begins with. *)
AtLimit_OffByOne(d) == d > RedirectLimit
AtLimit(d) == d >= RedirectLimit

Fail ==
    /\ phase' = "failed"
    /\ UNCHANGED <<depth, frames, status, uri, last>>

HitLimit ==
    /\ phase = "request"
    /\ AtLimit(depth)
    /\ Fail

(* The request or the reading of its body fails, or a redirect has no      *)
(* Location that is a URL; the `?` of every call passes the error on.      *)
RequestFails ==
    /\ phase = "request"
    /\ ~AtLimit(depth)
    /\ Fail

ChildDepth_NotIncremented(d) == d
ChildDepth(d) == d + 1

(* A redirection: the call recurses. *)
Redirected(redirect, target) ==
    /\ phase = "request"
    /\ ~AtLimit(depth)
    /\ frames' = [frames EXCEPT
          ![depth].redirect = redirect,
          ![ChildDepth(depth)] = [uri |-> target, redirect |-> None]]
    /\ depth' = ChildDepth(depth)
    /\ UNCHANGED <<phase, status, uri, last>>

(* Any other status: the call returns it with its own URL. *)
Answered(answer) ==
    /\ phase = "request"
    /\ ~AtLimit(depth)
    /\ phase' = "return"
    /\ status' = answer
    /\ uri' = frames[depth].uri
    /\ last' = frames[depth].uri
    /\ UNCHANGED <<depth, frames>>

(* The URL a call returns when the call below it returned status and       *)
(* last_uri.  `status` is the variable of the inner result, which shadows  *)
(* the status of the redirect this call was answered with.                 *)
ReturnedUri_Negated(d) ==
    IF status # "permanent_redirect" THEN uri ELSE frames[d].uri
ReturnedUri(d) ==
    IF status = "permanent_redirect" THEN uri ELSE frames[d].uri

Return ==
    /\ phase = "return"
    /\ depth > 0
    /\ depth' = depth - 1
    /\ uri' = ReturnedUri(depth - 1)
    /\ UNCHANGED <<phase, frames, status, last>>

Finish ==
    /\ phase = "return"
    /\ depth = 0
    /\ phase' = "done"
    /\ UNCHANGED <<depth, frames, status, uri, last>>

Step ==
    \/ HitLimit
    \/ RequestFails
    \/ \E redirect \in Redirects, target \in Urls : Redirected(redirect, target)
    \/ \E answer \in Answers : Answered(answer)
    \/ Return
    \/ Finish

Next == Step \/ \E url \in Urls : Execute(url)

Spec == Init /\ [][Next]_vars

(* A call that has begun goes on: every request has an outcome. *)
FairSpec == Spec /\ WF_vars(Step)

-----------------------------------------------------------------------------
(* The type of every variable. *)
TypeOK ==
    /\ phase \in {"idle", "request", "return", "done", "failed"}
    /\ depth \in 0..RedirectLimit
    /\ frames \in [0..RedirectLimit -> Frame]
    /\ status \in Answers \cup {None}
    /\ uri \in Urls \cup {None}
    /\ last \in Urls \cup {None}

(* No request is sent at the limit: every redirect that was followed came  *)
(* from a call below the limit and has a call of its own that took it on,  *)
(* and the answer that is returned came from below the limit as well.      *)
RequestsWithinLimit ==
    /\ \A d \in 0..RedirectLimit :
          frames[d].redirect # None => d < RedirectLimit /\ frames[d + 1].uri # None
    /\ phase = "return" => depth < RedirectLimit

(* podcast_updater never stores a location that was behind a temporary     *)
(* redirect: the URL returned was requested no later than the first call   *)
(* that was redirected for the time being.  Nothing is said of the         *)
(* permanent redirects before it, whose target may be remembered.          *)
TemporaryNotRemembered ==
    phase = "done" =>
        \A d \in 0..RedirectLimit :
            frames[d].redirect = "other_redirect"
                => uri \in {frames[e].uri : e \in 0..d}

(* Every call ends, even if hosts redirect in a cycle. *)
ExecuteReturns == phase = "request" ~> phase \in {"done", "failed"}

(* What the comment in execute_inner says: if we got a permanent redirect  *)
(* we return the final URI so that it can be persisted.  Here of a chain   *)
(* that consists of permanent redirects only.                              *)
PermanentRedirectPersisted ==
    phase = "done" /\ (\A d \in 0..RedirectLimit :
                          frames[d].redirect \in {None, "permanent_redirect"})
        => uri = last
=============================================================================
