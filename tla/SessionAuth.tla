------------------------------ MODULE SessionAuth ------------------------------
(***************************************************************************)
(* The life of one browser session (services/session_auth.py) and of the   *)
(* sockets opened with its cookie (services/realtime.py).  The session     *)
(* object lives in the process's memory and, where persistence is on, as a *)
(* row of todo_sessions.  Requests and socket checks look it up and renew  *)
(* its tokens in worker threads; logout, the registration of sockets and   *)
(* their disconnection run on the event loop.                              *)
(*                                                                         *)
(* Refresh tokens are numbered in the order the auth service issues them;  *)
(* 0 is the empty token of an offline session.  A session carries the      *)
(* identity of its refresh lock, which together with the token identifies  *)
(* the Python object.                                                      *)
(***************************************************************************)
EXTENDS Naturals

CONSTANTS Workers,      \* threads of the default executor
          Sockets,      \* browser sockets that connect with the cookie
          MaxTokens,    \* bound of the runs: refresh tokens issued
          MaxRequests,  \* bound of the runs: HTTP requests and connections
          MaxTroubles   \* bound of the runs: failed database calls and restarts

ASSUME SessionAssumption ==
    /\ Workers # {}
    /\ {"http", "dropped"} \cap Sockets = {}
    /\ MaxTokens \in Nat /\ MaxRequests \in Nat /\ MaxTroubles \in Nat

VARIABLES persist,   \* TODO_SESSION_DB_PERSISTENCE
          local,     \* TODO_LOCAL_SESSION_ENABLED in the sync client's role
          mem,       \* _sessions[session_id]
          db,        \* the row of todo_sessions
          locks,     \* refresh locks created
          thread,    \* the calls in the worker threads
          out, seen, popped,  \* the logout handler
          sock, watch, kick,  \* RealtimeServer
          issued, valid, due, \* the auth service: tokens, usable ones, access expiring
          clean,     \* history: no refresh token was lost or withdrawn
          requests, faults, restarts

modes == <<persist, local>>
session == <<mem, db, locks>>
logout == <<out, seen, popped>>
sockets == <<sock, watch, kick>>
auth == <<issued, valid, due, clean>>
counts == <<requests, faults, restarts>>
vars == <<modes, session, thread, logout, sockets, auth, counts>>

Session(token, lock, offline) == [token |-> token, lock |-> lock, offline |-> offline]
NoSession == Session(0, 0, FALSE)
AnySession == [token : 0 .. MaxTokens, lock : Nat, offline : BOOLEAN]

\* _serialize_session keeps everything but the lock.
Row(s) == [s EXCEPT !.lock = 0]

\* access_token_expires_at - time() <= 30; offline sessions never expire.
Due(s) == s.token \in due

(***************************************************************************)
(* A validation of the session: where it is, who awaits it, its locals.    *)
(* It begins with a lookup of the handler ("seek", on the event loop) and  *)
(* goes on as a call of _refresh_if_needed_sync in a thread, which looks   *)
(* up again ("find").  Between calls a thread keeps nothing.               *)
(***************************************************************************)
Call(at, goal) == [at |-> at, goal |-> goal, mine |-> NoSession, back |-> "find",
                   asked |-> 0, got |-> 0, held |-> 0]
Idle(t) == thread[t].at = "idle"
Lookups == {"seek", "find", "locked", "offline"}
Results == {"ok", "denied", "broken"}
AnyCall ==
    [at : Lookups \cup Results \cup {"idle", "load", "wait", "ask", "answered", "giveback",
                                     "store", "swap", "drop", "erase"},
     goal : Sockets \cup {"http", "dropped"},
     mine : AnySession, back : Lookups,
     asked : 0 .. MaxTokens, got : 0 .. MaxTokens, held : Nat]

TypeOK ==
    /\ persist \in BOOLEAN /\ local \in BOOLEAN
    /\ mem \in AnySession /\ db \in AnySession /\ locks \in Nat
    /\ thread \in [Workers -> AnyCall]
    /\ out \in {"new", "none", "load", "pop", "erase", "revoke", "done"}
    /\ seen \in AnySession /\ popped \in BOOLEAN
    /\ sock \in [Sockets -> {"off", "connecting", "on"}]
    /\ watch \subseteq Sockets /\ kick \in BOOLEAN
    /\ issued \in 0 .. MaxTokens /\ valid \subseteq 1 .. issued /\ due \subseteq 1 .. issued
    /\ clean \in BOOLEAN
    /\ requests \in 0 .. MaxRequests
    /\ faults \in 0 .. MaxTroubles /\ restarts \in 0 .. MaxTroubles

\* The two settings are independent (config.py); no session exists yet.
Init ==
    /\ persist \in BOOLEAN /\ local \in BOOLEAN
    /\ mem = NoSession /\ db = NoSession /\ locks = 0
    /\ thread = [t \in Workers |-> Call("idle", "http")]
    /\ out = "new" /\ seen = NoSession /\ popped = FALSE
    /\ sock = [s \in Sockets |-> "off"] /\ watch = {} /\ kick = FALSE
    /\ issued = 0 /\ valid = {} /\ due = {} /\ clean = TRUE
    /\ requests = 0 /\ faults = 0 /\ restarts = 0

\* A database call of this module may fail: it warns and goes on.
DbFails ==
    /\ persist /\ faults + restarts < MaxTroubles
    /\ faults' = faults + 1 /\ UNCHANGED <<requests, restarts>>

Persisted(row) ==
    \/ db' = (IF persist THEN row ELSE db) /\ UNCHANGED counts
    \/ DbFails /\ UNCHANGED db

--------------------------------------------------------------------------------
(***************************************************************************)
(* The worker threads: validating the session and renewing its tokens.     *)
(***************************************************************************)
Becomes(t, call) == thread' = [thread EXCEPT ![t] = call]

Goto(t, at) == Becomes(t, [thread[t] EXCEPT !.at = at])

\* Ends the call, and with it the hold on the refresh lock.  Whoever awaits
\* the result of an HTTP request's call changes nothing more.
Return(t, result) ==
    Becomes(t, IF thread[t].goal \in Sockets THEN Call(result, thread[t].goal)
                                              ELSE Call("idle", "http"))

\* What a call does with the session its lookup found.
Proceed(t, lookup, s) ==
    \/ lookup = "seek" /\ ~s.offline /\ Becomes(t, Call("find", thread[t].goal))
    \/ lookup = "seek" /\ s.offline /\ Return(t, "ok")
    \/ lookup = "seek" /\ s.offline /\ Return(t, "denied")  \* not a local caller
    \/ lookup \in {"find", "locked"} /\ ~Due(s) /\ Return(t, "ok")
    \/ /\ lookup = "find" /\ Due(s)
       /\ Becomes(t, [thread[t] EXCEPT !.at = "wait", !.mine = s])
    \/ /\ lookup = "locked" /\ Due(s)
       /\ Becomes(t, [thread[t] EXCEPT !.at = "ask", !.mine = s, !.asked = s.token])
    \/ /\ lookup = "offline"
       /\ Becomes(t, [thread[t] EXCEPT !.at = "swap", !.mine = s])

FoundInMemory(t) ==
    /\ thread[t].at \in Lookups /\ mem # NoSession
    /\ Proceed(t, thread[t].at, mem)
    /\ UNCHANGED <<modes, session, logout, sockets, auth, counts>>

\* Mutant: where to go on is noted after the point was moved.
ReadRowLate(t) ==
    /\ thread[t].at \in Lookups /\ mem = NoSession
    /\ persist /\ db # NoSession
    /\ Becomes(t, [thread[t] EXCEPT !.at = "load", !.mine = db, !.back = "load"])
    /\ UNCHANGED <<modes, session, logout, sockets, auth, counts>>

ReadRow(t) ==
    /\ thread[t].at \in Lookups /\ mem = NoSession
    /\ persist /\ db # NoSession
    /\ Becomes(t, [thread[t] EXCEPT !.at = "load", !.mine = db, !.back = thread[t].at])
    /\ UNCHANGED <<modes, session, logout, sockets, auth, counts>>

\* setdefault: of two restored objects the first one stays.
Restored(row) == IF mem # NoSession THEN mem ELSE [row EXCEPT !.lock = locks + 1]

Restore(t) ==
    /\ thread[t].at = "load"
    /\ mem' = Restored(thread[t].mine) /\ locks' = locks + 1
    /\ Proceed(t, thread[t].back, Restored(thread[t].mine))
    /\ UNCHANGED <<modes, db, logout, sockets, auth, counts>>

NotFound(t) ==
    /\ thread[t].at \in Lookups /\ mem = NoSession
    /\ \/ (~persist \/ db = NoSession) /\ UNCHANGED counts
       \/ DbFails
    /\ \/ thread[t].at = "offline" /\ Goto(t, "drop")
       \/ thread[t].at # "offline" /\ Return(t, "denied")
    /\ UNCHANGED <<modes, session, logout, sockets, auth>>

\* Mutant: the session is not looked up again under the lock.
TakeLockAndAsk(t) ==
    /\ thread[t].at = "wait"
    /\ \A other \in Workers : thread[other].held # thread[t].mine.lock
    /\ Becomes(t, [thread[t] EXCEPT !.at = "ask", !.asked = thread[t].mine.token,
                                    !.held = thread[t].mine.lock])
    /\ UNCHANGED <<modes, session, logout, sockets, auth, counts>>

TakeLock(t) ==
    /\ thread[t].at = "wait"
    /\ \A other \in Workers : thread[other].held # thread[t].mine.lock
    /\ Becomes(t, [thread[t] EXCEPT !.at = "locked", !.held = thread[t].mine.lock])
    /\ UNCHANGED <<modes, session, logout, sockets, auth, counts>>

(***************************************************************************)
(* The token endpoint.  A usable refresh token is exchanged for the next   *)
(* one; the answer is a new token, a refusal, a status of 502 or above, a  *)
(* body without usable tokens, which _create_session rejects, or an        *)
(* exception _request_json lets through (a timeout while reading).         *)
(***************************************************************************)
Exchanged(token) ==
    /\ token \in valid /\ issued < MaxTokens
    /\ issued' = issued + 1
    /\ valid' = (valid \ {token}) \cup {issued + 1}
    /\ UNCHANGED due

AskGranted(t) ==
    /\ thread[t].at = "ask"
    /\ Exchanged(thread[t].asked) /\ UNCHANGED clean
    /\ Becomes(t, [thread[t] EXCEPT !.at = "answered", !.got = issued + 1])
    /\ UNCHANGED <<modes, session, logout, sockets, counts>>

\* Refused because it was exchanged, or withdrawn by the service meanwhile.
AskRefused(t) ==
    /\ thread[t].at = "ask"
    /\ valid' = valid \ {thread[t].asked}
    /\ clean' = (clean /\ thread[t].asked \notin valid)
    /\ Goto(t, "drop")
    /\ UNCHANGED <<modes, session, logout, sockets, issued, due, counts>>

\* The exchange may have happened although its answer did not arrive.
AskFails(t) ==
    /\ thread[t].at = "ask"
    /\ clean' = FALSE
    /\ Exchanged(thread[t].asked) \/ UNCHANGED <<issued, valid, due>>
    /\ \/ Goto(t, "drop")
       \/ local /\ Goto(t, "offline")
       \/ Return(t, "denied")
       \/ Return(t, "broken")
    /\ UNCHANGED <<modes, session, logout, sockets, counts>>

--------------------------------------------------------------------------------
\* Mutant: the renewed session is stored whatever became of the old one.
ReplaceAnyway(t) ==
    /\ thread[t].at = "answered"
    /\ LET renewed == Session(thread[t].got, thread[t].mine.lock, FALSE)
       IN  mem' = renewed /\ Becomes(t, [thread[t] EXCEPT !.at = "store", !.mine = renewed])
    /\ UNCHANGED <<modes, db, locks, logout, sockets, auth, counts>>

\* Mutant: the refresh lock is released before the row is written.
ReplaceAndRelease(t) ==
    /\ thread[t].at = "answered"
    /\ LET renewed == Session(thread[t].got, thread[t].mine.lock, FALSE)
       IN  \/ /\ mem.token = thread[t].asked
              /\ mem' = renewed
              /\ Becomes(t, [thread[t] EXCEPT !.at = "store", !.mine = renewed, !.held = 0])
           \/ mem.token # thread[t].asked /\ Goto(t, "giveback") /\ UNCHANGED mem
    /\ UNCHANGED <<modes, db, locks, logout, sockets, auth, counts>>

\* Mutant: the new grant of a session that is gone is forgotten.
ReplaceOrForget(t) ==
    /\ thread[t].at = "answered"
    /\ LET renewed == Session(thread[t].got, thread[t].mine.lock, FALSE)
       IN  \/ /\ mem.token = thread[t].asked
              /\ mem' = renewed
              /\ Becomes(t, [thread[t] EXCEPT !.at = "store", !.mine = renewed])
           \/ mem.token # thread[t].asked /\ Return(t, "denied") /\ UNCHANGED mem
    /\ UNCHANGED <<modes, db, locks, logout, sockets, auth, counts>>

\* The session in memory is replaced if it is still the one that was renewed.
ReplaceSession(t) ==
    /\ thread[t].at = "answered"
    /\ LET renewed == Session(thread[t].got, thread[t].mine.lock, FALSE)
       IN  \/ /\ mem.token = thread[t].asked
              /\ mem' = renewed
              /\ Becomes(t, [thread[t] EXCEPT !.at = "store", !.mine = renewed])
           \/ mem.token # thread[t].asked /\ Goto(t, "giveback") /\ UNCHANGED mem
    /\ UNCHANGED <<modes, db, locks, logout, sockets, auth, counts>>

\* _persist_session comes after the replacement, outside the mutex.
StoreRow(t) ==
    /\ thread[t].at = "store"
    /\ Persisted(Row(thread[t].mine))
    /\ Return(t, "ok")
    /\ UNCHANGED <<modes, mem, locks, logout, sockets, auth>>

Revoked(token) ==
    /\ \/ valid' = valid \ {token} /\ UNCHANGED clean
       \/ clean' = FALSE /\ UNCHANGED valid
    /\ UNCHANGED <<issued, due>>

GiveBack(t) ==
    /\ thread[t].at = "giveback"
    /\ Revoked(thread[t].got)
    /\ Return(t, "denied")
    /\ UNCHANGED <<modes, session, logout, sockets, counts>>

\* _to_offline_session; the cached identity may be missing or another account's.
SwapOffline(t) ==
    /\ thread[t].at = "swap"
    /\ LET offline == Session(0, thread[t].mine.lock, TRUE)
       IN  \/ /\ mem = thread[t].mine
              /\ mem' = offline
              /\ Becomes(t, [thread[t] EXCEPT !.at = "store", !.mine = offline])
           \/ Goto(t, "drop") /\ UNCHANGED mem
    /\ UNCHANGED <<modes, db, locks, logout, sockets, auth, counts>>

\* _delete_session_if_refresh_token spares a session that was renewed since.
DropSession(t) ==
    /\ thread[t].at = "drop"
    /\ \/ mem.token = thread[t].asked /\ mem' = NoSession /\ Goto(t, "erase")
       \/ mem.token # thread[t].asked /\ Return(t, "denied") /\ UNCHANGED mem
    /\ UNCHANGED <<modes, db, locks, logout, sockets, auth, counts>>

\* Its row goes next, then the disconnection is queued on the loop.
EraseRow(t) ==
    /\ thread[t].at = "erase"
    /\ Persisted(NoSession)
    /\ kick' = TRUE
    /\ Return(t, "denied")
    /\ UNCHANGED <<modes, mem, locks, logout, sock, watch, auth>>

Work(t) ==
    \/ FoundInMemory(t) \/ ReadRow(t) \/ Restore(t) \/ NotFound(t) \/ TakeLock(t)
    \/ AskGranted(t) \/ AskRefused(t) \/ AskFails(t)
    \/ ReplaceSession(t) \/ StoreRow(t) \/ GiveBack(t) \/ SwapOffline(t)
    \/ DropSession(t) \/ EraseRow(t)

--------------------------------------------------------------------------------
(***************************************************************************)
(* The event loop.  No handler awaits in its own lookup, nor logout until  *)
(* it has queued the disconnection: no other handler runs meanwhile.       *)
(***************************************************************************)
LoopFree ==
    /\ out \notin {"load", "pop", "erase"}
    /\ \A t \in Workers : "seek" \notin {thread[t].at, thread[t].back}

\* Nobody knows the id before the answer to the login is sent.
SignIn(s) ==
    /\ out = "new" /\ out' = "none"
    /\ mem' = s /\ locks' = s.lock
    /\ Persisted(Row(s))
    /\ UNCHANGED <<modes, thread, seen, popped, sockets>>

HandleOidcCallback ==
    /\ issued < MaxTokens
    /\ issued' = issued + 1 /\ valid' = valid \cup {issued + 1}
    /\ SignIn(Session(issued + 1, locks + 1, FALSE))
    /\ UNCHANGED <<due, clean>>

StartLocalSession ==
    /\ local
    /\ SignIn(Session(0, locks + 1, TRUE))
    /\ UNCHANGED auth

\* A handler looks the session up, then hands its id to an idle thread.
Submit(t, goal) ==
    /\ LoopFree /\ out # "new" /\ Idle(t)
    /\ Becomes(t, Call("seek", goal))
    /\ UNCHANGED <<modes, session, logout, watch, kick, auth, faults, restarts>>

RequireValidSession(t) ==
    /\ requests < MaxRequests /\ requests' = requests + 1
    /\ Submit(t, "http")
    /\ UNCHANGED sock

Connect(t, s) ==
    /\ sock[s] = "off"
    /\ requests < MaxRequests /\ requests' = requests + 1
    /\ sock' = [sock EXCEPT ![s] = "connecting"]
    /\ Submit(t, s)

\* _revalidate_browser_session_loop, one call at a time.
Revalidate(t, s) ==
    /\ s \in watch
    /\ \A other \in Workers : thread[other].goal # s
    /\ Submit(t, s)
    /\ UNCHANGED <<sock, requests>>

\* _disconnect_browser_socket of each: registration and revalidation task go
\* at once, so the answer of a check under way is not applied.
Forget(S) ==
    /\ sock' = [s \in Sockets |-> IF s \in S THEN "off" ELSE sock[s]]
    /\ watch' = watch \ S

Uncalled(S) ==
    [t \in Workers |-> IF thread[t].goal \notin S THEN thread[t]
                       ELSE IF thread[t].at \in Results THEN Call("idle", "http")
                       ELSE [thread[t] EXCEPT !.goal = "dropped"]]

\* Mutant: a connection is registered without a revalidation task.
RespondUnwatched(t, s) ==
    /\ LoopFree /\ thread[t].at \in Results /\ thread[t].goal = s
    /\ \/ /\ thread[t].at = "ok"
          /\ sock' = [sock EXCEPT ![s] = "on"] /\ UNCHANGED watch
       \/ /\ thread[t].at \in {"denied", "broken"}
          /\ Forget({s})
    /\ Becomes(t, Call("idle", "http"))
    /\ UNCHANGED <<modes, session, logout, kick, auth, counts>>

\* The result of a thread reaches the handler of the loop that awaits it; an
\* exception _revalidate_browser_session_loop does not catch ends that task.
Respond(t, s) ==
    /\ LoopFree /\ thread[t].at \in Results /\ thread[t].goal = s
    /\ \/ /\ thread[t].at = "ok"
          /\ sock' = [sock EXCEPT ![s] = "on"] /\ watch' = watch \cup {s}
       \/ /\ thread[t].at = "denied" \/ (thread[t].at = "broken" /\ sock[s] = "connecting")
          /\ Forget({s})
       \/ /\ thread[t].at = "broken" /\ sock[s] = "on"
          /\ watch' = watch \ {s} /\ UNCHANGED sock
    /\ Becomes(t, Call("idle", "http"))
    /\ UNCHANGED <<modes, session, logout, kick, auth, counts>>

Disconnected(S) ==
    /\ LoopFree
    /\ Forget(S) /\ thread' = Uncalled(S)
    /\ UNCHANGED <<modes, session, logout, auth, counts>>

DisconnectSessionSockets ==
    /\ kick /\ kick' = FALSE
    /\ Disconnected({s \in Sockets : sock[s] = "on"})

Disconnect(s) ==
    /\ sock[s] = "on" /\ UNCHANGED kick
    /\ Disconnected({s})

--------------------------------------------------------------------------------
(***************************************************************************)
(* Logout.                                                                 *)
(***************************************************************************)
LogoutFinds ==
    /\ out = "none" /\ LoopFree
    /\ \/ mem # NoSession /\ seen' = mem /\ out' = "pop" /\ UNCHANGED counts
       \/ /\ mem = NoSession /\ persist /\ db # NoSession
          /\ seen' = db /\ out' = "load" /\ UNCHANGED counts
       \/ /\ mem = NoSession /\ out' = "done" /\ UNCHANGED seen
          /\ ((~persist \/ db = NoSession) /\ UNCHANGED counts) \/ DbFails
    /\ UNCHANGED <<modes, session, thread, popped, sockets, auth>>

LogoutRestores ==
    /\ out = "load" /\ out' = "pop"
    /\ mem' = Restored(seen) /\ seen' = Restored(seen) /\ locks' = locks + 1
    /\ UNCHANGED <<modes, db, thread, popped, sockets, auth, counts>>

\* The session may have been renewed since it was read.
LogoutPops ==
    /\ out = "pop" /\ out' = "erase"
    /\ mem' = NoSession /\ popped' = (mem # NoSession)
    /\ clean' = (clean /\ mem.token = seen.token)
    /\ UNCHANGED <<modes, db, locks, thread, seen, sockets, issued, valid, due, counts>>

LogoutErases ==
    /\ out = "erase" /\ out' = IF seen.token # 0 THEN "revoke" ELSE "done"
    /\ Persisted(NoSession)
    /\ kick' = (kick \/ popped) /\ popped' = FALSE
    /\ UNCHANGED <<modes, mem, locks, thread, seen, sock, watch, auth>>

LogoutRevokes ==
    /\ out = "revoke" /\ out' = "done"
    /\ Revoked(seen.token) /\ seen' = NoSession
    /\ UNCHANGED <<modes, session, thread, popped, sockets, counts>>

Logout == LogoutFinds \/ LogoutRestores \/ LogoutPops \/ LogoutErases \/ LogoutRevokes

--------------------------------------------------------------------------------
(***************************************************************************)
(* Time, the auth service and the process.                                 *)
(***************************************************************************)
AccessTokenExpires ==
    /\ \E k \in (1 .. issued) \ due : due' = due \cup {k}
    /\ UNCHANGED <<modes, session, thread, logout, sockets, issued, valid, clean, counts>>

\* What is left is the row; a logout that was cut short is asked for again.
Restart ==
    /\ faults + restarts < MaxTroubles /\ restarts' = restarts + 1
    /\ out # "new" /\ out' = IF out \in {"revoke", "done"} THEN "done" ELSE "none"
    /\ mem' = NoSession /\ thread' = [t \in Workers |-> Call("idle", "http")]
    /\ seen' = NoSession /\ popped' = FALSE
    /\ sock' = [s \in Sockets |-> "off"] /\ watch' = {} /\ kick' = FALSE
    /\ clean' = FALSE
    /\ UNCHANGED <<modes, db, locks, issued, valid, due, requests, faults>>

Next ==
    \/ \E t \in Workers : Work(t) \/ RequireValidSession(t)
    \/ \E t \in Workers, s \in Sockets : Connect(t, s) \/ Revalidate(t, s) \/ Respond(t, s)
    \/ \E s \in Sockets : Disconnect(s)
    \/ HandleOidcCallback \/ StartLocalSession \/ DisconnectSessionSockets
    \/ Logout \/ AccessTokenExpires \/ Restart

Spec == Init /\ [][Next]_vars

--------------------------------------------------------------------------------
(***************************************************************************)
(* Without persistence a session that was logged out does not come back,   *)
(* whatever refresh or offline conversion was under way: both replace only *)
(* the very session they started from (session_auth.py:698-705, 771-774).  *)
(***************************************************************************)
LoggedOutStaysOut ==
    ~persist /\ out \in {"erase", "revoke", "done"} => mem = NoSession

(***************************************************************************)
(* The token endpoint is never asked to renew a refresh token that this    *)
(* process has already exchanged: threads that find the same session       *)
(* expiring queue on its refresh lock and look again (656-663).  Lost      *)
(* answers, restarts, withdrawn grants and a logout excepted.              *)
(***************************************************************************)
NoSpentToken ==
    clean /\ out = "none"
    => \A t \in Workers : thread[t].at = "ask" => thread[t].asked \in valid

(***************************************************************************)
(* Rows are written after the session was replaced in memory, outside the  *)
(* mutex but under the refresh lock (706-707): while nobody is at work the *)
(* row is the session in memory, and no restart goes back to a token that  *)
(* was exchanged.  Failed database calls, lost or refused renewals and a   *)
(* logout excepted: after those the session may be restored under a second *)
(* lock, and two writers of the row are no longer in line.                 *)
(***************************************************************************)
RowFollowsMemory ==
    clean /\ persist /\ faults = 0 /\ out = "none" /\ (\A t \in Workers : Idle(t))
        => db = Row(mem)

(***************************************************************************)
(* A refresh that a logout overtakes gives its new grant back: once all is *)
(* quiet after a logout, the auth service honours no token of the session, *)
(* if no call to it failed (test_session_auth.py:277-305).                 *)
(***************************************************************************)
GrantReturned ==
    ~persist /\ clean /\ out = "done" /\ (\A t \in Workers : Idle(t)) => valid = {}

(***************************************************************************)
(* No socket is left behind by its session: once the session is gone, a    *)
(* registered socket's disconnection is queued or about to be, or, if it   *)
(* registered after that (its check was answered before the logout), its   *)
(* own revalidation task is there to find out (realtime.py:147-177).       *)
(***************************************************************************)
SessionGone == mem = NoSession /\ db = NoSession

Removing == out = "erase" \/ \E t \in Workers : thread[t].at = "erase"

SocketsWatched ==
    \A s \in Sockets : SessionGone /\ sock[s] = "on" => kick \/ Removing \/ s \in watch

(***************************************************************************)
(* A finished logout leaves nothing of the session, in memory or in the    *)
(* database, as tests/test_session_persistence.py:7 promises.              *)
(***************************************************************************)
LogoutErasesAll ==
    out = "done" /\ faults = 0 => SessionGone
================================================================================
