--------------------------- MODULE SessionAuth_proofs ---------------------------
(***************************************************************************)
(* Theorems about the life of a session, for all sets of threads and       *)
(* sockets and for every configuration.                                    *)
(***************************************************************************)
EXTENDS SessionAuth, TLAPS

Attributes ==
    /\ persist \in BOOLEAN /\ local \in BOOLEAN
    /\ popped \in BOOLEAN /\ kick \in BOOLEAN /\ clean \in BOOLEAN

Sessions ==
    /\ mem \in AnySession /\ db \in AnySession /\ seen \in AnySession /\ locks \in Nat
    /\ thread \in [Workers -> AnyCall]
    /\ issued \in 0 .. MaxTokens /\ valid \subseteq 1 .. issued /\ due \subseteq 1 .. issued

Places ==
    /\ out \in {"new", "none", "load", "pop", "erase", "revoke", "done"}
    /\ sock \in [Sockets -> {"off", "connecting", "on"}] /\ watch \subseteq Sockets
    /\ requests \in 0 .. MaxRequests
    /\ faults \in 0 .. MaxTroubles /\ restarts \in 0 .. MaxTroubles

LEMMA Parts == TypeOK <=> Attributes /\ Sessions /\ Places
BY DEF TypeOK, Attributes, Sessions, Places

(***************************************************************************)
(* Sessions and calls that are built from well-typed parts are well typed. *)
(***************************************************************************)
LEMMA SessionTyped ==
    ASSUME NEW token \in 0 .. MaxTokens, NEW lock \in Nat, NEW offline \in BOOLEAN
    PROVE  Session(token, lock, offline) \in AnySession
BY DEF Session, AnySession

LEMMA OfflineTyped ==
    ASSUME NEW lock \in Nat
    PROVE  Session(0, lock, TRUE) \in AnySession
BY SessionAssumption DEF Session, AnySession

LEMMA NoSessionTyped == NoSession \in AnySession
BY SessionAssumption DEF NoSession, Session, AnySession

LEMMA RowTyped ==
    ASSUME NEW s \in AnySession, NEW lock \in Nat
    PROVE  [s EXCEPT !.lock = lock] \in AnySession
BY DEF AnySession

LEMMA CallTyped ==
    ASSUME NEW at \in Results \cup {"idle", "seek", "find"},
           NEW goal \in Sockets \cup {"http", "dropped"}
    PROVE  Call(at, goal) \in AnyCall
BY NoSessionTyped, SessionAssumption DEF Call, AnyCall, Lookups, Results

LEMMA CallMoved ==
    ASSUME NEW c \in AnyCall, NEW at \in {"offline", "drop", "erase", "giveback"}
    PROVE  [c EXCEPT !.at = at] \in AnyCall
BY DEF AnyCall, Lookups, Results

LEMMA CallFound ==
    ASSUME NEW c \in AnyCall, NEW at \in {"wait", "swap", "store"}, NEW s \in AnySession
    PROVE  [c EXCEPT !.at = at, !.mine = s] \in AnyCall
BY DEF AnyCall, Lookups, Results

LEMMA CallAsks ==
    ASSUME NEW c \in AnyCall, NEW s \in AnySession
    PROVE  [c EXCEPT !.at = "ask", !.mine = s, !.asked = s.token] \in AnyCall
<1>1. s.token \in 0 .. MaxTokens
    BY DEF AnySession
<1> QED
    BY <1>1 DEF AnyCall, Lookups, Results

LEMMA CallLoads ==
    ASSUME NEW c \in AnyCall, NEW s \in AnySession, c.at \in Lookups
    PROVE  [c EXCEPT !.at = "load", !.mine = s, !.back = c.at] \in AnyCall
BY DEF AnyCall, Lookups, Results

LEMMA CallLocks ==
    ASSUME NEW c \in AnyCall
    PROVE  [c EXCEPT !.at = "locked", !.held = c.mine.lock] \in AnyCall
<1>1. c.mine.lock \in Nat
    BY DEF AnyCall, AnySession
<1> QED
    BY <1>1 DEF AnyCall, Lookups, Results

LEMMA CallAnswered ==
    ASSUME NEW c \in AnyCall, NEW token \in 0 .. MaxTokens
    PROVE  [c EXCEPT !.at = "answered", !.got = token] \in AnyCall
BY DEF AnyCall, Lookups, Results

LEMMA CallDropped ==
    ASSUME NEW c \in AnyCall
    PROVE  [c EXCEPT !.goal = "dropped"] \in AnyCall
BY DEF AnyCall

LEMMA ThreadsTyped ==
    ASSUME thread \in [Workers -> AnyCall], NEW t \in Workers, NEW c \in AnyCall,
           Becomes(t, c)
    PROVE  thread' \in [Workers -> AnyCall]
BY DEF Becomes

LEMMA ReturnTyped ==
    ASSUME thread \in [Workers -> AnyCall], NEW t \in Workers, NEW result \in Results,
           Return(t, result)
    PROVE  thread' \in [Workers -> AnyCall]
<1>1. Call("idle", "http") \in AnyCall
    BY CallTyped
<1>2. thread[t].goal \in Sockets => Call(result, thread[t].goal) \in AnyCall
    BY CallTyped
<1>3. (IF thread[t].goal \in Sockets THEN Call(result, thread[t].goal)
                                     ELSE Call("idle", "http")) \in AnyCall
    BY <1>1, <1>2
<1> QED
    BY <1>3, ThreadsTyped DEF Return

LEMMA GotoTyped ==
    ASSUME thread \in [Workers -> AnyCall], NEW t \in Workers,
           NEW at \in {"offline", "drop", "erase", "giveback"}, Goto(t, at)
    PROVE  thread' \in [Workers -> AnyCall]
<1>1. [thread[t] EXCEPT !.at = at] \in AnyCall
    BY CallMoved
<1> QED
    BY <1>1, ThreadsTyped DEF Goto

LEMMA ProceedTyped ==
    ASSUME thread \in [Workers -> AnyCall], NEW t \in Workers, NEW lookup,
           NEW s \in AnySession, Proceed(t, lookup, s)
    PROVE  thread' \in [Workers -> AnyCall]
<1>1. CASE Return(t, "ok") \/ Return(t, "denied")
    BY <1>1, ReturnTyped DEF Results
<1>2. CASE Becomes(t, [thread[t] EXCEPT !.at = "wait", !.mine = s])
    <2>1. [thread[t] EXCEPT !.at = "wait", !.mine = s] \in AnyCall
        BY CallFound
    <2> QED
        BY <1>2, <2>1, ThreadsTyped
<1>3. CASE Becomes(t, [thread[t] EXCEPT !.at = "ask", !.mine = s, !.asked = s.token])
    <2>1. [thread[t] EXCEPT !.at = "ask", !.mine = s, !.asked = s.token] \in AnyCall
        BY CallAsks
    <2> QED
        BY <1>3, <2>1, ThreadsTyped
<1>4. CASE Becomes(t, [thread[t] EXCEPT !.at = "swap", !.mine = s])
    <2>1. [thread[t] EXCEPT !.at = "swap", !.mine = s] \in AnyCall
        BY CallFound
    <2> QED
        BY <1>4, <2>1, ThreadsTyped
<1>5. CASE Becomes(t, Call("find", thread[t].goal))
    <2>1. Call("find", thread[t].goal) \in AnyCall
        BY CallTyped DEF AnyCall
    <2> QED
        BY <1>5, <2>1, ThreadsTyped
<1> QED
    BY <1>1, <1>2, <1>3, <1>4, <1>5 DEF Proceed

LEMMA RestoredTyped ==
    ASSUME Sessions, NEW row \in AnySession
    PROVE  Restored(row) \in AnySession
<1>1. [row EXCEPT !.lock = locks + 1] \in AnySession
    BY RowTyped DEF Sessions
<1> QED
    BY <1>1 DEF Restored, Sessions

LEMMA PersistedTyped ==
    ASSUME Sessions, NEW row \in AnySession, Persisted(row)
    PROVE  db' \in AnySession
BY DEF Sessions, Persisted

--------------------------------------------------------------------------------
(***************************************************************************)
(* Each step keeps the sessions, the calls and the tokens well typed.      *)
(***************************************************************************)
LEMMA LookupTyped ==
    ASSUME Sessions, NEW t \in Workers,
           FoundInMemory(t) \/ ReadRow(t) \/ Restore(t) \/ NotFound(t) \/ TakeLock(t)
    PROVE  Sessions'
<1> USE DEF session, logout, auth
<1>1. CASE FoundInMemory(t)
    <2>1. thread' \in [Workers -> AnyCall]
        BY <1>1, ProceedTyped DEF FoundInMemory, Sessions
    <2> QED
        BY <1>1, <2>1 DEF FoundInMemory, Sessions
<1>2. CASE ReadRow(t)
    <2>1. [thread[t] EXCEPT !.at = "load", !.mine = db, !.back = thread[t].at] \in AnyCall
        BY <1>2, CallLoads DEF ReadRow, Sessions
    <2>2. thread' \in [Workers -> AnyCall]
        BY <1>2, <2>1, ThreadsTyped DEF ReadRow, Sessions
    <2> QED
        BY <1>2, <2>2 DEF ReadRow, Sessions
<1>3. CASE Restore(t)
    <2>1. thread[t].mine \in AnySession
        BY DEF Sessions, AnyCall
    <2>2. Restored(thread[t].mine) \in AnySession
        BY <2>1, RestoredTyped
    <2>3. thread' \in [Workers -> AnyCall]
        BY <1>3, <2>2, ProceedTyped DEF Restore, Sessions
    <2> QED
        BY <1>3, <2>2, <2>3 DEF Restore, Sessions
<1>4. CASE NotFound(t)
    <2>1. thread' \in [Workers -> AnyCall]
        BY <1>4, GotoTyped, ReturnTyped DEF NotFound, Sessions, Results
    <2> QED
        BY <1>4, <2>1 DEF NotFound, Sessions
<1>5. CASE TakeLock(t)
    <2>1. [thread[t] EXCEPT !.at = "locked", !.held = thread[t].mine.lock] \in AnyCall
        BY CallLocks DEF Sessions
    <2>2. thread' \in [Workers -> AnyCall]
        BY <1>5, <2>1, ThreadsTyped DEF TakeLock, Sessions
    <2> QED
        BY <1>5, <2>2 DEF TakeLock, Sessions
<1> QED
    BY <1>1, <1>2, <1>3, <1>4, <1>5

LEMMA ExchangedTyped ==
    ASSUME Sessions, NEW token, Exchanged(token)
    PROVE  /\ issued' \in 0 .. MaxTokens /\ issued + 1 \in 0 .. MaxTokens
           /\ valid' \subseteq 1 .. issued' /\ due' \subseteq 1 .. issued'
BY SessionAssumption DEF Sessions, Exchanged

LEMMA AskTyped ==
    ASSUME Sessions, NEW t \in Workers, AskGranted(t) \/ AskRefused(t) \/ AskFails(t)
    PROVE  Sessions'
<1> USE DEF session, logout
<1>1. CASE AskGranted(t)
    <2>1. issued + 1 \in 0 .. MaxTokens
        BY <1>1, ExchangedTyped DEF AskGranted
    <2>2. [thread[t] EXCEPT !.at = "answered", !.got = issued + 1] \in AnyCall
        BY <2>1, CallAnswered DEF Sessions
    <2>3. thread' \in [Workers -> AnyCall]
        BY <1>1, <2>2, ThreadsTyped DEF AskGranted, Sessions
    <2> QED
        BY <1>1, <2>3, ExchangedTyped DEF AskGranted, Sessions
<1>2. CASE AskRefused(t)
    <2>1. thread' \in [Workers -> AnyCall]
        BY <1>2, GotoTyped DEF AskRefused, Sessions
    <2> QED
        BY <1>2, <2>1 DEF AskRefused, Sessions
<1>3. CASE AskFails(t)
    <2>1. thread' \in [Workers -> AnyCall]
        BY <1>3, GotoTyped, ReturnTyped DEF AskFails, Sessions, Results
    <2>2. /\ issued' \in 0 .. MaxTokens
          /\ valid' \subseteq 1 .. issued' /\ due' \subseteq 1 .. issued'
        BY <1>3, ExchangedTyped DEF AskFails, Sessions
    <2> QED
        BY <1>3, <2>1, <2>2 DEF AskFails, Sessions
<1> QED
    BY <1>1, <1>2, <1>3

LEMMA ReplaceTyped ==
    ASSUME Sessions, NEW t \in Workers, ReplaceSession(t) \/ SwapOffline(t)
    PROVE  Sessions'
<1> USE DEF session, logout, auth
<1>0. thread[t].mine.lock \in Nat /\ thread[t].got \in 0 .. MaxTokens
    BY DEF Sessions, AnyCall, AnySession
<1>1. CASE ReplaceSession(t)
    <2> DEFINE renewed == Session(thread[t].got, thread[t].mine.lock, FALSE)
    <2>1. renewed \in AnySession
        BY <1>0, SessionTyped
    <2>2. [thread[t] EXCEPT !.at = "store", !.mine = renewed] \in AnyCall
        <3> HIDE DEF renewed
        <3> QED
            BY <2>1, CallFound DEF Sessions
    <2>3. thread' \in [Workers -> AnyCall] /\ mem' \in AnySession
        BY <1>1, <2>1, <2>2, ThreadsTyped, GotoTyped DEF ReplaceSession, Sessions
    <2> QED
        BY <1>1, <2>3 DEF ReplaceSession, Sessions
<1>2. CASE SwapOffline(t)
    <2> DEFINE offline == Session(0, thread[t].mine.lock, TRUE)
    <2>1. offline \in AnySession
        BY <1>0, OfflineTyped
    <2>2. [thread[t] EXCEPT !.at = "store", !.mine = offline] \in AnyCall
        <3> HIDE DEF offline
        <3> QED
            BY <2>1, CallFound DEF Sessions
    <2>3. thread' \in [Workers -> AnyCall] /\ mem' \in AnySession
        BY <1>2, <2>1, <2>2, ThreadsTyped, GotoTyped DEF SwapOffline, Sessions
    <2> QED
        BY <1>2, <2>3 DEF SwapOffline, Sessions
<1> QED
    BY <1>1, <1>2

LEMMA CloseTyped ==
    ASSUME Sessions, NEW t \in Workers,
           StoreRow(t) \/ GiveBack(t) \/ DropSession(t) \/ EraseRow(t)
    PROVE  Sessions'
<1> USE DEF session, logout, auth
<1>1. CASE StoreRow(t)
    <2>1. Row(thread[t].mine) \in AnySession
        BY RowTyped DEF Row, Sessions, AnyCall
    <2>2. thread' \in [Workers -> AnyCall]
        BY <1>1, ReturnTyped DEF StoreRow, Sessions, Results
    <2> QED
        BY <1>1, <2>1, <2>2, PersistedTyped DEF StoreRow, Sessions
<1>2. CASE GiveBack(t)
    <2>1. thread' \in [Workers -> AnyCall]
        BY <1>2, ReturnTyped DEF GiveBack, Sessions, Results
    <2> QED
        BY <1>2, <2>1 DEF GiveBack, Revoked, Sessions
<1>3. CASE DropSession(t)
    <2>1. thread' \in [Workers -> AnyCall]
        BY <1>3, GotoTyped, ReturnTyped DEF DropSession, Sessions, Results
    <2> QED
        BY <1>3, <2>1, NoSessionTyped DEF DropSession, Sessions
<1>4. CASE EraseRow(t)
    <2>1. thread' \in [Workers -> AnyCall]
        BY <1>4, ReturnTyped DEF EraseRow, Sessions, Results
    <2> QED
        BY <1>4, <2>1, NoSessionTyped, PersistedTyped DEF EraseRow, Sessions
<1> QED
    BY <1>1, <1>2, <1>3, <1>4

LEMMA SignInTyped ==
    ASSUME Sessions, HandleOidcCallback \/ StartLocalSession
    PROVE  Sessions'
<1> USE DEF logout, auth
<1>1. CASE HandleOidcCallback
    <2> DEFINE s == Session(issued + 1, locks + 1, FALSE)
    <2>0. issued + 1 \in 0 .. MaxTokens /\ locks + 1 \in Nat
        BY <1>1, SessionAssumption DEF HandleOidcCallback, Sessions
    <2>1. s \in AnySession /\ s.lock \in Nat
        BY <2>0, SessionTyped DEF Session
    <2>2. Row(s) \in AnySession
        BY <2>1, RowTyped DEF Row
    <2> HIDE DEF s
    <2>3. db' \in AnySession
        BY <1>1, <2>2, PersistedTyped DEF HandleOidcCallback, SignIn, s
    <2>4. mem' = s /\ locks' = s.lock /\ thread' = thread /\ seen' = seen
        BY <1>1 DEF HandleOidcCallback, SignIn, s
    <2>5. /\ issued' \in 0 .. MaxTokens
          /\ valid' \subseteq 1 .. issued' /\ due' \subseteq 1 .. issued'
        BY <1>1, SessionAssumption DEF HandleOidcCallback, Sessions
    <2> QED
        BY <2>1, <2>3, <2>4, <2>5 DEF Sessions
<1>2. CASE StartLocalSession
    <2> DEFINE s == Session(0, locks + 1, TRUE)
    <2>1. s \in AnySession /\ s.lock \in Nat
        BY OfflineTyped DEF Session, Sessions
    <2>2. Row(s) \in AnySession
        BY <2>1, RowTyped DEF Row
    <2> HIDE DEF s
    <2>3. db' \in AnySession
        BY <1>2, <2>2, PersistedTyped DEF StartLocalSession, SignIn, s
    <2>4. mem' = s /\ locks' = s.lock /\ thread' = thread /\ seen' = seen
        BY <1>2 DEF StartLocalSession, SignIn, s
    <2> QED
        BY <1>2, <2>1, <2>3, <2>4 DEF StartLocalSession, Sessions
<1> QED
    BY <1>1, <1>2

LEMMA UncalledTyped ==
    ASSUME Sessions, NEW S
    PROVE  Uncalled(S) \in [Workers -> AnyCall]
<1> SUFFICES ASSUME NEW t \in Workers PROVE Uncalled(S)[t] \in AnyCall
    BY DEF Uncalled
<1>1. thread[t] \in AnyCall
    BY DEF Sessions
<1>2. Call("idle", "http") \in AnyCall
    BY CallTyped
<1>3. [thread[t] EXCEPT !.goal = "dropped"] \in AnyCall
    BY <1>1, CallDropped
<1> QED
    BY <1>1, <1>2, <1>3 DEF Uncalled

LEMMA LoopTyped ==
    ASSUME Sessions,
           \/ \E t \in Workers : RequireValidSession(t)
           \/ \E t \in Workers, s \in Sockets : Connect(t, s) \/ Revalidate(t, s) \/ Respond(t, s)
           \/ DisconnectSessionSockets
           \/ \E s \in Sockets : Disconnect(s)
    PROVE  Sessions'
<1> USE DEF session, logout, auth
<1>1. CASE \E t \in Workers, goal \in Sockets \cup {"http"} : Submit(t, goal)
    <2> PICK t \in Workers, goal \in Sockets \cup {"http"} : Submit(t, goal)
        BY <1>1
    <2>1. Call("seek", goal) \in AnyCall
        BY CallTyped
    <2>2. thread' \in [Workers -> AnyCall]
        BY <2>1, ThreadsTyped DEF Submit, Sessions
    <2> QED
        BY <2>2 DEF Submit, Sessions
<1>2. CASE \E t \in Workers, s \in Sockets : Respond(t, s)
    <2> PICK t \in Workers, s \in Sockets : Respond(t, s)
        BY <1>2
    <2>1. Call("idle", "http") \in AnyCall
        BY CallTyped
    <2>2. thread' \in [Workers -> AnyCall]
        BY <2>1, ThreadsTyped DEF Respond, Sessions
    <2> QED
        BY <2>2 DEF Respond, Sessions
<1>3. CASE \E S : Disconnected(S)
    BY <1>3, UncalledTyped DEF Disconnected, Sessions
<1> QED
    BY <1>1, <1>2, <1>3
    DEF RequireValidSession, Connect, Revalidate, DisconnectSessionSockets, Disconnect

LEMMA LogoutTyped ==
    ASSUME Sessions, Logout
    PROVE  Sessions'
<1> USE DEF session, logout, auth
<1>1. CASE LogoutFinds
    BY <1>1 DEF LogoutFinds, Sessions
<1>2. CASE LogoutRestores
    <2>1. Restored(seen) \in AnySession
        BY RestoredTyped DEF Sessions
    <2> QED
        BY <1>2, <2>1 DEF LogoutRestores, Sessions
<1>3. CASE LogoutPops
    BY <1>3, NoSessionTyped DEF LogoutPops, Sessions
<1>4. CASE LogoutErases
    BY <1>4, NoSessionTyped, PersistedTyped DEF LogoutErases, Sessions
<1>5. CASE LogoutRevokes
    BY <1>5, NoSessionTyped DEF LogoutRevokes, Revoked, Sessions
<1> QED
    BY <1>1, <1>2, <1>3, <1>4, <1>5 DEF Logout

LEMMA WorldTyped ==
    ASSUME Sessions, AccessTokenExpires \/ Restart
    PROVE  Sessions'
<1>1. CASE AccessTokenExpires
    BY <1>1 DEF AccessTokenExpires, session, logout, Sessions
<1>2. CASE Restart
    <2>1. Call("idle", "http") \in AnyCall
        BY CallTyped
    <2> QED
        BY <1>2, <2>1, NoSessionTyped DEF Restart, Sessions
<1> QED
    BY <1>1, <1>2

LEMMA StepSessions ==
    ASSUME Sessions, [Next]_vars
    PROVE  Sessions'
<1>1. CASE \E t \in Workers : Work(t)
    BY <1>1, LookupTyped, AskTyped, ReplaceTyped, CloseTyped DEF Work
<1>2. CASE UNCHANGED vars
    BY <1>2 DEF vars, session, logout, auth, Sessions
<1> QED
    BY <1>1, <1>2, SignInTyped, LoopTyped, LogoutTyped, WorldTyped DEF Next

LEMMA StepAttributes ==
    ASSUME Attributes, [Next]_vars
    PROVE  Attributes'
<1> USE DEF Attributes, modes, logout, sockets, auth
<1>1. CASE \E t \in Workers : FoundInMemory(t) \/ ReadRow(t) \/ Restore(t) \/ NotFound(t)
                              \/ TakeLock(t)
    BY Zenon, <1>1 DEF FoundInMemory, ReadRow, Restore, NotFound, TakeLock
<1>2. CASE \E t \in Workers : AskGranted(t) \/ AskRefused(t) \/ AskFails(t)
    BY Zenon, <1>2 DEF AskGranted, AskRefused, AskFails
<1>3. CASE \E t \in Workers : ReplaceSession(t) \/ StoreRow(t) \/ GiveBack(t) \/ SwapOffline(t)
                              \/ DropSession(t) \/ EraseRow(t)
    BY Zenon, <1>3 DEF ReplaceSession, StoreRow, GiveBack, Revoked, SwapOffline, DropSession, EraseRow
<1>4. CASE \E t \in Workers : RequireValidSession(t)
    BY Zenon, <1>4 DEF RequireValidSession, Submit
<1>5. CASE \E t \in Workers, s \in Sockets : Connect(t, s) \/ Revalidate(t, s) \/ Respond(t, s)
    BY Zenon, <1>5 DEF Connect, Revalidate, Submit, Respond
<1>6. CASE DisconnectSessionSockets \/ \E s \in Sockets : Disconnect(s)
    BY Zenon, <1>6 DEF DisconnectSessionSockets, Disconnect, Disconnected
<1>7. CASE HandleOidcCallback \/ StartLocalSession
    BY Zenon, <1>7 DEF HandleOidcCallback, StartLocalSession, SignIn
<1>8. CASE LogoutFinds \/ LogoutRestores \/ LogoutPops \/ LogoutErases \/ LogoutRevokes
    BY Zenon, <1>8 DEF LogoutFinds, LogoutRestores, LogoutPops, LogoutErases, LogoutRevokes, Revoked
<1>9. CASE AccessTokenExpires \/ Restart
    BY Zenon, <1>9 DEF AccessTokenExpires, Restart
<1>10. CASE UNCHANGED vars
    BY Zenon, <1>10 DEF vars
<1> QED
    BY Zenon, <1>1, <1>2, <1>3, <1>4, <1>5, <1>6, <1>7, <1>8, <1>9, <1>10 DEF Next, Work, Logout

LEMMA StepPlaces ==
    ASSUME Places, Sessions, [Next]_vars
    PROVE  Places'
<1> USE SessionAssumption DEF Places, sockets, counts, logout, DbFails, Persisted
<1>1. CASE \E t \in Workers : FoundInMemory(t) \/ ReadRow(t) \/ Restore(t) \/ NotFound(t)
                              \/ TakeLock(t)
    BY <1>1 DEF FoundInMemory, ReadRow, Restore, NotFound, TakeLock
<1>2. CASE \E t \in Workers : AskGranted(t) \/ AskRefused(t) \/ AskFails(t)
    BY <1>2 DEF AskGranted, AskRefused, AskFails
<1>3. CASE \E t \in Workers : ReplaceSession(t) \/ StoreRow(t) \/ GiveBack(t) \/ SwapOffline(t)
                              \/ DropSession(t) \/ EraseRow(t)
    <2>1. CASE \E t \in Workers : StoreRow(t) \/ EraseRow(t)
        BY <2>1 DEF StoreRow, EraseRow
    <2>2. CASE \E t \in Workers :
                   ReplaceSession(t) \/ GiveBack(t) \/ SwapOffline(t) \/ DropSession(t)
        BY <2>2 DEF ReplaceSession, GiveBack, SwapOffline, DropSession
    <2> QED
        BY <1>3, <2>1, <2>2
<1>4. CASE \E t \in Workers : RequireValidSession(t)
    BY <1>4 DEF RequireValidSession, Submit
<1>5. CASE \E t \in Workers, s \in Sockets : Connect(t, s) \/ Revalidate(t, s)
    BY <1>5 DEF Connect, Revalidate, Submit
<1>6. CASE \E t \in Workers, s \in Sockets : Respond(t, s)
    BY <1>6 DEF Respond, Forget
<1>7. CASE \E S : Disconnected(S)
    <2> PICK S : Disconnected(S)
        BY <1>7
    <2>1. sock' \in [Sockets -> {"off", "connecting", "on"}]
        BY DEF Disconnected, Forget
    <2>2. watch' \subseteq Sockets
        BY DEF Disconnected, Forget
    <2> QED
        BY <2>1, <2>2 DEF Disconnected
<1>8. CASE HandleOidcCallback \/ StartLocalSession
    <2>1. /\ out' = "none" /\ UNCHANGED <<sock, watch, requests, restarts>>
          /\ UNCHANGED faults \/ (faults + restarts < MaxTroubles /\ faults' = faults + 1)
        BY <1>8 DEF HandleOidcCallback, StartLocalSession, SignIn
    <2> QED
        BY <2>1
<1>9. CASE LogoutFinds \/ LogoutRestores \/ LogoutPops \/ LogoutErases \/ LogoutRevokes
    BY <1>9 DEF LogoutFinds, LogoutRestores, LogoutPops, LogoutErases, LogoutRevokes
<1>10. CASE AccessTokenExpires \/ Restart
    BY <1>10 DEF AccessTokenExpires, Restart
<1>11. CASE UNCHANGED vars
    BY <1>11 DEF vars
<1> QED
    BY <1>1, <1>2, <1>3, <1>4, <1>5, <1>6, <1>7, <1>8, <1>9, <1>10, <1>11
    DEF Next, Work, Logout, DisconnectSessionSockets, Disconnect

--------------------------------------------------------------------------------
(***************************************************************************)
(* The sessions, the threads' calls, the logout handler and the sockets    *)
(* keep their shape.                                                       *)
(***************************************************************************)
THEOREM TypeCorrect == Spec => []TypeOK
<1>1. Init => Attributes
    BY Zenon DEF Init, Attributes
<1>2. Init => Sessions
    BY CallTyped, NoSessionTyped, SessionAssumption DEF Init, Sessions
<1>3. Init => Places
    BY SessionAssumption DEF Init, Places
<1>4. TypeOK /\ [Next]_vars => TypeOK'
    <2>1. (Attributes /\ Sessions /\ Places) /\ [Next]_vars
          => (Attributes' /\ Sessions' /\ Places')
        BY StepAttributes, StepSessions, StepPlaces
    <2>2. TypeOK' <=> Attributes' /\ Sessions' /\ Places'
        BY Zenon DEF TypeOK, Attributes, Sessions, Places
    <2> QED
        BY <2>1, <2>2, Parts
<1> QED
    BY <1>1, <1>2, <1>3, <1>4, Parts, PTL DEF Spec

--------------------------------------------------------------------------------
(***************************************************************************)
(* The argument for logout in a process that does not persist sessions: a  *)
(* thread that is about to put a session into memory does so in place of   *)
(* the one it started from, so memory is not empty; no thread holds a row. *)
(***************************************************************************)
Renewing == \A t \in Workers : thread[t].at \in {"ask", "answered"} => thread[t].asked # 0

NoRows == ~persist => \A t \in Workers : thread[t].at # "load"

Swapping ==
    ~persist => \A t \in Workers : thread[t].at = "swap" => thread[t].mine # NoSession

LogoutInv == Renewing /\ NoRows /\ Swapping /\ LoggedOutStaysOut /\ (~persist => out # "load")

\* The places a call can go to without looking at the session it holds.
Plain == {"idle", "ok", "denied", "broken", "seek", "find", "wait", "locked", "offline", "drop",
          "erase", "giveback", "store"}

LEMMA ReturnPlain ==
    ASSUME Sessions, NEW t \in Workers, NEW result \in Results, Return(t, result)
    PROVE  \A u \in Workers : thread'[u] = thread[u] \/ thread'[u].at \in Plain
BY DEF Sessions, Return, Becomes, Call, Results, Plain

LEMMA GotoPlain ==
    ASSUME Sessions, NEW t \in Workers, NEW at \in Plain, Goto(t, at)
    PROVE  \A u \in Workers : thread'[u] = thread[u] \/ thread'[u].at \in Plain
<1>1. thread[t] \in AnyCall
    BY DEF Sessions
<1>2. [thread[t] EXCEPT !.at = at].at = at
    BY <1>1 DEF AnyCall
<1> QED
    BY <1>2 DEF Sessions, Goto, Becomes

\* Most steps put no thread at a place the argument is about.
LEMMA PlainSteps ==
    ASSUME LogoutInv, UNCHANGED persist,
           \A u \in Workers : thread'[u] = thread[u] \/ thread'[u].at \in Plain
    PROVE  Renewing' /\ NoRows' /\ Swapping'
BY DEF LogoutInv, Renewing, NoRows, Swapping, Plain

LEMMA ProceedKeeps ==
    ASSUME Sessions, LogoutInv, UNCHANGED persist, NEW t \in Workers, NEW lookup \in Lookups,
           NEW s \in AnySession, s # NoSession \/ persist, Proceed(t, lookup, s)
    PROVE  Renewing' /\ NoRows' /\ Swapping'
<1>0. thread[t] \in AnyCall
    BY DEF Sessions
<1>1. CASE Return(t, "ok") \/ Return(t, "denied")
    BY <1>1, ReturnPlain, PlainSteps DEF Results
<1>2. CASE Becomes(t, [thread[t] EXCEPT !.at = "wait", !.mine = s])
    <2>1. [thread[t] EXCEPT !.at = "wait", !.mine = s].at \in Plain
        BY <1>0 DEF AnyCall, Plain
    <2>2. \A u \in Workers : thread'[u] = thread[u] \/ thread'[u].at \in Plain
        BY <1>2, <2>1 DEF Becomes, Sessions
    <2> QED
        BY <2>2, PlainSteps
<1>3. CASE Due(s) /\ Becomes(t, [thread[t] EXCEPT !.at = "ask", !.mine = s, !.asked = s.token])
    <2> DEFINE c == [thread[t] EXCEPT !.at = "ask", !.mine = s, !.asked = s.token]
    <2>1. s.token # 0
        BY <1>3 DEF Due, Sessions
    <2>2. c.at = "ask" /\ c.asked # 0
        BY <1>0, <2>1 DEF AnyCall
    <2> HIDE DEF c
    <2>3. \A u \in Workers : thread'[u] = IF u = t THEN c ELSE thread[u]
        BY <1>3 DEF c, Becomes, Sessions
    <2> QED
        BY <2>2, <2>3 DEF LogoutInv, Renewing, NoRows, Swapping
<1>4. CASE Becomes(t, [thread[t] EXCEPT !.at = "swap", !.mine = s])
    <2> DEFINE c == [thread[t] EXCEPT !.at = "swap", !.mine = s]
    <2>1. c.at = "swap" /\ c.mine = s
        BY <1>0 DEF AnyCall
    <2> HIDE DEF c
    <2>2. \A u \in Workers : thread'[u] = IF u = t THEN c ELSE thread[u]
        BY <1>4 DEF c, Becomes, Sessions
    <2> QED
        BY <2>1, <2>2 DEF LogoutInv, Renewing, NoRows, Swapping
<1>5. CASE Becomes(t, Call("find", thread[t].goal))
    <2>1. Call("find", thread[t].goal).at \in Plain
        BY DEF Call, Plain
    <2>2. \A u \in Workers : thread'[u] = thread[u] \/ thread'[u].at \in Plain
        BY <1>5, <2>1 DEF Becomes, Sessions
    <2> QED
        BY <2>2, PlainSteps
<1> QED
    BY <1>1, <1>2, <1>3, <1>4, <1>5 DEF Proceed

LEMMA LookupKeeps ==
    ASSUME Sessions, LogoutInv, NEW t \in Workers,
           FoundInMemory(t) \/ ReadRow(t) \/ Restore(t) \/ NotFound(t) \/ TakeLock(t)
    PROVE  LogoutInv'
<1>0. thread[t] \in AnyCall
    BY DEF Sessions
<1> USE DEF modes, session, logout
<1>1. CASE FoundInMemory(t)
    <2>1. Renewing' /\ NoRows' /\ Swapping'
        BY <1>1, ProceedKeeps DEF FoundInMemory, Sessions
    <2> QED
        BY <1>1, <2>1 DEF FoundInMemory, LogoutInv, LoggedOutStaysOut
<1>2. CASE ReadRow(t)
    <2> DEFINE c == [thread[t] EXCEPT !.at = "load", !.mine = db, !.back = thread[t].at]
    <2>1. c.at = "load"
        BY <1>0 DEF AnyCall
    <2> HIDE DEF c
    <2>2. \A u \in Workers : thread'[u] = IF u = t THEN c ELSE thread[u]
        BY <1>2 DEF c, ReadRow, Becomes, Sessions
    <2> QED
        BY <1>2, <2>1, <2>2
        DEF ReadRow, LogoutInv, Renewing, NoRows, Swapping, LoggedOutStaysOut
<1>3. CASE Restore(t)
    <2>1. persist
        BY <1>3 DEF Restore, LogoutInv, NoRows
    <2>2. thread[t].mine \in AnySession /\ thread[t].back \in Lookups
        BY <1>0 DEF AnyCall
    <2>3. Renewing' /\ NoRows' /\ Swapping'
        BY <1>3, <2>1, <2>2, RestoredTyped, ProceedKeeps DEF Restore
    <2> QED
        BY <1>3, <2>1, <2>3 DEF Restore, LogoutInv, LoggedOutStaysOut
<1>4. CASE NotFound(t)
    <2>1. \A u \in Workers : thread'[u] = thread[u] \/ thread'[u].at \in Plain
        BY <1>4, ReturnPlain, GotoPlain DEF NotFound, Results, Plain
    <2> QED
        BY <1>4, <2>1, PlainSteps DEF NotFound, LogoutInv, LoggedOutStaysOut
<1>5. CASE TakeLock(t)
    <2>1. [thread[t] EXCEPT !.at = "locked", !.held = thread[t].mine.lock].at \in Plain
        BY <1>0 DEF AnyCall, Plain
    <2>2. \A u \in Workers : thread'[u] = thread[u] \/ thread'[u].at \in Plain
        BY <1>5, <2>1 DEF TakeLock, Becomes, Sessions
    <2> QED
        BY <1>5, <2>2, PlainSteps DEF TakeLock, LogoutInv, LoggedOutStaysOut
<1> QED
    BY <1>1, <1>2, <1>3, <1>4, <1>5

LEMMA AskKeeps ==
    ASSUME Sessions, LogoutInv, NEW t \in Workers,
           AskGranted(t) \/ AskRefused(t) \/ AskFails(t)
    PROVE  LogoutInv'
<1>0. thread[t] \in AnyCall
    BY DEF Sessions
<1> USE DEF modes, session, logout
<1>1. CASE AskGranted(t)
    <2> DEFINE c == [thread[t] EXCEPT !.at = "answered", !.got = issued + 1]
    <2>1. c.at = "answered" /\ c.asked = thread[t].asked /\ thread[t].at = "ask"
        BY <1>0, <1>1 DEF AnyCall, AskGranted
    <2> HIDE DEF c
    <2>2. \A u \in Workers : thread'[u] = IF u = t THEN c ELSE thread[u]
        BY <1>1 DEF c, AskGranted, Becomes, Sessions
    <2> QED
        BY <1>1, <2>1, <2>2
        DEF AskGranted, LogoutInv, Renewing, NoRows, Swapping, LoggedOutStaysOut
<1>2. CASE AskRefused(t)
    <2>1. \A u \in Workers : thread'[u] = thread[u] \/ thread'[u].at \in Plain
        BY <1>2, GotoPlain DEF AskRefused, Plain
    <2> QED
        BY <1>2, <2>1, PlainSteps DEF AskRefused, LogoutInv, LoggedOutStaysOut
<1>3. CASE AskFails(t)
    <2>1. \A u \in Workers : thread'[u] = thread[u] \/ thread'[u].at \in Plain
        BY <1>3, GotoPlain, ReturnPlain DEF AskFails, Results, Plain
    <2> QED
        BY <1>3, <2>1, PlainSteps DEF AskFails, LogoutInv, LoggedOutStaysOut
<1> QED
    BY <1>1, <1>2, <1>3

\* A thread puts a session into memory only where there is one.
LEMMA ReplaceKeeps ==
    ASSUME Sessions, LogoutInv, NEW t \in Workers, ReplaceSession(t) \/ SwapOffline(t)
    PROVE  LogoutInv'
<1>0. thread[t] \in AnyCall
    BY DEF Sessions
<1> USE DEF modes, logout
<1>1. UNCHANGED <<persist, out>>
    BY DEF ReplaceSession, SwapOffline
<1>2. \A u \in Workers : thread'[u] = thread[u] \/ thread'[u].at \in Plain
    <2>1. \A s : [thread[t] EXCEPT !.at = "store", !.mine = s].at \in Plain
        BY <1>0 DEF AnyCall, Plain
    <2>2. CASE Goto(t, "giveback") \/ Goto(t, "drop")
        BY <2>2, GotoPlain DEF Plain
    <2>3. CASE \E s : Becomes(t, [thread[t] EXCEPT !.at = "store", !.mine = s])
        BY <2>1, <2>3 DEF Becomes, Sessions
    <2> QED
        BY <2>2, <2>3 DEF ReplaceSession, SwapOffline
<1>3. UNCHANGED mem \/ mem # NoSession \/ persist
    <2>1. CASE ReplaceSession(t)
        <3>1. NoSession.token = 0
            BY DEF NoSession, Session
        <3>2. thread[t].asked # 0
            BY <2>1 DEF ReplaceSession, LogoutInv, Renewing
        <3> QED
            BY <2>1, <3>1, <3>2 DEF ReplaceSession
    <2>2. CASE SwapOffline(t)
        <3>1. persist \/ thread[t].mine # NoSession
            BY <2>2 DEF SwapOffline, LogoutInv, Swapping
        <3> QED
            BY <2>2, <3>1 DEF SwapOffline
    <2> QED
        BY <2>1, <2>2
<1> QED
    BY <1>1, <1>2, <1>3, PlainSteps DEF LogoutInv, LoggedOutStaysOut

LEMMA CloseKeeps ==
    ASSUME Sessions, LogoutInv, NEW t \in Workers,
           StoreRow(t) \/ GiveBack(t) \/ DropSession(t) \/ EraseRow(t)
    PROVE  LogoutInv'
<1> USE DEF modes, session, logout
<1>1. UNCHANGED <<persist, out>> /\ (UNCHANGED mem \/ mem' = NoSession)
    BY DEF StoreRow, GiveBack, DropSession, EraseRow
<1>2. \A u \in Workers : thread'[u] = thread[u] \/ thread'[u].at \in Plain
    BY ReturnPlain, GotoPlain DEF StoreRow, GiveBack, DropSession, EraseRow, Results, Plain
<1> QED
    BY <1>1, <1>2, PlainSteps DEF LogoutInv, LoggedOutStaysOut

LEMMA LoopKeeps ==
    ASSUME Sessions, LogoutInv,
           \/ \E t \in Workers : RequireValidSession(t)
           \/ \E t \in Workers, s \in Sockets : Connect(t, s) \/ Revalidate(t, s) \/ Respond(t, s)
           \/ DisconnectSessionSockets
           \/ \E s \in Sockets : Disconnect(s)
    PROVE  LogoutInv'
<1> USE DEF modes, session, logout
<1>1. UNCHANGED <<persist, out, mem>>
    BY DEF RequireValidSession, Connect, Revalidate, Submit, Respond, DisconnectSessionSockets,
           Disconnect, Disconnected
<1>2. ASSUME NEW t \in Workers, NEW c, c.at \in Plain, Becomes(t, c)
      PROVE  LogoutInv'
    <2>1. \A u \in Workers : thread'[u] = thread[u] \/ thread'[u].at \in Plain
        BY <1>2 DEF Becomes, Sessions
    <2> QED
        BY <1>1, <2>1, PlainSteps DEF LogoutInv, LoggedOutStaysOut
<1>3. CASE \E S : Disconnected(S)
    <2> PICK S : thread' = Uncalled(S)
        BY <1>3 DEF Disconnected
    <2>1. \A u \in Workers : /\ thread'[u].at = thread[u].at \/ thread'[u].at \in Plain
                             /\ thread'[u].at = thread[u].at
                                => thread'[u].asked = thread[u].asked
                                   /\ thread'[u].mine = thread[u].mine
        <3> TAKE u \in Workers
        <3>1. thread[u] \in AnyCall
            BY DEF Sessions
        <3>2. CASE thread'[u] = thread[u]
            BY <3>2
        <3>3. CASE thread'[u] = Call("idle", "http") /\ thread[u].at \in Results
            BY <3>3 DEF Call, Plain, Results
        <3>4. CASE thread'[u] = [thread[u] EXCEPT !.goal = "dropped"]
            BY <3>1, <3>4 DEF AnyCall
        <3> QED
            BY <3>2, <3>3, <3>4 DEF Uncalled
    <2>2. Renewing' /\ NoRows' /\ Swapping'
        BY <1>1, <2>1 DEF LogoutInv, Renewing, NoRows, Swapping, Plain
    <2> QED
        BY <1>1, <2>2 DEF LogoutInv, LoggedOutStaysOut
<1>4. CASE \E t \in Workers, s \in Sockets : Respond(t, s)
    <2> PICK t \in Workers, s \in Sockets : Becomes(t, Call("idle", "http"))
        BY <1>4 DEF Respond
    <2>1. Call("idle", "http").at \in Plain
        BY DEF Call, Plain
    <2> QED
        BY <1>2, <2>1
<1>5. CASE \E t \in Workers : \E goal : Submit(t, goal)
    <2> PICK t \in Workers : \E goal : Submit(t, goal)
        BY <1>5
    <2> PICK goal : Becomes(t, Call("seek", goal))
        BY <1>5 DEF Submit
    <2>1. Call("seek", goal).at \in Plain
        BY DEF Call, Plain
    <2> QED
        BY <1>2, <2>1
<1> QED
    BY <1>3, <1>4, <1>5 DEF RequireValidSession, Connect, Revalidate,
                            DisconnectSessionSockets, Disconnect

LEMMA LogoutKeeps ==
    ASSUME Sessions, LogoutInv, Logout
    PROVE  LogoutInv'
<1> USE DEF modes, session, logout
<1>1. Renewing' /\ NoRows' /\ Swapping'
    BY PlainSteps DEF Logout, LogoutFinds, LogoutRestores, LogoutPops, LogoutErases, LogoutRevokes
<1>2. UNCHANGED persist
    BY DEF Logout, LogoutFinds, LogoutRestores, LogoutPops, LogoutErases, LogoutRevokes
<1>3. ~persist => LoggedOutStaysOut' /\ out' # "load"
    BY DEF Logout, LogoutFinds, LogoutRestores, LogoutPops, LogoutErases, LogoutRevokes,
           LogoutInv, LoggedOutStaysOut
<1> QED
    BY <1>1, <1>2, <1>3 DEF LogoutInv, LoggedOutStaysOut

LEMMA OthersKeep ==
    ASSUME Sessions, LogoutInv,
           \/ HandleOidcCallback \/ StartLocalSession
           \/ AccessTokenExpires \/ Restart \/ UNCHANGED vars
    PROVE  LogoutInv'
<1> USE DEF modes, session, logout
<1>1. CASE HandleOidcCallback \/ StartLocalSession
    <2>1. UNCHANGED <<persist, thread>> /\ out' = "none"
        BY <1>1 DEF HandleOidcCallback, StartLocalSession, SignIn
    <2> QED
        BY <2>1, PlainSteps DEF LogoutInv, LoggedOutStaysOut
<1>2. CASE AccessTokenExpires \/ UNCHANGED vars
    <2>1. UNCHANGED <<persist, thread, out, mem>>
        BY <1>2 DEF AccessTokenExpires, vars
    <2> QED
        BY <2>1, PlainSteps DEF LogoutInv, LoggedOutStaysOut
<1>3. CASE Restart
    <2>1. \A u \in Workers : thread'[u].at \in Plain
        BY <1>3 DEF Restart, Call, Plain
    <2> QED
        BY <1>3, <2>1, PlainSteps DEF Restart, LogoutInv, LoggedOutStaysOut
<1> QED
    BY <1>1, <1>2, <1>3

(***************************************************************************)
(* In a process that does not persist sessions, a session that was logged  *)
(* out stays out, whatever its threads were doing.                         *)
(***************************************************************************)
THEOREM LogoutSticks == Spec => []LoggedOutStaysOut
<1>1. Init => Sessions
    BY CallTyped, NoSessionTyped, SessionAssumption DEF Init, Sessions
<1>2. Init => LogoutInv
    BY DEF Init, Call, LogoutInv, Renewing, NoRows, Swapping, LoggedOutStaysOut
<1>3. (Sessions /\ LogoutInv) /\ [Next]_vars => (Sessions /\ LogoutInv)'
    <2> SUFFICES ASSUME Sessions, LogoutInv, [Next]_vars PROVE Sessions' /\ LogoutInv'
        OBVIOUS
    <2>1. CASE \E t \in Workers : Work(t)
        BY <2>1, LookupKeeps, AskKeeps, ReplaceKeeps, CloseKeeps, StepSessions DEF Work
    <2> QED
        BY <2>1, LoopKeeps, LogoutKeeps, OthersKeep, StepSessions DEF Next
<1>4. LogoutInv => LoggedOutStaysOut
    BY DEF LogoutInv
<1> QED
    BY <1>1, <1>2, <1>3, <1>4, PTL DEF Spec

--------------------------------------------------------------------------------
(***************************************************************************)
(* The argument for renewals, as long as no token was lost or withdrawn    *)
(* and nobody logs out: every thread that waits for a refresh lock waits   *)
(* for the lock of the session in memory, so that one thread at a time     *)
(* looks, asks, replaces and stores; it asks with the token it finds under *)
(* the lock, and the row is the session in memory but while it stores.     *)
(***************************************************************************)
HasTurn(t) == thread[t].at \in {"locked", "ask", "answered", "store"}

Orderly(c) ==
    /\ c.at \in {"idle", "seek", "find", "wait", "locked", "ask", "answered", "store",
                 "ok", "denied", "broken"}
    /\ c.at = "wait" => c.mine.lock = mem.lock
    /\ c.at \in {"locked", "ask", "answered", "store"} => c.held = mem.lock
    /\ c.at \in {"ask", "answered"} => c.asked = mem.token /\ c.mine.lock = mem.lock
    /\ c.at = "ask" => c.asked \in valid
    /\ c.at = "answered" => c.got \in valid
    /\ c.at = "store" => c.mine = mem

OneTurn == \A t, u \in Workers : HasTurn(t) /\ HasTurn(u) => t = u

TokenUsable == (\A t \in Workers : thread[t].at # "answered") => mem.token \in valid \cup {0}

RowWritten ==
    persist /\ faults = 0 => db = Row(mem) \/ \E t \in Workers : thread[t].at = "store"

InTurn ==
    /\ mem.lock # 0
    /\ \A t \in Workers : Orderly(thread[t])
    /\ OneTurn /\ TokenUsable /\ RowWritten

TurnInv ==
    /\ clean /\ out = "none" => InTurn
    /\ out = "new" => \A t \in Workers : Idle(t)

\* A call moves on without an answer of the token endpoint and without a row.
LEMMA CallMoves ==
    ASSUME Sessions, InTurn, NEW t \in Workers, NEW c, Becomes(t, c), Orderly(c),
           UNCHANGED <<mem, db, valid, persist, faults>>,
           thread[t].at \notin {"answered", "store"}, c.at \notin {"answered", "store"},
           c.at \in {"locked", "ask"} => HasTurn(t) \/ \A u \in Workers : ~HasTurn(u)
    PROVE  InTurn'
<1>1. \A u \in Workers : thread'[u] = IF u = t THEN c ELSE thread[u]
    BY DEF Becomes, Sessions
<1>2. \A u \in Workers : Orderly(thread[u])'
    BY <1>1 DEF InTurn, Orderly
<1>3. OneTurn'
    BY <1>1 DEF InTurn, OneTurn, HasTurn
<1>4. TokenUsable' /\ RowWritten'
    BY <1>1 DEF InTurn, TokenUsable, RowWritten
<1> QED
    BY <1>2, <1>3, <1>4 DEF InTurn

LEMMA ReturnMoves ==
    ASSUME Sessions, InTurn, NEW t \in Workers, NEW result \in Results, Return(t, result),
           UNCHANGED <<mem, db, valid, persist, faults>>,
           thread[t].at \notin {"answered", "store"}
    PROVE  InTurn'
<1> DEFINE c == IF thread[t].goal \in Sockets THEN Call(result, thread[t].goal)
                                               ELSE Call("idle", "http")
<1>1. c.at \in {"idle", "ok", "denied", "broken"}
    BY DEF Call, Results
<1>2. Becomes(t, c)
    BY DEF Return
<1> HIDE DEF c
<1>3. Orderly(c)
    BY <1>1 DEF Orderly
<1> QED
    BY <1>1, <1>2, <1>3, CallMoves

LEMMA NeverGone ==
    ASSUME InTurn
    PROVE  mem # NoSession
BY DEF InTurn, NoSession, Session

LEMMA LookupInTurn ==
    ASSUME Sessions, InTurn, NEW t \in Workers,
           FoundInMemory(t) \/ ReadRow(t) \/ Restore(t) \/ NotFound(t) \/ TakeLock(t)
    PROVE  InTurn'
<1> USE DEF modes, session, logout, auth, counts
<1>0. thread[t] \in AnyCall /\ Orderly(thread[t])
    BY DEF Sessions, InTurn
<1>1. CASE FoundInMemory(t)
    <2> USE <1>1
    <2>0. UNCHANGED <<mem, db, valid, persist, faults>> /\ thread[t].at \in {"seek", "find", "locked"}
        BY <1>0 DEF FoundInMemory, Lookups, Orderly
    <2>1. CASE Return(t, "ok") \/ Return(t, "denied")
        BY <2>0, <2>1, ReturnMoves DEF Results
    <2>2. CASE Becomes(t, [thread[t] EXCEPT !.at = "wait", !.mine = mem])
        <3> DEFINE c == [thread[t] EXCEPT !.at = "wait", !.mine = mem]
        <3>1. c.at = "wait" /\ c.mine = mem
            BY <1>0 DEF AnyCall
        <3> HIDE DEF c
        <3>2. Orderly(c)
            BY <3>1 DEF Orderly
        <3> QED
            BY <2>0, <2>2, <3>1, <3>2, CallMoves DEF c
    <2>3. CASE /\ thread[t].at = "locked" /\ Due(mem)
               /\ Becomes(t, [thread[t] EXCEPT !.at = "ask", !.mine = mem, !.asked = mem.token])
        <3> DEFINE c == [thread[t] EXCEPT !.at = "ask", !.mine = mem, !.asked = mem.token]
        <3>1. c.at = "ask" /\ c.mine = mem /\ c.asked = mem.token /\ c.held = thread[t].held
            BY <1>0 DEF AnyCall
        <3>2. HasTurn(t)
            BY <2>3 DEF HasTurn
        <3>3. mem.token \in valid
            <4>1. \A u \in Workers : thread[u].at # "answered"
                BY <2>3, <3>2 DEF InTurn, OneTurn, HasTurn
            <4>2. mem.token # 0
                BY <2>3 DEF Due, Sessions
            <4> QED
                BY <4>1, <4>2 DEF InTurn, TokenUsable
        <3> HIDE DEF c
        <3>4. Orderly(c)
            BY <1>0, <2>3, <3>1, <3>3 DEF Orderly
        <3> QED
            BY <2>0, <2>3, <3>1, <3>2, <3>4, CallMoves DEF c
    <2>4. CASE Becomes(t, Call("find", thread[t].goal))
        <3> DEFINE c == Call("find", thread[t].goal)
        <3>1. c.at = "find"
            BY DEF Call
        <3> HIDE DEF c
        <3>2. Orderly(c)
            BY <3>1 DEF Orderly
        <3> QED
            BY <2>0, <2>4, <3>1, <3>2, CallMoves DEF c
    <2> QED
        BY <2>0, <2>1, <2>2, <2>3, <2>4 DEF FoundInMemory, Proceed
<1>2. CASE ReadRow(t) \/ NotFound(t)
    BY <1>2, NeverGone DEF ReadRow, NotFound
<1>3. CASE Restore(t)
    BY <1>0, <1>3 DEF Restore, Orderly
<1>4. CASE TakeLock(t)
    <2> DEFINE c == [thread[t] EXCEPT !.at = "locked", !.held = thread[t].mine.lock]
    <2>1. c.at = "locked" /\ c.held = thread[t].mine.lock
        BY <1>0 DEF AnyCall
    <2>2. Becomes(t, c) /\ thread[t].at = "wait"
        BY <1>4 DEF TakeLock
    <2> HIDE DEF c
    <2>3. thread[t].mine.lock = mem.lock
        BY <1>0, <2>2 DEF Orderly
    <2>4. Orderly(c)
        BY <2>1, <2>3 DEF Orderly
    <2>5. \A u \in Workers : ~HasTurn(u)
        BY <1>4, <2>3 DEF TakeLock, HasTurn, InTurn, Orderly
    <2> QED
        BY <1>4, <2>1, <2>2, <2>4, <2>5, CallMoves DEF TakeLock
<1> QED
    BY <1>1, <1>2, <1>3, <1>4

\* The renewal of one thread: nobody else has a turn meanwhile.
LEMMA RenewalInTurn ==
    ASSUME Sessions, InTurn, faults \in Nat, NEW t \in Workers, clean',
           \/ AskGranted(t) \/ AskRefused(t) \/ AskFails(t)
           \/ ReplaceSession(t) \/ StoreRow(t)
    PROVE  InTurn'
<1> USE DEF modes, session, logout, auth, counts
<1>0. thread[t] \in AnyCall /\ Orderly(thread[t])
    BY DEF Sessions, InTurn
<1>1. \A u \in Workers \ {t} : HasTurn(t) => ~HasTurn(u)
    BY DEF InTurn, OneTurn
<1>2. CASE AskGranted(t)
    <2> PICK c : c = [thread[t] EXCEPT !.at = "answered", !.got = issued + 1]
        OBVIOUS
    <2>1. /\ c.at = "answered" /\ c.got = issued + 1 /\ c.asked = thread[t].asked
          /\ c.held = thread[t].held /\ c.mine = thread[t].mine
        BY <1>0 DEF AnyCall
    <2>2. Becomes(t, c) /\ thread[t].at = "ask" /\ issued + 1 \in valid'
        BY <1>2 DEF AskGranted, Exchanged
    <2>3. \A u \in Workers : thread'[u] = IF u = t THEN c ELSE thread[u]
        BY <2>2 DEF Becomes, Sessions
    <2>4. \A u \in Workers \ {t} : ~HasTurn(u)
        BY <1>1, <2>2 DEF HasTurn
    <2>5. UNCHANGED <<mem, db, persist, faults>>
        BY <1>2 DEF AskGranted
    <2>6. \A u \in Workers : Orderly(thread[u])'
        <3>1. Orderly(c)'
            BY <1>0, <2>1, <2>2, <2>5 DEF Orderly
        <3>2. ASSUME NEW u \in Workers \ {t} PROVE Orderly(thread[u])'
            BY <2>3, <2>4, <2>5 DEF Orderly, HasTurn, InTurn
        <3> QED
            BY <2>3, <3>1, <3>2
    <2>7. OneTurn' /\ TokenUsable'
        BY <2>1, <2>3, <2>4 DEF OneTurn, HasTurn, TokenUsable
    <2>8. RowWritten'
        BY <2>2, <2>3, <2>5 DEF InTurn, RowWritten
    <2> QED
        BY <2>5, <2>6, <2>7, <2>8 DEF InTurn
<1>3. CASE AskRefused(t) \/ AskFails(t)
    BY <1>0, <1>3 DEF AskRefused, AskFails, Orderly
<1>4. CASE ReplaceSession(t)
    <2> PICK renewed : renewed = Session(thread[t].got, thread[t].mine.lock, FALSE)
        OBVIOUS
    <2> PICK c : c = [thread[t] EXCEPT !.at = "store", !.mine = renewed]
        OBVIOUS
    <2>1. c.at = "store" /\ c.mine = renewed /\ c.held = thread[t].held
        BY <1>0 DEF AnyCall
    <2>2. renewed.lock = thread[t].mine.lock /\ renewed.token = thread[t].got
        BY DEF Session
    <2>3. /\ Becomes(t, c) /\ mem' = renewed /\ thread[t].at = "answered"
          /\ UNCHANGED <<db, valid, persist, faults>>
        BY <1>0, <1>4 DEF ReplaceSession, Orderly
    <2>4. \A u \in Workers : thread'[u] = IF u = t THEN c ELSE thread[u]
        BY <2>3 DEF Becomes, Sessions
    <2>5. \A u \in Workers \ {t} : ~HasTurn(u)
        BY <1>1, <2>3 DEF HasTurn
    <2>6. mem'.lock = mem.lock /\ mem'.token \in valid'
        BY <1>0, <2>2, <2>3 DEF Orderly
    <2>7. \A u \in Workers : Orderly(thread[u])'
        <3>1. Orderly(c)'
            BY <1>0, <2>1, <2>3, <2>6 DEF Orderly
        <3>2. ASSUME NEW u \in Workers \ {t} PROVE Orderly(thread[u])'
            BY <2>4, <2>5, <2>6 DEF Orderly, HasTurn, InTurn
        <3> QED
            BY <2>4, <3>1, <3>2
    <2>8. OneTurn' /\ RowWritten'
        BY <2>1, <2>4, <2>5 DEF OneTurn, HasTurn, RowWritten
    <2>9. mem'.lock # 0 /\ TokenUsable'
        BY <2>6 DEF InTurn, TokenUsable
    <2> QED
        BY <2>7, <2>8, <2>9 DEF InTurn
<1>5. CASE StoreRow(t)
    <2>1. PICK c : Becomes(t, c) /\ c.at \in {"idle", "ok"}
        BY <1>5 DEF StoreRow, Return, Call
    <2>2. thread[t].at = "store" /\ UNCHANGED <<mem, valid, persist>>
        BY <1>5 DEF StoreRow
    <2>3. \A u \in Workers : thread'[u] = IF u = t THEN c ELSE thread[u]
        BY <2>1 DEF Becomes, Sessions
    <2>4. \A u \in Workers : Orderly(thread[u])'
        BY <2>1, <2>2, <2>3 DEF Orderly, InTurn
    <2>5. OneTurn'
        BY <2>1, <2>3 DEF OneTurn, HasTurn, InTurn
    <2>6. TokenUsable'
        BY <2>1, <2>2, <2>3 DEF TokenUsable, InTurn
    <2>7. RowWritten'
        <3>1. persist /\ faults' = 0 => db' = Row(thread[t].mine)
            BY <1>5 DEF StoreRow, Persisted, DbFails
        <3>2. thread[t].mine = mem
            BY <1>0, <2>2 DEF Orderly
        <3> QED
            BY <2>2, <3>1, <3>2 DEF RowWritten
    <2> QED
        BY <2>2, <2>4, <2>5, <2>6, <2>7 DEF InTurn
<1> QED
    BY <1>2, <1>3, <1>4, <1>5

LEMMA DisconnectionInTurn ==
    ASSUME Sessions, InTurn, NEW S, thread' = Uncalled(S),
           UNCHANGED <<mem, db, valid, persist, faults>>
    PROVE  InTurn'
<1>1. ASSUME NEW u \in Workers
      PROVE  /\ Orderly(thread[u])'
             /\ HasTurn(u)' => HasTurn(u)
             /\ thread[u].at \in {"answered", "store"} => thread'[u].at = thread[u].at
    <2>0. thread[u] \in AnyCall /\ Orderly(thread[u])
        BY DEF Sessions, InTurn
    <2>1. CASE thread'[u] = thread[u]
        BY <2>0, <2>1 DEF Orderly, HasTurn
    <2>2. CASE thread'[u] = Call("idle", "http") /\ thread[u].at \in Results
        <3>1. thread'[u].at = "idle"
            BY <2>2 DEF Call
        <3> QED
            BY <2>2, <3>1 DEF Orderly, HasTurn, Results
    <2>3. CASE thread'[u] = [thread[u] EXCEPT !.goal = "dropped"]
        BY <2>0, <2>3 DEF Orderly, HasTurn, AnyCall
    <2> QED
        BY <2>1, <2>2, <2>3 DEF Uncalled
<1> QED
    BY <1>1 DEF InTurn, OneTurn, TokenUsable, RowWritten

LEMMA LoopInTurn ==
    ASSUME Sessions, InTurn,
           \/ \E t \in Workers : RequireValidSession(t)
           \/ \E t \in Workers, s \in Sockets : Connect(t, s) \/ Revalidate(t, s) \/ Respond(t, s)
           \/ DisconnectSessionSockets
           \/ \E s \in Sockets : Disconnect(s)
    PROVE  InTurn'
<1> USE DEF modes, session, auth, counts
<1>1. UNCHANGED <<mem, db, valid, persist, faults>>
    BY DEF RequireValidSession, Connect, Revalidate, Submit, Respond, DisconnectSessionSockets,
           Disconnect, Disconnected
<1>2. ASSUME NEW t \in Workers, NEW c, c.at \in {"idle", "seek"}, Becomes(t, c),
             thread[t].at \in Results \cup {"idle"}
      PROVE  InTurn'
    <2>1. Orderly(c)
        BY <1>2 DEF Orderly
    <2> QED
        BY <1>1, <1>2, <2>1, CallMoves DEF Results
<1>3. CASE \E S : Disconnected(S)
    BY <1>1, <1>3, DisconnectionInTurn DEF Disconnected
<1>4. CASE \E t \in Workers, s \in Sockets : Respond(t, s)
    <2> PICK t \in Workers, s \in Sockets : Respond(t, s)
        BY <1>4
    <2>1. Call("idle", "http").at = "idle"
        BY DEF Call
    <2> QED
        BY <1>2, <2>1 DEF Respond
<1>5. CASE \E t \in Workers : \E goal : Submit(t, goal)
    <2> PICK t \in Workers : \E goal : Submit(t, goal)
        BY <1>5
    <2> PICK goal : Submit(t, goal)
        BY <1>5
    <2>1. Call("seek", goal).at = "seek"
        BY DEF Call
    <2> QED
        BY <1>2, <2>1 DEF Submit, Idle
<1> QED
    BY <1>3, <1>4, <1>5 DEF RequireValidSession, Connect, Revalidate,
                            DisconnectSessionSockets, Disconnect

LEMMA SignInTurn ==
    ASSUME Sessions, TurnInv, faults \in Nat, HandleOidcCallback \/ StartLocalSession
    PROVE  InTurn'
<1> USE DEF counts
<1>1. PICK s : /\ mem' = s /\ s.lock = locks + 1 /\ Persisted(Row(s))
               /\ s.token \in valid' \cup {0}
    <2>1. CASE HandleOidcCallback
        <3>1. SignIn(Session(issued + 1, locks + 1, FALSE)) /\ issued + 1 \in valid'
            BY <2>1 DEF HandleOidcCallback
        <3> QED
            BY <3>1 DEF SignIn, Session
    <2>2. CASE StartLocalSession
        <3>1. SignIn(Session(0, locks + 1, TRUE))
            BY <2>2 DEF StartLocalSession
        <3> QED
            BY <3>1 DEF SignIn, Session
    <2> QED
        BY <2>1, <2>2
<1>2. \A t \in Workers : thread'[t].at = "idle"
    BY DEF HandleOidcCallback, StartLocalSession, SignIn, TurnInv, Idle
<1>3. mem'.lock # 0 /\ TokenUsable'
    BY <1>1 DEF Sessions, TokenUsable
<1>4. \A t \in Workers : Orderly(thread[t])'
    BY <1>2 DEF Orderly
<1>5. OneTurn'
    BY <1>2 DEF OneTurn, HasTurn
<1>6. RowWritten'
    <2>1. UNCHANGED persist
        BY DEF HandleOidcCallback, StartLocalSession, SignIn, modes
    <2>2. persist /\ faults' = 0 => db' = Row(mem')
        BY <1>1 DEF Persisted, DbFails
    <2>3. Row(mem)' = Row(mem')
        BY DEF Row
    <2> QED
        BY <2>1, <2>2, <2>3 DEF RowWritten
<1> QED
    BY <1>3, <1>4, <1>5, <1>6 DEF InTurn

\* While the renewals are in line no thread is at the end of a failed one.
LEMMA WorkInTurn ==
    ASSUME Sessions, TurnInv, faults \in Nat, NEW t \in Workers, Work(t)
    PROVE  TurnInv'
<1> USE DEF logout
<1>1. UNCHANGED out /\ (clean' => clean) /\ ~Idle(t)
    <2>1. UNCHANGED out /\ ~Idle(t)
        BY DEF Work, FoundInMemory, ReadRow, Restore, NotFound, TakeLock, AskGranted, AskRefused,
               AskFails, ReplaceSession, StoreRow, GiveBack, SwapOffline, DropSession, EraseRow,
               Idle, Lookups
    <2>2. clean' => clean
        BY DEF auth, Work, FoundInMemory, ReadRow, Restore, NotFound, TakeLock, AskGranted,
               AskRefused, AskFails, ReplaceSession, StoreRow, GiveBack, Revoked, SwapOffline,
               DropSession, EraseRow
    <2> QED
        BY <2>1, <2>2
<1>2. ASSUME clean', out' = "none" PROVE InTurn'
    <2>1. InTurn
        BY <1>1, <1>2 DEF TurnInv
    <2>2. thread[t].at \notin {"giveback", "swap", "drop", "erase"}
        BY <2>1 DEF InTurn, Orderly
    <2>3. ~(GiveBack(t) \/ SwapOffline(t) \/ DropSession(t) \/ EraseRow(t))
        BY <2>2 DEF GiveBack, SwapOffline, DropSession, EraseRow
    <2> QED
        BY <1>2, <2>1, <2>3, LookupInTurn, RenewalInTurn DEF Work
<1> QED
    BY <1>1, <1>2 DEF TurnInv

LEMMA TurnStep ==
    ASSUME Sessions, TurnInv, faults \in Nat, [Next]_vars
    PROVE  TurnInv'
<1>1. CASE \E t \in Workers : Work(t)
    BY <1>1, WorkInTurn
<1>2. CASE \/ \E t \in Workers : RequireValidSession(t)
           \/ \E t \in Workers, s \in Sockets :
                Connect(t, s) \/ Revalidate(t, s) \/ Respond(t, s)
           \/ DisconnectSessionSockets
           \/ \E s \in Sockets : Disconnect(s)
    <2>1. UNCHANGED <<out, clean>>
        BY <1>2 DEF logout, auth, RequireValidSession, Connect, Revalidate, Submit, Respond,
                    DisconnectSessionSockets, Disconnect, Disconnected
    <2>2. out' = "new" => \A t \in Workers : Idle(t)'
        <3> SUFFICES ASSUME out' = "new" PROVE \A t \in Workers : Idle(t)'
            OBVIOUS
        <3>1. \A t \in Workers : thread[t].at = "idle"
            BY <2>1 DEF TurnInv, Idle
        <3>2. DisconnectSessionSockets \/ \E s \in Sockets : Disconnect(s)
            BY <1>2, <2>1, <3>1
            DEF RequireValidSession, Connect, Revalidate, Submit, Respond, Results
        <3>3. PICK S : thread' = Uncalled(S)
            BY <3>2 DEF DisconnectSessionSockets, Disconnect, Disconnected
        <3> SUFFICES ASSUME NEW t \in Workers PROVE thread'[t].at = "idle"
            BY DEF Idle
        <3>4. thread[t] \in AnyCall
            BY DEF Sessions
        <3> QED
            BY <3>1, <3>3, <3>4 DEF Uncalled, Results, AnyCall
    <2> QED
        BY <1>2, <2>1, <2>2, LoopInTurn DEF TurnInv
<1>3. CASE HandleOidcCallback \/ StartLocalSession
    <2>1. out' = "none"
        BY <1>3 DEF HandleOidcCallback, StartLocalSession, SignIn
    <2> QED
        BY <1>3, <2>1, SignInTurn DEF TurnInv
<1>4. CASE Logout \/ Restart
    <2>1. ~(clean' /\ out' = "none") /\ out' # "new"
        BY <1>4 DEF Logout, LogoutFinds, LogoutRestores, LogoutPops, LogoutErases, LogoutRevokes,
                    Restart
    <2> QED
        BY <2>1 DEF TurnInv
<1>5. CASE AccessTokenExpires \/ UNCHANGED vars
    <2>1. UNCHANGED <<mem, db, valid, persist, faults, thread, out, clean>>
        BY <1>5 DEF AccessTokenExpires, vars, modes, session, logout, auth, counts
    <2>2. InTurn => InTurn'
        BY <2>1 DEF InTurn, Orderly, OneTurn, HasTurn, TokenUsable, RowWritten
    <2> QED
        BY <2>1, <2>2 DEF TurnInv, Idle
<1> QED
    BY <1>1, <1>2, <1>3, <1>4, <1>5 DEF Next

LEMMA TurnAlways == Spec => [](Places /\ TurnInv)
<1>1. Init => Sessions /\ Places
    BY CallTyped, NoSessionTyped, SessionAssumption DEF Init, Sessions, Places
<1>2. Init => Attributes
    BY Zenon DEF Init, Attributes
<1>3. Init => TurnInv
    BY DEF Init, Call, TurnInv, Idle
<1>4. (Attributes /\ Sessions /\ Places /\ TurnInv) /\ [Next]_vars
      => (Attributes /\ Sessions /\ Places /\ TurnInv)'
    <2> SUFFICES ASSUME Attributes, Sessions, Places, TurnInv, [Next]_vars
                 PROVE  Attributes' /\ Sessions' /\ Places' /\ TurnInv'
        OBVIOUS
    <2>1. faults \in Nat
        BY SessionAssumption DEF Places
    <2> QED
        BY <2>1, TurnStep, StepAttributes, StepSessions, StepPlaces
<1> QED
    BY <1>1, <1>2, <1>3, <1>4, PTL DEF Spec

(***************************************************************************)
(* Whatever the number of threads, a refresh token that was exchanged is   *)
(* not sent again, as long as no answer was lost and no grant withdrawn.   *)
(***************************************************************************)
THEOREM TokensUsedOnce == Spec => []NoSpentToken
<1>1. TurnInv => NoSpentToken
    BY DEF TurnInv, InTurn, Orderly, NoSpentToken
<1> QED
    BY <1>1, TurnAlways, PTL

(***************************************************************************)
(* Under the same conditions the rows reach the database in the order of   *)
(* the renewals: once the threads are done it is the session in memory.    *)
(***************************************************************************)
THEOREM RowsInOrder == Spec => []RowFollowsMemory
<1>1. TurnInv => RowFollowsMemory
    BY DEF TurnInv, InTurn, RowWritten, RowFollowsMemory, Idle
<1> QED
    BY <1>1, TurnAlways, PTL

--------------------------------------------------------------------------------
(***************************************************************************)
(* The argument for the grants of a session that is not persisted: a token *)
(* the auth service still honours is in memory, with the logout handler    *)
(* that is about to revoke it, or with a thread that will store it or give *)
(* it back; a thread that gives up the session's token knows it is spent.  *)
(***************************************************************************)
Held(k) == \E t \in Workers : thread[t].at \in {"answered", "giveback"} /\ thread[t].got = k

Known(k) ==
    \/ Held(k)
    \/ out \in {"none", "pop"} /\ mem.token = k
    \/ out \in {"erase", "revoke"} /\ seen.token = k

Grantee(c) ==
    /\ c.at \notin {"offline", "swap"}
    /\ c.at \in {"answered", "giveback"} => c.got <= issued
    /\ c.at \in {"ask", "answered", "drop"} => c.asked <= issued
    /\ c.at \in {"answered", "drop"} => c.asked \notin valid

GrantInv ==
    ~persist /\ clean
    => /\ \A k \in valid : Known(k)
       /\ mem.token <= issued
       /\ \A t \in Workers : Grantee(thread[t])

\* The places of a call that say nothing about grants.
Quiet == {"idle", "seek", "find", "wait", "locked", "load", "store", "erase",
          "ok", "denied", "broken"}

Alike(c, d) == c.at = d.at /\ c.got = d.got /\ c.asked = d.asked

\* No call takes or hands over a grant.
LEMMA GrantsKept ==
    ASSUME GrantInv, clean' => clean, UNCHANGED <<persist, out, seen, issued>>,
           valid' \subseteq valid, UNCHANGED mem,
           \A u \in Workers :
               \/ Alike(thread'[u], thread[u])
               \/ /\ thread[u].at \notin {"answered", "giveback"}
                  /\ thread'[u].at \in Quiet \/ (~persist /\ clean' => Grantee(thread[u])')
    PROVE  GrantInv'
<1> SUFFICES ASSUME ~persist, clean'
             PROVE  /\ \A k \in valid' : Known(k)' /\ mem'.token <= issued'
                    /\ \A u \in Workers : Grantee(thread[u])'
    BY DEF GrantInv
<1>1. clean /\ (\A k \in valid : Known(k)) /\ mem.token <= issued
    BY DEF GrantInv
<1>2. ASSUME NEW u \in Workers PROVE Grantee(thread[u])'
    BY <1>1 DEF GrantInv, Grantee, Alike, Quiet
<1>3. \A k : Held(k) => Held(k)'
    BY DEF Held, Alike
<1> QED
    BY <1>1, <1>2, <1>3 DEF Known

LEMMA ReturnQuiet ==
    ASSUME Sessions, NEW t \in Workers, NEW result \in Results, Return(t, result)
    PROVE  \A u \in Workers : thread'[u] = thread[u] \/ (u = t /\ thread'[u].at \in Quiet)
BY DEF Sessions, Return, Becomes, Call, Results, Quiet

LEMMA LookupGrants ==
    ASSUME Sessions, LogoutInv, GrantInv, NEW t \in Workers,
           FoundInMemory(t) \/ ReadRow(t) \/ Restore(t) \/ NotFound(t) \/ TakeLock(t)
    PROVE  GrantInv'
<1> USE DEF modes, session, logout, auth
<1>0. thread[t] \in AnyCall
    BY DEF Sessions
<1>a. UNCHANGED <<persist, clean>>
    BY DEF FoundInMemory, ReadRow, Restore, NotFound, TakeLock
<1> SUFFICES ASSUME ~persist, clean PROVE GrantInv'
    BY <1>a DEF GrantInv
<1>1. Grantee(thread[t]) /\ mem.token <= issued
    BY DEF GrantInv
<1>2. ASSUME NEW c, Becomes(t, c), UNCHANGED <<persist, out, seen, issued, mem, valid, clean>>,
             thread[t].at \notin {"answered", "giveback"}, c.at \in Quiet \/ Grantee(c)
      PROVE  GrantInv'
    <2>1. \A u \in Workers : thread'[u] = IF u = t THEN c ELSE thread[u]
        BY <1>2 DEF Becomes, Sessions
    <2>2. Grantee(c) => Grantee(thread[t])'
        BY <1>2, <2>1 DEF Grantee
    <2> QED
        BY <1>2, <2>1, <2>2, GrantsKept DEF Alike
<1>3. ASSUME NEW result \in Results, Return(t, result), thread[t].at \in Lookups,
             UNCHANGED <<persist, out, seen, issued, mem, valid, clean>>
      PROVE  GrantInv'
    BY <1>3, ReturnQuiet, GrantsKept DEF Alike, Lookups
<1>4. CASE FoundInMemory(t)
    <2>1. thread[t].at \in {"seek", "find", "locked"}
        BY <1>1, <1>4 DEF FoundInMemory, Grantee, Lookups
    <2>2. CASE Return(t, "ok") \/ Return(t, "denied")
        BY <1>3, <1>4, <2>2 DEF FoundInMemory, Results
    <2>3. CASE Becomes(t, [thread[t] EXCEPT !.at = "wait", !.mine = mem])
        <3>1. [thread[t] EXCEPT !.at = "wait", !.mine = mem].at \in Quiet
            BY <1>0 DEF AnyCall, Quiet
        <3> QED
            BY <1>2, <1>4, <2>1, <2>3, <3>1 DEF FoundInMemory
    <2>4. CASE Becomes(t, [thread[t] EXCEPT !.at = "ask", !.mine = mem, !.asked = mem.token])
        <3>1. Grantee([thread[t] EXCEPT !.at = "ask", !.mine = mem, !.asked = mem.token])
            BY <1>0, <1>1 DEF AnyCall, Grantee
        <3> QED
            BY <1>2, <1>4, <2>1, <2>4, <3>1 DEF FoundInMemory
    <2>5. CASE Becomes(t, Call("find", thread[t].goal))
        <3>1. Call("find", thread[t].goal).at \in Quiet
            BY DEF Call, Quiet
        <3> QED
            BY <1>2, <1>4, <2>1, <2>5, <3>1 DEF FoundInMemory
    <2> QED
        BY <1>4, <2>1, <2>2, <2>3, <2>4, <2>5 DEF FoundInMemory, Proceed
<1>5. CASE ReadRow(t) \/ Restore(t)
    BY <1>5 DEF ReadRow, Restore, LogoutInv, NoRows
<1>6. CASE NotFound(t)
    <2>1. Return(t, "denied") /\ thread[t].at \in Lookups
        BY <1>1, <1>6 DEF NotFound, Grantee
    <2> QED
        BY <1>3, <1>6, <2>1 DEF NotFound, Results
<1>7. CASE TakeLock(t)
    <2>1. [thread[t] EXCEPT !.at = "locked", !.held = thread[t].mine.lock].at \in Quiet
        BY <1>0 DEF AnyCall, Quiet
    <2> QED
        BY <1>2, <1>7, <2>1 DEF TakeLock
<1> QED
    BY <1>4, <1>5, <1>6, <1>7

LEMMA AskGrants ==
    ASSUME Sessions, GrantInv, NEW t \in Workers,
           AskGranted(t) \/ AskRefused(t) \/ AskFails(t)
    PROVE  GrantInv'
<1> USE DEF modes, session, logout
<1>a. UNCHANGED persist
    BY DEF AskGranted, AskRefused, AskFails
<1>b. clean' => clean
    BY DEF auth, AskGranted, AskRefused, AskFails
<1> SUFFICES ASSUME ~persist, clean, clean' PROVE GrantInv'
    BY <1>a, <1>b DEF GrantInv
<1>0. thread[t] \in AnyCall /\ issued \in Nat /\ valid \subseteq 1 .. issued
    BY SessionAssumption DEF Sessions
<1>1. CASE AskGranted(t)
    <2> PICK c : c = [thread[t] EXCEPT !.at = "answered", !.got = issued + 1]
        OBVIOUS
    <2>1. c.at = "answered" /\ c.got = issued + 1 /\ c.asked = thread[t].asked
        BY <1>0 DEF AnyCall
    <2>2. /\ thread[t].at = "ask" /\ issued' = issued + 1
          /\ valid' = (valid \ {c.asked}) \cup {c.got}
          /\ UNCHANGED <<mem, out, seen>>
        BY <1>1, <2>1 DEF AskGranted, Exchanged
    <2>3. \A u \in Workers : thread'[u] = IF u = t THEN c ELSE thread[u]
        BY <1>1 DEF AskGranted, Becomes, Sessions
    <2>4. c.asked <= issued /\ c.asked \in Nat
        BY <1>0, <2>1, <2>2 DEF GrantInv, Grantee, AnyCall
    <2>5. Grantee(c)'
        BY <1>0, <2>1, <2>2, <2>4 DEF Grantee
    <2>6. ASSUME NEW u \in Workers \ {t} PROVE Grantee(thread[u])'
        <3>1. Grantee(thread[u]) /\ thread[u] \in AnyCall
            BY DEF GrantInv, Sessions
        <3> QED
            BY <1>0, <2>1, <2>2, <2>3, <3>1 DEF Grantee, AnyCall
    <2>7. Held(c.got)' /\ \A k : Held(k) => Held(k)'
        <3>1. thread'[t] = c /\ \A u \in Workers \ {t} : thread'[u] = thread[u]
            BY <2>3
        <3> QED
            BY <2>1, <2>2, <3>1 DEF Held
    <2>8. \A k \in valid' : Known(k)'
        BY <2>2, <2>7 DEF GrantInv, Known
    <2>9. mem'.token <= issued'
        <3>1. mem.token <= issued /\ mem.token \in Nat
            BY DEF GrantInv, Sessions, AnySession
        <3> QED
            BY <1>0, <2>2, <3>1
    <2> QED
        BY <2>3, <2>5, <2>6, <2>8, <2>9 DEF GrantInv
<1>2. CASE AskRefused(t)
    <2> PICK c : c = [thread[t] EXCEPT !.at = "drop"]
        OBVIOUS
    <2>1. c.at = "drop" /\ c.asked = thread[t].asked
        BY <1>0 DEF AnyCall
    <2>2. /\ thread[t].at = "ask" /\ valid' = valid \ {c.asked}
          /\ UNCHANGED <<persist, out, seen, issued, mem>>
        BY <1>2, <2>1 DEF AskRefused
    <2>3. \A u \in Workers : thread'[u] = IF u = t THEN c ELSE thread[u]
        BY <1>2 DEF AskRefused, Goto, Becomes, Sessions
    <2>4. Grantee(thread[t])'
        BY <2>1, <2>2, <2>3 DEF GrantInv, Grantee
    <2> QED
        BY <2>2, <2>3, <2>4, GrantsKept DEF Alike
<1>3. CASE AskFails(t)
    BY <1>3 DEF AskFails
<1> QED
    BY <1>1, <1>2, <1>3

LEMMA ReplaceGrants ==
    ASSUME Sessions, Places, LogoutInv, TurnInv, GrantInv, NEW t \in Workers, ReplaceSession(t)
    PROVE  GrantInv'
<1> USE DEF modes, logout, auth
<1> SUFFICES ASSUME ~persist, clean PROVE GrantInv'
    BY DEF GrantInv, ReplaceSession
<1>0. thread[t] \in AnyCall /\ Grantee(thread[t]) /\ thread[t].at = "answered"
    BY DEF Sessions, GrantInv, ReplaceSession
<1>1. CASE mem.token # thread[t].asked
    <2>1. Goto(t, "giveback") /\ UNCHANGED <<persist, out, seen, issued, valid, clean, mem>>
        BY <1>1 DEF ReplaceSession
    <2> PICK c : c = [thread[t] EXCEPT !.at = "giveback"]
        OBVIOUS
    <2>2. c.at = "giveback" /\ c.got = thread[t].got
        BY <1>0 DEF AnyCall
    <2>3. \A u \in Workers : thread'[u] = IF u = t THEN c ELSE thread[u]
        BY <2>1 DEF Goto, Becomes, Sessions
    <2>4. \A u \in Workers : Grantee(thread[u])'
        BY <1>0, <2>1, <2>2, <2>3 DEF GrantInv, Grantee
    <2>5. \A k : Held(k) => Held(k)'
        BY <1>0, <2>2, <2>3 DEF Held
    <2> QED
        BY <2>1, <2>4, <2>5 DEF GrantInv, Known
<1>2. CASE mem.token = thread[t].asked
    <2> PICK renewed : renewed = Session(thread[t].got, thread[t].mine.lock, FALSE)
        OBVIOUS
    <2> PICK c : c = [thread[t] EXCEPT !.at = "store", !.mine = renewed]
        OBVIOUS
    <2>1. c.at = "store" /\ renewed.token = thread[t].got
        BY <1>0 DEF AnyCall, Session
    <2>2. /\ Becomes(t, c) /\ mem' = renewed
          /\ UNCHANGED <<persist, out, seen, issued, valid, clean>>
        BY <1>2 DEF ReplaceSession
    <2>3. \A u \in Workers : thread'[u] = IF u = t THEN c ELSE thread[u]
        BY <2>2 DEF Becomes, Sessions
    <2>4. \A u \in Workers : Grantee(thread[u])'
        BY <2>1, <2>2, <2>3 DEF GrantInv, Grantee
    <2>5. mem'.token <= issued'
        BY <1>0, <2>1, <2>2 DEF Grantee
    <2>6. out \in {"none", "pop"} /\ mem.token \notin valid
        <3>1. thread[t].asked \notin valid /\ thread[t].asked # 0
            BY <1>0 DEF Grantee, LogoutInv, Renewing
        <3>2. mem # NoSession
            BY <1>2, <3>1 DEF NoSession, Session
        <3> QED
            BY <1>0, <3>1, <1>2, <3>2 DEF LogoutInv, LoggedOutStaysOut, Places, TurnInv, Idle
    <2>7. \A k : Held(k) => Held(k)' \/ k = mem'.token
        BY <2>1, <2>2, <2>3 DEF Held
    <2>8. \A k \in valid' : Known(k)'
        BY <2>2, <2>6, <2>7 DEF GrantInv, Known
    <2> QED
        BY <2>4, <2>5, <2>8 DEF GrantInv
<1> QED
    BY <1>1, <1>2

LEMMA CloseGrants ==
    ASSUME Sessions, GrantInv, NEW t \in Workers,
           StoreRow(t) \/ GiveBack(t) \/ SwapOffline(t) \/ DropSession(t) \/ EraseRow(t)
    PROVE  GrantInv'
<1> USE DEF modes, session, logout, auth
<1>a. UNCHANGED persist
    BY DEF StoreRow, GiveBack, SwapOffline, DropSession, EraseRow
<1>b. clean' => clean
    BY DEF StoreRow, GiveBack, Revoked, SwapOffline, DropSession, EraseRow
<1> SUFFICES ASSUME ~persist, clean, clean' PROVE GrantInv'
    BY <1>a, <1>b DEF GrantInv
<1>0. thread[t] \in AnyCall /\ Grantee(thread[t])
    BY DEF Sessions, GrantInv
<1>1. CASE StoreRow(t) \/ EraseRow(t)
    <2>1. \A u \in Workers : thread'[u] = thread[u] \/ (u = t /\ thread'[u].at \in Quiet)
        BY <1>1, ReturnQuiet DEF StoreRow, EraseRow, Results
    <2> QED
        BY <1>1, <2>1, GrantsKept DEF StoreRow, EraseRow, Alike
<1>2. CASE GiveBack(t)
    <2>1. /\ valid' = valid \ {thread[t].got} /\ thread[t].at = "giveback"
          /\ UNCHANGED <<mem, out, seen, issued>>
        BY <1>2 DEF GiveBack, Revoked
    <2>2. \A u \in Workers : thread'[u] = thread[u] \/ (u = t /\ thread'[u].at \in Quiet)
        BY <1>2, ReturnQuiet DEF GiveBack, Results
    <2>3. \A u \in Workers : Grantee(thread[u])'
        BY <2>1, <2>2 DEF GrantInv, Grantee, Quiet
    <2>4. \A k : Held(k) => Held(k)' \/ k = thread[t].got
        BY <2>1, <2>2 DEF Held
    <2> QED
        BY <2>1, <2>3, <2>4 DEF GrantInv, Known
<1>3. CASE SwapOffline(t)
    BY <1>0, <1>3 DEF SwapOffline, Grantee
<1>4. CASE DropSession(t) /\ mem.token # thread[t].asked
    <2>1. \A u \in Workers : thread'[u] = thread[u] \/ (u = t /\ thread'[u].at \in Quiet)
        BY <1>4, ReturnQuiet DEF DropSession, Results
    <2> QED
        BY <1>4, <2>1, GrantsKept DEF DropSession, Alike
<1>5. CASE DropSession(t) /\ mem.token = thread[t].asked
    <2> PICK c : c = [thread[t] EXCEPT !.at = "erase"]
        OBVIOUS
    <2>1. c.at = "erase"
        BY <1>0 DEF AnyCall
    <2>2. /\ thread[t].at = "drop" /\ mem'.token = 0
          /\ UNCHANGED <<persist, out, seen, issued, valid>>
        BY <1>5 DEF DropSession, NoSession, Session
    <2>3. \A u \in Workers :
             thread'[u] = thread[u] \/ (u = t /\ thread'[u].at = "erase")
        <3>1. Return(t, "denied") \/ Becomes(t, c)
            BY <1>5 DEF DropSession, Goto
        <3>2. CASE Becomes(t, c)
            BY <2>1, <3>2 DEF Becomes, Sessions
        <3>3. CASE ~Becomes(t, c)
            BY <1>5, <3>3 DEF DropSession, Goto
        <3> QED
            BY <3>2, <3>3
    <2>4. \A u \in Workers : Grantee(thread[u])'
        BY <2>2, <2>3 DEF GrantInv, Grantee
    <2>5. (\A k : Held(k) => Held(k)') /\ mem.token \notin valid
        BY <1>0, <1>5, <2>2, <2>3 DEF Held, Grantee
    <2>6. mem'.token <= issued'
        BY <2>2 DEF Sessions
    <2> QED
        BY <2>2, <2>4, <2>5, <2>6 DEF GrantInv, Known
<1> QED
    BY <1>1, <1>2, <1>3, <1>4, <1>5

LEMMA LoopGrants ==
    ASSUME Sessions, GrantInv,
           \/ \E t \in Workers : RequireValidSession(t)
           \/ \E t \in Workers, s \in Sockets : Connect(t, s) \/ Revalidate(t, s) \/ Respond(t, s)
           \/ DisconnectSessionSockets
           \/ \E s \in Sockets : Disconnect(s)
    PROVE  GrantInv'
<1> USE DEF modes, session, logout, auth
<1>1. UNCHANGED <<persist, clean, out, seen, issued, valid, mem>>
    BY DEF RequireValidSession, Connect, Revalidate, Submit, Respond, DisconnectSessionSockets,
           Disconnect, Disconnected
<1>2. \A u \in Workers :
          \/ Alike(thread'[u], thread[u])
          \/ thread[u].at \in Results \cup {"idle"} /\ thread'[u].at \in Quiet
    <2>1. CASE \E S : Disconnected(S)
        <3> PICK S : thread' = Uncalled(S)
            BY <2>1 DEF Disconnected
        <3> SUFFICES ASSUME NEW u \in Workers
                     PROVE  \/ Alike(thread'[u], thread[u])
                            \/ thread[u].at \in Results /\ thread'[u].at \in Quiet
            OBVIOUS
        <3>1. thread[u] \in AnyCall
            BY DEF Sessions
        <3> QED
            BY <3>1 DEF Uncalled, Call, Alike, AnyCall, Quiet
    <2>2. CASE \E t \in Workers, s \in Sockets : Respond(t, s)
        BY <2>2 DEF Respond, Becomes, Call, Sessions, Quiet, Alike
    <2>3. CASE \E t \in Workers : \E goal : Submit(t, goal)
        BY <2>3 DEF Submit, Idle, Becomes, Call, Sessions, Quiet, Alike
    <2> QED
        BY <2>1, <2>2, <2>3 DEF RequireValidSession, Connect, Revalidate,
                                DisconnectSessionSockets, Disconnect
<1> QED
    BY <1>1, <1>2, GrantsKept DEF Results

LEMMA LogoutGrants ==
    ASSUME Sessions, LogoutInv, GrantInv, Logout
    PROVE  GrantInv'
<1> USE DEF modes, session, logout, auth
<1>a. UNCHANGED <<persist, thread, issued>>
    BY DEF Logout, LogoutFinds, LogoutRestores, LogoutPops, LogoutErases, LogoutRevokes, Revoked
<1>b. clean' => clean
    BY DEF Logout, LogoutFinds, LogoutRestores, LogoutPops, LogoutErases, LogoutRevokes, Revoked
<1> SUFFICES ASSUME ~persist, clean, clean' PROVE GrantInv'
    BY <1>a, <1>b DEF GrantInv
<1>0. \A k : Held(k)' <=> Held(k)
    BY <1>a DEF Held
<1>1. valid' \subseteq valid /\ mem'.token <= issued'
    <2>1. mem.token <= issued /\ NoSession.token <= issued
        BY DEF GrantInv, NoSession, Session, Sessions
    <2>2. mem' = mem \/ mem' = NoSession
        BY DEF Logout, LogoutFinds, LogoutRestores, LogoutPops, LogoutErases, LogoutRevokes,
               LogoutInv
    <2>3. valid' \subseteq valid
        BY DEF Logout, LogoutFinds, LogoutRestores, LogoutPops, LogoutErases, LogoutRevokes, Revoked
    <2> QED
        BY <1>a, <2>1, <2>2, <2>3
<1>2. \A u \in Workers : Grantee(thread[u])'
    BY <1>a, <1>1 DEF GrantInv, Grantee
<1>3. \A k \in valid' : Known(k)'
    <2>0. (\A k \in valid : Known(k)) /\ 0 \notin valid
        BY DEF GrantInv, Sessions
    <2>1. CASE LogoutFinds
        <3>1. out = "none" /\ UNCHANGED <<mem, valid>>
            BY <2>1 DEF LogoutFinds
        <3>2. out' = "pop" \/ mem = NoSession
            BY <2>1 DEF LogoutFinds
        <3>3. NoSession.token = 0
            BY DEF NoSession, Session
        <3> QED
            BY <1>0, <2>0, <3>1, <3>2, <3>3 DEF Known
    <2>2. CASE LogoutPops
        BY <1>0, <2>0, <2>2 DEF LogoutPops, Known
    <2>3. CASE LogoutErases
        BY <1>0, <2>0, <2>3 DEF LogoutErases, Known
    <2>4. CASE LogoutRevokes
        BY <1>0, <2>0, <2>4 DEF LogoutRevokes, Revoked, Known
    <2>5. ~LogoutRestores
        BY DEF LogoutRestores, LogoutInv
    <2> QED
        BY <2>1, <2>2, <2>3, <2>4, <2>5 DEF Logout
<1> QED
    BY <1>1, <1>2, <1>3 DEF GrantInv

LEMMA OthersGrants ==
    ASSUME Sessions, TurnInv, GrantInv,
           \/ HandleOidcCallback \/ StartLocalSession
           \/ AccessTokenExpires \/ Restart \/ UNCHANGED vars
    PROVE  GrantInv'
<1>1. CASE HandleOidcCallback \/ StartLocalSession
    <2>1. /\ out = "new" /\ out' = "none" /\ UNCHANGED thread
          /\ \A t \in Workers : thread[t].at = "idle"
        BY <1>1 DEF HandleOidcCallback, StartLocalSession, SignIn, TurnInv, Idle
    <2>2. \A k : ~Held(k)
        BY <2>1 DEF Held
    <2>3. (~persist /\ clean)' => ~persist /\ clean
        BY <1>1 DEF HandleOidcCallback, StartLocalSession, SignIn, modes, auth
    <2>4. ~persist /\ clean => valid = {}
        BY <2>1, <2>2 DEF GrantInv, Known
    <2>5. ~persist /\ clean => valid' \subseteq {mem'.token} /\ mem'.token <= issued'
        <3>1. CASE HandleOidcCallback
            BY <2>4, <3>1 DEF HandleOidcCallback, SignIn, Session, Sessions
        <3>2. CASE StartLocalSession
            BY <2>4, <3>2 DEF StartLocalSession, SignIn, Session, Sessions, auth
        <3> QED
            BY <1>1, <3>1, <3>2
    <2>6. \A t \in Workers : Grantee(thread[t])'
        BY <2>1 DEF Grantee
    <2> QED
        BY <2>1, <2>3, <2>5, <2>6 DEF GrantInv, Known
<1>2. CASE AccessTokenExpires \/ UNCHANGED vars
    <2>1. UNCHANGED <<persist, clean, out, seen, issued, valid, mem, thread>>
        BY <1>2 DEF AccessTokenExpires, vars, modes, session, logout, auth
    <2> QED
        BY <2>1, GrantsKept DEF Alike
<1>3. CASE Restart
    BY <1>3 DEF Restart, GrantInv
<1> QED
    BY <1>1, <1>2, <1>3

(***************************************************************************)
(* Whatever the number of threads, no grant of a session that was logged   *)
(* out is left at the auth service, if every call to it was answered.      *)
(***************************************************************************)
THEOREM NothingLeftGranted == Spec => []GrantReturned
<1>1. Init => Sessions /\ Places
    BY CallTyped, NoSessionTyped, SessionAssumption DEF Init, Sessions, Places
<1>2. Init => LogoutInv /\ TurnInv
    BY DEF Init, Call, LogoutInv, Renewing, NoRows, Swapping, LoggedOutStaysOut, TurnInv, Idle
<1>3. Init => GrantInv
    BY DEF Init, Call, GrantInv, Grantee, NoSession, Session
<1>4. (Sessions /\ Places /\ LogoutInv /\ TurnInv /\ GrantInv) /\ [Next]_vars
      => (Sessions /\ Places /\ LogoutInv /\ TurnInv /\ GrantInv)'
    <2> SUFFICES ASSUME Sessions, Places, LogoutInv, TurnInv, GrantInv, [Next]_vars
                 PROVE  Sessions' /\ Places' /\ LogoutInv' /\ TurnInv' /\ GrantInv'
        OBVIOUS
    <2>1. faults \in Nat
        BY SessionAssumption DEF Places
    <2>2. Sessions' /\ Places' /\ TurnInv'
        BY <2>1, TurnStep, StepSessions, StepPlaces
    <2>3. CASE \E t \in Workers : Work(t)
        <3>1. LogoutInv'
            BY <2>3, LookupKeeps, AskKeeps, ReplaceKeeps, CloseKeeps DEF Work
        <3>2. GrantInv'
            BY <2>3, LookupGrants, AskGrants, ReplaceGrants, CloseGrants DEF Work
        <3> QED
            BY <2>2, <3>1, <3>2
    <2>4. CASE ~\E t \in Workers : Work(t)
        <3>1. LogoutInv'
            BY <2>4, LoopKeeps, LogoutKeeps, OthersKeep DEF Next
        <3>2. GrantInv'
            BY <2>4, LoopGrants, LogoutGrants, OthersGrants DEF Next
        <3> QED
            BY <2>2, <3>1, <3>2
    <2> QED
        BY <2>3, <2>4
<1>5. Sessions /\ GrantInv => GrantReturned
    <2> SUFFICES ASSUME Sessions, GrantInv, ~persist, clean, out = "done",
                        \A t \in Workers : Idle(t)
                 PROVE  valid = {}
        BY DEF GrantReturned
    <2>1. \A k : ~Held(k)
        BY DEF Held, Idle
    <2> QED
        BY <2>1 DEF GrantInv, Known
<1> QED
    BY <1>1, <1>2, <1>3, <1>4, <1>5, PTL DEF Spec

--------------------------------------------------------------------------------
(***************************************************************************)
(* The argument for sockets: at most one call at a time is about a socket; *)
(* whoever takes the session out of memory announces it; and once it is    *)
(* gone and that was carried out, no call that could end a revalidation    *)
(* task is about a registered socket any more.                             *)
(***************************************************************************)
SocketGoals ==
    /\ \A t, u \in Workers :
           thread[t].goal \in Sockets /\ thread[t].goal = thread[u].goal => t = u
    /\ \A t \in Workers, s \in Sockets : sock[s] = "off" => thread[t].goal # s
    /\ \A s \in watch : sock[s] = "on"

StoresSession ==
    \A t \in Workers :
        /\ thread[t].at = "answered" => thread[t].got # 0
        /\ thread[t].at = "store" => Row(thread[t].mine) # NoSession

Announced == kick \/ \E t \in Workers : thread[t].at = "erase"

PopsAnnounced ==
    /\ out = "pop" /\ mem = NoSession => Announced
    /\ out = "erase" => popped \/ Announced

LeftBehind(s) ==
    /\ sock[s] = "on"
    /\ s \notin watch \/ \E t \in Workers : thread[t].goal = s /\ thread[t].at \in {"ask", "broken"}

SocketInv ==
    /\ SocketGoals /\ StoresSession /\ PopsAnnounced
    /\ SessionGone /\ ~kick /\ ~Removing => \A s \in Sockets : ~LeftBehind(s)

\* What a step of a thread does that matters to sockets.
Announces(t) ==
    /\ Announced => Announced'
    /\ mem' = NoSession => mem = NoSession \/ Announced'
    /\ SessionGone' => SessionGone \/ Announced'
    /\ thread'[t].at = "ask" => mem' # NoSession
    /\ thread'[t].at = "broken" => thread[t].at = "ask"
    /\ thread'[t].at = "answered" => thread'[t].got # 0
    /\ thread'[t].at = "store" => Row(thread'[t].mine) # NoSession

Steps(t) ==
    /\ UNCHANGED <<sock, watch, out, popped>>
    /\ \A u \in Workers \ {t} : thread'[u] = thread[u]
    /\ thread'[t].goal \in {thread[t].goal, "http"}

LEMMA MovesOn ==
    ASSUME Sessions, NEW t \in Workers, NEW c, Becomes(t, c)
    PROVE  thread'[t] = c /\ \A u \in Workers \ {t} : thread'[u] = thread[u]
BY DEF Becomes, Sessions

\* Calls that change neither the session nor its row.
LEMMA PlainAnnounces ==
    ASSUME Sessions, NEW t \in Workers, NEW c, Becomes(t, c),
           thread[t].at # "erase", UNCHANGED <<mem, db, kick>>,
           c.at \notin {"answered", "store"}, c.at = "ask" => mem # NoSession,
           c.at = "broken" => thread[t].at = "ask"
    PROVE  Announces(t)
<1>1. thread'[t] = c /\ \A u \in Workers \ {t} : thread'[u] = thread[u]
    BY MovesOn
<1> QED
    BY <1>1 DEF Announces, Announced, SessionGone

LEMMA ReturnSteps ==
    ASSUME Sessions, NEW t \in Workers, NEW result \in Results, Return(t, result)
    PROVE  \E c : /\ Becomes(t, c) /\ c.at \in {result, "idle"}
                  /\ c.goal \in {thread[t].goal, "http"}
<1>1. PICK c : c = IF thread[t].goal \in Sockets THEN Call(result, thread[t].goal)
                                                  ELSE Call("idle", "http")
    OBVIOUS
<1>2. c.at \in {result, "idle"} /\ c.goal \in {thread[t].goal, "http"}
    BY <1>1 DEF Call
<1> QED
    BY <1>1, <1>2 DEF Return

LEMMA ProceedSteps ==
    ASSUME Sessions, NEW t \in Workers, NEW lookup, NEW s, Proceed(t, lookup, s)
    PROVE  \E c : /\ Becomes(t, c) /\ c.goal \in {thread[t].goal, "http"}
                  /\ c.at \in {"find", "wait", "ask", "swap", "ok", "denied", "idle"}
<1>0. thread[t] \in AnyCall
    BY DEF Sessions
<1>1. CASE Return(t, "ok") \/ Return(t, "denied")
    <2>1. \A result \in {"ok", "denied"} :
             Return(t, result) => \E c : /\ Becomes(t, c) /\ c.at \in {result, "idle"}
                                         /\ c.goal \in {thread[t].goal, "http"}
        BY ReturnSteps DEF Results
    <2> QED
        BY <1>1, <2>1
<1>2. CASE Becomes(t, [thread[t] EXCEPT !.at = "wait", !.mine = s])
    <2> DEFINE c == [thread[t] EXCEPT !.at = "wait", !.mine = s]
    <2>1. c.at = "wait" /\ c.goal = thread[t].goal
        BY <1>0 DEF AnyCall
    <2> HIDE DEF c
    <2> QED
        BY <1>2, <2>1 DEF c
<1>3. CASE Becomes(t, [thread[t] EXCEPT !.at = "ask", !.mine = s, !.asked = s.token])
    <2> DEFINE c == [thread[t] EXCEPT !.at = "ask", !.mine = s, !.asked = s.token]
    <2>1. c.at = "ask" /\ c.goal = thread[t].goal
        BY <1>0 DEF AnyCall
    <2> HIDE DEF c
    <2> QED
        BY <1>3, <2>1 DEF c
<1>4. CASE Becomes(t, [thread[t] EXCEPT !.at = "swap", !.mine = s])
    <2> DEFINE c == [thread[t] EXCEPT !.at = "swap", !.mine = s]
    <2>1. c.at = "swap" /\ c.goal = thread[t].goal
        BY <1>0 DEF AnyCall
    <2> HIDE DEF c
    <2> QED
        BY <1>4, <2>1 DEF c
<1>5. CASE Becomes(t, Call("find", thread[t].goal))
    BY <1>5 DEF Call
<1> QED
    BY <1>1, <1>2, <1>3, <1>4, <1>5 DEF Proceed

LEMMA LookupSteps ==
    ASSUME Sessions, NEW t \in Workers,
           FoundInMemory(t) \/ ReadRow(t) \/ Restore(t) \/ NotFound(t) \/ TakeLock(t)
    PROVE  Steps(t) /\ Announces(t)
<1> USE DEF session, logout, sockets
<1>0. thread[t] \in AnyCall
    BY DEF Sessions
<1>1. CASE FoundInMemory(t)
    <2>1. PICK c : /\ Becomes(t, c) /\ c.goal \in {thread[t].goal, "http"}
                   /\ c.at \in {"find", "wait", "ask", "swap", "ok", "denied", "idle"}
        BY <1>1, ProceedSteps DEF FoundInMemory
    <2>2. thread[t].at # "erase" /\ mem # NoSession /\ UNCHANGED <<mem, db, kick>>
        BY <1>1 DEF FoundInMemory, Lookups
    <2>3. UNCHANGED <<sock, watch, out, popped>>
        BY <1>1 DEF FoundInMemory
    <2> QED
        BY <2>1, <2>2, <2>3, MovesOn, PlainAnnounces DEF Steps
<1>2. CASE ReadRow(t)
    <2>1. PICK c : c = [thread[t] EXCEPT !.at = "load", !.mine = db, !.back = thread[t].at]
        OBVIOUS
    <2>2. c.at = "load" /\ c.goal = thread[t].goal
        BY <1>0, <2>1 DEF AnyCall
    <2>3. Becomes(t, c) /\ thread[t].at # "erase" /\ UNCHANGED <<mem, db, kick>>
        BY <1>2, <2>1 DEF ReadRow, Lookups
    <2>4. UNCHANGED <<sock, watch, out, popped>>
        BY <1>2 DEF ReadRow
    <2> QED
        BY <2>2, <2>3, <2>4, MovesOn, PlainAnnounces DEF Steps
<1>3. CASE Restore(t)
    <2>1. PICK c : /\ Becomes(t, c) /\ c.goal \in {thread[t].goal, "http"}
                   /\ c.at \in {"find", "wait", "ask", "swap", "ok", "denied", "idle"}
        BY <1>3, ProceedSteps DEF Restore
    <2>2. thread[t].at = "load" /\ UNCHANGED <<db, kick, sock, watch, out, popped>>
        BY <1>3 DEF Restore
    <2>3. mem' # NoSession
        <3>1. [thread[t].mine EXCEPT !.lock = locks + 1].lock = locks + 1
            BY <1>0 DEF AnyCall, AnySession
        <3>2. locks + 1 # 0 /\ NoSession.lock = 0
            BY DEF Sessions, NoSession, Session
        <3> QED
            BY <1>3, <3>1, <3>2 DEF Restore, Restored
    <2>4. thread'[t] = c /\ \A u \in Workers \ {t} : thread'[u] = thread[u]
        BY <2>1, MovesOn
    <2>5. Announces(t)
        BY <2>1, <2>2, <2>3, <2>4 DEF Announces, Announced, SessionGone
    <2> QED
        BY <2>1, <2>2, <2>4, <2>5 DEF Steps
<1>4. CASE NotFound(t)
    <2>1. \E c : /\ Becomes(t, c) /\ c.goal \in {thread[t].goal, "http"}
                 /\ c.at \in {"drop", "denied", "idle"}
        <3>1. CASE Return(t, "denied")
            BY <3>1, ReturnSteps DEF Results
        <3>2. CASE Goto(t, "drop")
            <4>1. PICK c : c = [thread[t] EXCEPT !.at = "drop"]
                OBVIOUS
            <4>2. c.at = "drop" /\ c.goal = thread[t].goal
                BY <1>0, <4>1 DEF AnyCall
            <4> QED
                BY <3>2, <4>1, <4>2 DEF Goto
        <3> QED
            BY <1>4, <3>1, <3>2 DEF NotFound
    <2>2. PICK c : /\ Becomes(t, c) /\ c.goal \in {thread[t].goal, "http"}
                   /\ c.at \in {"drop", "denied", "idle"}
        BY <2>1
    <2>3. thread[t].at # "erase" /\ UNCHANGED <<mem, db, kick>>
        BY <1>4 DEF NotFound, Lookups
    <2>4. UNCHANGED <<sock, watch, out, popped>>
        BY <1>4 DEF NotFound
    <2> QED
        BY <2>2, <2>3, <2>4, MovesOn, PlainAnnounces DEF Steps
<1>5. CASE TakeLock(t)
    <2>1. PICK c : c = [thread[t] EXCEPT !.at = "locked", !.held = thread[t].mine.lock]
        OBVIOUS
    <2>2. c.at = "locked" /\ c.goal = thread[t].goal
        BY <1>0, <2>1 DEF AnyCall
    <2>3. Becomes(t, c) /\ thread[t].at # "erase" /\ UNCHANGED <<mem, db, kick>>
        BY <1>5, <2>1 DEF TakeLock
    <2>4. UNCHANGED <<sock, watch, out, popped>>
        BY <1>5 DEF TakeLock
    <2> QED
        BY <2>2, <2>3, <2>4, MovesOn, PlainAnnounces DEF Steps
<1> QED
    BY <1>1, <1>2, <1>3, <1>4, <1>5

LEMMA GotoSteps ==
    ASSUME Sessions, NEW t \in Workers, NEW at, Goto(t, at)
    PROVE  \E c : Becomes(t, c) /\ c.at = at /\ c.goal = thread[t].goal
<1>0. thread[t] \in AnyCall
    BY DEF Sessions
<1>1. PICK c : c = [thread[t] EXCEPT !.at = at]
    OBVIOUS
<1>2. c.at = at /\ c.goal = thread[t].goal
    BY <1>0, <1>1 DEF AnyCall
<1> QED
    BY <1>1, <1>2 DEF Goto

LEMMA AskSteps ==
    ASSUME Sessions, NEW t \in Workers, AskGranted(t) \/ AskRefused(t) \/ AskFails(t)
    PROVE  Steps(t) /\ Announces(t)
<1> USE DEF session, logout, sockets
<1>0. thread[t] \in AnyCall
    BY DEF Sessions
<1>1. /\ thread[t].at = "ask" /\ UNCHANGED <<mem, db, kick>>
      /\ UNCHANGED <<sock, watch, out, popped>>
    BY DEF AskGranted, AskRefused, AskFails
<1>2. CASE AskGranted(t)
    <2>1. PICK c : c = [thread[t] EXCEPT !.at = "answered", !.got = issued + 1]
        OBVIOUS
    <2>2. c.at = "answered" /\ c.goal = thread[t].goal /\ c.got # 0
        BY <1>0, <2>1 DEF AnyCall, Sessions
    <2>3. Becomes(t, c)
        BY <1>2, <2>1 DEF AskGranted
    <2>4. thread'[t] = c /\ \A u \in Workers \ {t} : thread'[u] = thread[u]
        BY <2>3, MovesOn
    <2>5. Announces(t)
        BY <1>1, <2>2, <2>4 DEF Announces, Announced, SessionGone
    <2> QED
        BY <1>1, <2>2, <2>4, <2>5 DEF Steps
<1>3. CASE AskRefused(t) \/ AskFails(t)
    <2>1. PICK c : /\ Becomes(t, c) /\ c.goal \in {thread[t].goal, "http"}
                   /\ c.at \in {"drop", "offline", "denied", "broken", "idle"}
        <3>1. CASE Goto(t, "drop") \/ Goto(t, "offline")
            BY <3>1, GotoSteps
        <3>2. CASE Return(t, "denied")
            BY <3>2, ReturnSteps DEF Results
        <3>3. CASE Return(t, "broken")
            BY <3>3, ReturnSteps DEF Results
        <3> QED
            BY <1>3, <3>1, <3>2, <3>3 DEF AskRefused, AskFails
    <2> QED
        BY <1>1, <2>1, MovesOn, PlainAnnounces DEF Steps
<1> QED
    BY <1>2, <1>3

LEMMA ReplaceSteps ==
    ASSUME Sessions, StoresSession, NEW t \in Workers, ReplaceSession(t) \/ SwapOffline(t)
    PROVE  Steps(t) /\ Announces(t)
<1> USE DEF session, logout, sockets
<1>0. thread[t] \in AnyCall
    BY DEF Sessions
<1>1. /\ thread[t].at \in {"answered", "swap"} /\ UNCHANGED <<db, kick>>
      /\ UNCHANGED <<sock, watch, out, popped>>
    BY DEF ReplaceSession, SwapOffline
<1>2. ASSUME NEW s, s.token # 0 \/ s.offline, s \in AnySession, mem' = s,
             Becomes(t, [thread[t] EXCEPT !.at = "store", !.mine = s])
      PROVE  Steps(t) /\ Announces(t)
    <2>1. PICK c : c = [thread[t] EXCEPT !.at = "store", !.mine = s]
        OBVIOUS
    <2>2. c.at = "store" /\ c.goal = thread[t].goal /\ c.mine = s
        BY <1>0, <2>1 DEF AnyCall
    <2>3. thread'[t] = c /\ \A u \in Workers \ {t} : thread'[u] = thread[u]
        BY <1>2, <2>1, MovesOn
    <2>4. s # NoSession /\ Row(s) # NoSession
        BY <1>2 DEF NoSession, Session, Row, AnySession
    <2>5. Announces(t)
        BY <1>1, <1>2, <2>2, <2>3, <2>4 DEF Announces, Announced, SessionGone
    <2> QED
        BY <1>1, <2>2, <2>3, <2>5 DEF Steps
<1>3. ASSUME NEW at \in {"giveback", "drop"}, Goto(t, at), UNCHANGED mem
      PROVE  Steps(t) /\ Announces(t)
    <2>1. PICK c : Becomes(t, c) /\ c.at = at /\ c.goal = thread[t].goal
        BY <1>3, GotoSteps
    <2> QED
        BY <1>1, <1>3, <2>1, MovesOn, PlainAnnounces DEF Steps
<1>4. CASE ReplaceSession(t)
    <2>1. thread[t].got # 0
        BY <1>4 DEF ReplaceSession, StoresSession
    <2>2. PICK s : s = Session(thread[t].got, thread[t].mine.lock, FALSE)
        OBVIOUS
    <2>3. s \in AnySession /\ s.token # 0
        BY <1>0, <2>1, <2>2 DEF Session, AnySession, AnyCall
    <2> QED
        BY <1>2, <1>3, <1>4, <2>2, <2>3 DEF ReplaceSession
<1>5. CASE SwapOffline(t)
    <2>1. PICK s : s = Session(0, thread[t].mine.lock, TRUE)
        OBVIOUS
    <2>2. s \in AnySession /\ s.offline
        BY <1>0, <2>1, SessionAssumption DEF Session, AnySession, AnyCall
    <2> QED
        BY <1>2, <1>3, <1>5, <2>1, <2>2 DEF SwapOffline
<1> QED
    BY <1>4, <1>5

LEMMA CloseSteps ==
    ASSUME Sessions, StoresSession, NEW t \in Workers,
           StoreRow(t) \/ GiveBack(t) \/ DropSession(t) \/ EraseRow(t)
    PROVE  Steps(t) /\ Announces(t)
<1> USE DEF session, logout, sockets
<1>0. UNCHANGED <<sock, watch, out, popped>>
    BY DEF StoreRow, GiveBack, DropSession, EraseRow
<1>1. ASSUME Return(t, "ok") \/ Return(t, "denied")
      PROVE  \E c : /\ Becomes(t, c) /\ c.goal \in {thread[t].goal, "http"}
                    /\ c.at \in {"ok", "denied", "idle"}
    <2>1. CASE Return(t, "ok")
        BY <2>1, ReturnSteps DEF Results
    <2>2. CASE Return(t, "denied")
        BY <2>2, ReturnSteps DEF Results
    <2> QED
        BY <1>1, <2>1, <2>2
<1>2. CASE StoreRow(t)
    <2>1. PICK c : /\ Becomes(t, c) /\ c.goal \in {thread[t].goal, "http"}
                   /\ c.at \in {"ok", "denied", "idle"}
        BY <1>1, <1>2 DEF StoreRow
    <2>2. thread'[t] = c /\ \A u \in Workers \ {t} : thread'[u] = thread[u]
        BY <2>1, MovesOn
    <2>3. Row(thread[t].mine) # NoSession /\ thread[t].at = "store" /\ UNCHANGED <<mem, kick>>
        BY <1>2 DEF StoreRow, StoresSession
    <2>4. db' \in {db, Row(thread[t].mine)}
        BY <1>2 DEF StoreRow, Persisted
    <2>5. Announces(t)
        BY <2>1, <2>2, <2>3, <2>4 DEF Announces, Announced, SessionGone
    <2> QED
        BY <1>0, <2>1, <2>2, <2>5 DEF Steps
<1>3. CASE GiveBack(t) \/ (DropSession(t) /\ mem.token # thread[t].asked)
    <2>1. PICK c : /\ Becomes(t, c) /\ c.goal \in {thread[t].goal, "http"}
                   /\ c.at \in {"ok", "denied", "idle"}
        BY <1>1, <1>3 DEF GiveBack, DropSession
    <2>2. thread[t].at # "erase" /\ UNCHANGED <<mem, db, kick>>
        BY <1>3 DEF GiveBack, DropSession
    <2> QED
        BY <1>0, <2>1, <2>2, MovesOn, PlainAnnounces DEF Steps
<1>4. CASE DropSession(t) /\ mem.token = thread[t].asked
    <2>1. Goto(t, "erase") /\ thread[t].at = "drop" /\ UNCHANGED <<db, kick>>
        BY <1>4 DEF DropSession
    <2>2. PICK c : Becomes(t, c) /\ c.at = "erase" /\ c.goal = thread[t].goal
        BY <2>1, GotoSteps
    <2>3. thread'[t] = c /\ \A u \in Workers \ {t} : thread'[u] = thread[u]
        BY <2>2, MovesOn
    <2>4. Announced'
        BY <2>2, <2>3 DEF Announced
    <2> QED
        BY <1>0, <2>2, <2>3, <2>4 DEF Steps, Announces
<1>5. CASE EraseRow(t)
    <2>1. PICK c : /\ Becomes(t, c) /\ c.goal \in {thread[t].goal, "http"}
                   /\ c.at \in {"ok", "denied", "idle"}
        BY <1>1, <1>5 DEF EraseRow
    <2>2. thread'[t] = c /\ \A u \in Workers \ {t} : thread'[u] = thread[u]
        BY <2>1, MovesOn
    <2>3. Announced'
        BY <1>5 DEF EraseRow, Announced
    <2> QED
        BY <1>0, <2>1, <2>2, <2>3 DEF Steps, Announces
<1> QED
    BY <1>2, <1>3, <1>4, <1>5

LEMMA WorkSockets ==
    ASSUME Sessions, SocketInv, NEW t \in Workers, Work(t)
    PROVE  SocketInv'
<1>1. Steps(t) /\ Announces(t)
    BY LookupSteps, AskSteps, ReplaceSteps, CloseSteps DEF Work, SocketInv
<1>2. SocketGoals'
    BY <1>1, SessionAssumption DEF SocketInv, SocketGoals, Steps
<1>3. StoresSession'
    <2> SUFFICES ASSUME NEW u \in Workers
                 PROVE  /\ thread'[u].at = "answered" => thread'[u].got # 0
                        /\ thread'[u].at = "store" => Row(thread'[u].mine) # NoSession
        BY DEF StoresSession, Row, NoSession, Session
    <2>1. CASE u = t
        BY <1>1, <2>1 DEF Announces
    <2>2. CASE u # t
        BY <1>1, <2>2 DEF Steps, SocketInv, StoresSession
    <2> QED
        BY <2>1, <2>2
<1>4. PopsAnnounced'
    BY <1>1 DEF SocketInv, PopsAnnounced, Steps, Announces
<1>5. ASSUME SessionGone', ~kick', ~Removing', NEW s \in Sockets PROVE ~LeftBehind(s)'
    <2>1. ~Announced' /\ out' # "erase"
        BY <1>5 DEF Announced, Removing
    <2>2. SessionGone /\ ~Announced /\ out # "erase" /\ mem' = NoSession
        BY <1>1, <1>5, <2>1 DEF Announces, Steps, SessionGone
    <2>3. ~LeftBehind(s)
        BY <2>2 DEF SocketInv, Announced, Removing
    <2>4. \A u \in Workers : thread'[u].goal = s /\ thread'[u].at \in {"ask", "broken"}
             => thread[u].goal = s /\ thread[u].at \in {"ask", "broken"}
        BY <1>1, <2>2, SessionAssumption DEF Announces, Steps
    <2> QED
        BY <1>1, <2>3, <2>4 DEF LeftBehind, Steps
<1> QED
    BY <1>2, <1>3, <1>4, <1>5 DEF SocketInv

LEMMA SubmitSockets ==
    ASSUME Sessions, Places, SocketInv, NEW t \in Workers, NEW goal, Submit(t, goal),
           goal \in Sockets => /\ \A u \in Workers : thread[u].goal # goal
                              /\ sock'[goal] # "off",
           \A s \in Sockets : sock'[s] # sock[s] => sock[s] = "off" /\ sock'[s] = "connecting"
    PROVE  SocketInv'
<1> USE DEF session, logout
<1>1. PICK c : Becomes(t, c) /\ c.at = "seek" /\ c.goal = goal /\ thread[t].at = "idle"
    BY DEF Submit, Call, Idle
<1>2. thread'[t] = c /\ \A u \in Workers \ {t} : thread'[u] = thread[u]
    BY <1>1, MovesOn
<1>3. UNCHANGED <<mem, db, out, popped, watch, kick>>
    BY DEF Submit
<1>4. SocketGoals'
    <2>1. \A s \in watch' : sock'[s] = "on"
        BY <1>3 DEF SocketInv, SocketGoals, Places
    <2> QED
        BY <1>1, <1>2, <2>1 DEF SocketInv, SocketGoals
<1>5. StoresSession'
    BY <1>1, <1>2 DEF SocketInv, StoresSession, Row, NoSession, Session
<1>6. PopsAnnounced'
    BY <1>1, <1>2, <1>3 DEF SocketInv, PopsAnnounced, Announced
<1>7. ASSUME SessionGone', ~kick', ~Removing', NEW s \in Sockets PROVE ~LeftBehind(s)'
    <2>1. SessionGone /\ ~kick /\ ~Removing
        BY <1>1, <1>2, <1>3, <1>7 DEF SessionGone, Removing
    <2>2. ~LeftBehind(s)
        BY <2>1 DEF SocketInv
    <2> QED
        BY <1>1, <1>2, <1>3, <2>2 DEF LeftBehind
<1> QED
    BY <1>4, <1>5, <1>6, <1>7 DEF SocketInv

LEMMA RespondSockets ==
    ASSUME Sessions, Places, SocketInv, NEW t \in Workers, NEW s \in Sockets, Respond(t, s)
    PROVE  SocketInv'
<1> USE DEF session, logout
<1>1. PICK c : Becomes(t, c) /\ c.at = "idle" /\ c.goal = "http"
    BY DEF Respond, Call
<1>2. thread'[t] = c /\ \A u \in Workers \ {t} : thread'[u] = thread[u]
    BY <1>1, MovesOn
<1>3. thread[t].goal = s /\ thread[t].at \in Results /\ UNCHANGED <<mem, db, out, popped, kick>>
    BY DEF Respond
<1>4. \A u \in Workers : thread'[u].goal # s
    BY <1>1, <1>2, <1>3, SessionAssumption DEF SocketInv, SocketGoals
<1>5. \A r \in Sockets \ {s} : sock'[r] = sock[r] /\ (r \in watch' <=> r \in watch)
    BY DEF Respond, Forget, Places
<1>6. SocketGoals'
    <2>1. /\ watch' \subseteq Sockets
          /\ s \in watch' => sock'[s] = "on"
        BY DEF Respond, Forget, Places, SocketInv, SocketGoals
    <2>2. \A r \in watch' : sock'[r] = "on"
        BY <1>5, <2>1 DEF SocketInv, SocketGoals
    <2>3. \A r \in Sockets : sock'[r] = "off" => r = s \/ sock[r] = "off"
        BY <1>5
    <2> QED
        BY <1>1, <1>2, <1>4, <2>2, <2>3, SessionAssumption DEF SocketInv, SocketGoals
<1>7. StoresSession'
    BY <1>1, <1>2 DEF SocketInv, StoresSession, Row, NoSession, Session
<1>8. PopsAnnounced'
    BY <1>1, <1>2, <1>3 DEF SocketInv, PopsAnnounced, Announced, Results
<1>9. ASSUME SessionGone', ~kick', ~Removing', NEW r \in Sockets PROVE ~LeftBehind(r)'
    <2>1. SessionGone /\ ~kick /\ ~Removing
        BY <1>1, <1>2, <1>3, <1>9 DEF SessionGone, Removing, Results
    <2>2. ~LeftBehind(r) /\ ~LeftBehind(s)
        BY <2>1 DEF SocketInv
    <2>3. CASE r # s
        BY <1>1, <1>2, <1>5, <2>2, <2>3 DEF LeftBehind
    <2>4. CASE r = s
        <3>1. sock'[s] = "on" => s \in watch'
            <4>1. CASE thread[t].at = "ok"
                BY <4>1 DEF Respond
            <4>2. CASE thread[t].at = "denied"
                BY <4>2 DEF Respond, Forget
            <4>3. CASE thread[t].at = "broken"
                <5>1. sock[s] # "on"
                    BY <1>3, <2>2, <4>3 DEF LeftBehind
                <5> QED
                    BY <4>3, <5>1 DEF Respond, Forget
            <4> QED
                BY <1>3, <4>1, <4>2, <4>3 DEF Results
        <3> QED
            BY <1>4, <2>4, <3>1 DEF LeftBehind
    <2> QED
        BY <2>3, <2>4
<1> QED
    BY <1>6, <1>7, <1>8, <1>9 DEF SocketInv

\* Sockets that are disconnected together, with the queued disconnection or not.
LEMMA DisconnectedSockets ==
    ASSUME Sessions, Places, SocketInv, NEW S, Disconnected(S),
           UNCHANGED kick \/ \A s \in Sockets : sock[s] = "on" => s \in S
    PROVE  SocketInv'
<1> USE DEF session, logout
<1>1. /\ UNCHANGED <<mem, db, out, popped>> /\ out \notin {"pop", "erase"}
      /\ \A s \in Sockets : sock'[s] = IF s \in S THEN "off" ELSE sock[s]
      /\ watch' = watch \ S
    BY DEF Disconnected, LoopFree, Forget
<1>2. ASSUME NEW u \in Workers
      PROVE  /\ thread'[u].goal \notin S \/ thread'[u].goal \in {"http", "dropped"}
             /\ thread'[u].goal \in {thread[u].goal, "http", "dropped"}
             /\ thread'[u].at \in {thread[u].at, "idle"}
             /\ thread[u].at = "erase" => thread'[u].at = "erase"
             /\ thread'[u].at = thread[u].at
                => \/ thread'[u].at = "idle"
                   \/ thread'[u].got = thread[u].got /\ thread'[u].mine = thread[u].mine
    <2>0. thread[u] \in AnyCall
        BY DEF Sessions
    <2>1. CASE thread[u].goal \notin S
        BY <2>1 DEF Disconnected, Uncalled
    <2>2. CASE thread[u].goal \in S /\ thread[u].at \in Results
        BY <2>2 DEF Disconnected, Uncalled, Call, Results
    <2>3. CASE thread[u].goal \in S /\ thread[u].at \notin Results
        <3>1. thread'[u] = [thread[u] EXCEPT !.goal = "dropped"]
            BY <2>3 DEF Disconnected, Uncalled
        <3> QED
            BY <2>0, <3>1 DEF AnyCall
    <2> QED
        BY <2>1, <2>2, <2>3
<1>3. SocketGoals'
    <2>1. \A s \in watch' : sock'[s] = "on"
        BY <1>1 DEF SocketInv, SocketGoals, Places
    <2> QED
        BY <1>1, <1>2, <2>1, SessionAssumption DEF SocketInv, SocketGoals
<1>4. StoresSession'
    <2> SUFFICES ASSUME NEW u \in Workers
                 PROVE  /\ thread'[u].at = "answered" => thread'[u].got # 0
                        /\ thread'[u].at = "store" => Row(thread'[u].mine) # NoSession
        BY DEF StoresSession, Row, NoSession, Session
    <2> QED
        BY <1>2 DEF SocketInv, StoresSession
<1>5. PopsAnnounced'
    BY <1>1 DEF PopsAnnounced
<1>6. ASSUME SessionGone', ~kick', ~Removing', NEW s \in Sockets PROVE ~LeftBehind(s)'
    <2>1. CASE UNCHANGED kick
        <3>1. SessionGone /\ ~kick /\ ~Removing
            BY <1>1, <1>2, <1>6, <2>1 DEF SessionGone, Removing
        <3>2. ~LeftBehind(s)
            BY <3>1 DEF SocketInv
        <3> QED
            BY <1>1, <1>2, <3>2, SessionAssumption DEF LeftBehind
    <2>2. CASE \A r \in Sockets : sock[r] = "on" => r \in S
        BY <1>1, <2>2 DEF LeftBehind
    <2> QED
        BY <2>1, <2>2
<1> QED
    BY <1>3, <1>4, <1>5, <1>6 DEF SocketInv

LEMMA LogoutSockets ==
    ASSUME Sessions, Places, SocketInv, Logout
    PROVE  SocketInv'
<1> USE DEF session, logout, sockets
<1>1. UNCHANGED <<thread, sock, watch>>
    BY DEF Logout, LogoutFinds, LogoutRestores, LogoutPops, LogoutErases, LogoutRevokes
<1>2. SocketGoals' /\ StoresSession'
    BY <1>1 DEF SocketInv, SocketGoals, StoresSession, Row, NoSession, Session
<1>3. \A s \in Sockets : LeftBehind(s)' <=> LeftBehind(s)
    BY <1>1 DEF LeftBehind
<1>4. CASE LogoutFinds
    <2>1. /\ out = "none" /\ UNCHANGED <<mem, db, popped, kick>>
          /\ out' \in {"load", "done"} \/ (out' = "pop" /\ mem # NoSession)
        BY <1>4 DEF LogoutFinds
    <2>2. PopsAnnounced'
        BY <2>1 DEF PopsAnnounced
    <2> QED
        BY <1>1, <1>2, <1>3, <2>1, <2>2 DEF SocketInv, SessionGone, Removing
<1>5. CASE LogoutRestores
    <2>1. /\ out = "load" /\ out' = "pop" /\ mem' = Restored(seen)
        BY <1>5 DEF LogoutRestores
    <2>2. mem' # NoSession
        <3>1. [seen EXCEPT !.lock = locks + 1].lock = locks + 1
            BY DEF Sessions, AnySession
        <3>2. locks + 1 # 0 /\ NoSession.lock = 0
            BY DEF Sessions, NoSession, Session
        <3> QED
            BY <2>1, <3>1, <3>2 DEF Restored
    <2>3. PopsAnnounced' /\ ~SessionGone'
        BY <2>1, <2>2 DEF PopsAnnounced, SessionGone
    <2> QED
        BY <1>2, <2>3 DEF SocketInv
<1>6. CASE LogoutPops
    <2>1. /\ out = "pop" /\ out' = "erase" /\ popped' = (mem # NoSession) /\ UNCHANGED kick
        BY <1>6 DEF LogoutPops
    <2>2. PopsAnnounced' /\ Removing'
        BY <1>1, <2>1 DEF SocketInv, PopsAnnounced, Announced, Removing
    <2> QED
        BY <1>2, <2>2 DEF SocketInv
<1>7. CASE LogoutErases
    <2>1. /\ out = "erase" /\ out' \in {"revoke", "done"} /\ kick' = (kick \/ popped)
        BY <1>7 DEF LogoutErases
    <2>2. Announced'
        BY <1>1, <2>1 DEF SocketInv, PopsAnnounced, Announced
    <2>3. PopsAnnounced' /\ (kick' \/ Removing')
        BY <2>1, <2>2 DEF PopsAnnounced, Announced, Removing
    <2> QED
        BY <1>2, <2>3 DEF SocketInv
<1>8. CASE LogoutRevokes
    <2>1. out = "revoke" /\ out' = "done" /\ UNCHANGED <<mem, db, kick>>
        BY <1>8 DEF LogoutRevokes
    <2>2. PopsAnnounced'
        BY <2>1 DEF PopsAnnounced
    <2> QED
        BY <1>1, <1>2, <1>3, <2>1, <2>2 DEF SocketInv, SessionGone, Removing
<1> QED
    BY <1>4, <1>5, <1>6, <1>7, <1>8 DEF Logout

LEMMA OthersSockets ==
    ASSUME Sessions, Places, SocketInv,
           \/ HandleOidcCallback \/ StartLocalSession
           \/ AccessTokenExpires \/ Restart \/ UNCHANGED vars
    PROVE  SocketInv'
<1>1. CASE HandleOidcCallback \/ StartLocalSession
    <2>1. /\ out' = "none" /\ mem'.lock = locks + 1
          /\ UNCHANGED <<thread, sock, watch, kick>>
        BY <1>1 DEF HandleOidcCallback, StartLocalSession, SignIn, Session, sockets
    <2>2. mem' # NoSession
        BY <2>1 DEF Sessions, NoSession, Session
    <2>3. SocketGoals' /\ StoresSession'
        BY <2>1 DEF SocketInv, SocketGoals, StoresSession, Row, NoSession, Session
    <2> QED
        BY <2>1, <2>2, <2>3 DEF SocketInv, PopsAnnounced, SessionGone
<1>2. CASE AccessTokenExpires \/ UNCHANGED vars
    <2>1. UNCHANGED <<mem, db, out, popped, thread, sock, watch, kick>>
        BY <1>2 DEF AccessTokenExpires, vars, session, logout, sockets
    <2> QED
        BY <2>1
        DEF SocketInv, SocketGoals, StoresSession, Row, NoSession, Session, PopsAnnounced,
            Announced, SessionGone, Removing, LeftBehind
<1>3. CASE Restart
    <2>1. /\ \A u \in Workers : thread'[u].at = "idle" /\ thread'[u].goal = "http"
          /\ \A s \in Sockets : sock'[s] = "off"
          /\ out' \in {"done", "none"} /\ watch' = {}
        BY <1>3 DEF Restart, Call
    <2> QED
        BY <2>1, SessionAssumption
        DEF SocketInv, SocketGoals, StoresSession, PopsAnnounced, LeftBehind, Row, NoSession, Session
<1> QED
    BY <1>1, <1>2, <1>3

LEMMA LoopSockets ==
    ASSUME Sessions, Places, SocketInv,
           \/ \E t \in Workers : RequireValidSession(t)
           \/ \E t \in Workers, s \in Sockets : Connect(t, s) \/ Revalidate(t, s) \/ Respond(t, s)
           \/ DisconnectSessionSockets
           \/ \E s \in Sockets : Disconnect(s)
    PROVE  SocketInv'
<1>1. ASSUME NEW t \in Workers, RequireValidSession(t) PROVE SocketInv'
    BY <1>1, SubmitSockets, SessionAssumption DEF RequireValidSession
<1>2. ASSUME NEW t \in Workers, NEW s \in Sockets, Connect(t, s) PROVE SocketInv'
    <2>1. /\ sock[s] = "off" /\ sock' = [sock EXCEPT ![s] = "connecting"]
          /\ \A u \in Workers : thread[u].goal # s
        BY <1>2 DEF Connect, SocketInv, SocketGoals
    <2>2. /\ sock'[s] # "off"
          /\ \A r \in Sockets : sock'[r] # sock[r] => sock[r] = "off" /\ sock'[r] = "connecting"
        BY <2>1 DEF Places
    <2> QED
        BY <1>2, <2>1, <2>2, SubmitSockets DEF Connect
<1>3. ASSUME NEW t \in Workers, NEW s \in Sockets, Revalidate(t, s) PROVE SocketInv'
    <2>1. UNCHANGED sock /\ sock[s] = "on" /\ \A u \in Workers : thread[u].goal # s
        BY <1>3 DEF Revalidate, SocketInv, SocketGoals
    <2> QED
        BY <1>3, <2>1, SubmitSockets DEF Revalidate
<1>4. CASE DisconnectSessionSockets
    <2>1. \A s \in Sockets : sock[s] = "on" => s \in {r \in Sockets : sock[r] = "on"}
        OBVIOUS
    <2> QED
        BY <1>4, <2>1, DisconnectedSockets DEF DisconnectSessionSockets
<1>5. CASE \E s \in Sockets : Disconnect(s)
    BY <1>5, DisconnectedSockets DEF Disconnect
<1> QED
    BY <1>1, <1>2, <1>3, <1>4, <1>5, RespondSockets

(***************************************************************************)
(* Whatever the number of threads and sockets, no socket stays connected   *)
(* and unwatched once its session is gone and nobody announces it.         *)
(***************************************************************************)
THEOREM NoSocketForgotten == Spec => []SocketsWatched
<1>1. Init => Sessions /\ Places
    BY CallTyped, NoSessionTyped, SessionAssumption DEF Init, Sessions, Places
<1>2. Init => SocketInv
    BY SessionAssumption
    DEF Init, Call, SocketInv, SocketGoals, StoresSession, PopsAnnounced, LeftBehind
<1>3. (Sessions /\ Places /\ SocketInv) /\ [Next]_vars => (Sessions /\ Places /\ SocketInv)'
    <2> SUFFICES ASSUME Sessions, Places, SocketInv, [Next]_vars
                 PROVE  Sessions' /\ Places' /\ SocketInv'
        OBVIOUS
    <2>1. Sessions' /\ Places'
        BY StepSessions, StepPlaces
    <2>2. SocketInv'
        BY WorkSockets, LoopSockets, LogoutSockets, OthersSockets DEF Next
    <2> QED
        BY <2>1, <2>2
<1>4. SocketInv => SocketsWatched
    BY DEF SocketInv, LeftBehind, SocketsWatched
<1> QED
    BY <1>1, <1>2, <1>3, <1>4, PTL DEF Spec
================================================================================
