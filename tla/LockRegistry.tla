----------------------------- MODULE LockRegistry -----------------------------
(***************************************************************************)
(* The memo edit locks of one node in the server role: the TTL leases of    *)
(* LockRegistry with their expiry timers, the browser sockets that claim    *)
(* them (MemoRealtimeServer) and the laptop's sockets that hold them over    *)
(* HTTP.  The event loop runs one handler at a time and yields at the        *)
(* database check of a lock request; timers run in threads of their own.     *)
(* Listeners are called after the registry's mutex is released, and what     *)
(* they tell the sockets is queued on the loop.                              *)
(*                                                                         *)
(* A lease token is fresh per generation, so a token is the generation.      *)
(***************************************************************************)
EXTENDS Integers, FiniteSets, Sequences

CONSTANTS
    Memo,       \* memos that can be locked
    Socket,     \* browser sockets of this node
    Remote,     \* owners "peer:..." of delegated locks
    NoOwner,    \* no owner
    TTL,        \* SYNC_LOCK_TTL_SECONDS, in ticks
    Validity,   \* how long a socket trusts its token: 3/4 of TTL
    Early,      \* how many ticks too early a timer may wake
    MaxTime,    \* bound: clock; leases end within it
    MaxGrants   \* bound: generations of each memo

ASSUME LockAssumption ==
    /\ Socket \cap Remote = {} /\ NoOwner \notin Socket \cup Remote
    /\ TTL \in Nat /\ Validity \in Nat /\ Validity <= TTL
    /\ Early \in Nat /\ MaxTime \in Nat /\ MaxGrants \in Nat
    /\ IsFiniteSet(Memo)

VARIABLES
    now,         \* monotonic()
    lease,       \* _locks: the holder of each memo; it may have expired
    generation,  \* _generations
    timer,       \* _expiry_timers that have not woken yet
    woken,       \* timer threads about to take the mutex in _expire
    announcing,  \* timer threads that removed a lease and have yet to say so
    callbacks,   \* _broadcast_lock_change calls queued on the event loop
    connected,   \* sockets with a user
    joined,      \* socket_memos
    asking,      \* lock requests waiting for their database check
    claims,      \* socket_locks with socket_lease_tokens
    written      \* history: generation under which each memo was last saved

registry == <<lease, generation, timer>>
vars == <<now, registry, woken, announcing, callbacks, connected, joined,
          asking, claims, written>>

Owner   == Socket \cup Remote
Lease   == [owner: Owner, gen: Nat \ {0}, expires: Nat]
NoLease == [owner |-> NoOwner, gen |-> 0, expires |-> 0]
Alarm   == [owner: Owner, expires: Nat]
NoAlarm == [owner |-> NoOwner, expires |-> 0]
Claim   == [gen: Nat \ {0}, until: Nat]
NoClaim == [gen |-> 0, until |-> 0]
Notice  == [memo: Memo, owner: Owner \cup {NoOwner}, gen: Nat]

Init ==
    /\ now = 0
    /\ lease = [m \in Memo |-> NoLease] /\ generation = [m \in Memo |-> 0]
    /\ timer = [m \in Memo |-> NoAlarm] /\ woken = {}
    /\ announcing = {} /\ callbacks = << >>
    /\ connected = Socket /\ joined = [s \in Socket |-> {}] /\ asking = {}
    /\ claims = [s \in Socket |-> [m \in Memo |-> NoClaim]]
    /\ written = [m \in Memo |-> 0]

-----------------------------------------------------------------------------
(* Operations of the registry.                                               *)

\* _live_holder
Live(m) == lease[m] # NoLease /\ lease[m].expires > now

HeldBy(m, o) == Live(m) /\ lease[m].owner = o

Freed(m)       == [memo |-> m, owner |-> NoOwner, gen |-> 0]
Taken(m, o, g) == [memo |-> m, owner |-> o, gen |-> g]

\* _notify from the loop's own thread
Notify(notice) == callbacks' = Append(callbacks, notice)

\* The lease of m runs for TTL from now on; its old timer is cancelled.
Extend(m, o, g) ==
    /\ lease' = [lease EXCEPT ![m] = [owner |-> o, gen |-> g, expires |-> now + TTL]]
    /\ timer' = [timer EXCEPT ![m] = [owner |-> o, expires |-> now + TTL]]
    /\ generation' = [generation EXCEPT ![m] = g]

\* The bound on the clock leaves room for every lease to expire.
InTime == now + TTL <= MaxTime

\* Mutant: a renewal is a lease of its own.
RenewAnew(m, o) ==
    /\ HeldBy(m, o)
    /\ Extend(m, o, generation[m] + 1)
    /\ UNCHANGED callbacks

\* acquire by the holder itself: same generation, nobody is told.
Renew(m, o) ==
    /\ HeldBy(m, o)
    /\ Extend(m, o, lease[m].gen)
    /\ UNCHANGED callbacks

\* Mutant: the lease gets the generation before it is counted up.
GrantUncounted(m, o) ==
    /\ ~Live(m) /\ generation[m] < MaxGrants
    /\ Extend(m, o, generation[m])
    /\ Notify(Taken(m, o, generation'[m]))

\* Mutant: a lease taken over from an expired one is not announced.
GrantQuietly(m, o) ==
    /\ ~Live(m) /\ generation[m] < MaxGrants
    /\ Extend(m, o, generation[m] + 1)
    /\ IF lease[m] = NoLease THEN Notify(Taken(m, o, generation'[m])) ELSE UNCHANGED callbacks

\* acquire of a free memo, or of one whose lease has expired
Grant(m, o) ==
    /\ ~Live(m) /\ generation[m] < MaxGrants
    /\ Extend(m, o, generation[m] + 1)
    /\ Notify(Taken(m, o, generation'[m]))

\* Mutant: whoever asks, the live lease goes.
ReleaseAny(m, o) ==
    /\ Live(m)
    /\ lease' = [lease EXCEPT ![m] = NoLease]
    /\ timer' = [timer EXCEPT ![m] = NoAlarm]
    /\ Notify(Freed(m))
    /\ UNCHANGED generation

\* Mutant: the generation goes with the lease.
ReleaseForgets(m, o) ==
    /\ HeldBy(m, o)
    /\ lease' = [lease EXCEPT ![m] = NoLease]
    /\ timer' = [timer EXCEPT ![m] = NoAlarm]
    /\ generation' = [generation EXCEPT ![m] = 0]
    /\ Notify(Freed(m))

\* release by the holder of a live lease
Release(m, o) ==
    /\ HeldBy(m, o)
    /\ lease' = [lease EXCEPT ![m] = NoLease]
    /\ timer' = [timer EXCEPT ![m] = NoAlarm]
    /\ Notify(Freed(m))
    /\ UNCHANGED generation

\* release that finds no live lease of this owner
ReleaseNothing(m, o) == ~HeldBy(m, o) /\ UNCHANGED <<registry, callbacks>>

-----------------------------------------------------------------------------
(* Browser sockets.                                                          *)

JoinMemo(s, m) ==
    /\ s \in connected
    /\ joined' = [joined EXCEPT ![s] = @ \cup {m}]
    /\ UNCHANGED <<now, registry, woken, announcing, callbacks, connected, asking,
                   claims, written>>

\* lockMemo or renewMemoLock, up to the database check of _acquire_lock
AskLock(s, m) ==
    /\ s \in connected /\ m \in joined[s]
    /\ asking' = asking \cup {<<s, m>>}
    /\ UNCHANGED <<now, registry, woken, announcing, callbacks, connected, joined,
                   claims, written>>

\* The database says no: lockDenied, reason access_denied.
DenyAccess(s, m) ==
    /\ <<s, m>> \in asking
    /\ asking' = asking \ {<<s, m>>}
    /\ UNCHANGED <<now, registry, woken, announcing, callbacks, connected, joined,
                   claims, written>>

\* The rest of _acquire_lock; the socket may have left since it asked.
FinishLock(s, m) ==
    /\ <<s, m>> \in asking
    /\ InTime
    /\ asking' = asking \ {<<s, m>>}
    /\ \/ /\ Renew(m, s) \/ Grant(m, s)
          /\ claims' = [claims EXCEPT ![s][m] =
                           [gen |-> lease'[m].gen, until |-> now + Validity]]
       \/ /\ Live(m) /\ ~HeldBy(m, s)              \* lockDenied
          /\ claims' = [claims EXCEPT ![s][m] = NoClaim]
          /\ UNCHANGED <<registry, callbacks>>
    /\ UNCHANGED <<now, woken, announcing, connected, joined, written>>

\* _release_lock: nothing happens unless the socket claims the memo.
DropLock(s, m) ==
    IF claims[s][m] = NoClaim
    THEN UNCHANGED <<registry, callbacks, claims>>
    ELSE /\ Release(m, s) \/ ReleaseNothing(m, s)
         /\ claims' = [claims EXCEPT ![s][m] = NoClaim]

UnlockMemo(s, m) ==
    /\ s \in connected
    /\ DropLock(s, m)
    /\ UNCHANGED <<now, woken, announcing, connected, joined, asking, written>>

LeaveMemo(s, m) ==
    /\ s \in connected /\ m \in joined[s]
    /\ joined' = [joined EXCEPT ![s] = @ \ {m}]
    /\ DropLock(s, m)
    /\ UNCHANGED <<now, woken, announcing, connected, asking, written>>

\* disconnect: what the socket holds is released, memo by memo, and its user and
\* claims are forgotten.  Nothing in it waits, except for messages to others.
Disconnect(s) ==
    LET held == {m \in Memo : claims[s][m] # NoClaim /\ HeldBy(m, s)}
    IN  /\ s \in connected /\ connected' = connected \ {s}
        /\ joined' = [joined EXCEPT ![s] = {}]
        /\ claims' = [claims EXCEPT ![s] = [m \in Memo |-> NoClaim]]
        /\ lease' = [m \in Memo |-> IF m \in held THEN NoLease ELSE lease[m]]
        /\ timer' = [m \in Memo |-> IF m \in held THEN NoAlarm ELSE timer[m]]
        /\ \E order \in [1 .. Cardinality(held) -> held] :
             /\ \A m \in held : \E i \in DOMAIN order : order[i] = m
             /\ callbacks' = callbacks \o [i \in DOMAIN order |-> Freed(order[i])]
        /\ UNCHANGED <<now, generation, woken, announcing, asking, written>>

\* socket_owns_valid_lease
OwnsValidLease(s, m) ==
    /\ s \in connected /\ m \in joined[s]
    /\ claims[s][m] # NoClaim /\ claims[s][m].until > now
    /\ HeldBy(m, s) /\ lease[m].gen = claims[s][m].gen

\* PUT /memos/{id} with the token of the claim: accepted if the lease is valid.
Save(s, m) ==
    /\ OwnsValidLease(s, m)
    /\ written' = [written EXCEPT ![m] = claims[s][m].gen]
    /\ UNCHANGED <<now, registry, woken, announcing, callbacks, connected, joined,
                   asking, claims>>

\* One queued _broadcast_lock_change: a freed memo clears every claim, a taken
\* one clears the claims its new holder and token do not confirm.
Broadcast ==
    /\ callbacks # << >>
    /\ LET n == Head(callbacks)
       IN  claims' = [s \in Socket |->
              IF n.owner = s /\ n.gen = claims[s][n.memo].gen
              THEN claims[s] ELSE [claims[s] EXCEPT ![n.memo] = NoClaim]]
    /\ callbacks' = Tail(callbacks)
    /\ UNCHANGED <<now, registry, woken, announcing, connected, joined, asking, written>>

-----------------------------------------------------------------------------
(* Owners on the laptop: POST /api/sync/locks/{memo}/acquire and /release.   *)

RemoteAcquire(r, m) ==
    /\ InTime
    /\ \/ Renew(m, r) \/ Grant(m, r)
       \/ Live(m) /\ ~HeldBy(m, r) /\ UNCHANGED <<registry, callbacks>>
    /\ UNCHANGED <<now, woken, announcing, connected, joined, asking, claims, written>>

RemoteRelease(r, m) ==
    /\ Release(m, r) \/ ReleaseNothing(m, r)
    /\ UNCHANGED <<now, woken, announcing, connected, joined, asking, claims, written>>

-----------------------------------------------------------------------------
(* Time and the expiry timers.                                               *)

Tick ==
    /\ now < MaxTime /\ now' = now + 1
    /\ UNCHANGED <<registry, woken, announcing, callbacks, connected, joined, asking,
                   claims, written>>

\* The timer's thread starts; cancelling it comes too late from here on.
Wake(m) ==
    /\ timer[m] # NoAlarm /\ now + Early >= timer[m].expires
    /\ woken' = woken \cup {[memo |-> m, alarm |-> timer[m]]}
    /\ timer' = [timer EXCEPT ![m] = NoAlarm]
    /\ UNCHANGED <<now, lease, generation, announcing, callbacks, connected, joined,
                   asking, claims, written>>

\* The lease the timer was started for.
IsAlarmOf(w) ==
    LET l == lease[w.memo]
    IN  l # NoLease /\ l.owner = w.alarm.owner /\ l.expires = w.alarm.expires

\* Mutant: a timer that woke early is not started again.
ExpireOnce(w) ==
    /\ w \in woken /\ woken' = woken \ {w}
    /\ \/ /\ IsAlarmOf(w) /\ ~Live(w.memo)
          /\ lease' = [lease EXCEPT ![w.memo] = NoLease]
          /\ timer' = [timer EXCEPT ![w.memo] = NoAlarm]
          /\ announcing' = announcing \cup {w.memo}
       \/ ~(IsAlarmOf(w) /\ ~Live(w.memo)) /\ UNCHANGED <<lease, timer, announcing>>
    /\ UNCHANGED <<now, generation, callbacks, connected, joined, asking, claims, written>>

\* _expire, under the mutex.  A timer dropped without being cancelled by the
\* first case finds its lease gone when it wakes.
Expire(w) ==
    /\ w \in woken /\ woken' = woken \ {w}
    /\ \/ /\ IsAlarmOf(w) /\ ~Live(w.memo)
          /\ lease' = [lease EXCEPT ![w.memo] = NoLease]
          /\ timer' = [timer EXCEPT ![w.memo] = NoAlarm]
          /\ announcing' = announcing \cup {w.memo}
       \/ /\ IsAlarmOf(w) /\ Live(w.memo)          \* woke too early
          /\ timer' = [timer EXCEPT ![w.memo] = w.alarm]
          /\ UNCHANGED <<lease, announcing>>
       \/ ~IsAlarmOf(w) /\ UNCHANGED <<lease, timer, announcing>>
    /\ UNCHANGED <<now, generation, callbacks, connected, joined, asking, claims, written>>

\* _notify from the timer's thread, after the mutex was released
Announce(m) ==
    /\ m \in announcing /\ announcing' = announcing \ {m}
    /\ Notify(Freed(m))
    /\ UNCHANGED <<now, registry, woken, connected, joined, asking, claims, written>>

-----------------------------------------------------------------------------

SocketStep(s) ==
    \/ \E m \in Memo :
         \/ JoinMemo(s, m) \/ AskLock(s, m) \/ DenyAccess(s, m) \/ FinishLock(s, m)
         \/ UnlockMemo(s, m) \/ LeaveMemo(s, m) \/ Save(s, m)
    \/ Disconnect(s)

RemoteStep(r) == \E m \in Memo : RemoteAcquire(r, m) \/ RemoteRelease(r, m)

Expiry ==
    \/ \E m \in Memo : Wake(m) \/ Announce(m)
    \/ \E w \in woken : Expire(w)

Next ==
    \/ \E s \in Socket : SocketStep(s)
    \/ \E r \in Remote : RemoteStep(r)
    \/ Broadcast
    \/ Tick
    \/ Expiry

Spec == Init /\ [][Next]_vars

\* Time passes, timers run and the loop gets to its callbacks; nobody has to
\* answer, leave or unlock.
FairSpec == Spec /\ WF_vars(Tick) /\ WF_vars(Expiry) /\ WF_vars(Broadcast)

-----------------------------------------------------------------------------
(* Properties.                                                               *)

\* The registry, its timers and the sockets' claims keep their shape.
TypeOK ==
    /\ now \in Nat
    /\ lease \in [Memo -> Lease \cup {NoLease}]
    /\ generation \in [Memo -> Nat]
    /\ timer \in [Memo -> Alarm \cup {NoAlarm}]
    /\ woken \subseteq [memo: Memo, alarm: Alarm]
    /\ announcing \subseteq Memo
    /\ callbacks \in Seq(Notice)
    /\ connected \subseteq Socket
    /\ joined \in [Socket -> SUBSET Memo]
    /\ asking \subseteq Socket \X Memo
    /\ claims \in [Socket -> [Memo -> Claim \cup {NoClaim}]]
    /\ written \in [Memo -> Nat]

Ends(o, m) ==
    \/ o \in Socket /\ (UnlockMemo(o, m) \/ LeaveMemo(o, m) \/ Disconnect(o))
    \/ o \in Remote /\ RemoteRelease(o, m)

\* A live lease is ended by its own holder only: no timer, early, late or
\* cancelled too late, and no other owner's release takes it away
\* (LockRegistry._expire, release).
LiveLeaseKept ==
    [][\A m \in Memo :
         lease[m] # NoLease /\ lease[m].expires > now' /\ lease'[m].gen # lease[m].gen
            => Ends(lease[m].owner, m)]_vars

\* Saves of a memo never go back to an older lease: once the holder of a later
\* lease has saved, the token of an earlier one is refused, whatever its socket
\* still believes (validate_rest_lease, LockRegistry.validate).
NoOldWriter == [][\A m \in Memo : written'[m] >= written[m]]_vars

\* Why: a lease carries the memo's last generation, and saves were made under
\* generations given out before.
GenerationInv ==
    \A m \in Memo :
        /\ lease[m] # NoLease => lease[m].gen = generation[m]
        /\ written[m] <= generation[m]

\* The leases that run; _locks may hold others, not yet removed.
Holder == [m \in Memo |-> IF Live(m) THEN lease[m].owner ELSE NoOwner]
Until  == [m \in Memo |-> IF Live(m) THEN lease[m].expires ELSE 0]

Promise == INSTANCE FencedLease WITH Nobody <- NoOwner, holder <- Holder,
                                     until <- Until, fence <- generation

\* To whoever saves a memo the registry, its timers and the sockets are a lock with
\* fenced leases: one holder at a time until the lease is given up or its time is over,
\* a number that only a new lease changes, and saves under the number of the lease that
\* runs, however late timers, notices and tabs are (LockRegistry.acquire, validate).
Fenced == Promise!Spec

\* When every notice has been delivered, a socket claims nothing but the lease
\* the registry has for it (_clear_, _reconcile_socket_lease_state).
ClaimsSettle ==
    announcing = {} /\ callbacks = << >> =>
        \A s \in Socket : \A m \in Memo :
            claims[s][m] # NoClaim => lease[m].owner = s /\ lease[m].gen = claims[s][m].gen

\* Why: a claim that is not of the current lease is about to be cleared, by a
\* timer's announcement or a queued notice of another lease.
ClaimInv ==
    \A s \in Socket : \A m \in Memo :
        claims[s][m] # NoClaim =>
            \/ lease[m].owner = s /\ lease[m].gen = claims[s][m].gen
            \/ m \in announcing
            \/ \E i \in DOMAIN callbacks :
                 /\ callbacks[i].memo = m
                 /\ ~(callbacks[i].owner = s /\ callbacks[i].gen = claims[s][m].gen)

\* Whoever vanishes without releasing, every lease expires and every claim with
\* it (lock_registry.py: leases free themselves when a process or node dies).
EventuallyFree ==
    <>[](\A m \in Memo : lease[m] = NoLease /\ \A s \in Socket : claims[s][m] = NoClaim)

\* A socket that holds a live lease and is still there has its claim, and so can
\* save and renew (_expire: clients are told of exactly the lease that expired).  No run
\* checks it: an older notice may wipe the claim of a newer lease (see README).
HolderKnows ==
    \A s \in connected : \A m \in joined[s] : HeldBy(m, s) => claims[s][m] # NoClaim

=============================================================================
