---------------------------- MODULE LockDelegation ----------------------------
(***************************************************************************)
(* The edit lock of one memo across two nodes.  The server role keeps the   *)
(* lock for its own tabs; the laptop delegates its tabs' requests to it     *)
(* over HTTP while SyncRuntime says online, and uses a registry of its own  *)
(* while it says offline.  HTTP calls run in threads and several may be     *)
(* under way; each ends, on the laptop, within the HTTP timeout, but the    *)
(* server may get a call whose caller has given up.                         *)
(*                                                                         *)
(* LockRegistry is the detailed model of one registry; here a registry is   *)
(* its lease, and the server's tabs are owners whose claims follow it.      *)
(***************************************************************************)
EXTENDS Integers, FiniteSets, Sequences

CONSTANTS
    Tab,        \* browser sockets of the laptop
    Seat,       \* browser sockets of the server
    NoOwner,
    TTL,        \* SYNC_LOCK_TTL_SECONDS
    Validity,   \* how long the laptop trusts a token: 3/4 of TTL
    Timeout,    \* SYNC_HTTP_TIMEOUT_SECONDS
    MaxTime,    \* bound: clock
    MaxGrants,  \* bound: leases granted by both registries
    MaxCalls,   \* bound: calls under way, abandoned ones included
    MaxOutages  \* bound: times the laptop goes offline

\* The deployed times: 15 s for a call, 30 s between trust and lease.
ASSUME DelegationAssumption ==
    /\ Tab \cap Seat = {} /\ NoOwner \notin Tab \cup Seat
    /\ TTL \in Nat /\ Validity \in Nat \ {0} /\ Timeout \in Nat
    /\ Timeout + Validity <= TTL
    /\ MaxTime \in Nat /\ MaxGrants \in Nat /\ MaxCalls \in Nat /\ MaxOutages \in Nat

VARIABLES
    now,         \* monotonic()
    lease,       \* lease[n]: the holder in node n's LockRegistry
    grants,      \* _generations of both registries
    notices,     \* notices[n]: lock changes of n's registry on their way to the laptop's tabs
    claims,      \* socket_locks with socket_lease_tokens, of the laptop's tabs
    status,      \* SyncRuntime: "starting" (never connected), "online" or "offline"
    quarantine,  \* _lock_delegation_quarantine_until
    calls,       \* delegated calls the laptop waits for
    late,        \* calls it gave up on that the server may still get
    outages

registries == <<lease, grants, notices>>
vars == <<now, registries, claims, status, quarantine, calls, late, outages>>

Node  == {"laptop", "server"}
Owner == Tab \cup Seat
Token == [node: Node, gen: Nat \ {0}]

Lease   == [owner: Owner, gen: Nat \ {0}, expires: Nat]
NoLease == [owner |-> NoOwner, gen |-> 0, expires |-> 0]

\* `sure`: no unlock of the tab was under way or came after it was granted.
Claim   == [node: Node, gen: Nat \ {0}, until: Nat, sure: BOOLEAN]
NoClaim == [node |-> "laptop", gen |-> 0, until |-> 0, sure |-> FALSE]

\* ans: "none" until the server has handled the call.  crossed: an unlock of the
\* same tab was under way when the call was made, or was made after it.
Call == [tab: Tab, op: {"acquire", "release"}, at: Nat,
         ans: {"none", "yes", "no"}, gen: Nat, crossed: BOOLEAN]

Notice == [owner: Owner \cup {NoOwner}, gen: Nat]

Init ==
    /\ now = 0
    /\ lease = [n \in Node |-> NoLease] /\ grants = [n \in Node |-> 0]
    /\ notices = [n \in Node |-> << >>]
    /\ claims = [t \in Tab |-> NoClaim]
    /\ status = "starting" /\ quarantine = 0
    /\ calls = {} /\ late = {} /\ outages = 0

-----------------------------------------------------------------------------
(* A registry.                                                               *)

Live(n)      == lease[n] # NoLease /\ lease[n].expires > now
HeldBy(n, o) == Live(n) /\ lease[n].owner = o
InTime       == now + TTL <= MaxTime

Tell(n, o, g) == notices' = [notices EXCEPT ![n] = Append(@, [owner |-> o, gen |-> g])]

\* Mutant: a live lease is renewed for whoever asks.
AcquireOver(n, o) ==
    /\ InTime
    /\ IF Live(n)
       THEN /\ lease' = [lease EXCEPT ![n].owner = o, ![n].expires = now + TTL]
            /\ UNCHANGED <<grants, notices>>
       ELSE /\ grants["laptop"] + grants["server"] < MaxGrants
            /\ grants' = [grants EXCEPT ![n] = @ + 1]
            /\ lease' = [lease EXCEPT ![n] =
                  [owner |-> o, gen |-> grants[n] + 1, expires |-> now + TTL]]
            /\ Tell(n, o, grants[n] + 1)

\* acquire: renew one's own live lease, or take a free memo
Acquire(n, o) ==
    /\ InTime
    /\ \/ /\ HeldBy(n, o)
          /\ lease' = [lease EXCEPT ![n].expires = now + TTL]
          /\ UNCHANGED <<grants, notices>>
       \/ /\ ~Live(n) /\ grants["laptop"] + grants["server"] < MaxGrants
          /\ grants' = [grants EXCEPT ![n] = @ + 1]
          /\ lease' = [lease EXCEPT ![n] =
                [owner |-> o, gen |-> grants[n] + 1, expires |-> now + TTL]]
          /\ Tell(n, o, grants[n] + 1)

\* acquire of a memo somebody else holds
Denied(n, o) == Live(n) /\ ~HeldBy(n, o) /\ UNCHANGED registries

\* Mutant: whoever asks, the live lease goes.
ReleaseAny(n, o) ==
    /\ Live(n)
    /\ lease' = [lease EXCEPT ![n] = NoLease]
    /\ Tell(n, NoOwner, 0)
    /\ UNCHANGED grants

\* release by the holder of a live lease
Release(n, o) ==
    /\ HeldBy(n, o)
    /\ lease' = [lease EXCEPT ![n] = NoLease]
    /\ Tell(n, NoOwner, 0)
    /\ UNCHANGED grants

\* release that finds no live lease of this owner
NotHeld(n, o) == ~HeldBy(n, o) /\ UNCHANGED registries

\* The timer of an expired lease, on time or late
Expire(n) ==
    /\ lease[n] # NoLease /\ ~Live(n)
    /\ lease' = [lease EXCEPT ![n] = NoLease]
    /\ Tell(n, NoOwner, 0)
    /\ UNCHANGED <<now, grants, claims, status, quarantine, calls, late, outages>>

-----------------------------------------------------------------------------
(* A tab of the laptop asks.                                                 *)

Under(t)     == {c \in calls \cup late : c.tab = t}
Unlocking(t) == \E c \in Under(t) : c.op = "release"

\* Mutant: the laptop trusts a token as long as the server's lease lasts.
TrustedFullTTL == now + TTL

TrustedUntil == now + Validity

Claimed(n, g, sure) == [node |-> n, gen |-> g, until |-> TrustedUntil, sure |-> sure]

CallOf(t, op) == [tab |-> t, op |-> op, at |-> now, ans |-> "none", gen |-> 0,
                  crossed |-> Unlocking(t)]

\* _delegate_lock while online: the call starts in a thread.
Delegable(t, op) ==
    /\ status = "online" /\ CallOf(t, op) \notin Under(t)
    /\ Cardinality(calls \cup late) < MaxCalls

\* lockMemo or renewMemoLock while online
AskRemote(t) ==
    /\ Delegable(t, "acquire")
    /\ calls' = calls \cup {CallOf(t, "acquire")}
    /\ UNCHANGED <<now, registries, claims, status, quarantine, late, outages>>

CrossedBy(c, t) == [c EXCEPT !.crossed = @ \/ c.tab = t]
Cross(t, S) == {CrossedBy(c, t) : c \in S}

\* unlockMemo (or leaving the memo) while online: the claim stays for now, and
\* the tab's calls under way become crossed.
UnlockRemote(t) ==
    /\ claims[t] # NoClaim
    /\ Delegable(t, "release")
    /\ calls' = Cross(t, calls) \cup {CallOf(t, "release")}
    /\ late' = Cross(t, late)
    /\ claims' = [claims EXCEPT ![t].sure = FALSE]
    /\ UNCHANGED <<now, registries, status, quarantine, outages>>

\* Offline mode is established and nothing is uncertain: the local registry is used.
LocalMode == status = "offline" /\ now >= quarantine

AskLocal(t) ==
    /\ LocalMode
    /\ \/ /\ Acquire("laptop", t)
          /\ claims' = [claims EXCEPT ![t] =
                Claimed("laptop", lease'["laptop"].gen, ~Unlocking(t))]
       \/ Denied("laptop", t) /\ claims' = [claims EXCEPT ![t] = NoClaim]
    /\ UNCHANGED <<now, status, quarantine, calls, late, outages>>

UnlockLocal(t) ==
    /\ LocalMode /\ claims[t] # NoClaim
    /\ Release("laptop", t) \/ NotHeld("laptop", t)
    /\ claims' = [claims EXCEPT ![t] = NoClaim]
    /\ UNCHANGED <<now, status, quarantine, calls, late, outages>>

-----------------------------------------------------------------------------
(* A delegated call: the server's part, then its end on the laptop.          *)

\* POST /api/sync/locks/{memo}/acquire or /release
Serve(c) ==
    \/ c.op = "acquire" /\ (Acquire("server", c.tab) \/ Denied("server", c.tab))
    \/ c.op = "release" /\ (Release("server", c.tab) \/ NotHeld("server", c.tab))

\* What the server answers, once it has served the call.
Served(c) ==
    IF c.op = "acquire"
    THEN [c EXCEPT !.ans = IF lease'["server"].owner = c.tab THEN "yes" ELSE "no",
                   !.gen = IF lease'["server"].owner = c.tab THEN lease'["server"].gen ELSE 0]
    ELSE [c EXCEPT !.ans = IF HeldBy("server", c.tab) THEN "yes" ELSE "no"]

ServerHandles(c) ==
    /\ c \in calls /\ c.ans = "none"
    /\ Serve(c)
    /\ calls' = (calls \ {c}) \cup {Served(c)}
    /\ UNCHANGED <<now, claims, status, quarantine, late, outages>>

ServerHandlesLate(c) ==
    /\ c \in late /\ Serve(c)
    /\ late' = late \ {c}
    /\ UNCHANGED <<now, claims, status, quarantine, calls, outages>>

\* Mutant: `acquired` of the answer is not looked at.
EndAskUnchecked(c) ==
    /\ c \in calls /\ c.op = "acquire" /\ c.ans # "none"
    /\ calls' = calls \ {c}
    /\ quarantine' = 0
    /\ claims' = [claims EXCEPT ![c.tab] = Claimed("server", c.gen, ~c.crossed)]
    /\ UNCHANGED <<now, registries, status, late, outages>>

\* The answer to lockMemo or renewMemoLock is there: the rest of _acquire_lock.
EndAsk(c) ==
    /\ c \in calls /\ c.op = "acquire" /\ c.ans # "none"
    /\ calls' = calls \ {c}
    /\ quarantine' = 0
    /\ claims' = [claims EXCEPT ![c.tab] =
                     IF c.ans = "yes" THEN Claimed("server", c.gen, ~c.crossed) ELSE NoClaim]
    /\ UNCHANGED <<now, registries, status, late, outages>>

\* The answer to unlockMemo: if it released the lock, emit_lock_state(None)
\* clears what the other tabs claim, too.
EndUnlock(c) ==
    /\ c \in calls /\ c.op = "release" /\ c.ans # "none"
    /\ calls' = calls \ {c}
    /\ quarantine' = 0
    /\ claims' = [t \in Tab |-> IF c.ans = "yes" \/ t = c.tab THEN NoClaim ELSE claims[t]]
    /\ UNCHANGED <<now, registries, status, late, outages>>

\* The call fails, at the latest when it times out.  Claims stay; an unanswered
\* call may be served later.
CallFails(c) ==
    /\ c \in calls /\ outages < MaxOutages
    /\ calls' = calls \ {c}
    /\ late' = IF c.ans = "none" THEN late \cup {c} ELSE late
    /\ status' = "offline" /\ outages' = outages + 1
    /\ quarantine' = now + TTL
    /\ UNCHANGED <<now, registries, claims>>

\* The server rejects the call (SyncPeerError): it is not served.
CallRejected(c) ==
    /\ c \in calls /\ c.ans = "none"
    /\ calls' = calls \ {c}
    /\ UNCHANGED <<now, registries, claims, status, quarantine, late, outages>>

-----------------------------------------------------------------------------
(* Notices: lock changes of either registry reach the laptop's tabs.         *)

\* emit_lock_state: a freed memo clears every claim, a taken one those its
\* holder and token do not confirm.
HandleNotice(n) ==
    /\ notices[n] # << >>
    /\ LET note == Head(notices[n])
       IN  claims' = [t \in Tab |->
              IF note.owner = t /\ claims[t].node = n /\ claims[t].gen = note.gen
              THEN claims[t] ELSE NoClaim]
    /\ notices' = [notices EXCEPT ![n] = Tail(@)]
    /\ UNCHANGED <<now, lease, grants, status, quarantine, calls, late, outages>>

\* syncLockChanged is not delivered: the daemon's socket is not connected.
NoticeLost ==
    /\ notices["server"] # << >>
    /\ notices' = [notices EXCEPT !["server"] = Tail(@)]
    /\ UNCHANGED <<now, lease, grants, claims, status, quarantine, calls, late, outages>>

-----------------------------------------------------------------------------
(* The server's own tabs, the daemon's verdict on the network, time.         *)

SeatAsks(s) ==
    /\ Acquire("server", s) \/ Denied("server", s)
    /\ UNCHANGED <<now, claims, status, quarantine, calls, late, outages>>

SeatUnlocks(s) ==
    /\ Release("server", s) \/ NotHeld("server", s)
    /\ UNCHANGED <<now, claims, status, quarantine, calls, late, outages>>

\* A cycle of the daemon ends: mark_online, or mark_offline (no quarantine).
DaemonSays(verdict) ==
    /\ status # verdict /\ status' = verdict
    /\ \/ verdict = "online" /\ UNCHANGED outages
       \/ verdict = "offline" /\ outages < MaxOutages /\ outages' = outages + 1
    /\ UNCHANGED <<now, registries, claims, quarantine, calls, late>>

\* No call lasts longer than Timeout.
Tick ==
    /\ now < MaxTime /\ \A c \in calls : now < c.at + Timeout
    /\ now' = now + 1
    /\ UNCHANGED <<registries, claims, status, quarantine, calls, late, outages>>

TabStep(t) == AskRemote(t) \/ UnlockRemote(t) \/ AskLocal(t) \/ UnlockLocal(t)

CallStep ==
    \/ \E c \in calls : \/ ServerHandles(c) \/ EndAsk(c) \/ EndUnlock(c)
                        \/ CallFails(c) \/ CallRejected(c)
    \/ \E c \in late : ServerHandlesLate(c)

Next ==
    \/ \E t \in Tab : TabStep(t)
    \/ CallStep
    \/ \E n \in Node : HandleNotice(n) \/ Expire(n)
    \/ NoticeLost
    \/ \E s \in Seat : SeatAsks(s) \/ SeatUnlocks(s)
    \/ \E v \in {"online", "offline"} : DaemonSays(v)
    \/ Tick

Spec == Init /\ [][Next]_vars

-----------------------------------------------------------------------------
(* Properties.                                                               *)

\* Registries, claims and calls keep their shape.
TypeOK ==
    /\ now \in Nat /\ quarantine \in Nat /\ outages \in Nat
    /\ lease \in [Node -> Lease \cup {NoLease}] /\ grants \in [Node -> Nat]
    /\ notices \in [Node -> Seq(Notice)]
    /\ claims \in [Tab -> Claim \cup {NoClaim}]
    /\ status \in {"starting", "online", "offline"}
    /\ calls \subseteq Call /\ late \subseteq Call

\* socket_owns_valid_lease in the client role: the token's own deadline counts.
Writes(t) == claims[t] # NoClaim /\ claims[t].until > now

Delegated(t) == Writes(t) /\ claims[t].node = "server"

\* socket_owns_valid_lease in the server role: the registry decides.
SeatWrites(s) == HeldBy("server", s)

\* The leases that run in the two registries.
Holder == [n \in Node |-> IF Live(n) THEN lease[n].owner ELSE NoOwner]
Until  == [n \in Node |-> IF Live(n) THEN lease[n].expires ELSE 0]

\* The memo is locked in two places; its saves are no part of this module.
Promise == INSTANCE FencedLease WITH Memo <- Node, Nobody <- NoOwner, holder <- Holder,
               until <- Until, fence <- grants, written <- [n \in Node |-> 0]

\* Each node's registry, as delegated, late and local calls use it, is the lock with
\* fenced leases that LockRegistry implements: what is delegated is that lock.
RegistriesFenced == Promise!Spec

\* A tab that has not asked to unlock and holds a token of the server is backed
\* by the server's lease for as long as the laptop trusts the token, online or
\* offline, whatever calls are lost, late or answered out of order: no tab of the
\* server, and no second delegated tab, can write meanwhile.
OneDelegatedWriter ==
    \A t \in Tab : Delegated(t) /\ claims[t].sure =>
        /\ \A s \in Seat : ~SeatWrites(s)
        /\ \A u \in Tab \ {t} : ~(Delegated(u) /\ claims[u].sure)

\* The server backs a sure claim for as long as it is trusted.
ClaimsBacked ==
    \A t \in Tab : Delegated(t) /\ claims[t].sure =>
        lease["server"].owner = t /\ lease["server"].expires >= claims[t].until

\* What the server has granted outlasts the call, unless an unlock crossed it.
CallsBacked ==
    \A c \in calls : c.op = "acquire" /\ c.ans = "yes" /\ ~c.crossed =>
        lease["server"].owner = c.tab /\ lease["server"].expires >= c.at + TTL

\* No unlock is under way for a sure claim or an uncrossed call.
NoneUnlocking ==
    /\ \A t \in Tab : claims[t].sure => ~Unlocking(t)
    /\ \A c \in calls : c.op = "acquire" /\ ~c.crossed => ~Unlocking(c.tab)

\* Claims are trusted for Validity, calls last for Timeout.
Timely ==
    /\ \A t \in Tab : claims[t].until <= now + Validity
    /\ \A c \in calls : c.at <= now /\ now <= c.at + Timeout

\* Why: the lease outlasts the claim, a granted call's lease outlasts the call,
\* and no unlock is under way for a claim or a call that none has crossed.
BackedInv == ClaimsBacked /\ CallsBacked /\ NoneUnlocking /\ Timely

Quiet == calls = {} /\ late = {} /\ \A n \in Node : notices[n] = << >>

\* Online, with no call or notice under way, only one tab of both nodes can write
\* (lock_registry.py: concurrent edits while online are structurally impossible).  No
\* run checks it: a renewal answered after an unlock restores its claim (see README).
OneWriterOnline ==
    status = "online" /\ Quiet =>
        \A t \in Tab : Writes(t) =>
            /\ \A s \in Seat : ~SeatWrites(s)
            /\ \A u \in Tab \ {t} : ~Writes(u)

=============================================================================
