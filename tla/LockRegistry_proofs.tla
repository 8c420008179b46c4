-------------------------- MODULE LockRegistry_proofs --------------------------
(***************************************************************************)
(* LockRegistry keeps its types, its live leases, the order of its writers  *)
(* and the claims of its sockets, for any memos, sockets, lease times and   *)
(* bounds.                                                                  *)
(***************************************************************************)
EXTENDS LockRegistry, TLAPS, FiniteSetTheorems

\* What an operation on m by o may do to the registry and the queue of notices.
RegistryTypes ==
    /\ lease \in [Memo -> Lease \cup {NoLease}]
    /\ generation \in [Memo -> Nat]
    /\ timer \in [Memo -> Alarm \cup {NoAlarm}]
    /\ callbacks \in Seq(Notice)

Operation(m, o) ==
    \/ Renew(m, o) \/ Grant(m, o) \/ Release(m, o)
    \/ UNCHANGED <<registry, callbacks>>

LEMMA NotifyType ==
    ASSUME callbacks \in Seq(Notice), NEW n \in Notice, Notify(n)
    PROVE  callbacks' \in Seq(Notice)
BY DEF Notify

LEMMA ExtendType ==
    ASSUME TypeOK, NEW m \in Memo, NEW o \in Owner, NEW g \in Nat \ {0}, Extend(m, o, g)
    PROVE  /\ lease' \in [Memo -> Lease \cup {NoLease}]
           /\ generation' \in [Memo -> Nat]
           /\ timer' \in [Memo -> Alarm \cup {NoAlarm}]
<1>1. now + TTL \in Nat
  BY LockAssumption DEF LockAssumption, TypeOK
<1>2. [owner |-> o, gen |-> g, expires |-> now + TTL] \in Lease
  BY <1>1 DEF Lease
<1>3. [owner |-> o, expires |-> now + TTL] \in Alarm
  BY <1>1 DEF Alarm
<1> QED
  BY <1>2, <1>3 DEF TypeOK, Extend

LEMMA HolderType ==
    ASSUME TypeOK, NEW m \in Memo, lease[m] # NoLease
    PROVE  lease[m] \in Lease /\ lease[m].gen \in Nat \ {0} /\ lease[m].expires \in Nat
BY DEF TypeOK, Lease

LEMMA OperationType ==
    ASSUME TypeOK, NEW m \in Memo, NEW o \in Owner, Operation(m, o)
    PROVE  RegistryTypes'
<1>1. CASE Renew(m, o)
  <2>1. lease[m].gen \in Nat \ {0}
    BY <1>1, HolderType DEF Renew, HeldBy, Live
  <2> QED
    BY <1>1, <2>1, ExtendType DEF Renew, RegistryTypes, TypeOK
<1>2. CASE Grant(m, o)
  <2>1. generation[m] + 1 \in Nat \ {0}
    BY DEF TypeOK
  <2>2. /\ lease' \in [Memo -> Lease \cup {NoLease}]
        /\ generation' \in [Memo -> Nat]
        /\ timer' \in [Memo -> Alarm \cup {NoAlarm}]
    BY <1>2, <2>1, ExtendType DEF Grant
  <2>3. Taken(m, o, generation'[m]) \in Notice
    BY <2>2 DEF Taken, Notice
  <2> QED
    BY <1>2, <2>2, <2>3, NotifyType DEF Grant, RegistryTypes, TypeOK
<1>3. CASE Release(m, o)
  <2>1. Freed(m) \in Notice
    BY DEF Freed, Notice
  <2>2. callbacks' \in Seq(Notice)
    BY <1>3, <2>1, NotifyType DEF Release, TypeOK
  <2> QED
    BY <1>3, <2>2 DEF Release, RegistryTypes, TypeOK
<1>4. CASE UNCHANGED <<registry, callbacks>>
  BY <1>4 DEF registry, RegistryTypes, TypeOK
<1> QED
  BY <1>1, <1>2, <1>3, <1>4 DEF Operation

\* The lease an owner gets or renews.
LEMMA GainedLease ==
    ASSUME TypeOK, NEW m \in Memo, NEW o \in Owner, Renew(m, o) \/ Grant(m, o)
    PROVE  /\ lease'[m].owner = o
           /\ lease'[m].gen = generation'[m]
           /\ lease'[m].gen \in Nat \ {0}
<1>1. CASE Renew(m, o)
  <2>1. lease[m].gen \in Nat \ {0}
    BY <1>1, HolderType DEF Renew, HeldBy, Live
  <2> QED
    BY <1>1, <2>1 DEF Renew, Extend, TypeOK
<1>2. CASE Grant(m, o)
  BY <1>2 DEF Grant, Extend, TypeOK
<1> QED
  BY <1>1, <1>2

LEMMA TypeFinishLock ==
    ASSUME TypeOK, NEW s \in Socket, NEW m \in Memo, FinishLock(s, m)
    PROVE  TypeOK'
<1>1. Operation(m, s) /\ s \in Owner
  BY DEF FinishLock, Operation, Owner
<1>2. RegistryTypes'
  BY <1>1, OperationType
<1>3. claims' \in [Socket -> [Memo -> Claim \cup {NoClaim}]]
  <2>1. CASE Renew(m, s) \/ Grant(m, s)
    <3> DEFINE c == [gen |-> lease'[m].gen, until |-> now + Validity]
    <3>1. now + Validity \in Nat
      BY LockAssumption DEF LockAssumption, TypeOK
    <3>2. c \in Claim
      BY <1>1, <2>1, <3>1, GainedLease DEF Claim
    <3>3. claims' = [claims EXCEPT ![s][m] = c]
      BY <2>1 DEF FinishLock, Renew, Grant
    <3> HIDE DEF c
    <3> QED
      BY <3>2, <3>3 DEF TypeOK
  <2>2. CASE claims' = [claims EXCEPT ![s][m] = NoClaim]
    BY <2>2 DEF TypeOK
  <2> QED
    BY <2>1, <2>2 DEF FinishLock
<1> QED
  BY <1>2, <1>3 DEF FinishLock, RegistryTypes, TypeOK

LEMMA TypeDropLock ==
    ASSUME TypeOK, NEW s \in Socket, NEW m \in Memo, DropLock(s, m)
    PROVE  RegistryTypes' /\ claims' \in [Socket -> [Memo -> Claim \cup {NoClaim}]]
<1>1. Operation(m, s) /\ s \in Owner
  BY DEF DropLock, ReleaseNothing, Operation, Owner
<1>2. RegistryTypes'
  BY <1>1, OperationType
<1>3. claims' = claims \/ claims' = [claims EXCEPT ![s][m] = NoClaim]
  BY DEF DropLock
<1>4. CASE claims' = claims
  BY <1>2, <1>4 DEF TypeOK
<1>5. CASE claims' = [claims EXCEPT ![s][m] = NoClaim]
  BY <1>2, <1>5 DEF TypeOK
<1> QED
  BY <1>3, <1>4, <1>5

LEMMA ConcatType ==
    ASSUME NEW S, NEW q \in Seq(S), NEW r \in Seq(S)
    PROVE  q \o r \in Seq(S)
OBVIOUS

LEMMA TypeDisconnect ==
    ASSUME TypeOK, NEW s \in Socket, Disconnect(s)
    PROVE  TypeOK'
<1> DEFINE held == {m \in Memo : claims[s][m] # NoClaim /\ HeldBy(m, s)}
<1>1. PICK order \in [1 .. Cardinality(held) -> held] :
          callbacks' = callbacks \o [i \in DOMAIN order |-> Freed(order[i])]
  BY DEF Disconnect
<1>2. Cardinality(held) \in Nat
  BY LockAssumption, FS_Subset, FS_CardinalityType, held \in SUBSET Memo DEF LockAssumption
<1>3. held \subseteq Memo
  OBVIOUS
<1>4. \A m \in Memo : Freed(m) \in Notice
  BY DEF Freed, Notice
<1>5. callbacks' \in Seq(Notice)
  <2> HIDE DEF held
  <2>1. [i \in DOMAIN order |-> Freed(order[i])] \in Seq(Notice)
    BY <1>2, <1>3, <1>4
  <2>2. callbacks \in Seq(Notice)
    BY DEF TypeOK
  <2> QED
    BY <1>1, <2>1, <2>2, ConcatType
<1>6. /\ lease' \in [Memo -> Lease \cup {NoLease}]
      /\ timer' \in [Memo -> Alarm \cup {NoAlarm}]
      /\ claims' \in [Socket -> [Memo -> Claim \cup {NoClaim}]]
      /\ joined' \in [Socket -> SUBSET Memo]
  BY DEF Disconnect, TypeOK
<1> QED
  BY <1>5, <1>6 DEF Disconnect, TypeOK

LEMMA TypeBroadcast ==
    ASSUME TypeOK, Broadcast
    PROVE  TypeOK'
<1>1. Head(callbacks) \in Notice /\ Tail(callbacks) \in Seq(Notice)
  BY DEF Broadcast, TypeOK
<1>2. Head(callbacks).memo \in Memo
  BY <1>1 DEF Notice
<1>3. claims' \in [Socket -> [Memo -> Claim \cup {NoClaim}]]
  BY <1>2 DEF Broadcast, TypeOK
<1> QED
  BY <1>1, <1>3 DEF Broadcast, TypeOK, registry

LEMMA TypeExpire ==
    ASSUME TypeOK, NEW w \in woken, Expire(w)
    PROVE  TypeOK'
<1>1. w.memo \in Memo /\ w.alarm \in Alarm \cup {NoAlarm}
  BY DEF TypeOK
<1>2. /\ lease' \in [Memo -> Lease \cup {NoLease}]
      /\ timer' \in [Memo -> Alarm \cup {NoAlarm}]
      /\ announcing' \subseteq Memo
  BY <1>1 DEF Expire, TypeOK
<1> QED
  BY <1>2 DEF Expire, TypeOK

LEMMA TypeStep == TypeOK /\ [Next]_vars => TypeOK'
<1> SUFFICES ASSUME TypeOK, [Next]_vars PROVE TypeOK'
  OBVIOUS
<1>1. ASSUME NEW s \in Socket, NEW m \in Memo,
             JoinMemo(s, m) \/ AskLock(s, m) \/ DenyAccess(s, m) \/ Save(s, m)
      PROVE  TypeOK'
  <2>1. CASE JoinMemo(s, m)
    BY <2>1 DEF JoinMemo, TypeOK, registry
  <2>2. CASE AskLock(s, m)
    BY <2>2 DEF AskLock, TypeOK, registry
  <2>3. CASE DenyAccess(s, m)
    BY <2>3 DEF DenyAccess, TypeOK, registry
  <2>4. CASE Save(s, m)
    <3>1. claims[s][m].gen \in Nat
      BY <2>4 DEF Save, OwnsValidLease, TypeOK, Claim
    <3> QED
      BY <2>4, <3>1 DEF Save, TypeOK, registry
  <2> QED
    BY <1>1, <2>1, <2>2, <2>3, <2>4
<1>2. ASSUME NEW s \in Socket, NEW m \in Memo, UnlockMemo(s, m) \/ LeaveMemo(s, m)
      PROVE  TypeOK'
  <2>1. RegistryTypes' /\ claims' \in [Socket -> [Memo -> Claim \cup {NoClaim}]]
    BY <1>2, TypeDropLock DEF UnlockMemo, LeaveMemo
  <2>2. joined' \in [Socket -> SUBSET Memo]
    BY <1>2 DEF UnlockMemo, LeaveMemo, TypeOK
  <2>3. UNCHANGED <<now, woken, announcing, connected, asking, written>>
    BY <1>2 DEF UnlockMemo, LeaveMemo
  <2> QED
    BY <2>1, <2>2, <2>3 DEF RegistryTypes, TypeOK
<1>3. ASSUME NEW r \in Remote, NEW m \in Memo, RemoteAcquire(r, m) \/ RemoteRelease(r, m)
      PROVE  TypeOK'
  <2>1. Operation(m, r) /\ r \in Owner
    BY <1>3 DEF RemoteAcquire, RemoteRelease, ReleaseNothing, Operation, Owner
  <2>2. RegistryTypes'
    BY <2>1, OperationType
  <2> QED
    BY <1>3, <2>2 DEF RemoteAcquire, RemoteRelease, RegistryTypes, TypeOK
<1>4. CASE Tick
  BY <1>4 DEF Tick, TypeOK, registry
<1>5. ASSUME NEW m \in Memo, Wake(m)
      PROVE  TypeOK'
  BY <1>5 DEF Wake, TypeOK
<1>6. ASSUME NEW m \in Memo, Announce(m)
      PROVE  TypeOK'
  <2>1. Freed(m) \in Notice
    BY DEF Freed, Notice
  <2>2. callbacks' \in Seq(Notice)
    BY <1>6, <2>1, NotifyType DEF Announce, TypeOK
  <2> QED
    BY <1>6, <2>2 DEF Announce, TypeOK, registry
<1>7. CASE UNCHANGED vars
  BY <1>7 DEF vars, registry, TypeOK
<1> QED
  BY <1>1, <1>2, <1>3, <1>4, <1>5, <1>6, <1>7, TypeFinishLock, TypeDisconnect,
     TypeBroadcast, TypeExpire
     DEF Next, SocketStep, RemoteStep, Expiry

LEMMA TypeInit == Init => TypeOK
<1> SUFFICES ASSUME Init PROVE TypeOK
  OBVIOUS
<1>1. callbacks \in Seq(Notice)
  BY DEF Init
<1> QED
  BY <1>1 DEF Init, TypeOK

\* Leases, timers, notices and claims keep their types in every behaviour.
THEOREM TypeCorrect == Spec => []TypeOK
BY TypeInit, TypeStep, PTL DEF Spec

-----------------------------------------------------------------------------
(* Generations only grow, and saves follow them.                             *)

\* An operation keeps the lease of every memo at the memo's last generation.
LEMMA OperationGeneration ==
    ASSUME TypeOK, GenerationInv, NEW m \in Memo, NEW o \in Owner, Operation(m, o)
    PROVE  \A n \in Memo : /\ lease'[n] # NoLease => lease'[n].gen = generation'[n]
                           /\ generation'[n] >= generation[n]
<1>1. CASE Renew(m, o)
  <2>1. lease[m].gen = generation[m] /\ generation[m] \in Nat
    BY <1>1 DEF Renew, HeldBy, Live, GenerationInv, TypeOK
  <2> QED
    BY <1>1, <2>1 DEF Renew, Extend, GenerationInv, TypeOK
<1>2. CASE Grant(m, o)
  BY <1>2 DEF Grant, Extend, GenerationInv, TypeOK
<1>3. CASE Release(m, o)
  BY <1>3 DEF Release, GenerationInv, TypeOK
<1>4. CASE UNCHANGED <<registry, callbacks>>
  BY <1>4 DEF registry, GenerationInv, TypeOK
<1> QED
  BY <1>1, <1>2, <1>3, <1>4 DEF Operation

\* What every step but Save does to generations.
LEMMA GenerationFrame ==
    ASSUME TypeOK, GenerationInv, written' = written,
           \A n \in Memo : /\ lease'[n] # NoLease => lease'[n].gen = generation'[n]
                           /\ generation'[n] \in Nat /\ generation'[n] >= generation[n]
    PROVE  GenerationInv' /\ \A m \in Memo : written'[m] >= written[m]
BY DEF GenerationInv, TypeOK

LEMMA GenerationStep ==
    ASSUME TypeOK, TypeOK', GenerationInv, [Next]_vars
    PROVE  GenerationInv' /\ \A m \in Memo : written'[m] >= written[m]
<1>1. ASSUME NEW m \in Memo, NEW o \in Owner, Operation(m, o), written' = written
      PROVE  GenerationInv' /\ \A n \in Memo : written'[n] >= written[n]
  BY <1>1, OperationGeneration, GenerationFrame DEF TypeOK
<1>2. CASE UNCHANGED <<lease, generation, written>>
  BY <1>2 DEF GenerationInv, TypeOK
<1>3. ASSUME NEW s \in Socket, NEW m \in Memo,
             JoinMemo(s, m) \/ AskLock(s, m) \/ DenyAccess(s, m) \/ FinishLock(s, m)
                \/ UnlockMemo(s, m) \/ LeaveMemo(s, m)
      PROVE  GenerationInv' /\ \A n \in Memo : written'[n] >= written[n]
  <2>1. Operation(m, s) /\ s \in Owner /\ written' = written
    BY <1>3 DEF JoinMemo, AskLock, DenyAccess, FinishLock, UnlockMemo, LeaveMemo,
                DropLock, ReleaseNothing, Operation, Owner, registry
  <2> QED
    BY <1>1, <2>1
<1>4. ASSUME NEW s \in Socket, NEW m \in Memo, Save(s, m)
      PROVE  GenerationInv' /\ \A n \in Memo : written'[n] >= written[n]
  <2>1. UNCHANGED <<lease, generation>>
    BY <1>4 DEF Save, registry
  <2>2. lease[m] # NoLease /\ claims[s][m].gen = lease[m].gen
    BY <1>4 DEF Save, OwnsValidLease, HeldBy, Live
  <2>3. written' = [written EXCEPT ![m] = generation[m]]
    BY <1>4, <2>2 DEF Save, GenerationInv
  <2> QED
    BY <2>1, <2>3 DEF GenerationInv, TypeOK
<1>5. ASSUME NEW s \in Socket, Disconnect(s)
      PROVE  GenerationInv' /\ \A n \in Memo : written'[n] >= written[n]
  BY <1>5 DEF Disconnect, GenerationInv, TypeOK
<1>6. ASSUME NEW r \in Remote, NEW m \in Memo, RemoteAcquire(r, m) \/ RemoteRelease(r, m)
      PROVE  GenerationInv' /\ \A n \in Memo : written'[n] >= written[n]
  <2>1. Operation(m, r) /\ r \in Owner /\ written' = written
    BY <1>6 DEF RemoteAcquire, RemoteRelease, ReleaseNothing, Operation, Owner
  <2> QED
    BY <1>1, <2>1
<1>7. CASE Broadcast \/ Tick \/ \E m \in Memo : Wake(m) \/ Announce(m)
  BY <1>2, <1>7 DEF Broadcast, Tick, Wake, Announce, registry
<1>8. ASSUME NEW w \in woken, Expire(w)
      PROVE  GenerationInv' /\ \A n \in Memo : written'[n] >= written[n]
  BY <1>8 DEF Expire, GenerationInv, TypeOK
<1>9. CASE UNCHANGED vars
  BY <1>2, <1>9 DEF vars, registry
<1> QED
  BY <1>3, <1>4, <1>5, <1>6, <1>7, <1>8, <1>9 DEF Next, SocketStep, RemoteStep, Expiry

LEMMA GenerationInit == Init => GenerationInv
BY DEF Init, GenerationInv

\* The leases carry the last generation of their memo in every behaviour.
THEOREM LastGeneration == Spec => []GenerationInv
BY TypeCorrect, TypeInit, TypeStep, GenerationInit, GenerationStep, PTL DEF Spec

\* Tokens fence writers: no save under an older lease follows one under a newer.
THEOREM WritersInOrder == Spec => NoOldWriter
<1>1. TypeOK /\ TypeOK' /\ GenerationInv /\ [Next]_vars
        => [\A m \in Memo : written'[m] >= written[m]]_vars
  BY GenerationStep
<1> QED
  BY <1>1, TypeCorrect, LastGeneration, PTL DEF Spec, NoOldWriter

-----------------------------------------------------------------------------
(* Live leases end by their holder's hand only.                              *)

LEMMA OperationKeeps ==
    ASSUME TypeOK, NEW n \in Memo, NEW o \in Owner, Operation(n, o), now' = now,
           NEW m \in Memo, lease[m] # NoLease, lease[m].expires > now',
           lease'[m].gen # lease[m].gen
    PROVE  m = n /\ lease[m].owner = o /\ Release(m, o)
<1>1. Live(m)
  BY DEF Live
<1>2. CASE Renew(n, o)
  BY <1>2 DEF Renew, Extend, TypeOK
<1>3. CASE Grant(n, o)
  BY <1>1, <1>3 DEF Grant, Extend, TypeOK
<1>4. CASE Release(n, o)
  BY <1>4 DEF Release, HeldBy, TypeOK
<1>5. CASE UNCHANGED <<registry, callbacks>>
  BY <1>5 DEF registry
<1> QED
  BY <1>2, <1>3, <1>4, <1>5 DEF Operation

\* Neither a timer, however late or early it wakes, nor anybody else's request
\* ends a lease that still runs.
THEOREM LiveLeasesKept == Spec => LiveLeaseKept
<1> DEFINE Kept == \A m \in Memo :
             lease[m] # NoLease /\ lease[m].expires > now' /\ lease'[m].gen # lease[m].gen
                => Ends(lease[m].owner, m)
<1>1. TypeOK /\ [Next]_vars => [Kept]_vars
  <2> SUFFICES ASSUME TypeOK, Next,
                      NEW m \in Memo, lease[m] # NoLease, lease[m].expires > now',
                      lease'[m].gen # lease[m].gen
               PROVE  Ends(lease[m].owner, m)
    OBVIOUS
  <2>1. ASSUME NEW s \in Socket, NEW n \in Memo,
               JoinMemo(s, n) \/ AskLock(s, n) \/ DenyAccess(s, n) \/ Save(s, n)
        PROVE  FALSE
    BY <2>1 DEF JoinMemo, AskLock, DenyAccess, Save, registry
  <2>2. ASSUME NEW s \in Socket, NEW n \in Memo, FinishLock(s, n)
        PROVE  FALSE
    <3>1. Renew(n, s) \/ Grant(n, s) \/ UNCHANGED registry
      BY <2>2 DEF FinishLock
    <3>2. now' = now /\ s \in Owner
      BY <2>2 DEF FinishLock, Owner
    <3>3. ~Release(m, s)
      BY <3>1 DEF Renew, Grant, Release, Extend, HeldBy, registry, TypeOK
    <3> QED
      BY <3>1, <3>2, <3>3, OperationKeeps DEF Operation, registry
  <2>3. ASSUME NEW s \in Socket, NEW n \in Memo, UnlockMemo(s, n) \/ LeaveMemo(s, n)
        PROVE  Ends(lease[m].owner, m)
    <3>1. Operation(n, s) /\ s \in Owner /\ now' = now
      BY <2>3 DEF UnlockMemo, LeaveMemo, DropLock, ReleaseNothing, Operation, Owner
    <3>2. m = n /\ lease[m].owner = s
      BY <3>1, OperationKeeps
    <3> QED
      BY <2>3, <3>2 DEF Ends
  <2>4. ASSUME NEW s \in Socket, Disconnect(s)
        PROVE  Ends(lease[m].owner, m)
    <3>1. HeldBy(m, s)
      BY <2>4 DEF Disconnect
    <3> QED
      BY <2>4, <3>1 DEF Ends, HeldBy
  <2>5. ASSUME NEW r \in Remote, NEW n \in Memo, RemoteAcquire(r, n)
        PROVE  FALSE
    <3>1. Renew(n, r) \/ Grant(n, r) \/ UNCHANGED registry
      BY <2>5 DEF RemoteAcquire
    <3>2. now' = now /\ r \in Owner
      BY <2>5 DEF RemoteAcquire, Owner
    <3>3. ~Release(m, r)
      BY <3>1 DEF Renew, Grant, Release, Extend, HeldBy, registry, TypeOK
    <3> QED
      BY <3>1, <3>2, <3>3, OperationKeeps DEF Operation, registry
  <2>6. ASSUME NEW r \in Remote, NEW n \in Memo, RemoteRelease(r, n)
        PROVE  Ends(lease[m].owner, m)
    <3>1. Operation(n, r) /\ r \in Owner /\ now' = now
      BY <2>6 DEF RemoteRelease, ReleaseNothing, Operation, Owner
    <3>2. m = n /\ lease[m].owner = r
      BY <3>1, OperationKeeps
    <3> QED
      BY <2>6, <3>2 DEF Ends
  <2>7. CASE Broadcast \/ Tick \/ \E n \in Memo : Wake(n) \/ Announce(n)
    BY <2>7 DEF Broadcast, Tick, Wake, Announce, registry
  <2>8. ASSUME NEW w \in woken, Expire(w)
        PROVE  FALSE
    <3>1. now' = now /\ Live(m)
      BY <2>8 DEF Expire, Live
    <3> QED
      BY <2>8, <3>1 DEF Expire, TypeOK
  <2> QED
    BY <2>1, <2>2, <2>3, <2>4, <2>5, <2>6, <2>7, <2>8 DEF Next, SocketStep, RemoteStep, Expiry
<1> QED
  BY <1>1, TypeCorrect, PTL DEF Spec, LiveLeaseKept

-----------------------------------------------------------------------------
(* A claim that outlived its lease is always about to be cleared.            *)

Matches(s, m) == lease[m].owner = s /\ lease[m].gen = claims[s][m].gen

Doomed(s, m) ==
    \/ m \in announcing
    \/ \E i \in DOMAIN callbacks :
         callbacks[i].memo = m /\ ~(callbacks[i].owner = s /\ callbacks[i].gen = claims[s][m].gen)

LEMMA AppendKeeps ==
    ASSUME NEW S, NEW q \in Seq(S), NEW x
    PROVE  /\ \A i \in DOMAIN q : i \in DOMAIN Append(q, x) /\ Append(q, x)[i] = q[i]
           /\ Len(q) + 1 \in DOMAIN Append(q, x) /\ Append(q, x)[Len(q) + 1] = x
OBVIOUS

LEMMA ConcatKeeps ==
    ASSUME NEW S, NEW q \in Seq(S), NEW r \in Seq(S)
    PROVE  /\ \A i \in DOMAIN q : i \in DOMAIN (q \o r) /\ (q \o r)[i] = q[i]
           /\ \A i \in DOMAIN r : Len(q) + i \in DOMAIN (q \o r) /\ (q \o r)[Len(q) + i] = r[i]
OBVIOUS

LEMMA ClaimFrame ==
    ASSUME TypeOK, TypeOK', NEW s \in Socket, NEW n \in Memo,
           claims'[s][n] = claims[s][n], lease'[n].owner = lease[n].owner, lease'[n].gen = lease[n].gen,
           announcing \subseteq announcing',
           \A i \in DOMAIN callbacks : i \in DOMAIN callbacks' /\ callbacks'[i] = callbacks[i],
           Matches(s, n) \/ Doomed(s, n)
    PROVE  Matches(s, n)' \/ Doomed(s, n)'
BY DEF Matches, Doomed

\* An operation of o on m leaves alone, or dooms, every claim but its own.
LEMMA ClaimOperation ==
    ASSUME TypeOK, TypeOK', NEW m \in Memo, NEW o \in Owner, Operation(m, o),
           announcing' = announcing,
           NEW s \in Socket, NEW n \in Memo, ~(s = o /\ n = m),
           claims'[s][n] = claims[s][n],
           Matches(s, n) \/ Doomed(s, n)
    PROVE  Matches(s, n)' \/ Doomed(s, n)'
<1>1. CASE n # m \/ Renew(m, o) \/ UNCHANGED <<registry, callbacks>>
  <2>1. lease'[n].owner = lease[n].owner /\ lease'[n].gen = lease[n].gen
    <3>1. CASE UNCHANGED <<registry, callbacks>>
      BY <3>1 DEF registry
    <3>2. CASE Renew(m, o)
      <4>1. lease' = [lease EXCEPT ![m] = [owner |-> o, gen |-> lease[m].gen, expires |-> now + TTL]]
            /\ lease[m].owner = o
        BY <3>2 DEF Renew, Extend, HeldBy
      <4> QED
        BY <4>1 DEF TypeOK
    <3>3. CASE n # m /\ Grant(m, o)
      <4>1. \E new : lease' = [lease EXCEPT ![m] = new]
        BY <3>3 DEF Grant, Extend
      <4> QED
        BY <3>3, <4>1 DEF TypeOK
    <3>4. CASE n # m /\ Release(m, o)
      <4>1. \E new : lease' = [lease EXCEPT ![m] = new]
        BY <3>4 DEF Release
      <4> QED
        BY <3>4, <4>1 DEF TypeOK
    <3> QED
      BY <1>1, <3>1, <3>2, <3>3, <3>4 DEF Operation
  <2>2. \A i \in DOMAIN callbacks : i \in DOMAIN callbacks' /\ callbacks'[i] = callbacks[i]
    <3>1. callbacks' = callbacks \/ \E x : callbacks' = Append(callbacks, x)
      BY DEF Operation, Renew, Grant, Release, Notify
    <3>2. callbacks \in Seq(Notice)
      BY DEF TypeOK
    <3> QED
      BY <3>1, <3>2, AppendKeeps
  <2> QED
    BY <2>1, <2>2, ClaimFrame
<1>2. CASE n = m /\ Grant(m, o)
  <2>1. /\ Len(callbacks) + 1 \in DOMAIN callbacks'
        /\ callbacks'[Len(callbacks) + 1] = Taken(m, o, generation'[m])
    BY <1>2, AppendKeeps DEF Grant, Notify, TypeOK
  <2> QED
    BY <1>2, <2>1 DEF Doomed, Taken
<1>3. CASE n = m /\ Release(m, o)
  <2>1. /\ Len(callbacks) + 1 \in DOMAIN callbacks'
        /\ callbacks'[Len(callbacks) + 1] = Freed(m)
    BY <1>3, AppendKeeps DEF Release, Notify, TypeOK
  <2>2. s # NoOwner
    BY LockAssumption DEF LockAssumption
  <2> QED
    BY <1>3, <2>1, <2>2 DEF Doomed, Freed
<1> QED
  BY <1>1, <1>2, <1>3 DEF Operation

LEMMA ClaimStep ==
    ASSUME TypeOK, TypeOK', ClaimInv, [Next]_vars
    PROVE  ClaimInv'
<1> SUFFICES ASSUME NEW s \in Socket, NEW n \in Memo, claims'[s][n] # NoClaim
             PROVE  Matches(s, n)' \/ Doomed(s, n)'
  BY DEF ClaimInv, Matches, Doomed
<1>1. claims[s][n] # NoClaim => Matches(s, n) \/ Doomed(s, n)
  BY DEF ClaimInv, Matches, Doomed
<1>2. CASE UNCHANGED <<lease, announcing, callbacks, claims>>
  BY <1>1, <1>2, ClaimFrame
<1>3. ASSUME NEW u \in Socket, NEW m \in Memo,
             JoinMemo(u, m) \/ AskLock(u, m) \/ DenyAccess(u, m) \/ Save(u, m)
      PROVE  Matches(s, n)' \/ Doomed(s, n)'
  BY <1>2, <1>3 DEF JoinMemo, AskLock, DenyAccess, Save, registry
<1>4. ASSUME NEW u \in Socket, NEW m \in Memo, FinishLock(u, m)
      PROVE  Matches(s, n)' \/ Doomed(s, n)'
  <2>1. Operation(m, u) /\ u \in Owner /\ announcing' = announcing
    BY <1>4 DEF FinishLock, Operation, Owner
  <2>2. CASE ~(s = u /\ n = m)
    <3>1. claims'[s][n] = claims[s][n]
      BY <1>4, <2>2 DEF FinishLock, TypeOK
    <3> QED
      BY <1>1, <2>1, <2>2, <3>1, ClaimOperation
  <2>3. CASE s = u /\ n = m
    <3>1. /\ Renew(m, u) \/ Grant(m, u)
          /\ claims'[s][n].gen = lease'[m].gen
      BY <1>4, <2>3 DEF FinishLock, TypeOK
    <3> QED
      BY <2>1, <2>3, <3>1, GainedLease DEF Matches
  <2> QED
    BY <2>2, <2>3
<1>5. ASSUME NEW u \in Socket, NEW m \in Memo, UnlockMemo(u, m) \/ LeaveMemo(u, m)
      PROVE  Matches(s, n)' \/ Doomed(s, n)'
  <2>1. DropLock(u, m) /\ announcing' = announcing /\ u \in Owner
    BY <1>5 DEF UnlockMemo, LeaveMemo, Owner
  <2>2. CASE claims[u][m] = NoClaim
    BY <1>2, <2>1, <2>2 DEF DropLock, registry
  <2>3. CASE claims[u][m] # NoClaim
    <3>1. Operation(m, u) /\ claims' = [claims EXCEPT ![u][m] = NoClaim]
      BY <2>1, <2>3 DEF DropLock, ReleaseNothing, Operation
    <3>2. ~(s = u /\ n = m) /\ claims'[s][n] = claims[s][n]
      BY <3>1 DEF TypeOK
    <3> QED
      BY <1>1, <2>1, <3>1, <3>2, ClaimOperation
  <2> QED
    BY <2>2, <2>3
<1>6. ASSUME NEW u \in Socket, Disconnect(u)
      PROVE  Matches(s, n)' \/ Doomed(s, n)'
  <2> DEFINE held == {m \in Memo : claims[u][m] # NoClaim /\ HeldBy(m, u)}
             freed(order) == [i \in DOMAIN order |-> Freed(order[i])]
  <2>1. PICK order \in [1 .. Cardinality(held) -> held] :
            /\ \A m \in held : \E i \in DOMAIN order : order[i] = m
            /\ callbacks' = callbacks \o freed(order)
    BY <1>6 DEF Disconnect
  <2>2. Cardinality(held) \in Nat
    BY LockAssumption, FS_Subset, FS_CardinalityType, held \in SUBSET Memo DEF LockAssumption
  <2>3. PICK q \in Seq(Notice) :
            /\ callbacks' = callbacks \o q
            /\ \A m \in held : \E i \in DOMAIN q : q[i] = Freed(m)
    <3>1. \A m \in held : Freed(m) \in Notice
      BY DEF Freed, Notice
    <3> HIDE DEF held
    <3>2. freed(order) \in Seq(Notice)
      BY <2>2, <3>1
    <3>3. \A m \in held : \E i \in DOMAIN freed(order) : freed(order)[i] = Freed(m)
      BY <2>1
    <3> QED
      BY <2>1, <3>2, <3>3
  <2>4. callbacks \in Seq(Notice)
    BY DEF TypeOK
  <2>5. claims'[s][n] = claims[s][n]
    BY <1>6 DEF Disconnect, TypeOK
  <2>6. announcing' = announcing
    BY <1>6 DEF Disconnect
  <2>7. CASE n \in held
    <3>1. PICK i \in DOMAIN q : q[i] = Freed(n)
      BY <2>3, <2>7
    <3>2. Len(callbacks) + i \in DOMAIN callbacks' /\ callbacks'[Len(callbacks) + i] = Freed(n)
      BY <2>3, <2>4, <3>1, ConcatKeeps
    <3>3. s # NoOwner
      BY LockAssumption DEF LockAssumption
    <3> QED
      BY <3>2, <3>3 DEF Doomed, Freed
  <2>8. CASE n \notin held
    <3>1. lease'[n] = lease[n]
      BY <1>6, <2>8 DEF Disconnect
    <3>2. \A i \in DOMAIN callbacks : i \in DOMAIN callbacks' /\ callbacks'[i] = callbacks[i]
      BY <2>3, <2>4, ConcatKeeps
    <3> QED
      BY <1>1, <2>5, <2>6, <3>1, <3>2, ClaimFrame
  <2> QED
    BY <2>7, <2>8
<1>7. ASSUME NEW r \in Remote, NEW m \in Memo, RemoteAcquire(r, m) \/ RemoteRelease(r, m)
      PROVE  Matches(s, n)' \/ Doomed(s, n)'
  <2>1. /\ Operation(m, r) /\ r \in Owner
        /\ announcing' = announcing /\ claims' = claims
    BY <1>7 DEF RemoteAcquire, RemoteRelease, ReleaseNothing, Operation, Owner
  <2>2. s # r
    BY LockAssumption DEF LockAssumption
  <2> QED
    BY <1>1, <2>1, <2>2, ClaimOperation
<1>8. CASE Broadcast
  <2> DEFINE h == Head(callbacks)
  <2>1. /\ callbacks \in Seq(Notice) /\ callbacks # << >>
        /\ callbacks' = Tail(callbacks) /\ UNCHANGED <<lease, announcing>>
    BY <1>8 DEF Broadcast, registry, TypeOK
  <2>2. h.memo \in Memo
    <3>1. h \in Notice
      BY <2>1
    <3> QED
      BY <3>1 DEF Notice
  <2>3. /\ claims'[s][n] = claims[s][n]
        /\ h.memo = n => h.owner = s /\ h.gen = claims[s][n].gen
    BY <1>8, <2>2 DEF Broadcast, TypeOK
  <2>4. CASE Matches(s, n)
    BY <2>1, <2>3, <2>4 DEF Matches
  <2>5. CASE Doomed(s, n)
    <3>1. CASE n \in announcing
      BY <2>1, <3>1 DEF Doomed
    <3>2. CASE n \notin announcing
      <4>1. PICK i \in DOMAIN callbacks :
                /\ callbacks[i].memo = n
                /\ ~(callbacks[i].owner = s /\ callbacks[i].gen = claims[s][n].gen)
        BY <2>5, <3>2 DEF Doomed
      <4>2. i # 1
        BY <2>1, <2>3, <4>1
      <4>3. i - 1 \in DOMAIN callbacks' /\ callbacks'[i - 1] = callbacks[i]
        BY <2>1, <4>2
      <4> QED
        BY <2>3, <4>1, <4>3 DEF Doomed
    <3> QED
      BY <3>1, <3>2
  <2> QED
    BY <1>1, <2>3, <2>4, <2>5
<1>9. CASE Tick \/ \E m \in Memo : Wake(m)
  BY <1>2, <1>9 DEF Tick, Wake, registry
<1>10. ASSUME NEW m \in Memo, Announce(m)
       PROVE  Matches(s, n)' \/ Doomed(s, n)'
  <2>1. /\ claims' = claims /\ lease' = lease /\ announcing' = announcing \ {m}
        /\ Notify(Freed(m))
    BY <1>10 DEF Announce, registry
  <2>2. /\ \A i \in DOMAIN callbacks : i \in DOMAIN callbacks' /\ callbacks'[i] = callbacks[i]
        /\ Len(callbacks) + 1 \in DOMAIN callbacks' /\ callbacks'[Len(callbacks) + 1] = Freed(m)
    BY <2>1, AppendKeeps DEF Notify, TypeOK
  <2>3. s # NoOwner
    BY LockAssumption DEF LockAssumption
  <2>4. CASE n = m
    BY <2>2, <2>3, <2>4 DEF Doomed, Freed
  <2>5. CASE n # m
    BY <1>1, <2>1, <2>2, <2>5 DEF Matches, Doomed
  <2> QED
    BY <2>4, <2>5
<1>11. ASSUME NEW w \in woken, Expire(w)
       PROVE  Matches(s, n)' \/ Doomed(s, n)'
  <2>1. claims' = claims /\ callbacks' = callbacks /\ announcing \subseteq announcing'
    BY <1>11 DEF Expire
  <2>2. lease'[n] = lease[n] \/ n \in announcing'
    BY <1>11 DEF Expire, TypeOK
  <2> QED
    BY <1>1, <2>1, <2>2 DEF Matches, Doomed
<1>12. CASE UNCHANGED vars
  BY <1>2, <1>12 DEF vars, registry
<1> QED
  BY <1>3, <1>4, <1>5, <1>6, <1>7, <1>8, <1>9, <1>10, <1>11, <1>12
     DEF Next, SocketStep, RemoteStep, Expiry

LEMMA ClaimInit == Init => ClaimInv
BY DEF Init, ClaimInv

\* A claim that outlives its lease has a notice on its way that clears it.
THEOREM ClaimsDoomed == Spec => []ClaimInv
BY TypeCorrect, TypeInit, TypeStep, ClaimInit, ClaimStep, PTL DEF Spec

\* Once all notices are delivered, no socket believes it holds a memo that the
\* registry gave to another, or took back.
THEOREM ClaimsFollowRegistry == Spec => []ClaimsSettle
<1>1. ClaimInv => ClaimsSettle
  BY DEF ClaimInv, ClaimsSettle
<1> QED
  BY <1>1, ClaimsDoomed, PTL

-----------------------------------------------------------------------------
(* The registry implements FencedLease.                                      *)

\* No lease runs for longer than TTL from now.
Term == \A m \in Memo : lease[m] # NoLease => lease[m].expires <= now + TTL

promised == <<now, Holder, Until, generation, written>>

LEMMA HolderIs ==
    ASSUME TypeOK, NEW m \in Memo
    PROVE  /\ Holder[m] = IF Live(m) THEN lease[m].owner ELSE NoOwner
           /\ Until[m] = IF Live(m) THEN lease[m].expires ELSE 0
           /\ Live(m) => Holder[m] \in Owner /\ Holder[m] # NoOwner
<1>1. /\ Holder[m] = IF Live(m) THEN lease[m].owner ELSE NoOwner
      /\ Until[m] = IF Live(m) THEN lease[m].expires ELSE 0
  BY DEF Holder, Until
<1>2. NoOwner \notin Owner
  BY LockAssumption DEF LockAssumption, Owner
<1> QED
  BY <1>1, <1>2, HolderType DEF Live, Lease

\* A memo whose lease stays is seen the same.
LEMMA SameView ==
    ASSUME now' = now, NEW m \in Memo, lease'[m] = lease[m] \/ (~Live(m) /\ ~Live(m)')
    PROVE  Holder'[m] = Holder[m] /\ Until'[m] = Until[m]
<1>1. CASE lease'[m] = lease[m]
  BY <1>1 DEF Holder, Until, Live
<1>2. CASE ~Live(m) /\ ~Live(m)'
  <2>1. Holder[m] = NoOwner /\ Until[m] = 0
    BY <1>2 DEF Holder, Until
  <2>2. Holder'[m] = NoOwner /\ Until'[m] = 0
    BY <1>2 DEF Holder, Until
  <2> QED
    BY <2>1, <2>2
<1> QED
  BY <1>1, <1>2

LEMMA SameViews ==
    ASSUME now' = now, \A m \in Memo : lease'[m] = lease[m] \/ (~Live(m) /\ ~Live(m)')
    PROVE  UNCHANGED <<Holder, Until>>
<1>1. \A m \in Memo : Holder'[m] = Holder[m] /\ Until'[m] = Until[m]
  BY SameView
<1>2. /\ Holder' = [m \in Memo |-> Holder'[m]] /\ Holder = [m \in Memo |-> Holder[m]]
      /\ Until' = [m \in Memo |-> Until'[m]] /\ Until = [m \in Memo |-> Until[m]]
  BY DEF Holder, Until
<1> QED
  BY <1>1, <1>2

\* What an operation does to the lease of another memo: nothing.
LEMMA OtherViews ==
    ASSUME now' = now, written' = written, NEW m \in Memo,
           \A n \in Memo \ {m} : lease'[n] = lease[n]
    PROVE  Promise!OnlyLeaseOf(m)
BY SameView DEF Promise!OnlyLeaseOf

LEMMA PromisedRenew ==
    ASSUME TypeOK, GenerationInv, Term, NEW m \in Memo, NEW o \in Owner, Renew(m, o),
           UNCHANGED <<now, written>>
    PROVE  Promise!Renew(m, o)
<1>1. /\ lease[m] # NoLease /\ lease[m].owner = o /\ lease[m].gen = generation[m]
      /\ lease[m].expires > now /\ lease[m].expires <= now + TTL
  BY DEF Renew, HeldBy, Live, GenerationInv, Term
<1>2. lease[m].expires \in Nat /\ now \in Nat /\ now + TTL \in Nat
  BY <1>1, HolderType, LockAssumption DEF TypeOK, LockAssumption
<1>3. /\ lease'[m] = [owner |-> o, gen |-> generation[m], expires |-> now + TTL]
      /\ \A n \in Memo \ {m} : lease'[n] = lease[n]
      /\ generation' = generation
  BY <1>1 DEF Renew, Extend, TypeOK
<1>4. lease'[m] # NoLease /\ lease'[m].expires > now'
  <2>1. o # NoOwner
    BY LockAssumption DEF LockAssumption, Owner
  <2>2. lease'[m].owner = o /\ lease'[m].expires = now + TTL
    BY <1>3
  <2> QED
    BY <1>1, <1>2, <2>1, <2>2 DEF NoLease
<1>5. Holder[m] = o /\ Until[m] = lease[m].expires
  BY <1>1 DEF Holder, Until, Live
<1>6. Holder'[m] = o /\ Until'[m] = now + TTL
  BY <1>3, <1>4 DEF Holder, Until, Live
<1>7. Until'[m] >= Until[m]
  BY <1>1, <1>2, <1>5, <1>6
<1> QED
  BY <1>3, <1>5, <1>6, <1>7, OtherViews DEF Promise!Renew

LEMMA PromisedGrant ==
    ASSUME TypeOK, NEW m \in Memo, NEW o \in Owner, Grant(m, o), UNCHANGED <<now, written>>
    PROVE  Promise!Grant(m, o)
<1>1. /\ lease'[m] = [owner |-> o, gen |-> generation[m] + 1, expires |-> now + TTL]
      /\ \A n \in Memo \ {m} : lease'[n] = lease[n]
      /\ generation' = [generation EXCEPT ![m] = @ + 1]
  BY DEF Grant, Extend, TypeOK
<1>2. Holder[m] = NoOwner
  BY DEF Grant, Holder
<1>3. Promise!OnlyLeaseOf(m)
  BY <1>1, OtherViews
<1>4. CASE Live(m)'
  <2>1. Holder'[m] = lease'[m].owner /\ Until'[m] = lease'[m].expires
    BY <1>4 DEF Holder, Until
  <2>2. Holder'[m] = o /\ Until'[m] > now
    BY <1>1, <1>4, <2>1 DEF Live
  <2> QED
    BY <1>1, <1>2, <1>3, <2>2 DEF Promise!Grant
<1>5. CASE ~Live(m)'
  <2>1. UNCHANGED <<Holder, Until>>
    BY <1>1, <1>5, SameViews DEF Grant
  <2> QED
    BY <1>1, <1>2, <1>3, <2>1 DEF Promise!Grant
<1> QED
  BY <1>4, <1>5

\* Leases that were given up were the holder's and ran.
LEMMA PromisedGiveUp ==
    ASSUME UNCHANGED <<now, generation, written>>, NEW o,
           \A m \in Memo : lease'[m] = lease[m] \/ (HeldBy(m, o) /\ lease'[m] = NoLease)
    PROVE  Promise!GiveUp(o)
<1>1. ASSUME NEW m \in Memo, lease'[m] # lease[m]
      PROVE  Holder[m] = o /\ Holder'[m] = NoOwner
  <2>1. HeldBy(m, o) /\ lease'[m] = NoLease
    BY <1>1
  <2> QED
    BY <2>1 DEF HeldBy, Live, Holder
<1> QED
  BY <1>1, SameView DEF Promise!GiveUp

LEMMA PromisedOperation ==
    ASSUME TypeOK, GenerationInv, Term, NEW m \in Memo, NEW o \in Owner, Operation(m, o),
           UNCHANGED <<now, written>>
    PROVE  [Promise!Next]_promised
<1>1. CASE Renew(m, o)
  BY <1>1, PromisedRenew DEF Promise!Next
<1>2. CASE Grant(m, o)
  BY <1>2, PromisedGrant DEF Promise!Next
<1>3. CASE Release(m, o)
  BY <1>3, PromisedGiveUp DEF Release, TypeOK, Promise!Next
<1>4. CASE UNCHANGED <<registry, callbacks>>
  BY <1>4, SameViews DEF registry, promised
<1> QED
  BY <1>1, <1>2, <1>3, <1>4 DEF Operation

LEMMA PromisedTick ==
    ASSUME TypeOK, Tick
    PROVE  Promise!Tick
<1>1. now' = now + 1 /\ UNCHANGED <<lease, generation, written>> /\ now \in Nat
  BY DEF Tick, registry, TypeOK
<1>2. ASSUME NEW m \in Memo
      PROVE  IF Holder[m] # NoOwner /\ Until[m] > now'
             THEN Holder'[m] = Holder[m] /\ Until'[m] = Until[m]
             ELSE Holder'[m] = NoOwner
  <2>1. CASE Live(m) /\ lease[m].expires > now'
    <3>1. Live(m)'
      BY <1>1, <2>1 DEF Live
    <3>2. Holder[m] = lease[m].owner /\ Until[m] = lease[m].expires /\ Holder[m] # NoOwner
      BY <2>1, HolderIs
    <3>3. Holder'[m] = lease[m].owner /\ Until'[m] = lease[m].expires
      BY <1>1, <3>1 DEF Holder, Until
    <3> QED
      BY <2>1, <3>2, <3>3
  <2>2. CASE Live(m) /\ ~(lease[m].expires > now')
    <3>1. ~Live(m)'
      BY <1>1, <2>2 DEF Live
    <3>2. Holder'[m] = NoOwner
      BY <3>1 DEF Holder
    <3> QED
      BY <2>2, <3>2, HolderIs
  <2>3. CASE ~Live(m)
    <3>1. ~Live(m)'
      <4>1. CASE lease[m] = NoLease
        BY <1>1, <4>1 DEF Live
      <4>2. CASE lease[m] # NoLease
        BY <1>1, <2>3, <4>2, HolderType DEF Live
      <4> QED
        BY <4>1, <4>2
    <3>2. Holder'[m] = NoOwner /\ Holder[m] = NoOwner
      BY <2>3, <3>1 DEF Holder
    <3> QED
      BY <3>2
  <2> QED
    BY <2>1, <2>2, <2>3
<1> QED
  BY <1>1, <1>2 DEF Promise!Tick

LEMMA PromisedExpire ==
    ASSUME TypeOK, NEW w \in woken, Expire(w)
    PROVE  UNCHANGED promised
<1>1. w.memo \in Memo /\ UNCHANGED <<now, generation, written>>
  BY DEF TypeOK, Expire
<1>2. ASSUME NEW m \in Memo
      PROVE  lease'[m] = lease[m] \/ (~Live(m) /\ ~Live(m)')
  <2>1. CASE lease' = [lease EXCEPT ![w.memo] = NoLease] /\ ~Live(w.memo)
    BY <1>1, <2>1 DEF Live, TypeOK
  <2>2. CASE lease' = lease
    BY <2>2
  <2> QED
    BY <2>1, <2>2 DEF Expire
<1> QED
  BY <1>1, <1>2, SameViews DEF promised

LEMMA PromisedStep ==
    ASSUME TypeOK, GenerationInv, Term, [Next]_vars
    PROVE  [Promise!Next]_promised
<1>1. CASE UNCHANGED <<now, lease, generation, written>>
  BY <1>1, SameViews DEF promised
<1>2. ASSUME NEW s \in Socket, NEW m \in Memo,
             JoinMemo(s, m) \/ AskLock(s, m) \/ DenyAccess(s, m) \/ FinishLock(s, m)
                \/ UnlockMemo(s, m) \/ LeaveMemo(s, m)
      PROVE  [Promise!Next]_promised
  <2>1. Operation(m, s) /\ s \in Owner /\ UNCHANGED <<now, written>>
    BY <1>2 DEF JoinMemo, AskLock, DenyAccess, FinishLock, UnlockMemo, LeaveMemo,
                DropLock, ReleaseNothing, Operation, Owner, registry
  <2> QED
    BY <2>1, PromisedOperation
<1>3. ASSUME NEW s \in Socket, NEW m \in Memo, Save(s, m)
      PROVE  [Promise!Next]_promised
  <2>1. UNCHANGED <<now, lease, generation>>
    BY <1>3 DEF Save, registry
  <2>2. UNCHANGED <<Holder, Until>>
    BY <2>1, SameViews
  <2>3. Live(m) /\ claims[s][m].gen = generation[m]
    BY <1>3 DEF Save, OwnsValidLease, HeldBy, Live, GenerationInv
  <2>4. written' = [written EXCEPT ![m] = generation[m]]
    BY <1>3, <2>3 DEF Save
  <2> QED
    BY <2>1, <2>2, <2>3, <2>4, HolderIs DEF Promise!Next, Promise!Write
<1>4. ASSUME NEW s \in Socket, Disconnect(s)
      PROVE  [Promise!Next]_promised
  <2>1. /\ UNCHANGED <<now, generation, written>>
        /\ \A m \in Memo : lease'[m] = lease[m] \/ (HeldBy(m, s) /\ lease'[m] = NoLease)
    BY <1>4 DEF Disconnect
  <2> QED
    BY <2>1, PromisedGiveUp DEF Promise!Next, Owner
<1>5. ASSUME NEW r \in Remote, NEW m \in Memo, RemoteAcquire(r, m) \/ RemoteRelease(r, m)
      PROVE  [Promise!Next]_promised
  <2>1. Operation(m, r) /\ r \in Owner /\ UNCHANGED <<now, written>>
    BY <1>5 DEF RemoteAcquire, RemoteRelease, ReleaseNothing, Operation, Owner
  <2> QED
    BY <2>1, PromisedOperation
<1>6. CASE Broadcast \/ \E m \in Memo : Wake(m) \/ Announce(m)
  BY <1>1, <1>6 DEF Broadcast, Wake, Announce, registry
<1>7. CASE Tick
  BY <1>7, PromisedTick DEF Promise!Next
<1>8. ASSUME NEW w \in woken, Expire(w)
      PROVE  [Promise!Next]_promised
  BY <1>8, PromisedExpire
<1>9. CASE UNCHANGED vars
  BY <1>1, <1>9 DEF vars, registry
<1> QED
  BY <1>2, <1>3, <1>4, <1>5, <1>6, <1>7, <1>8, <1>9 DEF Next, SocketStep, RemoteStep, Expiry

LEMMA TermStep ==
    ASSUME TypeOK, Term, [Next]_vars
    PROVE  Term'
<1>1. now \in Nat /\ TTL \in Nat /\ now' \in Nat /\ now <= now'
  <2>1. ASSUME NEW s \in Socket, SocketStep(s) PROVE now' = now
    BY <2>1 DEF SocketStep, JoinMemo, AskLock, DenyAccess, FinishLock, UnlockMemo,
                LeaveMemo, Save, Disconnect
  <2>2. ASSUME NEW r \in Remote, RemoteStep(r) PROVE now' = now
    BY <2>2 DEF RemoteStep, RemoteAcquire, RemoteRelease
  <2>3. ASSUME Broadcast PROVE now' = now
    BY <2>3 DEF Broadcast
  <2>4. ASSUME Expiry PROVE now' = now
    BY <2>4 DEF Expiry, Wake, Expire, Announce
  <2>5. ASSUME UNCHANGED vars PROVE now' = now
    BY <2>5 DEF vars
  <2>6. ASSUME Tick PROVE now' = now + 1
    BY <2>6 DEF Tick
  <2>7. now \in Nat /\ TTL \in Nat
    BY LockAssumption DEF LockAssumption, TypeOK
  <2> QED
    BY <2>1, <2>2, <2>3, <2>4, <2>5, <2>6, <2>7 DEF Next
<1>2. ASSUME NEW m \in Memo, lease'[m] # NoLease
      PROVE  lease'[m] = lease[m] \/ lease'[m].expires = now + TTL
  <2>1. ASSUME NEW n \in Memo, NEW o \in Owner, Operation(n, o)
        PROVE  lease'[m] = lease[m] \/ lease'[m].expires = now + TTL
    BY <1>2, <2>1 DEF Operation, Renew, Grant, Extend, Release, registry, TypeOK
  <2>2. ASSUME NEW s \in Socket, NEW n \in Memo,
               JoinMemo(s, n) \/ AskLock(s, n) \/ DenyAccess(s, n) \/ FinishLock(s, n)
                  \/ UnlockMemo(s, n) \/ LeaveMemo(s, n)
        PROVE  Operation(n, s) /\ s \in Owner
    BY <2>2 DEF JoinMemo, AskLock, DenyAccess, FinishLock, UnlockMemo, LeaveMemo,
                DropLock, ReleaseNothing, Operation, Owner, registry
  <2>3. ASSUME NEW r \in Remote, NEW n \in Memo, RemoteAcquire(r, n) \/ RemoteRelease(r, n)
        PROVE  Operation(n, r) /\ r \in Owner
    BY <2>3 DEF RemoteAcquire, RemoteRelease, ReleaseNothing, Operation, Owner
  <2>4. ASSUME NEW s \in Socket, (\E n \in Memo : Save(s, n)) \/ Disconnect(s)
        PROVE  lease'[m] = lease[m] \/ lease'[m].expires = now + TTL
    BY <1>2, <2>4 DEF Save, Disconnect, registry
  <2>5. CASE Broadcast \/ Tick \/ UNCHANGED vars \/ \E n \in Memo : Wake(n) \/ Announce(n)
    BY <2>5 DEF Broadcast, Tick, vars, Wake, Announce, registry
  <2>6. ASSUME NEW w \in woken, Expire(w)
        PROVE  lease'[m] = lease[m] \/ lease'[m].expires = now + TTL
    BY <1>2, <2>6 DEF Expire, TypeOK
  <2> QED
    BY <2>1, <2>2, <2>3, <2>4, <2>5, <2>6 DEF Next, SocketStep, RemoteStep, Expiry
<1> QED
  <2> SUFFICES ASSUME NEW m \in Memo, lease'[m] # NoLease
               PROVE  lease'[m].expires <= now' + TTL
    BY DEF Term
  <2>1. CASE lease'[m] = lease[m]
    BY <1>1, <2>1, HolderType DEF Term
  <2>2. CASE lease'[m].expires = now + TTL
    BY <1>1, <2>2
  <2> QED
    BY <1>2, <2>1, <2>2

LEMMA PromisedInit == Init => Promise!Init /\ Term
BY DEF Init, Promise!Init, Holder, Until, Live, Term

\* Whoever saves a memo sees a lock with fenced leases: the registry, its timer threads,
\* the sockets and the laptop's owners implement FencedLease.
THEOREM ImplementsLease == Spec => Fenced
<1>1. Init => Promise!Init /\ Term
  BY PromisedInit
<1>2. TypeOK /\ GenerationInv /\ Term /\ [Next]_vars => Term' /\ [Promise!Next]_promised
  BY PromisedStep, TermStep
<1> QED
  BY <1>1, <1>2, TypeCorrect, LastGeneration, PTL DEF Spec, Fenced, Promise!Spec, promised

=============================================================================
