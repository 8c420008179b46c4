------------------------- MODULE LockDelegation_proofs -------------------------
(***************************************************************************)
(* A delegated claim is backed by the server's lease for as long as it is  *)
(* trusted, for any tabs, lease times and bounds with                      *)
(* Timeout + Validity <= TTL, and whatever happens to the calls.           *)
(***************************************************************************)
EXTENDS LockDelegation, TLAPS

RegistryTypes ==
    /\ lease \in [Node -> Lease \cup {NoLease}]
    /\ grants \in [Node -> Nat]
    /\ notices \in [Node -> Seq(Notice)]

\* What a registry does when it is asked.
Operation(n, o) == Acquire(n, o) \/ Denied(n, o) \/ Release(n, o) \/ NotHeld(n, o)

---------------------------------------------------------------------------
(* Types *)

LEMMA TellType ==
    ASSUME TypeOK, NEW n \in Node, NEW o \in Owner \cup {NoOwner}, NEW g \in Nat, Tell(n, o, g)
    PROVE  notices' \in [Node -> Seq(Notice)]
<1>1. [owner |-> o, gen |-> g] \in Notice
    BY DEF Notice
<1>2. Append(notices[n], [owner |-> o, gen |-> g]) \in Seq(Notice)
    BY <1>1 DEF TypeOK
<1> QED
    BY <1>2 DEF TypeOK, Tell

LEMMA FreeType ==
    ASSUME TypeOK, NEW n \in Node, Tell(n, NoOwner, 0), UNCHANGED grants,
           lease' = [lease EXCEPT ![n] = NoLease]
    PROVE  RegistryTypes'
<1>1. notices' \in [Node -> Seq(Notice)]
    BY TellType
<1> QED
    BY <1>1 DEF RegistryTypes, TypeOK

LEMMA AcquireType ==
    ASSUME TypeOK, NEW n \in Node, NEW o \in Owner, Acquire(n, o)
    PROVE  RegistryTypes'
<1>1. now + TTL \in Nat
    BY DelegationAssumption DEF TypeOK
<1>2. CASE HeldBy(n, o) /\ lease' = [lease EXCEPT ![n].expires = now + TTL]
           /\ UNCHANGED <<grants, notices>>
    <2>1. lease[n] \in Lease
        BY <1>2 DEF TypeOK, HeldBy, Live
    <2>2. [lease[n] EXCEPT !.expires = now + TTL] \in Lease
        BY <1>1, <2>1 DEF Lease
    <2> QED
        BY <1>2, <2>2 DEF TypeOK, RegistryTypes
<1>3. CASE /\ grants' = [grants EXCEPT ![n] = @ + 1]
           /\ lease' = [lease EXCEPT ![n] =
                 [owner |-> o, gen |-> grants[n] + 1, expires |-> now + TTL]]
           /\ Tell(n, o, grants[n] + 1)
    <2>1. grants[n] + 1 \in Nat \ {0}
        BY DEF TypeOK
    <2>2. [owner |-> o, gen |-> grants[n] + 1, expires |-> now + TTL] \in Lease
        BY <1>1, <2>1 DEF Lease
    <2>3. notices' \in [Node -> Seq(Notice)]
        BY <1>3, <2>1, TellType
    <2> QED
        BY <1>3, <2>1, <2>2, <2>3 DEF TypeOK, RegistryTypes
<1> QED
    BY <1>2, <1>3 DEF Acquire

LEMMA OperationType ==
    ASSUME TypeOK, NEW n \in Node, NEW o \in Owner, Operation(n, o)
    PROVE  RegistryTypes'
<1>1. CASE Acquire(n, o)
    BY <1>1, AcquireType
<1>2. CASE Release(n, o)
    BY <1>2, FreeType DEF Release
<1>3. CASE UNCHANGED registries
    BY <1>3 DEF registries, TypeOK, RegistryTypes
<1> QED
    BY <1>1, <1>2, <1>3 DEF Operation, Denied, NotHeld

LEMMA ClaimedType ==
    ASSUME TypeOK, NEW n \in Node, NEW g \in Nat \ {0}, NEW sure \in BOOLEAN
    PROVE  Claimed(n, g, sure) \in Claim
<1>1. now + Validity \in Nat
    BY DelegationAssumption DEF TypeOK
<1> QED
    BY <1>1 DEF Claimed, Claim, TrustedUntil

LEMMA CallOfType ==
    ASSUME TypeOK, NEW t \in Tab, NEW op \in {"acquire", "release"}
    PROVE  CallOf(t, op) \in Call
<1>1. Unlocking(t) \in BOOLEAN
    BY DEF Unlocking
<1> QED
    BY <1>1 DEF TypeOK, CallOf, Call

LEMMA CrossType ==
    ASSUME NEW t \in Tab, NEW S \in SUBSET Call
    PROVE  Cross(t, S) \subseteq Call
<1> SUFFICES ASSUME NEW c \in S PROVE [c EXCEPT !.crossed = @ \/ c.tab = t] \in Call
    BY DEF Cross, CrossedBy
<1>1. (c.crossed \/ c.tab = t) \in BOOLEAN
    BY Zenon
<1> QED
    BY <1>1 DEF Call

\* The lease of one who asked and is now the owner.
LEMMA GainedType ==
    ASSUME TypeOK, NEW n \in Node, NEW o \in Owner, Operation(n, o), lease'[n].owner = o
    PROVE  lease'[n].gen \in Nat \ {0}
<1>1. lease'[n] \in Lease \cup {NoLease}
    BY OperationType DEF RegistryTypes
<1>2. o # NoOwner
    BY DelegationAssumption DEF Owner
<1> QED
    BY <1>1, <1>2 DEF Lease, NoLease

LEMMA AcquiredOwner ==
    ASSUME TypeOK, NEW n \in Node, NEW o \in Owner, Acquire(n, o)
    PROVE  lease'[n].owner = o
<1>1. CASE HeldBy(n, o) /\ lease' = [lease EXCEPT ![n].expires = now + TTL]
    <2>1. lease[n] \in Lease /\ lease[n].owner = o
        BY <1>1 DEF TypeOK, HeldBy, Live
    <2> QED
        BY <1>1, <2>1 DEF TypeOK, Lease
<1>2. CASE lease' = [lease EXCEPT ![n] =
               [owner |-> o, gen |-> grants[n] + 1, expires |-> now + TTL]]
    BY <1>2 DEF TypeOK
<1> QED
    BY <1>1, <1>2 DEF Acquire

LEMMA ServedType ==
    ASSUME TypeOK, NEW c \in Call, Serve(c)
    PROVE  Served(c) \in Call /\ RegistryTypes'
<1>1. c.tab \in Owner /\ c.op \in {"acquire", "release"}
    BY DEF Call, Owner
<1>2. "server" \in Node /\ Operation("server", c.tab)
    BY DEF Serve, Operation, Node
<1>3. RegistryTypes'
    BY <1>1, <1>2, OperationType
<1>4. CASE c.op = "acquire" /\ lease'["server"].owner = c.tab
    <2>1. lease'["server"].gen \in Nat
        BY <1>1, <1>2, <1>4, GainedType
    <2>2. Served(c) = [c EXCEPT !.ans = "yes", !.gen = lease'["server"].gen]
        BY <1>4 DEF Served
    <2> DEFINE g == lease'["server"].gen
    <2> HIDE DEF g
    <2>3. g \in Nat
        BY <2>1 DEF g
    <2>4. [c EXCEPT !.ans = "yes", !.gen = g] \in Call
        BY <2>3 DEF Call
    <2> QED
        BY <1>3, <2>2, <2>4 DEF g
<1>5. CASE c.op = "acquire" /\ lease'["server"].owner # c.tab
    <2>1. Served(c) = [c EXCEPT !.ans = "no", !.gen = 0]
        BY <1>5 DEF Served
    <2>2. [c EXCEPT !.ans = "no", !.gen = 0] \in Call
        BY DEF Call
    <2> QED
        BY <1>3, <2>1, <2>2
<1>6. CASE c.op = "release"
    <2>1. Served(c) = [c EXCEPT !.ans = "yes"] \/ Served(c) = [c EXCEPT !.ans = "no"]
        BY <1>6 DEF Served
    <2> QED
        BY <1>3, <2>1 DEF Call
<1> QED
    BY <1>1, <1>4, <1>5, <1>6

\* A granted call names a generation.
Answered == \A c \in calls : c.op = "acquire" /\ c.ans = "yes" => c.gen # 0

LEMMA TypeTabs ==
    ASSUME TypeOK, NEW t \in Tab, TabStep(t)
    PROVE  TypeOK'
<1> USE DEF registries, RegistryTypes
<1>1. CASE AskRemote(t)
    <2>1. CallOf(t, "acquire") \in Call
        BY CallOfType
    <2> QED
        BY <1>1, <2>1 DEF AskRemote, TypeOK
<1>2. CASE UnlockRemote(t)
    <2>1. CallOf(t, "release") \in Call
        BY CallOfType
    <2>2. Cross(t, calls) \subseteq Call /\ Cross(t, late) \subseteq Call
        BY CrossType DEF TypeOK
    <2>3. [claims[t] EXCEPT !.sure = FALSE] \in Claim
        <3>1. claims[t] \in Claim
            BY <1>2 DEF UnlockRemote, TypeOK
        <3> QED
            BY <3>1 DEF Claim
    <2>4. claims' \in [Tab -> Claim \cup {NoClaim}]
        BY <1>2, <2>3 DEF UnlockRemote, TypeOK
    <2> QED
        BY <1>2, <2>1, <2>2, <2>4 DEF UnlockRemote, TypeOK
<1>3. CASE AskLocal(t)
    <2>1. "laptop" \in Node /\ t \in Owner /\ Operation("laptop", t)
        BY <1>3 DEF AskLocal, Operation, Node, Owner
    <2>2. RegistryTypes'
        BY <2>1, OperationType
    <2>3. claims' \in [Tab -> Claim \cup {NoClaim}]
        <3>1. CASE Acquire("laptop", t) /\ claims' = [claims EXCEPT ![t] =
                     Claimed("laptop", lease'["laptop"].gen, ~Unlocking(t))]
            <4>1. lease'["laptop"].owner = t
                BY <3>1, <2>1, AcquiredOwner
            <4>2. lease'["laptop"].gen \in Nat \ {0}
                BY <2>1, <4>1, GainedType
            <4> DEFINE sure == ~Unlocking(t)
            <4>3. sure \in BOOLEAN
                BY DEF Unlocking
            <4>4. Claimed("laptop", lease'["laptop"].gen, ~Unlocking(t)) \in Claim
                BY <2>1, <4>2, <4>3, ClaimedType
            <4> QED
                BY <3>1, <4>4 DEF TypeOK
        <3>2. CASE claims' = [claims EXCEPT ![t] = NoClaim]
            BY <3>2 DEF TypeOK
        <3> QED
            BY <1>3, <3>1, <3>2 DEF AskLocal
    <2> QED
        BY <1>3, <2>2, <2>3 DEF AskLocal, TypeOK
<1>4. CASE UnlockLocal(t)
    <2>1. "laptop" \in Node /\ t \in Owner /\ Operation("laptop", t)
        BY <1>4 DEF UnlockLocal, Operation, Node, Owner
    <2>2. RegistryTypes'
        BY <2>1, OperationType
    <2> QED
        BY <1>4, <2>2 DEF UnlockLocal, TypeOK
<1> QED
    BY <1>1, <1>2, <1>3, <1>4 DEF TabStep

LEMMA TypeCalls ==
    ASSUME TypeOK, Answered, CallStep
    PROVE  TypeOK'
<1> USE DEF registries, RegistryTypes
<1>1. ASSUME NEW c \in calls, ServerHandles(c) PROVE TypeOK'
    <2>1. c \in Call
        BY DEF TypeOK
    <2>2. Served(c) \in Call /\ RegistryTypes'
        BY <1>1, <2>1, ServedType DEF ServerHandles
    <2> QED
        BY <1>1, <2>2 DEF ServerHandles, TypeOK
<1>2. ASSUME NEW c \in calls, EndAsk(c) PROVE TypeOK'
    <2>1. c \in Call
        BY DEF TypeOK
    <2>2. CASE c.ans = "yes"
        <3> DEFINE sure == ~c.crossed
        <3>1. sure \in BOOLEAN /\ "server" \in Node
            BY DEF Node
        <3>2. c.gen \in Nat \ {0}
            BY <1>2, <2>1, <2>2 DEF EndAsk, Answered, Call
        <3>3. Claimed("server", c.gen, sure) \in Claim
            BY <3>1, <3>2, ClaimedType
        <3>4. claims' = [claims EXCEPT ![c.tab] = Claimed("server", c.gen, sure)]
            BY <1>2, <2>2 DEF EndAsk
        <3> HIDE DEF sure
        <3>5. claims' \in [Tab -> Claim \cup {NoClaim}]
            BY <3>3, <3>4 DEF TypeOK
        <3> QED
            BY <1>2, <3>5 DEF EndAsk, TypeOK
    <2>3. CASE c.ans # "yes"
        <3>1. claims' = [claims EXCEPT ![c.tab] = NoClaim]
            BY <1>2, <2>3 DEF EndAsk
        <3>2. claims' \in [Tab -> Claim \cup {NoClaim}]
            BY <3>1 DEF TypeOK
        <3> QED
            BY <1>2, <3>2 DEF EndAsk, TypeOK
    <2> QED
        BY <2>2, <2>3
<1>3. ASSUME NEW c \in calls, EndUnlock(c) PROVE TypeOK'
    <2>1. claims' \in [Tab -> Claim \cup {NoClaim}]
        BY <1>3 DEF EndUnlock, TypeOK
    <2> QED
        BY <1>3, <2>1 DEF EndUnlock, TypeOK
<1>4. ASSUME NEW c \in calls, CallFails(c) \/ CallRejected(c) PROVE TypeOK'
    <2>1. now + TTL \in Nat
        BY DelegationAssumption DEF TypeOK
    <2> QED
        BY <1>4, <2>1 DEF CallFails, CallRejected, TypeOK
<1>5. ASSUME NEW c \in late, ServerHandlesLate(c) PROVE TypeOK'
    <2>1. c \in Call
        BY DEF TypeOK
    <2>2. RegistryTypes'
        BY <1>5, <2>1, ServedType DEF ServerHandlesLate
    <2> QED
        BY <1>5, <2>2 DEF ServerHandlesLate, TypeOK
<1> QED
    BY <1>1, <1>2, <1>3, <1>4, <1>5 DEF CallStep

LEMMA TypeOthers ==
    ASSUME TypeOK,
           \/ \E n \in Node : HandleNotice(n) \/ Expire(n)
           \/ NoticeLost
           \/ \E s \in Seat : SeatAsks(s) \/ SeatUnlocks(s)
           \/ \E v \in {"online", "offline"} : DaemonSays(v)
           \/ Tick
    PROVE  TypeOK'
<1> USE DEF registries, RegistryTypes
<1>1. ASSUME NEW n \in Node, HandleNotice(n) PROVE TypeOK'
    <2>1. Tail(notices[n]) \in Seq(Notice)
        BY <1>1 DEF HandleNotice, TypeOK
    <2>2. notices' \in [Node -> Seq(Notice)]
        BY <1>1, <2>1 DEF HandleNotice, TypeOK
    <2>3. claims' \in [Tab -> Claim \cup {NoClaim}]
        BY <1>1 DEF HandleNotice, TypeOK
    <2> QED
        BY <1>1, <2>2, <2>3 DEF HandleNotice, TypeOK
<1>2. ASSUME NEW n \in Node, Expire(n) PROVE TypeOK'
    <2>1. RegistryTypes'
        BY <1>2, FreeType DEF Expire
    <2> QED
        BY <1>2, <2>1 DEF Expire, TypeOK
<1>3. ASSUME NoticeLost PROVE TypeOK'
    <2>1. "server" \in Node /\ Tail(notices["server"]) \in Seq(Notice)
        BY <1>3 DEF NoticeLost, TypeOK, Node
    <2>2. notices' \in [Node -> Seq(Notice)]
        BY <1>3, <2>1 DEF NoticeLost, TypeOK
    <2> QED
        BY <1>3, <2>2 DEF NoticeLost, TypeOK
<1>4. ASSUME NEW s \in Seat, SeatAsks(s) \/ SeatUnlocks(s) PROVE TypeOK'
    <2>1. "server" \in Node /\ s \in Owner /\ Operation("server", s)
        BY <1>4 DEF SeatAsks, SeatUnlocks, Operation, Node, Owner
    <2>2. RegistryTypes'
        BY <2>1, OperationType
    <2> QED
        BY <1>4, <2>2 DEF SeatAsks, SeatUnlocks, TypeOK
<1>5. ASSUME NEW v \in {"online", "offline"}, DaemonSays(v) PROVE TypeOK'
    BY <1>5 DEF DaemonSays, TypeOK
<1>6. ASSUME Tick PROVE TypeOK'
    BY <1>6 DEF Tick, TypeOK
<1> QED
    BY <1>1, <1>2, <1>3, <1>4, <1>5, <1>6

LEMMA AnsweredStep ==
    ASSUME TypeOK, Answered, Next
    PROVE  Answered'
<1>1. ASSUME NEW t \in Tab, AskRemote(t) PROVE Answered'
    BY <1>1 DEF AskRemote, CallOf, Answered
<1>2. ASSUME NEW t \in Tab, UnlockRemote(t) PROVE Answered'
    <2> SUFFICES ASSUME NEW c \in calls', c.op = "acquire", c.ans = "yes" PROVE c.gen # 0
        BY DEF Answered
    <2>1. PICK d \in calls : c = CrossedBy(d, t)
        BY <1>2 DEF UnlockRemote, CallOf, Cross
    <2>2. d \in Call
        BY DEF TypeOK
    <2>3. c.op = d.op /\ c.ans = d.ans /\ c.gen = d.gen
        BY <2>1, <2>2 DEF Call, CrossedBy
    <2> QED
        BY <2>3 DEF Answered
<1>3. ASSUME NEW c \in calls, ServerHandles(c) PROVE Answered'
    <2>1. c \in Call
        BY DEF TypeOK
    <2>2. Operation("server", c.tab) /\ "server" \in Node /\ c.tab \in Owner
        BY <1>3, <2>1 DEF ServerHandles, Serve, Operation, Node, Call, Owner
    <2>3. Served(c).op = "acquire" /\ Served(c).ans = "yes" => Served(c).gen # 0
        <3>1. CASE c.op = "acquire" /\ lease'["server"].owner = c.tab
            <4>1. lease'["server"].gen \in Nat \ {0}
                BY <2>2, <3>1, GainedType
            <4>2. Served(c) = [c EXCEPT !.ans = "yes", !.gen = lease'["server"].gen]
                BY <3>1 DEF Served
            <4> QED
                BY <2>1, <4>1, <4>2 DEF Call
        <3>2. CASE c.op = "acquire" /\ lease'["server"].owner # c.tab
            BY <2>1, <3>2 DEF Served, Call
        <3>3. CASE c.op # "acquire"
            BY <2>1, <3>3 DEF Served, Call
        <3> QED
            BY <3>1, <3>2, <3>3
    <2> QED
        BY <1>3, <2>3 DEF ServerHandles, Answered
<1>4. CASE calls' \subseteq calls
    BY <1>4 DEF Answered
<1>5. ASSUME NEW t \in Tab, AskLocal(t) \/ UnlockLocal(t) PROVE calls' \subseteq calls
    BY <1>5 DEF AskLocal, UnlockLocal
<1>6. ASSUME NEW c \in calls, EndAsk(c) \/ EndUnlock(c) \/ CallFails(c) \/ CallRejected(c)
      PROVE  calls' \subseteq calls
    BY <1>6 DEF EndAsk, EndUnlock, CallFails, CallRejected
<1>7. ASSUME NEW c \in late, ServerHandlesLate(c) PROVE calls' \subseteq calls
    BY <1>7 DEF ServerHandlesLate
<1>8. ASSUME NEW n \in Node, HandleNotice(n) \/ Expire(n) PROVE calls' \subseteq calls
    BY <1>8 DEF HandleNotice, Expire
<1>9. ASSUME NEW s \in Seat, SeatAsks(s) \/ SeatUnlocks(s) PROVE calls' \subseteq calls
    BY <1>9 DEF SeatAsks, SeatUnlocks
<1>10. ASSUME NoticeLost \/ Tick \/ \E v \in {"online", "offline"} : DaemonSays(v)
       PROVE  calls' \subseteq calls
    BY <1>10 DEF NoticeLost, Tick, DaemonSays
<1> QED
    BY <1>1, <1>2, <1>3, <1>4, <1>5, <1>6, <1>7, <1>8, <1>9, <1>10
    DEF Next, TabStep, CallStep

LEMMA InitTypes == Init => TypeOK /\ Answered
<1> SUFFICES ASSUME Init PROVE TypeOK /\ Answered
    OBVIOUS
<1>1. << >> \in Seq(Notice)
    OBVIOUS
<1> QED
    BY <1>1 DEF Init, TypeOK, Answered

LEMMA StepTypes == TypeOK /\ Answered /\ [Next]_vars => TypeOK' /\ Answered'
<1> SUFFICES ASSUME TypeOK, Answered, [Next]_vars PROVE TypeOK' /\ Answered'
    OBVIOUS
<1>1. CASE Next
    BY <1>1, TypeTabs, TypeCalls, TypeOthers, AnsweredStep DEF Next
<1>2. CASE UNCHANGED vars
    BY <1>2 DEF vars, registries, TypeOK, Answered
<1> QED
    BY <1>1, <1>2

\* Both registries, the claims of the laptop's tabs and the delegated calls keep
\* their shape, for any tabs, lease times and bounds (_acquire_lock, LockRegistry).
THEOREM TypeCorrect == Spec => []TypeOK
<1>1. Init => TypeOK /\ Answered
    BY InitTypes
<1>2. TypeOK /\ Answered /\ [Next]_vars => TypeOK' /\ Answered'
    BY StepTypes
<1> QED
    BY <1>1, <1>2, PTL DEF Spec

---------------------------------------------------------------------------
(* The server backs delegated claims *)

LEMMA LeaseType ==
    ASSUME TypeOK, NEW n \in Node
    PROVE  lease[n].expires \in Nat /\ now \in Nat /\ now + TTL \in Nat
<1>1. lease[n] \in Lease \cup {NoLease}
    BY DEF TypeOK
<1> QED
    BY <1>1, DelegationAssumption DEF TypeOK, Lease, NoLease

\* Somebody else's request leaves a live lease alone, and a renewal extends it.
LEMMA LiveLeaseStays ==
    ASSUME TypeOK, NEW o \in Owner, NEW x \in Nat, NEW p \in Owner,
           HeldBy("server", o), lease["server"].expires >= x, x <= now + TTL,
           Operation("server", p), p = o => ~Release("server", p)
    PROVE  lease'["server"].owner = o /\ lease'["server"].expires >= x
<1>1. "server" \in Node
    BY DEF Node
<1>2. CASE Acquire("server", p)
    <2>1. /\ HeldBy("server", p)
          /\ lease' = [lease EXCEPT !["server"].expires = now + TTL]
        BY <1>2 DEF Acquire, HeldBy
    <2>2. lease["server"] \in Lease
        BY <1>1, <2>1 DEF TypeOK, HeldBy, Live
    <2>3. lease'["server"].owner = p /\ lease'["server"].expires = now + TTL
        BY <1>1, <2>1, <2>2 DEF TypeOK, Lease, HeldBy
    <2>4. p = o
        BY <2>1 DEF HeldBy
    <2> QED
        BY <1>1, <2>3, <2>4, LeaseType
<1>3. CASE Release("server", p)
    BY <1>3 DEF Release, HeldBy
<1>4. CASE UNCHANGED registries
    BY <1>4 DEF registries, HeldBy
<1> QED
    BY <1>2, <1>3, <1>4 DEF Operation, Denied, NotHeld

LEMMA ClaimLive ==
    ASSUME TypeOK, BackedInv, NEW t \in Tab, Delegated(t), claims[t].sure
    PROVE  /\ HeldBy("server", t) /\ lease["server"].expires >= claims[t].until
           /\ claims[t].until \in Nat /\ claims[t].until <= now + TTL
<1>1. claims[t] \in Claim /\ "server" \in Node
    BY DEF TypeOK, Delegated, Writes, Node
<1>2. lease["server"].owner = t /\ lease["server"].expires >= claims[t].until
    BY DEF BackedInv, ClaimsBacked
<1>3. claims[t].until > now /\ claims[t].until <= now + Validity
    BY DEF Delegated, Writes, BackedInv, Timely
<1>4. claims[t].until \in Nat
    BY <1>1 DEF Claim
<1>5. lease["server"] # NoLease
    BY <1>2, DelegationAssumption DEF NoLease
<1>6. lease["server"].expires > now
    BY <1>1, <1>2, <1>3, <1>4, LeaseType
<1> QED
    BY <1>1, <1>2, <1>3, <1>4, <1>5, <1>6, LeaseType, DelegationAssumption DEF HeldBy, Live

\* A call that was granted and that no unlock has crossed.
Granted(c) == c.op = "acquire" /\ c.ans = "yes" /\ ~c.crossed

LEMMA CallLive ==
    ASSUME TypeOK, BackedInv, NEW c \in calls, Granted(c)
    PROVE  /\ HeldBy("server", c.tab) /\ lease["server"].expires >= c.at + TTL
           /\ c.at + TTL \in Nat /\ c.at + TTL <= now + TTL
           /\ now + Validity <= c.at + TTL
<1>1. c \in Call /\ "server" \in Node
    BY DEF TypeOK, Node
<1>2. lease["server"].owner = c.tab /\ lease["server"].expires >= c.at + TTL
    BY DEF BackedInv, CallsBacked, Granted
<1>3. c.at \in Nat /\ c.tab \in Tab
    BY <1>1 DEF Call
<1>4. c.at <= now /\ now <= c.at + Timeout
    BY DEF BackedInv, Timely
<1>5. now + Validity <= c.at + TTL /\ lease["server"].expires > now
    BY <1>1, <1>2, <1>3, <1>4, LeaseType, DelegationAssumption
<1>6. lease["server"] # NoLease
    BY <1>2, <1>3, DelegationAssumption DEF NoLease
<1> QED
    BY <1>1, <1>2, <1>3, <1>4, <1>5, <1>6, LeaseType, DelegationAssumption DEF HeldBy, Live

\* What the server backs before a step, it backs after it.
SteadyClaims ==
    \A t \in Tab : Delegated(t) /\ claims[t].sure =>
        lease'["server"].owner = t /\ lease'["server"].expires >= claims[t].until

SteadyCalls ==
    \A c \in calls : Granted(c) =>
        lease'["server"].owner = c.tab /\ lease'["server"].expires >= c.at + TTL

LEMMA SteadyUnchanged ==
    ASSUME BackedInv, lease'["server"] = lease["server"]
    PROVE  SteadyClaims /\ SteadyCalls
BY DEF BackedInv, ClaimsBacked, CallsBacked, SteadyClaims, SteadyCalls, Granted

LEMMA SteadyOperation ==
    ASSUME TypeOK, BackedInv, NEW p \in Owner, Operation("server", p),
           Release("server", p) => p \in Seat \/ (p \in Tab /\ Unlocking(p))
    PROVE  SteadyClaims /\ SteadyCalls
<1>1. SteadyClaims
    <2> SUFFICES ASSUME NEW t \in Tab, Delegated(t), claims[t].sure
                 PROVE  /\ lease'["server"].owner = t
                        /\ lease'["server"].expires >= claims[t].until
        BY DEF SteadyClaims
    <2>1. ~Unlocking(t) /\ t \in Owner /\ t \notin Seat
        BY DelegationAssumption DEF BackedInv, NoneUnlocking, Owner
    <2>2. p = t => ~Release("server", p)
        BY <2>1
    <2> QED
        BY <2>1, <2>2, ClaimLive, LiveLeaseStays
<1>2. SteadyCalls
    <2> SUFFICES ASSUME NEW c \in calls, Granted(c)
                 PROVE  /\ lease'["server"].owner = c.tab
                        /\ lease'["server"].expires >= c.at + TTL
        BY DEF SteadyCalls
    <2>1. c.tab \in Tab
        BY DEF TypeOK, Call
    <2>2. ~Unlocking(c.tab) /\ c.tab \in Owner /\ c.tab \notin Seat
        BY <2>1, DelegationAssumption DEF BackedInv, NoneUnlocking, Owner, Granted
    <2>3. p = c.tab => ~Release("server", p)
        BY <2>2
    <2> QED
        BY <2>2, <2>3, CallLive, LiveLeaseStays
<1> QED
    BY <1>1, <1>2

LEMMA SteadyExpire ==
    ASSUME TypeOK, BackedInv, NEW n \in Node, Expire(n)
    PROVE  SteadyClaims /\ SteadyCalls
<1>1. CASE n = "server"
    <2>1. ~Live("server")
        BY <1>1 DEF Expire
    <2>2. SteadyClaims
        BY <2>1, ClaimLive DEF SteadyClaims, HeldBy
    <2>3. SteadyCalls
        BY <2>1, CallLive DEF SteadyCalls, HeldBy
    <2> QED
        BY <2>2, <2>3
<1>2. CASE n = "laptop"
    <2>1. lease'["server"] = lease["server"]
        BY <1>2 DEF Expire, TypeOK, Node
    <2> QED
        BY <2>1, SteadyUnchanged
<1> QED
    BY <1>1, <1>2 DEF Node

LEMMA SteadyAcquire ==
    ASSUME TypeOK, BackedInv, NEW p \in Owner, Acquire("server", p)
    PROVE  SteadyClaims /\ SteadyCalls
<1>1. ~Release("server", p)
    <2>1. "server" \in Node
        BY DEF Node
    <2>2. lease'["server"].owner = p
        BY <2>1, AcquiredOwner
    <2>3. p # NoOwner
        BY DelegationAssumption DEF Owner
    <2> QED
        BY <2>1, <2>2, <2>3 DEF Release, TypeOK, NoLease
<1> QED
    BY <1>1, SteadyOperation DEF Operation

LEMMA SteadyServe ==
    ASSUME TypeOK, BackedInv, NEW c \in calls \cup late, Serve(c)
    PROVE  SteadyClaims /\ SteadyCalls
<1>1. c \in Call /\ c.tab \in Tab /\ c.tab \in Owner
    BY DEF TypeOK, Call, Owner
<1>2. Operation("server", c.tab)
    BY DEF Serve, Operation
<1>3. CASE c.op = "release"
    BY <1>1, <1>2, <1>3, SteadyOperation DEF Unlocking, Under
<1>4. CASE c.op = "acquire" /\ Acquire("server", c.tab)
    BY <1>1, <1>2, <1>4, SteadyAcquire
<1>5. CASE c.op = "acquire" /\ Denied("server", c.tab)
    BY <1>5, SteadyUnchanged DEF Denied, registries
<1> QED
    BY <1>1, <1>3, <1>4, <1>5 DEF Serve, Call

LEMMA SteadyStep ==
    ASSUME TypeOK, BackedInv, Next
    PROVE  SteadyClaims /\ SteadyCalls
<1>1. ASSUME NEW t \in Tab, AskRemote(t) \/ UnlockRemote(t) PROVE SteadyClaims /\ SteadyCalls
    BY <1>1, SteadyUnchanged DEF AskRemote, UnlockRemote, registries
<1>2. ASSUME NEW t \in Tab, AskLocal(t) \/ UnlockLocal(t) PROVE SteadyClaims /\ SteadyCalls
    <2>1. lease'["server"] = lease["server"]
        BY <1>2 DEF AskLocal, UnlockLocal, Acquire, Denied, Release, NotHeld, registries,
                    TypeOK, Node
    <2> QED
        BY <2>1, SteadyUnchanged
<1>3. ASSUME NEW c \in calls, ServerHandles(c) PROVE SteadyClaims /\ SteadyCalls
    BY <1>3, SteadyServe DEF ServerHandles
<1>4. ASSUME NEW c \in late, ServerHandlesLate(c) PROVE SteadyClaims /\ SteadyCalls
    BY <1>4, SteadyServe DEF ServerHandlesLate
<1>5. ASSUME NEW c \in calls, EndAsk(c) \/ EndUnlock(c) \/ CallFails(c) \/ CallRejected(c)
      PROVE  SteadyClaims /\ SteadyCalls
    BY <1>5, SteadyUnchanged DEF EndAsk, EndUnlock, CallFails, CallRejected, registries
<1>6. ASSUME NEW n \in Node, HandleNotice(n) PROVE SteadyClaims /\ SteadyCalls
    BY <1>6, SteadyUnchanged DEF HandleNotice
<1>7. ASSUME NEW n \in Node, Expire(n) PROVE SteadyClaims /\ SteadyCalls
    BY <1>7, SteadyExpire
<1>8. ASSUME NEW s \in Seat, SeatAsks(s) \/ SeatUnlocks(s) PROVE SteadyClaims /\ SteadyCalls
    <2>1. s \in Owner
        BY DEF Owner
    <2> QED
        BY <1>8, <2>1, SteadyAcquire, SteadyOperation, SteadyUnchanged
        DEF SeatAsks, SeatUnlocks, Operation, Denied, NotHeld, registries
<1>9. ASSUME NoticeLost \/ Tick \/ \E v \in {"online", "offline"} : DaemonSays(v)
      PROVE  SteadyClaims /\ SteadyCalls
    BY <1>9, SteadyUnchanged DEF NoticeLost, Tick, DaemonSays, registries
<1> QED
    BY <1>1, <1>2, <1>3, <1>4, <1>5, <1>6, <1>7, <1>8, <1>9 DEF Next, TabStep, CallStep

\* A claim a step leaves is the old one, none, or not both the server's and sure.
Older(t) ==
    \/ claims'[t] = claims[t]
    \/ claims'[t] = NoClaim
    \/ claims'[t].node = "laptop"
    \/ claims'[t].sure = FALSE

LEMMA OlderBacked ==
    ASSUME TypeOK, TypeOK', SteadyClaims, now <= now', NEW t \in Tab, Older(t),
           Delegated(t)', claims'[t].sure
    PROVE  lease'["server"].owner = t /\ lease'["server"].expires >= claims'[t].until
<1>1. claims'[t] = claims[t]
    BY DEF Older, NoClaim, Delegated, Writes
<1>2. claims[t] \in Claim /\ now \in Nat /\ now' \in Nat
    BY <1>1 DEF TypeOK, Delegated, Writes
<1>3. claims[t].until > now
    BY <1>1, <1>2 DEF Delegated, Writes, Claim
<1>4. Delegated(t)
    BY <1>1, <1>3 DEF Delegated, Writes
<1> QED
    BY <1>1, <1>4 DEF SteadyClaims

LEMMA ClaimsBackedStep ==
    ASSUME TypeOK, TypeOK', BackedInv, Next
    PROVE  ClaimsBacked'
<1>1. SteadyClaims /\ now \in Nat /\ now' \in Nat
    BY SteadyStep DEF TypeOK
<1>2. ASSUME now <= now', \A t \in Tab : Older(t) PROVE ClaimsBacked'
    BY <1>1, <1>2, OlderBacked DEF ClaimsBacked
<1>3. ASSUME now' = now, UNCHANGED claims PROVE ClaimsBacked'
    BY <1>1, <1>2, <1>3 DEF Older
<1>4. ASSUME NEW t \in Tab, AskRemote(t) PROVE ClaimsBacked'
    BY <1>3, <1>4 DEF AskRemote
<1>5. ASSUME NEW u \in Tab, UnlockRemote(u) PROVE ClaimsBacked'
    <2>1. ASSUME NEW t \in Tab PROVE Older(t)
        <3>1. claims[u] \in Claim
            BY <1>5 DEF UnlockRemote, TypeOK
        <3> QED
            BY <1>5, <3>1 DEF UnlockRemote, TypeOK, Older, Claim
    <2> QED
        BY <1>1, <1>2, <1>5, <2>1 DEF UnlockRemote
<1>6. ASSUME NEW u \in Tab, AskLocal(u) \/ UnlockLocal(u) PROVE ClaimsBacked'
    <2>1. ASSUME NEW t \in Tab PROVE Older(t)
        BY <1>6 DEF AskLocal, UnlockLocal, TypeOK, Older, Claimed
    <2> QED
        BY <1>1, <1>2, <1>6, <2>1 DEF AskLocal, UnlockLocal
<1>7. ASSUME NEW c \in calls, ServerHandles(c) PROVE ClaimsBacked'
    BY <1>3, <1>7 DEF ServerHandles
<1>8. ASSUME NEW c \in late, ServerHandlesLate(c) PROVE ClaimsBacked'
    BY <1>3, <1>8 DEF ServerHandlesLate
<1>9. ASSUME NEW c \in calls, EndAsk(c) PROVE ClaimsBacked'
    <2> SUFFICES ASSUME NEW t \in Tab, Delegated(t)', claims'[t].sure
                 PROVE  /\ lease'["server"].owner = t
                        /\ lease'["server"].expires >= claims'[t].until
        BY DEF ClaimsBacked
    <2>1. now <= now'
        BY <1>1, <1>9 DEF EndAsk
    <2>2. CASE Older(t)
        BY <1>1, <2>1, <2>2, OlderBacked
    <2>3. CASE ~Older(t)
        <3>1. t = c.tab /\ c.ans = "yes" /\ c.op = "acquire"
            BY <1>9, <2>3 DEF EndAsk, TypeOK, Older
        <3>2. claims'[t] = Claimed("server", c.gen, ~c.crossed)
            BY <1>9, <3>1 DEF EndAsk, TypeOK
        <3>3. claims'[t].until = now + Validity
            BY <3>2 DEF Claimed, TrustedUntil
        <3>4. Granted(c)
            <4> DEFINE sure == ~c.crossed
            <4>1. claims'[t] = Claimed("server", c.gen, sure)
                BY <3>2
            <4> HIDE DEF sure
            <4>2. claims'[t].sure = sure
                BY <4>1 DEF Claimed
            <4>3. sure
                BY <4>2
            <4> QED
                BY <3>1, <4>3 DEF Granted, sure
        <3>5. /\ lease["server"].owner = c.tab /\ lease["server"].expires >= c.at + TTL
              /\ now + Validity <= c.at + TTL /\ c.at + TTL \in Nat
            BY <3>4, CallLive DEF HeldBy
        <3>6. lease' = lease
            BY <1>9 DEF EndAsk, registries
        <3>7. lease["server"].expires \in Nat /\ now + Validity \in Nat
            BY <1>1, LeaseType, DelegationAssumption DEF Node
        <3> QED
            BY <3>1, <3>3, <3>5, <3>6, <3>7
    <2> QED
        BY <2>2, <2>3
<1>10. ASSUME NEW c \in calls, EndUnlock(c) PROVE ClaimsBacked'
    <2>1. \A t \in Tab : Older(t)
        BY <1>10 DEF EndUnlock, Older
    <2> QED
        BY <1>1, <1>2, <1>10, <2>1 DEF EndUnlock
<1>11. ASSUME NEW c \in calls, CallFails(c) \/ CallRejected(c) PROVE ClaimsBacked'
    BY <1>3, <1>11 DEF CallFails, CallRejected
<1>12. ASSUME NEW n \in Node, HandleNotice(n) PROVE ClaimsBacked'
    <2>1. \A t \in Tab : Older(t)
        BY <1>12 DEF HandleNotice, Older
    <2> QED
        BY <1>1, <1>2, <1>12, <2>1 DEF HandleNotice
<1>13. ASSUME NEW n \in Node, Expire(n) PROVE ClaimsBacked'
    BY <1>3, <1>13 DEF Expire
<1>14. ASSUME NEW s \in Seat, SeatAsks(s) \/ SeatUnlocks(s) PROVE ClaimsBacked'
    BY <1>3, <1>14 DEF SeatAsks, SeatUnlocks
<1>15. ASSUME NoticeLost \/ \E v \in {"online", "offline"} : DaemonSays(v) PROVE ClaimsBacked'
    BY <1>3, <1>15 DEF NoticeLost, DaemonSays
<1>16. ASSUME Tick PROVE ClaimsBacked'
    <2>1. now <= now' /\ \A t \in Tab : Older(t)
        BY <1>1, <1>16 DEF Tick, Older
    <2> QED
        BY <1>2, <2>1
<1> QED
    BY <1>4, <1>5, <1>6, <1>7, <1>8, <1>9, <1>10, <1>11, <1>12, <1>13, <1>14, <1>15, <1>16
    DEF Next, TabStep, CallStep

\* What crossing a call changes.
LEMMA CrossedCall ==
    ASSUME NEW d \in Call, NEW t \in Tab, NEW c, c = CrossedBy(d, t)
    PROVE  /\ c.op = d.op /\ c.ans = d.ans /\ c.tab = d.tab /\ c.at = d.at
           /\ ~c.crossed => ~d.crossed /\ d.tab # t
<1> DEFINE crossed == d.crossed \/ d.tab = t
<1>1. c = [d EXCEPT !.crossed = crossed]
    BY DEF CrossedBy
<1> HIDE DEF crossed
<1>2. c.op = d.op /\ c.ans = d.ans /\ c.tab = d.tab /\ c.at = d.at /\ c.crossed = crossed
    BY <1>1 DEF Call
<1>3. ~c.crossed => ~crossed
    BY <1>2
<1> QED
    BY <1>2, <1>3 DEF crossed

LEMMA ServedCall ==
    ASSUME NEW c \in Call
    PROVE  /\ Served(c).op = c.op /\ Served(c).tab = c.tab /\ Served(c).at = c.at
           /\ Served(c).crossed = c.crossed
<1>1. CASE c.op = "acquire"
    <2> DEFINE ans == IF lease'["server"].owner = c.tab THEN "yes" ELSE "no"
               gen == IF lease'["server"].owner = c.tab THEN lease'["server"].gen ELSE 0
    <2>1. Served(c) = [c EXCEPT !.ans = ans, !.gen = gen]
        BY <1>1 DEF Served
    <2> HIDE DEF ans, gen
    <2> QED
        BY <2>1 DEF Call
<1>2. CASE c.op # "acquire"
    <2> DEFINE ans == IF HeldBy("server", c.tab) THEN "yes" ELSE "no"
    <2>1. Served(c) = [c EXCEPT !.ans = ans]
        BY <1>2 DEF Served
    <2> HIDE DEF ans
    <2> QED
        BY <2>1 DEF Call
<1> QED
    BY <1>1, <1>2

LEMMA ServedGrant ==
    ASSUME TypeOK, NEW c \in Call, Serve(c), c.op = "acquire", Served(c).ans = "yes"
    PROVE  lease'["server"].owner = c.tab /\ lease'["server"].expires = now + TTL
<1>1. "server" \in Node /\ c.tab \in Owner
    BY DEF Node, Call, Owner
<1>2. lease'["server"].owner = c.tab
    BY DEF Served, Call
<1>3. Acquire("server", c.tab)
    <2>1. ~Denied("server", c.tab)
        BY <1>2 DEF Denied, HeldBy, registries
    <2> QED
        BY <2>1 DEF Serve
<1>4. CASE lease' = [lease EXCEPT !["server"].expires = now + TTL] /\ HeldBy("server", c.tab)
    <2>1. lease["server"] \in Lease
        BY <1>1, <1>4 DEF TypeOK, HeldBy, Live
    <2> QED
        BY <1>1, <1>2, <1>4, <2>1 DEF TypeOK, Lease
<1>5. CASE lease' = [lease EXCEPT !["server"] =
               [owner |-> c.tab, gen |-> grants["server"] + 1, expires |-> now + TTL]]
    BY <1>1, <1>5 DEF TypeOK
<1> QED
    BY <1>3, <1>4, <1>5 DEF Acquire

\* Where the calls after a step come from.
Kept(c)    == c \in calls
Asked(c)   == \E t \in Tab : AskRemote(t) /\ c = CallOf(t, "acquire")
Crossed(c) == \E t \in Tab, d \in calls :
                 UnlockRemote(t) /\ c = CrossedBy(d, t)
Unlocks(c) == \E t \in Tab : UnlockRemote(t) /\ c = CallOf(t, "release")
Handled(c) == \E d \in calls : ServerHandles(d) /\ c = Served(d)

LEMMA CallsAfter ==
    ASSUME Next, NEW c \in calls'
    PROVE  \/ Kept(c) /\ ~(\E t \in Tab : UnlockRemote(t))
           \/ Asked(c) \/ Crossed(c) \/ Unlocks(c) \/ Handled(c)
<1>1. CASE \E t \in Tab : UnlockRemote(t)
    BY <1>1 DEF UnlockRemote, Cross, Crossed, Unlocks
<1>2. CASE ~\E t \in Tab : UnlockRemote(t)
    <2>1. ASSUME NEW t \in Tab, AskRemote(t) PROVE Kept(c) \/ Asked(c)
        BY <2>1 DEF AskRemote, Kept, Asked
    <2>2. ASSUME NEW d \in calls, ServerHandles(d) PROVE Kept(c) \/ Handled(c)
        BY <2>2 DEF ServerHandles, Kept, Handled
    <2>3. ASSUME NEW t \in Tab, AskLocal(t) \/ UnlockLocal(t) PROVE Kept(c)
        BY <2>3 DEF AskLocal, UnlockLocal, Kept
    <2>4. ASSUME NEW d \in calls,
                 EndAsk(d) \/ EndUnlock(d) \/ CallFails(d) \/ CallRejected(d)
          PROVE  Kept(c)
        BY <2>4 DEF EndAsk, EndUnlock, CallFails, CallRejected, Kept
    <2>5. ASSUME NEW d \in late, ServerHandlesLate(d) PROVE Kept(c)
        BY <2>5 DEF ServerHandlesLate, Kept
    <2>6. ASSUME NEW n \in Node, HandleNotice(n) \/ Expire(n) PROVE Kept(c)
        BY <2>6 DEF HandleNotice, Expire, Kept
    <2>7. ASSUME NEW s \in Seat, SeatAsks(s) \/ SeatUnlocks(s) PROVE Kept(c)
        BY <2>7 DEF SeatAsks, SeatUnlocks, Kept
    <2>8. ASSUME NoticeLost \/ Tick \/ \E v \in {"online", "offline"} : DaemonSays(v)
          PROVE  Kept(c)
        BY <2>8 DEF NoticeLost, Tick, DaemonSays, Kept
    <2> QED
        BY <1>2, <2>1, <2>2, <2>3, <2>4, <2>5, <2>6, <2>7, <2>8 DEF Next, TabStep, CallStep
<1> QED
    BY <1>1, <1>2

LEMMA CallsBackedStep ==
    ASSUME TypeOK, BackedInv, Next
    PROVE  CallsBacked'
<1> SUFFICES ASSUME NEW c \in calls', Granted(c)
             PROVE  lease'["server"].owner = c.tab /\ lease'["server"].expires >= c.at + TTL
    BY DEF CallsBacked, Granted
<1>1. SteadyCalls
    BY SteadyStep
<1>2. CASE Kept(c)
    BY <1>1, <1>2 DEF Kept, SteadyCalls
<1>3. CASE Asked(c) \/ Unlocks(c)
    BY <1>3 DEF Asked, Unlocks, CallOf, Granted
<1>4. CASE Crossed(c)
    <2>1. PICK t \in Tab, d \in calls : c = CrossedBy(d, t)
        BY <1>4 DEF Crossed
    <2>2. d \in Call
        BY DEF TypeOK
    <2>3. Granted(d) /\ c.tab = d.tab /\ c.at = d.at
        BY <2>1, <2>2, CrossedCall DEF Granted
    <2> QED
        BY <1>1, <2>3 DEF SteadyCalls
<1>5. CASE Handled(c)
    <2>1. PICK d \in calls : ServerHandles(d) /\ c = Served(d)
        BY <1>5 DEF Handled
    <2>2. d \in Call /\ Serve(d)
        BY <2>1 DEF TypeOK, ServerHandles
    <2>3. c.op = d.op /\ c.tab = d.tab /\ c.at = d.at
        BY <2>1, <2>2, ServedCall
    <2>4. lease'["server"].owner = d.tab /\ lease'["server"].expires = now + TTL
        BY <2>1, <2>2, <2>3, ServedGrant DEF Granted
    <2>5. d.at <= now /\ d.at \in Nat /\ now \in Nat
        BY <2>2 DEF BackedInv, Timely, Call, TypeOK
    <2> QED
        BY <2>3, <2>4, <2>5, DelegationAssumption
<1> QED
    BY <1>2, <1>3, <1>4, <1>5, CallsAfter

LEMMA OthersUncrossed ==
    ASSUME NEW d \in Call, NEW t \in Tab, d.tab # t
    PROVE  CrossedBy(d, t) = d
<1> DEFINE crossed == d.crossed \/ d.tab = t
<1>1. d.crossed \in BOOLEAN
    BY DEF Call
<1>2. crossed = d.crossed
    BY <1>1, Zenon
<1>3. CrossedBy(d, t) = [d EXCEPT !.crossed = crossed]
    BY DEF CrossedBy
<1> HIDE DEF crossed
<1> QED
    BY <1>2, <1>3 DEF Call

\* A step makes at most one call, and a step that serves a call makes none.
LEMMA OneUnlocks ==
    ASSUME TypeOK, NEW t \in Tab, NEW u \in Tab, UnlockRemote(t), t # u
    PROVE  ~UnlockRemote(u)
<1> SUFFICES ASSUME UnlockRemote(u) PROVE FALSE
    OBVIOUS
<1>1. CallOf(u, "release") \in Cross(t, calls)
    BY DEF UnlockRemote, CallOf
<1>2. PICK d \in calls : CallOf(u, "release") = CrossedBy(d, t)
    BY <1>1 DEF Cross
<1>3. d \in Call
    BY DEF TypeOK
<1>4. d.tab = u
    BY <1>2, <1>3, CrossedCall DEF CallOf
<1>5. CallOf(u, "release") \in calls
    BY <1>2, <1>3, <1>4, OthersUncrossed
<1>6. CallOf(u, "release").tab = u
    BY DEF CallOf
<1> QED
    BY <1>5, <1>6 DEF UnlockRemote, Delegable, Under

LEMMA HandlesNotUnlocks ==
    ASSUME TypeOK, NEW d \in calls, ServerHandles(d), NEW t \in Tab
    PROVE  ~UnlockRemote(t)
<1> SUFFICES ASSUME UnlockRemote(t) PROVE FALSE
    OBVIOUS
<1>1. CallOf(t, "release") \in calls' /\ CallOf(t, "release") \notin calls
    BY DEF UnlockRemote, Delegable, Under, CallOf
<1>2. CallOf(t, "release") = Served(d)
    BY <1>1 DEF ServerHandles
<1>3. d \in Call
    BY DEF TypeOK
<1>4. Served(d).ans # "none"
    BY <1>3 DEF Served, Call
<1> QED
    BY <1>2, <1>4 DEF CallOf

\* Only its own unlock makes a tab unlock.
LEMMA UnlockingAfter ==
    ASSUME TypeOK, Next, NEW t \in Tab, ~Unlocking(t), ~UnlockRemote(t)
    PROVE  ~Unlocking(t)'
<1> SUFFICES ASSUME NEW c \in calls' \cup late', c.tab = t, c.op = "release" PROVE FALSE
    BY DEF Unlocking, Under
<1>1. ASSUME c \in calls \cup late PROVE FALSE
    BY <1>1 DEF Unlocking, Under
<1>2. ASSUME NEW d \in calls \cup late, NEW u \in Tab, c = CrossedBy(d, u) PROVE FALSE
    <2>1. d \in Call
        BY DEF TypeOK
    <2>2. d.tab = t /\ d.op = "release"
        BY <1>2, <2>1, CrossedCall
    <2> QED
        BY <2>2 DEF Unlocking, Under
<1>3. CASE \E u \in Tab : UnlockRemote(u)
    <2>1. PICK u \in Tab : UnlockRemote(u)
        BY <1>3
    <2>2. CallOf(u, "release").tab # t
        BY <2>1 DEF CallOf
    <2>3. c \in Cross(u, calls) \cup Cross(u, late)
        BY <2>1, <2>2 DEF UnlockRemote
    <2>4. PICK d \in calls \cup late : c = CrossedBy(d, u)
        BY <2>3 DEF Cross
    <2> QED
        BY <1>2, <2>4
<1>4. CASE ~\E u \in Tab : UnlockRemote(u)
    <2>1. ASSUME c \in calls' PROVE FALSE
        <3>1. CASE Kept(c)
            BY <1>1, <3>1 DEF Kept
        <3>2. CASE Asked(c)
            BY <3>2 DEF Asked, CallOf
        <3>3. CASE Handled(c)
            <4>1. PICK d \in calls : c = Served(d)
                BY <3>3 DEF Handled
            <4>2. d.tab = t /\ d.op = "release"
                BY <4>1, ServedCall DEF TypeOK
            <4> QED
                BY <4>2 DEF Unlocking, Under
        <3> QED
            BY <1>4, <2>1, <3>1, <3>2, <3>3, CallsAfter DEF Crossed, Unlocks
    <2>2. ASSUME c \in late' PROVE FALSE
        <3>1. ASSUME late' \subseteq late PROVE FALSE
            BY <1>1, <2>2, <3>1
        <3>2. ASSUME NEW u \in Tab, AskRemote(u) \/ AskLocal(u) \/ UnlockLocal(u) PROVE FALSE
            BY <3>1, <3>2 DEF AskRemote, AskLocal, UnlockLocal
        <3>3. ASSUME NEW d \in calls, CallFails(d) PROVE FALSE
            BY <1>1, <2>2, <3>3 DEF CallFails
        <3>4. ASSUME NEW d \in calls,
                     ServerHandles(d) \/ EndAsk(d) \/ EndUnlock(d) \/ CallRejected(d)
              PROVE  FALSE
            BY <3>1, <3>4 DEF ServerHandles, EndAsk, EndUnlock, CallRejected
        <3>5. ASSUME NEW d \in late, ServerHandlesLate(d) PROVE FALSE
            BY <3>1, <3>5 DEF ServerHandlesLate
        <3>6. ASSUME NEW n \in Node, HandleNotice(n) \/ Expire(n) PROVE FALSE
            BY <3>1, <3>6 DEF HandleNotice, Expire
        <3>7. ASSUME NEW s \in Seat, SeatAsks(s) \/ SeatUnlocks(s) PROVE FALSE
            BY <3>1, <3>7 DEF SeatAsks, SeatUnlocks
        <3>8. ASSUME NoticeLost \/ Tick \/ \E v \in {"online", "offline"} : DaemonSays(v)
              PROVE  FALSE
            BY <3>1, <3>8 DEF NoticeLost, Tick, DaemonSays
        <3> QED
            BY <1>4, <3>2, <3>3, <3>4, <3>5, <3>6, <3>7, <3>8 DEF Next, TabStep, CallStep
    <2> QED
        BY <2>1, <2>2
<1> QED
    BY <1>3, <1>4

\* A sure claim after a step was sure before, or is taken with no unlock under way.
LEMMA SureAfter ==
    ASSUME TypeOK, BackedInv, Next, NEW t \in Tab, claims'[t].sure
    PROVE  ~Unlocking(t) /\ ~UnlockRemote(t)
<1> DEFINE Same == claims'[t] = claims[t] /\ ~UnlockRemote(t)
<1>1. ASSUME Same PROVE ~Unlocking(t) /\ ~UnlockRemote(t)
    BY <1>1 DEF BackedInv, NoneUnlocking
<1>2. claims'[t] # NoClaim
    BY DEF NoClaim
<1>3. ASSUME UnlockRemote(t) PROVE FALSE
    <2>1. claims[t] \in Claim
        BY <1>3 DEF UnlockRemote, TypeOK
    <2>2. claims'[t] = [claims[t] EXCEPT !.sure = FALSE]
        BY <1>3 DEF UnlockRemote, TypeOK
    <2> QED
        BY <2>1, <2>2 DEF Claim
<1>4. ASSUME NEW u \in Tab, AskRemote(u) \/ UnlockRemote(u) PROVE Same
    BY <1>3, <1>4 DEF AskRemote, UnlockRemote, TypeOK
<1>5. ASSUME NEW u \in Tab, AskLocal(u), claims'[t] # claims[t] PROVE ~Unlocking(t)
    <2> DEFINE sure == ~Unlocking(t)
    <2>1. claims'[t] = Claimed("laptop", lease'["laptop"].gen, sure)
        BY <1>2, <1>5 DEF AskLocal, TypeOK
    <2> HIDE DEF sure
    <2>2. claims'[t].sure = sure
        BY <2>1 DEF Claimed
    <2>3. sure
        BY <2>2
    <2> QED
        BY <2>3 DEF sure
<1>6. ASSUME NEW u \in Tab, UnlockLocal(u) PROVE claims'[t] = claims[t]
    BY <1>2, <1>6 DEF UnlockLocal, TypeOK
<1>7. ASSUME NEW c \in calls, EndAsk(c), claims'[t] # claims[t] PROVE ~Unlocking(t)
    <2> DEFINE sure == ~c.crossed
    <2>1. c.tab = t /\ claims'[t] = Claimed("server", c.gen, sure)
        BY <1>2, <1>7 DEF EndAsk, TypeOK
    <2> HIDE DEF sure
    <2>2. claims'[t].sure = sure
        BY <2>1 DEF Claimed
    <2>3. sure
        BY <2>2
    <2>4. c.op = "acquire" /\ ~c.crossed
        BY <1>7, <2>3 DEF EndAsk, sure
    <2> QED
        BY <2>1, <2>4 DEF BackedInv, NoneUnlocking
<1>8. ASSUME NEW c \in calls,
             ServerHandles(c) \/ EndUnlock(c) \/ CallFails(c) \/ CallRejected(c)
      PROVE  claims'[t] = claims[t]
    BY <1>2, <1>8 DEF ServerHandles, EndUnlock, CallFails, CallRejected
<1>9. ASSUME NEW c \in late, ServerHandlesLate(c) PROVE claims'[t] = claims[t]
    BY <1>9 DEF ServerHandlesLate
<1>10. ASSUME NEW n \in Node, HandleNotice(n) \/ Expire(n) PROVE claims'[t] = claims[t]
    BY <1>2, <1>10 DEF HandleNotice, Expire
<1>11. ASSUME NEW s \in Seat, SeatAsks(s) \/ SeatUnlocks(s) PROVE claims'[t] = claims[t]
    BY <1>11 DEF SeatAsks, SeatUnlocks
<1>12. ASSUME NoticeLost \/ Tick \/ \E v \in {"online", "offline"} : DaemonSays(v)
       PROVE  claims'[t] = claims[t]
    BY <1>12 DEF NoticeLost, Tick, DaemonSays
<1> QED
    BY <1>1, <1>3, <1>4, <1>5, <1>6, <1>7, <1>8, <1>9, <1>10, <1>11, <1>12
    DEF Next, TabStep, CallStep

LEMMA NoneUnlockingStep ==
    ASSUME TypeOK, BackedInv, Next
    PROVE  NoneUnlocking'
<1>1. ASSUME NEW t \in Tab, claims'[t].sure PROVE ~Unlocking(t)'
    BY <1>1, SureAfter, UnlockingAfter
<1>2. ASSUME NEW c \in calls', c.op = "acquire", ~c.crossed PROVE ~Unlocking(c.tab)'
    <2> SUFFICES c.tab \in Tab /\ ~Unlocking(c.tab) /\ ~UnlockRemote(c.tab)
        BY UnlockingAfter
    <2>1. ASSUME NEW d \in calls, d.op = "acquire", ~d.crossed
          PROVE  d.tab \in Tab /\ ~Unlocking(d.tab)
        BY <2>1 DEF TypeOK, Call, BackedInv, NoneUnlocking
    <2>2. CASE Kept(c) /\ ~\E t \in Tab : UnlockRemote(t)
        BY <1>2, <2>1, <2>2 DEF Kept
    <2>3. CASE Asked(c)
        <3>1. PICK t \in Tab : AskRemote(t) /\ c = CallOf(t, "acquire")
            BY <2>3 DEF Asked
        <3> DEFINE crossed == Unlocking(t)
        <3>2. c.tab = t /\ c.crossed = crossed
            BY <3>1 DEF CallOf
        <3> HIDE DEF crossed
        <3>3. ~crossed
            BY <1>2, <3>2
        <3>4. ~UnlockRemote(t)
            <4>1. CallOf(t, "acquire") \in calls' /\ CallOf(t, "acquire") \notin calls
                BY <3>1 DEF AskRemote, Delegable, Under, CallOf
            <4>2. calls' = calls \cup {CallOf(t, "acquire")}
                BY <3>1 DEF AskRemote
            <4>3. ASSUME UnlockRemote(t) PROVE FALSE
                <5>1. CallOf(t, "release") \in calls'
                    BY <4>3 DEF UnlockRemote
                <5>2. CallOf(t, "release") \notin calls
                    BY <4>3 DEF UnlockRemote, Delegable, Under, CallOf
                <5>3. CallOf(t, "release") # CallOf(t, "acquire")
                    BY DEF CallOf
                <5> QED
                    BY <4>2, <5>1, <5>2, <5>3
            <4> QED
                BY <4>3
        <3> QED
            BY <3>2, <3>3, <3>4 DEF crossed
    <2>4. CASE Crossed(c)
        <3>1. PICK t \in Tab, d \in calls : UnlockRemote(t) /\ c = CrossedBy(d, t)
            BY <2>4 DEF Crossed
        <3>2. d \in Call
            BY DEF TypeOK
        <3>3. d.op = "acquire" /\ ~d.crossed /\ c.tab = d.tab /\ d.tab # t
            BY <1>2, <3>1, <3>2, CrossedCall
        <3>4. ~UnlockRemote(d.tab)
            BY <3>1, <3>3, <2>1, OneUnlocks
        <3> QED
            BY <2>1, <3>3, <3>4
    <2>5. CASE Unlocks(c)
        BY <1>2, <2>5 DEF Unlocks, CallOf
    <2>6. CASE Handled(c)
        <3>1. PICK d \in calls : ServerHandles(d) /\ c = Served(d)
            BY <2>6 DEF Handled
        <3>2. d \in Call /\ d.ans = "none" /\ Served(d).ans # "none"
            BY <3>1 DEF TypeOK, ServerHandles, Served, Call
        <3>3. d.op = "acquire" /\ ~d.crossed /\ c.tab = d.tab
            BY <1>2, <3>1, <3>2, ServedCall
        <3>4. \A t \in Tab : ~UnlockRemote(t)
            BY <3>1, HandlesNotUnlocks
        <3> QED
            BY <2>1, <3>3, <3>4
    <2> QED
        BY <2>2, <2>3, <2>4, <2>5, <2>6, CallsAfter
<1> QED
    BY <1>1, <1>2 DEF NoneUnlocking

LEMMA NewTrust ==
    ASSUME TypeOK, NEW n \in Node, NEW g, NEW sure
    PROVE  Claimed(n, g, sure).until <= now + Validity
<1>1. now + Validity \in Nat
    BY DelegationAssumption DEF TypeOK
<1> QED
    BY <1>1 DEF Claimed, TrustedUntil

LEMMA TrustStep ==
    ASSUME TypeOK, BackedInv, Next, NEW t \in Tab
    PROVE  claims'[t].until <= now + Validity
<1>1. claims[t].until <= now + Validity
    BY DEF BackedInv, Timely
<1>2. NoClaim.until <= now + Validity
    BY DelegationAssumption DEF NoClaim, TypeOK
<1>3. CASE claims'[t] = claims[t] \/ claims'[t] = NoClaim
    BY <1>1, <1>2, <1>3
<1>4. ASSUME NEW u \in Tab, UnlockRemote(u) PROVE claims'[t].until <= now + Validity
    <2>1. claims[u] \in Claim
        BY <1>4 DEF UnlockRemote, TypeOK
    <2>2. claims'[t].until = claims[t].until
        BY <1>4, <2>1 DEF UnlockRemote, TypeOK, Claim
    <2> QED
        BY <1>1, <2>2
<1>5. ASSUME NEW u \in Tab, AskLocal(u) PROVE claims'[t].until <= now + Validity
    <2>1. CASE claims'[t] = Claimed("laptop", lease'["laptop"].gen, ~Unlocking(u))
        BY <2>1, NewTrust DEF Node
    <2> QED
        BY <1>3, <1>5, <2>1 DEF AskLocal, TypeOK
<1>6. ASSUME NEW c \in calls, EndAsk(c) PROVE claims'[t].until <= now + Validity
    <2>1. CASE claims'[t] = Claimed("server", c.gen, ~c.crossed)
        BY <2>1, NewTrust DEF Node
    <2> QED
        BY <1>3, <1>6, <2>1 DEF EndAsk, TypeOK
<1>7. ASSUME NEW u \in Tab, AskRemote(u) \/ UnlockLocal(u)
      PROVE  claims'[t] = claims[t] \/ claims'[t] = NoClaim
    BY <1>7 DEF AskRemote, UnlockLocal, TypeOK
<1>8. ASSUME NEW c \in calls,
             ServerHandles(c) \/ EndUnlock(c) \/ CallFails(c) \/ CallRejected(c)
      PROVE  claims'[t] = claims[t] \/ claims'[t] = NoClaim
    BY <1>8 DEF ServerHandles, EndUnlock, CallFails, CallRejected
<1>9. ASSUME NEW c \in late, ServerHandlesLate(c) PROVE claims'[t] = claims[t]
    BY <1>9 DEF ServerHandlesLate
<1>10. ASSUME NEW n \in Node, HandleNotice(n) \/ Expire(n)
       PROVE  claims'[t] = claims[t] \/ claims'[t] = NoClaim
    BY <1>10 DEF HandleNotice, Expire
<1>11. ASSUME NEW s \in Seat, SeatAsks(s) \/ SeatUnlocks(s) PROVE claims'[t] = claims[t]
    BY <1>11 DEF SeatAsks, SeatUnlocks
<1>12. ASSUME NoticeLost \/ Tick \/ \E v \in {"online", "offline"} : DaemonSays(v)
       PROVE  claims'[t] = claims[t]
    BY <1>12 DEF NoticeLost, Tick, DaemonSays
<1> QED
    BY <1>3, <1>4, <1>5, <1>6, <1>7, <1>8, <1>9, <1>10, <1>11, <1>12
    DEF Next, TabStep, CallStep

LEMMA TimePasses ==
    ASSUME TypeOK, Next
    PROVE  now' = now \/ (Tick /\ now' = now + 1)
<1>1. ASSUME NEW t \in Tab, TabStep(t) PROVE now' = now
    BY <1>1 DEF TabStep, AskRemote, UnlockRemote, AskLocal, UnlockLocal
<1>2. ASSUME CallStep PROVE now' = now
    BY <1>2 DEF CallStep, ServerHandles, ServerHandlesLate, EndAsk, EndUnlock, CallFails,
                CallRejected
<1>3. ASSUME NEW n \in Node, HandleNotice(n) \/ Expire(n) PROVE now' = now
    BY <1>3 DEF HandleNotice, Expire
<1>4. ASSUME NEW s \in Seat, SeatAsks(s) \/ SeatUnlocks(s) PROVE now' = now
    BY <1>4 DEF SeatAsks, SeatUnlocks
<1>5. ASSUME NoticeLost \/ \E v \in {"online", "offline"} : DaemonSays(v) PROVE now' = now
    BY <1>5 DEF NoticeLost, DaemonSays
<1>6. ASSUME Tick PROVE Tick /\ now' = now + 1
    BY <1>6 DEF Tick
<1> QED
    BY <1>1, <1>2, <1>3, <1>4, <1>5, <1>6 DEF Next

LEMMA TimelyStep ==
    ASSUME TypeOK, TypeOK', BackedInv, Next
    PROVE  Timely'
<1>1. now \in Nat /\ now' \in Nat /\ now <= now'
    BY TimePasses DEF TypeOK
<1>2. ASSUME NEW t \in Tab PROVE claims'[t].until <= now' + Validity
    <2>1. claims'[t].until \in Nat
        <3>1. claims'[t] \in Claim \cup {NoClaim}
            BY DEF TypeOK
        <3> QED
            BY <3>1 DEF Claim, NoClaim
    <2> QED
        BY <1>1, <2>1, TrustStep, DelegationAssumption
<1>3. ASSUME NEW d \in calls PROVE d.at <= now /\ now <= d.at + Timeout /\ d.at \in Nat
    BY DEF BackedInv, Timely, TypeOK, Call
<1>4. ASSUME NEW c \in calls' PROVE c.at <= now' /\ now' <= c.at + Timeout
    <2>1. CASE Tick
        BY <1>1, <1>3, <1>4, <2>1, DelegationAssumption DEF Tick
    <2>2. CASE ~Tick
        <3>1. now' = now
            BY <2>2, TimePasses
        <3>2. CASE Kept(c)
            BY <1>3, <3>1, <3>2 DEF Kept
        <3>3. CASE Asked(c) \/ Unlocks(c)
            BY <1>1, <3>1, <3>3, DelegationAssumption DEF Asked, Unlocks, CallOf
        <3>4. CASE Crossed(c)
            <4>1. PICK t \in Tab, d \in calls : c = CrossedBy(d, t)
                BY <3>4 DEF Crossed
            <4>2. c.at = d.at
                BY <4>1, CrossedCall DEF TypeOK
            <4> QED
                BY <1>3, <3>1, <4>2
        <3>5. CASE Handled(c)
            <4>1. PICK d \in calls : c = Served(d)
                BY <3>5 DEF Handled
            <4>2. c.at = d.at
                BY <4>1, ServedCall DEF TypeOK
            <4> QED
                BY <1>3, <3>1, <4>2
        <3> QED
            BY <1>4, <3>2, <3>3, <3>4, <3>5, CallsAfter
    <2> QED
        BY <2>1, <2>2
<1> QED
    BY <1>2, <1>4 DEF Timely

IInv == TypeOK /\ Answered /\ BackedInv

LEMMA InitBacked == Init => IInv
<1> SUFFICES ASSUME Init PROVE IInv
    OBVIOUS
<1>1. TypeOK /\ Answered
    BY InitTypes
<1>2. \A t \in Tab : claims[t] = NoClaim
    BY DEF Init
<1>3. ClaimsBacked /\ CallsBacked
    BY <1>2 DEF Init, ClaimsBacked, CallsBacked, Delegated, Writes
<1>4. NoneUnlocking
    BY <1>2 DEF Init, NoneUnlocking, Unlocking, Under
<1>5. Timely
    BY <1>2, DelegationAssumption DEF Init, Timely, NoClaim
<1> QED
    BY <1>1, <1>3, <1>4, <1>5 DEF IInv, BackedInv

LEMMA StepBacked == IInv /\ [Next]_vars => IInv'
<1> SUFFICES ASSUME IInv, [Next]_vars PROVE IInv'
    OBVIOUS
<1>1. TypeOK' /\ Answered'
    BY StepTypes DEF IInv
<1>2. CASE Next
    BY <1>1, <1>2, ClaimsBackedStep, CallsBackedStep, NoneUnlockingStep, TimelyStep
    DEF IInv, BackedInv
<1>3. CASE UNCHANGED vars
    BY <1>1, <1>3 DEF IInv, BackedInv, vars, registries, ClaimsBacked, CallsBacked,
       NoneUnlocking, Timely, Delegated, Writes, Unlocking, Under
<1> QED
    BY <1>2, <1>3

\* The lease, the claims and the calls fit together for any tabs and times with
\* Timeout + Validity <= TTL (_acquire_lock, _delegate_lock).
THEOREM Backed == Spec => []BackedInv
<1>1. Init => IInv
    BY InitBacked
<1>2. IInv /\ [Next]_vars => IInv'
    BY StepBacked
<1>3. IInv => BackedInv
    BY DEF IInv
<1> QED
    BY <1>1, <1>2, <1>3, PTL DEF Spec

LEMMA BackedExcludes == IInv => OneDelegatedWriter
<1> SUFFICES ASSUME IInv, NEW t \in Tab, Delegated(t), claims[t].sure
             PROVE  /\ \A s \in Seat : ~SeatWrites(s)
                    /\ \A u \in Tab \ {t} : ~(Delegated(u) /\ claims[u].sure)
    BY DEF OneDelegatedWriter
<1>1. lease["server"].owner = t
    BY DEF IInv, BackedInv, ClaimsBacked
<1>2. ASSUME NEW s \in Seat PROVE ~SeatWrites(s)
    BY <1>1, DelegationAssumption DEF SeatWrites, HeldBy
<1>3. ASSUME NEW u \in Tab \ {t} PROVE ~(Delegated(u) /\ claims[u].sure)
    BY <1>1 DEF IInv, BackedInv, ClaimsBacked
<1> QED
    BY <1>2, <1>3

\* While a tab of the laptop holds a token of the server and has not asked to
\* unlock, no tab of the server and no other such tab of the laptop can save,
\* whatever calls are lost, late or handled out of order (socket_owns_valid_lease).
THEOREM DelegatedWriterAlone == Spec => []OneDelegatedWriter
<1>1. Init => IInv
    BY InitBacked
<1>2. IInv /\ [Next]_vars => IInv'
    BY StepBacked
<1>3. IInv => OneDelegatedWriter
    BY BackedExcludes
<1> QED
    BY <1>1, <1>2, <1>3, PTL DEF Spec

---------------------------------------------------------------------------
(* Both registries implement FencedLease *)

\* No lease runs for longer than TTL from now.
Term == \A n \in Node : lease[n] # NoLease => lease[n].expires <= now + TTL

promised == <<now, Holder, Until, grants, [n \in Node |-> 0]>>

LEMMA SameView ==
    ASSUME now' = now, NEW n \in Node, lease'[n] = lease[n] \/ (~Live(n) /\ ~Live(n)')
    PROVE  Holder'[n] = Holder[n] /\ Until'[n] = Until[n]
<1>1. CASE lease'[n] = lease[n]
    BY <1>1 DEF Holder, Until, Live
<1>2. CASE ~Live(n) /\ ~Live(n)'
    <2>1. Holder[n] = NoOwner /\ Until[n] = 0
        BY <1>2 DEF Holder, Until
    <2>2. Holder'[n] = NoOwner /\ Until'[n] = 0
        BY <1>2 DEF Holder, Until
    <2> QED
        BY <2>1, <2>2
<1> QED
    BY <1>1, <1>2

LEMMA SameViews ==
    ASSUME now' = now, \A n \in Node : lease'[n] = lease[n] \/ (~Live(n) /\ ~Live(n)')
    PROVE  UNCHANGED <<Holder, Until>>
<1>1. \A n \in Node : Holder'[n] = Holder[n] /\ Until'[n] = Until[n]
    BY SameView
<1>2. /\ Holder' = [n \in Node |-> Holder'[n]] /\ Holder = [n \in Node |-> Holder[n]]
      /\ Until' = [n \in Node |-> Until'[n]] /\ Until = [n \in Node |-> Until[n]]
    BY DEF Holder, Until
<1> QED
    BY <1>1, <1>2

LEMMA OtherViews ==
    ASSUME now' = now, NEW n \in Node, \A m \in Node \ {n} : lease'[m] = lease[m]
    PROVE  Promise!OnlyLeaseOf(n)
BY SameView DEF Promise!OnlyLeaseOf

LEMMA PromisedAcquire ==
    ASSUME TypeOK, Term, NEW n \in Node, NEW o \in Owner, Acquire(n, o), now' = now
    PROVE  Promise!Renew(n, o) \/ Promise!Grant(n, o)
<1>1. CASE HeldBy(n, o) /\ lease' = [lease EXCEPT ![n].expires = now + TTL]
           /\ UNCHANGED grants
    <2>1. /\ lease[n] \in Lease /\ lease[n].owner = o /\ lease[n].expires > now
          /\ lease[n].expires <= now + TTL
        BY <1>1 DEF TypeOK, HeldBy, Live, Term
    <2>2. /\ lease'[n].owner = o /\ lease'[n].expires = now + TTL
          /\ \A m \in Node \ {n} : lease'[m] = lease[m]
        BY <1>1, <2>1 DEF TypeOK, Lease
    <2>3. lease'[n] # NoLease /\ lease'[n].expires > now'
        <3>1. o # NoOwner
            BY DelegationAssumption DEF Owner
        <3> QED
            BY <2>1, <2>2, <3>1, LeaseType DEF NoLease
    <2>4. Holder[n] = o /\ Until[n] = lease[n].expires
        BY <1>1 DEF Holder, Until, HeldBy
    <2>5. Holder'[n] = o /\ Until'[n] = now + TTL
        BY <2>2, <2>3 DEF Holder, Until, Live
    <2>6. Until'[n] >= Until[n]
        BY <2>1, <2>4, <2>5, LeaseType
    <2> QED
        BY <1>1, <2>2, <2>4, <2>5, <2>6, OtherViews DEF Promise!Renew
<1>2. CASE /\ ~Live(n)
           /\ grants' = [grants EXCEPT ![n] = @ + 1]
           /\ lease' = [lease EXCEPT ![n] =
                 [owner |-> o, gen |-> grants[n] + 1, expires |-> now + TTL]]
    <2>1. /\ lease'[n].owner = o /\ lease'[n].expires = now + TTL
          /\ \A m \in Node \ {n} : lease'[m] = lease[m]
        BY <1>2 DEF TypeOK
    <2>2. Holder[n] = NoOwner
        BY <1>2 DEF Holder
    <2>3. Promise!OnlyLeaseOf(n)
        BY <2>1, OtherViews
    <2>4. CASE Live(n)'
        <3>1. Holder'[n] = o /\ Until'[n] > now
            BY <2>1, <2>4 DEF Holder, Until, Live
        <3> QED
            BY <1>2, <2>2, <2>3, <3>1 DEF Promise!Grant
    <2>5. CASE ~Live(n)'
        <3>1. UNCHANGED <<Holder, Until>>
            BY <1>2, <2>1, <2>5, SameViews
        <3> QED
            BY <1>2, <2>2, <2>3, <3>1 DEF Promise!Grant
    <2> QED
        BY <2>4, <2>5
<1> QED
    BY <1>1, <1>2 DEF Acquire

LEMMA PromisedRelease ==
    ASSUME TypeOK, NEW n \in Node, NEW o \in Owner, Release(n, o), now' = now
    PROVE  Promise!GiveUp(o)
<1>1. ASSUME NEW m \in Node, m # n PROVE lease'[m] = lease[m]
    BY <1>1 DEF Release, TypeOK
<1>2. Holder[n] = o /\ Holder'[n] = NoOwner
    BY DEF Release, HeldBy, Live, Holder, TypeOK
<1>3. UNCHANGED grants
    BY DEF Release
<1> QED
    BY <1>1, <1>2, <1>3, SameView DEF Promise!GiveUp

LEMMA PromisedOperation ==
    ASSUME TypeOK, Term, NEW n \in Node, NEW o \in Owner, Operation(n, o), now' = now
    PROVE  [Promise!Next]_promised
<1>1. CASE Acquire(n, o)
    BY <1>1, PromisedAcquire DEF Promise!Next
<1>2. CASE Release(n, o)
    BY <1>2, PromisedRelease DEF Promise!Next
<1>3. CASE UNCHANGED registries
    BY <1>3, SameViews DEF registries, promised
<1> QED
    BY <1>1, <1>2, <1>3 DEF Operation, Denied, NotHeld

LEMMA PromisedTick ==
    ASSUME TypeOK, Tick
    PROVE  Promise!Tick
<1>1. now' = now + 1 /\ UNCHANGED <<lease, grants>> /\ now \in Nat
    BY DEF Tick, registries, TypeOK
<1>2. ASSUME NEW n \in Node
      PROVE  IF Holder[n] # NoOwner /\ Until[n] > now'
             THEN Holder'[n] = Holder[n] /\ Until'[n] = Until[n]
             ELSE Holder'[n] = NoOwner
    <2>1. CASE Live(n)' /\ Live(n)
        BY <1>1, <2>1 DEF Holder, Until, Live
    <2>2. CASE ~Live(n)' /\ Live(n)
        <3>1. Until[n] = lease[n].expires /\ ~(lease[n].expires > now')
            BY <1>1, <2>2 DEF Until, Live
        <3> QED
            BY <2>2, <3>1 DEF Holder
    <2>3. CASE ~Live(n)
        <3>1. ~Live(n)'
            BY <1>1, <2>3, LeaseType DEF Live
        <3> QED
            BY <2>3, <3>1 DEF Holder
    <2> QED
        BY <2>1, <2>2, <2>3
<1> QED
    BY <1>1, <1>2 DEF Promise!Tick

\* What a step does to the registries: one of them is asked, or time ends a lease.
LEMMA RegistryStep ==
    ASSUME TypeOK, [Next]_vars
    PROVE  \/ \E n \in Node : \E o \in Owner : Operation(n, o) /\ now' = now
           \/ \E n \in Node : Expire(n)
           \/ Tick
           \/ UNCHANGED <<now, lease, grants>>
<1>1. ASSUME NEW t \in Tab, TabStep(t)
      PROVE  \/ Operation("laptop", t) /\ now' = now
             \/ UNCHANGED <<now, lease, grants>>
    BY <1>1 DEF TabStep, AskRemote, UnlockRemote, AskLocal, UnlockLocal, Operation, registries
<1>2. ASSUME NEW c \in calls \cup late, ServerHandles(c) \/ ServerHandlesLate(c)
      PROVE  Operation("server", c.tab) /\ now' = now /\ c.tab \in Owner
    <2>1. c.tab \in Owner
        BY DEF TypeOK, Call, Owner
    <2> QED
        BY <1>2, <2>1 DEF ServerHandles, ServerHandlesLate, Serve, Operation
<1>3. ASSUME NEW c \in calls, EndAsk(c) \/ EndUnlock(c) \/ CallFails(c) \/ CallRejected(c)
      PROVE  UNCHANGED <<now, lease, grants>>
    BY <1>3 DEF EndAsk, EndUnlock, CallFails, CallRejected, registries
<1>4. ASSUME NEW s \in Seat, SeatAsks(s) \/ SeatUnlocks(s)
      PROVE  Operation("server", s) /\ now' = now
    BY <1>4 DEF SeatAsks, SeatUnlocks, Operation
<1>5. ASSUME NEW n \in Node, HandleNotice(n) PROVE UNCHANGED <<now, lease, grants>>
    BY <1>5 DEF HandleNotice
<1>6. ASSUME NoticeLost \/ \E v \in {"online", "offline"} : DaemonSays(v)
      PROVE  UNCHANGED <<now, lease, grants>>
    BY <1>6 DEF NoticeLost, DaemonSays, registries
<1>7. ASSUME UNCHANGED vars PROVE UNCHANGED <<now, lease, grants>>
    BY <1>7 DEF vars, registries
<1>8. ASSUME CallStep
      PROVE  \/ \E o \in Owner : Operation("server", o) /\ now' = now
             \/ UNCHANGED <<now, lease, grants>>
    BY <1>2, <1>3, <1>8 DEF CallStep
<1> QED
    BY <1>1, <1>4, <1>5, <1>6, <1>7, <1>8 DEF Next, Node, Owner

LEMMA PromisedStep ==
    ASSUME TypeOK, Term, [Next]_vars
    PROVE  [Promise!Next]_promised
<1>1. ASSUME NEW n \in Node, Expire(n) PROVE UNCHANGED promised
    <2>1. now' = now /\ grants' = grants
        BY <1>1 DEF Expire
    <2>2. \A m \in Node : lease'[m] = lease[m] \/ (~Live(m) /\ ~Live(m)')
        BY <1>1 DEF Expire, Live, TypeOK
    <2> QED
        BY <2>1, <2>2, SameViews DEF promised
<1>2. CASE Tick
    BY <1>2, PromisedTick DEF Promise!Next
<1>3. CASE UNCHANGED <<now, lease, grants>>
    BY <1>3, SameViews DEF promised
<1> QED
    BY <1>1, <1>2, <1>3, PromisedOperation, RegistryStep

LEMMA TermStep ==
    ASSUME TypeOK, Term, [Next]_vars
    PROVE  Term'
<1>1. ASSUME NEW m \in Node PROVE lease[m].expires \in Nat /\ now \in Nat /\ TTL \in Nat
    BY LeaseType, DelegationAssumption
<1>2. ASSUME NEW n \in Node, NEW o \in Owner, Operation(n, o), NEW m \in Node
      PROVE  lease'[m] \in {lease[m], NoLease} \/ lease'[m].expires = now + TTL
    <2>1. CASE m = n /\ HeldBy(n, o) /\ lease' = [lease EXCEPT ![n].expires = now + TTL]
        <3>1. lease[n] \in Lease
            BY <2>1 DEF TypeOK, HeldBy, Live
        <3> QED
            BY <2>1, <3>1 DEF TypeOK, Lease
    <2> QED
        BY <1>2, <2>1 DEF Operation, Acquire, Denied, Release, NotHeld, registries, TypeOK
<1>3. ASSUME NEW n \in Node, Expire(n), NEW m \in Node
      PROVE  lease'[m] \in {lease[m], NoLease}
    BY <1>3 DEF Expire, TypeOK
<1>4. /\ now' \in {now, now + 1}
      /\ \A m \in Node : lease'[m] \in {lease[m], NoLease} \/ lease'[m].expires = now + TTL
    BY <1>2, <1>3, RegistryStep DEF Tick, registries, Expire
<1> QED
    BY <1>1, <1>4 DEF Term

LEMMA PromisedInit == Init => Promise!Init /\ Term
BY DEF Init, Promise!Init, Holder, Until, Live, Term

\* However calls are lost, late or repeated, each node's registry is a lock with fenced
\* leases, as LockRegistry is: both modules implement FencedLease.
THEOREM RegistriesImplementLease == Spec => RegistriesFenced
<1>1. Init => Promise!Init /\ Term
    BY PromisedInit
<1>2. TypeOK /\ Term /\ [Next]_vars => Term' /\ [Promise!Next]_promised
    BY PromisedStep, TermStep
<1> QED
    BY <1>1, <1>2, TypeCorrect, PTL DEF Spec, RegistriesFenced, Promise!Spec, promised

=============================================================================
