------------------------- MODULE SyncDaemonLoop_proofs -------------------------
(***************************************************************************)
(* Theorems about the daemon's loop, for all intervals and bounds.         *)
(***************************************************************************)
EXTENDS SyncDaemonLoop, TLAPS

(***************************************************************************)
(* The attributes of the daemon, of the runtime and of sync_state keep     *)
(* their shape.                                                            *)
(***************************************************************************)
LEMMA InitFlags == Init => Flags
BY DEF Init, Flags

LEMMA InitMarks == Init => Marks
BY LoopAssumption DEF Init, Marks, Gates, Capped

LEMMA StepFlags == Flags /\ [Next]_vars => Flags'
<1> SUFFICES ASSUME Flags, [Next]_vars PROVE Flags'
    OBVIOUS
<1> USE DEF Flags, net, data, ages, runtime, socket, counts
<1>1. CASE Tick
    BY ZenonT(60), <1>1 DEF Tick
<1>2. CASE Woken \/ Handshake \/ MeasureAgain \/ Spike
    BY ZenonT(60), <1>2 DEF Woken, Handshake, MeasureAgain, Spike
<1>3. CASE GateShut \/ StoreBlocked \/ Unreachable
    BY ZenonT(60), <1>3 DEF GateShut, Block, StoreBlocked, Unreachable
<1>4. CASE PushRounds \/ PullRounds
    BY ZenonT(60), <1>4 DEF PushRounds, PullRounds, MayConflict
<1>5. CASE ResolveStaleGateIssues \/ MarkCycle
    BY ZenonT(60), <1>5 DEF ResolveStaleGateIssues, MarkCycle
<1>6. CASE Rejected \/ Raises
    BY ZenonT(60), <1>6 DEF Rejected, Raises, Block, Event
<1>7. CASE ServerWrites \/ OnSyncChanged \/ Subscribe \/ Unsubscribed
    BY ZenonT(60), <1>7 DEF ServerWrites, OnSyncChanged, Subscribe, Unsubscribed, Event
<1>8. CASE LocalWrites \/ SyncPause \/ SyncTrigger
    BY ZenonT(60), <1>8 DEF LocalWrites, SyncPause, SyncTrigger, Event
<1>9. CASE DelegateLock \/ LockAnswered \/ LockUnreachable
    BY ZenonT(60), <1>9 DEF DelegateLock, LockAnswered, LockUnreachable, Event
<1>10. CASE NetworkChanges \/ Restart
    BY ZenonT(60), <1>10 DEF NetworkChanges, Restart, Event
<1>11. CASE UNCHANGED vars
    BY ZenonT(60), <1>11 DEF vars
<1> QED
    BY <1>1, <1>2, <1>3, <1>4, <1>5, <1>6, <1>7, <1>8, <1>9, <1>10, <1>11 DEF Next, Loop

LEMMA StepMarks == Marks /\ [Next]_vars => Marks'
<1> SUFFICES ASSUME Marks, [Next]_vars PROVE Marks'
    OBVIOUS
<1> USE LoopAssumption DEF Marks, net, data, ages, runtime, socket, counts
<1>1. CASE Tick
    BY <1>1 DEF Tick, Older
<1>2. CASE Woken \/ Handshake \/ MeasureAgain \/ Spike
    BY <1>2 DEF Woken, Handshake, MeasureAgain, Spike
<1>3. CASE GateShut \/ StoreBlocked \/ Unreachable
    <2>1. "identity" \in Gates /\ "clock" \in Gates
        BY DEF Gates
    <2> QED
        BY <1>3, <2>1 DEF GateShut, Block, StoreBlocked, Unreachable
<1>4. CASE PushRounds \/ PullRounds
    BY <1>4 DEF PushRounds, PullRounds, MayConflict
<1>5. CASE ResolveStaleGateIssues \/ MarkCycle
    BY <1>5 DEF ResolveStaleGateIssues, MarkCycle
<1>6. CASE Rejected \/ Raises
    BY <1>6 DEF Rejected, Raises, Block, Event
<1>7. CASE ServerWrites \/ OnSyncChanged \/ Subscribe \/ Unsubscribed
    BY <1>7 DEF ServerWrites, OnSyncChanged, Subscribe, Unsubscribed, Event
<1>8. CASE LocalWrites \/ SyncPause \/ SyncTrigger
    BY <1>8 DEF LocalWrites, SyncPause, SyncTrigger, Event
<1>9. CASE DelegateLock \/ LockAnswered \/ LockUnreachable
    BY <1>9 DEF DelegateLock, LockAnswered, LockUnreachable, Event
<1>10. CASE NetworkChanges \/ Restart
    BY <1>10 DEF NetworkChanges, Restart, Event, Capped
<1>11. CASE UNCHANGED vars
    BY <1>11 DEF vars
<1> QED
    BY <1>1, <1>2, <1>3, <1>4, <1>5, <1>6, <1>7, <1>8, <1>9, <1>10, <1>11 DEF Next, Loop

\* Every reachable state of the loop has the shape of the daemon's attributes
\* and of its rows in sync_state and sync_issues (SyncDaemon, SyncRuntime).
THEOREM TypeCorrect == Spec => []TypeOK
<1>1. Init => TypeOK
    BY InitFlags, InitMarks DEF TypeOK
<1>2. TypeOK /\ [Next]_vars => TypeOK'
    BY StepFlags, StepMarks DEF TypeOK
<1> QED
    BY <1>1, <1>2, PTL DEF Spec

(***************************************************************************)
(* No lost wake-up.  The event may be clear while a change is announced    *)
(* only from the start of a cycle to the answer of its pull: the event is  *)
(* cleared before the cycle, not after it.                                 *)
(***************************************************************************)
AnnouncementInv ==
    phase \in {"asleep", "store", "close", "book"} /\ heard => wake

LEMMA InitAnnouncement == Init => AnnouncementInv
BY DEF Init, AnnouncementInv

LEMMA StepAnnouncement == AnnouncementInv /\ [Next]_vars => AnnouncementInv'
<1> SUFFICES ASSUME AnnouncementInv, [Next]_vars PROVE AnnouncementInv'
    OBVIOUS
<1> USE DEF AnnouncementInv, net, data, ages, runtime, socket, counts
<1>1. CASE Tick \/ Woken \/ Handshake \/ MeasureAgain \/ Spike
    BY <1>1 DEF Tick, Woken, Handshake, MeasureAgain, Spike
<1>2. CASE GateShut \/ Rejected
    BY <1>2 DEF GateShut, Rejected, Block
<1>3. CASE StoreBlocked \/ Unreachable \/ Raises
    BY <1>3 DEF StoreBlocked, Unreachable, Raises
<1>4. CASE PushRounds \/ PullRounds
    BY <1>4 DEF PushRounds, PullRounds
<1>5. CASE ResolveStaleGateIssues \/ MarkCycle
    BY <1>5 DEF ResolveStaleGateIssues, MarkCycle
<1>6. CASE ServerWrites \/ OnSyncChanged \/ Subscribe \/ Unsubscribed
    BY <1>6 DEF ServerWrites, OnSyncChanged, Subscribe, Unsubscribed
<1>7. CASE LocalWrites \/ SyncPause \/ SyncTrigger
    BY <1>7 DEF LocalWrites, SyncPause, SyncTrigger
<1>8. CASE DelegateLock \/ LockAnswered \/ LockUnreachable
    BY <1>8 DEF DelegateLock, LockAnswered, LockUnreachable
<1>9. CASE NetworkChanges \/ Restart
    BY <1>9 DEF NetworkChanges, Restart
<1>10. CASE UNCHANGED vars
    BY <1>10 DEF vars
<1> QED
    BY <1>1, <1>2, <1>3, <1>4, <1>5, <1>6, <1>7, <1>8, <1>9, <1>10 DEF Next, Loop

\* While the loop sleeps, an announced change that is still to be pulled has the
\* event set, unless a cycle has failed since (run, on_sync_changed).
THEOREM AnnouncementsKept == Spec => []AnnouncementKept
<1>1. Init => AnnouncementInv
    BY InitAnnouncement
<1>2. AnnouncementInv /\ [Next]_vars => AnnouncementInv'
    BY StepAnnouncement
<1>3. AnnouncementInv => AnnouncementKept
    BY DEF AnnouncementInv, AnnouncementKept
<1> QED
    BY <1>1, <1>2, <1>3, PTL DEF Spec
=============================================================================
