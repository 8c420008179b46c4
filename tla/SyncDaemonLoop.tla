---------------------------- MODULE SyncDaemonLoop ----------------------------
(***************************************************************************)
(* The main loop of the laptop's sync daemon (services/sync_daemon.py): it *)
(* waits for its wake event or for a tick, decides whether a cycle is due, *)
(* and runs one in a worker thread: handshake, gates, push, pull.  Around  *)
(* it, on the event loop, are the subscription to the server's             *)
(* announcements, the routes that pause and trigger it, and lock calls,    *)
(* which share its verdict on the network.  What the rows hold is RowSync's *)
(* business: here the nodes have something for each other or they do not.  *)
(***************************************************************************)
EXTENDS Naturals

CONSTANTS Backoff,    \* SYNC_OFFLINE_BACKOFF_SECONDS in ticks
          Poll,       \* SYNC_POLL_SECONDS in ticks
          MaxWrites,  \* bound of the runs: writes on either node
          MaxEvents   \* bound of the runs: faults, restarts and routes called

ASSUME LoopAssumption ==
    /\ Backoff \in Nat \ {0} /\ Poll \in Nat \ {0} /\ Backoff <= Poll
    /\ MaxWrites \in Nat /\ MaxEvents \in Nat

VARIABLES up,            \* the server can be reached
          gate,          \* why a cycle may not exchange rows, or "open"
          local, remote, \* there is something to push, something to pull
          paused,        \* sync_state.paused
          issues,        \* kinds of gate with an open row in sync_issues
          wake,          \* SyncDaemon._wake
          phase,         \* where the loop is
          sinceAttempt, sinceCycle, \* ticks since _last_attempt_at, _last_cycle_at
          online, blocked, \* SyncRuntime
          delegating,    \* a lock call is under way
          subscribed,    \* the daemon's socket is connected
          mail,          \* syncChanged is on its way
          heard,         \* history: announced since the last pull was answered
          writes, events

net == <<up, gate>>
data == <<local, remote, paused, issues>>
ages == <<sinceAttempt, sinceCycle>>
runtime == <<online, blocked>>
socket == <<subscribed, mail>>
counts == <<writes, events>>
vars == <<net, data, wake, phase, ages, runtime, delegating, socket, heard, counts>>

Gates == {"clock", "identity"}

Capped(age) == IF age < Backoff THEN age ELSE Backoff

Flags ==
    /\ up \in BOOLEAN /\ local \in BOOLEAN /\ remote \in BOOLEAN /\ paused \in BOOLEAN
    /\ wake \in BOOLEAN /\ online \in BOOLEAN /\ delegating \in BOOLEAN
    /\ subscribed \in BOOLEAN /\ mail \in BOOLEAN /\ heard \in BOOLEAN

Marks ==
    /\ gate \in Gates \cup {"open"}
    /\ issues \subseteq Gates
    /\ phase \in {"asleep", "handshake", "recheck", "push", "pull", "close", "book", "store"}
    /\ sinceAttempt \in 0 .. Backoff /\ sinceCycle \in 0 .. Poll
    /\ blocked \in Gates \cup {"peer_rejected", "no"}
    /\ writes \in 0 .. MaxWrites /\ events \in 0 .. MaxEvents

TypeOK == Flags /\ Marks

\* A process starts with fresh attributes: its last attempt and its last cycle
\* are at monotonic time 0, the boot of the laptop, u ticks ago.
Init ==
    /\ up \in BOOLEAN /\ gate \in Gates \cup {"open"}
    /\ local \in BOOLEAN /\ remote \in BOOLEAN /\ paused = FALSE
    /\ issues = {} /\ writes = 0 /\ events = 0
    /\ wake = FALSE /\ phase = "asleep"
    /\ \E u \in 0 .. Poll : sinceAttempt = Capped(u) /\ sinceCycle = u
    /\ online = FALSE /\ blocked = "no" /\ delegating = FALSE
    /\ subscribed = FALSE /\ mail = FALSE /\ heard = FALSE

\* Something that need not happen does.
Event == events < MaxEvents /\ events' = events + 1

---------------------------------------------------------------------------
(* When to cycle *)

\* Mutant: while offline, only a local write makes the daemon try again.
ShouldCycleOnline(attempt, cycle) == ~paused /\ (local \/ (online /\ cycle >= Poll))

\* Pending rows are tried at every tick, online or not.
ShouldCycle(attempt, cycle) ==
    /\ ~paused
    /\ \/ local
       \/ ~online /\ attempt >= Backoff
       \/ online /\ cycle >= Poll

Older(age, limit) == IF age < limit THEN age + 1 ELSE limit

\* The wait timed out: a tick has passed.
Tick ==
    /\ phase = "asleep" /\ ~wake
    /\ LET attempt == Older(sinceAttempt, Backoff)
           cycle == Older(sinceCycle, Poll)
       IN  /\ sinceCycle' = cycle
           /\ \/ /\ ShouldCycle(attempt, cycle)
                 /\ phase' = "handshake" /\ sinceAttempt' = 0
              \/ /\ ~ShouldCycle(attempt, cycle)
                 /\ phase' = "asleep" /\ sinceAttempt' = attempt
    /\ UNCHANGED <<net, data, wake, runtime, delegating, socket, heard, counts>>

\* The event was set: it is cleared before the cycle, and nothing else is asked.
Woken ==
    /\ phase = "asleep" /\ wake
    /\ wake' = FALSE /\ phase' = "handshake" /\ sinceAttempt' = 0
    /\ UNCHANGED <<net, data, sinceCycle, runtime, delegating, socket, heard, counts>>

---------------------------------------------------------------------------
(* One cycle *)

\* The schema, the owner's identity and the clocks of both nodes agree.
Handshake ==
    /\ phase = "handshake" /\ up /\ gate = "open"
    /\ phase' = "push"
    /\ UNCHANGED <<net, data, wake, ages, runtime, delegating, socket, heard, counts>>

\* A skewed clock is measured once more after a pause.
MeasureAgain ==
    /\ phase = "handshake" /\ up /\ gate = "clock"
    /\ phase' = "recheck"
    /\ UNCHANGED <<net, data, wake, ages, runtime, delegating, socket, heard, counts>>

Spike ==
    /\ phase = "recheck" /\ up /\ gate = "open"
    /\ phase' = "push"
    /\ UNCHANGED <<net, data, wake, ages, runtime, delegating, socket, heard, counts>>

Block(reason) ==
    /\ online' = TRUE /\ blocked' = reason /\ phase' = "store" /\ heard' = FALSE
    /\ UNCHANGED <<net, data, wake, ages, delegating, socket>>

\* SyncBlocked; a failed second measurement blocks as well, reachable or not.
GateShut ==
    /\ \/ /\ phase \in {"handshake", "recheck"} /\ up /\ gate = "identity"
          /\ Block("identity")
       \/ phase = "recheck" /\ (~up \/ gate = "clock") /\ Block("clock")
    /\ UNCHANGED counts

\* The cycle is about to call the server; a push of nothing does not.
Asks == phase \in {"handshake", "pull"} \/ (phase = "push" /\ local)

\* SyncPeerError: the server refuses the credential or the push.
Rejected ==
    /\ Asks /\ up /\ Event /\ Block("peer_rejected")
    /\ UNCHANGED writes

\* Mutant: every reason leaves an issue, and nothing resolves it.
StoreAny ==
    /\ phase = "store" /\ phase' = "asleep"
    /\ issues' = issues \cup {blocked}
    /\ UNCHANGED <<net, local, remote, paused, wake, ages, runtime, delegating, socket,
                   heard, counts>>

\* Only the gates leave an issue; a rejection leaves a line in sync_state.
StoreBlocked ==
    /\ phase = "store" /\ phase' = "asleep"
    /\ issues' = issues \cup ({blocked} \cap Gates)
    /\ UNCHANGED <<net, local, remote, paused, wake, ages, runtime, delegating, socket,
                   heard, counts>>

\* Mutant: caught together with the server's refusals.
UnreachableRejected ==
    /\ Asks /\ ~up
    /\ Block("peer_rejected") /\ UNCHANGED counts

\* SyncPeerUnreachable
Unreachable ==
    /\ Asks /\ ~up
    /\ online' = FALSE /\ phase' = "asleep" /\ heard' = FALSE
    /\ UNCHANGED <<net, data, wake, ages, blocked, delegating, socket, counts>>

\* A lost connection to the database, or an error of the HTTP client: the loop
\* logs it and knows nothing of it.
Raises ==
    /\ phase \notin {"asleep", "book"} /\ Event
    /\ phase' = "asleep" /\ heard' = FALSE
    /\ UNCHANGED <<net, data, wake, ages, runtime, delegating, socket, writes>>

\* Conflicts leave versions on the node that keeps the other's row.
MayConflict(side) == side' = TRUE /\ writes < MaxWrites /\ writes' = writes + 1

PushRounds ==
    /\ phase = "push" /\ (up \/ ~local)
    /\ local' = FALSE /\ phase' = "pull"
    /\ mail' = (mail \/ (local /\ subscribed))
    /\ \/ UNCHANGED <<remote, writes>>
       \/ local /\ MayConflict(remote)
    /\ UNCHANGED <<net, paused, issues, wake, ages, runtime, delegating, subscribed,
                   heard, events>>

PullRounds ==
    /\ phase = "pull" /\ up
    /\ remote' = FALSE /\ heard' = FALSE /\ phase' = "close"
    /\ \/ UNCHANGED <<local, writes>>
       \/ remote /\ MayConflict(local)
    /\ UNCHANGED <<net, paused, issues, wake, ages, runtime, delegating, socket, events>>

\* Still in the thread: the gates were open, so their issues are settled.
ResolveStaleGateIssues ==
    /\ phase = "close" /\ phase' = "book"
    /\ issues' = {}
    /\ UNCHANGED <<net, local, remote, paused, wake, ages, runtime, delegating, socket,
                   heard, counts>>

\* Mutant: the wake event is cleared when the cycle is over.
MarkCycleAndClear ==
    /\ phase = "book" /\ phase' = "asleep"
    /\ sinceCycle' = 0 /\ online' = TRUE /\ blocked' = "no" /\ wake' = FALSE
    /\ UNCHANGED <<net, data, sinceAttempt, delegating, socket, heard, counts>>

\* Back on the event loop.
MarkCycle ==
    /\ phase = "book" /\ phase' = "asleep"
    /\ sinceCycle' = 0 /\ online' = TRUE /\ blocked' = "no"
    /\ UNCHANGED <<net, data, wake, sinceAttempt, delegating, socket, heard, counts>>

Loop ==
    \/ Tick \/ Woken \/ Handshake \/ MeasureAgain \/ Spike \/ GateShut \/ StoreBlocked
    \/ Unreachable \/ PushRounds \/ PullRounds \/ ResolveStaleGateIssues \/ MarkCycle

---------------------------------------------------------------------------
(* The subscription *)

\* A write through the server's API; emit_sync_changed tells who is subscribed.
ServerWrites ==
    /\ writes < MaxWrites /\ writes' = writes + 1
    /\ remote' = TRUE /\ mail' = (mail \/ subscribed)
    /\ UNCHANGED <<net, local, paused, issues, wake, phase, ages, runtime, delegating,
                   subscribed, heard, events>>

OnSyncChanged ==
    /\ mail /\ mail' = FALSE
    /\ wake' = TRUE /\ heard' = remote
    /\ UNCHANGED <<net, data, phase, ages, runtime, delegating, subscribed, counts>>

Subscribe ==
    /\ up /\ ~subscribed /\ subscribed' = TRUE
    /\ UNCHANGED <<net, data, wake, phase, ages, runtime, delegating, mail, heard, counts>>

\* What was on its way is lost.
Unsubscribed ==
    /\ subscribed /\ subscribed' = FALSE /\ mail' = FALSE
    /\ \/ ~up /\ UNCHANGED counts
       \/ up /\ Event /\ UNCHANGED writes
    /\ UNCHANGED <<net, data, wake, phase, ages, runtime, delegating, heard>>

---------------------------------------------------------------------------
(* Users, the network, and the process *)

LocalWrites ==
    /\ writes < MaxWrites /\ writes' = writes + 1
    /\ local' = TRUE
    /\ UNCHANGED <<net, remote, paused, issues, wake, phase, ages, runtime, delegating,
                   socket, heard, events>>

SyncPause ==
    /\ Event /\ paused' = ~paused
    /\ UNCHANGED <<net, local, remote, issues, wake, phase, ages, runtime, delegating,
                   socket, heard, writes>>

SyncTrigger ==
    /\ Event /\ wake' = TRUE
    /\ UNCHANGED <<net, data, phase, ages, runtime, delegating, socket, heard, writes>>

DelegateLock ==
    /\ online /\ ~delegating /\ delegating' = TRUE
    /\ UNCHANGED <<net, data, wake, phase, ages, runtime, socket, heard, counts>>

LockAnswered ==
    /\ delegating /\ up /\ delegating' = FALSE
    /\ UNCHANGED <<net, data, wake, phase, ages, runtime, socket, heard, counts>>

\* It may also time out while the daemon's own calls go through.
LockUnreachable ==
    /\ delegating /\ delegating' = FALSE /\ online' = FALSE
    /\ \/ ~up /\ UNCHANGED counts
       \/ up /\ Event /\ UNCHANGED writes
    /\ UNCHANGED <<net, data, wake, phase, ages, blocked, socket, heard>>

NetworkChanges ==
    /\ Event
    /\ \/ up' = ~up /\ gate' = gate
       \/ gate' \in (Gates \cup {"open"}) \ {gate} /\ up' = up
    /\ UNCHANGED <<data, wake, phase, ages, runtime, delegating, socket, heard, writes>>

\* The process ends anywhere and starts again; the database is as it was.
Restart ==
    /\ Event
    /\ wake' = FALSE /\ phase' = "asleep"
    /\ \E u \in 0 .. Poll : sinceAttempt' = Capped(u) /\ sinceCycle' = u
    /\ online' = FALSE /\ blocked' = "no" /\ delegating' = FALSE
    /\ subscribed' = FALSE /\ mail' = FALSE /\ heard' = FALSE
    /\ UNCHANGED <<net, data, writes>>

Next ==
    \/ Loop \/ Rejected \/ Raises
    \/ ServerWrites \/ OnSyncChanged \/ Subscribe \/ Unsubscribed
    \/ LocalWrites \/ SyncPause \/ SyncTrigger
    \/ DelegateLock \/ LockAnswered \/ LockUnreachable
    \/ NetworkChanges \/ Restart

Spec == Init /\ [][Next]_vars

\* The loop is never cancelled, and every await in it has a timeout.  The
\* subscription, users and lock calls promise nothing.
FairSpec == Spec /\ WF_vars(Loop)

---------------------------------------------------------------------------
(* Properties *)

\* An announcement is not lost between the event and the cycle: while the loop
\* sleeps, what was announced and is still to be pulled has the event set,
\* unless a cycle has failed since, when polling takes over (run, on_sync_changed).
AnnouncementKept == phase = "asleep" /\ heard => wake

\* When the server stays reachable and the gates stay open, both directions are
\* emptied, the runtime says so and no gate issue is left, whatever was lost,
\* refused or interrupted before (_should_cycle, run_once, _resolve_stale_gate_issues).
EventuallySynced ==
    <>[](up /\ gate = "open" /\ ~paused)
        => <>[](~local /\ ~remote /\ online /\ blocked = "no" /\ issues = {})

\* When the server stays out of reach, the laptop ends up offline for good, so
\* that its locks fall back to the local registry (mark_offline, _delegate_lock).
OfflineNoticed == <>[](~up /\ ~paused) => <>[]~online
=============================================================================
