------------------------------- MODULE RowSync -------------------------------
(***************************************************************************)
(* Row replication between the laptop ("client", which runs SyncDaemon) and *)
(* the NAS ("server", which serves /api/sync): the trigger-filled           *)
(* change_log, the immutable outbox (sync_retry_queue, direction 'push'),   *)
(* delivery over a network that loses, delays and duplicates requests, the  *)
(* server's receipts, last-writer-wins application with preservation of the *)
(* losing memo body in memo_versions, and the pull of the server's feed.    *)
(*                                                                         *)
(* A memo body is a number: each PUT writes a body never written before.    *)
(* The rows are the memos <<m, 0>> and their versions <<m, i>>, i > 0; their *)
(* project exists on both nodes.  Sequence numbers are positions in the     *)
(* change_log (rows become visible in seq order; the gap left by an         *)
(* uncommitted transaction is another module's subject).                    *)
(***************************************************************************)
EXTENDS Integers, FiniteSets, Sequences

CONSTANTS
    Memo,         \* memos that may exist
    Bootstrapped, \* those both nodes hold when the laptop has just bootstrapped
    MaxEdits,     \* bound: API writes, on both nodes together
    MaxAborts,    \* bound: cycles cut short by the network or a restart
    MaxFailures,  \* bound: rows whose application raises (lock wait timeout...)
    BatchLimit,   \* SYNC_BATCH_LIMIT
    Gaps,         \* ticks that may pass between two writes (0: same millisecond)
    Skew          \* client clock minus server clock

ASSUME ConstantsAssumption ==
    /\ Bootstrapped \subseteq Memo /\ IsFiniteSet(Bootstrapped)
    /\ MaxEdits \in Nat
    /\ MaxAborts \in Nat
    /\ MaxFailures \in Nat
    /\ BatchLimit \in Nat \ {0}
    /\ Gaps \subseteq Nat
    /\ Skew \in Int

VARIABLES
    rows,      \* rows[n]: the rows of node n's database, a function on their keys
    log,       \* log[n]: change_log of node n, a sequence of row keys
    ids,       \* version ids generated so far (generate_id, on any node)
    conflicts, \* conflicts recorded in sync_issues, with the body that lost
    now,       \* real time, in clock ticks
    edits,     \* API writes so far; also the last memo body written
    pushed,    \* sync_state.last_pushed_seq
    pulled,    \* sync_state.last_pulled_seq
    outbox,    \* sync_retry_queue, direction 'push'
    dead,      \* sync_retry_queue, direction 'pushdead'
    inbox,     \* sync_retry_queue, direction 'pull': versions without their memo
    pulldead,  \* sync_retry_queue, direction 'pulldead'
    base,      \* sync_row_state: clock and peer seq last agreed, per row
    receipts,  \* sync_receipts of the server
    pc,        \* where the daemon's cycle is
    todo,      \* seqs _retry_push_queue still has to deliver in this pass
    request,   \* the push request on the wire, or NoMsg
    reply,     \* its answer, or NoMsg
    stale,     \* requests the client gave up on and the server may still get
    feed,      \* the answer of GET /changes to be applied, or NoMsg
    view,      \* the laptop's rows as the open transaction of a pull sees them
    aborts,    \* cycles aborted so far
    failures,  \* row failures so far
    applies    \* history: how often the server ran _apply_one for a push

database == <<rows, log, ids, conflicts>>
disk     == <<pushed, pulled, outbox, dead, inbox, pulldead, base>>
wire     == <<request, reply, stale, feed, view>>
vars == <<database, now, edits, disk, receipts, pc, todo, wire, aborts,
          failures, applies>>

Node == {"client", "server"}
Key  == Memo \X Nat

MemoKey(m) == <<m, 0>>
IsMemo(k)  == k[2] = 0

\* `by` is the node whose API wrote the row; it only relates clk to real time.
Row    == [val: Nat, clk: Int, del: BOOLEAN, by: Node]
Columns(row) == <<row.val, row.clk, row.del>>
Base   == [clk: Int, seq: Int]
NoBase == [clk |-> 0, seq |-> -1]
NoMsg  == [seq |-> 0]
NoRows == << >>
Empty  == 0                     \* the body of a memo just created

Peer(n)   == IF n = "client" THEN "server" ELSE "client"
SkewOf(n) == IF n = "client" THEN Skew ELSE 0

Change == [seq: Nat \ {0}, key: Key, row: Row, base: Base]
Status == {"applied", "skipped", "rejected"}
Receipt == [seq: Nat \ {0}, change: Change, status: Status, clk: Int]
Reply   == [seq: Nat \ {0}, status: Status \cup {"refused"}, clk: Int]

Greatest(i, j) == IF i > j THEN i ELSE j

\* How far apart two clocks are.
Apart(i, j) == Greatest(i - j, j - i)

\* INSERT or UPDATE of the row with key k.
Upsert(t, k, row) == [x \in DOMAIN t \cup {k} |-> IF x = k THEN row ELSE t[x]]

-----------------------------------------------------------------------------
(* The change feed: what read_changes and collect_local_changes select.     *)

ScanEnd(l, since) == IF since + BatchLimit < Len(l) THEN since + BatchLimit ELSE Len(l)

\* Mutant: `seq >= since` instead of `seq > since`.
ScannedInclusive(l, since) ==
    {s \in 1 .. ScanEnd(l, since) :
        s >= since /\ \A t \in s + 1 .. ScanEnd(l, since) : l[t] # l[s]}

\* Mutant: the first entry of each row is kept instead of the last one.
ScannedFirst(l, since) ==
    {s \in since + 1 .. ScanEnd(l, since) : \A t \in since + 1 .. s - 1 : l[t] # l[s]}

\* The entries scanned after `since`, only the last one of each row kept.
Scanned(l, since) ==
    {s \in since + 1 .. ScanEnd(l, since) :
        \A t \in s + 1 .. ScanEnd(l, since) : l[t] # l[s]}

\* Entry s is the last one of its row.
IsLatest(l, s) == \A t \in s + 1 .. Len(l) : l[t] # l[s]

BaseOf(k) == IF k \in DOMAIN base THEN base[k] ELSE NoBase

-----------------------------------------------------------------------------
(* sync_apply: what applying changes from `side` does to a database          *)
(* [rows, seen, log, ids, conflicts], where `seen` are the rows as the        *)
(* transaction reads them: its SELECTs lock nothing and see the snapshot of   *)
(* the first, its INSERTs and UPDATEs meet the rows as they are.  A batch     *)
(* holds at most one change per row, memos come before versions, and a        *)
(* memo's outcome depends on no other row of the batch: apply_changes is      *)
(* given here by each row's own outcome.                                     *)

Exists(db, c)   == c.key \in DOMAIN db.seen
SameRow(db, c)  == Exists(db, c) /\ Columns(db.seen[c.key]) = Columns(c.row)

\* Mutant: the incoming row replaces the local one whatever its clock.
IncomingWinsAlways(db, c, side) == TRUE

\* Mutant: of two rows of the same clock each node keeps its own.
IncomingWinsNewer(db, c, side) == c.row.clk > db.seen[c.key].clk

IncomingWins(db, c, side) ==
    \/ c.row.clk > db.seen[c.key].clk
    \/ c.row.clk = db.seen[c.key].clk /\ side = "server"

\* Both sides changed the row since the clock, or the peer seq, last agreed.
IsTrueDivergence(db, c, side) ==
    IF side = "client" /\ c.base # NoBase
    THEN \E s \in 1 .. Len(db.log) : db.log[s] = c.key /\ s > c.base.seq
    ELSE \/ c.base = NoBase
         \/ db.seen[c.key].clk # c.base.clk /\ c.row.clk # c.base.clk

Conflicts(db, c, side) ==
    /\ Exists(db, c) /\ ~SameRow(db, c)
    /\ IsMemo(c.key) /\ IsTrueDivergence(db, c, side)

IsWritten(db, c, side) ==
    ~Exists(db, c) \/ (~SameRow(db, c) /\ IncomingWins(db, c, side))

LoserBody(db, c, side) ==
    IF IncomingWins(db, c, side) THEN db.seen[c.key].val ELSE c.row.val

\* Mutant: any version of the memo passes for a copy of the loser.
HasVersionAny(db, m, val) == \E k \in DOMAIN db.seen : k[1] = m /\ ~IsMemo(k)

HasVersion(db, m, val) ==
    \E k \in DOMAIN db.seen : k[1] = m /\ ~IsMemo(k) /\ db.seen[k].val = val

VersionRow(n, val, t) == [val |-> val, clk |-> t + SkewOf(n), del |-> FALSE, by |-> n]

\* Conflicts whose loser no version holds yet: _preserve_conflict_content adds
\* one, with a fresh id, and logs it so that the peer gets it too.
Preserved(db, changes, side) ==
    {c \in changes : Conflicts(db, c, side) /\ ~HasVersion(db, c.key[1], LoserBody(db, c, side))}

\* Mutant: the last conflict of the batch gets the first version id.
RankReversed(S, c) == Cardinality({d \in S : d.seq >= c.seq})

Rank(S, c) == Cardinality({d \in S : d.seq <= c.seq})

VersionKey(db, S, c) == <<c.key[1], db.ids + Rank(S, c)>>

ApplyChanges(db, changes, side) ==
    LET kept == Preserved(db, changes, side)
        Saved(k) == {c \in kept : VersionKey(db, kept, c) = k}
        Written(k) == {c \in changes : c.key = k /\ IsWritten(db, c, side)}
    IN  [rows |-> [k \in DOMAIN db.rows \cup {c.key : c \in UNION {Written(c.key) : c \in changes}}
                         \cup {VersionKey(db, kept, c) : c \in kept} |->
                    IF \E c \in kept : VersionKey(db, kept, c) = k
                    THEN VersionRow(Peer(side), LoserBody(db, CHOOSE c \in Saved(k) : TRUE, side), now)
                    ELSE IF Written(k) = {} THEN db.rows[k]
                    ELSE (CHOOSE c \in Written(k) : TRUE).row],
         log |-> db.log \o [i \in 1 .. Cardinality(kept) |->
                    VersionKey(db, kept, CHOOSE c \in kept : Rank(kept, c) = i)],
         ids |-> db.ids + Cardinality(kept),
         conflicts |-> db.conflicts \cup
             {[memo |-> c.key[1], lost |-> LoserBody(db, c, side)] :
                 c \in {d \in changes : Conflicts(db, d, side)}}]

\* effectiveUpdatedAtUtc: the row's clock once the change was handled.
EffectiveClock(db, c, side) ==
    IF IsWritten(db, c, side) THEN c.row.clk ELSE db.seen[c.key].clk

Database(n) ==
    [rows |-> rows[n], seen |-> IF n = "client" THEN view ELSE rows[n],
     log |-> log[n], ids |-> ids, conflicts |-> conflicts]

SetDatabase(n, db) ==
    /\ rows' = [rows EXCEPT ![n] = db.rows]
    /\ log'  = [log EXCEPT ![n] = db.log]
    /\ ids'  = db.ids
    /\ conflicts' = db.conflicts

-----------------------------------------------------------------------------
(* The memo API of either node: @sync_applying is NULL, so every row written *)
(* is logged by the triggers.                                                *)

Init ==
    /\ rows = [n \in Node |-> [k \in {MemoKey(m) : m \in Bootstrapped} |->
                  [val |-> Empty, clk |-> Skew, del |-> FALSE, by |-> "client"]]]
    \* the laptop created the memos; `bootstrap` copied them to the server with
    \* logging off and set both watermarks to the ends of the logs
    /\ \E l \in [1 .. Cardinality(Bootstrapped) -> {MemoKey(m) : m \in Bootstrapped}] :
         /\ \A m \in Bootstrapped : \E s \in DOMAIN l : l[s] = MemoKey(m)
         /\ log = [n \in Node |-> IF n = "client" THEN l ELSE << >>]
    /\ ids = 0 /\ conflicts = {} /\ now = 0 /\ edits = 0
    /\ pushed = Cardinality(Bootstrapped) /\ pulled = 0
    /\ outbox = {} /\ dead = {} /\ inbox = {} /\ pulldead = {}
    /\ base = << >>
    /\ receipts = {}
    /\ pc = "idle" /\ todo = {}
    /\ request = NoMsg /\ reply = NoMsg /\ stale = {} /\ feed = NoMsg /\ view = NoRows
    /\ aborts = 0 /\ failures = 0 /\ applies = 0

\* A write takes place at some time not before `now`: ties are possible, ...
WriteTime ==
    /\ edits < MaxEdits /\ edits' = edits + 1
    /\ now' \in {now + g : g \in Gaps}

\* ... but not with the write it edits.
WriteAfter(row) == WriteTime /\ now' > row.clk - SkewOf(row.by)

\* One transaction of the API on node n: the memo gets `row`, after its previous
\* body, unless empty, was kept as a version.
SaveMemo(n, m, row, keepBody) ==
    LET t == rows[n]
        v == <<m, ids + 1>>
        kept == keepBody /\ t[MemoKey(m)].val # Empty
    IN  /\ rows' = [rows EXCEPT ![n] = Upsert(
                       IF kept THEN Upsert(t, v, VersionRow(n, t[MemoKey(m)].val, now')) ELSE t,
                       MemoKey(m), row)]
        /\ log' = [log EXCEPT ![n] = @ \o (IF kept THEN <<v>> ELSE << >>) \o <<MemoKey(m)>>]
        /\ ids' = IF kept THEN ids + 1 ELSE ids
        /\ UNCHANGED conflicts

Live(n, m) == MemoKey(m) \in DOMAIN rows[n] /\ ~rows[n][MemoKey(m)].del

\* POST /memos
CreateMemo(n, m) ==
    /\ \A o \in Node : MemoKey(m) \notin DOMAIN rows[o]     \* a fresh UUID
    /\ WriteTime
    /\ SaveMemo(n, m, [val |-> Empty, clk |-> now' + SkewOf(n), del |-> FALSE, by |-> n], FALSE)
    /\ UNCHANGED <<disk, receipts, pc, todo, wire, aborts, failures, applies>>

\* PUT /memos/{id}
UpdateMemo(n, m) ==
    /\ Live(n, m)
    /\ WriteAfter(rows[n][MemoKey(m)])
    /\ SaveMemo(n, m, [val |-> edits + 1, clk |-> now' + SkewOf(n), del |-> FALSE, by |-> n], TRUE)
    /\ UNCHANGED <<disk, receipts, pc, todo, wire, aborts, failures, applies>>

\* DELETE /memos/{id}: a tombstone
DeleteMemo(n, m) ==
    /\ Live(n, m)
    /\ WriteAfter(rows[n][MemoKey(m)])
    /\ SaveMemo(n, m, [val |-> rows[n][MemoKey(m)].val, clk |-> now' + SkewOf(n),
                       del |-> TRUE, by |-> n], FALSE)
    /\ UNCHANGED <<disk, receipts, pc, todo, wire, aborts, failures, applies>>

-----------------------------------------------------------------------------
(* The daemon's cycle.  Every run_once starts with the handshake; schema,    *)
(* clock and identity gates are open here.                                   *)

\* Mutant: the last entry of the queue is left out.
QueueHeadShort == {s \in {c.seq : c \in outbox} : \E c \in outbox : c.seq > s}

\* _retry_push_queue reads at most BatchLimit entries, in seq order.
QueueHead ==
    LET seqs == {c.seq : c \in outbox}
    IN  {s \in seqs : Cardinality({r \in seqs : r < s}) < BatchLimit}

StartCycle ==
    /\ pc = "idle"
    /\ pc' = "retry" /\ todo' = QueueHead
    /\ UNCHANGED <<database, now, edits, disk, receipts, wire, aborts, failures, applies>>

\* peer.push(delivery_client_id, [change])
SendPush ==
    /\ pc \in {"retry", "push"} /\ request = NoMsg /\ reply = NoMsg
    /\ \E c \in outbox :
         /\ c.seq \in todo /\ \A s \in todo : c.seq <= s
         /\ request' = c
    /\ UNCHANGED <<database, now, edits, disk, receipts, pc, todo, reply, stale,
                   feed, view, aborts, failures, applies>>

\* The first pass over the queue is done: go on to collect local changes.
RetryDone ==
    /\ pc = "retry" /\ todo = {} /\ request = NoMsg /\ reply = NoMsg
    /\ pc' = "collect"
    /\ UNCHANGED <<database, now, edits, disk, receipts, todo, wire, aborts, failures, applies>>

\* One round of _push_rounds: snapshot the rows changed after the watermark
\* into the queue and move the watermark, in one transaction.
Collect ==
    /\ pc = "collect"
    /\ LET seqs == Scanned(log["client"], pushed)
           Snapshot(s) == LET k == log["client"][s]
                          IN  [seq |-> s, key |-> k, row |-> rows["client"][k], base |-> BaseOf(k)]
       IN  /\ outbox' = outbox \cup {Snapshot(s) : s \in seqs}
           /\ pushed' = ScanEnd(log["client"], pushed)
           /\ pc' = IF Cardinality(seqs) < BatchLimit THEN "collected" ELSE "collect"
    /\ UNCHANGED <<database, now, edits, pulled, dead, inbox, pulldead, base, receipts,
                   todo, wire, aborts, failures, applies>>

\* The second pass reads the queue again.
StartPush ==
    /\ pc = "collected"
    /\ pc' = "push" /\ todo' = QueueHead
    /\ UNCHANGED <<database, now, edits, disk, receipts, wire, aborts, failures, applies>>

PushDone ==
    /\ pc = "push" /\ todo = {} /\ request = NoMsg /\ reply = NoMsg
    /\ pc' = "inbox"
    /\ UNCHANGED <<database, now, edits, disk, receipts, todo, wire, aborts, failures, applies>>

\* set_row_sync_clock, for a push (no peer seq) or a pull.
Remember(k, clk, seq) ==
    base' = Upsert(base, k, [clk |-> clk,
                             seq |-> Greatest(seq, BaseOf(k).seq)])

\* The answer to the request: the queue entry goes, dies, or the cycle ends.
HandleReply ==
    /\ reply # NoMsg
    /\ reply' = NoMsg
    /\ LET entry == {c \in outbox : c.seq = reply.seq}
       IN  \/ /\ reply.status \in {"applied", "skipped"}
              /\ outbox' = outbox \ entry
              /\ \E c \in entry : Remember(c.key, reply.clk, 0)
              /\ todo' = todo \ {reply.seq}
              /\ UNCHANGED <<dead, pc>>
           \/ /\ reply.status = "rejected"
              /\ outbox' = outbox \ entry /\ dead' = dead \cup entry
              /\ todo' = todo \ {reply.seq}
              /\ UNCHANGED <<base, pc>>
           \/ /\ reply.status = "refused"       \* SyncPeerError leaves the cycle
              /\ pc' = "idle" /\ todo' = {}
              /\ UNCHANGED <<outbox, dead, base>>
    /\ UNCHANGED <<database, now, edits, pushed, pulled, inbox, pulldead, receipts,
                   request, stale, feed, view, aborts, failures, applies>>

-----------------------------------------------------------------------------
(* POST /api/sync/push on the server, one transaction per request.           *)

\* A version whose memo the server does not hold belongs to no project.
Authorized(c) == IsMemo(c.key) \/ MemoKey(c.key[1]) \in DOMAIN rows["server"]

\* Mutant: only a change that was applied counts as received.
ReceiptOfApplied(c) == {r \in receipts : r.seq = c.seq /\ r.status = "applied"}

ReceiptOf(c) == {r \in receipts : r.seq = c.seq}

\* Mutant: the stored receipt itself is the answer.
AnswerReceipt(r) == r

Answer(r) == [seq |-> r.seq, status |-> r.status, clk |-> r.clk]
Refusal(c) == [seq |-> c.seq, status |-> "refused", clk |-> 0]

\* The client hears the answer only if it still waits for it.
Respond(heard, ans) == reply' = IF heard THEN ans ELSE reply

\* 403 sync_change_forbidden, or 409 receipt_payload_mismatch: nothing is written.
ServerRefuses(c, heard) ==
    /\ ~Authorized(c) \/ \E r \in ReceiptOf(c) : r.change # c
    /\ Respond(heard, Refusal(c))
    /\ UNCHANGED <<database, receipts, failures, applies>>

\* A seq already received with the same payload: its stored outcome again.
ServerReplays(c, heard) ==
    /\ Authorized(c)
    /\ \E r \in ReceiptOf(c) : r.change = c /\ Respond(heard, Answer(r))
    /\ UNCHANGED <<database, receipts, failures, applies>>

\* store_sync_receipt in the transaction that ran _apply_one
StoreReceipt(r, heard) ==
    /\ receipts' = receipts \cup {r}
    /\ applies' = applies + 1
    /\ Respond(heard, Answer(r))

ServerApplies(c, heard) ==
    /\ Authorized(c) /\ ReceiptOf(c) = {}
    /\ SetDatabase("server", ApplyChanges(Database("server"), {c}, "client"))
    /\ StoreReceipt([seq |-> c.seq, change |-> c,
                     status |-> IF IsWritten(Database("server"), c, "client")
                                THEN "applied" ELSE "skipped",
                     clk |-> EffectiveClock(Database("server"), c, "client")], heard)
    /\ UNCHANGED failures

\* _apply_one raised: the savepoint is undone and the row rejected for good.
ServerRowFails(c, heard) ==
    /\ Authorized(c) /\ ReceiptOf(c) = {}
    /\ failures < MaxFailures /\ failures' = failures + 1
    /\ StoreReceipt([seq |-> c.seq, change |-> c, status |-> "rejected", clk |-> 0], heard)
    /\ UNCHANGED database

ServerHandles(c, heard) ==
    \/ ServerRefuses(c, heard)
    \/ ServerReplays(c, heard)
    \/ ServerApplies(c, heard)
    \/ ServerRowFails(c, heard)

ServerPush ==
    /\ request # NoMsg
    /\ ServerHandles(request, TRUE)
    /\ request' = NoMsg
    /\ UNCHANGED <<now, edits, disk, pc, todo, stale, feed, view, aborts>>

\* A request whose sender timed out or restarted arrives after all.
ServerPushLate ==
    /\ \E c \in stale : ServerHandles(c, FALSE) /\ stale' = stale \ {c}
    /\ UNCHANGED <<now, edits, disk, pc, todo, request, feed, view, aborts>>

-----------------------------------------------------------------------------
(* _pull_rounds: the deferred rows again, then GET /changes; both are applied *)
(* with logging off.                                                         *)

\* Versions whose memo is neither here nor among the rows applied with them.
Orphans(S) ==
    {c \in S : ~IsMemo(c.key) /\ MemoKey(c.key[1]) \notin DOMAIN view \cup {d.key : d \in S}}

\* One transaction: the rows, the agreed bases, the deferred rows and the dead
\* letters.  The rows in `failed` raised, each in its own savepoint.
ApplyPulled(changes) ==
    \E failed \in SUBSET changes :
        LET orphans == Orphans(changes \ failed)
            good == (changes \ failed) \ orphans
            Based(c) == [seq |-> c.seq, key |-> c.key, row |-> c.row, base |-> BaseOf(c.key)]
            Seen(k) == {c \in good : c.key = k}
        IN  /\ failures + Cardinality(failed) <= MaxFailures
            /\ failures' = failures + Cardinality(failed)
            /\ SetDatabase("client",
                   ApplyChanges(Database("client"), {Based(c) : c \in good}, "server"))
            /\ base' = [k \in DOMAIN base \cup {c.key : c \in good} |->
                          IF Seen(k) = {} THEN base[k]
                          ELSE LET c == CHOOSE c \in Seen(k) : TRUE
                               IN  [clk |-> c.row.clk, seq |-> Greatest(c.seq, BaseOf(k).seq)]]
            /\ inbox' = (inbox \ changes) \cup orphans
            /\ pulldead' = pulldead \cup failed

InboxHead == {c \in inbox : Cardinality({d \in inbox : d.seq < c.seq}) < BatchLimit}

\* A pull's transaction begins: its first SELECT fixes what the others read.  The
\* daemon runs in a thread, so saves may commit before the transaction does.
PullReads ==
    /\ \/ pc = "inbox" /\ inbox # {} /\ pc' = "retrying"
       \/ pc = "apply" /\ pc' = "applying"
    /\ view' = rows["client"]
    /\ UNCHANGED <<database, now, edits, disk, receipts, todo, request, reply, stale,
                   feed, aborts, failures, applies>>

InboxEmpty ==
    /\ pc = "inbox" /\ inbox = {}
    /\ pc' = "pull"
    /\ UNCHANGED <<database, now, edits, disk, receipts, todo, wire, aborts, failures, applies>>

PullRetry ==
    /\ pc = "retrying"
    /\ pc' = "pull"
    /\ ApplyPulled(InboxHead)
    /\ view' = NoRows
    /\ UNCHANGED <<now, edits, pushed, pulled, outbox, dead, receipts, todo, request,
                   reply, stale, feed, aborts, applies>>

\* The server reads its feed; the request ends the cycle when nothing is new.
PullRequest ==
    /\ pc = "pull"
    /\ LET l == log["server"]
           next == ScanEnd(l, pulled)
           Current(s) == [seq |-> s, key |-> l[s], row |-> rows["server"][l[s]]]
       IN  IF next = pulled
           THEN pc' = "idle" /\ UNCHANGED feed
           ELSE /\ pc' = "apply"
                /\ feed' = [next |-> next, max |-> Len(l),
                            changes |-> {Current(s) : s \in Scanned(l, pulled)}]
    /\ UNCHANGED <<database, now, edits, disk, receipts, todo, request, reply,
                   stale, view, aborts, failures, applies>>

\* The cursor moves in the transaction that applied the batch.
PullApply ==
    /\ pc = "applying"
    /\ ApplyPulled(feed.changes)
    /\ pulled' = feed.next
    /\ pc' = IF feed.next >= feed.max THEN "idle" ELSE "pull"
    /\ feed' = NoMsg /\ view' = NoRows
    /\ UNCHANGED <<now, edits, pushed, outbox, dead, receipts, todo, request, reply,
                   stale, aborts, applies>>

\* The peer became unreachable, timed out, or the process was restarted: what
\* the cycle held in memory is gone, a request already sent may still arrive.
AbortCycle ==
    /\ pc # "idle" /\ aborts < MaxAborts
    /\ aborts' = aborts + 1
    /\ pc' = "idle" /\ todo' = {}
    /\ stale' = IF request = NoMsg THEN stale ELSE stale \cup {request}
    /\ request' = NoMsg /\ reply' = NoMsg /\ feed' = NoMsg /\ view' = NoRows
    /\ UNCHANGED <<database, now, edits, disk, receipts, failures, applies>>

-----------------------------------------------------------------------------

Write(n) ==
    \E m \in Memo : CreateMemo(n, m) \/ UpdateMemo(n, m) \/ DeleteMemo(n, m)

Daemon ==
    \/ StartCycle \/ SendPush \/ RetryDone \/ Collect \/ StartPush \/ PushDone
    \/ HandleReply \/ PullReads \/ InboxEmpty \/ PullRetry \/ PullRequest \/ PullApply

Next ==
    \/ \E n \in Node : Write(n)
    \/ Daemon
    \/ ServerPush
    \/ ServerPushLate
    \/ AbortCycle

Spec == Init /\ [][Next]_vars

\* The daemon's loop never dies and runs a cycle while anything is pending or
\* the poll interval is over; while connected the server answers.
FairSpec == Spec /\ WF_vars(Daemon) /\ WF_vars(ServerPush)

-----------------------------------------------------------------------------
(* Properties.                                                               *)

IsTable(t, S) ==
    /\ DOMAIN t \subseteq Key
    /\ t = [k \in DOMAIN t |-> t[k]]
    /\ \A k \in DOMAIN t : t[k] \in S

FeedChange == [seq: Nat \ {0}, key: Key, row: Row]
FeedMsg    == [next: Nat, max: Nat, changes: SUBSET FeedChange]

\* Every variable keeps the shape the tables and the daemon's locals have.
TypeOK ==
    /\ DOMAIN rows = Node /\ log \in [Node -> Seq(Key)]
    /\ \A n \in Node : IsTable(rows[n], Row)
    /\ IsTable(base, Base)
    /\ ids \in Nat /\ now \in Nat /\ edits \in Nat
    /\ pushed \in Nat /\ pulled \in Nat
    /\ \A c \in outbox \cup dead \cup stale : c \in Change
    /\ \A c \in inbox \cup pulldead : c \in FeedChange
    /\ \A r \in receipts : r \in Receipt
    /\ pc \in {"idle", "retry", "collect", "collected", "push", "inbox", "retrying",
               "pull", "apply", "applying"}
    /\ todo \subseteq Nat
    /\ request = NoMsg \/ request \in Change
    /\ reply = NoMsg \/ reply \in Reply
    /\ feed \in FeedMsg \/ (feed = NoMsg /\ pc \notin {"apply", "applying"})
    /\ IsTable(view, Row)
    /\ aborts \in Nat /\ failures \in Nat /\ applies \in Nat

InFlight == outbox \cup dead \cup stale \cup (IF request = NoMsg THEN {} ELSE {request})

\* A sequence number names one payload for ever: what is queued, on the wire or
\* delayed never differs from what the server booked under that number, so the
\* receipt_payload_mismatch 409 of routers/sync.py cannot stop the daemon, even
\* when a lost answer is followed by further edits of the row and by a retry.
OnePayloadPerSeq ==
    \A c \in InFlight : \A r \in receipts : r.seq = c.seq => r.change = c

\* However often a change is sent, lost, retried or delayed, the server applies
\* it once: every execution of _apply_one has its own receipt.
AppliedOnce ==
    /\ applies = Cardinality(receipts)
    /\ \A r, q \in receipts : r.seq = q.seq => r = q

\* A local write since bootstrap is never dropped on the way: the last log entry
\* of a row is still to be scanned, or is queued, or dead-lettered, or was received.
NothingStranded ==
    \A s \in Cardinality(Bootstrapped) + 1 .. Len(log["client"]) :
        IsLatest(log["client"], s) =>
            \/ s > pushed
            \/ \E c \in outbox \cup dead : c.seq = s
            \/ \E r \in receipts : r.seq = s

\* What was accepted for delivery: queued, given up, or received.
Accepted == outbox \cup dead \cup {r.change : r \in receipts}

Promise == INSTANCE Delivery WITH accepted <- Accepted,
                                  processed <- {r.change : r \in receipts}

\* The outbox, the wire and the receipts together deliver every collected row
\* exactly as it was collected and at most once: they implement Delivery.
ExactlyOnce == Promise!Spec

\* Why: whatever is on its way was accepted, numbers of accepted changes lie
\* behind the watermark and are unique, and an answer vouches for a receipt.
DeliveryInv ==
    /\ pushed <= Len(log["client"])
    /\ \A c \in Accepted : c.seq <= pushed
    /\ \A c, d \in Accepted : c.seq = d.seq => c = d
    /\ stale \subseteq Accepted /\ (request # NoMsg => request \in Accepted)
    /\ \A r \in receipts : r.seq = r.change.seq
    /\ \A r, q \in receipts : r.seq = q.seq => r = q
    /\ reply # NoMsg => reply.status = "refused" \/ \E r \in receipts : r.seq = reply.seq
    /\ IsFiniteSet(receipts) /\ applies = Cardinality(receipts)

Settled ==
    /\ outbox = {} /\ dead = {} /\ inbox = {} /\ pulldead = {}
    /\ pushed = Len(log["client"]) /\ pulled = Len(log["server"])

\* When nothing is pending in either direction both databases hold the same
\* memos and the same versions, preserved ones included.  A memo may differ only
\* while the two rows' clocks are closer to each other than the nodes' clocks are,
\* so never when these agree.
SettledAgree ==
    Settled => /\ DOMAIN rows["client"] = DOMAIN rows["server"]
               /\ \A k \in DOMAIN rows["client"] :
                    \/ Columns(rows["client"][k]) = Columns(rows["server"][k])
                    \/ /\ IsMemo(k)
                       /\ Apart(rows["client"][k].clk, rows["server"][k].clk) < Apart(Skew, 0)

\* The body that lost a recorded conflict can still be read as a version.
ConflictLoserPreserved ==
    \A c \in conflicts : \E n \in Node : \E k \in DOMAIN rows[n] :
        k[1] = c.memo /\ ~IsMemo(k) /\ rows[n][k].val = c.lost

\* Saved on the laptop since the transaction of a pull began.
SavedMeanwhile(k) ==
    pc \in {"retrying", "applying"} /\ ~(k \in DOMAIN view /\ view[k] = rows["client"][k])

\* Rows never disappear and never go back to an older write, on either node, whatever
\* the order in which pushes, late pushes, pulls and edits interleave; except that a
\* pull may overwrite a save made between its reads and its writes.  Clocks that differ
\* set a row back by less than they differ.
NoRegression ==
    [][\A n \in Node : \A k \in DOMAIN rows[n] :
         /\ k \in DOMAIN rows'[n]
         /\ \/ rows[n][k].clk - rows'[n][k].clk < Greatest(1, Apart(Skew, 0))
            \/ n = "client" /\ SavedMeanwhile(k)]_vars

\* Once writes, failures and disconnections stop, everything gets delivered.
EventuallySettled == <>[]Settled

Bodies == UNION {{rows[n][k].val : k \in DOMAIN rows[n]} : n \in Node} \ {Empty}

Overwritable == {rows["client"][k].val : k \in {x \in DOMAIN rows["client"] : SavedMeanwhile(x)}}

\* No memo body that was ever stored vanishes from both nodes (sync_apply.py:
\* the loser is preserved, nothing is lost), saves during a pull's transaction apart.
NothingLost == [][Bodies \ Overwritable \subseteq Bodies']_vars

=============================================================================
