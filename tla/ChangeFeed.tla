------------------------------ MODULE ChangeFeed ------------------------------
(***************************************************************************)
(* What the server's change feed delivers to the laptop of one account:    *)
(* change_log, whose numbers are taken by triggers inside transactions     *)
(* that commit later (handlers on the event loop, merges in threads); the  *)
(* selection of the rows the account may see; the laptop's cursor, its     *)
(* queue of rows that wait for their project, and the cursor's baseline    *)
(* after a bootstrap.                                                      *)
(*                                                                         *)
(* A row is a version: the number of transactions that have written it.    *)
(* Versions of memos share the scope of their memo and are left out.  The  *)
(* laptop writes nothing here: which of two versions wins is RowSync's     *)
(* subject, and what a merge does to texts and roles is ProjectMerge's.    *)
(*                                                                         *)
(* The handlers that write and the one that reads the feed run on the loop *)
(* without an await, so only a merge can be under way beside them.         *)
(***************************************************************************)
EXTENDS Naturals, FiniteSets

CONSTANTS
    Project, Memo,
    Own,        \* projects whose owner_id is the account; others belong to somebody else
    Thread,     \* threads of the executor that run merges
    BatchLimit, \* SYNC_BATCH_LIMIT
    MaxSeq      \* bound of the runs: the last number of change_log

ASSUME FeedAssumption ==
    /\ Own \subseteq Project
    /\ BatchLimit \in Nat \ {0} /\ MaxSeq \in Nat

VARIABLES
    version,  \* committed version of each row, 0 if there is none
    live,     \* committed rows whose deleted_at is null
    home,     \* memos.project_id
    log,      \* committed entries of change_log
    next,     \* the AUTO_INCREMENT value of change_log
    merge,    \* the transaction of each thread
    phase,    \* "loaded": bootstrapped without a baseline; "synced"
    copy,     \* the laptop's version of each row
    inbox,    \* sync_retry_queue, direction 'pull'
    pulled,   \* sync_state.last_pulled_seq
    answer,   \* the answer of GET /changes on its way
    excuse    \* history: why the feed may have passed a row by

server == <<version, live, home, log, next, merge>>
laptop == <<phase, copy, inbox, pulled>>
vars == <<server, laptop, answer, excuse>>

ProjectRow(p) == <<"project", p>>
MemberRow(p) == <<"member", p>>     \* the account's row in project_members
MemoRow(m) == <<"memo", m>>
Key == ({"project", "member"} \X Project) \cup ({"memo"} \X Memo)
MemoRows(ms) == {MemoRow(m) : m \in ms}

Entry == [seq : Nat \ {0}, key : Key]
Change == [seq : Nat \ {0}, key : Key, version : Nat, project : Project]

\* A merge knows from its snapshot what it will write: tombstones, members it
\* adds (some with a fresh row), memos it moves, and the project they move to.
NoMerge == [open |-> FALSE]
OpenMerge == [open : {TRUE}, todo : SUBSET Key, wrote : SUBSET Entry, dead : SUBSET Key,
              born : SUBSET Key, fresh : SUBSET Key, moved : SUBSET Memo, to : Project]
NoAnswer == [next |-> 0]
Answer == [next : Nat \ {0}, changes : SUBSET Change]

\* The number was passed before its commit; the row was hidden before; it was
\* written between the load and the baseline of a bootstrap.
Reason == {"order", "scope", "bootstrap"}

TypeOK ==
    /\ version \in [Key -> Nat] /\ live \subseteq Key /\ home \in [Memo -> Project]
    /\ log \subseteq Entry /\ next \in Nat \ {0}
    /\ merge \in [Thread -> {NoMerge} \cup OpenMerge]
    /\ phase \in {"loaded", "synced"}
    /\ copy \in [Key -> Nat] /\ inbox \subseteq Change /\ pulled \in Nat
    /\ answer \in {NoAnswer} \cup Answer
    /\ excuse \in [Key -> SUBSET Reason]

\* Just bootstrapped: the load has made the server's rows those of the laptop,
\* without an entry in change_log; every owner is the account (_bootstrap_blockers).
Init ==
    /\ home \in [Memo -> Project]
    /\ \E ps \in SUBSET Own, ms \in SUBSET Memo :
          /\ \A m \in ms : home[m] \in ps
          /\ \A m \in Memo \ ms : home[m] = CHOOSE p \in Project : TRUE
          /\ live = {ProjectRow(p) : p \in ps} \cup {MemberRow(p) : p \in ps} \cup MemoRows(ms)
    /\ version = [k \in Key |-> IF k \in live THEN 1 ELSE 0]
    /\ copy = version
    /\ log = {} /\ next = 1
    /\ merge = [t \in Thread |-> NoMerge]
    /\ phase = "loaded"
    /\ inbox = {} /\ pulled = 0 /\ answer = NoAnswer
    /\ excuse = [k \in Key |-> {}]

--------------------------------------------------------------------------------
(***************************************************************************)
(* Transactions of the server.                                             *)
(***************************************************************************)

\* visible_project_ids, from the rows that are live and the homes of the memos.
SeenProjects(rows) == Own \cup {p \in Project : MemberRow(p) \in rows}
ProjectOf(k, homes) == IF k[1] = "memo" THEN homes[k[2]] ELSE k[2]
Sees(rows, homes, k) == ProjectOf(k, homes) \in SeenProjects(rows)
Visible(k) == Sees(live, home, k)

Exists(k) == version[k] > 0
Keys(es) == {e.key : e \in es}
Wrote(t) == IF merge[t].open THEN merge[t].wrote ELSE {}
Locked == UNION {Keys(Wrote(t)) : t \in Thread}

\* Why the feed may pass by row k of a transaction that commits the entries es.
Reasons(k, es, rows, homes) ==
    {r \in Reason :
        \/ /\ r = "order"
           /\ \E e \in es, x \in log : e.key = k /\ e.seq < x.seq
        \/ /\ r = "scope"
           /\ k \notin Keys(es) /\ Sees(rows, homes, k) /\ ~ Visible(k)
        \/ r = "bootstrap" /\ k \in Keys(es) /\ phase = "loaded"}

\* A transaction with the entries es commits.
Commit(es, rows, homes) ==
    /\ version' = [k \in Key |-> IF k \in Keys(es) THEN version[k] + 1 ELSE version[k]]
    /\ live' = rows
    /\ home' = homes
    /\ log' = log \cup es
    /\ excuse' = [k \in Key |-> excuse[k] \cup Reasons(k, es, rows, homes)]

\* Mutant: the first number is 0, which no cursor ever asks for.
NumberingsFromZero(first, then, end) ==
    {f \in [first \cup then -> next - 1 .. end - 2] :
        /\ \A k, l \in first \cup then : k # l => f[k] # f[l]
        /\ \A s \in next - 1 .. end - 2 : \E k \in first \cup then : f[k] = s}

\* The triggers number the rows as they are written, those of `first` before those
\* of `then`; `end` is the number of the next row.
Numberings(first, then, end) ==
    {f \in [first \cup then -> next .. end - 1] :
        /\ \A k, l \in first \cup then : k # l => f[k] # f[l]
        /\ \A s \in next .. end - 1 : \E k \in first \cup then : f[k] = s
        /\ \A k \in first, l \in then : f[k] < f[l]}

\* A handler writes the rows first and then, and commits.  It waits for the rows
\* that a merge has locked.
Handler(first, then, rows, homes) ==
    /\ (first \cup then) \cap Locked = {}
    /\ \E end \in next + 1 .. MaxSeq + 1 :
          /\ \E f \in Numberings(first, then, end) :
                Commit({[seq |-> f[k], key |-> k] : k \in first \cup then}, rows, homes)
          /\ next' = end
    /\ UNCHANGED <<merge, laptop, answer>>

CreateProject(p) ==
    /\ ~ Exists(ProjectRow(p))
    /\ LET creator == IF p \in Own THEN {MemberRow(p)} ELSE {}
       IN  Handler({ProjectRow(p)}, creator, live \cup {ProjectRow(p)} \cup creator, home)

CreateMemo(m, p) ==
    /\ ProjectRow(p) \in live /\ ~ Exists(MemoRow(m))
    /\ Handler({MemoRow(m)}, {}, live \cup {MemoRow(m)}, [home EXCEPT ![m] = p])

LiveMemo(m) == MemoRow(m) \in live /\ ProjectRow(home[m]) \in live

UpdateMemo(m) == LiveMemo(m) /\ Handler({MemoRow(m)}, {}, live, home)

DeleteMemos(ms) ==
    /\ ms # {} /\ \A m \in ms : LiveMemo(m)
    /\ Handler(MemoRows(ms), {}, live \ MemoRows(ms), home)

InviteMember(p) ==
    /\ ProjectRow(p) \in live /\ MemberRow(p) \notin live
    /\ Handler({MemberRow(p)}, {}, live \cup {MemberRow(p)}, home)

RemoveMember(p) ==
    /\ ProjectRow(p) \in live /\ MemberRow(p) \in live /\ p \notin Own
    /\ Handler({MemberRow(p)}, {}, live \ {MemberRow(p)}, home)

DeleteProject(p) ==
    /\ ProjectRow(p) \in live
    /\ LET ks == live \cap ({MemberRow(p)} \cup MemoRows({m \in Memo : home[m] = p}))
       IN  Handler(ks, {ProjectRow(p)}, live \ (ks \cup {ProjectRow(p)}), home)

--------------------------------------------------------------------------------
(***************************************************************************)
(* A merge in thread t: it reads, writes row by row, and commits.          *)
(***************************************************************************)
Begin(t, dead, born, moved, to) ==
    /\ ~ merge[t].open
    /\ merge' = [merge EXCEPT ![t] =
          [open |-> TRUE, todo |-> dead \cup born \cup MemoRows(moved), wrote |-> {},
           dead |-> dead, born |-> born, fresh |-> {k \in born : ~ Exists(k)},
           moved |-> moved, to |-> to]]
    /\ UNCHANGED <<version, live, home, log, next, laptop, answer, excuse>>

MergeMemos(t, l, w) ==
    /\ l # w /\ MemoRow(l) \in live /\ MemoRow(w) \in live
    /\ Begin(t, {MemoRow(l)}, {}, {}, home[l])

\* The account joins the winner if it was a live member of the loser only.
MergeProjects(t, l, w) ==
    /\ l # w /\ ProjectRow(l) \in live /\ ProjectRow(w) \in live
    /\ LET leaves == live \cap {MemberRow(l)}
           joins == IF leaves = {} THEN {} ELSE {MemberRow(w)} \ live
           moved == {m \in Memo : home[m] = l /\ Exists(MemoRow(m))}
       IN  Begin(t, {ProjectRow(l)} \cup leaves, joins, moved, w)

\* Memos, then the member who joins, the one who leaves, and the project last.
Rank(t, k) ==
    CASE k[1] = "memo" -> 1 [] k \in merge[t].born -> 2 [] k[1] = "member" -> 3 [] OTHER -> 4

\* The next statement takes a number and the row's lock.  The INSERT of a member
\* who has been invited meanwhile fails.
MergeWrites(t, k) ==
    /\ merge[t].open /\ k \in merge[t].todo /\ k \notin Locked
    /\ \A l \in merge[t].todo : Rank(t, k) <= Rank(t, l)
    /\ k \in merge[t].fresh => ~ Exists(k)
    /\ next <= MaxSeq
    /\ merge' = [merge EXCEPT ![t].todo = @ \ {k},
                              ![t].wrote = @ \cup {[seq |-> next, key |-> k]}]
    /\ next' = next + 1
    /\ excuse' = IF phase = "loaded"
                 THEN [excuse EXCEPT ![k] = @ \cup {"bootstrap"}] ELSE excuse
    /\ UNCHANGED <<version, live, home, log, laptop, answer>>

MergeCommits(t) ==
    /\ merge[t].open /\ merge[t].todo = {}
    /\ Commit(merge[t].wrote, (live \ merge[t].dead) \cup merge[t].born,
              [m \in Memo |-> IF m \in merge[t].moved THEN merge[t].to ELSE home[m]])
    /\ merge' = [merge EXCEPT ![t] = NoMerge]
    /\ UNCHANGED <<next, laptop, answer>>

\* An error, a deadlock, or the end of the process: the numbers are lost.
MergeAborts(t) ==
    /\ merge[t].open
    /\ merge' = [merge EXCEPT ![t] = NoMerge]
    /\ UNCHANGED <<version, live, home, log, next, laptop, answer, excuse>>

Merges(t) ==
    \/ \E l, w \in Memo : MergeMemos(t, l, w)
    \/ \E l, w \in Project : MergeProjects(t, l, w)
    \/ \E k \in Key : MergeWrites(t, k)
    \/ MergeCommits(t) \/ MergeAborts(t)

--------------------------------------------------------------------------------
(***************************************************************************)
(* The laptop.                                                             *)
(***************************************************************************)

\* The bootstrap ends: the cursor starts behind the last entry there is now.
Baseline ==
    /\ phase = "loaded"
    /\ \/ log = {} /\ pulled' = 0
       \/ \E e \in log : (\A x \in log : x.seq <= e.seq) /\ pulled' = e.seq
    /\ phase' = "synced"
    /\ UNCHANGED <<server, copy, inbox, answer, excuse>>

\* The first BatchLimit entries after the cursor, or all of them.
IsWindow(es, since) ==
    LET after == {e \in log : since < e.seq}
    IN  /\ \A e \in es, x \in after : x.seq <= e.seq => x \in es
        /\ Cardinality(es) <= BatchLimit
        /\ Cardinality(es) = BatchLimit \/ es = after

\* Of each row the last entry, with the row as it is now, if the account sees it.
Selected(es) ==
    {[seq |-> e.seq, key |-> e.key, version |-> version[e.key],
      project |-> ProjectOf(e.key, home)] :
        e \in {x \in es : Visible(x.key) /\ \A y \in es : y.key = x.key => y.seq <= x.seq}}

\* Mutant: nextSeq is the last number of the whole feed.
NextSeqOfFeed(es) == {e.seq : e \in {x \in log : \A y \in log : y.seq <= x.seq}}

\* Mutant: nextSeq is the last number of a row that is sent.
NextSeqOfSent(es) ==
    LET sent == {e \in es : Visible(e.key)}
    IN  {e.seq : e \in {x \in sent : \A y \in sent : y.seq <= x.seq}}

\* Mutant: nextSeq is the number the next window begins with.
NextSeqPast(es) == {e.seq + 1 : e \in {x \in es : \A y \in es : y.seq <= x.seq}}

\* nextSeq: the last number scanned, whether or not its row is sent.
NextSeq(es) == {e.seq : e \in {x \in es : \A y \in es : y.seq <= x.seq}}

\* GET /changes is served (read_changes, from one snapshot).  Without an entry
\* after the cursor the round just ends.
Fetch ==
    /\ phase = "synced" /\ answer = NoAnswer
    /\ \E es \in SUBSET {e \in log : pulled < e.seq} :
          /\ IsWindow(es, pulled)
          /\ \E n \in NextSeq(es) : answer' = [next |-> n, changes |-> Selected(es)]
    /\ UNCHANGED <<server, laptop, excuse>>

\* The answer is lost, or the laptop stops before it has committed the batch.
Loses ==
    /\ answer # NoAnswer
    /\ answer' = NoAnswer
    /\ UNCHANGED <<server, laptop, excuse>>

\* The project of a row is on the laptop, or comes with the same batch.
HasParent(c, cs) ==
    \/ c.key = ProjectRow(c.project) \/ copy[ProjectRow(c.project)] > 0
    \/ \E d \in cs : d.key = ProjectRow(c.project)
Landing(cs) == {c \in cs : HasParent(c, cs)}

\* Of each row the newest change lands, unless the laptop's row is as new.
Landed(cs) ==
    [k \in Key |->
        LET versions == {copy[k]} \cup {c.version : c \in {d \in cs : d.key = k}}
        IN  CHOOSE v \in versions : \A w \in versions : w <= v]

\* One transaction applies the batch, queues what lacks its project, moves the cursor.
Apply ==
    /\ answer # NoAnswer
    /\ LET landing == Landing(answer.changes)
       IN  /\ copy' = Landed(landing)
           /\ inbox' = inbox \cup (answer.changes \ landing)
    /\ pulled' = answer.next
    /\ answer' = NoAnswer
    /\ UNCHANGED <<server, phase, excuse>>

\* A cycle first applies, in one transaction, the first BatchLimit of the queue.
Head == {c \in inbox : Cardinality({d \in inbox : d.seq < c.seq}) < BatchLimit}

Retry ==
    /\ answer = NoAnswer
    /\ Landing(Head) # {}
    /\ copy' = Landed(Landing(Head))
    /\ inbox' = inbox \ Landing(Head)
    /\ UNCHANGED <<server, phase, pulled, answer, excuse>>

--------------------------------------------------------------------------------
Handlers ==
    \/ \E p \in Project :
          \/ CreateProject(p) \/ InviteMember(p) \/ RemoveMember(p) \/ DeleteProject(p)
          \/ \E m \in Memo : CreateMemo(m, p)
    \/ \E m \in Memo : UpdateMemo(m)
    \/ \E ms \in SUBSET Memo : DeleteMemos(ms)

Next ==
    \/ Handlers
    \/ \E t \in Thread : Merges(t)
    \/ Baseline \/ Fetch \/ Loses \/ Apply \/ Retry

\* The bootstrap is finished, the daemon goes on with its cycles, and not every
\* answer is lost.
Spec ==
    /\ Init /\ [][Next]_vars
    /\ WF_vars(Baseline \/ Retry \/ Fetch) /\ SF_vars(Apply)

--------------------------------------------------------------------------------
ToCome(k) == \E e \in log : e.key = k /\ e.seq > pulled
PutOff(k) == \E c \in inbox : c.key = k /\ c.version = version[k]
PassedBy(k) == Visible(k) /\ copy[k] < version[k] /\ ~ ToCome(k) /\ ~ PutOff(k)

\* The cursor passes no row by that the account sees, except for the three
\* reasons named: read_changes, the batches, lost answers and deferred rows
\* never lose one.
NothingSkipped == \A k \in Key : PassedBy(k) => excuse[k] # {}

\* A pulled row waits for its project only while that is still to come; it waits
\* longer only if the project was passed by for a reason or is hidden by now.
DeferredExplained ==
    \A c \in inbox :
        LET parent == ProjectRow(c.project)
        IN  HasParent(c, {}) \/ ToCome(parent) \/ excuse[parent] # {} \/ ~ Visible(parent)

\* What a merge writes on the server reaches the laptop by its pull
\* (_execute_peer_merge), whatever a bootstrap or a change of scope may hide.
MergesArrive == \A k \in Key : PassedBy(k) => excuse[k] \ {"order"} # {}

\* Rows the account does not see do not hold the cursor up: in the end the
\* laptop has all the others.
EventuallyAgrees ==
    <>[](\A k \in Key :
            Visible(k) /\ excuse[k] = {} /\ excuse[ProjectRow(ProjectOf(k, home))] = {}
                => copy[k] = version[k])

================================================================================
