----------------------------- MODULE ProjectMerge -----------------------------
(***************************************************************************)
(* The tables of projects, members, memos and versions on the node that    *)
(* executes merges (the server role, or a single node): the handlers that  *)
(* write them (routers/projects.py, routers/memos.py) and the merges of    *)
(* duplicates (services/merge.py).                                         *)
(*                                                                         *)
(* A handler has no await: it runs on the event loop from its first        *)
(* statement to its commit, one handler at a time.  A merge runs in a      *)
(* thread of the default executor, so it overlaps with handlers and with   *)
(* other merges.  A transaction of InnoDB (REPEATABLE READ) reads from the *)
(* snapshot taken at its first SELECT and writes the rows as they are now. *)
(* It is modelled in two steps: its reads, and its writes with the commit. *)
(* Rows stay locked from their first write to the commit, so the writes of *)
(* one transaction are all before or all after those of another that       *)
(* writes the same rows; one that InnoDB picks as victim aborts.           *)
(*                                                                         *)
(* Changes that sync_apply writes into these tables are RowSync's subject. *)
(***************************************************************************)
EXTENDS Naturals, Sequences, FiniteSets, FiniteSetsExt

CONSTANTS
    Project, Memo, User,
    Admin,        \* users with an admin permission (require_admin)
    ServiceOwner, \* users with the permission "owner"
    Title,        \* titles of memos
    Thread,       \* threads of the executor that run merges
    MaxBody,      \* bound of the runs: bodies are 1 .. MaxBody, 0 is the empty one
    MaxVersions,  \* bound of the runs: a save adds no row to memo_versions beyond
    MaxRequests   \* bound of the runs: handlers with a check, and merges

ASSUME TablesAssumption ==
    /\ Admin \subseteq User /\ ServiceOwner \subseteq User
    /\ MaxBody \in Nat /\ MaxVersions \in Nat /\ MaxRequests \in Nat

VARIABLES
    project,   \* rows of projects
    member,    \* rows of project_members, unique by (project_id, user_id)
    memo,      \* rows of memos
    versions,  \* rows of memo_versions, in the order of insertion
    handler,   \* the handler between its checks and its writes
    merge,     \* the merges, by thread
    requests

tables == <<project, member, memo, versions>>
vars == <<tables, handler, merge, requests>>

Role == {"owner", "editor", "viewer"}
WriteRoles == {"owner", "editor"}
Body == 0 .. MaxBody

\* A row is live, or gone (deleted_at is set), or there is none.
NoRow == [state |-> "absent"]
ProjectRow == [state : {"live", "gone"}, owner : User]
MemberRow == [state : {"live", "gone"}, role : Role]
MemoRow == [state : {"live", "gone"}, project : Project, title : Title, content : Body]
VersionRow == [memo : Memo, number : Nat, content : Body]

\* A snapshot of the tables.
Snapshot == [project |-> project, member |-> member, memo |-> memo, versions |-> versions]
AnySnapshot ==
    [project : [Project -> {NoRow} \cup ProjectRow],
     member : [Project -> [User -> {NoRow} \cup MemberRow]],
     memo : [Memo -> {NoRow} \cup MemoRow], versions : Seq(VersionRow)]

Idle == [op |-> "none"]
AnyHandler ==
    {Idle}
    \cup [op : {"create_memo"}, memo : Memo, project : Project, title : Title]
    \cup [op : {"delete_memos"}, memos : SUBSET Memo]
    \cup [op : {"delete_project"}, project : Project]
    \cup [op : {"invite"}, project : Project, user : User, role : Role \ {"owner"},
          known : BOOLEAN]
    \cup [op : {"remove"}, project : Project, user : User]

\* A merge waits for its thread ("queued"), then has read its snapshot ("read").
NoMerge == [at |-> "none"]
Queued == [at : {"queued"}, kind : {"memo"}, loser : Memo, winner : Memo]
          \cup [at : {"queued"}, kind : {"project"}, loser : Project, winner : Project]
Reading == [at : {"read"}, kind : {"memo"}, loser : Memo, winner : Memo, view : AnySnapshot]
           \cup [at : {"read"}, kind : {"project"}, loser : Project, winner : Project,
                 view : AnySnapshot]

TypeOK ==
    /\ Snapshot \in AnySnapshot
    /\ handler \in AnyHandler
    /\ merge \in [Thread -> {NoMerge} \cup Queued \cup Reading]
    /\ requests \in 0 .. MaxRequests

\* Some projects exist with their creators; others may be former members.  Memos
\* came from the API or the peer.
Init ==
    /\ project \in [Project -> {NoRow} \cup [state : {"live"}, owner : User]]
    /\ member \in [Project -> [User -> {NoRow} \cup MemberRow]]
    /\ \A p \in Project, u \in User :
          member[p][u] \in IF project[p] = NoRow THEN {NoRow}
                          ELSE IF project[p].owner = u
                               THEN {[state |-> "live", role |-> "owner"]}
                               ELSE {NoRow, [state |-> "gone", role |-> "viewer"]}
    /\ memo \in [Memo -> {NoRow} \cup [state : {"live"}, project : Project, title : Title,
                                     content : {0}]]
    /\ \A m \in Memo : memo[m].state = "live" => project[memo[m].project].state = "live"
    /\ versions = <<>>
    /\ handler = Idle
    /\ merge = [t \in Thread |-> NoMerge]
    /\ requests = 0

--------------------------------------------------------------------------------
(***************************************************************************)
(* Reading the tables, or a snapshot s of them.                            *)
(***************************************************************************)
LiveProject(s, p) == s.project[p].state = "live"
LiveMemo(s, m) == s.memo[m].state = "live"

\* get_project_role, as a set that is empty without a role.
RolesOf(s, p, u) ==
    IF u \in ServiceOwner THEN {"owner"}
    ELSE IF s.member[p][u].state = "live" THEN {s.member[p][u].role} ELSE {}

CanManage(s, p, u) == "owner" \in RolesOf(s, p, u)
CanWrite(s, p, u) == RolesOf(s, p, u) \cap WriteRoles # {}

\* _project_role of routers/sync.py: the owner's column counts, permissions do not.
PeerRolesOf(s, p, u) ==
    IF s.project[p].owner = u THEN {"owner"}
    ELSE IF s.member[p][u].state = "live" THEN {s.member[p][u].role} ELSE {}

VersionsOf(s, m) == {i \in DOMAIN s.versions : s.versions[i].memo = m}
MaxVersion(s, m) == Max({0} \cup {s.versions[i].number : i \in VersionsOf(s, m)})

LoopFree == handler = Idle
Ask == requests < MaxRequests /\ requests' = requests + 1

\* The checks of a handler have passed.
Checked(h) ==
    /\ LoopFree /\ Ask
    /\ handler' = h
    /\ UNCHANGED <<tables, merge>>

\* The handler commits, or rolls back.
Returns ==
    /\ handler' = Idle
    /\ UNCHANGED <<merge, requests>>

--------------------------------------------------------------------------------
(***************************************************************************)
(* Memos.                                                                  *)
(***************************************************************************)
TitleTaken(p, title) ==
    \E m \in Memo : memo[m].state = "live" /\ memo[m].project = p /\ memo[m].title = title

CreateMemoChecks(u, m, p, title) ==
    /\ memo[m].state = "absent"
    /\ LiveProject(Snapshot, p)
    /\ CanWrite(Snapshot, p, u)
    /\ ~TitleTaken(p, title)
    /\ Checked([op |-> "create_memo", memo |-> m, project |-> p, title |-> title])

CreateMemo ==
    /\ handler.op = "create_memo"
    /\ memo' = [memo EXCEPT ![handler.memo] =
                  [state |-> "live", project |-> handler.project, title |-> handler.title,
                   content |-> 0]]
    /\ UNCHANGED <<project, member, versions>>
    /\ Returns

\* The version a save of the given body adds.
SavedVersionNewBody(m, body) ==
    [memo |-> m, number |-> MaxVersion(Snapshot, m) + 1, content |-> body]
SavedVersion(m, body) ==
    [memo |-> m, number |-> MaxVersion(Snapshot, m) + 1, content |-> memo[m].content]

\* The SELECT ... FOR UPDATE comes first: the row is locked before anything else
\* is read, so a save is one step.  Its lease and revision checks can only refuse.
UpdateMemo(u, m, body) ==
    /\ LoopFree
    /\ LiveMemo(Snapshot, m)
    /\ CanWrite(Snapshot, memo[m].project, u)
    /\ memo[m].content # 0 => Len(versions) < MaxVersions
    /\ versions' = IF memo[m].content = 0 THEN versions
                   ELSE Append(versions, SavedVersion(m, body))
    /\ memo' = [memo EXCEPT ![m].content = body]
    /\ UNCHANGED <<project, member, handler, merge, requests>>

DeleteMemoChecks(u, m) ==
    /\ LiveMemo(Snapshot, m)
    /\ CanManage(Snapshot, memo[m].project, u)
    /\ Checked([op |-> "delete_memos", memos |-> {m}])

\* Memos that are gone or managed by others are passed over.
BulkDeleteChecks(u, ms) ==
    /\ u \in Admin
    /\ ms # {}
    /\ Checked([op |-> "delete_memos",
                memos |-> {m \in ms : LiveMemo(Snapshot, m)
                                      /\ CanManage(Snapshot, memo[m].project, u)}])

DeleteMemos ==
    /\ handler.op = "delete_memos"
    /\ memo' = [m \in Memo |-> IF m \in handler.memos THEN [memo[m] EXCEPT !.state = "gone"]
                               ELSE memo[m]]
    /\ UNCHANGED <<project, member, versions>>
    /\ Returns

--------------------------------------------------------------------------------
(***************************************************************************)
(* Projects and members.                                                   *)
(***************************************************************************)
CreateProject(u, p) ==
    /\ LoopFree
    /\ u \in Admin
    /\ project[p].state = "absent"
    /\ project' = [project EXCEPT ![p] = [state |-> "live", owner |-> u]]
    /\ member' = [member EXCEPT ![p][u] = [state |-> "live", role |-> "owner"]]
    /\ UNCHANGED <<memo, versions, handler, merge, requests>>

DeleteProjectChecks(u, p) ==
    /\ u \in Admin
    /\ LiveProject(Snapshot, p)
    /\ CanManage(Snapshot, p, u)
    /\ Checked([op |-> "delete_project", project |-> p])

Removed(row) == IF row.state = "live" THEN [row EXCEPT !.state = "gone"] ELSE row

DeleteProject ==
    /\ handler.op = "delete_project"
    /\ memo' = [m \in Memo |-> IF memo[m].state = "live" /\ memo[m].project = handler.project
                               THEN [memo[m] EXCEPT !.state = "gone"] ELSE memo[m]]
    /\ member' = [member EXCEPT ![handler.project] = [u \in User |-> Removed(@[u])]]
    /\ project' = [project EXCEPT ![handler.project].state = "gone"]
    /\ UNCHANGED versions
    /\ Returns

InviteChecks(u, p, v, role) ==
    /\ u \in Admin
    /\ LiveProject(Snapshot, p)
    /\ CanManage(Snapshot, p, u)
    /\ member[p][v].state # "live"
    /\ Checked([op |-> "invite", project |-> p, user |-> v, role |-> role,
                known |-> member[p][v].state = "gone"])

\* A row that was seen is revived by its id; otherwise a row is inserted, which
\* uk_project_user allows only if there is still none.
InviteMember ==
    /\ handler.op = "invite"
    /\ handler.known \/ member[handler.project][handler.user].state = "absent"
    /\ member' = [member EXCEPT ![handler.project][handler.user] =
                    [state |-> "live", role |-> handler.role]]
    /\ UNCHANGED <<project, memo, versions>>
    /\ Returns

\* "Project owner cannot be removed"
RemoveChecks(u, p, v) ==
    /\ u \in Admin
    /\ LiveProject(Snapshot, p)
    /\ CanManage(Snapshot, p, u)
    /\ member[p][v] # [state |-> "live", role |-> "owner"]
    /\ Checked([op |-> "remove", project |-> p, user |-> v])

RemoveMember ==
    /\ handler.op = "remove"
    /\ member' = [member EXCEPT ![handler.project][handler.user] = Removed(@)]
    /\ UNCHANGED <<project, memo, versions>>
    /\ Returns

\* A duplicate key, a deadlock or a lock wait timeout: the handler rolls back.
HandlerAborts ==
    /\ ~LoopFree
    /\ UNCHANGED tables
    /\ Returns

--------------------------------------------------------------------------------
(***************************************************************************)
(* Merges.                                                                 *)
(***************************************************************************)
Becomes(t, m) == merge' = [merge EXCEPT ![t] = m]

\* merge_memo_into and merge_project_into: the route authorises in a transaction
\* of its own and hands the merge to a thread.
Queue(t, kind, loser, winner) ==
    /\ LoopFree /\ Ask
    /\ merge[t] = NoMerge
    /\ Becomes(t, [at |-> "queued", kind |-> kind, loser |-> loser, winner |-> winner])
    /\ UNCHANGED <<tables, handler>>

MergeMemoInto(t, u, loser, winner) ==
    /\ \A m \in {loser, winner} :
          LiveMemo(Snapshot, m) /\ CanManage(Snapshot, memo[m].project, u)
    /\ Queue(t, "memo", loser, winner)

MergeProjectInto(t, u, loser, winner) ==
    /\ u \in Admin
    /\ \A p \in {loser, winner} :
          LiveProject(Snapshot, p) /\ CanManage(Snapshot, p, u)
    /\ Queue(t, "project", loser, winner)

\* The first statements of merge_memos and merge_projects; other rows are refused.
Reads(t, kind, loser, winner) ==
    /\ loser # winner
    /\ \A x \in {loser, winner} : IF kind = "memo" THEN LiveMemo(Snapshot, x)
                                  ELSE LiveProject(Snapshot, x)
    /\ Becomes(t, [at |-> "read", kind |-> kind, loser |-> loser, winner |-> winner,
                   view |-> Snapshot])
    /\ UNCHANGED <<tables, handler>>

MergeReads(t) ==
    /\ merge[t].at = "queued"
    /\ Reads(t, merge[t].kind, merge[t].loser, merge[t].winner)
    /\ UNCHANGED requests

\* sync_merge_memo and sync_merge_project hand over at once; _execute_peer_merge
\* authorises in the transaction that merges.
PeerMergeMemo(t, u, loser, winner) ==
    /\ merge[t] = NoMerge /\ Ask
    /\ Reads(t, "memo", loser, winner)
    /\ \A m \in {loser, winner} : PeerRolesOf(Snapshot, memo[m].project, u) \cap WriteRoles # {}

PeerMergeProject(t, u, loser, winner) ==
    /\ merge[t] = NoMerge /\ Ask
    /\ Reads(t, "project", loser, winner)
    /\ \A p \in {loser, winner} : "owner" \in PeerRolesOf(Snapshot, p, u)

\* A refusal, or a rollback as in HandlerAborts.
MergeAborts(t) ==
    /\ merge[t] # NoMerge
    /\ Becomes(t, NoMerge)
    /\ UNCHANGED <<tables, handler, requests>>

\* The loser's body becomes a version of the winner, unless it is one.
IsCopied(s, loser, winner) ==
    /\ s.memo[loser].content # 0
    /\ \A i \in VersionsOf(s, winner) : s.versions[i].content # s.memo[loser].content

\* ORDER BY version, created_at
Precedes(s, i, j) ==
    \/ s.versions[i].number < s.versions[j].number
    \/ s.versions[i].number = s.versions[j].number /\ i < j

\* The new number of the loser's version i.
RenumberedBelow(s, loser, winner, i) ==
    MaxVersion(s, winner) - 1 + Cardinality({j \in VersionsOf(s, loser) : Precedes(s, j, i)})
RenumberedOverCopy(s, loser, winner, i) ==
    MaxVersion(s, winner) + 1 + Cardinality({j \in VersionsOf(s, loser) : Precedes(s, j, i)})
Renumbered(s, loser, winner, i) ==
    MaxVersion(s, winner) + (IF IsCopied(s, loser, winner) THEN 2 ELSE 1)
        + Cardinality({j \in VersionsOf(s, loser) : Precedes(s, j, i)})

\* What merge_memos makes of the current rows, having read s.
MergedVersions(s, loser, winner) ==
    LET moved == [i \in DOMAIN versions |->
                    IF i \in VersionsOf(s, loser)
                    THEN [versions[i] EXCEPT !.memo = winner,
                                             !.number = Renumbered(s, loser, winner, i)]
                    ELSE versions[i]]
    IN  IF IsCopied(s, loser, winner)
        THEN Append(moved, [memo |-> winner, number |-> MaxVersion(s, winner) + 1,
                            content |-> s.memo[loser].content])
        ELSE moved

MergeMemos(t) ==
    LET m == merge[t] IN
    /\ m.at = "read" /\ m.kind = "memo"
    /\ versions' = MergedVersions(m.view, m.loser, m.winner)
    /\ memo' = [memo EXCEPT ![m.loser].state = "gone"]
    /\ Becomes(t, NoMerge)
    /\ UNCHANGED <<project, member, handler, requests>>

\* Members of the loser that the winner has no live row for.
JoiningAll(s, loser, winner) == {u \in User : s.member[loser][u].state = "live"}
JoiningNew(s, loser, winner) ==
    {u \in User : s.member[loser][u].state = "live" /\ s.member[winner][u] = NoRow}
Joining(s, loser, winner) ==
    {u \in User : s.member[loser][u].state = "live" /\ s.member[winner][u].state # "live"}

\* A row that was not there is inserted, one that was there is revived.
MergeProjects(t) ==
    LET m == merge[t]
        s == m.view
    IN  /\ m.at = "read" /\ m.kind = "project"
        /\ \A u \in Joining(s, m.loser, m.winner) :
              s.member[m.winner][u].state = "absent" => member[m.winner][u].state = "absent"
        /\ memo' = [x \in Memo |-> IF s.memo[x].state # "absent" /\ s.memo[x].project = m.loser
                                   THEN [memo[x] EXCEPT !.project = m.winner] ELSE memo[x]]
        /\ member' = [member EXCEPT
              ![m.winner] = [u \in User |->
                   IF u \in Joining(s, m.loser, m.winner)
                   THEN [state |-> "live", role |-> s.member[m.loser][u].role] ELSE @[u]],
              ![m.loser] = [u \in User |->
                   IF s.member[m.loser][u].state = "live"
                   THEN [@[u] EXCEPT !.state = "gone"] ELSE @[u]]]
        /\ project' = [project EXCEPT ![m.loser].state = "gone"]
        /\ Becomes(t, NoMerge)
        /\ UNCHANGED <<versions, handler, requests>>

--------------------------------------------------------------------------------
Handlers(u) ==
    \/ \E m \in Memo : DeleteMemoChecks(u, m)
    \/ \E m \in Memo, body \in Body : UpdateMemo(u, m, body)
    \/ \E m \in Memo, p \in Project, title \in Title : CreateMemoChecks(u, m, p, title)
    \/ \E ms \in SUBSET Memo : BulkDeleteChecks(u, ms)
    \/ \E p \in Project : CreateProject(u, p) \/ DeleteProjectChecks(u, p)
    \/ \E p \in Project, v \in User : RemoveChecks(u, p, v)
    \/ \E p \in Project, v \in User, role \in Role \ {"owner"} : InviteChecks(u, p, v, role)

HandlerWrites ==
    CreateMemo \/ DeleteMemos \/ DeleteProject \/ InviteMember \/ RemoveMember \/ HandlerAborts

Merges(t) == MergeReads(t) \/ MergeAborts(t) \/ MergeMemos(t) \/ MergeProjects(t)

Requests(t, u) ==
    \/ \E loser, winner \in Memo :
          MergeMemoInto(t, u, loser, winner) \/ PeerMergeMemo(t, u, loser, winner)
    \/ \E loser, winner \in Project :
          MergeProjectInto(t, u, loser, winner) \/ PeerMergeProject(t, u, loser, winner)

Next ==
    \/ \E u \in User : Handlers(u)
    \/ HandlerWrites
    \/ \E t \in Thread : Merges(t)
    \/ \E t \in Thread, u \in User : Requests(t, u)

Spec == Init /\ [][Next]_vars

--------------------------------------------------------------------------------
(***************************************************************************)
(* Properties.                                                             *)
(***************************************************************************)
\* A live project keeps the member row of its owner, as an owner, although rows
\* are removed, invited and merged on the word of outdated snapshots.
OwnersStay ==
    \A p \in Project :
       LiveProject(Snapshot, p) =>
          member[p][project[p].owner] = [state |-> "live", role |-> "owner"]

\* Every text that a memo or a version holds is held by a row for ever: saves,
\* deletions and merges in any order may hide it but never overwrite the last copy.
Texts == ({memo[m].content : m \in {x \in Memo : memo[x] # NoRow}}
             \cup {versions[i].content : i \in DOMAIN versions}) \ {0}
NothingErased == [][Texts \subseteq Texts']_vars

\* Nothing was committed to the two memos of a merge since it took its snapshot.
MemosUntouched(m) ==
    \A x \in {m.loser, m.winner} :
       /\ m.view.memo[x] = memo[x]
       /\ VersionsOf(m.view, x) = VersionsOf(Snapshot, x)
       /\ \A i \in VersionsOf(m.view, x) : m.view.versions[i] = versions[i]

Unambiguous(s, m) ==
    \A i, j \in VersionsOf(s, m) : s.versions[i].number = s.versions[j].number => i = j

\* merge_memos leaves the winner with every text of the loser, in the loser's order,
\* above its own versions and under numbers of their own.
MemoMergeComplete ==
    [][\A t \in Thread :
         LET m == merge[t] IN
         MergeMemos(t) /\ MemosUntouched(m) =>
            /\ memo[m.loser].content \in {0} \cup
                  {versions'[i].content : i \in VersionsOf(Snapshot', m.winner)}
            /\ VersionsOf(Snapshot, m.loser) \cup VersionsOf(Snapshot, m.winner)
                  \subseteq VersionsOf(Snapshot', m.winner)
            /\ Unambiguous(Snapshot, m.loser) /\ Unambiguous(Snapshot, m.winner) =>
                  Unambiguous(Snapshot', m.winner)
            /\ \A i, j \in VersionsOf(Snapshot, m.loser) :
                  Precedes(Snapshot, i, j) => Precedes(Snapshot', i, j)
            /\ \A i \in VersionsOf(Snapshot, m.winner), j \in VersionsOf(Snapshot, m.loser) :
                  Precedes(Snapshot', i, j)]_vars

\* Nothing was committed to the two projects since the merge took its snapshot.
ProjectsUntouched(m) ==
    /\ \A p \in {m.loser, m.winner} :
          m.view.project[p] = project[p] /\ m.view.member[p] = member[p]
    /\ \A x \in Memo :
          \/ m.view.memo[x] = memo[x]
          \/ memo[x].state # "absent" /\ memo[x].project \notin {m.loser, m.winner}

\* merge_projects takes all live memos of the loser to the winner, takes away no
\* role in the winner, and whoever was a member of the loser is one of the winner.
ProjectMergeComplete ==
    [][\A t \in Thread :
         LET m == merge[t] IN
         MergeProjects(t) /\ ProjectsUntouched(m) =>
            /\ \A x \in Memo :
                  LiveMemo(Snapshot, x) /\ memo[x].project \in {m.loser, m.winner} =>
                     memo'[x] = [memo[x] EXCEPT !.project = m.winner]
            /\ \A u \in User :
                  IF member[m.winner][u].state = "live"
                  THEN member'[m.winner][u] = member[m.winner][u]
                  ELSE member[m.loser][u].state = "live" =>
                          member'[m.winner][u] = member[m.loser][u]]_vars

\* A number names one version of a memo: merge_memos renumbers the versions it moves
\* because the route of a version "becomes ambiguous" otherwise.  No run checks it: a
\* save of the winner during a merge takes a number the merge has counted out (see README).
NumbersUnambiguous == \A m \in Memo : Unambiguous(Snapshot, m)

\* When a merge of memos commits, its winner is alive.  No run checks it: two merges
\* of the same memos in opposite directions hide both (see README).
SurvivorStays ==
    [][\A t \in Thread : MergeMemos(t) => LiveMemo(Snapshot', merge[t].winner)]_vars

=============================================================================
