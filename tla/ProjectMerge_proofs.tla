-------------------------- MODULE ProjectMerge_proofs --------------------------
(***************************************************************************)
(* Theorems about handlers and merges that share the tables, for all sets  *)
(* of projects, memos, users and threads.                                  *)
(***************************************************************************)
EXTENDS ProjectMerge, FiniteSetTheorems, WellFoundedInduction, SequenceTheorems, TLAPS

(***************************************************************************)
(* Numbers of versions.                                                    *)
(***************************************************************************)
\* A finite set of numbers has a greatest one: otherwise take the least of its
\* subsets without one, and remove an element.
LEMMA Greatest ==
    ASSUME NEW S \in SUBSET Nat, IsFiniteSet(S), S # {}
    PROVE  Max(S) \in S /\ \A y \in S : Max(S) >= y
<1> DEFINE None == {T \in SUBSET S : T # {} /\ \A x \in T : \E y \in T : ~(x >= y)}
<1>1. None = {}
  <2> SUFFICES ASSUME None # {} PROVE FALSE
      OBVIOUS
  <2>1. IsWellFoundedOn(StrictSubsetOrdering(S), SUBSET S)
      BY FS_StrictSubsetOrderingWellFounded, FS_FiniteSubsetsOfFinite
  <2> HIDE DEF None
  <2>2. None \subseteq SUBSET S
      BY DEF None
  <2>3. PICK T \in None : \A U \in None : ~(<<U, T>> \in StrictSubsetOrdering(S))
      BY <2>1, <2>2, WFMin
  <2>4. PICK a \in T : TRUE
      BY <2>3 DEF None
  <2>5. T \ {a} # {}
      BY <2>3, <2>4 DEF None
  <2>6. T \ {a} \notin None
      BY <2>2, <2>3, <2>4 DEF StrictSubsetOrdering
  <2>7. PICK b \in T \ {a} : \A y \in T \ {a} : b >= y
      BY <2>2, <2>5, <2>6 DEF None
  <2>8. a \in Nat /\ b \in Nat /\ T \subseteq Nat
      BY <2>2, <2>4, <2>7
  <2>9. (\A y \in T : a >= y) \/ (\A y \in T : b >= y)
      BY <2>7, <2>8
  <2> QED
      BY <2>4, <2>7, <2>9 DEF None
<1>2. S \notin None
    BY <1>1
<1>3. \E x \in S : \A y \in S : x >= y
    BY <1>2
<1> QED
    BY <1>3 DEF Max

LEMMA VersionsTyped ==
    ASSUME NEW s \in AnySnapshot, NEW m
    PROVE  /\ s.versions \in Seq(VersionRow)
           /\ VersionsOf(s, m) \subseteq 1 .. Len(s.versions)
           /\ \A i \in VersionsOf(s, m) : s.versions[i].number \in Nat
           /\ IsFiniteSet(VersionsOf(s, m))
<1>1. s.versions \in Seq(VersionRow)
    BY DEF AnySnapshot
<1>2. \A i \in DOMAIN s.versions : s.versions[i] \in VersionRow
    BY <1>1
<1>3. VersionsOf(s, m) \subseteq 1 .. Len(s.versions)
    BY <1>1 DEF VersionsOf
<1>4. IsFiniteSet(1 .. Len(s.versions))
    BY <1>1, FS_Interval
<1> QED
    BY <1>1, <1>2, <1>3, <1>4, FS_Subset DEF VersionsOf, VersionRow

LEMMA NumbersTyped ==
    ASSUME NEW s \in AnySnapshot, NEW m
    PROVE  /\ MaxVersion(s, m) \in Nat
           /\ \A i \in VersionsOf(s, m) : s.versions[i].number <= MaxVersion(s, m)
           /\ \A loser, i : Renumbered(s, loser, m, i) \in Nat
<1> DEFINE N == {s.versions[i].number : i \in VersionsOf(s, m)}
       f == [i \in VersionsOf(s, m) |-> s.versions[i].number]
<1>1. N \in SUBSET Nat
    BY VersionsTyped
<1>2. IsFiniteSet(N)
  <2>1. f \in Surjection(VersionsOf(s, m), N)
      BY DEF Surjection
  <2>2. IsFiniteSet(VersionsOf(s, m))
      BY VersionsTyped
  <2> HIDE DEF N, f
  <2> QED
      BY <2>1, <2>2, FS_Surjection
<1>a. {0} \cup N \in SUBSET Nat
    BY <1>1
<1>b. IsFiniteSet({0} \cup N)
  <2> HIDE DEF N
  <2>1. IsFiniteSet({0})
      BY FS_Singleton
  <2> QED
      BY <1>2, <2>1, FS_Union
<1>3. MaxVersion(s, m) \in Nat /\ \A y \in {0} \cup N : MaxVersion(s, m) >= y
    BY <1>a, <1>b, Greatest DEF MaxVersion
<1>4. ASSUME NEW loser, NEW i
      PROVE  Renumbered(s, loser, m, i) \in Nat
  <2> DEFINE C == {j \in VersionsOf(s, loser) : Precedes(s, j, i)}
  <2>1. IsFiniteSet(C)
      BY VersionsTyped, FS_Subset
  <2>2. Cardinality(C) \in Nat
      BY <2>1, FS_CardinalityType
  <2> QED
      BY <1>3, <2>2 DEF Renumbered
<1>5. \A i \in VersionsOf(s, m) : s.versions[i].number <= MaxVersion(s, m)
  <2> TAKE i \in VersionsOf(s, m)
  <2>1. s.versions[i].number \in {0} \cup N /\ s.versions[i].number \in Nat
      BY VersionsTyped
  <2> HIDE DEF N
  <2> QED
      BY <1>3, <2>1
<1> QED
    BY <1>3, <1>4, <1>5

LEMMA MergedTyped ==
    ASSUME versions \in Seq(VersionRow), NEW s \in AnySnapshot,
           NEW loser \in Memo, NEW winner \in Memo, LiveMemo(s, loser)
    PROVE  MergedVersions(s, loser, winner) \in Seq(VersionRow)
<1> DEFINE new(i) == [versions[i] EXCEPT !.memo = winner,
                                        !.number = Renumbered(s, loser, winner, i)]
           moved == [i \in DOMAIN versions |->
                       IF i \in VersionsOf(s, loser) THEN new(i) ELSE versions[i]]
           copy == [memo |-> winner, number |-> MaxVersion(s, winner) + 1,
                    content |-> s.memo[loser].content]
<1>1. \A i \in DOMAIN versions : versions[i] \in VersionRow
    OBVIOUS
<1>2. \A i \in DOMAIN versions : new(i) \in VersionRow
  <2> TAKE i \in DOMAIN versions
  <2>1. Renumbered(s, loser, winner, i) \in Nat /\ versions[i] \in VersionRow
      BY <1>1, NumbersTyped
  <2> QED
      BY <2>1 DEF VersionRow
<1>3. moved \in Seq(VersionRow)
  <2> HIDE DEF new
  <2>1. moved \in [1 .. Len(versions) -> VersionRow]
      BY <1>1, <1>2
  <2>2. Len(versions) \in Nat
      OBVIOUS
  <2> HIDE DEF moved
  <2> QED
      BY <2>1, <2>2, SeqDef
<1>4. copy \in VersionRow
  <2>1. s.memo[loser].content \in Body
      BY DEF AnySnapshot, LiveMemo, NoRow, MemoRow
  <2> QED
      BY <2>1, NumbersTyped DEF VersionRow
<1>5. Append(moved, copy) \in Seq(VersionRow)
  <2> HIDE DEF moved, copy
  <2> QED
      BY <1>3, <1>4
<1> QED
    BY <1>3, <1>5 DEF MergedVersions

\* The rows after a merge: those of the loser under their new numbers, the others
\* as they were, and the copy of the loser's body, if there is one, at the end.
LEMMA MergedRows ==
    ASSUME versions \in Seq(VersionRow), NEW s, NEW loser, NEW winner,
           versions' = MergedVersions(s, loser, winner)
    PROVE  /\ \A i \in DOMAIN versions : i \in DOMAIN versions' /\ versions'[i].content = versions[i].content
           /\ \A i \in DOMAIN versions \ VersionsOf(s, loser) : versions'[i] = versions[i]
           /\ \A i \in DOMAIN versions \cap VersionsOf(s, loser) :
                /\ versions'[i].memo = winner
                /\ versions'[i].number = Renumbered(s, loser, winner, i)
           /\ IsCopied(s, loser, winner) =>
                /\ Len(versions) + 1 \in DOMAIN versions'
                /\ versions'[Len(versions) + 1] =
                      [memo |-> winner, number |-> MaxVersion(s, winner) + 1,
                       content |-> s.memo[loser].content]
           /\ \A i \in DOMAIN versions' :
                i \in DOMAIN versions \/ (IsCopied(s, loser, winner) /\ i = Len(versions) + 1)
<1> DEFINE new(i) == IF i \in VersionsOf(s, loser)
                     THEN [versions[i] EXCEPT !.memo = winner,
                             !.number = Renumbered(s, loser, winner, i)]
                     ELSE versions[i]
           moved == [i \in DOMAIN versions |-> new(i)]
           copy == [memo |-> winner, number |-> MaxVersion(s, winner) + 1,
                    content |-> s.memo[loser].content]
<1>1. DOMAIN versions = 1 .. Len(versions) /\ Len(versions) \in Nat
    OBVIOUS
<1>2. versions' = IF IsCopied(s, loser, winner) THEN Append(moved, copy) ELSE moved
    BY DEF MergedVersions
<1>3. moved = [i \in 1 .. Len(versions) |-> new(i)]
    BY <1>1
<1> HIDE DEF new, copy
<1>4. DOMAIN moved = 1 .. Len(versions) /\ \A i \in 1 .. Len(versions) : moved[i] = new(i)
    BY <1>3
<1>5. moved \in Seq({new(i) : i \in 1 .. Len(versions)}) /\ Len(moved) = Len(versions)
  <2>1. moved \in [1 .. Len(versions) -> {new(i) : i \in 1 .. Len(versions)}]
      BY <1>3
  <2> HIDE DEF moved
  <2>2. moved \in Seq({new(i) : i \in 1 .. Len(versions)})
      BY <1>1, <2>1, SeqDef
  <2> QED
      BY <1>1, <1>4, <2>2
<1> HIDE DEF moved
<1>6. ASSUME NEW i \in DOMAIN versions
      PROVE  /\ new(i).content = versions[i].content
             /\ i \notin VersionsOf(s, loser) => new(i) = versions[i]
             /\ i \in VersionsOf(s, loser) =>
                  new(i).memo = winner /\ new(i).number = Renumbered(s, loser, winner, i)
  <2>1. versions[i] \in VersionRow
      OBVIOUS
  <2> QED
      BY <2>1 DEF new, VersionRow
<1>7. CASE IsCopied(s, loser, winner)
  <2>1. /\ DOMAIN versions' = 1 .. Len(versions) + 1
        /\ \A i \in 1 .. Len(versions) : versions'[i] = new(i)
        /\ versions'[Len(versions) + 1] = copy
      BY <1>1, <1>2, <1>4, <1>5, <1>7
  <2> QED
      BY <1>1, <1>6, <1>7, <2>1 DEF copy
<1>8. CASE ~IsCopied(s, loser, winner)
    BY <1>1, <1>2, <1>4, <1>6, <1>8
<1> QED
    BY <1>7, <1>8

(***************************************************************************)
(* The inductive invariant: what a handler or a merge read at its begin    *)
(* still holds, as far as its writes rely on it.                           *)
(***************************************************************************)
\* The user is not the owner of the project, as long as that lives.
Spares(p, u) == project[p] # NoRow /\ (project[p].state = "live" => project[p].owner # u)

HandlerKnows(h) ==
    /\ h.op = "create_memo" => memo[h.memo] = NoRow
    /\ h.op = "delete_memos" => \A m \in h.memos : memo[m] # NoRow
    /\ h.op = "delete_project" => project[h.project] # NoRow
    /\ h.op \in {"invite", "remove"} => Spares(h.project, h.user)

\* The rows of a snapshot still exist, and projects still have their owners.
ViewKnows(v) ==
    /\ \A x \in Memo : v.memo[x] # NoRow => memo[x] # NoRow
    /\ \A p \in Project, u \in User : v.member[p][u] # NoRow => member[p][u] # NoRow
    /\ \A p \in Project : v.project[p] # NoRow =>
          project[p] # NoRow /\ project[p].owner = v.project[p].owner

\* A snapshot was taken of tables in which OwnersStay held and the rows lived.
ViewLegal(v, kind, loser, winner) ==
    /\ loser # winner
    /\ kind = "memo" => LiveMemo(v, loser) /\ LiveMemo(v, winner)
    /\ kind = "project" => LiveProject(v, loser) /\ LiveProject(v, winner)
    /\ \A p \in Project : LiveProject(v, p) =>
          v.member[p][v.project[p].owner] = [state |-> "live", role |-> "owner"]

MergesKnow ==
    \A t \in Thread : merge[t].at = "read" =>
       /\ ViewKnows(merge[t].view)
       /\ ViewLegal(merge[t].view, merge[t].kind, merge[t].loser, merge[t].winner)

IInv == TypeOK /\ OwnersStay /\ HandlerKnows(handler) /\ MergesKnow

\* What every step keeps: rows stay, projects keep their owners and never revive.
RowsKept ==
    /\ \A x \in Memo : memo[x] # NoRow => memo'[x] # NoRow
    /\ \A p \in Project, u \in User : member[p][u] # NoRow => member'[p][u] # NoRow
    /\ \A p \in Project : project[p] # NoRow =>
          /\ project'[p] # NoRow /\ project'[p].owner = project[p].owner
          /\ project'[p].state = "live" => project[p].state = "live"

TablesTyped ==
    /\ project \in [Project -> {NoRow} \cup ProjectRow]
    /\ member \in [Project -> [User -> {NoRow} \cup MemberRow]]
    /\ memo \in [Memo -> {NoRow} \cup MemoRow]
    /\ versions \in Seq(VersionRow)

LEMMA Parts ==
    TypeOK <=> /\ TablesTyped
               /\ handler \in AnyHandler
               /\ merge \in [Thread -> {NoMerge} \cup Queued \cup Reading]
               /\ requests \in 0 .. MaxRequests
BY DEF TypeOK, TablesTyped, Snapshot, AnySnapshot

LEMMA PartsNext ==
    ASSUME TablesTyped', handler' \in AnyHandler,
           merge' \in [Thread -> {NoMerge} \cup Queued \cup Reading],
           requests' \in 0 .. MaxRequests
    PROVE  TypeOK'
BY DEF TypeOK, TablesTyped, Snapshot, AnySnapshot

LEMMA SnapshotFields ==
    /\ Snapshot.project = project /\ Snapshot.member = member
    /\ Snapshot.memo = memo /\ Snapshot.versions = versions
BY DEF Snapshot

LEMMA Asked ==
    ASSUME requests \in 0 .. MaxRequests, Ask
    PROVE  requests' \in 0 .. MaxRequests
BY TablesAssumption DEF Ask

(***************************************************************************)
(* Snapshots stay sound while rows are kept.                               *)
(***************************************************************************)
LEMMA ViewStays ==
    ASSUME NEW v, ViewKnows(v), RowsKept
    PROVE  ViewKnows(v)'
BY DEF ViewKnows, RowsKept

LEMMA MergesStay ==
    ASSUME MergesKnow, RowsKept,
           \A t \in Thread : merge'[t] = merge[t] \/ merge'[t].at # "read"
    PROVE  MergesKnow'
<1> SUFFICES ASSUME NEW t \in Thread, merge'[t].at = "read"
             PROVE  /\ ViewKnows(merge[t].view)'
                    /\ ViewLegal(merge[t].view, merge[t].kind, merge[t].loser, merge[t].winner)'
    BY DEF MergesKnow
<1>1. merge'[t] = merge[t]
    OBVIOUS
<1>2. ViewKnows(merge[t].view) /\ ViewLegal(merge[t].view, merge[t].kind, merge[t].loser,
                                            merge[t].winner)
    BY <1>1 DEF MergesKnow
<1>3. PICK v : v = merge[t].view
    OBVIOUS
<1>4. ViewKnows(v)'
    BY <1>2, <1>3, ViewStays
<1>5. ViewKnows(merge[t].view)'
    BY <1>1, <1>3, <1>4 DEF ViewKnows
<1>6. ViewLegal(merge[t].view, merge[t].kind, merge[t].loser, merge[t].winner)'
    BY <1>1, <1>2 DEF ViewLegal, LiveMemo, LiveProject
<1> QED
    BY <1>5, <1>6

LEMMA SparesStays ==
    ASSUME NEW p \in Project, NEW u, Spares(p, u), RowsKept
    PROVE  Spares(p, u)'
BY DEF Spares, RowsKept

(***************************************************************************)
(* The kinds of steps.                                                     *)
(***************************************************************************)
LEMMA SameTables ==
    ASSUME TablesTyped, OwnersStay, UNCHANGED tables
    PROVE  TablesTyped' /\ OwnersStay' /\ RowsKept
<1>1. Snapshot' = Snapshot
    BY DEF Snapshot, tables
<1> QED
    BY <1>1 DEF TablesTyped, OwnersStay, RowsKept, tables, LiveProject, Snapshot

\* A handler passes its checks: what it read holds.
LEMMA ChecksStep ==
    ASSUME IInv, NEW h \in AnyHandler, Checked(h), HandlerKnows(h)
    PROVE  IInv'
<1>1. TablesTyped' /\ OwnersStay' /\ RowsKept
    BY SameTables, Parts DEF IInv, Checked
<1>2. HandlerKnows(handler)'
    BY DEF HandlerKnows, Checked, Spares, tables
<1>3. MergesKnow'
    BY <1>1, MergesStay DEF IInv, Checked
<1>4. handler' \in AnyHandler /\ requests' \in 0 .. MaxRequests /\ merge' = merge
    BY Asked, Parts DEF IInv, Checked
<1> QED
    BY <1>1, <1>2, <1>3, <1>4, PartsNext, Parts DEF IInv

\* A handler ends, or one without a separate check runs.
LEMMA WritesStep ==
    ASSUME IInv, handler' = Idle, UNCHANGED <<merge, requests>>,
           TablesTyped', OwnersStay', RowsKept
    PROVE  IInv'
<1>1. HandlerKnows(handler)'
    BY DEF HandlerKnows, Idle
<1>2. MergesKnow'
    BY MergesStay DEF IInv
<1>3. handler' \in AnyHandler
    BY DEF AnyHandler
<1> QED
    BY <1>1, <1>2, <1>3, PartsNext, Parts DEF IInv

\* A merge moves on; memos that do not exist still do not.
LEMMA MergeStep ==
    ASSUME IInv, NEW t \in Thread, NEW m \in {NoMerge} \cup Queued \cup Reading, Becomes(t, m),
           handler' = handler, requests' \in 0 .. MaxRequests,
           TablesTyped', OwnersStay', RowsKept,
           \A x \in Memo : memo[x] = NoRow => memo'[x] = NoRow,
           m.at = "read" => /\ ViewKnows(m.view)'
                            /\ ViewLegal(m.view, m.kind, m.loser, m.winner)
    PROVE  IInv'
<1>1. merge' = [merge EXCEPT ![t] = m] /\ handler \in AnyHandler
      /\ merge \in [Thread -> {NoMerge} \cup Queued \cup Reading]
    BY Parts DEF IInv, Becomes
<1>2. HandlerKnows(handler)'
  <2>1. HandlerKnows(handler)
      BY DEF IInv
  <2>2. handler.op = "create_memo" => handler.memo \in Memo
      BY <1>1 DEF AnyHandler, Idle
  <2>3. handler.op = "delete_memos" => handler.memos \subseteq Memo
      BY <1>1 DEF AnyHandler, Idle
  <2>4. handler.op \in {"delete_project", "invite", "remove"} => handler.project \in Project
      BY <1>1 DEF AnyHandler, Idle
  <2>5. handler.op \in {"invite", "remove"} => Spares(handler.project, handler.user)'
      BY <2>1, <2>4 DEF HandlerKnows, Spares, RowsKept
  <2> QED
      BY <2>1, <2>2, <2>3, <2>4, <2>5 DEF HandlerKnows, RowsKept, Spares
<1>3. MergesKnow'
  <2> SUFFICES ASSUME NEW q \in Thread, merge'[q].at = "read"
               PROVE  /\ ViewKnows(merge[q].view)'
                      /\ ViewLegal(merge[q].view, merge[q].kind, merge[q].loser, merge[q].winner)'
      BY DEF MergesKnow
  <2>1. CASE q = t
    <3>1. merge'[q] = m
        BY <1>1, <2>1
    <3>2. ViewKnows(merge[q].view)'
        BY <3>1 DEF ViewKnows
    <3>3. ViewLegal(merge[q].view, merge[q].kind, merge[q].loser, merge[q].winner)'
        BY <3>1 DEF ViewLegal, LiveMemo, LiveProject
    <3> QED
        BY <3>2, <3>3
  <2>2. CASE q # t
    <3>1. merge'[q] = merge[q]
        BY <1>1, <2>2
    <3>2. ViewKnows(merge[q].view) /\ ViewLegal(merge[q].view, merge[q].kind, merge[q].loser, merge[q].winner)
        BY <3>1 DEF IInv, MergesKnow
    <3>3. ViewKnows(merge[q].view)'
        BY <3>1, <3>2, ViewStays DEF ViewKnows
    <3>4. ViewLegal(merge[q].view, merge[q].kind, merge[q].loser, merge[q].winner)'
        BY <3>1, <3>2 DEF ViewLegal, LiveMemo, LiveProject
    <3> QED
        BY <3>3, <3>4
  <2> QED
      BY <2>1, <2>2
<1>4. merge' \in [Thread -> {NoMerge} \cup Queued \cup Reading]
    BY <1>1
<1> QED
    BY <1>1, <1>2, <1>3, <1>4, PartsNext, Parts DEF IInv

(***************************************************************************)
(* The checks of the handlers.                                             *)
(***************************************************************************)
LEMMA ChecksKeep ==
    ASSUME IInv, NEW u \in User,
           \/ \E m \in Memo, p \in Project, title \in Title : CreateMemoChecks(u, m, p, title)
           \/ \E m \in Memo : DeleteMemoChecks(u, m)
           \/ \E ms \in SUBSET Memo : BulkDeleteChecks(u, ms)
           \/ \E p \in Project : DeleteProjectChecks(u, p)
           \/ \E p \in Project, v \in User, role \in Role \ {"owner"} : InviteChecks(u, p, v, role)
           \/ \E p \in Project, v \in User : RemoveChecks(u, p, v)
    PROVE  IInv'
<1>1. TablesTyped /\ OwnersStay
    BY Parts DEF IInv
<1>2. ASSUME NEW m \in Memo, NEW p \in Project, NEW title \in Title,
             CreateMemoChecks(u, m, p, title)
      PROVE  IInv'
  <2> DEFINE h == [op |-> "create_memo", memo |-> m, project |-> p, title |-> title]
  <2>1. h \in AnyHandler
      BY DEF AnyHandler
  <2>2. memo[m] = NoRow
      BY <1>1, <1>2 DEF CreateMemoChecks, TablesTyped, MemoRow
  <2>3. HandlerKnows(h)
      BY <2>2 DEF HandlerKnows
  <2>4. Checked(h)
      BY <1>2 DEF CreateMemoChecks
  <2> HIDE DEF h
  <2> QED
      BY <2>1, <2>3, <2>4, ChecksStep
<1>3. ASSUME NEW ms \in SUBSET Memo, \A m \in ms : LiveMemo(Snapshot, m),
             Checked([op |-> "delete_memos", memos |-> ms])
      PROVE  IInv'
  <2> DEFINE h == [op |-> "delete_memos", memos |-> ms]
  <2>1. h \in AnyHandler
      BY DEF AnyHandler
  <2>2. HandlerKnows(h)
      BY <1>3 DEF HandlerKnows, LiveMemo, Snapshot, NoRow
  <2>3. Checked(h)
      BY <1>3
  <2> HIDE DEF h
  <2> QED
      BY <2>1, <2>2, <2>3, ChecksStep
<1>4. ASSUME NEW m \in Memo, DeleteMemoChecks(u, m)
      PROVE  IInv'
    BY <1>3, <1>4 DEF DeleteMemoChecks
<1>5. ASSUME NEW ms \in SUBSET Memo, BulkDeleteChecks(u, ms)
      PROVE  IInv'
  <2> DEFINE live == {m \in ms : LiveMemo(Snapshot, m) /\ CanManage(Snapshot, memo[m].project, u)}
  <2>1. live \in SUBSET Memo /\ \A m \in live : LiveMemo(Snapshot, m)
      OBVIOUS
  <2>2. Checked([op |-> "delete_memos", memos |-> live])
      BY <1>5 DEF BulkDeleteChecks
  <2> HIDE DEF live
  <2> QED
      BY <1>3, <2>1, <2>2
<1>6. ASSUME NEW p \in Project, DeleteProjectChecks(u, p)
      PROVE  IInv'
  <2> DEFINE h == [op |-> "delete_project", project |-> p]
  <2>1. h \in AnyHandler
      BY DEF AnyHandler
  <2>2. HandlerKnows(h)
      BY <1>6 DEF DeleteProjectChecks, HandlerKnows, LiveProject, Snapshot, NoRow
  <2>3. Checked(h)
      BY <1>6 DEF DeleteProjectChecks
  <2> HIDE DEF h
  <2> QED
      BY <2>1, <2>2, <2>3, ChecksStep
<1>7. ASSUME NEW p \in Project, NEW v \in User, LiveProject(Snapshot, p),
             member[p][v] # [state |-> "live", role |-> "owner"]
      PROVE  Spares(p, v)
    BY <1>1, <1>7 DEF Spares, OwnersStay, LiveProject, Snapshot, NoRow
<1>8. ASSUME NEW p \in Project, NEW v \in User, NEW role \in Role \ {"owner"},
             InviteChecks(u, p, v, role)
      PROVE  IInv'
  <2> DEFINE h == [op |-> "invite", project |-> p, user |-> v, role |-> role,
                   known |-> member[p][v].state = "gone"]
  <2>1. h \in AnyHandler
      BY DEF AnyHandler
  <2>2. Spares(p, v)
      BY <1>7, <1>8 DEF InviteChecks
  <2>3. HandlerKnows(h)
      BY <2>2 DEF HandlerKnows
  <2>4. Checked(h)
      BY <1>8 DEF InviteChecks
  <2> HIDE DEF h
  <2> QED
      BY <2>1, <2>3, <2>4, ChecksStep
<1>9. ASSUME NEW p \in Project, NEW v \in User, RemoveChecks(u, p, v)
      PROVE  IInv'
  <2> DEFINE h == [op |-> "remove", project |-> p, user |-> v]
  <2>1. h \in AnyHandler
      BY DEF AnyHandler
  <2>2. Spares(p, v)
      BY <1>7, <1>9 DEF RemoveChecks
  <2>3. HandlerKnows(h)
      BY <2>2 DEF HandlerKnows
  <2>4. Checked(h)
      BY <1>9 DEF RemoveChecks
  <2> HIDE DEF h
  <2> QED
      BY <2>1, <2>3, <2>4, ChecksStep
<1> QED
    BY <1>2, <1>4, <1>5, <1>6, <1>8, <1>9

(***************************************************************************)
(* The writes of the handlers.                                             *)
(***************************************************************************)
LEMMA CreateMemoKeeps ==
    ASSUME IInv, CreateMemo
    PROVE  IInv'
<1>1. TablesTyped /\ OwnersStay /\ HandlerKnows(handler) /\ handler \in AnyHandler
    BY Parts DEF IInv
<1>2. handler.memo \in Memo /\ handler.project \in Project /\ handler.title \in Title
    BY <1>1 DEF CreateMemo, AnyHandler, Idle
<1> DEFINE row == [state |-> "live", project |-> handler.project, title |-> handler.title,
                   content |-> 0]
<1>3. row \in MemoRow /\ row # NoRow
    BY <1>2, TablesAssumption DEF MemoRow, Body, NoRow
<1>4. memo' = [memo EXCEPT ![handler.memo] = row] /\ UNCHANGED <<project, member, versions>>
    BY DEF CreateMemo
<1> HIDE DEF row
<1>5. TablesTyped'
    BY <1>1, <1>2, <1>3, <1>4 DEF TablesTyped
<1>6. OwnersStay'
    BY <1>1, <1>4 DEF OwnersStay, LiveProject, Snapshot
<1>7. RowsKept
    BY <1>1, <1>2, <1>3, <1>4 DEF RowsKept, TablesTyped
<1> QED
    BY <1>5, <1>6, <1>7, WritesStep DEF CreateMemo, Returns

LEMMA UpdateMemoKeeps ==
    ASSUME IInv, NEW u \in User, NEW m \in Memo, NEW body \in Body, UpdateMemo(u, m, body)
    PROVE  IInv'
<1>1. TablesTyped /\ OwnersStay /\ Snapshot \in AnySnapshot
    BY Parts DEF IInv, TypeOK
<1>2. memo[m] \in MemoRow
    BY <1>1 DEF UpdateMemo, LiveMemo, Snapshot, TablesTyped, NoRow
<1>3. [memo[m] EXCEPT !.content = body] \in MemoRow /\ [memo[m] EXCEPT !.content = body] # NoRow
    BY <1>2 DEF MemoRow, NoRow
<1>4. SavedVersion(m, body) \in VersionRow
  <2>1. memo[m].content \in Body
      BY <1>2 DEF MemoRow
  <2>2. MaxVersion(Snapshot, m) \in Nat
      BY <1>1, NumbersTyped
  <2> QED
      BY <2>1, <2>2 DEF SavedVersion, VersionRow
<1>5. memo' = [memo EXCEPT ![m] = [memo[m] EXCEPT !.content = body]]
      /\ UNCHANGED <<project, member>>
    BY <1>1 DEF UpdateMemo, TablesTyped
<1>6. versions' \in Seq(VersionRow)
    BY <1>1, <1>4 DEF UpdateMemo, TablesTyped
<1>7. TablesTyped'
    BY <1>1, <1>3, <1>5, <1>6 DEF TablesTyped
<1>8. OwnersStay'
    BY <1>1, <1>5 DEF OwnersStay, LiveProject, Snapshot
<1>9. RowsKept
    BY <1>1, <1>3, <1>5 DEF RowsKept, TablesTyped
<1> QED
    BY <1>7, <1>8, <1>9, WritesStep DEF UpdateMemo, LoopFree

LEMMA DeleteMemosKeep ==
    ASSUME IInv, DeleteMemos
    PROVE  IInv'
<1>1. TablesTyped /\ OwnersStay /\ HandlerKnows(handler) /\ handler \in AnyHandler
    BY Parts DEF IInv
<1>2. \A m \in handler.memos : memo[m] # NoRow
    BY <1>1 DEF DeleteMemos, HandlerKnows
<1>3. \A m \in Memo \cap handler.memos :
         [memo[m] EXCEPT !.state = "gone"] \in MemoRow /\ [memo[m] EXCEPT !.state = "gone"] # NoRow
    BY <1>1, <1>2 DEF TablesTyped, MemoRow, NoRow
<1>4. TablesTyped'
    BY <1>1, <1>3 DEF TablesTyped, DeleteMemos
<1>5. OwnersStay'
    BY <1>1 DEF OwnersStay, LiveProject, Snapshot, DeleteMemos
<1>6. RowsKept
    BY <1>1, <1>3 DEF RowsKept, TablesTyped, DeleteMemos
<1> QED
    BY <1>4, <1>5, <1>6, WritesStep DEF DeleteMemos, Returns

LEMMA CreateProjectKeeps ==
    ASSUME IInv, NEW u \in User, NEW p \in Project, CreateProject(u, p)
    PROVE  IInv'
<1>1. TablesTyped /\ OwnersStay
    BY Parts DEF IInv
<1> DEFINE new == [state |-> "live", owner |-> u]
           row == [state |-> "live", role |-> "owner"]
<1>2. new \in ProjectRow /\ new # NoRow /\ row \in MemberRow /\ row # NoRow
    BY DEF ProjectRow, MemberRow, NoRow, Role
<1>3. new.state = "live" /\ new.owner = u
    OBVIOUS
<1>4. project[p] = NoRow
    BY <1>1 DEF CreateProject, TablesTyped, ProjectRow
<1>5. /\ project' = [project EXCEPT ![p] = new]
      /\ member' = [member EXCEPT ![p] = [member[p] EXCEPT ![u] = row]]
      /\ UNCHANGED <<memo, versions>>
    BY <1>1 DEF CreateProject, TablesTyped
<1> HIDE DEF new
<1>6. TablesTyped'
  <2>1. [member[p] EXCEPT ![u] = row] \in [User -> {NoRow} \cup MemberRow]
      BY <1>1, <1>2 DEF TablesTyped
  <2> QED
      BY <1>1, <1>2, <1>5, <2>1 DEF TablesTyped
<1>7. OwnersStay'
  <2> SUFFICES ASSUME NEW q \in Project, project'[q].state = "live"
               PROVE  member'[q][project'[q].owner] = row
      BY DEF OwnersStay, LiveProject, Snapshot
  <2>1. CASE q = p
      BY <1>1, <1>3, <1>5, <2>1 DEF TablesTyped
  <2>2. CASE q # p
      BY <1>1, <1>5, <2>2 DEF TablesTyped, OwnersStay, LiveProject, Snapshot
  <2> QED
      BY <2>1, <2>2
<1> HIDE DEF row
<1>8. RowsKept
    BY <1>1, <1>2, <1>4, <1>5 DEF RowsKept, TablesTyped
<1> QED
    BY <1>6, <1>7, <1>8, WritesStep DEF CreateProject, LoopFree

LEMMA DeleteProjectKeeps ==
    ASSUME IInv, DeleteProject
    PROVE  IInv'
<1>1. TablesTyped /\ OwnersStay /\ HandlerKnows(handler) /\ handler \in AnyHandler
    BY Parts DEF IInv
<1>2. PICK p \in Project : p = handler.project
    BY <1>1 DEF DeleteProject, AnyHandler, Idle
<1>3. project[p] # NoRow
    BY <1>1, <1>2 DEF DeleteProject, HandlerKnows
<1> DEFINE closed == [project[p] EXCEPT !.state = "gone"]
           removed == [u \in User |-> Removed(member[p][u])]
           hidden(m) == IF memo[m].state = "live" /\ memo[m].project = handler.project
                        THEN [memo[m] EXCEPT !.state = "gone"] ELSE memo[m]
<1>4. closed \in ProjectRow /\ closed # NoRow /\ closed.owner = project[p].owner
      /\ closed.state = "gone"
    BY <1>1, <1>3 DEF TablesTyped, ProjectRow, NoRow
<1>6. \A u \in User : /\ removed[u] \in {NoRow} \cup MemberRow
                      /\ member[p][u] # NoRow => removed[u] # NoRow
  <2> TAKE u \in User
  <2>1. member[p][u] \in {NoRow} \cup MemberRow
      BY <1>1 DEF TablesTyped
  <2>2. removed[u] = IF member[p][u].state = "live" THEN [member[p][u] EXCEPT !.state = "gone"]
                     ELSE member[p][u]
      BY DEF Removed
  <2> HIDE DEF removed
  <2> QED
      BY <2>1, <2>2 DEF MemberRow, NoRow
<1>7. removed \in [User -> {NoRow} \cup MemberRow]
  <2>1. removed = [u \in User |-> removed[u]]
      OBVIOUS
  <2> HIDE DEF removed
  <2> QED
      BY <1>6, <2>1
<1>8. project' = [project EXCEPT ![p] = closed] /\ member' = [member EXCEPT ![p] = removed]
      /\ versions' = versions /\ memo' = [m \in Memo |-> hidden(m)]
    BY <1>1, <1>2 DEF DeleteProject, TablesTyped
<1>9. \A m \in Memo : /\ hidden(m) \in {NoRow} \cup MemoRow
                      /\ memo[m] # NoRow => hidden(m) # NoRow
  <2> TAKE m \in Memo
  <2>1. memo[m] \in {NoRow} \cup MemoRow
      BY <1>1 DEF TablesTyped
  <2> QED
      BY <2>1 DEF MemoRow, NoRow
<1> HIDE DEF closed, removed, hidden
<1>10. TablesTyped'
  <2>1. project' \in [Project -> {NoRow} \cup ProjectRow]
      BY <1>1, <1>4, <1>8 DEF TablesTyped
  <2>2. member' \in [Project -> [User -> {NoRow} \cup MemberRow]]
      BY <1>1, <1>7, <1>8 DEF TablesTyped
  <2>3. memo' \in [Memo -> {NoRow} \cup MemoRow]
      BY <1>8, <1>9
  <2> QED
      BY <1>1, <1>8, <2>1, <2>2, <2>3 DEF TablesTyped
<1>11. OwnersStay'
  <2> SUFFICES ASSUME NEW q \in Project, project'[q].state = "live"
               PROVE  member'[q][project'[q].owner] = [state |-> "live", role |-> "owner"]
      BY DEF OwnersStay, LiveProject, Snapshot
  <2>1. q # p
      BY <1>1, <1>4, <1>8 DEF TablesTyped
  <2> QED
      BY <1>1, <1>8, <2>1 DEF TablesTyped, OwnersStay, LiveProject, Snapshot
<1>12. RowsKept
    BY <1>1, <1>4, <1>6, <1>8, <1>9 DEF RowsKept, TablesTyped
<1> QED
    BY <1>10, <1>11, <1>12, WritesStep DEF DeleteProject, Returns

\* A member row other than the owner's may become any other row.
LEMMA MemberKeeps ==
    ASSUME IInv, NEW p \in Project, NEW u \in User, NEW row \in {NoRow} \cup MemberRow,
           member[p][u] # NoRow => row # NoRow, Spares(p, u), handler' = Idle,
           member' = [member EXCEPT ![p] = [member[p] EXCEPT ![u] = row]],
           UNCHANGED <<project, memo, versions, merge, requests>>
    PROVE  IInv'
<1>1. TablesTyped /\ OwnersStay
    BY Parts DEF IInv
<1>2. TablesTyped'
  <2>1. [member[p] EXCEPT ![u] = row] \in [User -> {NoRow} \cup MemberRow]
      BY <1>1 DEF TablesTyped
  <2> QED
      BY <1>1, <2>1 DEF TablesTyped
<1>3. OwnersStay'
  <2> SUFFICES ASSUME NEW q \in Project, project[q].state = "live"
               PROVE  member'[q][project[q].owner] = [state |-> "live", role |-> "owner"]
      BY DEF OwnersStay, LiveProject, Snapshot
  <2>1. member[q][project[q].owner] = [state |-> "live", role |-> "owner"]
      BY <1>1 DEF OwnersStay, LiveProject, Snapshot
  <2>2. project[q].owner \in User
      BY <1>1 DEF TablesTyped, ProjectRow, NoRow
  <2>3. q = p => project[q].owner # u
      BY DEF Spares
  <2> QED
      BY <1>1, <2>1, <2>2, <2>3 DEF TablesTyped
<1>4. RowsKept
    BY <1>1 DEF RowsKept, TablesTyped
<1> QED
    BY <1>2, <1>3, <1>4, WritesStep

LEMMA InviteMemberKeeps ==
    ASSUME IInv, InviteMember
    PROVE  IInv'
<1>1. TablesTyped /\ HandlerKnows(handler) /\ handler \in AnyHandler
    BY Parts DEF IInv
<1>2. handler.project \in Project /\ handler.user \in User /\ handler.role \in Role
    BY <1>1 DEF InviteMember, AnyHandler, Idle
<1> DEFINE row == [state |-> "live", role |-> handler.role]
<1>3. row \in MemberRow /\ row # NoRow
    BY <1>2 DEF MemberRow, NoRow
<1>4. Spares(handler.project, handler.user)
    BY <1>1 DEF InviteMember, HandlerKnows
<1>5. member' = [member EXCEPT ![handler.project] =
                   [member[handler.project] EXCEPT ![handler.user] = row]]
    BY <1>1, <1>2 DEF InviteMember, TablesTyped
<1> HIDE DEF row
<1> QED
    BY <1>2, <1>3, <1>4, <1>5, MemberKeeps DEF InviteMember, Returns

LEMMA RemoveMemberKeeps ==
    ASSUME IInv, RemoveMember
    PROVE  IInv'
<1>1. TablesTyped /\ HandlerKnows(handler) /\ handler \in AnyHandler
    BY Parts DEF IInv
<1>2. handler.project \in Project /\ handler.user \in User
    BY <1>1 DEF RemoveMember, AnyHandler, Idle
<1> DEFINE row == Removed(member[handler.project][handler.user])
<1>3. row \in {NoRow} \cup MemberRow /\ (member[handler.project][handler.user] # NoRow => row # NoRow)
  <2>1. member[handler.project][handler.user] \in {NoRow} \cup MemberRow
      BY <1>1, <1>2 DEF TablesTyped
  <2> QED
      BY <2>1 DEF Removed, MemberRow, NoRow
<1>4. Spares(handler.project, handler.user)
    BY <1>1 DEF RemoveMember, HandlerKnows
<1>5. member' = [member EXCEPT ![handler.project] =
                   [member[handler.project] EXCEPT ![handler.user] = row]]
    BY <1>1, <1>2 DEF RemoveMember, TablesTyped
<1> HIDE DEF row
<1> QED
    BY <1>2, <1>3, <1>4, <1>5, MemberKeeps DEF RemoveMember, Returns

LEMMA HandlerAbortsKeeps ==
    ASSUME IInv, HandlerAborts
    PROVE  IInv'
<1>1. TablesTyped' /\ OwnersStay' /\ RowsKept
    BY SameTables, Parts DEF IInv, HandlerAborts
<1> QED
    BY <1>1, WritesStep DEF HandlerAborts, Returns

(***************************************************************************)
(* The steps of merges.                                                    *)
(***************************************************************************)
LEMMA QueueKeeps ==
    ASSUME IInv, NEW t \in Thread, NEW kind \in {"memo", "project"}, NEW loser, NEW winner,
           kind = "memo" => loser \in Memo /\ winner \in Memo,
           kind = "project" => loser \in Project /\ winner \in Project,
           Queue(t, kind, loser, winner)
    PROVE  IInv'
<1> DEFINE m == [at |-> "queued", kind |-> kind, loser |-> loser, winner |-> winner]
<1>1. m \in Queued /\ m.at # "read"
    BY DEF Queued
<1>2. TablesTyped' /\ OwnersStay' /\ RowsKept
    BY SameTables, Parts DEF IInv, Queue
<1>3. Becomes(t, m) /\ handler' = handler /\ memo' = memo
    BY DEF Queue, tables
<1>4. requests' \in 0 .. MaxRequests
    BY Asked, Parts DEF IInv, Queue
<1> HIDE DEF m
<1> QED
    BY <1>1, <1>2, <1>3, <1>4, MergeStep

\* A snapshot that is taken now is legal and known.
LEMMA SnapshotLegal ==
    ASSUME IInv, UNCHANGED tables, NEW kind, NEW loser, NEW winner, loser # winner,
           \A x \in {loser, winner} : IF kind = "memo" THEN LiveMemo(Snapshot, x)
                                      ELSE LiveProject(Snapshot, x)
    PROVE  /\ ViewKnows(Snapshot)
           /\ \A v : v = Snapshot => ViewKnows(v)'
           /\ ViewLegal(Snapshot, kind, loser, winner)
<1>1. ViewKnows(Snapshot)
    BY SnapshotFields DEF ViewKnows
<1>2. ASSUME NEW v, v = Snapshot
      PROVE  ViewKnows(v)'
    BY <1>2, SnapshotFields DEF ViewKnows, tables
<1>3. ViewLegal(Snapshot, kind, loser, winner)
    BY SnapshotFields DEF ViewLegal, IInv, OwnersStay
<1> QED
    BY <1>1, <1>2, <1>3

LEMMA ReadsKeep ==
    ASSUME IInv, NEW t \in Thread, NEW kind \in {"memo", "project"}, NEW loser, NEW winner,
           kind = "memo" => loser \in Memo /\ winner \in Memo,
           kind = "project" => loser \in Project /\ winner \in Project,
           Reads(t, kind, loser, winner), requests' \in 0 .. MaxRequests
    PROVE  IInv'
<1>1. PICK v : v = Snapshot
    OBVIOUS
<1> DEFINE m == [at |-> "read", kind |-> kind, loser |-> loser, winner |-> winner, view |-> v]
<1>2. v \in AnySnapshot
    BY <1>1 DEF IInv, TypeOK
<1>3. m \in Reading
    BY <1>2 DEF Reading
<1>4. TablesTyped' /\ OwnersStay' /\ RowsKept
    BY SameTables, Parts DEF IInv, Reads
<1>5. Becomes(t, m) /\ handler' = handler /\ memo' = memo
    BY <1>1 DEF Reads, tables
<1>6. ViewKnows(v)' /\ ViewLegal(v, kind, loser, winner)
    BY <1>1, SnapshotLegal DEF Reads
<1>7. m.view = v /\ m.kind = kind /\ m.loser = loser /\ m.winner = winner
    OBVIOUS
<1>8. ViewKnows(m.view)'
    BY <1>6, <1>7 DEF ViewKnows
<1>9. ViewLegal(m.view, m.kind, m.loser, m.winner)
    BY <1>6, <1>7
<1> HIDE DEF m
<1> QED
    BY <1>3, <1>4, <1>5, <1>8, <1>9, MergeStep

LEMMA MergeReadsKeeps ==
    ASSUME IInv, NEW t \in Thread, MergeReads(t)
    PROVE  IInv'
<1>1. merge[t] \in Queued
    BY Parts DEF IInv, MergeReads, NoMerge, Reading
<1>2. requests' \in 0 .. MaxRequests
    BY Parts DEF IInv, MergeReads
<1> QED
    BY <1>1, <1>2, ReadsKeep DEF MergeReads, Queued

LEMMA MergeAbortsKeeps ==
    ASSUME IInv, NEW t \in Thread, MergeAborts(t)
    PROVE  IInv'
<1>1. TablesTyped' /\ OwnersStay' /\ RowsKept
    BY SameTables, Parts DEF IInv, MergeAborts
<1>2. requests' \in 0 .. MaxRequests /\ NoMerge.at # "read" /\ memo' = memo
    BY Parts DEF IInv, MergeAborts, NoMerge, tables
<1>3. Becomes(t, NoMerge) /\ handler' = handler
    BY DEF MergeAborts
<1> QED
    BY <1>1, <1>2, <1>3, MergeStep

\* What a merge with a snapshot knows.
LEMMA MergeKnows ==
    ASSUME IInv, NEW t \in Thread, merge[t].at = "read"
    PROVE  /\ merge[t].view \in AnySnapshot
           /\ merge[t].kind = "memo" => merge[t].loser \in Memo /\ merge[t].winner \in Memo
           /\ merge[t].kind = "project" => merge[t].loser \in Project /\ merge[t].winner \in Project
           /\ ViewKnows(merge[t].view)
           /\ ViewLegal(merge[t].view, merge[t].kind, merge[t].loser, merge[t].winner)
<1>1. merge[t] \in Reading
    BY Parts DEF IInv, NoMerge, Queued
<1> QED
    BY <1>1 DEF IInv, MergesKnow, Reading

LEMMA MergeMemosKeeps ==
    ASSUME IInv, NEW t \in Thread, MergeMemos(t)
    PROVE  IInv'
<1>1. PICK m : m = merge[t]
    OBVIOUS
<1>2. TablesTyped /\ OwnersStay
    BY Parts DEF IInv
<1>3. /\ m.view \in AnySnapshot /\ m.loser \in Memo /\ m.winner \in Memo
      /\ ViewKnows(m.view) /\ LiveMemo(m.view, m.loser)
    BY <1>1, MergeKnows DEF MergeMemos, ViewLegal
<1>4. versions' \in Seq(VersionRow)
    BY <1>1, <1>2, <1>3, MergedTyped DEF MergeMemos, TablesTyped
<1> DEFINE row == [memo[m.loser] EXCEPT !.state = "gone"]
<1>5. memo[m.loser] \in MemoRow /\ memo[m.loser] # NoRow
    BY <1>2, <1>3 DEF TablesTyped, ViewKnows, LiveMemo, NoRow
<1>6. row \in MemoRow /\ row # NoRow
    BY <1>5 DEF MemoRow, NoRow
<1>7. memo' = [memo EXCEPT ![m.loser] = row] /\ UNCHANGED <<project, member, handler, requests>>
      /\ Becomes(t, NoMerge)
    BY <1>1, <1>2, <1>3 DEF MergeMemos, TablesTyped
<1> HIDE DEF row
<1>8. TablesTyped'
    BY <1>2, <1>3, <1>4, <1>6, <1>7 DEF TablesTyped
<1>9. OwnersStay'
    BY <1>2, <1>7 DEF OwnersStay, LiveProject, Snapshot
<1>10. RowsKept
    BY <1>2, <1>3, <1>6, <1>7 DEF RowsKept, TablesTyped
<1>11. \A x \in Memo : memo[x] = NoRow => memo'[x] = NoRow
    BY <1>2, <1>3, <1>5, <1>7 DEF TablesTyped
<1>12. requests' \in 0 .. MaxRequests /\ NoMerge.at # "read"
    BY <1>7, Parts DEF IInv, NoMerge
<1> QED
    BY <1>7, <1>8, <1>9, <1>10, <1>11, <1>12, MergeStep

LEMMA MergeProjectsKeeps ==
    ASSUME IInv, NEW t \in Thread, MergeProjects(t)
    PROVE  IInv'
<1>1. PICK m : m = merge[t]
    OBVIOUS
<1>2. PICK s : s = m.view
    OBVIOUS
<1>3. PICK loser \in Project : loser = m.loser
    BY <1>1, MergeKnows DEF MergeProjects
<1>4. PICK winner \in Project : winner = m.winner
    BY <1>1, MergeKnows DEF MergeProjects
<1>5. TablesTyped /\ OwnersStay
    BY Parts DEF IInv
<1>6. s \in AnySnapshot /\ ViewKnows(s) /\ ViewLegal(s, "project", loser, winner)
    BY <1>1, <1>2, <1>3, <1>4, MergeKnows DEF MergeProjects
<1> DEFINE taken(x) == IF s.memo[x].state # "absent" /\ s.memo[x].project = loser
                       THEN [memo[x] EXCEPT !.project = winner] ELSE memo[x]
           joined(u) == IF u \in Joining(s, loser, winner)
                        THEN [state |-> "live", role |-> s.member[loser][u].role]
                        ELSE member[winner][u]
           left(u) == IF s.member[loser][u].state = "live"
                      THEN [member[loser][u] EXCEPT !.state = "gone"] ELSE member[loser][u]
           closed == [project[loser] EXCEPT !.state = "gone"]
<1>7. /\ memo' = [x \in Memo |-> taken(x)]
      /\ member' = [member EXCEPT ![winner] = [u \in User |-> joined(u)],
                                  ![loser] = [u \in User |-> left(u)]]
      /\ project' = [project EXCEPT ![loser] = closed]
      /\ UNCHANGED <<versions, handler, requests>> /\ Becomes(t, NoMerge)
  <2>1. loser # winner
      BY <1>6 DEF ViewLegal
  <2> QED
      BY <1>1, <1>2, <1>3, <1>4, <1>5, <2>1 DEF MergeProjects, TablesTyped
<1>8. \A x \in Memo : /\ taken(x) \in {NoRow} \cup MemoRow
                      /\ memo[x] = NoRow <=> taken(x) = NoRow
  <2> TAKE x \in Memo
  <2>1. memo[x] \in {NoRow} \cup MemoRow
      BY <1>5 DEF TablesTyped
  <2>2. s.memo[x].state # "absent" => memo[x] # NoRow
      BY <1>6 DEF ViewKnows, NoRow
  <2> QED
      BY <2>1, <2>2 DEF MemoRow, NoRow
<1>9. \A u \in User : /\ joined(u) \in {NoRow} \cup MemberRow
                      /\ member[winner][u] # NoRow => joined(u) # NoRow
  <2> TAKE u \in User
  <2>1. member[winner][u] \in {NoRow} \cup MemberRow
      BY <1>5 DEF TablesTyped
  <2>2. s.member[loser][u] \in {NoRow} \cup MemberRow
      BY <1>6 DEF AnySnapshot
  <2>3. u \in Joining(s, loser, winner) => s.member[loser][u].role \in Role
      BY <2>2 DEF Joining, MemberRow, NoRow
  <2> QED
      BY <2>1, <2>3 DEF MemberRow, NoRow
<1>10. \A u \in User : /\ left(u) \in {NoRow} \cup MemberRow
                       /\ member[loser][u] # NoRow => left(u) # NoRow
  <2> TAKE u \in User
  <2>1. member[loser][u] \in {NoRow} \cup MemberRow
      BY <1>5 DEF TablesTyped
  <2>2. s.member[loser][u].state = "live" => member[loser][u] # NoRow
      BY <1>6 DEF ViewKnows, NoRow
  <2> QED
      BY <2>1, <2>2 DEF MemberRow, NoRow
<1>11. closed \in ProjectRow /\ closed # NoRow /\ closed.owner = project[loser].owner
       /\ closed.state = "gone"
  <2>1. project[loser] \in ProjectRow
      BY <1>5, <1>6 DEF TablesTyped, ViewKnows, ViewLegal, LiveProject, NoRow
  <2> QED
      BY <2>1 DEF ProjectRow, NoRow
<1>12. project[winner] # NoRow /\ joined(project[winner].owner) = member[winner][project[winner].owner]
  <2>1. project[winner] # NoRow /\ project[winner].owner = s.project[winner].owner
      BY <1>6 DEF ViewKnows, ViewLegal, LiveProject, NoRow
  <2>2. s.member[winner][project[winner].owner].state = "live"
      BY <1>6, <2>1 DEF ViewLegal
  <2> QED
      BY <2>1, <2>2 DEF Joining
<1>13. loser # winner
    BY <1>6 DEF ViewLegal
<1> HIDE DEF taken, joined, left, closed
<1>14. TablesTyped'
  <2>1. project' \in [Project -> {NoRow} \cup ProjectRow]
      BY <1>5, <1>7, <1>11 DEF TablesTyped
  <2>2. member' \in [Project -> [User -> {NoRow} \cup MemberRow]]
    <3>1. [u \in User |-> joined(u)] \in [User -> {NoRow} \cup MemberRow]
        BY <1>9
    <3>2. [u \in User |-> left(u)] \in [User -> {NoRow} \cup MemberRow]
        BY <1>10
    <3> QED
        BY <1>5, <1>7, <3>1, <3>2 DEF TablesTyped
  <2>3. memo' \in [Memo -> {NoRow} \cup MemoRow]
      BY <1>7, <1>8
  <2> QED
      BY <1>5, <1>7, <2>1, <2>2, <2>3 DEF TablesTyped
<1>15. OwnersStay'
  <2> SUFFICES ASSUME NEW q \in Project, project'[q].state = "live"
               PROVE  member'[q][project'[q].owner] = [state |-> "live", role |-> "owner"]
      BY DEF OwnersStay, LiveProject, Snapshot
  <2>1. q # loser
      BY <1>5, <1>7, <1>11 DEF TablesTyped
  <2>2. project'[q] = project[q] /\ project[q].owner \in User
      BY <1>5, <1>7, <2>1 DEF TablesTyped, ProjectRow, NoRow
  <2>3. member[q][project[q].owner] = [state |-> "live", role |-> "owner"]
      BY <1>5, <2>2 DEF OwnersStay, LiveProject, Snapshot
  <2>4. CASE q = winner
      BY <1>5, <1>7, <1>12, <1>13, <2>2, <2>3, <2>4 DEF TablesTyped
  <2>5. CASE q # winner
      BY <1>5, <1>7, <2>1, <2>2, <2>3, <2>5 DEF TablesTyped
  <2> QED
      BY <2>4, <2>5
<1>16. RowsKept
  <2>1. \A x \in Memo : memo[x] # NoRow => memo'[x] # NoRow
      BY <1>7, <1>8
  <2>2. \A p \in Project, u \in User : member[p][u] # NoRow => member'[p][u] # NoRow
      BY <1>5, <1>7, <1>9, <1>10, <1>13 DEF TablesTyped
  <2>3. \A p \in Project : project[p] # NoRow =>
          /\ project'[p] # NoRow /\ project'[p].owner = project[p].owner
          /\ project'[p].state = "live" => project[p].state = "live"
      BY <1>5, <1>7, <1>11 DEF TablesTyped
  <2> QED
      BY <2>1, <2>2, <2>3 DEF RowsKept
<1>17. \A x \in Memo : memo[x] = NoRow => memo'[x] = NoRow
    BY <1>7, <1>8
<1>18. requests' \in 0 .. MaxRequests /\ NoMerge.at # "read"
    BY <1>7, Parts DEF IInv, NoMerge
<1> QED
    BY <1>7, <1>14, <1>15, <1>16, <1>17, <1>18, MergeStep

(***************************************************************************)
(* Type correctness and owners.                                            *)
(***************************************************************************)
LEMMA InitIInv == Init => IInv
<1> SUFFICES ASSUME Init PROVE IInv
    OBVIOUS
<1>1. TablesTyped
  <2>1. project \in [Project -> {NoRow} \cup ProjectRow]
      BY DEF Init, ProjectRow
  <2>2. memo \in [Memo -> {NoRow} \cup MemoRow]
      BY TablesAssumption DEF Init, MemoRow, Body
  <2>3. member \in [Project -> [User -> {NoRow} \cup MemberRow]] /\ versions \in Seq(VersionRow)
      BY DEF Init
  <2> QED
      BY <2>1, <2>2, <2>3 DEF TablesTyped
<1>2. OwnersStay
  <2> SUFFICES ASSUME NEW p \in Project, project[p].state = "live"
               PROVE  member[p][project[p].owner] = [state |-> "live", role |-> "owner"]
      BY DEF OwnersStay, LiveProject, Snapshot
  <2>1. project[p] # NoRow /\ project[p].owner \in User
      BY <1>1 DEF TablesTyped, ProjectRow, NoRow
  <2> QED
      BY <2>1 DEF Init
<1>3. HandlerKnows(handler) /\ handler \in AnyHandler
    BY DEF Init, HandlerKnows, Idle, AnyHandler
<1>4. MergesKnow /\ merge \in [Thread -> {NoMerge} \cup Queued \cup Reading]
    BY DEF Init, MergesKnow, NoMerge
<1>5. requests \in 0 .. MaxRequests
    BY TablesAssumption DEF Init
<1> QED
    BY <1>1, <1>2, <1>3, <1>4, <1>5, Parts DEF IInv

LEMMA NextIInv == IInv /\ [Next]_vars => IInv'
<1> SUFFICES ASSUME IInv, [Next]_vars PROVE IInv'
    OBVIOUS
<1>1. ASSUME NEW u \in User, Handlers(u)
      PROVE  IInv'
    BY <1>1, ChecksKeep, UpdateMemoKeeps, CreateProjectKeeps DEF Handlers
<1>2. CASE HandlerWrites
    BY <1>2, CreateMemoKeeps, DeleteMemosKeep, DeleteProjectKeeps, InviteMemberKeeps,
       RemoveMemberKeeps, HandlerAbortsKeeps DEF HandlerWrites
<1>3. ASSUME NEW t \in Thread, Merges(t)
      PROVE  IInv'
    BY <1>3, MergeReadsKeeps, MergeAbortsKeeps, MergeMemosKeeps, MergeProjectsKeeps DEF Merges
<1>4. ASSUME NEW t \in Thread, NEW u \in User, Requests(t, u)
      PROVE  IInv'
  <2>1. Ask => requests' \in 0 .. MaxRequests
      BY Asked, Parts DEF IInv
  <2>2. ASSUME NEW loser \in Memo, NEW winner \in Memo, MergeMemoInto(t, u, loser, winner)
        PROVE  IInv'
      BY <2>2, QueueKeeps DEF MergeMemoInto
  <2>3. ASSUME NEW loser \in Memo, NEW winner \in Memo, PeerMergeMemo(t, u, loser, winner)
        PROVE  IInv'
      BY <2>1, <2>3, ReadsKeep DEF PeerMergeMemo
  <2>4. ASSUME NEW loser \in Project, NEW winner \in Project, MergeProjectInto(t, u, loser, winner)
        PROVE  IInv'
      BY <2>4, QueueKeeps DEF MergeProjectInto
  <2>5. ASSUME NEW loser \in Project, NEW winner \in Project, PeerMergeProject(t, u, loser, winner)
        PROVE  IInv'
      BY <2>1, <2>5, ReadsKeep DEF PeerMergeProject
  <2> QED
      BY <1>4, <2>2, <2>3, <2>4, <2>5 DEF Requests
<1>5. CASE UNCHANGED vars
  <2>1. TablesTyped' /\ OwnersStay' /\ RowsKept
      BY <1>5, SameTables, Parts DEF IInv, vars
  <2>2. HandlerKnows(handler)'
      BY <1>5 DEF IInv, HandlerKnows, Spares, vars, tables
  <2>3. MergesKnow'
      BY <1>5, <2>1, MergesStay DEF IInv, vars
  <2> QED
      BY <1>5, <2>1, <2>2, <2>3, Parts, PartsNext DEF IInv, vars
<1> QED
    BY <1>1, <1>2, <1>3, <1>4, <1>5 DEF Next

\* Rows, snapshots and handlers always have their types.
THEOREM TypeCorrect == Spec => []TypeOK
<1>1. IInv => TypeOK
    BY DEF IInv
<1> QED
    BY <1>1, InitIInv, NextIInv, PTL DEF Spec

\* However handlers and merges overlap, a live project keeps its owner's row.
THEOREM OwnersRemain == Spec => []OwnersStay
<1>1. IInv => OwnersStay
    BY DEF IInv
<1> QED
    BY <1>1, InitIInv, NextIInv, PTL DEF Spec

(***************************************************************************)
(* No text is erased.                                                      *)
(***************************************************************************)
\* Rows of memos and versions keep their texts.
ContentsKept ==
    /\ \A m \in Memo : memo[m] # NoRow => memo'[m] # NoRow /\ memo'[m].content = memo[m].content
    /\ \A i \in DOMAIN versions : i \in DOMAIN versions' /\ versions'[i].content = versions[i].content

LEMMA KeptTexts ==
    ASSUME ContentsKept
    PROVE  Texts \subseteq Texts'
BY DEF ContentsKept, Texts

LEMMA SameContents ==
    ASSUME UNCHANGED <<memo, versions>>
    PROVE  Texts \subseteq Texts'
BY DEF Texts

\* A save makes a version of the text it replaces.
LEMMA UpdateMemoTexts ==
    ASSUME IInv, NEW u \in User, NEW m \in Memo, NEW body \in Body, UpdateMemo(u, m, body)
    PROVE  Texts \subseteq Texts'
<1>1. TablesTyped
    BY Parts DEF IInv
<1>2. memo[m] \in MemoRow /\ memo' = [memo EXCEPT ![m] = [memo[m] EXCEPT !.content = body]]
    BY <1>1 DEF UpdateMemo, LiveMemo, Snapshot, TablesTyped, NoRow
<1>3. SavedVersion(m, body) \in VersionRow /\ SavedVersion(m, body).content = memo[m].content
  <2>1. MaxVersion(Snapshot, m) \in Nat
      BY NumbersTyped DEF IInv, TypeOK
  <2>2. memo[m].content \in Body
      BY <1>2 DEF MemoRow
  <2> QED
      BY <2>1, <2>2 DEF SavedVersion, VersionRow
<1>4. \A i \in DOMAIN versions : i \in DOMAIN versions' /\ versions'[i] = versions[i]
    BY <1>1, <1>3 DEF UpdateMemo, TablesTyped
<1>5. memo[m].content # 0 =>
         /\ Len(versions) + 1 \in DOMAIN versions'
         /\ versions'[Len(versions) + 1].content = memo[m].content
    BY <1>1, <1>3 DEF UpdateMemo, TablesTyped
<1>6. \A x \in Memo \ {m} : memo'[x] = memo[x]
    BY <1>1, <1>2 DEF TablesTyped
<1>7. ASSUME NEW c \in Texts
      PROVE  c \in Texts'
  <2>1. CASE \E x \in Memo : memo[x] # NoRow /\ c = memo[x].content
    <3>1. PICK x \in Memo : memo[x] # NoRow /\ c = memo[x].content
        BY <2>1
    <3>2. c # 0
        BY DEF Texts
    <3> QED
        BY <1>5, <1>6, <3>1, <3>2 DEF Texts
  <2>2. CASE \E i \in DOMAIN versions : c = versions[i].content
      BY <1>4, <2>2 DEF Texts
  <2> QED
      BY <2>1, <2>2 DEF Texts
<1> QED
    BY <1>7

LEMMA HandlerTexts ==
    ASSUME IInv, HandlerWrites
    PROVE  Texts \subseteq Texts'
<1>1. TablesTyped /\ HandlerKnows(handler) /\ handler \in AnyHandler
    BY Parts DEF IInv
<1>2. CASE CreateMemo
  <2>1. handler.memo \in Memo /\ memo[handler.memo] = NoRow
      BY <1>1, <1>2 DEF CreateMemo, HandlerKnows, AnyHandler, Idle
  <2>2. versions' = versions /\ \A m \in Memo : memo[m] # NoRow => memo'[m] = memo[m]
      BY <1>1, <1>2, <2>1 DEF CreateMemo, TablesTyped
  <2> QED
      BY <2>2, KeptTexts DEF ContentsKept
<1>3. CASE DeleteMemos
  <2>1. versions' = versions /\ \A m \in Memo :
           memo'[m] = memo[m] \/ memo'[m] = [memo[m] EXCEPT !.state = "gone"]
      BY <1>3 DEF DeleteMemos
  <2>2. \A m \in Memo : memo[m] # NoRow => memo[m] \in MemoRow
      BY <1>1 DEF TablesTyped
  <2> QED
      BY <2>1, <2>2, KeptTexts DEF ContentsKept, MemoRow, NoRow
<1>4. CASE DeleteProject
  <2>1. versions' = versions /\ \A m \in Memo :
           memo'[m] = memo[m] \/ memo'[m] = [memo[m] EXCEPT !.state = "gone"]
      BY <1>4 DEF DeleteProject
  <2>2. \A m \in Memo : memo[m] # NoRow => memo[m] \in MemoRow
      BY <1>1 DEF TablesTyped
  <2> QED
      BY <2>1, <2>2, KeptTexts DEF ContentsKept, MemoRow, NoRow
<1>5. CASE InviteMember \/ RemoveMember \/ HandlerAborts
    BY <1>5, SameContents DEF InviteMember, RemoveMember, HandlerAborts, tables
<1> QED
    BY <1>2, <1>3, <1>4, <1>5 DEF HandlerWrites

\* A merge moves versions and hides the loser, whatever it has read.
LEMMA MergeMemosTexts ==
    ASSUME IInv, NEW t \in Thread, MergeMemos(t)
    PROVE  Texts \subseteq Texts'
<1>1. PICK m : m = merge[t]
    OBVIOUS
<1>2. PICK s : s = m.view
    OBVIOUS
<1>3. TablesTyped
    BY Parts DEF IInv
<1>4. memo' = [memo EXCEPT ![m.loser].state = "gone"]
    BY <1>1 DEF MergeMemos
<1>5. \A i \in DOMAIN versions : i \in DOMAIN versions' /\ versions'[i].content = versions[i].content
  <2>1. versions \in Seq(VersionRow) /\ versions' = MergedVersions(s, m.loser, m.winner)
      BY <1>1, <1>2, <1>3 DEF MergeMemos, TablesTyped
  <2> QED
      BY <2>1, MergedRows
<1>6. \A x \in Memo : memo[x] # NoRow => memo'[x] # NoRow /\ memo'[x].content = memo[x].content
  <2> TAKE x \in Memo
  <2>1. memo'[x] = memo[x] \/ memo'[x] = [memo[x] EXCEPT !.state = "gone"]
      BY <1>3, <1>4 DEF TablesTyped
  <2>2. memo[x] # NoRow => memo[x] \in MemoRow
      BY <1>3 DEF TablesTyped
  <2> QED
      BY <2>1, <2>2 DEF MemoRow, NoRow
<1> QED
    BY <1>5, <1>6, KeptTexts DEF ContentsKept

LEMMA MergeProjectsTexts ==
    ASSUME IInv, NEW t \in Thread, MergeProjects(t)
    PROVE  Texts \subseteq Texts'
<1>1. versions' = versions /\ \A x \in Memo :
         memo'[x] = memo[x] \/ memo'[x] = [memo[x] EXCEPT !.project = merge[t].winner]
    BY DEF MergeProjects
<1>2. \A x \in Memo : memo[x] # NoRow => memo[x] \in MemoRow
    BY Parts DEF IInv, TablesTyped
<1> QED
    BY <1>1, <1>2, KeptTexts DEF ContentsKept, MemoRow, NoRow

\* No step of any handler or merge erases the last copy of a text.
THEOREM NoTextErased == Spec => NothingErased
<1>1. ASSUME IInv, Next
      PROVE  Texts \subseteq Texts'
  <2>1. ASSUME NEW u \in User, Handlers(u)
        PROVE  Texts \subseteq Texts'
    <3>1. ASSUME NEW m \in Memo, NEW body \in Body, UpdateMemo(u, m, body)
          PROVE  Texts \subseteq Texts'
        BY <1>1, <3>1, UpdateMemoTexts
    <3>2. ASSUME UNCHANGED <<memo, versions>>
          PROVE  Texts \subseteq Texts'
        BY <3>2, SameContents
    <3> QED
        BY <2>1, <3>1, <3>2 DEF Handlers, CreateMemoChecks, DeleteMemoChecks, BulkDeleteChecks,
           CreateProject, DeleteProjectChecks, InviteChecks, RemoveChecks, Checked, tables
  <2>2. ASSUME NEW t \in Thread, Merges(t)
        PROVE  Texts \subseteq Texts'
    <3>1. CASE MergeReads(t) \/ MergeAborts(t)
        BY <3>1, SameContents DEF MergeReads, Reads, MergeAborts, tables
    <3> QED
        BY <1>1, <2>2, <3>1, MergeMemosTexts, MergeProjectsTexts DEF Merges
  <2>3. ASSUME NEW t \in Thread, NEW u \in User, Requests(t, u)
        PROVE  Texts \subseteq Texts'
      BY <2>3, SameContents DEF Requests, MergeMemoInto, MergeProjectInto, Queue, PeerMergeMemo,
         PeerMergeProject, Reads, tables
  <2> QED
      BY <1>1, <2>1, <2>2, <2>3, HandlerTexts DEF Next
<1>2. IInv /\ [Next]_vars => [Texts \subseteq Texts']_vars
    BY <1>1
<1> QED
    BY <1>2, InitIInv, NextIInv, PTL DEF Spec, NothingErased

(***************************************************************************)
(* A merge of projects is complete.                                        *)
(***************************************************************************)
\* A merge of projects to which nothing was committed meanwhile moves their live
\* memos and joins their members.
THEOREM ProjectsMerged == Spec => ProjectMergeComplete
<1> DEFINE Moves(m) ==
              /\ \A x \in Memo :
                    LiveMemo(Snapshot, x) /\ memo[x].project \in {m.loser, m.winner} =>
                       memo'[x] = [memo[x] EXCEPT !.project = m.winner]
              /\ \A u \in User :
                    IF member[m.winner][u].state = "live"
                    THEN member'[m.winner][u] = member[m.winner][u]
                    ELSE member[m.loser][u].state = "live" =>
                            member'[m.winner][u] = member[m.loser][u]
<1>1. ASSUME IInv, NEW t \in Thread, MergeProjects(t), ProjectsUntouched(merge[t])
      PROVE  Moves(merge[t])
  <2>1. PICK m : m = merge[t]
      OBVIOUS
  <2>2. /\ TablesTyped /\ m.loser \in Project /\ m.winner \in Project /\ m.loser # m.winner
      BY <1>1, <2>1, MergeKnows, Parts DEF MergeProjects, ViewLegal, IInv
  <2>3. ASSUME NEW x \in Memo, memo[x].state = "live", memo[x].project \in {m.loser, m.winner}
        PROVE  memo'[x] = [memo[x] EXCEPT !.project = m.winner]
    <3>1. memo[x] \in MemoRow
        BY <2>2, <2>3 DEF TablesTyped, NoRow
    <3>2. m.view.memo[x] = memo[x]
        BY <1>1, <2>1, <2>3 DEF ProjectsUntouched
    <3>3. memo'[x] = IF memo[x].project = m.loser
                     THEN [memo[x] EXCEPT !.project = m.winner] ELSE memo[x]
        BY <1>1, <2>1, <2>3, <3>2 DEF MergeProjects
    <3> QED
        BY <2>2, <2>3, <3>1, <3>3 DEF MemoRow
  <2>4. ASSUME NEW u \in User
        PROVE  IF member[m.winner][u].state = "live"
               THEN member'[m.winner][u] = member[m.winner][u]
               ELSE member[m.loser][u].state = "live" =>
                       member'[m.winner][u] = member[m.loser][u]
    <3>1. m.view.member[m.loser] = member[m.loser] /\ m.view.member[m.winner] = member[m.winner]
        BY <1>1, <2>1 DEF ProjectsUntouched
    <3>2. member'[m.winner][u] =
             IF member[m.loser][u].state = "live" /\ member[m.winner][u].state # "live"
             THEN [state |-> "live", role |-> member[m.loser][u].role] ELSE member[m.winner][u]
        BY <1>1, <2>1, <2>2, <3>1 DEF MergeProjects, TablesTyped, Joining
    <3>3. member[m.loser][u].state = "live" => member[m.loser][u] \in MemberRow
        BY <2>2 DEF TablesTyped, NoRow
    <3> QED
        BY <3>2, <3>3 DEF MemberRow
  <2> QED
      BY <2>1, <2>3, <2>4 DEF LiveMemo, Snapshot
<1>2. IInv => \A t \in Thread : MergeProjects(t) /\ ProjectsUntouched(merge[t]) => Moves(merge[t])
    BY <1>1
<1> QED
    BY <1>2, InitIInv, NextIInv, PTL DEF Spec, ProjectMergeComplete

(***************************************************************************)
(* A merge of memos is complete.                                           *)
(***************************************************************************)
\* Versions are renumbered in their order.
LEMMA RenumberedIncreasing ==
    ASSUME NEW s \in AnySnapshot, NEW loser, NEW winner,
           NEW i \in VersionsOf(s, loser), NEW j \in VersionsOf(s, loser), Precedes(s, i, j)
    PROVE  Renumbered(s, loser, winner, i) < Renumbered(s, loser, winner, j)
<1> DEFINE T(x) == {y \in VersionsOf(s, loser) : Precedes(s, y, x)}
<1>1. \A y \in VersionsOf(s, loser) : y \in Int /\ s.versions[y].number \in Int
    BY VersionsTyped
<1>2. T(i) \in SUBSET T(j) /\ i \in T(j) /\ i \notin T(i)
    BY <1>1 DEF Precedes
<1>3. IsFiniteSet(T(j))
    BY VersionsTyped, FS_Subset
<1>4. /\ IsFiniteSet(T(i)) /\ Cardinality(T(i)) <= Cardinality(T(j))
      /\ Cardinality(T(i)) # Cardinality(T(j))
  <2> HIDE DEF T
  <2> QED
      BY <1>2, <1>3, FS_Subset
<1>5. Cardinality(T(i)) \in Nat /\ Cardinality(T(j)) \in Nat
    BY <1>3, <1>4, FS_CardinalityType
<1>6. MaxVersion(s, winner) \in Nat
    BY NumbersTyped
<1> DEFINE first == MaxVersion(s, winner) + (IF IsCopied(s, loser, winner) THEN 2 ELSE 1)
<1>7. /\ Renumbered(s, loser, winner, i) = first + Cardinality(T(i))
      /\ Renumbered(s, loser, winner, j) = first + Cardinality(T(j))
    BY DEF Renumbered
<1>8. first \in Nat
    BY <1>6
<1> HIDE DEF T, first
<1> QED
    BY <1>4, <1>5, <1>7, <1>8

\* They come after the winner's own versions and the copy of the loser's body.
LEMMA RenumberedAbove ==
    ASSUME NEW s \in AnySnapshot, NEW loser, NEW winner, NEW i
    PROVE  /\ MaxVersion(s, winner) < Renumbered(s, loser, winner, i)
           /\ IsCopied(s, loser, winner) =>
                MaxVersion(s, winner) + 1 < Renumbered(s, loser, winner, i)
<1> DEFINE T == {y \in VersionsOf(s, loser) : Precedes(s, y, i)}
<1>1. Cardinality(T) \in Nat
    BY VersionsTyped, FS_Subset, FS_CardinalityType
<1>2. MaxVersion(s, winner) \in Nat
    BY NumbersTyped
<1> QED
    BY <1>1, <1>2 DEF Renumbered

MergedWhole(m) ==
    /\ memo[m.loser].content \in {0} \cup
          {versions'[i].content : i \in VersionsOf(Snapshot', m.winner)}
    /\ VersionsOf(Snapshot, m.loser) \cup VersionsOf(Snapshot, m.winner)
          \subseteq VersionsOf(Snapshot', m.winner)
    /\ Unambiguous(Snapshot, m.loser) /\ Unambiguous(Snapshot, m.winner) =>
          Unambiguous(Snapshot', m.winner)
    /\ \A i, j \in VersionsOf(Snapshot, m.loser) :
          Precedes(Snapshot, i, j) => Precedes(Snapshot', i, j)
    /\ \A i \in VersionsOf(Snapshot, m.winner), j \in VersionsOf(Snapshot, m.loser) :
          Precedes(Snapshot', i, j)

LEMMA UntouchedMerged ==
    ASSUME IInv, NEW t \in Thread, MergeMemos(t), MemosUntouched(merge[t])
    PROVE  MergedWhole(merge[t])
<1>1. PICK m : m = merge[t]
    OBVIOUS
<1> DEFINE s == m.view
           L == VersionsOf(Snapshot, m.loser)
           W == VersionsOf(Snapshot, m.winner)
           n == Len(versions)
           top == MaxVersion(s, m.winner)
           copied == IsCopied(s, m.loser, m.winner)
           R(i) == Renumbered(s, m.loser, m.winner, i)
<1>2. /\ TablesTyped /\ m \in Reading /\ m.kind = "memo" /\ m.loser # m.winner
      /\ versions' = MergedVersions(s, m.loser, m.winner)
    BY <1>1, MergeKnows, Parts DEF MergeMemos, ViewLegal, IInv, NoMerge, Queued
<1>3. s \in AnySnapshot /\ m.loser \in Memo /\ m.winner \in Memo
    BY <1>2 DEF Reading
<1>4. /\ VersionsOf(s, m.loser) = L /\ VersionsOf(s, m.winner) = W
      /\ s.memo[m.loser] = memo[m.loser]
      /\ \A i \in L \cup W : s.versions[i] = versions[i]
    BY <1>1 DEF MemosUntouched
<1>5. /\ L = {i \in DOMAIN versions : versions[i].memo = m.loser}
      /\ W = {i \in DOMAIN versions : versions[i].memo = m.winner}
      /\ VersionsOf(Snapshot', m.winner) = {i \in DOMAIN versions' : versions'[i].memo = m.winner}
    BY DEF VersionsOf, Snapshot
<1>6. /\ \A i \in DOMAIN versions : i \in DOMAIN versions' /\ versions'[i].content = versions[i].content
      /\ \A i \in DOMAIN versions \ L : versions'[i] = versions[i]
      /\ \A i \in DOMAIN versions \cap L : versions'[i].memo = m.winner /\ versions'[i].number = R(i)
      /\ copied => /\ n + 1 \in DOMAIN versions'
                   /\ versions'[n + 1] = [memo |-> m.winner, number |-> top + 1,
                                          content |-> s.memo[m.loser].content]
      /\ \A i \in DOMAIN versions' : i \in DOMAIN versions \/ (copied /\ i = n + 1)
    BY <1>2, <1>4, MergedRows DEF TablesTyped
<1>7. top \in Nat /\ \A i : R(i) \in Nat /\ top < R(i) /\ (copied => top + 1 < R(i))
    BY <1>3, NumbersTyped, RenumberedAbove
<1>8. \A i \in W : versions[i].number \in Nat /\ versions[i].number <= top
    BY <1>3, <1>4, NumbersTyped, VersionsTyped
<1>9. \A i, j \in L : Precedes(s, i, j) => R(i) < R(j)
    BY <1>3, <1>4, RenumberedIncreasing
<1> HIDE DEF s, L, W, n, top, copied, R
<1>10. \A i \in L : /\ i \in DOMAIN versions' /\ versions'[i].memo = m.winner
                    /\ versions'[i].number = R(i)
    BY <1>5, <1>6
<1>11. \A i \in W : i \in DOMAIN versions' /\ i \notin L /\ versions'[i] = versions[i]
    BY <1>2, <1>4, <1>5, <1>6
<1>12. \A i \in VersionsOf(Snapshot', m.winner) : i \in L \/ i \in W \/ (copied /\ i = n + 1)
    BY <1>4, <1>5, <1>6
<1>13. L \cup W \subseteq VersionsOf(Snapshot', m.winner)
    BY <1>5, <1>10, <1>11
<1>14. memo[m.loser].content \in {0} \cup
          {versions'[i].content : i \in VersionsOf(Snapshot', m.winner)}
  <2>1. CASE copied
    <3>1. n + 1 \in VersionsOf(Snapshot', m.winner)
        BY <1>5, <1>6, <2>1
    <3> QED
        BY <1>4, <1>6, <2>1, <3>1
  <2>2. CASE ~copied /\ memo[m.loser].content # 0
    <3>1. PICK i \in VersionsOf(s, m.winner) : s.versions[i].content = s.memo[m.loser].content
        BY <1>4, <2>2 DEF copied, IsCopied, s
    <3> QED
        BY <1>4, <1>11, <1>13, <3>1
  <2> QED
      BY <2>1, <2>2
<1>15. ASSUME Unambiguous(Snapshot, m.loser), Unambiguous(Snapshot, m.winner)
       PROVE  Unambiguous(Snapshot', m.winner)
  <2>1. ASSUME NEW i \in L, NEW j \in L, i # j
        PROVE  R(i) # R(j)
    <3>1. /\ s.versions[i].number \in Int /\ s.versions[j].number \in Int
          /\ i \in Int /\ j \in Int
        BY <1>3, <1>4, VersionsTyped
    <3>2. Precedes(s, i, j) \/ Precedes(s, j, i)
        BY <2>1, <3>1 DEF Precedes
    <3> QED
        BY <1>7, <1>9, <3>2
  <2>2. \A i, j \in W : versions[i].number = versions[j].number => i = j
      BY <1>15 DEF Unambiguous, W, Snapshot
  <2> SUFFICES ASSUME NEW i \in VersionsOf(Snapshot', m.winner),
                      NEW j \in VersionsOf(Snapshot', m.winner),
                      versions'[i].number = versions'[j].number
               PROVE  i = j
      BY DEF Unambiguous, Snapshot
  <2>3. \A k : copied /\ k = n + 1 => versions'[k].number = top + 1
      BY <1>6
  <2>4. CASE i \in L
      BY <1>7, <1>8, <1>10, <1>11, <1>12, <2>1, <2>3, <2>4
  <2>5. CASE i \in W
      BY <1>7, <1>8, <1>10, <1>11, <1>12, <2>2, <2>3, <2>5
  <2>6. CASE copied /\ i = n + 1
      BY <1>7, <1>8, <1>10, <1>11, <1>12, <2>3, <2>6
  <2> QED
      BY <1>12, <2>4, <2>5, <2>6
<1>16. ASSUME NEW i \in L, NEW j \in L, Precedes(Snapshot, i, j)
       PROVE  Precedes(Snapshot', i, j)
  <2>1. Precedes(s, i, j)
      BY <1>4, <1>16 DEF Precedes, Snapshot
  <2> QED
      BY <1>9, <1>10, <2>1 DEF Precedes, Snapshot
<1>17. ASSUME NEW i \in W, NEW j \in L
       PROVE  Precedes(Snapshot', i, j)
  <2>1. versions'[i].number < versions'[j].number
      BY <1>7, <1>8, <1>10, <1>11
  <2> QED
      BY <2>1 DEF Precedes, Snapshot
<1> QED
    BY <1>1, <1>13, <1>14, <1>15, <1>16, <1>17 DEF MergedWhole, L, W

\* A merge of memos to which nothing was committed meanwhile keeps every text of
\* both, in order and under numbers of their own.
THEOREM MemosMerged == Spec => MemoMergeComplete
<1>1. IInv => \A t \in Thread : MergeMemos(t) /\ MemosUntouched(merge[t]) => MergedWhole(merge[t])
    BY UntouchedMerged
<1> QED
    BY <1>1, InitIInv, NextIInv, PTL DEF Spec, MemoMergeComplete, MergedWhole

=============================================================================
