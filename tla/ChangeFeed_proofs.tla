--------------------------- MODULE ChangeFeed_proofs ---------------------------
(***************************************************************************)
(* Theorems about the change feed, for all sets of projects, memos and     *)
(* threads, whatever the limit of a batch is.                              *)
(***************************************************************************)
EXTENDS ChangeFeed, WellFoundedInduction, TLAPS

(***************************************************************************)
(* What the steps have in common.                                          *)
(***************************************************************************)

ParentOf(k, homes) == ProjectRow(ProjectOf(k, homes))

\* What is live exists, and so does the project of what exists.
TablesInv ==
    /\ \A k \in live : Exists(k)
    /\ \A k \in Key : Exists(k) => Exists(ParentOf(k, home))

\* A transaction writes the rows it makes live, the memos it moves and, with or
\* after the project, what belongs to it.
Orderly(ks, rows, homes) ==
    /\ rows \subseteq live \cup ks
    /\ \A m \in Memo : homes[m] # home[m] => MemoRow(m) \in ks
    /\ \A k \in ks : ParentOf(k, homes) \in ks \/ Exists(ParentOf(k, homes))

\* A handler commits entries with new numbers.
HandlerStep(es, rows, homes) ==
    /\ es \subseteq Entry /\ rows \subseteq Key /\ homes \in [Memo -> Project]
    /\ next' \in Nat /\ next <= next'
    /\ \A e \in es : next <= e.seq /\ e.seq < next'
    /\ TablesInv => Orderly(Keys(es), rows, homes)
    /\ Commit(es, rows, homes)
    /\ UNCHANGED <<merge, laptop, answer>>

LEMMA RowsTyped ==
    /\ \A p \in Project : ProjectRow(p) \in Key /\ MemberRow(p) \in Key
    /\ \A m \in Memo : MemoRow(m) \in Key
    /\ \A ms \in SUBSET Memo : MemoRows(ms) \subseteq Key
BY DEF Key, ProjectRow, MemberRow, MemoRow, MemoRows

LEMMA HomesTyped ==
    ASSUME NEW k \in Key, NEW homes \in [Memo -> Project]
    PROVE  ProjectOf(k, homes) \in Project
BY DEF Key, ProjectOf

LEMMA Parents ==
    ASSUME NEW homes
    PROVE  /\ \A p \in Project : ParentOf(ProjectRow(p), homes) = ProjectRow(p)
           /\ \A p \in Project : ParentOf(MemberRow(p), homes) = ProjectRow(p)
           /\ \A m \in Memo : ParentOf(MemoRow(m), homes) = ProjectRow(homes[m])
BY DEF ParentOf, ProjectOf, ProjectRow, MemberRow, MemoRow

LEMMA HandlerSteps ==
    ASSUME TypeOK, NEW first \in SUBSET Key, NEW then \in SUBSET Key,
           NEW rows \in SUBSET Key, NEW homes \in [Memo -> Project],
           Handler(first, then, rows, homes),
           TablesInv => Orderly(first \cup then, rows, homes)
    PROVE  \E es : HandlerStep(es, rows, homes)
<1>1. PICK end \in next + 1 .. MaxSeq + 1 :
        /\ \E f \in Numberings(first, then, end) :
              Commit({[seq |-> f[k], key |-> k] : k \in first \cup then}, rows, homes)
        /\ next' = end
      BY DEF Handler
<1>2. PICK f \in Numberings(first, then, end) :
        Commit({[seq |-> f[k], key |-> k] : k \in first \cup then}, rows, homes)
      BY <1>1
<1> DEFINE es == {[seq |-> f[k], key |-> k] : k \in first \cup then}
<1>3. next \in Nat \ {0} /\ end \in Nat /\ next < end
      BY <1>1, FeedAssumption DEF TypeOK
<1>4. \A k \in first \cup then : f[k] \in next .. end - 1
      BY <1>2 DEF Numberings
<1>5. \A e \in es : e \in Entry /\ next <= e.seq /\ e.seq < end
      BY <1>3, <1>4 DEF Entry
<1>6. Keys(es) = first \cup then
  <2>1. ASSUME NEW e \in es
        PROVE  e.key \in first \cup then
        OBVIOUS
  <2>2. ASSUME NEW k \in first \cup then
        PROVE  \E e \in es : e.key = k
    <3>1. [seq |-> f[k], key |-> k] \in es
          OBVIOUS
    <3> HIDE DEF es
    <3> QED
          BY <3>1
  <2> HIDE DEF es
  <2> QED
        BY <2>1, <2>2 DEF Keys
<1>7. Commit(es, rows, homes) /\ UNCHANGED <<merge, laptop, answer>>
      BY <1>2 DEF Handler
<1> HIDE DEF es
<1>8. HandlerStep(es, rows, homes)
      BY <1>1, <1>3, <1>5, <1>6, <1>7 DEF HandlerStep
<1> QED
      BY <1>8

OrderlyHandler ==
    \E first, then, rows \in SUBSET Key, homes \in [Memo -> Project] :
        /\ Handler(first, then, rows, homes)
        /\ TablesInv => Orderly(first \cup then, rows, homes)

\* Each handler is such a step.
LEMMA HandlersStep ==
    ASSUME TypeOK, Handlers
    PROVE  \E es, rows, homes : HandlerStep(es, rows, homes)
<1> USE RowsTyped, Parents
<1> SUFFICES OrderlyHandler
    BY HandlerSteps DEF OrderlyHandler
<1>1. live \subseteq Key /\ home \in [Memo -> Project] /\ {} \subseteq Key
      BY DEF TypeOK
<1>2. ASSUME NEW p \in Project, CreateProject(p)
      PROVE  OrderlyHandler
  <2> DEFINE creator == IF p \in Own THEN {MemberRow(p)} ELSE {}
             rows == live \cup {ProjectRow(p)} \cup creator
  <2>1. {ProjectRow(p)} \subseteq Key /\ creator \subseteq Key /\ rows \subseteq Key
        BY <1>1
  <2>2. Handler({ProjectRow(p)}, creator, rows, home)
        BY <1>2 DEF CreateProject
  <2>3. Orderly({ProjectRow(p)} \cup creator, rows, home)
        BY DEF Orderly
  <2> QED
        BY <1>1, <2>1, <2>2, <2>3 DEF OrderlyHandler
<1>3. ASSUME NEW p \in Project, InviteMember(p)
      PROVE  OrderlyHandler
  <2>1. {MemberRow(p)} \subseteq Key /\ live \cup {MemberRow(p)} \subseteq Key
        BY <1>1
  <2>2. TablesInv => Orderly({MemberRow(p)} \cup {}, live \cup {MemberRow(p)}, home)
        BY <1>3 DEF Orderly, InviteMember, TablesInv
  <2> QED
        BY <1>1, <1>3, <2>1, <2>2 DEF InviteMember, OrderlyHandler
<1>4. ASSUME NEW p \in Project, RemoveMember(p)
      PROVE  OrderlyHandler
  <2>1. {MemberRow(p)} \subseteq Key /\ live \ {MemberRow(p)} \subseteq Key
        BY <1>1
  <2>2. TablesInv => Orderly({MemberRow(p)} \cup {}, live \ {MemberRow(p)}, home)
        BY <1>4 DEF Orderly, RemoveMember, TablesInv
  <2> QED
        BY <1>1, <1>4, <2>1, <2>2 DEF RemoveMember, OrderlyHandler
<1>5. ASSUME NEW p \in Project, DeleteProject(p)
      PROVE  OrderlyHandler
  <2> DEFINE ms == {m \in Memo : home[m] = p}
             ks == live \cap ({MemberRow(p)} \cup MemoRows(ms))
             rows == live \ (ks \cup {ProjectRow(p)})
  <2>1. ks \subseteq Key /\ {ProjectRow(p)} \subseteq Key /\ rows \subseteq Key
        BY <1>1
  <2>2. Handler(ks, {ProjectRow(p)}, rows, home)
        BY <1>5 DEF DeleteProject
  <2>3. \A k \in ks : ParentOf(k, home) = ProjectRow(p)
        BY DEF MemoRows
  <2>4. Orderly(ks \cup {ProjectRow(p)}, rows, home)
        BY <2>3 DEF Orderly
  <2> QED
        BY <1>1, <2>1, <2>2, <2>4 DEF OrderlyHandler
<1>6. ASSUME NEW p \in Project, NEW m \in Memo, CreateMemo(m, p)
      PROVE  OrderlyHandler
  <2> DEFINE homes == [home EXCEPT ![m] = p]
  <2>1. {MemoRow(m)} \subseteq Key /\ live \cup {MemoRow(m)} \subseteq Key
        /\ homes \in [Memo -> Project] /\ homes[m] = p
        /\ \A l \in Memo : homes[l] # home[l] => l = m
        BY <1>1
  <2> HIDE DEF homes
  <2>2. TablesInv => Orderly({MemoRow(m)} \cup {}, live \cup {MemoRow(m)}, homes)
        BY <1>6, <2>1 DEF Orderly, CreateMemo, TablesInv
  <2>3. Handler({MemoRow(m)}, {}, live \cup {MemoRow(m)}, homes)
        BY <1>6 DEF CreateMemo, homes
  <2> QED
        BY <1>1, <2>1, <2>2, <2>3 DEF OrderlyHandler
<1>7. ASSUME NEW m \in Memo, UpdateMemo(m)
      PROVE  OrderlyHandler
  <2>1. {MemoRow(m)} \subseteq Key
        OBVIOUS
  <2>2. TablesInv => Orderly({MemoRow(m)} \cup {}, live, home)
        BY <1>7 DEF Orderly, UpdateMemo, LiveMemo, TablesInv
  <2> QED
        BY <1>1, <1>7, <2>1, <2>2 DEF UpdateMemo, OrderlyHandler
<1>8. ASSUME NEW ms \in SUBSET Memo, DeleteMemos(ms)
      PROVE  OrderlyHandler
  <2>1. MemoRows(ms) \subseteq Key /\ live \ MemoRows(ms) \subseteq Key
        BY <1>1
  <2>2. TablesInv => Orderly(MemoRows(ms) \cup {}, live \ MemoRows(ms), home)
        BY <1>8 DEF Orderly, DeleteMemos, LiveMemo, MemoRows, TablesInv
  <2> QED
        BY <1>1, <1>8, <2>1, <2>2 DEF DeleteMemos, OrderlyHandler
<1> QED
      BY <1>2, <1>3, <1>4, <1>5, <1>6, <1>7, <1>8 DEF Handlers

(***************************************************************************)
(* Types.                                                                  *)
(***************************************************************************)
LEMMA CommitTypes ==
    ASSUME TypeOK, NEW es \in SUBSET Entry, NEW rows \in SUBSET Key,
           NEW homes \in [Memo -> Project], Commit(es, rows, homes)
    PROVE  /\ version' \in [Key -> Nat] /\ live' \subseteq Key /\ home' \in [Memo -> Project]
           /\ log' \subseteq Entry /\ excuse' \in [Key -> SUBSET Reason]
<1>1. version' \in [Key -> Nat]
      BY DEF Commit, TypeOK
<1>2. \A k : Reasons(k, es, rows, homes) \subseteq Reason
      BY DEF Reasons
<1>3. excuse' \in [Key -> SUBSET Reason]
      BY <1>2 DEF Commit, TypeOK
<1> QED
      BY <1>1, <1>3 DEF Commit, TypeOK

LEMMA OpenTyped ==
    ASSUME TypeOK, NEW t \in Thread, merge[t].open
    PROVE  merge[t] \in OpenMerge
BY DEF TypeOK, NoMerge

LEMMA WroteTyped ==
    ASSUME TypeOK, NEW t \in Thread
    PROVE  Wrote(t) \subseteq Entry
BY OpenTyped DEF Wrote, OpenMerge

LEMMA BeginTypes ==
    ASSUME TypeOK, NEW t \in Thread, NEW dead \in SUBSET Key, NEW born \in SUBSET Key,
           NEW moved \in SUBSET Memo, NEW to \in Project, Begin(t, dead, born, moved, to)
    PROVE  TypeOK'
<1> DEFINE new == [open |-> TRUE, todo |-> dead \cup born \cup MemoRows(moved), wrote |-> {},
                   dead |-> dead, born |-> born, fresh |-> {k \in born : ~ Exists(k)},
                   moved |-> moved, to |-> to]
<1>1. MemoRows(moved) \subseteq Key
      BY RowsTyped
<1>2. new \in OpenMerge
      BY <1>1 DEF OpenMerge
<1>3. merge' = [merge EXCEPT ![t] = new]
      BY DEF Begin
<1> HIDE DEF new
<1>4. merge' \in [Thread -> {NoMerge} \cup OpenMerge]
      BY <1>2, <1>3 DEF TypeOK
<1> QED
      BY <1>4 DEF TypeOK, Begin, laptop

LEMMA WritesTypes ==
    ASSUME TypeOK, NEW t \in Thread, NEW k \in Key, MergeWrites(t, k)
    PROVE  TypeOK'
<1> DEFINE new == [merge[t] EXCEPT !.todo = @ \ {k}, !.wrote = @ \cup {[seq |-> next, key |-> k]}]
<1>1. next \in Nat \ {0} /\ [seq |-> next, key |-> k] \in Entry
      BY DEF TypeOK, Entry
<1>2. merge[t] \in OpenMerge
      BY OpenTyped DEF MergeWrites
<1>3. new \in OpenMerge
      BY <1>1, <1>2 DEF OpenMerge
<1>4. merge' = [merge EXCEPT ![t] = new]
      BY DEF MergeWrites
<1> HIDE DEF new
<1>5. merge' \in [Thread -> {NoMerge} \cup OpenMerge]
      BY <1>3, <1>4 DEF TypeOK
<1>6. excuse' \in [Key -> SUBSET Reason]
  <2>1. CASE phase = "loaded"
        BY <2>1 DEF MergeWrites, TypeOK, Reason
  <2>2. CASE phase # "loaded"
        BY <2>2 DEF MergeWrites, TypeOK
  <2> QED
        BY <2>1, <2>2
<1>7. next' \in Nat \ {0}
      BY <1>1 DEF MergeWrites
<1> QED
      BY <1>5, <1>6, <1>7 DEF TypeOK, MergeWrites, laptop

LEMMA MergeTypes ==
    ASSUME TypeOK, NEW t \in Thread, Merges(t)
    PROVE  TypeOK'
<1> USE RowsTyped
<1>0. live \subseteq Key /\ home \in [Memo -> Project]
      BY DEF TypeOK
<1>1. ASSUME NEW l \in Memo, NEW w \in Memo, MergeMemos(t, l, w)
      PROVE  TypeOK'
  <2>1. Begin(t, {MemoRow(l)}, {}, {}, home[l])
        BY <1>1 DEF MergeMemos
  <2>2. {MemoRow(l)} \in SUBSET Key /\ {} \in SUBSET Key /\ {} \in SUBSET Memo /\ home[l] \in Project
        BY <1>0
  <2> QED
        BY <2>1, <2>2, BeginTypes
<1>2. ASSUME NEW l \in Project, NEW w \in Project, MergeProjects(t, l, w)
      PROVE  TypeOK'
  <2> DEFINE leaves == live \cap {MemberRow(l)}
             joins == IF leaves = {} THEN {} ELSE {MemberRow(w)} \ live
             moved == {m \in Memo : home[m] = l /\ Exists(MemoRow(m))}
  <2>1. Begin(t, {ProjectRow(l)} \cup leaves, joins, moved, w)
        BY <1>2 DEF MergeProjects
  <2>2. {ProjectRow(l)} \cup leaves \in SUBSET Key /\ joins \in SUBSET Key /\ moved \in SUBSET Memo
        BY <1>0
  <2> HIDE DEF leaves, joins, moved
  <2> QED
        BY <2>1, <2>2, BeginTypes
<1>3. ASSUME NEW k \in Key, MergeWrites(t, k)
      PROVE  TypeOK'
      BY <1>3, WritesTypes
<1>4. ASSUME MergeCommits(t)
      PROVE  TypeOK'
  <2> DEFINE rows == (live \ merge[t].dead) \cup merge[t].born
             homes == [m \in Memo |-> IF m \in merge[t].moved THEN merge[t].to ELSE home[m]]
  <2>1. merge[t] \in OpenMerge /\ Commit(merge[t].wrote, rows, homes)
        BY <1>4, OpenTyped DEF MergeCommits
  <2>2. merge[t].wrote \in SUBSET Entry /\ rows \in SUBSET Key
        BY <1>0, <2>1 DEF OpenMerge
  <2>3. homes \in [Memo -> Project]
        BY <1>0, <2>1 DEF OpenMerge
  <2> HIDE DEF rows, homes
  <2>4. merge' \in [Thread -> {NoMerge} \cup OpenMerge]
        BY <1>4 DEF MergeCommits, TypeOK
  <2>5. /\ version' \in [Key -> Nat] /\ live' \subseteq Key /\ home' \in [Memo -> Project]
        /\ log' \subseteq Entry /\ excuse' \in [Key -> SUBSET Reason]
        BY <2>1, <2>2, <2>3, CommitTypes
  <2> QED
        BY <1>4, <2>4, <2>5 DEF MergeCommits, TypeOK, laptop
<1>5. ASSUME MergeAborts(t)
      PROVE  TypeOK'
      BY <1>5 DEF MergeAborts, TypeOK, laptop
<1> QED
      BY <1>1, <1>2, <1>3, <1>4, <1>5 DEF Merges

LEMMA HandlerTypes ==
    ASSUME TypeOK, NEW es, NEW rows, NEW homes, HandlerStep(es, rows, homes)
    PROVE  TypeOK'
<1>1. /\ version' \in [Key -> Nat] /\ live' \subseteq Key /\ home' \in [Memo -> Project]
      /\ log' \subseteq Entry /\ excuse' \in [Key -> SUBSET Reason]
      BY CommitTypes DEF HandlerStep
<1>2. next' \in Nat \ {0}
      BY DEF HandlerStep, TypeOK
<1> QED
      BY <1>1, <1>2 DEF HandlerStep, TypeOK, laptop

\* Numbers below a bound have a greatest one: it has the least distance to the bound.
LEMMA Greatest ==
    ASSUME NEW S \in SUBSET Nat, S # {}, NEW n \in Nat, \A x \in S : x <= n
    PROVE  \E x \in S : \A y \in S : y <= x
<1> DEFINE T == {n - x : x \in S}
<1>1. \A x \in S : x \in Nat /\ n - x \in Nat
      OBVIOUS
<1>2. T \subseteq Nat /\ T # {}
      BY <1>1
<1>3. IsWellFoundedOn(OpToRel(<, Nat), Nat)
      BY NatLessThanWellFounded, Zenon
<1> HIDE DEF T
<1>4. PICK d \in T : \A e \in T : <<e, d>> \notin OpToRel(<, Nat)
      BY <1>2, <1>3, WFMin, Zenon
<1>5. \A e \in T : ~ (e < d)
      BY <1>2, <1>4, Zenon DEF OpToRel
<1>6. PICK x \in S : d = n - x
      BY DEF T
<1>7. \A y \in S : ~ (n - y < n - x)
      BY <1>5, <1>6 DEF T
<1> QED
      BY <1>1, <1>7

\* The laptop has and is sent nothing newer than the server's row.
Sent(cs) == \A c \in cs : c.version <= version[c.key]
VersionsInv ==
    /\ \A k \in Key : copy[k] <= version[k]
    /\ Sent(inbox)
    /\ answer # NoAnswer => Sent(answer.changes)

LEMMA LandedTyped ==
    ASSUME TypeOK, NEW cs \in SUBSET Change, Sent(cs), \A k \in Key : copy[k] <= version[k]
    PROVE  /\ Landed(cs) \in [Key -> Nat]
           /\ \A k \in Key : copy[k] <= Landed(cs)[k] /\ Landed(cs)[k] <= version[k]
           /\ \A c \in cs : c.version <= Landed(cs)[c.key]
<1> DEFINE versions(k) == {copy[k]} \cup {c.version : c \in {d \in cs : d.key = k}}
           newest(k) == CHOOSE v \in versions(k) : \A w \in versions(k) : w <= v
<1>1. \A k \in Key : copy[k] \in Nat /\ version[k] \in Nat
      BY DEF TypeOK
<1>2. \A c \in cs : c.key \in Key /\ c.version \in Nat
      BY DEF Change
<1>3. ASSUME NEW k \in Key
      PROVE  /\ newest(k) \in Nat /\ newest(k) <= version[k] /\ copy[k] <= newest(k)
             /\ \A c \in cs : c.key = k => c.version <= newest(k)
  <2>1. \A v \in versions(k) : v \in Nat /\ v <= version[k]
        BY <1>1, <1>2 DEF Sent
  <2>2. versions(k) \in SUBSET Nat /\ copy[k] \in versions(k)
        /\ \A c \in cs : c.key = k => c.version \in versions(k)
        BY <2>1
  <2> HIDE DEF versions
  <2>3. \E v \in versions(k) : \A w \in versions(k) : w <= v
        BY <1>1, <2>1, <2>2, Greatest
  <2>4. newest(k) \in versions(k) /\ \A w \in versions(k) : w <= newest(k)
        BY <2>3
  <2> QED
        BY <2>1, <2>2, <2>4
<1>4. Landed(cs) = [k \in Key |-> newest(k)]
      BY DEF Landed
<1> HIDE DEF newest
<1> QED
      BY <1>2, <1>3, <1>4

LEMMA FetchTypes ==
    ASSUME TypeOK, Fetch
    PROVE  TypeOK'
<1>0. PICK es \in SUBSET {e \in log : pulled < e.seq} :
        \E n \in NextSeq(es) : answer' = [next |-> n, changes |-> Selected(es)]
      BY DEF Fetch
<1>1. PICK n \in NextSeq(es) : answer' = [next |-> n, changes |-> Selected(es)]
      BY <1>0
<1>2. es \subseteq Entry /\ n \in Nat \ {0}
      BY <1>1 DEF NextSeq, TypeOK, Entry
<1>3. ASSUME NEW e \in es
      PROVE  [seq |-> e.seq, key |-> e.key, version |-> version[e.key],
              project |-> ProjectOf(e.key, home)] \in Change
  <2>1. e.seq \in Nat \ {0} /\ e.key \in Key
        BY <1>2 DEF Entry
  <2>2. version[e.key] \in Nat /\ ProjectOf(e.key, home) \in Project
        BY <2>1, HomesTyped DEF TypeOK
  <2> QED
        BY <2>1, <2>2 DEF Change
<1>4. Selected(es) \subseteq Change
      BY <1>3 DEF Selected
<1>5. answer' \in Answer
      BY <1>1, <1>2, <1>4 DEF Answer
<1> QED
      BY <1>5 DEF Fetch, TypeOK, server, laptop

LEMMA AnswerTyped ==
    ASSUME TypeOK, answer # NoAnswer
    PROVE  answer.next \in Nat \ {0} /\ answer.changes \subseteq Change
BY DEF TypeOK, Answer

\* Versions grow, so a step that leaves the laptop alone keeps this.
LEMMA GrowthKeepsVersions ==
    ASSUME TypeOK, TypeOK', VersionsInv, \A k \in Key : version[k] <= version'[k],
           UNCHANGED <<laptop, answer>>
    PROVE  VersionsInv'
<1>1. copy' = copy /\ inbox' = inbox /\ answer' = answer
      BY DEF laptop
<1>2. \A k \in Key : copy[k] \in Nat /\ version[k] \in Nat /\ version'[k] \in Nat
      BY DEF TypeOK
<1>3. ASSUME NEW c \in Change, c.version <= version[c.key]
      PROVE  c.version <= version'[c.key]
  <2>1. c.key \in Key /\ c.version \in Nat
        BY DEF Change
  <2> QED
        BY <1>2, <1>3, <2>1
<1>4. inbox \subseteq Change /\ (answer # NoAnswer => answer.changes \subseteq Change)
      BY AnswerTyped DEF TypeOK
<1>5. \A k \in Key : copy[k] <= version'[k]
      BY <1>2 DEF VersionsInv
<1> QED
      BY <1>1, <1>3, <1>4, <1>5 DEF VersionsInv, Sent

LEMMA CommitGrows ==
    ASSUME TypeOK, NEW es, NEW rows, NEW homes, Commit(es, rows, homes)
    PROVE  \A k \in Key : version[k] <= version'[k]
BY DEF Commit, TypeOK

LEMMA ServerKeepsVersions ==
    ASSUME TypeOK, TypeOK', VersionsInv, Handlers \/ \E t \in Thread : Merges(t)
    PROVE  VersionsInv'
<1>1. CASE Handlers
      BY <1>1, HandlersStep, CommitGrows, GrowthKeepsVersions DEF HandlerStep
<1>2. ASSUME NEW t \in Thread, Merges(t)
      PROVE  VersionsInv'
  <2>1. CASE MergeCommits(t)
        BY <2>1, CommitGrows, GrowthKeepsVersions DEF MergeCommits
  <2>2. CASE version' = version /\ UNCHANGED <<laptop, answer>>
        BY <2>2, GrowthKeepsVersions DEF TypeOK
  <2> QED
        BY <1>2, <2>1, <2>2 DEF Merges, MergeMemos, MergeProjects, Begin, MergeWrites, MergeAborts
<1> QED
      BY <1>1, <1>2

LEMMA FetchKeepsVersions ==
    ASSUME TypeOK, VersionsInv, Fetch
    PROVE  VersionsInv'
<1>0. PICK es \in SUBSET {e \in log : pulled < e.seq} :
        \E n \in NextSeq(es) : answer' = [next |-> n, changes |-> Selected(es)]
      BY DEF Fetch
<1>1. answer'.changes = Selected(es) /\ es \subseteq Entry
      BY <1>0 DEF TypeOK
<1>2. \A e \in es : version[e.key] \in Nat
      BY <1>1 DEF TypeOK, Entry
<1>3. \A c \in Selected(es) : c.version <= version[c.key]
      BY <1>2 DEF Selected
<1>4. version' = version /\ copy' = copy /\ inbox' = inbox
      BY DEF Fetch, server, laptop
<1> QED
      BY <1>1, <1>3, <1>4 DEF VersionsInv, Sent

LEMMA LaptopTypes ==
    ASSUME TypeOK, VersionsInv, Baseline \/ Fetch \/ Loses \/ Apply \/ Retry
    PROVE  TypeOK' /\ VersionsInv'
<1>1. CASE Baseline
      BY <1>1 DEF Baseline, TypeOK, VersionsInv, Sent, server, Entry
<1>2. CASE Fetch
      BY <1>2, FetchTypes, FetchKeepsVersions
<1>3. CASE Loses
      BY <1>3 DEF Loses, TypeOK, VersionsInv, Sent, server, laptop
<1>4. CASE Apply
  <2>1. answer.next \in Nat /\ answer.changes \subseteq Change /\ Sent(answer.changes)
        BY <1>4, AnswerTyped DEF Apply, VersionsInv
  <2>2. Landing(answer.changes) \in SUBSET Change /\ Sent(Landing(answer.changes))
        BY <2>1 DEF Landing, Sent
  <2>3. copy' \in [Key -> Nat] /\ \A k \in Key : copy'[k] <= version[k]
        BY <1>4, <2>2, LandedTyped DEF Apply, VersionsInv
  <2>4. TypeOK'
        BY <1>4, <2>1, <2>3 DEF Apply, TypeOK, server
  <2>5. VersionsInv'
        BY <1>4, <2>1, <2>3 DEF Apply, VersionsInv, Sent, server
  <2> QED
        BY <2>4, <2>5
<1>5. CASE Retry
  <2>1. Landing(Head) \in SUBSET Change /\ Sent(Landing(Head))
        BY DEF TypeOK, Landing, Head, VersionsInv, Sent
  <2>2. copy' \in [Key -> Nat] /\ \A k \in Key : copy'[k] <= version[k]
        BY <1>5, <2>1, LandedTyped DEF Retry, VersionsInv
  <2>3. TypeOK'
        BY <1>5, <2>2 DEF Retry, TypeOK, server
  <2>4. VersionsInv'
        BY <1>5, <2>2 DEF Retry, VersionsInv, Sent, server
  <2> QED
        BY <2>3, <2>4
<1> QED
      BY <1>1, <1>2, <1>3, <1>4, <1>5

LEMMA TypesInit == Init => TypeOK
<1> SUFFICES ASSUME Init PROVE TypeOK
    OBVIOUS
<1>1. PICK ps \in SUBSET Own, ms \in SUBSET Memo :
        live = {ProjectRow(p) : p \in ps} \cup {MemberRow(p) : p \in ps} \cup MemoRows(ms)
      BY DEF Init
<1>2. live \subseteq Key
      BY <1>1, RowsTyped, FeedAssumption
<1>3. version \in [Key -> Nat] /\ copy \in [Key -> Nat] /\ excuse \in [Key -> SUBSET Reason]
      BY DEF Init
<1> QED
      BY <1>2, <1>3 DEF Init, TypeOK

LEMMA VersionsInit == Init => VersionsInv
<1> SUFFICES ASSUME Init PROVE VersionsInv
    OBVIOUS
<1>1. \A k \in Key : version[k] \in Nat /\ copy[k] = version[k]
      BY TypesInit DEF Init, TypeOK
<1> QED
      BY <1>1 DEF Init, VersionsInv, Sent

LEMMA TypesStep == TypeOK /\ VersionsInv /\ [Next]_vars => TypeOK' /\ VersionsInv'
<1> SUFFICES ASSUME TypeOK, VersionsInv, [Next]_vars PROVE TypeOK' /\ VersionsInv'
    OBVIOUS
<1>1. CASE Handlers \/ \E t \in Thread : Merges(t)
  <2>1. TypeOK'
        BY <1>1, HandlersStep, HandlerTypes, MergeTypes
  <2> QED
        BY <1>1, <2>1, ServerKeepsVersions
<1>2. CASE Baseline \/ Fetch \/ Loses \/ Apply \/ Retry
      BY <1>2, LaptopTypes
<1>3. CASE UNCHANGED vars
      BY <1>3 DEF TypeOK, VersionsInv, Sent, vars, server, laptop
<1> QED
      BY <1>1, <1>2, <1>3 DEF Next

\* Tables, transactions, the laptop's queue and the answers keep their shape,
\* whatever the projects, memos, threads and the limit of a batch.
THEOREM TypeCorrect == Spec => []TypeOK
BY TypesInit, VersionsInit, TypesStep, PTL DEF Spec

(***************************************************************************)
(* Nothing is passed by without a reason.  The cursor stands on an entry   *)
(* of the feed, so an entry that is committed behind it has a number it    *)
(* has left for a greater one; before the baseline the laptop has whatever *)
(* is not excused; an answer under way has what its cursor passes by.      *)
(***************************************************************************)

\* A number is taken once.
Numbered ==
    /\ \A e \in log : e.seq < next
    /\ \A t \in Thread : \A e \in Wrote(t) :
          e.seq < next /\ \A x \in log : x.seq # e.seq
    /\ \A t, u \in Thread : t # u =>
          \A e \in Wrote(t), x \in Wrote(u) : e.seq # x.seq

Logged(n) == \E e \in log : e.seq = n

CursorsLogged ==
    /\ pulled = 0 \/ Logged(pulled)
    /\ answer # NoAnswer => phase = "synced" /\ Logged(answer.next)

LoadedInv ==
    phase = "loaded" => inbox = {} /\ \A k \in Key : excuse[k] = {} => copy[k] = version[k]

\* The rows a cursor at n has passed by without a reason.
Missed(n) ==
    {k \in Key :
        /\ Visible(k) /\ excuse[k] = {} /\ copy[k] < version[k] /\ ~ PutOff(k)
        /\ ~ \E e \in log : e.key = k /\ e.seq > n}

AnswerInv ==
    answer # NoAnswer =>
        /\ \A c, d \in answer.changes : c.key = d.key => c.version = d.version
        /\ \A k \in Missed(answer.next) :
              \E c \in answer.changes : c.key = k /\ c.version = version[k]

FeedInv ==
    TypeOK /\ VersionsInv /\ Numbered /\ CursorsLogged /\ LoadedInv /\ AnswerInv /\ NothingSkipped

LEMMA SkippedMissed == NothingSkipped <=> Missed(pulled) = {}
BY DEF NothingSkipped, PassedBy, ToCome, Missed

\* A commit behind a cursor is excused, and so is a row that it reveals.
LEMMA CommitMisses ==
    ASSUME TypeOK, NEW n \in Nat, n = 0 \/ Logged(n),
           NEW es \in SUBSET Entry, NEW rows \in SUBSET Key, NEW homes \in [Memo -> Project],
           \A e \in es, x \in log : x.seq # e.seq,
           Commit(es, rows, homes), copy' = copy, inbox' = inbox,
           NEW k \in Key, k \in Missed(n)'
    PROVE  k \in Missed(n) /\ version'[k] = version[k]
<1>1. /\ Sees(rows, homes, k) /\ excuse'[k] = {} /\ copy[k] < version'[k]
      /\ ~ \E c \in inbox : c.key = k /\ c.version = version'[k]
      /\ ~ \E e \in log \cup es : e.key = k /\ e.seq > n
      BY DEF Missed, Visible, PutOff, Commit
<1>2. excuse[k] = {} /\ Reasons(k, es, rows, homes) = {}
      BY <1>1 DEF Commit
<1>3. ASSUME k \in Keys(es)
      PROVE  FALSE
  <2>1. PICK e \in es : e.key = k
        BY <1>3 DEF Keys
  <2>2. e.seq \in Nat \ {0} /\ e.seq <= n
        BY <1>1, <2>1 DEF Entry
  <2>3. PICK x \in log : x.seq = n
        BY <2>2 DEF Logged
  <2>4. e.seq < x.seq
        BY <2>2, <2>3
  <2>5. "order" \in Reasons(k, es, rows, homes)
        BY <2>1, <2>3, <2>4 DEF Reasons, Reason
  <2> QED
        BY <1>2, <2>5
<1>4. version'[k] = version[k]
      BY <1>3 DEF Commit
<1>5. Visible(k)
      BY <1>1, <1>2, <1>3 DEF Reasons, Reason
<1> QED
      BY <1>1, <1>2, <1>4, <1>5 DEF Missed, PutOff

LEMMA CommitKeepsLoaded ==
    ASSUME TypeOK, LoadedInv, NEW es \in SUBSET Entry, NEW rows \in SUBSET Key,
           NEW homes \in [Memo -> Project], Commit(es, rows, homes), UNCHANGED laptop
    PROVE  LoadedInv'
<1> SUFFICES ASSUME phase = "loaded"
    PROVE  inbox' = {} /\ \A k \in Key : excuse'[k] = {} => copy'[k] = version'[k]
    BY DEF LoadedInv, laptop
<1>1. ASSUME NEW k \in Key, excuse'[k] = {}
      PROVE  copy'[k] = version'[k]
  <2>1. excuse[k] = {} /\ Reasons(k, es, rows, homes) = {}
        BY <1>1 DEF Commit
  <2>2. k \notin Keys(es)
        BY <2>1 DEF Reasons, Reason
  <2>3. version'[k] = version[k]
        BY <2>2 DEF Commit
  <2> QED
        BY <2>1, <2>3 DEF LoadedInv, laptop
<1> QED
      BY <1>1 DEF LoadedInv, laptop

\* A commit of numbers nobody else has keeps what is said of the cursors.
LEMMA CommitKeepsFeed ==
    ASSUME FeedInv, NEW es \in SUBSET Entry, NEW rows \in SUBSET Key,
           NEW homes \in [Memo -> Project], Commit(es, rows, homes),
           \A e \in es, x \in log : x.seq # e.seq, UNCHANGED <<laptop, answer>>
    PROVE  CursorsLogged' /\ LoadedInv' /\ AnswerInv' /\ NothingSkipped'
<1> USE DEF FeedInv
<1>1. log' = log \cup es /\ copy' = copy /\ inbox' = inbox /\ pulled' = pulled /\ answer' = answer
      /\ phase' = phase
      BY DEF Commit, laptop
<1>2. CursorsLogged'
      BY <1>1 DEF CursorsLogged, Logged
<1>3. LoadedInv'
      BY CommitKeepsLoaded
<1>4. AnswerInv'
  <2> SUFFICES ASSUME answer # NoAnswer
      PROVE  /\ \A c, d \in answer.changes : c.key = d.key => c.version = d.version
             /\ \A k \in Missed(answer.next)' :
                   \E c \in answer.changes : c.key = k /\ c.version = version'[k]
      BY <1>1 DEF AnswerInv
  <2>1. PICK n \in Nat : n = answer.next
        BY AnswerTyped
  <2>2. Logged(n)
        BY <2>1 DEF CursorsLogged
  <2>3. ASSUME NEW k \in Key, k \in Missed(n)'
        PROVE  \E c \in answer.changes : c.key = k /\ c.version = version'[k]
    <3>1. k \in Missed(n) /\ version'[k] = version[k]
          BY <1>1, <2>2, <2>3, CommitMisses
    <3> QED
          BY <2>1, <3>1 DEF AnswerInv
  <2>4. Missed(answer.next)' = Missed(n)' /\ Missed(n)' \subseteq Key
        BY <1>1, <2>1 DEF Missed
  <2> QED
        BY <2>3, <2>4 DEF AnswerInv
<1>5. NothingSkipped'
  <2>1. PICK n \in Nat : n = pulled
        BY DEF TypeOK
  <2>2. n = 0 \/ Logged(n)
        BY <2>1 DEF CursorsLogged
  <2>3. Missed(n) = {}
        BY <2>1, SkippedMissed
  <2>4. Missed(n)' = {}
    <3>1. Missed(n)' \subseteq Key
          BY DEF Missed
    <3> QED
          BY <1>1, <2>2, <2>3, <3>1, CommitMisses
  <2> QED
        BY <1>1, <2>1, <2>4 DEF NothingSkipped, PassedBy, ToCome, Missed
<1> QED
      BY <1>2, <1>3, <1>4, <1>5

LEMMA HandlerKeepsFeed ==
    ASSUME FeedInv, TypeOK', VersionsInv', NEW es, NEW rows, NEW homes,
           HandlerStep(es, rows, homes)
    PROVE  FeedInv'
<1> USE DEF FeedInv
<1>2. /\ es \in SUBSET Entry /\ next \in Nat /\ next' \in Nat /\ next <= next'
      /\ \A e \in es : next <= e.seq /\ e.seq < next' /\ e.seq \in Nat
      /\ log \subseteq Entry /\ \A e \in log : e.seq \in Nat
      /\ log' = log \cup es /\ merge' = merge
      BY DEF HandlerStep, Commit, TypeOK, Entry
<1>3. \A e \in es, x \in log : x.seq # e.seq
      BY <1>2 DEF Numbered
<1>4. Numbered'
  <2>1. \A t \in Thread : Wrote(t)' = Wrote(t) /\ Wrote(t) \subseteq Entry
        BY <1>2, WroteTyped DEF Wrote
  <2>2. \A t \in Thread : \A e \in Wrote(t) : e.seq \in Nat
        BY <2>1 DEF Entry
  <2> QED
        BY <1>2, <2>1, <2>2 DEF Numbered
<1>5. CursorsLogged' /\ LoadedInv' /\ AnswerInv' /\ NothingSkipped'
      BY <1>2, <1>3, CommitKeepsFeed DEF HandlerStep
<1> QED
      BY <1>4, <1>5

\* Steps that commit nothing and leave the laptop alone.
LEMMA QuietKeepsFeed ==
    ASSUME FeedInv, TypeOK', VersionsInv', UNCHANGED <<version, live, home, log, laptop, answer>>,
           \A k \in Key : excuse[k] \subseteq excuse'[k]
    PROVE  CursorsLogged' /\ LoadedInv' /\ AnswerInv' /\ NothingSkipped'
<1> USE DEF FeedInv
<1>1. /\ copy' = copy /\ inbox' = inbox /\ pulled' = pulled /\ phase' = phase /\ answer' = answer
      /\ version' = version /\ live' = live /\ home' = home /\ log' = log
      BY DEF laptop
<1>2. CursorsLogged'
      BY <1>1 DEF CursorsLogged, Logged
<1>3. LoadedInv'
      BY <1>1 DEF LoadedInv
<1>4. \A n : Missed(n)' \subseteq Missed(n)
      BY <1>1 DEF Missed, Visible, PutOff
<1>5. AnswerInv'
  <2>1. answer # NoAnswer => Missed(answer.next)' \subseteq Missed(answer.next)
    <3>1. PICK n : n = answer.next
          OBVIOUS
    <3>2. Missed(n)' = Missed(answer.next)'
          BY <1>1, <3>1 DEF Missed
    <3> QED
          BY <1>4, <3>1, <3>2
  <2> QED
        BY <1>1, <2>1 DEF AnswerInv
<1>6. NothingSkipped'
      BY <1>1 DEF NothingSkipped, PassedBy, Visible, ToCome, PutOff
<1> QED
      BY <1>2, <1>3, <1>5, <1>6

LEMMA BeginKeepsFeed ==
    ASSUME FeedInv, TypeOK', VersionsInv', NEW t \in Thread, NEW dead, NEW born, NEW moved, NEW to,
           Begin(t, dead, born, moved, to)
    PROVE  FeedInv'
<1> USE DEF FeedInv
<1>1. \A u \in Thread : Wrote(u)' \subseteq Wrote(u)
      BY DEF Wrote, Begin, TypeOK
<1>2. Numbered'
      BY <1>1 DEF Numbered, Begin
<1>3. CursorsLogged' /\ LoadedInv' /\ AnswerInv' /\ NothingSkipped'
      BY QuietKeepsFeed DEF Begin
<1> QED
      BY <1>2, <1>3

LEMMA AbortKeepsFeed ==
    ASSUME FeedInv, TypeOK', VersionsInv', NEW t \in Thread, MergeAborts(t)
    PROVE  FeedInv'
<1> USE DEF FeedInv
<1>1. \A u \in Thread : Wrote(u)' \subseteq Wrote(u)
      BY DEF Wrote, MergeAborts, TypeOK, NoMerge
<1>2. Numbered'
      BY <1>1 DEF Numbered, MergeAborts
<1>3. CursorsLogged' /\ LoadedInv' /\ AnswerInv' /\ NothingSkipped'
      BY QuietKeepsFeed DEF MergeAborts
<1> QED
      BY <1>2, <1>3

LEMMA WritesKeepFeed ==
    ASSUME FeedInv, TypeOK', VersionsInv', NEW t \in Thread, NEW k \in Key, MergeWrites(t, k)
    PROVE  FeedInv'
<1> USE DEF FeedInv
<1>1. next \in Nat /\ next' = next + 1 /\ log' = log /\ log \subseteq Entry
      /\ \A e \in Entry : e.seq \in Nat
      BY DEF MergeWrites, TypeOK, Entry
<1>2. \A u \in Thread : Wrote(u) \subseteq Entry
      BY WroteTyped
<1>3. \A u \in Thread : Wrote(u)' =
        IF u = t THEN Wrote(u) \cup {[seq |-> next, key |-> k]} ELSE Wrote(u)
  <2> DEFINE new == [merge[t] EXCEPT !.todo = @ \ {k},
                                     !.wrote = @ \cup {[seq |-> next, key |-> k]}]
  <2>1. merge[t] \in OpenMerge /\ merge[t].open
        BY OpenTyped DEF MergeWrites
  <2>2. new.open /\ new.wrote = merge[t].wrote \cup {[seq |-> next, key |-> k]}
        BY <2>1 DEF OpenMerge
  <2>3. merge' = [merge EXCEPT ![t] = new] /\ merge \in [Thread -> {NoMerge} \cup OpenMerge]
        BY DEF MergeWrites, TypeOK
  <2> HIDE DEF new
  <2>4. merge'[t] = new /\ \A u \in Thread \ {t} : merge'[u] = merge[u]
        BY <2>3
  <2> QED
        BY <2>1, <2>2, <2>4 DEF Wrote
<1>4. \A u \in Thread : \A e \in Wrote(u)' :
        \/ e \in Wrote(u) /\ e.seq < next
        \/ u = t /\ e.seq = next
      BY <1>3 DEF Numbered
<1>5. \A u \in Thread : \A e \in Wrote(u)' : e.seq \in Nat
      BY <1>1, <1>2, <1>4
<1>6. Numbered'
  <2>1. \A e \in log' : e.seq < next'
        BY <1>1 DEF Numbered
  <2>2. ASSUME NEW u \in Thread, NEW e \in Wrote(u)'
        PROVE  e.seq < next' /\ \A x \in log' : x.seq # e.seq
        BY <1>1, <1>4, <1>5 DEF Numbered
  <2>3. ASSUME NEW u \in Thread, NEW v \in Thread, u # v, NEW e \in Wrote(u)', NEW x \in Wrote(v)'
        PROVE  e.seq # x.seq
        BY <1>1, <1>4, <1>5, <2>3 DEF Numbered
  <2> QED
        BY <2>1, <2>2, <2>3 DEF Numbered
<1>7. \A l \in Key : excuse[l] \subseteq excuse'[l]
      BY DEF MergeWrites, TypeOK
<1>8. CursorsLogged' /\ LoadedInv' /\ AnswerInv' /\ NothingSkipped'
      BY <1>7, QuietKeepsFeed DEF MergeWrites
<1> QED
      BY <1>6, <1>8

LEMMA CommitsKeepFeed ==
    ASSUME FeedInv, TypeOK', VersionsInv', NEW t \in Thread, MergeCommits(t)
    PROVE  FeedInv'
<1> USE DEF FeedInv
<1> DEFINE rows == (live \ merge[t].dead) \cup merge[t].born
           homes == [m \in Memo |-> IF m \in merge[t].moved THEN merge[t].to ELSE home[m]]
           es == merge[t].wrote
<1>1. merge[t] \in OpenMerge /\ Commit(es, rows, homes)
      BY OpenTyped DEF MergeCommits
<1>2. es \in SUBSET Entry /\ rows \in SUBSET Key /\ homes \in [Memo -> Project]
      BY <1>1 DEF OpenMerge, TypeOK
<1>3. es = Wrote(t)
      BY DEF Wrote, MergeCommits
<1>4. \A e \in es, x \in log : x.seq # e.seq
      BY <1>3 DEF Numbered
<1> HIDE DEF rows, homes, es
<1>5. CursorsLogged' /\ LoadedInv' /\ AnswerInv' /\ NothingSkipped'
      BY <1>1, <1>2, <1>4, CommitKeepsFeed DEF MergeCommits
<1>6. Numbered'
  <2>1. \A u \in Thread : Wrote(u)' = IF u = t THEN {} ELSE Wrote(u)
        BY DEF Wrote, MergeCommits, TypeOK, NoMerge
  <2>2. log' = log \cup Wrote(t) /\ next' = next
        BY <1>1, <1>3 DEF Commit, MergeCommits
  <2>3. \A e \in log' : e.seq < next'
        BY <2>2 DEF Numbered
  <2>4. \A u \in Thread : \A e \in Wrote(u)' : u # t /\ e \in Wrote(u)
        BY <2>1
  <2>5. \A u \in Thread : \A e \in Wrote(u)' : e.seq < next' /\ \A x \in log' : x.seq # e.seq
        BY <2>2, <2>4 DEF Numbered
  <2> QED
        BY <2>3, <2>4, <2>5 DEF Numbered
<1> QED
      BY <1>5, <1>6

LEMMA MergeKeepsFeed ==
    ASSUME FeedInv, TypeOK', VersionsInv', NEW t \in Thread, Merges(t)
    PROVE  FeedInv'
<1>1. TypeOK' /\ VersionsInv'
      OBVIOUS
<1>2. CASE \E l, w \in Memo : MergeMemos(t, l, w)
      BY <1>1, <1>2, BeginKeepsFeed DEF MergeMemos
<1>3. CASE \E l, w \in Project : MergeProjects(t, l, w)
      BY <1>1, <1>3, BeginKeepsFeed DEF MergeProjects
<1>4. CASE \E k \in Key : MergeWrites(t, k)
      BY <1>1, <1>4, WritesKeepFeed
<1>5. CASE MergeCommits(t)
      BY <1>1, <1>5, CommitsKeepFeed
<1>6. CASE MergeAborts(t)
      BY <1>1, <1>6, AbortKeepsFeed
<1> QED
      BY <1>2, <1>3, <1>4, <1>5, <1>6 DEF Merges

LEMMA BaselineKeepsFeed ==
    ASSUME FeedInv, TypeOK', VersionsInv', Baseline
    PROVE  FeedInv'
<1> USE DEF FeedInv
<1>1. answer' = NoAnswer
      BY DEF CursorsLogged, Baseline
<1>2. Numbered'
      BY DEF Numbered, Baseline, server, Wrote
<1>3. CursorsLogged'
      BY <1>1 DEF CursorsLogged, Baseline, server, Logged
<1>4. LoadedInv' /\ AnswerInv'
      BY <1>1 DEF LoadedInv, AnswerInv, Baseline
<1>5. ASSUME NEW k \in Key, excuse[k] = {}
      PROVE  ~ (copy[k] < version[k])
      BY <1>5 DEF LoadedInv, Baseline, TypeOK
<1>6. NothingSkipped'
      BY <1>5 DEF NothingSkipped, PassedBy, Baseline, server
<1> QED
      BY <1>2, <1>3, <1>4, <1>6

\* Of a row that a window passes by, the answer holds the version there is.
LEMMA FetchKeepsFeed ==
    ASSUME FeedInv, TypeOK', VersionsInv', Fetch
    PROVE  FeedInv'
<1> USE DEF FeedInv
<1>1. PICK es \in SUBSET {e \in log : pulled < e.seq} :
        /\ IsWindow(es, pulled)
        /\ \E n \in NextSeq(es) : answer' = [next |-> n, changes |-> Selected(es)]
      BY DEF Fetch
<1>2. PICK n \in NextSeq(es) : answer' = [next |-> n, changes |-> Selected(es)]
      BY <1>1
<1>3. PICK last \in es : last.seq = n /\ \A y \in es : y.seq <= n
      BY <1>2 DEF NextSeq
<1>4. answer'.next = n /\ answer'.changes = Selected(es) /\ n \in Nat /\ es \subseteq log
      /\ log \subseteq Entry /\ \A e \in log : e.seq \in Nat
      BY <1>1, <1>2, <1>3 DEF TypeOK, Entry
<1>5. Numbered'
      BY DEF Numbered, Fetch, server, Wrote
<1>6. CursorsLogged' /\ LoadedInv' /\ NothingSkipped'
      BY <1>3, <1>4 DEF CursorsLogged, LoadedInv, NothingSkipped, PassedBy, Visible, ToCome, PutOff,
         Logged, Fetch, server, laptop
<1>7. \A c, d \in Selected(es) : c.key = d.key => c.version = d.version
      BY DEF Selected
<1>8. ASSUME NEW k \in Key, k \in Missed(n)
      PROVE  \E c \in Selected(es) : c.key = k /\ c.version = version[k]
  <2> DEFINE S == {e \in es : e.key = k}
  <2>1. Visible(k) /\ ~ \E e \in log : e.key = k /\ e.seq > n
        BY <1>8 DEF Missed
  <2>2. Missed(pulled) = {}
        BY SkippedMissed
  <2>3. PICK e \in log : e.key = k /\ e.seq > pulled
        BY <1>8, <2>2 DEF Missed
  <2>4. e \in es
        BY <1>1, <1>3, <1>4, <2>1, <2>3 DEF IsWindow
  <2>5. S \subseteq Entry /\ S # {} /\ \A y \in S : y.seq <= n
        BY <1>3, <1>4, <2>3, <2>4
  <2>6. PICK x \in S : \A y \in S : y.seq <= x.seq
    <3> DEFINE numbers == {y.seq : y \in S}
    <3>1. numbers \in SUBSET Nat /\ numbers # {} /\ \A v \in numbers : v <= n
          BY <2>5 DEF Entry
    <3>2. \E v \in numbers : \A w \in numbers : w <= v
          BY <1>4, <3>1, Greatest
    <3> QED
          BY <3>2
  <2>7. [seq |-> x.seq, key |-> x.key, version |-> version[x.key],
         project |-> ProjectOf(x.key, home)] \in Selected(es)
        BY <2>1, <2>6 DEF Selected
  <2> QED
        BY <2>6, <2>7
<1>9. AnswerInv'
  <2>1. Missed(answer.next)' = Missed(n)
        BY <1>4 DEF Missed, Visible, PutOff, Fetch, server, laptop
  <2>2. Missed(n) \subseteq Key /\ version' = version
        BY DEF Missed, Fetch, server
  <2> QED
        BY <1>4, <1>7, <1>8, <2>1, <2>2 DEF AnswerInv
<1> QED
      BY <1>5, <1>6, <1>9

LEMMA LosesKeepsFeed ==
    ASSUME FeedInv, TypeOK', VersionsInv', Loses
    PROVE  FeedInv'
BY DEF FeedInv, Numbered, CursorsLogged, LoadedInv, AnswerInv, NothingSkipped, PassedBy, Visible,
   ToCome, PutOff, Logged, Wrote, Loses, server, laptop

\* What lands is as new as the table; what does not, waits.
LEMMA ApplyKeepsFeed ==
    ASSUME FeedInv, TypeOK', VersionsInv', Apply
    PROVE  FeedInv'
<1> USE DEF FeedInv
<1> DEFINE cs == answer.changes
           landing == Landing(cs)
<1>1. /\ copy' = Landed(landing) /\ inbox' = inbox \cup (cs \ landing)
      /\ pulled' = answer.next /\ answer' = NoAnswer /\ answer # NoAnswer
      BY DEF Apply
<1>2. answer.next \in Nat /\ cs \subseteq Change /\ landing \subseteq cs
      /\ Sent(landing)
      BY <1>1, AnswerTyped DEF Landing, VersionsInv, Sent
<1>3. Numbered'
      BY DEF Numbered, Apply, server, Wrote
<1>4. CursorsLogged'
      BY <1>1 DEF CursorsLogged, Apply, server, Logged
<1>5. phase' = "synced"
      BY <1>1 DEF CursorsLogged, Apply
<1>6. LoadedInv' /\ AnswerInv'
      BY <1>1, <1>5 DEF LoadedInv, AnswerInv
<1>7. ASSUME NEW k \in Key, PassedBy(k)', excuse'[k] = {}
      PROVE  FALSE
  <2>1. /\ Visible(k) /\ excuse[k] = {} /\ copy'[k] < version[k]
        /\ ~ (\E c \in inbox' : c.key = k /\ c.version = version[k])
        /\ ~ \E e \in log : e.key = k /\ e.seq > answer.next
        BY <1>1, <1>7 DEF PassedBy, Visible, PutOff, ToCome, Apply, server
  <2>2. copy[k] \in Nat /\ copy'[k] \in Nat /\ version[k] \in Nat /\ copy[k] <= copy'[k]
        BY <1>1, <1>2, LandedTyped DEF TypeOK, VersionsInv
  <2>3. k \in Missed(answer.next)
        BY <1>1, <2>1, <2>2 DEF Missed, PutOff
  <2>4. PICK c \in cs : c.key = k /\ c.version = version[k]
        BY <1>1, <2>3 DEF AnswerInv
  <2>5. c \in landing
        BY <1>1, <2>1, <2>4
  <2>6. version[k] <= copy'[k]
        BY <1>1, <1>2, <2>4, <2>5, LandedTyped DEF VersionsInv
  <2> QED
        BY <2>1, <2>2, <2>6
<1>8. NothingSkipped'
      BY <1>7 DEF NothingSkipped
<1> QED
      BY <1>3, <1>4, <1>6, <1>8

LEMMA RetryKeepsFeed ==
    ASSUME FeedInv, TypeOK', VersionsInv', Retry
    PROVE  FeedInv'
<1> USE DEF FeedInv
<1> DEFINE landing == Landing(Head)
<1>1. /\ copy' = Landed(landing) /\ inbox' = inbox \ landing /\ pulled' = pulled
      /\ answer' = NoAnswer
      BY DEF Retry
<1>2. landing \in SUBSET Change /\ Sent(landing) /\ landing \subseteq inbox
      BY DEF TypeOK, Landing, Head, VersionsInv, Sent
<1>3. Numbered'
      BY DEF Numbered, Retry, server, Wrote
<1>4. CursorsLogged'
      BY <1>1 DEF CursorsLogged, Retry, server, Logged
<1>5. LoadedInv' /\ AnswerInv'
      BY <1>1, <1>2 DEF LoadedInv, AnswerInv, Retry
<1>6. ASSUME NEW k \in Key, PassedBy(k)'
      PROVE  excuse'[k] # {}
  <2>1. copy[k] \in Nat /\ copy'[k] \in Nat /\ version[k] \in Nat /\ copy[k] <= copy'[k]
        BY <1>1, <1>2, LandedTyped DEF TypeOK, VersionsInv
  <2>2. \A c \in landing : c.version <= copy'[c.key]
        BY <1>1, <1>2, LandedTyped DEF VersionsInv
  <2>3. Visible(k) /\ copy'[k] < version[k] /\ ~ ToCome(k) /\ excuse' = excuse
        /\ ~ (\E d \in inbox' : d.key = k /\ d.version = version[k])
        BY <1>1, <1>6 DEF PassedBy, Visible, PutOff, ToCome, Retry, server
  <2>4. ~ PutOff(k)
        BY <1>1, <2>1, <2>2, <2>3 DEF PutOff
  <2> QED
        BY <2>1, <2>3, <2>4 DEF NothingSkipped, PassedBy
<1>7. NothingSkipped'
      BY <1>6 DEF NothingSkipped
<1> QED
      BY <1>3, <1>4, <1>5, <1>7

LEMMA FeedInit == Init => FeedInv
<1> SUFFICES ASSUME Init PROVE FeedInv
    OBVIOUS
<1>1. TypeOK /\ VersionsInv
      BY TypesInit, VersionsInit
<1>2. \A t \in Thread : Wrote(t) = {}
      BY DEF Init, Wrote, NoMerge
<1>3. Numbered
      BY <1>2 DEF Init, Numbered
<1>4. CursorsLogged /\ LoadedInv /\ AnswerInv
      BY DEF Init, CursorsLogged, LoadedInv, AnswerInv
<1>5. \A k \in Key : ~ (copy[k] < version[k])
      BY <1>1 DEF Init, TypeOK
<1> QED
      BY <1>1, <1>3, <1>4, <1>5 DEF FeedInv, NothingSkipped, PassedBy

LEMMA FeedStep == FeedInv /\ [Next]_vars => FeedInv'
<1> SUFFICES ASSUME FeedInv, [Next]_vars PROVE FeedInv'
    OBVIOUS
<1>1. TypeOK' /\ VersionsInv'
      BY TypesStep DEF FeedInv
<1>2. CASE Handlers
      BY <1>1, <1>2, HandlersStep, HandlerKeepsFeed DEF FeedInv
<1>3. CASE \E t \in Thread : Merges(t)
      BY <1>1, <1>3, MergeKeepsFeed
<1>4. CASE Baseline
      BY <1>1, <1>4, BaselineKeepsFeed
<1>5. CASE Fetch
      BY <1>1, <1>5, FetchKeepsFeed
<1>6. CASE Loses
      BY <1>1, <1>6, LosesKeepsFeed
<1>7. CASE Apply
      BY <1>1, <1>7, ApplyKeepsFeed
<1>8. CASE Retry
      BY <1>1, <1>8, RetryKeepsFeed
<1>9. CASE UNCHANGED vars
  <2>1. UNCHANGED <<version, live, home, log, laptop, answer>> /\ excuse' = excuse
        /\ merge' = merge /\ next' = next
        BY <1>9 DEF vars, server
  <2>2. Numbered'
        BY <2>1 DEF FeedInv, Numbered, Wrote
  <2> QED
        BY <1>1, <2>1, <2>2, QuietKeepsFeed DEF FeedInv
<1> QED
      BY <1>2, <1>3, <1>4, <1>5, <1>6, <1>7, <1>8, <1>9 DEF Next

\* The cursor of the laptop passes by no row that the account sees, unless the row
\* was committed behind it, was hidden, or fell between load and baseline.
THEOREM NothingPassedBy == Spec => []NothingSkipped
<1>1. FeedInv => NothingSkipped
      BY DEF FeedInv
<1> QED
      BY <1>1, FeedInit, FeedStep, PTL DEF Spec

(***************************************************************************)
(* Why a row waits.  Whatever is in the queue belongs to a project that    *)
(* exists and does not wait itself, so NothingSkipped says why it is not   *)
(* there.                                                                  *)
(***************************************************************************)
Pending(t) == merge[t].todo \cup Keys(merge[t].wrote)

MergeParents ==
    \A t \in Thread : merge[t].open =>
        /\ Exists(ProjectRow(merge[t].to))
        /\ merge[t].born \cup MemoRows(merge[t].moved) \subseteq Pending(t)
        /\ \A k \in Pending(t) : Exists(ParentOf(k, home))

QueueParents ==
    /\ \A c \in inbox :
          Exists(ProjectRow(c.project)) /\ \A p \in Project : c.key # ProjectRow(p)
    /\ answer # NoAnswer => \A c \in answer.changes :
          Exists(ProjectRow(c.project)) /\ \A p \in Project : c.key = ProjectRow(p) => c.project = p

ParentInv ==
    /\ TablesInv
    /\ \A e \in log : Exists(e.key)
    /\ MergeParents
    /\ QueueParents

LEMMA CommitParents ==
    ASSUME TypeOK, TypeOK', ParentInv, NEW es \in SUBSET Entry, NEW rows \in SUBSET Key,
           NEW homes \in [Memo -> Project], Orderly(Keys(es), rows, homes),
           Commit(es, rows, homes), UNCHANGED <<laptop, answer>>
    PROVE  /\ TablesInv'
           /\ \A e \in log' : Exists(e.key)'
           /\ QueueParents'
           /\ \A k \in Key : Exists(k) => Exists(k)'
           /\ \A k \in Key : Exists(ParentOf(k, home)) => Exists(ParentOf(k, home))'
<1> USE DEF ParentInv
<1>1. /\ Keys(es) \subseteq Key /\ log' = log \cup es /\ live' = rows /\ home' = homes
      /\ inbox' = inbox /\ answer' = answer /\ log \subseteq Entry
      /\ \A k \in Key : version[k] \in Nat
      BY DEF Keys, Entry, Commit, laptop, TypeOK
<1>2. ASSUME NEW k \in Key
      PROVE  Exists(k)' <=> k \in Keys(es) \/ Exists(k)
      BY <1>1 DEF Exists, Commit
<1>3. ASSUME NEW k \in Key
      PROVE  ParentOf(k, home) \in Key /\ ParentOf(k, homes) \in Key
      BY HomesTyped, RowsTyped DEF ParentOf, TypeOK
<1>4. ASSUME NEW k \in Key, k \notin Keys(es)
      PROVE  ParentOf(k, homes) = ParentOf(k, home)
  <2>1. CASE k[1] = "memo"
    <3>1. k[2] \in Memo /\ k = MemoRow(k[2])
          BY <2>1 DEF Key, MemoRow
    <3> QED
          BY <1>4, <2>1, <3>1 DEF Orderly, ParentOf, ProjectOf
  <2>2. CASE k[1] # "memo"
        BY <2>2 DEF ParentOf, ProjectOf
  <2> QED
        BY <2>1, <2>2
<1>5. ASSUME NEW k \in Key, k \in Keys(es) \/ Exists(ParentOf(k, home))
      PROVE  Exists(ParentOf(k, homes))'
      BY <1>2, <1>3, <1>4, <1>5 DEF Orderly
<1>6. \A k \in Key : Exists(ParentOf(k, home))' <=> Exists(ParentOf(k, homes))'
      BY <1>1 DEF Exists, ParentOf, ProjectOf
<1>7. TablesInv'
  <2>1. \A k \in live' : Exists(k)'
        BY <1>1, <1>2 DEF Orderly, TablesInv, TypeOK
  <2>2. \A k \in Key : Exists(k)' => Exists(ParentOf(k, home))'
        BY <1>2, <1>5, <1>6 DEF TablesInv
  <2> QED
        BY <2>1, <2>2 DEF TablesInv
<1>8. \A e \in log' : Exists(e.key)'
      BY <1>1, <1>2 DEF Keys, Entry
<1>9. QueueParents'
  <2>1. \A p \in Project : Exists(ProjectRow(p)) => Exists(ProjectRow(p))'
        BY <1>2, RowsTyped
  <2>2. inbox \subseteq Change /\ (answer # NoAnswer => answer.changes \subseteq Change)
        BY AnswerTyped DEF TypeOK
  <2>3. \A c \in Change : c.project \in Project
        BY DEF Change
  <2> QED
        BY <1>1, <2>1, <2>2, <2>3 DEF QueueParents
<1> QED
      BY <1>2, <1>5, <1>6, <1>7, <1>8, <1>9

LEMMA HandlerKeepsParents ==
    ASSUME TypeOK, TypeOK', ParentInv, NEW es, NEW rows, NEW homes, HandlerStep(es, rows, homes)
    PROVE  ParentInv'
<1> USE DEF ParentInv
<1>1. /\ es \in SUBSET Entry /\ rows \in SUBSET Key /\ homes \in [Memo -> Project]
      /\ Orderly(Keys(es), rows, homes) /\ Commit(es, rows, homes)
      /\ UNCHANGED <<laptop, answer>> /\ merge' = merge
      BY DEF HandlerStep
<1>2. /\ TablesInv' /\ (\A e \in log' : Exists(e.key)') /\ QueueParents'
      /\ \A k \in Key : Exists(k) => Exists(k)'
      /\ \A k \in Key : Exists(ParentOf(k, home)) => Exists(ParentOf(k, home))'
      BY <1>1, CommitParents
<1>3. MergeParents'
  <2> SUFFICES ASSUME NEW t \in Thread, merge[t].open
      PROVE  /\ Exists(ProjectRow(merge[t].to))'
             /\ merge[t].born \cup MemoRows(merge[t].moved) \subseteq Pending(t)
             /\ \A k \in Pending(t) : Exists(ParentOf(k, home))'
      BY <1>1 DEF MergeParents, Pending
  <2>1. merge[t] \in OpenMerge
        BY OpenTyped
  <2>2. ProjectRow(merge[t].to) \in Key /\ Pending(t) \subseteq Key
        BY <2>1, RowsTyped DEF OpenMerge, Pending, Keys, Entry
  <2>3. Exists(ProjectRow(merge[t].to))'
    <3>1. Exists(ProjectRow(merge[t].to))
          BY DEF MergeParents
    <3>2. PICK r \in Key : r = ProjectRow(merge[t].to)
          BY <2>2
    <3>3. Exists(r)'
          BY <1>2, <3>1, <3>2
    <3> QED
          BY <1>1, <3>2, <3>3
  <2> QED
        BY <1>2, <2>2, <2>3 DEF MergeParents
<1> QED
      BY <1>2, <1>3

\* Steps that leave tables and laptop alone.
LEMMA QuietKeepsParents ==
    ASSUME ParentInv, UNCHANGED <<version, live, home, log, laptop, answer>>
    PROVE  TablesInv' /\ (\A e \in log' : Exists(e.key)') /\ QueueParents'
BY DEF ParentInv, TablesInv, QueueParents, Exists, ParentOf, ProjectOf, laptop

LEMMA BeginKeepsParents ==
    ASSUME TypeOK, ParentInv, NEW t \in Thread, NEW dead \in SUBSET Key, NEW born \in SUBSET Key,
           NEW moved \in SUBSET Memo, NEW to \in Project, Begin(t, dead, born, moved, to),
           Exists(ProjectRow(to)),
           \A k \in dead \cup born \cup MemoRows(moved) : Exists(ParentOf(k, home))
    PROVE  ParentInv'
<1> DEFINE new == [open |-> TRUE, todo |-> dead \cup born \cup MemoRows(moved), wrote |-> {},
                   dead |-> dead, born |-> born, fresh |-> {k \in born : ~ Exists(k)},
                   moved |-> moved, to |-> to]
<1>1. merge' = [merge EXCEPT ![t] = new]
      BY DEF Begin
<1>2. /\ new.todo = dead \cup born \cup MemoRows(moved) /\ new.wrote = {} /\ new.born = born
      /\ new.moved = moved /\ new.to = to
      OBVIOUS
<1> HIDE DEF new
<1>3. merge'[t] = new /\ \A u \in Thread \ {t} : merge'[u] = merge[u]
      BY <1>1 DEF TypeOK
<1>4. version' = version /\ home' = home
      BY DEF Begin
<1>5. ASSUME NEW u \in Thread, merge'[u].open
      PROVE  /\ version'[ProjectRow(merge'[u].to)] > 0
             /\ merge'[u].born \cup MemoRows(merge'[u].moved)
                  \subseteq merge'[u].todo \cup Keys(merge'[u].wrote)
             /\ \A k \in merge'[u].todo \cup Keys(merge'[u].wrote) :
                   version'[ProjectRow(ProjectOf(k, home'))] > 0
  <2>1. CASE u = t
        BY <1>2, <1>3, <1>4, <2>1 DEF Keys, Exists, ParentOf
  <2>2. CASE u # t
        BY <1>3, <1>4, <1>5, <2>2 DEF ParentInv, MergeParents, Pending, Exists, ParentOf
  <2> QED
        BY <2>1, <2>2
<1>6. MergeParents'
      BY <1>5 DEF MergeParents, Pending, Exists, ParentOf, ProjectRow, ProjectOf, MemoRows, MemoRow, Keys
<1> QED
      BY <1>6, QuietKeepsParents DEF Begin, ParentInv

LEMMA MergesKeepParents ==
    ASSUME TypeOK, TypeOK', ParentInv, NEW t \in Thread, Merges(t)
    PROVE  ParentInv'
<1> USE RowsTyped, Parents
<1>0. live \subseteq Key /\ home \in [Memo -> Project]
      BY DEF TypeOK
<1>1. ASSUME NEW l \in Memo, NEW w \in Memo, MergeMemos(t, l, w)
      PROVE  ParentInv'
  <2>1. Begin(t, {MemoRow(l)}, {}, {}, home[l]) /\ MemoRow(l) \in live
        BY <1>1 DEF MergeMemos
  <2>2. {MemoRow(l)} \in SUBSET Key /\ {} \in SUBSET Key /\ {} \in SUBSET Memo /\ home[l] \in Project
        BY <1>0
  <2>3. Exists(ParentOf(MemoRow(l), home)) /\ Exists(ProjectRow(home[l]))
        BY <2>1 DEF ParentInv, TablesInv
  <2>4. MemoRows({}) = {}
        BY DEF MemoRows
  <2> QED
        BY <2>1, <2>2, <2>3, <2>4, BeginKeepsParents
<1>2. ASSUME NEW l \in Project, NEW w \in Project, MergeProjects(t, l, w)
      PROVE  ParentInv'
  <2> DEFINE leaves == live \cap {MemberRow(l)}
             joins == IF leaves = {} THEN {} ELSE {MemberRow(w)} \ live
             moved == {m \in Memo : home[m] = l /\ Exists(MemoRow(m))}
  <2>1. Begin(t, {ProjectRow(l)} \cup leaves, joins, moved, w)
        /\ ProjectRow(l) \in live /\ ProjectRow(w) \in live
        BY <1>2 DEF MergeProjects
  <2>2. {ProjectRow(l)} \cup leaves \in SUBSET Key /\ joins \in SUBSET Key /\ moved \in SUBSET Memo
        BY <1>0
  <2>3. Exists(ProjectRow(w)) /\ Exists(ProjectRow(l))
        BY <2>1 DEF ParentInv, TablesInv
  <2>4. \A k \in ({ProjectRow(l)} \cup leaves) \cup joins \cup MemoRows(moved) :
          ParentOf(k, home) \in {ProjectRow(l), ProjectRow(w)}
        BY DEF MemoRows
  <2>5. \A k \in ({ProjectRow(l)} \cup leaves) \cup joins \cup MemoRows(moved) :
          Exists(ParentOf(k, home))
        BY <2>3, <2>4
  <2> HIDE DEF leaves, joins, moved
  <2> QED
        BY <2>1, <2>2, <2>3, <2>5, BeginKeepsParents
<1>3. ASSUME NEW k \in Key, MergeWrites(t, k)
      PROVE  ParentInv'
  <2> DEFINE new == [merge[t] EXCEPT !.todo = @ \ {k},
                                     !.wrote = @ \cup {[seq |-> next, key |-> k]}]
  <2>1. merge[t] \in OpenMerge /\ merge[t].open /\ k \in merge[t].todo
        BY <1>3, OpenTyped DEF MergeWrites
  <2>2. /\ new.open /\ new.todo = merge[t].todo \ {k} /\ new.born = merge[t].born
        /\ new.wrote = merge[t].wrote \cup {[seq |-> next, key |-> k]}
        /\ new.moved = merge[t].moved /\ new.to = merge[t].to
        BY <2>1 DEF OpenMerge
  <2>3. merge' = [merge EXCEPT ![t] = new]
        BY <1>3 DEF MergeWrites
  <2> HIDE DEF new
  <2>4. merge'[t] = new /\ \A u \in Thread \ {t} : merge'[u] = merge[u]
        BY <2>3 DEF TypeOK
  <2>5. Keys(new.wrote) = Keys(merge[t].wrote) \cup {k}
    <3> DEFINE e == [seq |-> next, key |-> k]
    <3>1. e.key = k
          OBVIOUS
    <3> HIDE DEF e
    <3>2. new.wrote = merge[t].wrote \cup {e}
          BY <2>2 DEF e
    <3> QED
          BY <3>1, <3>2 DEF Keys
  <2>6. \A u \in Thread : /\ merge'[u].open = merge[u].open /\ merge'[u].born = merge[u].born
                          /\ merge'[u].moved = merge[u].moved /\ merge'[u].to = merge[u].to
                          /\ Pending(u)' = Pending(u)
    <3>1. Pending(t)' = new.todo \cup Keys(new.wrote)
          BY <2>4 DEF Pending, Keys
    <3>2. Pending(t)' = Pending(t)
          BY <2>1, <2>2, <2>5, <3>1 DEF Pending
    <3>3. \A u \in Thread \ {t} : Pending(u)' = Pending(u)
          BY <2>4 DEF Pending, Keys
    <3> QED
      <4> SUFFICES ASSUME NEW u \in Thread
          PROVE  /\ merge'[u].open = merge[u].open /\ merge'[u].born = merge[u].born
                 /\ merge'[u].moved = merge[u].moved /\ merge'[u].to = merge[u].to
                 /\ Pending(u)' = Pending(u)
          OBVIOUS
      <4>1. CASE u = t
            BY <2>1, <2>2, <2>4, <3>2, <4>1 DEF OpenMerge
      <4>2. CASE u # t
            BY <2>4, <3>3, <4>2
      <4> QED
            BY <4>1, <4>2
  <2>7. version' = version /\ home' = home
        BY <1>3 DEF MergeWrites
  <2>8. MergeParents'
        BY <2>6, <2>7 DEF ParentInv, MergeParents, Exists, ParentOf, ProjectOf
  <2> QED
        BY <1>3, <2>8, QuietKeepsParents DEF MergeWrites, ParentInv
<1>4. ASSUME MergeCommits(t)
      PROVE  ParentInv'
  <2> DEFINE rows == (live \ merge[t].dead) \cup merge[t].born
             homes == [m \in Memo |-> IF m \in merge[t].moved THEN merge[t].to ELSE home[m]]
             es == merge[t].wrote
  <2>1. merge[t] \in OpenMerge /\ Commit(es, rows, homes) /\ merge[t].todo = {} /\ merge[t].open
        BY <1>4, OpenTyped DEF MergeCommits
  <2>2. es \in SUBSET Entry /\ rows \in SUBSET Key
        BY <1>0, <2>1 DEF OpenMerge
  <2>3. homes \in [Memo -> Project]
        BY <1>0, <2>1 DEF OpenMerge
  <2>4. /\ merge[t].born \cup MemoRows(merge[t].moved) \subseteq Keys(es)
        /\ Exists(ProjectRow(merge[t].to)) /\ \A k \in Keys(es) : Exists(ParentOf(k, home))
        BY <2>1 DEF ParentInv, MergeParents, Pending
  <2>5. Orderly(Keys(es), rows, homes)
    <3>1. \A m \in Memo : homes[m] # home[m] => MemoRow(m) \in Keys(es)
          BY <2>4 DEF MemoRows
    <3>2. ASSUME NEW k \in Keys(es)
          PROVE  Exists(ParentOf(k, homes))
      <4>1. k \in Key
            BY <2>2 DEF Keys, Entry
      <4>2. CASE k[1] = "memo"
        <5>1. k[2] \in Memo
              BY <4>1, <4>2 DEF Key
        <5>2. homes[k[2]] \in {merge[t].to, home[k[2]]}
              BY <5>1
        <5> QED
              BY <2>4, <4>2, <5>2 DEF ParentOf, ProjectOf
      <4>3. CASE k[1] # "memo"
            BY <2>4, <4>3 DEF ParentOf, ProjectOf
      <4> QED
            BY <4>2, <4>3
    <3> QED
          BY <2>4, <3>1, <3>2 DEF Orderly
  <2> HIDE DEF rows, homes, es
  <2>6. /\ TablesInv' /\ (\A e \in log' : Exists(e.key)') /\ QueueParents'
        /\ \A k \in Key : Exists(k) => Exists(k)'
        /\ \A k \in Key : Exists(ParentOf(k, home)) => Exists(ParentOf(k, home))'
        BY <1>4, <2>1, <2>2, <2>3, <2>5, CommitParents DEF MergeCommits
  <2>7. merge'[t] = NoMerge /\ \A u \in Thread \ {t} : merge'[u] = merge[u]
        BY <1>4 DEF MergeCommits, TypeOK
  <2>8. ASSUME NEW u \in Thread, merge'[u].open
        PROVE  /\ Exists(ProjectRow(merge[u].to))' /\ merge'[u] = merge[u] /\ Pending(u)' = Pending(u)
               /\ merge[u].born \cup MemoRows(merge[u].moved) \subseteq Pending(u)
               /\ \A k \in Pending(u) : Exists(ParentOf(k, home))'
    <3>1. u # t /\ merge'[u] = merge[u]
          BY <2>7, <2>8 DEF NoMerge
    <3>2. merge[u] \in OpenMerge /\ merge[u].open
          BY <2>8, <3>1, OpenTyped
    <3>3. ProjectRow(merge[u].to) \in Key /\ Pending(u) \subseteq Key
          BY <3>2 DEF OpenMerge, Pending, Keys, Entry
    <3>4. PICK r \in Key : r = ProjectRow(merge[u].to)
          BY <3>3
    <3>5. Exists(r)'
          BY <2>6, <3>2, <3>4 DEF ParentInv, MergeParents
    <3>6. Exists(ProjectRow(merge[u].to))'
          BY <3>1, <3>4, <3>5
    <3>7. Pending(u)' = Pending(u)
          BY <3>1 DEF Pending, Keys
    <3> QED
          BY <2>6, <3>1, <3>2, <3>3, <3>6, <3>7 DEF ParentInv, MergeParents
  <2>9. MergeParents'
        BY <2>8 DEF MergeParents
  <2> QED
        BY <2>6, <2>9 DEF ParentInv
<1>5. ASSUME MergeAborts(t)
      PROVE  ParentInv'
  <2>1. merge'[t] = NoMerge /\ \A u \in Thread \ {t} : merge'[u] = merge[u]
        BY <1>5 DEF MergeAborts, TypeOK
  <2>2. MergeParents'
        BY <1>5, <2>1 DEF MergeAborts, NoMerge, ParentInv, MergeParents, Pending, Exists,
           ParentOf, ProjectOf, Keys
  <2> QED
        BY <1>5, <2>2, QuietKeepsParents DEF MergeAborts, ParentInv
<1> QED
      BY <1>1, <1>2, <1>3, <1>4, <1>5 DEF Merges

LEMMA LaptopKeepsParents ==
    ASSUME TypeOK, ParentInv, Baseline \/ Fetch \/ Loses \/ Apply \/ Retry
    PROVE  ParentInv'
<1> USE DEF ParentInv
<1>1. version' = version /\ live' = live /\ home' = home /\ log' = log /\ merge' = merge
      BY DEF Baseline, Fetch, Loses, Apply, Retry, server
<1>2. TablesInv' /\ (\A e \in log' : Exists(e.key)') /\ MergeParents'
      BY <1>1 DEF TablesInv, MergeParents, Pending, Keys, Exists, ParentOf, ProjectOf
<1>3. QueueParents'
  <2>1. CASE Fetch
    <3>1. PICK es \in SUBSET {e \in log : pulled < e.seq} :
            \E n \in NextSeq(es) : answer' = [next |-> n, changes |-> Selected(es)]
          BY <2>1 DEF Fetch
    <3>2. answer'.changes = Selected(es)
          BY <3>1
    <3>3. ASSUME NEW c \in Selected(es)
          PROVE  /\ Exists(ProjectRow(c.project))
                 /\ \A p \in Project : c.key = ProjectRow(p) => c.project = p
      <4>1. c.project = ProjectOf(c.key, home) /\ c.key \in Key /\ Exists(c.key)
            BY <3>1 DEF Selected, TypeOK, Entry
      <4>2. Exists(ProjectRow(c.project))
            BY <4>1 DEF TablesInv, ParentOf
      <4>3. \A p \in Project : c.key = ProjectRow(p) => c.project = p
            BY <4>1 DEF ProjectRow, ProjectOf
      <4> QED
            BY <4>2, <4>3
    <3>4. inbox' = inbox
          BY <2>1 DEF Fetch, laptop
    <3> QED
          BY <1>1, <3>2, <3>3, <3>4 DEF QueueParents, Exists
  <2>2. CASE Apply
    <3>1. answer # NoAnswer /\ answer' = NoAnswer
          /\ inbox' = inbox \cup (answer.changes \ Landing(answer.changes))
          BY <2>2 DEF Apply
    <3>2. ASSUME NEW c \in answer.changes \ Landing(answer.changes), NEW p \in Project
          PROVE  c.key # ProjectRow(p)
          BY <3>1 DEF QueueParents, Landing, HasParent
    <3> QED
          BY <1>1, <3>1, <3>2 DEF QueueParents, Exists
  <2>3. CASE Baseline \/ Loses \/ Retry
    <3>1. inbox' \subseteq inbox /\ (answer' = answer \/ answer' = NoAnswer)
          BY <2>3 DEF Baseline, Loses, Retry, laptop
    <3> QED
          BY <1>1, <3>1 DEF QueueParents, Exists
  <2> QED
        BY <2>1, <2>2, <2>3
<1> QED
      BY <1>2, <1>3

LEMMA ParentInit == Init => ParentInv
<1> SUFFICES ASSUME Init PROVE ParentInv
    OBVIOUS
<1>1. PICK ps \in SUBSET Own, ms \in SUBSET Memo :
        /\ \A m \in ms : home[m] \in ps
        /\ live = {ProjectRow(p) : p \in ps} \cup {MemberRow(p) : p \in ps} \cup MemoRows(ms)
      BY DEF Init
<1>2. live \subseteq Key /\ \A k \in Key : Exists(k) <=> k \in live
  <2>1. live \subseteq Key
        BY TypesInit DEF TypeOK
  <2>2. version = [k \in Key |-> IF k \in live THEN 1 ELSE 0]
        BY DEF Init
  <2> QED
        BY <2>1, <2>2 DEF Exists
<1>3. ASSUME NEW k \in Key, k \in live
      PROVE  Exists(ParentOf(k, home))
  <2>1. PICK p \in ps : ParentOf(k, home) = ProjectRow(p)
        BY <1>1, <1>3, Parents, FeedAssumption DEF MemoRows
  <2>2. ProjectRow(p) \in live /\ ProjectRow(p) \in Key
        BY <1>1, <2>1, RowsTyped, FeedAssumption
  <2> QED
        BY <1>2, <2>1, <2>2
<1>4. TablesInv
      BY <1>2, <1>3 DEF TablesInv
<1>5. MergeParents /\ QueueParents
      BY DEF Init, NoMerge, MergeParents, QueueParents
<1> QED
      BY <1>4, <1>5 DEF Init, ParentInv

LEMMA ParentStep == TypeOK /\ TypeOK' /\ ParentInv /\ [Next]_vars => ParentInv'
<1> SUFFICES ASSUME TypeOK, TypeOK', ParentInv, [Next]_vars PROVE ParentInv'
    OBVIOUS
<1>1. CASE Handlers
      BY <1>1, HandlersStep, HandlerKeepsParents
<1>2. CASE \E t \in Thread : Merges(t)
      BY <1>2, MergesKeepParents
<1>3. CASE Baseline \/ Fetch \/ Loses \/ Apply \/ Retry
      BY <1>3, LaptopKeepsParents
<1>4. CASE UNCHANGED vars
  <2>1. MergeParents'
        BY <1>4 DEF ParentInv, MergeParents, Pending, Keys, Exists, ParentOf, ProjectOf, vars, server
  <2> QED
        BY <1>4, <2>1, QuietKeepsParents DEF ParentInv, vars, server
<1> QED
      BY <1>1, <1>2, <1>3, <1>4 DEF Next

LEMMA WaitingExplained == FeedInv /\ ParentInv => DeferredExplained
<1> SUFFICES ASSUME FeedInv, ParentInv, NEW c \in inbox, NEW parent, parent = ProjectRow(c.project),
                    ~ HasParent(c, {}), ~ ToCome(parent), Visible(parent)
    PROVE  excuse[parent] # {}
    BY DEF DeferredExplained
<1>1. c \in Change /\ parent \in Key
      BY RowsTyped DEF FeedInv, TypeOK, Change
<1>2. copy[parent] \in Nat /\ ~ (copy[parent] > 0) /\ version[parent] > 0
      BY <1>1 DEF HasParent, FeedInv, TypeOK, ParentInv, QueueParents, Exists
<1>3. ~ PutOff(parent)
      BY <1>1 DEF PutOff, ParentInv, QueueParents, Change
<1> QED
      BY <1>1, <1>2, <1>3 DEF FeedInv, NothingSkipped, PassedBy

\* A pulled row waits for its project only while that is to come, was passed by for
\* a reason, or is hidden.
THEOREM WaitsExplained == Spec => []DeferredExplained
<1>1. FeedInv => TypeOK
      BY DEF FeedInv
<1> QED
      BY <1>1, FeedInit, FeedStep, ParentInit, ParentStep, WaitingExplained, PTL DEF Spec

================================================================================
