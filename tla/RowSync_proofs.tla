--------------------------- MODULE RowSync_proofs ---------------------------
(***************************************************************************)
(* Proofs about RowSync, for any number of memos, edits, aborts, failures   *)
(* and any batch limit and clock skew: the types, the delivery invariant    *)
(* and what follows from it, that RowSync implements Delivery, that the body *)
(* which lost a conflict is preserved, and that rows never regress.          *)
(***************************************************************************)
EXTENDS RowSync, TLAPS, FiniteSetTheorems, FunctionTheorems

\* The changes of one batch, or of one feed: finitely many, each with its number.
IsBatch(S) ==
    /\ IsFiniteSet(S)
    /\ \A c \in S : c.seq \in Int
    /\ \A c, d \in S : c.seq = d.seq => c = d

LEMMA RankType ==
    ASSUME NEW S, IsBatch(S), NEW c \in S
    PROVE  Rank(S, c) \in 1 .. Cardinality(S)
<1> DEFINE T == {d \in S : d.seq <= c.seq}
<1>1. c \in T /\ T \in SUBSET S
  BY DEF IsBatch
<1>2. IsFiniteSet(T) /\ Cardinality(T) <= Cardinality(S)
  BY <1>1, FS_Subset DEF IsBatch
<1>3. Cardinality(T) # 0
  BY <1>1, <1>2, FS_EmptySet
<1>4. Cardinality(T) \in Nat /\ Cardinality(S) \in Nat
  BY <1>2, FS_CardinalityType DEF IsBatch
<1> QED
  BY <1>2, <1>3, <1>4 DEF Rank

LEMMA RankIncreasing ==
    ASSUME NEW S, IsBatch(S), NEW c \in S, NEW d \in S, c.seq < d.seq
    PROVE  Rank(S, c) < Rank(S, d)
<1> DEFINE T(x) == {e \in S : e.seq <= x.seq}
<1>1. T(c) \in SUBSET T(d) /\ d \in T(d) /\ d \notin T(c)
  BY DEF IsBatch
<1>2. IsFiniteSet(T(d))
  BY FS_Subset, T(d) \in SUBSET S DEF IsBatch
<1> HIDE DEF T
<1>3. /\ IsFiniteSet(T(c))
      /\ Cardinality(T(c)) <= Cardinality(T(d))
      /\ Cardinality(T(d)) # Cardinality(T(c))
  BY <1>1, <1>2, FS_Subset
<1>4. Cardinality(T(c)) \in Nat /\ Cardinality(T(d)) \in Nat
  BY <1>2, <1>3, FS_CardinalityType
<1>5. Cardinality(T(c)) < Cardinality(T(d))
  BY <1>3, <1>4
<1> QED
  BY <1>5 DEF T, Rank

LEMMA RankInjective ==
    ASSUME NEW S, IsBatch(S), NEW c \in S, NEW d \in S, Rank(S, c) = Rank(S, d)
    PROVE  c = d
<1>1. c.seq < d.seq \/ d.seq < c.seq \/ c = d
  BY DEF IsBatch
<1>2. Rank(S, c) \in Int /\ Rank(S, d) \in Int
  BY RankType, FS_CardinalityType DEF IsBatch
<1> QED
  BY <1>1, <1>2, RankIncreasing

\* The ranks of a batch are exactly the numbers from 1 to its size.
LEMMA RankOnto ==
    ASSUME NEW S, IsBatch(S), NEW i \in 1 .. Cardinality(S)
    PROVE  \E c \in S : Rank(S, c) = i
<1> DEFINE n == Cardinality(S)
           f == [c \in S |-> Rank(S, c)]
<1>1. n \in Nat
  BY FS_CardinalityType DEF IsBatch
<1>2. IsFiniteSet(1 .. n) /\ Cardinality(1 .. n) = n
  BY <1>1, FS_Interval
<1>3. f \in [S -> 1 .. n]
  BY RankType
<1>4. \A c, d \in S : f[c] = f[d] => c = d
  BY RankInjective
<1> HIDE DEF n, f
<1>5. f \in Injection(S, 1 .. n)
  BY <1>3, <1>4, Fun_IsInj
<1>6. f \in Surjection(S, 1 .. n)
  BY <1>2, <1>5, FS_Injection DEF n
<1>7. PICK c \in S : f[c] = i
  BY <1>6 DEF n, Surjection
<1> QED
  BY <1>7 DEF f

-----------------------------------------------------------------------------
(* Applying changes: the databases stay well typed, the log only grows.      *)

IsDatabase(db) ==
    /\ IsTable(db.rows, Row)
    /\ db.log \in Seq(Key)
    /\ \A i \in 1 .. Len(db.log) : db.log[i] \in DOMAIN db.rows
    /\ db.ids \in Nat

IsExtension(l, old) ==
    /\ Len(old) <= Len(l)
    /\ \A i \in 1 .. Len(old) : l[i] = old[i]

LEMMA UpsertTyped ==
    ASSUME NEW S, NEW t, IsTable(t, S), NEW k \in Key, NEW row \in S
    PROVE  IsTable(Upsert(t, k, row), S)
BY DEF IsTable, Upsert

LEMMA VersionRowTyped ==
    ASSUME NEW n \in Node, NEW val \in Nat, NEW t \in Int
    PROVE  VersionRow(n, val, t) \in Row
BY ConstantsAssumption DEF VersionRow, Row, SkewOf, ConstantsAssumption

LEMMA ConcatExtends ==
    ASSUME NEW S, NEW l \in Seq(S), NEW m \in Seq(S)
    PROVE  l \o m \in Seq(S) /\ IsExtension(l \o m, l)
BY DEF IsExtension

LEMMA ApplyTyped ==
    ASSUME NEW db, IsDatabase(db), IsTable(db.seen, Row), now \in Nat, NEW side \in Node,
           NEW changes, changes \subseteq Change,
           IsBatch({c \in changes : IsMemo(c.key)})
    PROVE  LET r == ApplyChanges(db, changes, side)
           IN  IsDatabase(r) /\ IsExtension(r.log, db.log)
<1> DEFINE kept == Preserved(db, changes, side)
           Saved(k) == {c \in kept : VersionKey(db, kept, c) = k}
           Written(k) == {c \in changes : c.key = k /\ IsWritten(db, c, side)}
           Nth(i) == CHOOSE c \in kept : Rank(kept, c) = i
           added == [i \in 1 .. Cardinality(kept) |-> VersionKey(db, kept, Nth(i))]
           r == ApplyChanges(db, changes, side)
           dom == DOMAIN db.rows \cup {c.key : c \in UNION {Written(c.key) : c \in changes}}
                     \cup {VersionKey(db, kept, c) : c \in kept}
           new(k) == IF \E c \in kept : VersionKey(db, kept, c) = k
                     THEN VersionRow(Peer(side), LoserBody(db, CHOOSE c \in Saved(k) : TRUE, side), now)
                     ELSE IF Written(k) = {} THEN db.rows[k]
                     ELSE (CHOOSE c \in Written(k) : TRUE).row
<1>1. kept \subseteq {c \in changes : IsMemo(c.key)}
  BY DEF Preserved, Conflicts
<1>2. IsBatch(kept)
  BY <1>1, FS_Subset DEF IsBatch
<1>3. \A c \in kept : VersionKey(db, kept, c) \in Key
  <2> SUFFICES ASSUME NEW c \in kept PROVE VersionKey(db, kept, c) \in Key
    OBVIOUS
  <2>1. Rank(kept, c) \in Nat
    BY <1>2, RankType, FS_CardinalityType DEF IsBatch
  <2>2. c.key \in Memo \X Nat
    BY <1>1 DEF Change, Key
  <2> QED
    BY <2>1, <2>2 DEF VersionKey, Key, IsDatabase
<1>4. \A c \in kept : LoserBody(db, c, side) \in Nat
  BY <1>1 DEF Preserved, Conflicts, Exists, LoserBody, IsDatabase, IsTable, Row, Change
<1>5. Cardinality(kept) \in Nat
  BY <1>2, FS_CardinalityType DEF IsBatch
<1>6. added \in Seq(Key)
  <2>1. \A i \in 1 .. Cardinality(kept) : Nth(i) \in kept
    BY <1>2, RankOnto
  <2> QED
    BY <1>3, <1>5, <2>1
<1>7. /\ r.rows = [k \in dom |-> new(k)]
      /\ r.log = db.log \o added
      /\ r.ids = db.ids + Cardinality(kept)
  BY DEF ApplyChanges
<1> HIDE DEF r, added, kept
<1>8. IsTable(r.rows, Row)
  <2>1. dom \subseteq Key
    BY <1>3 DEF IsDatabase, IsTable, Change
  <2>2. ASSUME NEW k \in dom PROVE new(k) \in Row
    <3>1. CASE \E c \in kept : VersionKey(db, kept, c) = k
      <4>1. (CHOOSE c \in Saved(k) : TRUE) \in kept
        BY <3>1
      <4>2. Peer(side) \in Node
        BY DEF Peer, Node
      <4> QED
        BY <1>4, <3>1, <4>1, <4>2, VersionRowTyped
    <3>2. CASE ~(\E c \in kept : VersionKey(db, kept, c) = k) /\ Written(k) # {}
      <4>1. (CHOOSE c \in Written(k) : TRUE) \in changes
        BY <3>2
      <4> QED
        BY <3>2, <4>1 DEF Change
    <3>3. CASE ~(\E c \in kept : VersionKey(db, kept, c) = k) /\ Written(k) = {}
      <4>1. k \in DOMAIN db.rows
        BY <2>2, <3>3
      <4> QED
        BY <3>3, <4>1 DEF IsDatabase, IsTable
    <3> QED
      BY <3>1, <3>2, <3>3
  <2> HIDE DEF dom, new
  <2> QED
    BY <1>7, <2>1, <2>2 DEF IsTable
<1>9. r.log \in Seq(Key) /\ IsExtension(r.log, db.log)
  BY <1>6, <1>7, ConcatExtends DEF IsDatabase
<1>10. r.ids \in Nat
  BY <1>5, <1>7 DEF IsDatabase
<1>11. ASSUME NEW i \in 1 .. Len(r.log) PROVE r.log[i] \in DOMAIN r.rows
  <2>1. DOMAIN r.rows = dom
    BY <1>7
  <2>2. CASE i <= Len(db.log)
    BY <1>9, <2>1, <2>2 DEF IsDatabase, IsExtension
  <2>3. CASE i > Len(db.log)
    <3> DEFINE j == i - Len(db.log)
    <3>1. Len(r.log) = Len(db.log) + Len(added) /\ r.log[i] = added[j]
      BY <1>6, <1>7, <2>3 DEF IsDatabase
    <3>2. j \in 1 .. Cardinality(kept)
      BY <1>5, <1>6, <2>3, <3>1 DEF added, IsDatabase
    <3>3. Nth(j) \in kept
      BY <1>2, <3>2, RankOnto
    <3>4. added[j] = VersionKey(db, kept, Nth(j))
      BY <3>2 DEF added
    <3> QED
      BY <2>1, <3>1, <3>3, <3>4
  <2> QED
    BY <1>9, <2>2, <2>3 DEF IsDatabase
<1> QED
  BY <1>8, <1>9, <1>10, <1>11 DEF IsDatabase, r

-----------------------------------------------------------------------------
(* Types.  Beyond TypeOK: what is logged exists, a feed holds finitely many  *)
(* rows with distinct numbers, and what is deferred are finitely many versions. *)

TypeInv ==
    /\ TypeOK
    /\ \A n \in Node : \A i \in 1 .. Len(log[n]) : log[n][i] \in DOMAIN rows[n]
    /\ pc \in {"apply", "applying"} => IsBatch(feed.changes)
    /\ IsFiniteSet(inbox) /\ \A c \in inbox : ~IsMemo(c.key)

DatabaseTypes ==
    /\ DOMAIN rows = Node /\ log \in [Node -> Seq(Key)] /\ ids \in Nat
    /\ \A n \in Node : IsTable(rows[n], Row)
    /\ \A n \in Node : \A i \in 1 .. Len(log[n]) : log[n][i] \in DOMAIN rows[n]

LEMMA TypeInvDatabase ==
    ASSUME TypeInv
    PROVE  /\ DatabaseTypes
           /\ \A n \in Node : IsDatabase(Database(n)) /\ IsTable(Database(n).seen, Row)
BY DEF TypeInv, TypeOK, DatabaseTypes, IsDatabase, Database

LEMMA SetDatabaseTyped ==
    ASSUME DatabaseTypes, NEW n \in Node, NEW db, IsDatabase(db), SetDatabase(n, db)
    PROVE  DatabaseTypes'
BY DEF DatabaseTypes, SetDatabase, IsDatabase

\* A row of the API: the memo's new row, after its kept body if there is one.
LEMMA SaveMemoTyped ==
    ASSUME TypeInv, NEW n \in Node, NEW m \in Memo, NEW row \in Row, NEW keepBody \in BOOLEAN,
           keepBody => MemoKey(m) \in DOMAIN rows[n],
           now' \in Nat, SaveMemo(n, m, row, keepBody)
    PROVE  DatabaseTypes' /\ IsExtension(log[n]', log[n])
<1> DEFINE t == rows[n]
           v == <<m, ids + 1>>
           kept == keepBody /\ t[MemoKey(m)].val # Empty
           t1 == IF kept THEN Upsert(t, v, VersionRow(n, t[MemoKey(m)].val, now')) ELSE t
           t2 == Upsert(t1, MemoKey(m), row)
           l == log[n] \o (IF kept THEN <<v>> ELSE << >>) \o <<MemoKey(m)>>
<1>1. DatabaseTypes
  BY TypeInvDatabase
<1>2. MemoKey(m) \in Key /\ v \in Key
  BY <1>1 DEF MemoKey, Key, DatabaseTypes
<1>3. IsTable(t1, Row) /\ DOMAIN t \subseteq DOMAIN t1 /\ (kept => v \in DOMAIN t1)
  <2>1. CASE kept
    <3>1. t[MemoKey(m)].val \in Nat
      BY <1>1, <2>1 DEF DatabaseTypes, IsTable, Row
    <3>2. VersionRow(n, t[MemoKey(m)].val, now') \in Row
      BY <3>1, VersionRowTyped
    <3>3. IsTable(t, Row)
      BY <1>1 DEF DatabaseTypes
    <3>4. t1 = Upsert(t, v, VersionRow(n, t[MemoKey(m)].val, now'))
      BY <2>1
    <3> HIDE DEF t1, t, v, kept
    <3>5. IsTable(t1, Row)
      BY <1>2, <3>2, <3>3, <3>4, UpsertTyped
    <3>6. DOMAIN t1 = DOMAIN t \cup {v}
      BY <3>4 DEF Upsert
    <3> QED
      BY <3>5, <3>6
  <2>2. CASE ~kept
    BY <1>1, <2>2 DEF DatabaseTypes
  <2> QED
    BY <2>1, <2>2
<1>4. IsTable(t2, Row) /\ DOMAIN t2 = DOMAIN t1 \cup {MemoKey(m)}
  <2> HIDE DEF t1
  <2> QED
    BY <1>2, <1>3, UpsertTyped DEF Upsert
<1>5. l \in Seq(Key) /\ IsExtension(l, log[n])
  BY <1>1, <1>2 DEF DatabaseTypes, IsExtension
<1>6. ASSUME NEW i \in 1 .. Len(l) PROVE l[i] \in DOMAIN t2
  <2>1. l[i] \in {log[n][j] : j \in 1 .. Len(log[n])} \cup {MemoKey(m)} \cup {k \in {v} : kept}
    BY <1>1, <1>2 DEF DatabaseTypes
  <2>2. {log[n][j] : j \in 1 .. Len(log[n])} \subseteq DOMAIN t
    BY <1>1 DEF DatabaseTypes
  <2> HIDE DEF t1, t2, t, l, v, kept
  <2> QED
    BY <1>3, <1>4, <2>1, <2>2
<1>7. /\ rows' = [rows EXCEPT ![n] = t2]
      /\ log' = [log EXCEPT ![n] = l]
      /\ ids' = IF kept THEN ids + 1 ELSE ids
  BY DEF SaveMemo
<1> HIDE DEF t2, l, kept
<1>8. rows'[n] = t2 /\ log'[n] = l /\ log' \in [Node -> Seq(Key)] /\ DOMAIN rows' = Node
  BY <1>1, <1>5, <1>7 DEF DatabaseTypes
<1>9. \A o \in Node \ {n} : rows'[o] = rows[o] /\ log'[o] = log[o]
  BY <1>1, <1>7 DEF DatabaseTypes
<1>10. ids' \in Nat
  BY <1>1, <1>7 DEF DatabaseTypes
<1>11. \A o \in Node : IsTable(rows'[o], Row)
  BY <1>1, <1>4, <1>8, <1>9 DEF DatabaseTypes
<1>12. \A o \in Node : \A i \in 1 .. Len(log'[o]) : log'[o][i] \in DOMAIN rows'[o]
  BY <1>1, <1>6, <1>8, <1>9 DEF DatabaseTypes
<1> QED
  BY <1>5, <1>8, <1>10, <1>11, <1>12 DEF DatabaseTypes

LEMMA DatabaseTypesUnchanged ==
    ASSUME TypeInv, UNCHANGED database
    PROVE  DatabaseTypes'
BY TypeInvDatabase DEF database, DatabaseTypes

LEMMA ScanEndType ==
    ASSUME NEW l \in Seq(Key), NEW since \in Nat
    PROVE  /\ ScanEnd(l, since) \in Nat /\ ScanEnd(l, since) <= Len(l)
           /\ since <= Len(l) => since <= ScanEnd(l, since)
BY ConstantsAssumption DEF ConstantsAssumption, ScanEnd

LEMMA ScannedFinite ==
    ASSUME NEW l \in Seq(Key), NEW since \in Nat
    PROVE  IsFiniteSet(Scanned(l, since)) /\ Scanned(l, since) \subseteq 1 .. Len(l)
<1>1. Scanned(l, since) \in SUBSET (since + 1 .. ScanEnd(l, since))
  BY DEF Scanned
<1>2. IsFiniteSet(since + 1 .. ScanEnd(l, since))
  BY ScanEndType, FS_Interval
<1>3. IsFiniteSet(Scanned(l, since))
  BY <1>1, <1>2, FS_Subset
<1>4. Len(l) \in Nat /\ ScanEnd(l, since) \in Nat /\ ScanEnd(l, since) <= Len(l)
  BY ScanEndType
<1>5. \A s \in Scanned(l, since) : s \in since + 1 .. ScanEnd(l, since)
  BY <1>1
<1>6. Scanned(l, since) \subseteq 1 .. Len(l)
  BY <1>4, <1>5
<1> QED
  BY <1>3, <1>6

\* How many rows bootstrap copied.
LEMMA BootstrapType == Cardinality(Bootstrapped) \in Nat
BY ConstantsAssumption, FS_CardinalityType DEF ConstantsAssumption

LEMMA BootstrapLog == Init => Len(log["client"]) = Cardinality(Bootstrapped)
<1> SUFFICES ASSUME Init PROVE Len(log["client"]) = Cardinality(Bootstrapped)
  OBVIOUS
<1> DEFINE S == {MemoKey(m) : m \in Bootstrapped}
<1>1. PICK l \in [1 .. Cardinality(Bootstrapped) -> S] :
          log = [n \in Node |-> IF n = "client" THEN l ELSE << >>]
  BY DEF Init
<1>2. log["client"] = l
  BY <1>1 DEF Node
<1> HIDE DEF S
<1>3. l \in Seq(S) /\ Len(l) = Cardinality(Bootstrapped)
  BY <1>1, BootstrapType
<1> QED
  BY <1>2, <1>3

LEMMA TypeInit == Init => TypeInv
<1> SUFFICES ASSUME Init PROVE TypeInv
  OBVIOUS
<1>1. Cardinality(Bootstrapped) \in Nat
  BY BootstrapType
<1>2. IsFiniteSet({})
  BY FS_EmptySet
<1> DEFINE S == {MemoKey(m) : m \in Bootstrapped}
<1>3. S \subseteq Key
  BY ConstantsAssumption DEF ConstantsAssumption, Key, MemoKey
<1>4. PICK l \in [1 .. Cardinality(Bootstrapped) -> S] :
          log = [n \in Node |-> IF n = "client" THEN l ELSE << >>]
  BY DEF Init
<1>5. l \in Seq(Key) /\ Len(l) = Cardinality(Bootstrapped)
  BY <1>1, <1>3, <1>4
<1>6. log \in [Node -> Seq(Key)]
  BY <1>4, <1>5
<1>7. \A n \in Node : DOMAIN rows[n] = S /\ IsTable(rows[n], Row)
  BY <1>3, ConstantsAssumption DEF ConstantsAssumption, Init, IsTable, Row, Node, Empty
<1>8. \A n \in Node : \A i \in 1 .. Len(log[n]) : log[n][i] \in DOMAIN rows[n]
  BY <1>4, <1>5, <1>7
<1>9. IsTable(base, Base)
  BY DEF Init, IsTable
<1>10. DOMAIN rows = Node
  BY DEF Init
<1>11. IsTable(view, Row)
  BY DEF Init, IsTable, NoRows
<1> QED
  BY <1>1, <1>2, <1>6, <1>7, <1>8, <1>9, <1>10, <1>11 DEF Init, TypeInv, TypeOK

\* Every write of the API saves one memo's row, later than the row it edits.
LEMMA WriteSaves ==
    ASSUME TypeInv, NEW n \in Node, Write(n)
    PROVE  /\ now' \in Nat /\ edits' \in Nat /\ now <= now'
           /\ UNCHANGED <<disk, receipts, pc, todo, wire, aborts, failures, applies>>
           /\ \E m \in Memo, row \in Row, keepBody \in BOOLEAN :
                /\ SaveMemo(n, m, row, keepBody)
                /\ keepBody => MemoKey(m) \in DOMAIN rows[n]
                /\ row.clk = now' + SkewOf(n) /\ row.by = n
                /\ IF MemoKey(m) \in DOMAIN rows[n] THEN WriteAfter(rows[n][MemoKey(m)])
                   ELSE \A o \in Node : MemoKey(m) \notin DOMAIN rows[o]
<1>1. PICK m \in Memo : CreateMemo(n, m) \/ UpdateMemo(n, m) \/ DeleteMemo(n, m)
  BY DEF Write
<1>2. WriteTime
  BY <1>1 DEF CreateMemo, UpdateMemo, DeleteMemo, WriteAfter
<1>3. now' \in Nat /\ now <= now' /\ edits' \in Nat /\ edits + 1 \in Nat
  BY <1>2, ConstantsAssumption DEF WriteTime, ConstantsAssumption, TypeInv, TypeOK
<1>4. now' + SkewOf(n) \in Int
  BY <1>3, ConstantsAssumption DEF SkewOf, ConstantsAssumption
<1> DEFINE Saves(row, keepBody) ==
             /\ SaveMemo(n, m, row, keepBody)
             /\ keepBody => MemoKey(m) \in DOMAIN rows[n]
             /\ row.clk = now' + SkewOf(n) /\ row.by = n
             /\ IF MemoKey(m) \in DOMAIN rows[n] THEN WriteAfter(rows[n][MemoKey(m)])
                ELSE \A o \in Node : MemoKey(m) \notin DOMAIN rows[o]
<1>5. \E row \in Row, keepBody \in BOOLEAN : Saves(row, keepBody)
  <2>1. CASE CreateMemo(n, m)
    <3> DEFINE row == [val |-> Empty, clk |-> now' + SkewOf(n), del |-> FALSE, by |-> n]
    <3>1. row \in Row
      BY <1>4 DEF Row, Empty
    <3>2. Saves(row, FALSE)
      BY <2>1 DEF CreateMemo
    <3> QED
      BY <3>1, <3>2
  <2>2. CASE UpdateMemo(n, m)
    <3> DEFINE row == [val |-> edits + 1, clk |-> now' + SkewOf(n), del |-> FALSE, by |-> n]
    <3>1. row \in Row
      BY <1>3, <1>4 DEF Row
    <3>2. Saves(row, TRUE)
      BY <2>2 DEF UpdateMemo, Live
    <3> QED
      BY <3>1, <3>2
  <2>3. CASE DeleteMemo(n, m)
    <3> DEFINE row == [val |-> rows[n][MemoKey(m)].val, clk |-> now' + SkewOf(n),
                       del |-> TRUE, by |-> n]
    <3>1. row \in Row
      BY <1>4, <2>3 DEF DeleteMemo, Live, Row, TypeInv, TypeOK, IsTable
    <3>2. Saves(row, FALSE)
      BY <2>3 DEF DeleteMemo, Live
    <3> QED
      BY <3>1, <3>2
  <2> QED
    BY <1>1, <2>1, <2>2, <2>3
<1>6. UNCHANGED <<disk, receipts, pc, todo, wire, aborts, failures, applies>>
  BY <1>1 DEF CreateMemo, UpdateMemo, DeleteMemo
<1> QED
  BY <1>3, <1>5, <1>6

LEMMA TypeWrite ==
    ASSUME TypeInv, NEW n \in Node, Write(n)
    PROVE  TypeInv' /\ IsExtension(log'["client"], log["client"])
<1>1. now' \in Nat /\ edits' \in Nat
  BY WriteSaves
<1>2. PICK m \in Memo, row \in Row, keepBody \in BOOLEAN :
          /\ SaveMemo(n, m, row, keepBody)
          /\ keepBody => MemoKey(m) \in DOMAIN rows[n]
  BY WriteSaves
<1>3. DatabaseTypes' /\ IsExtension(log[n]', log[n])
  BY <1>1, <1>2, SaveMemoTyped
<1>4. UNCHANGED <<disk, receipts, pc, todo, wire, aborts, failures, applies>>
  BY WriteSaves
<1>5. IsExtension(log'["client"], log["client"])
  <2>1. CASE n = "client"
    BY <1>3, <2>1
  <2>2. CASE n # "client"
    <3>1. log'["client"] = log["client"]
      BY <1>2, <2>2 DEF SaveMemo, TypeInv, TypeOK, Node
    <3> QED
      BY <3>1 DEF IsExtension, TypeInv, TypeOK, Node
  <2> QED
    BY <2>1, <2>2
<1> QED
  BY <1>1, <1>3, <1>4, <1>5 DEF TypeInv, TypeOK, DatabaseTypes, disk, wire

LEMMA BaseOfType ==
    ASSUME TypeInv, NEW k
    PROVE  BaseOf(k) \in Base
BY DEF TypeInv, TypeOK, IsTable, BaseOf, NoBase, Base

LEMMA TypeCollect ==
    ASSUME TypeInv, Collect
    PROVE  TypeInv'
<1> DEFINE l == log["client"]
           seqs == Scanned(l, pushed)
           Snapshot(s) == [seq |-> s, key |-> l[s], row |-> rows["client"][l[s]],
                           base |-> BaseOf(l[s])]
<1>1. l \in Seq(Key) /\ pushed \in Nat
  BY DEF TypeInv, TypeOK, Node
<1>2. seqs \subseteq 1 .. Len(l) /\ ScanEnd(l, pushed) \in Nat
  BY <1>1, ScannedFinite, ScanEndType
<1>3. \A s \in seqs : Snapshot(s) \in Change
  <2> SUFFICES ASSUME NEW s \in seqs PROVE Snapshot(s) \in Change
    OBVIOUS
  <2>1. s \in Nat \ {0} /\ l[s] \in Key
    BY <1>1, <1>2
  <2>2. rows["client"][l[s]] \in Row
    BY <1>2 DEF TypeInv, TypeOK, IsTable, Node
  <2>3. BaseOf(l[s]) \in Base
    BY BaseOfType
  <2> QED
    BY <2>1, <2>2, <2>3 DEF Change
<1>4. /\ outbox' = outbox \cup {Snapshot(s) : s \in seqs}
      /\ pushed' = ScanEnd(l, pushed)
      /\ pc' \in {"collected", "collect"}
      /\ UNCHANGED <<database, now, edits, pulled, dead, inbox, pulldead, base, receipts,
                     todo, wire, aborts, failures, applies>>
  BY DEF Collect
<1>5. outbox' \subseteq Change
  BY <1>3, <1>4 DEF TypeInv, TypeOK
<1> HIDE DEF seqs, l
<1> QED
  BY <1>2, <1>4, <1>5 DEF TypeInv, TypeOK, database, wire

LEMMA NoRowsTyped == IsTable(NoRows, Row)
BY DEF IsTable, NoRows

\* The steps of the daemon that only move between its phases, or read the queue.
LEMMA TypeControl ==
    ASSUME TypeInv,
           \/ StartCycle \/ SendPush \/ RetryDone \/ StartPush \/ PushDone
           \/ PullReads \/ InboxEmpty \/ AbortCycle
    PROVE  TypeInv'
<1>1. QueueHead \subseteq Nat
  BY DEF QueueHead, TypeInv, TypeOK, Change
<1>2. CASE StartCycle
  BY <1>1, <1>2 DEF StartCycle, TypeInv, TypeOK, database, disk, wire
<1>3. CASE SendPush
  BY <1>3 DEF SendPush, TypeInv, TypeOK, database, disk
<1>4. CASE RetryDone
  BY <1>4 DEF RetryDone, TypeInv, TypeOK, database, disk, wire
<1>5. CASE StartPush
  BY <1>1, <1>5 DEF StartPush, TypeInv, TypeOK, database, disk, wire
<1>6. CASE PushDone
  BY <1>6 DEF PushDone, TypeInv, TypeOK, database, disk, wire
<1>7. CASE AbortCycle
  BY <1>7, NoRowsTyped DEF AbortCycle, TypeInv, TypeOK, database, disk
<1>8. CASE PullReads
  <2>1. IsTable(view', Row)
    BY <1>8 DEF PullReads, TypeInv, TypeOK, Node
  <2> QED
    BY <1>8, <2>1 DEF PullReads, TypeInv, TypeOK, database, disk
<1>9. CASE InboxEmpty
  BY <1>9 DEF InboxEmpty, TypeInv, TypeOK, database, disk, wire
<1> QED
  BY <1>2, <1>3, <1>4, <1>5, <1>6, <1>7, <1>8, <1>9

LEMMA TypeHandleReply ==
    ASSUME TypeInv, HandleReply
    PROVE  TypeInv'
<1>1. reply \in Reply
  BY DEF HandleReply, TypeInv, TypeOK
<1>2. outbox' \subseteq outbox /\ dead' \subseteq dead \cup outbox
  BY DEF HandleReply
<1>3. IsTable(base', Base)
  <2>1. CASE base' = base
    BY <2>1 DEF TypeInv, TypeOK
  <2>2. CASE \E c \in outbox : Remember(c.key, reply.clk, 0)
    <3>1. PICK c \in outbox : Remember(c.key, reply.clk, 0)
      BY <2>2
    <3>2. c.key \in Key
      BY DEF TypeInv, TypeOK, Change
    <3> DEFINE b == [clk |-> reply.clk, seq |-> Greatest(0, BaseOf(c.key).seq)]
    <3>3. b \in Base
      BY <1>1, BaseOfType DEF Base, Reply, Greatest
    <3>4. IsTable(base, Base)
      BY DEF TypeInv, TypeOK
    <3> HIDE DEF b
    <3>5. base' = Upsert(base, c.key, b)
      BY <3>1 DEF Remember, b
    <3> QED
      BY <3>2, <3>3, <3>4, <3>5, UpsertTyped
  <2> QED
    BY <2>1, <2>2 DEF HandleReply
<1>4. todo' \subseteq Nat /\ pc' \in {pc, "idle"} /\ reply' = NoMsg
  BY DEF HandleReply, TypeInv, TypeOK
<1>5. UNCHANGED <<database, now, edits, pushed, pulled, inbox, pulldead, receipts,
                  request, stale, feed, view, aborts, failures, applies>>
  BY DEF HandleReply
<1> QED
  BY <1>2, <1>3, <1>4, <1>5 DEF TypeInv, TypeOK, database

\* One change is a batch.
LEMMA SingleBatch ==
    ASSUME NEW c \in Change
    PROVE  IsBatch({d \in {c} : IsMemo(d.key)})
<1>1. IsFiniteSet({c})
  BY FS_Singleton
<1>2. IsFiniteSet({d \in {c} : IsMemo(d.key)})
  BY <1>1, FS_Subset
<1> QED
  BY <1>2 DEF IsBatch, Change

\* What the server does with a request touches the laptop's database nowhere.
LEMMA TypeServer ==
    ASSUME TypeInv, NEW c \in Change, NEW heard \in BOOLEAN, ServerHandles(c, heard)
    PROVE  /\ DatabaseTypes' /\ log'["client"] = log["client"]
           /\ \A r \in receipts' : r \in Receipt
           /\ reply' = NoMsg \/ reply' \in Reply
           /\ failures' \in Nat /\ applies' \in Nat
<1>1. DatabaseTypes
  BY TypeInvDatabase
<1>2. CASE ServerRefuses(c, heard)
  <2>1. Refusal(c) \in Reply
    BY DEF Refusal, Reply, Change
  <2> QED
    BY <1>2, <2>1, DatabaseTypesUnchanged
    DEF ServerRefuses, Respond, TypeInv, TypeOK, database
<1>3. \A r \in Receipt : Answer(r) \in Reply
  BY DEF Answer, Reply, Receipt
<1>4. CASE ServerReplays(c, heard)
  <2>1. reply' = reply \/ \E r \in receipts : reply' = Answer(r)
    BY <1>4 DEF ServerReplays, ReceiptOf, Respond
  <2> QED
    BY <1>3, <1>4, <2>1, DatabaseTypesUnchanged DEF ServerReplays, TypeInv, TypeOK, database
<1>5. ASSUME NEW r \in Receipt, StoreReceipt(r, heard)
      PROVE  /\ \A q \in receipts' : q \in Receipt
             /\ reply' = NoMsg \/ reply' \in Reply
             /\ applies' \in Nat
  BY <1>3, <1>5 DEF StoreReceipt, Respond, TypeInv, TypeOK
<1>6. CASE ServerApplies(c, heard)
  <2> DEFINE db == Database("server")
             r == [seq |-> c.seq, change |-> c,
                   status |-> IF IsWritten(db, c, "client") THEN "applied" ELSE "skipped",
                   clk |-> EffectiveClock(db, c, "client")]
  <2>1. IsDatabase(db) /\ IsTable(db.seen, Row)
    BY TypeInvDatabase DEF Node
  <2>2. IsDatabase(ApplyChanges(db, {c}, "client"))
    <3>1. now \in Nat /\ "client" \in Node /\ {c} \subseteq Change
      BY DEF TypeInv, TypeOK, Node
    <3> QED
      BY <2>1, <3>1, SingleBatch, ApplyTyped
  <2>3. SetDatabase("server", ApplyChanges(db, {c}, "client"))
    BY <1>6 DEF ServerApplies
  <2>4. DatabaseTypes'
    BY <1>1, <2>2, <2>3, SetDatabaseTyped DEF Node
  <2>5. log'["client"] = log["client"]
    BY <1>1, <2>3 DEF SetDatabase, DatabaseTypes, Node
  <2>6. EffectiveClock(db, c, "client") \in Int
    BY <2>1 DEF EffectiveClock, IsWritten, Exists, IsDatabase, IsTable, Row, Change
  <2>7. r \in Receipt
    BY <2>6 DEF Receipt, Status, Change
  <2> QED
    BY <1>5, <1>6, <2>4, <2>5, <2>7 DEF ServerApplies, TypeInv, TypeOK
<1>7. CASE ServerRowFails(c, heard)
  <2> DEFINE r == [seq |-> c.seq, change |-> c, status |-> "rejected", clk |-> 0]
  <2>1. r \in Receipt
    BY DEF Receipt, Status, Change
  <2>2. StoreReceipt(r, heard) /\ UNCHANGED database /\ failures' = failures + 1
    BY <1>7 DEF ServerRowFails
  <2> HIDE DEF r
  <2>3. DatabaseTypes'
    BY <2>2, DatabaseTypesUnchanged
  <2> QED
    BY <1>5, <2>1, <2>2, <2>3 DEF TypeInv, TypeOK, database
<1> QED
  BY <1>2, <1>4, <1>6, <1>7 DEF ServerHandles

LEMMA TypeServerPush ==
    ASSUME TypeInv, ServerPush \/ ServerPushLate
    PROVE  TypeInv' /\ log'["client"] = log["client"]
<1>1. PICK c \in Change, heard \in BOOLEAN : ServerHandles(c, heard)
  BY DEF ServerPush, ServerPushLate, TypeInv, TypeOK
<1>2. /\ DatabaseTypes' /\ log'["client"] = log["client"]
      /\ \A r \in receipts' : r \in Receipt
      /\ reply' = NoMsg \/ reply' \in Reply
      /\ failures' \in Nat /\ applies' \in Nat
  BY <1>1, TypeServer
<1>3. /\ stale' \subseteq stale /\ request' \in {NoMsg, request}
      /\ UNCHANGED <<now, edits, disk, pc, todo, feed, view, aborts>>
  BY DEF ServerPush, ServerPushLate
<1> QED
  BY <1>2, <1>3 DEF TypeInv, TypeOK, DatabaseTypes, disk

-----------------------------------------------------------------------------
(* The types of the pull.                                                    *)

\* The rows applied of a pulled batch are changes again, with the bases they had.
LEMMA BasedBatch ==
    ASSUME TypeInv, NEW changes, changes \subseteq FeedChange,
           IsBatch({c \in changes : IsMemo(c.key)}), NEW good \in SUBSET changes
    PROVE  LET batch == {[seq |-> c.seq, key |-> c.key, row |-> c.row, base |-> BaseOf(c.key)]
                            : c \in good}
           IN  batch \subseteq Change /\ IsBatch({c \in batch : IsMemo(c.key)})
<1> DEFINE Based(c) == [seq |-> c.seq, key |-> c.key, row |-> c.row, base |-> BaseOf(c.key)]
           batch == {Based(c) : c \in good}
           memos == {c \in changes : IsMemo(c.key)}
           S == {c \in batch : IsMemo(c.key)}
           f == [c \in S |-> c.seq]
           T == {c.seq : c \in memos}
<1>1. batch \subseteq Change
  BY BaseOfType DEF FeedChange, Change
<1>2. \A c, d \in S : c.seq = d.seq => c = d
  BY DEF IsBatch
<1>3. IsFiniteSet(T)
  <2> DEFINE g == [c \in memos |-> c.seq]
  <2>1. g \in Surjection(memos, T)
    BY Fun_IsSurj
  <2> QED
    BY <2>1, FS_Surjection DEF IsBatch
<1>4. f \in Injection(S, T)
  <2>1. \A d \in S : d.seq \in T
    OBVIOUS
  <2>2. f \in [S -> T] /\ \A c, d \in S : f[c] = f[d] => c = d
    BY <1>2, <2>1
  <2> QED
    BY <2>2, Fun_IsInj
<1>5. IsFiniteSet(S)
  BY <1>3, <1>4, FS_Injection
<1>6. IsBatch(S)
  BY <1>1, <1>2, <1>5 DEF IsBatch, Change
<1> HIDE DEF S
<1> QED
  BY <1>1, <1>6 DEF S

LEMMA TypeApplyPulled ==
    ASSUME TypeInv, NEW changes, changes \subseteq FeedChange,
           IsFiniteSet(changes), IsBatch({c \in changes : IsMemo(c.key)}),
           ApplyPulled(changes)
    PROVE  /\ failures' \in Nat
           /\ DatabaseTypes' /\ IsExtension(log'["client"], log["client"])
           /\ IsTable(base', Base)
           /\ inbox' \subseteq FeedChange /\ pulldead' \subseteq FeedChange
           /\ IsFiniteSet(inbox') /\ \A c \in inbox' : ~IsMemo(c.key)
<1> DEFINE Based(c) == [seq |-> c.seq, key |-> c.key, row |-> c.row, base |-> BaseOf(c.key)]
           Remainder(failed) == (changes \ failed) \ Orphans(changes \ failed)
           Seen(good, k) == {c \in good : c.key = k}
<1>1. PICK failed \in SUBSET changes :
        /\ failures' = failures + Cardinality(failed)
        /\ SetDatabase("client", ApplyChanges(Database("client"),
                                     {Based(c) : c \in Remainder(failed)}, "server"))
        /\ base' = [k \in DOMAIN base \cup {c.key : c \in Remainder(failed)} |->
                      IF Seen(Remainder(failed), k) = {} THEN base[k]
                      ELSE LET c == CHOOSE c \in Seen(Remainder(failed), k) : TRUE
                           IN  [clk |-> c.row.clk, seq |-> Greatest(c.seq, BaseOf(k).seq)]]
        /\ inbox' = (inbox \ changes) \cup Orphans(changes \ failed)
        /\ pulldead' = pulldead \cup failed
  BY DEF ApplyPulled
<1> DEFINE good == Remainder(failed)
           batch == {Based(c) : c \in good}
           memos == {c \in changes : IsMemo(c.key)}
<1>2. good \subseteq changes /\ good \subseteq FeedChange
  OBVIOUS
<1>3. batch \subseteq Change /\ IsBatch({c \in batch : IsMemo(c.key)})
  BY BasedBatch
<1> DEFINE db == ApplyChanges(Database("client"), batch, "server")
<1>4. IsDatabase(db) /\ IsExtension(db.log, log["client"])
  <2>1. /\ now \in Nat /\ "server" \in Node
        /\ IsDatabase(Database("client")) /\ IsTable(Database("client").seen, Row)
    BY TypeInvDatabase DEF TypeInv, TypeOK, Node
  <2>2. Database("client").log = log["client"]
    BY DEF Database
  <2> HIDE DEF batch
  <2> QED
    BY <1>3, <2>1, <2>2, ApplyTyped
<1>5. SetDatabase("client", db) /\ DatabaseTypes
  BY <1>1, TypeInvDatabase
<1>6. DatabaseTypes' /\ log'["client"] = db.log
  <2> HIDE DEF db
  <2> QED
    BY <1>4, <1>5, SetDatabaseTyped DEF SetDatabase, DatabaseTypes, Node
<1>7. IsTable(base', Base)
  <2> DEFINE dom == DOMAIN base \cup {c.key : c \in good}
             val(k) == IF Seen(good, k) = {} THEN base[k]
                       ELSE LET c == CHOOSE c \in Seen(good, k) : TRUE
                            IN  [clk |-> c.row.clk, seq |-> Greatest(c.seq, BaseOf(k).seq)]
  <2>1. IsTable(base, Base)
    BY DEF TypeInv, TypeOK
  <2>2. dom \subseteq Key
    BY <1>2, <2>1 DEF IsTable, FeedChange
  <2>3. ASSUME NEW k \in dom PROVE val(k) \in Base
    <3>1. CASE Seen(good, k) = {}
      BY <2>1, <2>3, <3>1 DEF IsTable
    <3>2. CASE Seen(good, k) # {}
      <4>1. PICK c \in FeedChange : c = CHOOSE d \in Seen(good, k) : TRUE
        BY <1>2, <3>2
      <4>2. c.row.clk \in Int /\ c.seq \in Int /\ BaseOf(k).seq \in Int
        BY BaseOfType DEF FeedChange, Row, Base
      <4> QED
        BY <3>2, <4>1, <4>2 DEF Base, Greatest
    <3> QED
      BY <3>1, <3>2
  <2>4. base' = [k \in dom |-> val(k)]
    BY <1>1
  <2> HIDE DEF dom, val
  <2> QED
    BY <2>2, <2>3, <2>4 DEF IsTable
<1>8. inbox' \subseteq FeedChange /\ pulldead' \subseteq FeedChange
  BY <1>1 DEF TypeInv, TypeOK, Orphans
<1>9. \A c \in inbox' : ~IsMemo(c.key)
  BY <1>1 DEF TypeInv, Orphans
<1>10. IsFiniteSet(inbox')
  <2> DEFINE rest == inbox \ changes
             orphans == Orphans(changes \ failed)
  <2>1. orphans \in SUBSET changes /\ rest \in SUBSET inbox
    BY DEF Orphans
  <2>2. IsFiniteSet(orphans) /\ IsFiniteSet(rest)
    BY <2>1, FS_Subset DEF TypeInv
  <2> HIDE DEF rest, orphans
  <2>3. IsFiniteSet(rest \cup orphans)
    BY <2>2, FS_Union
  <2> QED
    BY <1>1, <2>3 DEF rest, orphans
<1>11. failures' \in Nat
  <2>1. Cardinality(failed) \in Nat
    BY FS_Subset, FS_CardinalityType
  <2> QED
    BY <1>1, <2>1 DEF TypeInv, TypeOK
<1> QED
  BY <1>4, <1>6, <1>7, <1>8, <1>9, <1>10, <1>11

LEMMA TypePullRetry ==
    ASSUME TypeInv, PullRetry
    PROVE  TypeInv' /\ IsExtension(log'["client"], log["client"])
<1>1. InboxHead \subseteq FeedChange /\ InboxHead \in SUBSET inbox
  BY DEF InboxHead, TypeInv, TypeOK
<1>2. {c \in InboxHead : IsMemo(c.key)} = {}
  BY DEF InboxHead, TypeInv
<1>3. IsBatch({c \in InboxHead : IsMemo(c.key)})
  BY <1>2, FS_EmptySet DEF IsBatch
<1>4. IsFiniteSet(InboxHead)
  BY <1>1, FS_Subset DEF TypeInv
<1>5. /\ failures' \in Nat
      /\ DatabaseTypes' /\ IsExtension(log'["client"], log["client"])
      /\ IsTable(base', Base)
      /\ inbox' \subseteq FeedChange /\ pulldead' \subseteq FeedChange
      /\ IsFiniteSet(inbox') /\ \A c \in inbox' : ~IsMemo(c.key)
  BY <1>1, <1>3, <1>4, TypeApplyPulled DEF PullRetry
<1> QED
  BY <1>5, NoRowsTyped DEF PullRetry, TypeInv, TypeOK, DatabaseTypes

LEMMA TypePullRequest ==
    ASSUME TypeInv, PullRequest
    PROVE  TypeInv'
<1> DEFINE l == log["server"]
           seqs == Scanned(l, pulled)
           Current(s) == [seq |-> s, key |-> l[s], row |-> rows["server"][l[s]]]
           msg == [next |-> ScanEnd(l, pulled), max |-> Len(l),
                   changes |-> {Current(s) : s \in seqs}]
<1>1. l \in Seq(Key) /\ pulled \in Nat /\ Len(l) \in Nat
  BY DEF TypeInv, TypeOK, Node
<1>2. seqs \subseteq 1 .. Len(l) /\ IsFiniteSet(seqs) /\ ScanEnd(l, pulled) \in Nat
  BY <1>1, ScannedFinite, ScanEndType
<1>3. \A s \in seqs : Current(s) \in FeedChange
  <2> SUFFICES ASSUME NEW s \in seqs PROVE Current(s) \in FeedChange
    OBVIOUS
  <2>1. s \in Nat \ {0} /\ l[s] \in Key
    BY <1>1, <1>2
  <2>2. rows["server"][l[s]] \in Row
    BY <1>2 DEF TypeInv, TypeOK, IsTable, Node
  <2> QED
    BY <2>1, <2>2 DEF FeedChange
<1>4. msg \in FeedMsg
  BY <1>1, <1>2, <1>3 DEF FeedMsg
<1>5. IsBatch(msg.changes)
  <2> DEFINE S == {Current(s) : s \in seqs}
             f == [c \in S |-> c.seq]
  <2>1. \A c, d \in S : c.seq = d.seq => c = d
    OBVIOUS
  <2>2. f \in [S -> seqs] /\ \A c, d \in S : f[c] = f[d] => c = d
    BY <2>1
  <2>3. f \in Injection(S, seqs)
    BY <2>2, Fun_IsInj
  <2>4. IsFiniteSet(S)
    BY <1>2, <2>3, FS_Injection
  <2>5. \A c \in S : c.seq \in Int
    BY <1>3 DEF FeedChange
  <2> QED
    BY <2>1, <2>4, <2>5 DEF IsBatch
<1> HIDE DEF msg
<1>6. CASE pc' = "idle" /\ UNCHANGED feed
  BY <1>6 DEF PullRequest, TypeInv, TypeOK, database, disk
<1>7. CASE pc' = "apply" /\ feed' = msg
  BY <1>4, <1>5, <1>7 DEF PullRequest, TypeInv, TypeOK, database, disk
<1> QED
  BY <1>6, <1>7 DEF PullRequest, msg

LEMMA TypePullApply ==
    ASSUME TypeInv, PullApply
    PROVE  TypeInv' /\ IsExtension(log'["client"], log["client"])
<1>1. feed \in FeedMsg /\ IsBatch(feed.changes)
  BY DEF PullApply, TypeInv, TypeOK
<1>2. feed.changes \subseteq FeedChange /\ IsFiniteSet(feed.changes)
  BY <1>1 DEF FeedMsg, IsBatch
<1>3. IsBatch({c \in feed.changes : IsMemo(c.key)})
  BY <1>1, FS_Subset DEF IsBatch
<1>4. /\ failures' \in Nat
      /\ DatabaseTypes' /\ IsExtension(log'["client"], log["client"])
      /\ IsTable(base', Base)
      /\ inbox' \subseteq FeedChange /\ pulldead' \subseteq FeedChange
      /\ IsFiniteSet(inbox') /\ \A c \in inbox' : ~IsMemo(c.key)
  BY <1>2, <1>3, TypeApplyPulled DEF PullApply
<1>5. pulled' \in Nat /\ feed' = NoMsg /\ view' = NoRows /\ pc' \in {"idle", "pull"}
  BY <1>1 DEF PullApply, FeedMsg
<1> QED
  BY <1>4, <1>5, NoRowsTyped DEF PullApply, TypeInv, TypeOK, DatabaseTypes

LEMMA SameIsExtension ==
    ASSUME NEW l \in Seq(Key)
    PROVE  IsExtension(l, l)
BY DEF IsExtension

\* Every step keeps the types and only appends to the laptop's change log.
LEMMA TypeStep ==
    ASSUME TypeInv, [Next]_vars
    PROVE  TypeInv' /\ IsExtension(log'["client"], log["client"])
<1>1. log["client"] \in Seq(Key)
  BY DEF TypeInv, TypeOK, Node
<1>2. ASSUME NEW n \in Node, Write(n)
      PROVE  TypeInv' /\ IsExtension(log'["client"], log["client"])
  BY <1>2, TypeWrite
<1>3. CASE Collect
  BY <1>1, <1>3, TypeCollect, SameIsExtension DEF Collect, database
<1>4. CASE \/ StartCycle \/ SendPush \/ RetryDone \/ StartPush \/ PushDone
           \/ PullReads \/ InboxEmpty \/ AbortCycle
  <2>1. UNCHANGED log
    BY <1>4 DEF StartCycle, SendPush, RetryDone, StartPush, PushDone, PullReads, InboxEmpty,
                AbortCycle, database
  <2> QED
    BY <1>1, <1>4, <2>1, TypeControl, SameIsExtension
<1>5. CASE HandleReply
  BY <1>1, <1>5, TypeHandleReply, SameIsExtension DEF HandleReply, database
<1>6. CASE ServerPush \/ ServerPushLate
  BY <1>1, <1>6, TypeServerPush, SameIsExtension
<1>7. CASE PullRetry
  BY <1>7, TypePullRetry
<1>8. CASE PullRequest
  BY <1>1, <1>8, TypePullRequest, SameIsExtension DEF PullRequest, database
<1>9. CASE PullApply
  BY <1>9, TypePullApply
<1>10. CASE UNCHANGED vars
  BY <1>1, <1>10, SameIsExtension
  DEF vars, database, disk, wire, TypeInv, TypeOK
<1> QED
  BY <1>2, <1>3, <1>4, <1>5, <1>6, <1>7, <1>8, <1>9, <1>10 DEF Next, Daemon

\* Every variable of RowSync keeps its type.
THEOREM TypeCorrect == Spec => []TypeOK
<1>1. Init => TypeInv
  BY TypeInit
<1>2. TypeInv /\ [Next]_vars => TypeInv'
  BY TypeStep
<1>3. TypeInv => TypeOK
  BY DEF TypeInv
<1> QED
  BY <1>1, <1>2, <1>3, PTL DEF Spec

-----------------------------------------------------------------------------
(* Delivery.                                                                 *)

\* Steps that touch neither the queue nor the wire nor the receipts.
LEMMA DeliveryFrame ==
    ASSUME TypeInv, TypeInv', DeliveryInv, IsExtension(log'["client"], log["client"]),
           UNCHANGED <<pushed, outbox, dead, receipts, request, reply, stale, applies>>
    PROVE  DeliveryInv'
<1>1. /\ Len(log["client"]) \in Nat /\ Len(log'["client"]) \in Nat
      /\ Len(log["client"]) <= Len(log'["client"]) /\ pushed \in Nat
  BY DEF TypeInv, TypeOK, Node, IsExtension
<1>2. pushed <= Len(log'["client"])
  BY <1>1 DEF DeliveryInv
<1> QED
  BY <1>2 DEF DeliveryInv, Accepted

\* The rows one round collects lie behind the new watermark and before the old.
LEMMA CollectedNumbers ==
    ASSUME TypeInv, DeliveryInv, Collect
    PROVE  /\ pushed' = ScanEnd(log["client"], pushed)
           /\ pushed' \in Nat /\ pushed <= pushed' /\ pushed' <= Len(log["client"])
           /\ outbox \subseteq outbox' /\ Accepted' = Accepted \cup outbox'
           /\ \A c \in outbox' \ outbox : c.seq \in Int /\ pushed < c.seq /\ c.seq <= pushed'
           /\ \A c, d \in outbox' \ outbox : c.seq = d.seq => c = d
           /\ \A s \in Scanned(log["client"], pushed) : \E c \in outbox' : c.seq = s
<1> DEFINE l == log["client"]
           seqs == Scanned(l, pushed)
           Snapshot(s) == [seq |-> s, key |-> l[s], row |-> rows["client"][l[s]],
                           base |-> BaseOf(l[s])]
<1>1. l \in Seq(Key) /\ pushed \in Nat /\ pushed <= Len(l)
  BY DEF TypeInv, TypeOK, Node, DeliveryInv
<1>2. ScanEnd(l, pushed) \in Nat /\ pushed <= ScanEnd(l, pushed) /\ ScanEnd(l, pushed) <= Len(l)
  BY <1>1, ScanEndType
<1>3. /\ outbox' = outbox \cup {Snapshot(s) : s \in seqs}
      /\ pushed' = ScanEnd(l, pushed)
      /\ UNCHANGED <<dead, receipts>>
  BY DEF Collect
<1>4. \A s \in seqs : s \in Int /\ pushed < s /\ s <= pushed'
  BY <1>1, <1>2, <1>3 DEF Scanned
<1> HIDE DEF seqs, l
<1>5. \A c \in outbox' \ outbox : \E s \in seqs : c = Snapshot(s)
  BY <1>3
<1>6. \A c, d \in outbox' \ outbox : c.seq = d.seq => c = d
  BY <1>5
<1>7. Accepted' = Accepted \cup outbox'
  BY <1>3 DEF Accepted
<1>8. \A c \in outbox' \ outbox : c.seq \in Int /\ pushed < c.seq /\ c.seq <= pushed'
  BY <1>4, <1>5
<1>9. \A s \in seqs : \E c \in outbox' : c.seq = s
  <2> SUFFICES ASSUME NEW s \in seqs PROVE Snapshot(s) \in outbox' /\ Snapshot(s).seq = s
    OBVIOUS
  <2> QED
    BY <1>3
<1>10. pushed' \in Nat /\ pushed <= pushed' /\ pushed' <= Len(l)
  BY <1>2, <1>3
<1>11. outbox \subseteq outbox'
  BY <1>3
<1> QED
  BY <1>3, <1>6, <1>7, <1>8, <1>9, <1>10, <1>11 DEF seqs, l

LEMMA DeliveryCollect ==
    ASSUME TypeInv, DeliveryInv, Collect
    PROVE  DeliveryInv'
<1>1. Accepted' = Accepted \cup (outbox' \ outbox)
  BY CollectedNumbers DEF Accepted
<1>2. UNCHANGED <<log, receipts, request, reply, stale, applies>>
  BY DEF Collect, database, wire
<1>3. \A c \in Accepted : c.seq \in Int /\ c.seq <= pushed
  BY DEF DeliveryInv, Accepted, TypeInv, TypeOK, Change, Receipt
<1>4. pushed \in Nat /\ pushed' \in Nat /\ pushed <= pushed' /\ pushed' <= Len(log'["client"])
  BY <1>2, CollectedNumbers DEF TypeInv, TypeOK
<1>5. \A c \in Accepted' : c.seq <= pushed'
  BY <1>1, <1>3, <1>4, CollectedNumbers
<1>6. \A c, d \in Accepted' : c.seq = d.seq => c = d
  <2>1. \A c \in Accepted, d \in outbox' \ outbox : c.seq # d.seq
    BY <1>3, <1>4, CollectedNumbers
  <2>2. \A c, d \in Accepted : c.seq = d.seq => c = d
    BY DEF DeliveryInv
  <2> QED
    BY <1>1, <2>1, <2>2, CollectedNumbers
<1> QED
  BY <1>1, <1>2, <1>4, <1>5, <1>6 DEF DeliveryInv

LEMMA DeliverySendPush ==
    ASSUME DeliveryInv, SendPush
    PROVE  DeliveryInv'
BY DEF DeliveryInv, SendPush, Accepted, database, disk

LEMMA DeliveryAbort ==
    ASSUME DeliveryInv, AbortCycle
    PROVE  DeliveryInv'
BY DEF DeliveryInv, AbortCycle, Accepted, database, disk

\* The entry an answer settles is kept in the receipt the answer vouches for.
LEMMA HandleReplyAccepted ==
    ASSUME TypeInv, DeliveryInv, HandleReply
    PROVE  Accepted' = Accepted
<1>1. UNCHANGED receipts /\ Accepted' \subseteq Accepted
  BY DEF HandleReply, Accepted
<1>2. CASE reply.status = "refused"
  BY <1>1, <1>2 DEF HandleReply, Accepted
<1>3. CASE reply.status # "refused"
  <2>1. PICK r \in receipts : r.change.seq = reply.seq
    BY <1>3 DEF HandleReply, DeliveryInv
  <2>2. \A c \in outbox : c.seq = reply.seq => c = r.change
    BY <2>1 DEF DeliveryInv, Accepted
  <2>3. \A c \in outbox : c.seq = reply.seq \/ c \in outbox'
    BY DEF HandleReply
  <2>4. dead \subseteq dead'
    BY DEF HandleReply
  <2> QED
    BY <1>1, <2>1, <2>2, <2>3, <2>4 DEF Accepted
<1> QED
  BY <1>2, <1>3

LEMMA DeliveryHandleReply ==
    ASSUME TypeInv, DeliveryInv, HandleReply
    PROVE  DeliveryInv'
<1>1. Accepted' = Accepted
  BY HandleReplyAccepted
<1>2. reply' = NoMsg /\ UNCHANGED <<log, pushed, receipts, request, stale, applies>>
  BY DEF HandleReply, database
<1> QED
  BY <1>1, <1>2 DEF DeliveryInv

\* What the server adds to its receipts when it handles an accepted change.
LEMMA ServerReceipts ==
    ASSUME TypeInv, DeliveryInv, NEW c \in Accepted, NEW heard \in BOOLEAN,
           ServerHandles(c, heard)
    PROVE  \/ /\ UNCHANGED <<receipts, applies>>
              /\ reply' = reply \/ reply'.status = "refused"
                  \/ \E r \in receipts : reply'.seq = r.seq
           \/ \E r \in Receipt :
                /\ r.seq = c.seq /\ r.change = c
                /\ \A q \in receipts : q.seq # c.seq
                /\ receipts' = receipts \cup {r} /\ applies' = applies + 1
                /\ reply' = reply \/ reply'.seq = r.seq
<1>1. c \in Change
  BY DEF Accepted, TypeInv, TypeOK, Receipt
<1>2. CASE ServerRefuses(c, heard)
  BY <1>2 DEF ServerRefuses, Respond, Refusal
<1>3. CASE ServerReplays(c, heard)
  BY <1>3 DEF ServerReplays, Respond, Answer, ReceiptOf
<1>4. CASE ServerApplies(c, heard)
  <2> DEFINE db == Database("server")
             r == [seq |-> c.seq, change |-> c,
                   status |-> IF IsWritten(db, c, "client") THEN "applied" ELSE "skipped",
                   clk |-> EffectiveClock(db, c, "client")]
  <2>1. IsDatabase(db) /\ IsTable(db.seen, Row)
    BY TypeInvDatabase DEF Node
  <2>2. EffectiveClock(db, c, "client") \in Int
    BY <1>1, <2>1 DEF EffectiveClock, IsWritten, Exists, IsDatabase, IsTable, Row, Change
  <2>3. r \in Receipt
    BY <1>1, <2>2 DEF Receipt, Status, Change
  <2> QED
    BY <1>4, <2>3 DEF ServerApplies, StoreReceipt, ReceiptOf, Respond, Answer
<1>5. CASE ServerRowFails(c, heard)
  <2> DEFINE r == [seq |-> c.seq, change |-> c, status |-> "rejected", clk |-> 0]
  <2>1. r \in Receipt
    BY <1>1 DEF Receipt, Status, Change
  <2> QED
    BY <1>5, <2>1 DEF ServerRowFails, StoreReceipt, ReceiptOf, Respond, Answer
<1> QED
  BY <1>2, <1>3, <1>4, <1>5 DEF ServerHandles

\* The change behind a push, in time or late, was accepted.
LEMMA PushedAccepted ==
    ASSUME TypeInv, DeliveryInv, ServerPush \/ ServerPushLate
    PROVE  /\ \E c \in Accepted : \E heard \in BOOLEAN : ServerHandles(c, heard)
           /\ UNCHANGED <<pushed, outbox, dead>>
           /\ stale' \subseteq stale /\ request' \in {request, NoMsg}
BY DEF ServerPush, ServerPushLate, DeliveryInv, disk

LEMMA DeliveryServer ==
    ASSUME TypeInv, DeliveryInv, ServerPush \/ ServerPushLate
    PROVE  DeliveryInv' /\ Accepted' = Accepted
<1>1. PICK c \in Accepted, heard \in BOOLEAN : ServerHandles(c, heard)
  BY PushedAccepted
<1>2. /\ UNCHANGED <<pushed, outbox, dead>> /\ log'["client"] = log["client"]
      /\ stale' \subseteq stale /\ request' \in {request, NoMsg}
  BY PushedAccepted, TypeServerPush
<1>3. CASE /\ UNCHANGED <<receipts, applies>>
           /\ reply' = reply \/ reply'.status = "refused"
               \/ \E r \in receipts : reply'.seq = r.seq
  <2>1. Accepted' = Accepted
    BY <1>2, <1>3 DEF Accepted
  <2> QED
    BY <1>2, <1>3, <2>1 DEF DeliveryInv
<1>4. ASSUME NEW r \in Receipt, r.seq = c.seq, r.change = c,
             \A q \in receipts : q.seq # c.seq,
             receipts' = receipts \cup {r}, applies' = applies + 1,
             reply' = reply \/ reply'.seq = r.seq
      PROVE  DeliveryInv' /\ Accepted' = Accepted
  <2>1. Accepted' = Accepted
    BY <1>2, <1>4 DEF Accepted
  <2>2. IsFiniteSet(receipts') /\ applies' = Cardinality(receipts')
    BY <1>4, FS_AddElement DEF DeliveryInv
  <2>3. /\ \A q \in receipts' : q.seq = q.change.seq
        /\ \A p, q \in receipts' : p.seq = q.seq => p = q
    BY <1>4 DEF DeliveryInv
  <2>4. reply' # NoMsg => reply'.status = "refused" \/ \E q \in receipts' : q.seq = reply'.seq
    BY <1>4 DEF DeliveryInv
  <2> QED
    BY <1>2, <2>1, <2>2, <2>3, <2>4 DEF DeliveryInv
<1> QED
  BY <1>1, <1>3, <1>4, ServerReceipts

LEMMA DeliveryInit == Init => DeliveryInv
<1> SUFFICES ASSUME Init PROVE DeliveryInv
  OBVIOUS
<1>1. Len(log["client"]) = Cardinality(Bootstrapped) /\ Cardinality(Bootstrapped) \in Nat
  BY BootstrapLog, BootstrapType
<1>2. IsFiniteSet(receipts) /\ Cardinality(receipts) = 0
  BY FS_EmptySet DEF Init
<1> QED
  BY <1>1, <1>2 DEF Init, DeliveryInv, Accepted

LEMMA DeliveryStep ==
    ASSUME TypeInv, DeliveryInv, [Next]_vars
    PROVE  DeliveryInv'
<1>1. TypeInv' /\ IsExtension(log'["client"], log["client"])
  BY TypeStep
<1>2. CASE UNCHANGED <<pushed, outbox, dead, receipts, request, reply, stale, applies>>
  BY <1>1, <1>2, DeliveryFrame
<1>3. CASE \E n \in Node : Write(n)
  BY <1>2, <1>3 DEF Write, CreateMemo, UpdateMemo, DeleteMemo, disk, wire
<1>4. CASE StartCycle \/ RetryDone \/ StartPush \/ PushDone
  BY <1>2, <1>4 DEF StartCycle, RetryDone, StartPush, PushDone, disk, wire
<1>5. CASE PullReads \/ InboxEmpty \/ PullRetry \/ PullRequest \/ PullApply
  BY <1>2, <1>5 DEF PullReads, InboxEmpty, PullRetry, PullRequest, PullApply, disk, wire
<1>6. CASE Collect
  BY <1>6, DeliveryCollect
<1>7. CASE SendPush
  BY <1>7, DeliverySendPush
<1>8. CASE HandleReply
  BY <1>8, DeliveryHandleReply
<1>9. CASE AbortCycle
  BY <1>9, DeliveryAbort
<1>10. CASE ServerPush \/ ServerPushLate
  BY <1>10, DeliveryServer
<1>11. CASE UNCHANGED vars
  BY <1>2, <1>11 DEF vars, disk, wire
<1> QED
  BY <1>3, <1>4, <1>5, <1>6, <1>7, <1>8, <1>9, <1>10, <1>11 DEF Next, Daemon

LEMMA Invariance == Spec => [](TypeInv /\ DeliveryInv)
<1>1. Init => TypeInv /\ DeliveryInv
  BY TypeInit, DeliveryInit
<1>2. TypeInv /\ DeliveryInv /\ [Next]_vars => (TypeInv /\ DeliveryInv)'
  BY TypeStep, DeliveryStep
<1> QED
  BY <1>1, <1>2, PTL DEF Spec

\* Every change on the wire and every receipt is one the outbox accepted, numbers
\* are unique, and an answer the daemon acts on vouches for a receipt.
THEOREM Delivered == Spec => []DeliveryInv
BY Invariance, PTL

\* What travels or waits never disagrees with the receipt of its number: the
\* server never answers 409 receipt_payload_mismatch to this daemon.
THEOREM OnePayload == Spec => []OnePayloadPerSeq
<1>1. TypeInv /\ DeliveryInv => OnePayloadPerSeq
  <2> SUFFICES ASSUME TypeInv, DeliveryInv, NEW c \in InFlight, NEW r \in receipts, r.seq = c.seq
               PROVE  r.change = c
    BY DEF OnePayloadPerSeq
  <2>1. c \in Accepted
    BY DEF InFlight, Accepted, DeliveryInv
  <2>2. r.change \in Accepted /\ r.change.seq = c.seq
    BY DEF Accepted, DeliveryInv
  <2> QED
    BY <2>1, <2>2 DEF DeliveryInv
<1> QED
  BY <1>1, Invariance, PTL

\* One execution of _apply_one per pushed change, whatever is lost or repeated.
THEOREM AtMostOnce == Spec => []AppliedOnce
<1>1. DeliveryInv => AppliedOnce
  BY DEF DeliveryInv, AppliedOnce
<1> QED
  BY <1>1, Invariance, PTL

\* A log that only grows has no new last entry among the old ones.
LEMMA LatestBefore ==
    ASSUME NEW l \in Seq(Key), NEW m \in Seq(Key), IsExtension(m, l),
           NEW s \in 1 .. Len(l), IsLatest(m, s)
    PROVE  IsLatest(l, s)
BY DEF IsExtension, IsLatest

LEMMA StrandedFrame ==
    ASSUME TypeInv, TypeInv', DeliveryInv, NothingStranded,
           IsExtension(log'["client"], log["client"]), pushed' = pushed,
           \A c \in outbox \cup dead : c \in outbox' \cup dead' \/ \E r \in receipts' : r.seq = c.seq,
           receipts \subseteq receipts'
    PROVE  NothingStranded'
<1> DEFINE first == Cardinality(Bootstrapped) + 1
<1> SUFFICES ASSUME NEW s \in first .. Len(log'["client"]), IsLatest(log'["client"], s), ~(s > pushed)
             PROVE  \/ \E c \in outbox' \cup dead' : c.seq = s
                    \/ \E r \in receipts' : r.seq = s
  BY DEF NothingStranded
<1>1. /\ log["client"] \in Seq(Key) /\ log'["client"] \in Seq(Key)
      /\ pushed \in Nat /\ pushed <= Len(log["client"])
  BY DEF TypeInv, TypeOK, Node, DeliveryInv
<1>2. s \in 1 .. Len(log["client"]) /\ s \in first .. Len(log["client"])
  BY <1>1, BootstrapType
<1>3. IsLatest(log["client"], s)
  BY <1>1, <1>2, LatestBefore
<1>4. (\E c \in outbox \cup dead : c.seq = s) \/ \E r \in receipts : r.seq = s
  BY <1>2, <1>3 DEF NothingStranded
<1> QED
  BY <1>4

LEMMA StrandedCollect ==
    ASSUME TypeInv, DeliveryInv, NothingStranded, Collect
    PROVE  NothingStranded'
<1> DEFINE l == log["client"]
<1>1. log' = log /\ dead' = dead /\ receipts' = receipts
  BY DEF Collect, database
<1>2. l \in Seq(Key) /\ Len(l) \in Nat /\ pushed \in Nat
  BY DEF TypeInv, TypeOK, Node
<1>3. ASSUME NEW s \in 1 .. Len(l), IsLatest(l, s), pushed < s, s <= pushed'
      PROVE  s \in Scanned(l, pushed)
  <2>1. pushed' = ScanEnd(l, pushed) /\ pushed' \in Nat /\ pushed' <= Len(l)
    BY CollectedNumbers
  <2>2. \A t \in s + 1 .. ScanEnd(l, pushed) : t \in s + 1 .. Len(l)
    BY <1>2, <2>1
  <2> QED
    BY <1>2, <1>3, <2>1, <2>2 DEF Scanned, IsLatest
<1>4. \A s \in Scanned(l, pushed) : \E c \in outbox' : c.seq = s
  BY CollectedNumbers
<1>5. outbox \subseteq outbox' /\ pushed' \in Nat
  BY CollectedNumbers
<1> SUFFICES ASSUME NEW s \in Cardinality(Bootstrapped) + 1 .. Len(l), IsLatest(l, s), ~(s > pushed')
             PROVE  (\E c \in outbox' \cup dead : c.seq = s) \/ \E r \in receipts : r.seq = s
  BY <1>1 DEF NothingStranded
<1>6. CASE pushed < s
  <2>1. s \in 1 .. Len(l)
    BY <1>2, BootstrapType
  <2> QED
    BY <1>2, <1>3, <1>4, <1>5, <1>6, <2>1
<1>7. CASE ~(s > pushed)
  BY <1>5, <1>7 DEF NothingStranded
<1> QED
  BY <1>2, <1>6, <1>7, BootstrapType

LEMMA StrandedStep ==
    ASSUME TypeInv, DeliveryInv, NothingStranded, [Next]_vars
    PROVE  NothingStranded'
<1>1. TypeInv' /\ IsExtension(log'["client"], log["client"])
  BY TypeStep
<1>2. CASE UNCHANGED <<pushed, outbox, dead, receipts>>
  BY <1>1, <1>2, StrandedFrame
<1>3. CASE \E n \in Node : Write(n)
  BY <1>2, <1>3 DEF Write, CreateMemo, UpdateMemo, DeleteMemo, disk
<1>4. CASE StartCycle \/ RetryDone \/ StartPush \/ PushDone \/ SendPush \/ AbortCycle
  BY <1>2, <1>4 DEF StartCycle, RetryDone, StartPush, PushDone, SendPush, AbortCycle, disk
<1>5. CASE PullReads \/ InboxEmpty \/ PullRetry \/ PullRequest \/ PullApply
  BY <1>2, <1>5 DEF PullReads, InboxEmpty, PullRetry, PullRequest, PullApply, disk
<1>6. CASE Collect
  BY <1>6, StrandedCollect
<1>7. CASE HandleReply
  <2>1. Accepted' = Accepted /\ pushed' = pushed /\ receipts' = receipts
    BY <1>7, HandleReplyAccepted DEF HandleReply
  <2>2. \A c \in outbox \cup dead : c \in outbox' \cup dead' \/ \E r \in receipts' : r.seq = c.seq
    BY <2>1 DEF Accepted, DeliveryInv
  <2> QED
    BY <1>1, <2>1, <2>2, StrandedFrame
<1>8. CASE ServerPush \/ ServerPushLate
  <2>1. UNCHANGED <<pushed, outbox, dead>>
    BY <1>8, PushedAccepted
  <2>2. receipts \subseteq receipts'
    <3>1. PICK c \in Accepted, heard \in BOOLEAN : ServerHandles(c, heard)
      BY <1>8, PushedAccepted
    <3> QED
      BY <3>1, ServerReceipts
  <2> QED
    BY <1>1, <2>1, <2>2, StrandedFrame
<1>9. CASE UNCHANGED vars
  BY <1>2, <1>9 DEF vars, disk
<1> QED
  BY <1>3, <1>4, <1>5, <1>6, <1>7, <1>8, <1>9 DEF Next, Daemon

\* No local write falls out of the pipeline between the change log, the outbox,
\* the dead letters and the server's receipts.
THEOREM NoneStranded == Spec => []NothingStranded
<1>1. Init => NothingStranded
  <2> SUFFICES ASSUME Init PROVE NothingStranded
    OBVIOUS
  <2>1. Len(log["client"]) = Cardinality(Bootstrapped) /\ Cardinality(Bootstrapped) \in Nat
    BY BootstrapLog, BootstrapType
  <2> QED
    BY <2>1 DEF NothingStranded
<1>2. TypeInv /\ DeliveryInv /\ NothingStranded /\ [Next]_vars => NothingStranded'
  BY StrandedStep
<1> QED
  BY <1>1, <1>2, Invariance, PTL DEF Spec

-----------------------------------------------------------------------------
(* RowSync implements Delivery.                                              *)

LEMMA PromiseStep ==
    ASSUME TypeInv, DeliveryInv, [Next]_vars
    PROVE  [Promise!Next]_<<Accepted, {r.change : r \in receipts}>>
<1> DEFINE processed == {r.change : r \in receipts}
<1>1. CASE UNCHANGED <<outbox, dead, receipts>>
  BY <1>1 DEF Accepted
<1>2. CASE \E n \in Node : Write(n)
  BY <1>1, <1>2 DEF Write, CreateMemo, UpdateMemo, DeleteMemo, disk
<1>3. CASE StartCycle \/ RetryDone \/ StartPush \/ PushDone \/ SendPush \/ AbortCycle
  BY <1>1, <1>3 DEF StartCycle, RetryDone, StartPush, PushDone, SendPush, AbortCycle, disk
<1>4. CASE PullReads \/ InboxEmpty \/ PullRetry \/ PullRequest \/ PullApply
  BY <1>1, <1>4 DEF PullReads, InboxEmpty, PullRetry, PullRequest, PullApply, disk
<1>5. CASE Collect
  <2>1. receipts' = receipts
    BY <1>5 DEF Collect
  <2>2. Accepted \subseteq Accepted' /\ Accepted' \ Accepted \subseteq outbox' \ outbox
    BY <1>5, CollectedNumbers DEF Accepted
  <2>3. \A c, d \in Accepted' : c.seq = d.seq => c = d
    BY <1>5, DeliveryCollect DEF DeliveryInv
  <2>4. \A d \in Accepted : d.seq \in Int /\ d.seq <= pushed
    BY DEF DeliveryInv, Accepted, TypeInv, TypeOK, Change, Receipt
  <2>5. \A c \in Accepted' \ Accepted : c.seq \in Int /\ pushed < c.seq
    BY <1>5, <2>2, CollectedNumbers
  <2>6. pushed \in Int
    BY DEF TypeInv, TypeOK
  <2>7. \A c \in Accepted' \ Accepted : \A d \in Accepted : d.seq < c.seq
    BY <2>4, <2>5, <2>6
  <2>8. Promise!Accept
    BY <2>1, <2>2, <2>3, <2>7 DEF Promise!Accept
  <2> QED
    BY <2>8 DEF Promise!Next
<1>6. CASE HandleReply
  <2>1. receipts' = receipts
    BY <1>6 DEF HandleReply
  <2> QED
    BY <1>6, <2>1, HandleReplyAccepted
<1>7. CASE ServerPush \/ ServerPushLate
  <2>1. PICK c \in Accepted, heard \in BOOLEAN : ServerHandles(c, heard)
    BY <1>7, PushedAccepted
  <2>2. Accepted' = Accepted
    BY <1>7, DeliveryServer
  <2>3. CASE receipts' = receipts
    BY <2>2, <2>3
  <2>4. ASSUME NEW r \in Receipt, r.change = c, \A q \in receipts : q.seq # c.seq,
               receipts' = receipts \cup {r}
        PROVE  Promise!Process
    <3>1. c \notin processed
      BY <2>4 DEF DeliveryInv
    <3>2. processed' = processed \cup {c}
      BY <2>4
    <3> QED
      BY <2>1, <2>2, <3>1, <3>2 DEF Promise!Process
  <2> QED
    BY <2>1, <2>3, <2>4, ServerReceipts DEF Promise!Next
<1>8. CASE UNCHANGED vars
  BY <1>1, <1>8 DEF vars, disk
<1> QED
  BY <1>2, <1>3, <1>4, <1>5, <1>6, <1>7, <1>8 DEF Next, Daemon

\* The outbox, the lossy wire and the receipts implement exactly what Delivery
\* promises: each change keeps its number and payload, none is applied twice.
THEOREM Implements == Spec => ExactlyOnce
<1>1. Init => Promise!Init
  BY DEF Init, Promise!Init, Accepted
<1>2. TypeInv /\ DeliveryInv /\ [Next]_vars
        => [Promise!Next]_<<Accepted, {r.change : r \in receipts}>>
  BY PromiseStep
<1> QED
  BY <1>1, <1>2, Invariance, PTL DEF Spec, ExactlyOnce, Promise!Spec

-----------------------------------------------------------------------------
(* The copies of a row.  Every row that is stored, queued, received, deferred  *)
(* or on its way in a feed was stored somewhere; an id is given to one         *)
(* version, so that all copies of a version hold the same body.  A row's clock *)
(* is the time it was written, as the clock of the node that wrote it has it.  *)

FeedChanges == IF feed = NoMsg THEN {} ELSE feed.changes

Copies ==
    (UNION {{<<k, rows[n][k]>> : k \in DOMAIN rows[n]} : n \in Node})
    \cup {<<k, view[k]>> : k \in DOMAIN view}
    \cup {<<c.key, c.row>> : c \in Accepted \cup inbox \cup FeedChanges}

\* The real time at which a row was written.
WrittenAt(row) == row.clk - SkewOf(row.by)

CopiesInv ==
    /\ \A p \in Copies : p[1][2] <= ids
    /\ \A p \in Copies : WrittenAt(p[2]) <= now
    /\ \A p, q \in Copies : p[1] = q[1] /\ ~IsMemo(p[1]) => p = q
    /\ DOMAIN view \subseteq DOMAIN rows["client"]

\* Row k of node n has, after the step, been written by that node just now.
Stamped(n, k) == rows'[n][k].by = n /\ rows'[n][k].clk = now' + SkewOf(n)

\* A step that writes rows of node n only, with copies of others, or just now: rows
\* of memos and versions whose ids are new.
Grows(n) ==
    /\ ids' \in Nat /\ ids <= ids' /\ now <= now'
    /\ \A o \in Node : DOMAIN rows[o] \subseteq DOMAIN rows'[o]
    /\ \A o \in Node \ {n} : rows'[o] = rows[o]
    /\ \A k \in DOMAIN rows'[n] :
         \/ <<k, rows'[n][k]>> \in Copies
         \/ Stamped(n, k) /\ (IsMemo(k) \/ (ids < k[2] /\ k[2] <= ids'))

\* Whatever is queued, received, deferred, fed or seen after the step was stored
\* before.
Moved ==
    /\ \A k \in DOMAIN view' : k \in DOMAIN rows'["client"] /\ <<k, view'[k]>> \in Copies
    /\ \A c \in (Accepted \cup inbox \cup FeedChanges)' : <<c.key, c.row>> \in Copies

LEMMA CopyTyped ==
    ASSUME TypeInv, NEW p \in Copies
    PROVE  p = <<p[1], p[2]>> /\ p[1] \in Key /\ p[1][2] \in Nat /\ p[2] \in Row
<1>1. FeedChanges \subseteq FeedChange
  BY DEF FeedChanges, TypeInv, TypeOK, FeedMsg
<1>2. Accepted \subseteq Change /\ inbox \subseteq FeedChange
  BY DEF Accepted, TypeInv, TypeOK, Receipt
<1>3. ASSUME NEW n \in Node, NEW k \in DOMAIN rows[n]
      PROVE  k \in Key /\ rows[n][k] \in Row
  BY <1>3 DEF TypeInv, TypeOK, IsTable
<1>4. \A k \in DOMAIN view : k \in Key /\ view[k] \in Row
  BY DEF TypeInv, TypeOK, IsTable
<1>5. \A c \in Accepted \cup inbox \cup FeedChanges : c.key \in Key /\ c.row \in Row
  BY <1>1, <1>2 DEF Change, FeedChange
<1>6. \E k \in Key, row \in Row : p = <<k, row>>
  <2>1. CASE \E n \in Node : \E k \in DOMAIN rows[n] : p = <<k, rows[n][k]>>
    BY <1>3, <2>1
  <2>2. CASE \E k \in DOMAIN view : p = <<k, view[k]>>
    BY <1>4, <2>2
  <2>3. CASE \E c \in Accepted \cup inbox \cup FeedChanges : p = <<c.key, c.row>>
    BY <1>5, <2>3
  <2> QED
    BY <2>1, <2>2, <2>3 DEF Copies
<1> QED
  BY <1>6 DEF Key

LEMMA RowsCopied ==
    /\ \A n \in Node : \A k \in DOMAIN rows[n] : <<k, rows[n][k]>> \in Copies
    /\ \A k \in DOMAIN view : <<k, view[k]>> \in Copies
    /\ \A c \in Accepted \cup inbox \cup FeedChanges : <<c.key, c.row>> \in Copies
BY DEF Copies

LEMMA StoredTyped ==
    ASSUME TypeInv, CopiesInv, NEW n \in Node, NEW k \in DOMAIN rows[n]
    PROVE  ids \in Nat /\ k[2] \in Nat /\ k[2] <= ids /\ rows[n][k].clk \in Int
<1> DEFINE p == <<k, rows[n][k]>>
<1>1. p \in Copies
  BY RowsCopied
<1>2. p[1] = k /\ p[2] = rows[n][k]
  OBVIOUS
<1> HIDE DEF p
<1>3. k[2] \in Nat /\ rows[n][k] \in Row
  BY <1>1, <1>2, CopyTyped
<1>4. k[2] <= ids
  BY <1>1, <1>2 DEF CopiesInv
<1> QED
  BY <1>3, <1>4 DEF Row, TypeInv, TypeOK

LEMMA TimeTyped == \A row \in Row : row.clk \in Int /\ WrittenAt(row) \in Int
BY ConstantsAssumption DEF ConstantsAssumption, Row, WrittenAt, SkewOf

\* What a step that grows the rows of one node, and otherwise moves copies around,
\* adds to the copies.
LEMMA NewCopies ==
    ASSUME TypeInv, TypeInv', NEW n \in Node, Grows(n), Moved, NEW p \in Copies'
    PROVE  /\ p[1][2] \in Nat /\ p[2] \in Row
           /\ \/ p \in Copies
              \/ /\ p[1] \in DOMAIN rows'[n] /\ p = <<p[1], rows'[n][p[1]]>>
                 /\ Stamped(n, p[1])
                 /\ IsMemo(p[1]) \/ (ids < p[1][2] /\ p[1][2] <= ids')
<1>1. \A q \in Copies : q[1][2] \in Nat /\ q[2] \in Row
  BY CopyTyped
<1>2. CASE \E o \in Node : \E k \in DOMAIN rows'[o] : p = <<k, rows'[o][k]>>
  <2>1. PICK o \in Node : \E k \in DOMAIN rows'[o] : p = <<k, rows'[o][k]>>
    BY <1>2
  <2>2. PICK k \in DOMAIN rows'[o] : p = <<k, rows'[o][k]>>
    BY <2>1
  <2>3. p[1] = k /\ p[2] = rows'[o][k] /\ k \in Key /\ rows'[o][k] \in Row
    BY <2>2 DEF TypeInv, TypeOK, IsTable
  <2>4. CASE o = n
    BY <2>2, <2>3, <2>4 DEF Grows, Key
  <2>5. CASE o # n
    <3>1. rows'[o] = rows[o]
      BY <2>5 DEF Grows
    <3> QED
      BY <1>1, <2>2, <3>1, RowsCopied
  <2> QED
    BY <2>4, <2>5
<1>3. CASE \E k \in DOMAIN view' : p = <<k, view'[k]>>
  BY <1>1, <1>3 DEF Moved
<1>4. CASE \E c \in (Accepted \cup inbox \cup FeedChanges)' : p = <<c.key, c.row>>
  BY <1>1, <1>4 DEF Moved
<1> QED
  BY <1>2, <1>3, <1>4 DEF Copies

LEMMA CopiesKept ==
    ASSUME TypeInv, TypeInv', CopiesInv, NEW n \in Node, Grows(n), Moved
    PROVE  CopiesInv'
<1>1. ids \in Nat /\ ids' \in Nat /\ ids <= ids' /\ now \in Nat /\ now' \in Nat /\ now <= now'
  BY DEF Grows, TypeInv, TypeOK
<1>2. ASSUME NEW p \in Copies'
      PROVE  /\ p[1][2] \in Nat /\ p[2] \in Row
             /\ \/ p \in Copies
                \/ /\ p = <<p[1], rows'[n][p[1]]>> /\ Stamped(n, p[1])
                   /\ IsMemo(p[1]) \/ (ids < p[1][2] /\ p[1][2] <= ids')
  BY <1>2, NewCopies
<1>3. \A p \in Copies : p[1][2] \in Nat /\ p[1][2] <= ids /\ WrittenAt(p[2]) <= now
  BY CopyTyped DEF CopiesInv
<1>4. \A p \in Copies' : p[1][2] <= ids'
  BY <1>1, <1>2, <1>3 DEF IsMemo
<1>5. ASSUME NEW p \in Copies', NEW q \in Copies', p[1] = q[1], ~IsMemo(p[1])
      PROVE  p = q
  <2>1. CASE ids < p[1][2]
    <3>1. p = <<p[1], rows'[n][p[1]]>>
      BY <1>1, <1>2, <1>3, <1>5, <2>1
    <3>2. q = <<q[1], rows'[n][q[1]]>>
      BY <1>1, <1>2, <1>3, <1>5, <2>1
    <3> QED
      BY <1>5, <3>1, <3>2
  <2>2. CASE ~(ids < p[1][2])
    BY <1>2, <1>5, <2>2 DEF CopiesInv
  <2> QED
    BY <2>1, <2>2
<1>6. ASSUME NEW p \in Copies' PROVE WrittenAt(p[2]) <= now'
  <2>1. WrittenAt(p[2]) \in Int /\ SkewOf(n) \in Int
    BY <1>2, TimeTyped, ConstantsAssumption DEF ConstantsAssumption, SkewOf
  <2>2. CASE p \in Copies
    BY <1>1, <1>3, <2>1, <2>2
  <2>3. CASE p = <<p[1], rows'[n][p[1]]>> /\ Stamped(n, p[1])
    <3>1. p[2] = rows'[n][p[1]]
      BY <2>3
    <3>2. p[2].by = n /\ p[2].clk = now' + SkewOf(n)
      BY <2>3, <3>1 DEF Stamped
    <3> QED
      BY <1>1, <2>1, <3>2 DEF WrittenAt
  <2> QED
    BY <1>2, <2>2, <2>3
<1>7. DOMAIN view' \subseteq DOMAIN rows'["client"]
  BY DEF Moved
<1> QED
  BY <1>4, <1>5, <1>6, <1>7 DEF CopiesInv

\* A version that is stored stays, with its body.
LEMMA VersionsStay ==
    ASSUME TypeInv, TypeInv', CopiesInv, NEW n \in Node, Grows(n),
           NEW o \in Node, NEW k \in DOMAIN rows[o], ~IsMemo(k)
    PROVE  k \in DOMAIN rows'[o] /\ rows'[o][k].val = rows[o][k].val
<1>1. k \in DOMAIN rows'[o]
  BY DEF Grows
<1>2. CASE o = n
  <2>1. <<k, rows[o][k]>> \in Copies
    BY RowsCopied
  <2>2. k[2] \in Nat /\ k[2] <= ids /\ ids \in Nat
    BY StoredTyped
  <2>3. <<k, rows'[o][k]>> \in Copies
    BY <1>1, <1>2, <2>2 DEF Grows
  <2> QED
    BY <1>1, <2>1, <2>3 DEF CopiesInv
<1>3. CASE o # n
  BY <1>3 DEF Grows
<1> QED
  BY <1>1, <1>2, <1>3

-----------------------------------------------------------------------------
(* What writing does to the rows.                                            *)

\* A preserved loser: some version of the memo in table t has its body.
Readable(t, d) == \E k \in DOMAIN t : k[1] = d.memo /\ ~IsMemo(k) /\ t[k].val = d.lost

\* Applying a batch keeps every row, replaces rows by rows of the batch that win
\* over the one that was read, and adds versions under new ids; of a recorded
\* conflict the loser's body is a version, seen before or added.
LEMMA AppliedRows ==
    ASSUME NEW db, IsDatabase(db), IsTable(db.seen, Row), NEW side \in Node,
           NEW changes, changes \subseteq Change,
           IsBatch({c \in changes : IsMemo(c.key)})
    PROVE  LET r == ApplyChanges(db, changes, side)
           IN  /\ DOMAIN db.rows \subseteq DOMAIN r.rows
               /\ r.ids \in Nat /\ db.ids <= r.ids
               /\ \A k \in DOMAIN r.rows :
                    \/ k \in DOMAIN db.rows /\ r.rows[k] = db.rows[k]
                    \/ \E c \in changes : c.key = k /\ IsWritten(db, c, side) /\ r.rows[k] = c.row
                    \/ /\ db.ids < k[2] /\ k[2] <= r.ids
                       /\ r.rows[k].by = Peer(side)
                       /\ r.rows[k].clk = now + SkewOf(Peer(side))
               /\ \A d \in r.conflicts \ db.conflicts : Readable(r.rows, d) \/ Readable(db.seen, d)
<1> DEFINE kept == Preserved(db, changes, side)
           Saved(k) == {c \in kept : VersionKey(db, kept, c) = k}
           Written(k) == {c \in changes : c.key = k /\ IsWritten(db, c, side)}
           r == ApplyChanges(db, changes, side)
           dom == DOMAIN db.rows \cup {c.key : c \in UNION {Written(c.key) : c \in changes}}
                     \cup {VersionKey(db, kept, c) : c \in kept}
           new(k) == IF \E c \in kept : VersionKey(db, kept, c) = k
                     THEN VersionRow(Peer(side), LoserBody(db, CHOOSE c \in Saved(k) : TRUE, side), now)
                     ELSE IF Written(k) = {} THEN db.rows[k]
                     ELSE (CHOOSE c \in Written(k) : TRUE).row
<1>1. kept \subseteq {c \in changes : IsMemo(c.key)}
  BY DEF Preserved, Conflicts
<1>2. IsBatch(kept)
  BY <1>1, FS_Subset DEF IsBatch
<1>3. /\ r.rows = [k \in dom |-> new(k)]
      /\ r.ids = db.ids + Cardinality(kept)
      /\ r.conflicts = db.conflicts \cup
           {[memo |-> c.key[1], lost |-> LoserBody(db, c, side)] :
               c \in {d \in changes : Conflicts(db, d, side)}}
  BY DEF ApplyChanges
<1>4. Cardinality(kept) \in Nat /\ db.ids \in Nat /\ r.ids \in Nat /\ db.ids <= r.ids
  BY <1>2, <1>3, FS_CardinalityType DEF IsBatch, IsDatabase
<1>5. ASSUME NEW c \in kept
      PROVE  /\ VersionKey(db, kept, c)[1] = c.key[1]
             /\ VersionKey(db, kept, c)[2] = db.ids + Rank(kept, c)
             /\ db.ids < VersionKey(db, kept, c)[2] /\ VersionKey(db, kept, c)[2] <= r.ids
  <2>1. Rank(kept, c) \in 1 .. Cardinality(kept)
    BY <1>2, <1>5, RankType
  <2> QED
    BY <1>3, <1>4, <2>1 DEF VersionKey
<1> HIDE DEF r, kept
<1>6. ASSUME NEW k \in DOMAIN r.rows
      PROVE  \/ k \in DOMAIN db.rows /\ r.rows[k] = db.rows[k]
             \/ \E c \in changes : c.key = k /\ IsWritten(db, c, side) /\ r.rows[k] = c.row
             \/ /\ db.ids < k[2] /\ k[2] <= r.ids
                /\ r.rows[k].by = Peer(side) /\ r.rows[k].clk = now + SkewOf(Peer(side))
  <2>1. k \in dom /\ r.rows[k] = new(k)
    BY <1>3, <1>6
  <2>2. CASE \E c \in kept : VersionKey(db, kept, c) = k
    <3>1. r.rows[k] = VersionRow(Peer(side), LoserBody(db, CHOOSE c \in Saved(k) : TRUE, side), now)
      BY <2>1, <2>2
    <3>2. r.rows[k].by = Peer(side) /\ r.rows[k].clk = now + SkewOf(Peer(side))
      BY <3>1 DEF VersionRow
    <3> QED
      BY <1>5, <2>2, <3>2
  <2>3. CASE ~(\E c \in kept : VersionKey(db, kept, c) = k) /\ Written(k) # {}
    <3>1. (CHOOSE c \in Written(k) : TRUE) \in Written(k)
      BY <2>3
    <3> QED
      BY <2>1, <2>3, <3>1
  <2>4. CASE ~(\E c \in kept : VersionKey(db, kept, c) = k) /\ Written(k) = {}
    BY <2>1, <2>4
  <2> QED
    BY <2>2, <2>3, <2>4
<1>7. ASSUME NEW d \in r.conflicts \ db.conflicts
      PROVE  Readable(r.rows, d) \/ Readable(db.seen, d)
  <2>1. PICK c \in changes : /\ Conflicts(db, c, side)
                             /\ d.memo = c.key[1] /\ d.lost = LoserBody(db, c, side)
    BY <1>3, <1>7
  <2>2. CASE HasVersion(db, c.key[1], LoserBody(db, c, side))
    BY <2>1, <2>2 DEF HasVersion, Readable
  <2>3. CASE ~HasVersion(db, c.key[1], LoserBody(db, c, side))
    <3> DEFINE k == VersionKey(db, kept, c)
    <3>1. c \in kept
      BY <2>1, <2>3 DEF Preserved, kept
    <3>2. Saved(k) = {c}
      <4>1. ASSUME NEW e \in kept, VersionKey(db, kept, e) = k PROVE e = c
        <5>1. Rank(kept, e) \in Int /\ Rank(kept, c) \in Int
          BY <1>2, <1>4, <3>1, RankType
        <5>2. Rank(kept, e) = Rank(kept, c)
          BY <1>4, <3>1, <4>1, <5>1 DEF VersionKey
        <5> QED
          BY <1>2, <3>1, <5>2, RankInjective
      <4> QED
        BY <3>1, <4>1
    <3>3. k \in DOMAIN r.rows /\ r.rows[k] = VersionRow(Peer(side), LoserBody(db, c, side), now)
      BY <1>3, <3>1, <3>2
    <3>4. k[1] = d.memo /\ ~IsMemo(k)
      BY <1>4, <1>5, <2>1, <3>1 DEF IsMemo
    <3> QED
      BY <2>1, <3>3, <3>4 DEF Readable, VersionRow
  <2> QED
    BY <2>2, <2>3
<1>8. DOMAIN db.rows \subseteq DOMAIN r.rows
  BY <1>3
<1> QED
  BY <1>4, <1>6, <1>7, <1>8 DEF r

\* The incoming row wins over the one read only when its clock is no older.
LEMMA WinnerNewer ==
    ASSUME NEW db, IsTable(db.seen, Row), NEW c \in Change, NEW side,
           IsWritten(db, c, side), c.key \in DOMAIN db.seen
    PROVE  c.row.clk >= db.seen[c.key].clk
<1>1. c.row.clk \in Int /\ db.seen[c.key].clk \in Int
  BY DEF Change, Row, IsTable
<1> QED
  BY <1>1 DEF IsWritten, IncomingWins, Exists

\* Applying copies on node n grows its rows; a row read as it is never gets older.
LEMMA ApplyGrows ==
    ASSUME TypeInv, CopiesInv, NEW n \in Node, UNCHANGED now,
           NEW changes, changes \subseteq Change, IsBatch({c \in changes : IsMemo(c.key)}),
           \A c \in changes : <<c.key, c.row>> \in Copies,
           SetDatabase(n, ApplyChanges(Database(n), changes, Peer(n)))
    PROVE  /\ Grows(n)
           /\ \A k \in DOMAIN rows[n] :
                k \in DOMAIN Database(n).seen /\ Database(n).seen[k] = rows[n][k]
                  => rows'[n][k].clk >= rows[n][k].clk
           /\ \A d \in conflicts' \ conflicts :
                Readable(rows'[n], d) \/ Readable(Database(n).seen, d)
<1> DEFINE db == Database(n)
           side == Peer(n)
           r == ApplyChanges(db, changes, side)
<1>1. IsDatabase(db) /\ IsTable(db.seen, Row) /\ side \in Node /\ Peer(side) = n /\ now \in Nat
  BY TypeInvDatabase DEF Peer, Node, TypeInv, TypeOK
<1>2. db.rows = rows[n] /\ db.ids = ids /\ db.conflicts = conflicts
  BY DEF Database
<1> HIDE DEF db, side
<1>3. /\ DOMAIN db.rows \subseteq DOMAIN r.rows
      /\ r.ids \in Nat /\ db.ids <= r.ids
      /\ \A k \in DOMAIN r.rows :
           \/ k \in DOMAIN db.rows /\ r.rows[k] = db.rows[k]
           \/ \E c \in changes : c.key = k /\ IsWritten(db, c, side) /\ r.rows[k] = c.row
           \/ /\ db.ids < k[2] /\ k[2] <= r.ids
              /\ r.rows[k].by = n /\ r.rows[k].clk = now + SkewOf(n)
      /\ \A d \in r.conflicts \ db.conflicts : Readable(r.rows, d) \/ Readable(db.seen, d)
  BY <1>1, AppliedRows
<1> HIDE DEF r
<1>4. /\ rows'[n] = r.rows /\ \A o \in Node \ {n} : rows'[o] = rows[o]
      /\ ids' = r.ids /\ conflicts' = r.conflicts
  BY DEF SetDatabase, TypeInv, TypeOK, db, r, side
<1>5. Grows(n)
  <2>1. \A o \in Node : DOMAIN rows[o] \subseteq DOMAIN rows'[o]
    BY <1>2, <1>3, <1>4
  <2>2. ASSUME NEW k \in DOMAIN rows'[n]
        PROVE  \/ <<k, rows'[n][k]>> \in Copies
               \/ Stamped(n, k) /\ ids < k[2] /\ k[2] <= ids'
    <3>1. CASE k \in DOMAIN rows[n] /\ rows'[n][k] = rows[n][k]
      BY <3>1, RowsCopied
    <3>2. CASE \E c \in changes : c.key = k /\ rows'[n][k] = c.row
      BY <3>2
    <3> QED
      BY <1>1, <1>2, <1>3, <1>4, <2>2, <3>1, <3>2 DEF Stamped
  <2> QED
    BY <1>1, <1>2, <1>3, <1>4, <2>1, <2>2 DEF Grows
<1>6. ASSUME NEW k \in DOMAIN rows[n], k \in DOMAIN db.seen, db.seen[k] = rows[n][k]
      PROVE  rows'[n][k].clk >= rows[n][k].clk
  <2>1. k[2] \in Nat /\ k[2] <= ids /\ ids \in Nat /\ rows[n][k].clk \in Int
    BY StoredTyped
  <2>2. k \in DOMAIN r.rows /\ ~(db.ids < k[2])
    BY <1>2, <1>3, <1>6, <2>1
  <2>3. CASE rows'[n][k] = rows[n][k]
    BY <2>1, <2>3
  <2>4. ASSUME NEW c \in changes, c.key = k, IsWritten(db, c, side), rows'[n][k] = c.row
        PROVE  rows'[n][k].clk >= rows[n][k].clk
    BY <1>1, <1>6, <2>4, WinnerNewer
  <2> QED
    BY <1>2, <1>3, <1>4, <2>2, <2>3, <2>4
<1> QED
  BY <1>2, <1>3, <1>4, <1>5, <1>6 DEF db

\* Saving a memo through the API grows the rows of that node.
LEMMA SaveGrows ==
    ASSUME TypeInv, CopiesInv, NEW n \in Node, NEW m \in Memo, NEW row \in Row,
           NEW keepBody \in BOOLEAN, SaveMemo(n, m, row, keepBody),
           row.clk = now' + SkewOf(n), row.by = n, now <= now'
    PROVE  /\ Grows(n) /\ conflicts' = conflicts
           /\ \A k \in DOMAIN rows[n] : rows'[n][k] = IF k = MemoKey(m) THEN row ELSE rows[n][k]
           /\ \A k \in DOMAIN rows'[n] \ DOMAIN rows[n] :
                k = MemoKey(m) \/ (k = <<m, ids + 1>> /\ ids' = ids + 1)
<1> DEFINE t == rows[n]
           v == <<m, ids + 1>>
           kept == keepBody /\ t[MemoKey(m)].val # Empty
           version == VersionRow(n, t[MemoKey(m)].val, now')
           t1 == IF kept THEN Upsert(t, v, version) ELSE t
           t2 == Upsert(t1, MemoKey(m), row)
<1>1. /\ rows' = [rows EXCEPT ![n] = t2]
      /\ ids' = IF kept THEN ids + 1 ELSE ids
      /\ conflicts' = conflicts
  BY DEF SaveMemo
<1>2. ids \in Nat /\ DOMAIN rows = Node
  BY DEF TypeInv, TypeOK
<1>3. \A k \in DOMAIN t : k[2] \in Nat /\ k[2] <= ids
  BY StoredTyped
<1>4. v[2] = ids + 1
  OBVIOUS
<1>0. version.by = n /\ version.clk = now' + SkewOf(n)
  BY DEF VersionRow
<1> HIDE DEF kept, version, v, t
<1>5. /\ DOMAIN t \subseteq DOMAIN t1 /\ \A k \in DOMAIN t : t1[k] = t[k]
      /\ \A k \in DOMAIN t1 : k \in DOMAIN t \/ (k = v /\ kept /\ t1[k] = version)
  <2>1. v \notin DOMAIN t
    BY <1>2, <1>3, <1>4
  <2> QED
    BY <2>1 DEF Upsert
<1> HIDE DEF t1
<1>6. /\ DOMAIN t1 \subseteq DOMAIN t2
      /\ \A k \in DOMAIN t2 : k # MemoKey(m) => k \in DOMAIN t1 /\ t2[k] = t1[k]
      /\ t2[MemoKey(m)] = row
  BY DEF Upsert
<1> HIDE DEF t2
<1>7. rows'[n] = t2 /\ \A o \in Node \ {n} : rows'[o] = rows[o]
  BY <1>1, <1>2
<1>8. Grows(n)
  <2>1. ASSUME NEW k \in DOMAIN rows'[n]
        PROVE  \/ <<k, rows'[n][k]>> \in Copies
               \/ Stamped(n, k) /\ (IsMemo(k) \/ (ids < k[2] /\ k[2] <= ids'))
    <3>1. CASE k = MemoKey(m)
      BY <1>6, <1>7, <3>1 DEF MemoKey, IsMemo, Stamped
    <3>2. CASE k # MemoKey(m) /\ k \in DOMAIN t
      <4>1. rows'[n][k] = rows[n][k]
        BY <1>5, <1>6, <1>7, <2>1, <3>2 DEF t
      <4> QED
        BY <3>2, <4>1, RowsCopied DEF t
    <3>3. CASE k # MemoKey(m) /\ k \notin DOMAIN t
      <4>1. k = v /\ kept /\ rows'[n][k] = version
        BY <1>5, <1>6, <1>7, <2>1, <3>3
      <4> QED
        BY <1>0, <1>1, <1>2, <1>4, <4>1 DEF Stamped
    <3> QED
      BY <3>1, <3>2, <3>3
  <2>2. \A o \in Node : DOMAIN rows[o] \subseteq DOMAIN rows'[o]
    BY <1>5, <1>6, <1>7 DEF t
  <2> QED
    BY <1>1, <1>2, <1>7, <2>1, <2>2 DEF Grows
<1>9. \A k \in DOMAIN rows[n] : rows'[n][k] = IF k = MemoKey(m) THEN row ELSE rows[n][k]
  BY <1>5, <1>6, <1>7 DEF t
<1>10. \A k \in DOMAIN rows'[n] \ DOMAIN rows[n] :
          k = MemoKey(m) \/ (k = <<m, ids + 1>> /\ ids' = ids + 1)
  BY <1>1, <1>5, <1>6, <1>7 DEF t, v
<1> QED
  BY <1>1, <1>8, <1>9, <1>10

-----------------------------------------------------------------------------
(* What every step does to the rows.                                         *)

\* On node n row k is no older than before, or it was edited; a pull may overwrite
\* what was saved since it read.
Newer(n, k) ==
    \/ rows[n][k].clk <= rows'[n][k].clk
    \/ Stamped(n, k) /\ WrittenAt(rows[n][k]) < now'
    \/ n = "client" /\ SavedMeanwhile(k)

Progress(n) ==
    /\ Grows(n)
    /\ \A d \in conflicts' \ conflicts : Readable(rows'[n], d) \/ Readable(Database(n).seen, d)
    /\ \A k \in DOMAIN rows[n] : Newer(n, k)

LEMMA ProgressNone ==
    ASSUME TypeInv, CopiesInv, UNCHANGED <<rows, ids, conflicts, now>>
    PROVE  Progress("client")
<1>1. \A n \in Node : \A k \in DOMAIN rows[n] : rows[n][k].clk \in Int
  BY StoredTyped
<1>2. \A k \in DOMAIN rows["client"] : <<k, rows["client"][k]>> \in Copies
  BY RowsCopied DEF Node
<1>3. ids \in Nat /\ now \in Nat /\ "client" \in Node
  BY DEF TypeInv, TypeOK, Node
<1> QED
  BY <1>1, <1>2, <1>3 DEF Progress, Grows, Newer

LEMMA ProgressWrite ==
    ASSUME TypeInv, CopiesInv, NEW n \in Node, Write(n)
    PROVE  Progress(n)
<1>1. /\ now <= now' /\ now' \in Nat
      /\ \E m \in Memo, row \in Row, keepBody \in BOOLEAN :
           /\ SaveMemo(n, m, row, keepBody)
           /\ row.clk = now' + SkewOf(n) /\ row.by = n
           /\ MemoKey(m) \in DOMAIN rows[n] => WriteAfter(rows[n][MemoKey(m)])
  BY WriteSaves
<1>2. PICK m \in Memo, row \in Row, keepBody \in BOOLEAN :
          /\ SaveMemo(n, m, row, keepBody)
          /\ row.clk = now' + SkewOf(n) /\ row.by = n
          /\ MemoKey(m) \in DOMAIN rows[n] => WriteAfter(rows[n][MemoKey(m)])
  BY <1>1
<1>3. /\ Grows(n) /\ conflicts' = conflicts
      /\ \A k \in DOMAIN rows[n] : rows'[n][k] = IF k = MemoKey(m) THEN row ELSE rows[n][k]
  BY <1>1, <1>2, SaveGrows
<1>4. ASSUME NEW k \in DOMAIN rows[n]
      PROVE  Newer(n, k)
  <2>1. rows[n][k].clk \in Int /\ WrittenAt(rows[n][k]) \in Int
    BY TimeTyped DEF TypeInv, TypeOK, IsTable
  <2>2. CASE k = MemoKey(m)
    BY <1>1, <1>2, <1>3, <2>1, <2>2 DEF WriteAfter, WrittenAt, Newer, Stamped
  <2>3. CASE k # MemoKey(m)
    BY <1>3, <2>1, <2>3 DEF Newer
  <2> QED
    BY <2>2, <2>3
<1> QED
  BY <1>3, <1>4 DEF Progress

LEMMA ProgressServer ==
    ASSUME TypeInv, DeliveryInv, CopiesInv, ServerPush \/ ServerPushLate
    PROVE  \E n \in Node : Progress(n)
<1>1. PICK c \in Accepted, heard \in BOOLEAN : ServerHandles(c, heard)
  BY PushedAccepted
<1>0. UNCHANGED now
  BY DEF ServerPush, ServerPushLate
<1>2. CASE UNCHANGED database
  <2>1. Progress("client")
    BY <1>0, <1>2, ProgressNone DEF database
  <2> QED
    BY <2>1 DEF Node
<1>3. CASE ServerApplies(c, heard)
  <2>1. SetDatabase("server", ApplyChanges(Database("server"), {c}, Peer("server")))
    BY <1>3 DEF ServerApplies, Peer
  <2>2. {c} \subseteq Change /\ IsBatch({d \in {c} : IsMemo(d.key)})
    BY SingleBatch DEF Accepted, TypeInv, TypeOK, Receipt
  <2>3. \A d \in {c} : <<d.key, d.row>> \in Copies
    BY RowsCopied
  <2>4. "server" \in Node /\ "client" \in Node /\ Database("server").seen = rows["server"]
    BY DEF Node, Database
  <2>5. Progress("server")
    <3>1. /\ Grows("server")
          /\ \A k \in DOMAIN rows["server"] : rows'["server"][k].clk >= rows["server"][k].clk
          /\ \A d \in conflicts' \ conflicts :
               Readable(rows'["server"], d) \/ Readable(Database("server").seen, d)
      BY <1>0, <2>1, <2>2, <2>3, <2>4, ApplyGrows
    <3> QED
      BY <3>1 DEF Progress, Newer
  <2> QED
    BY <2>4, <2>5
<1> QED
  BY <1>1, <1>2, <1>3 DEF ServerHandles, ServerRefuses, ServerReplays, ServerRowFails

LEMMA ProgressPulled ==
    ASSUME TypeInv, CopiesInv, pc \in {"retrying", "applying"},
           NEW changes, changes \subseteq FeedChange, IsBatch({c \in changes : IsMemo(c.key)}),
           \A c \in changes : <<c.key, c.row>> \in Copies,
           ApplyPulled(changes), UNCHANGED now
    PROVE  Progress("client") /\ inbox' \subseteq inbox \cup changes
<1> DEFINE Based(c) == [seq |-> c.seq, key |-> c.key, row |-> c.row, base |-> BaseOf(c.key)]
<1>1. PICK good \in SUBSET changes :
          /\ SetDatabase("client", ApplyChanges(Database("client"),
                                                {Based(c) : c \in good}, "server"))
          /\ inbox' \subseteq inbox \cup changes
  <2>1. PICK failed \in SUBSET changes :
          /\ SetDatabase("client", ApplyChanges(Database("client"),
               {Based(c) : c \in (changes \ failed) \ Orphans(changes \ failed)}, "server"))
          /\ inbox' = (inbox \ changes) \cup Orphans(changes \ failed)
    BY DEF ApplyPulled
  <2>2. Orphans(changes \ failed) \subseteq changes
    BY DEF Orphans
  <2>3. (changes \ failed) \ Orphans(changes \ failed) \in SUBSET changes
    OBVIOUS
  <2> QED
    BY <2>1, <2>2, <2>3
<1> DEFINE batch == {Based(c) : c \in good}
<1>2. batch \subseteq Change /\ IsBatch({c \in batch : IsMemo(c.key)})
  BY BasedBatch
<1>3. \A c \in batch : <<c.key, c.row>> \in Copies
  <2>1. \A c \in batch : \E d \in changes : c.key = d.key /\ c.row = d.row
    OBVIOUS
  <2> QED
    BY <2>1
<1>4. "client" \in Node /\ "server" \in Node /\ Database("client").seen = view
  BY DEF Node, Database
<1> HIDE DEF batch
<1>5. SetDatabase("client", ApplyChanges(Database("client"), batch, Peer("client")))
  BY <1>1 DEF batch, Peer
<1>6. /\ Grows("client")
      /\ \A k \in DOMAIN rows["client"] :
           k \in DOMAIN view /\ view[k] = rows["client"][k]
             => rows'["client"][k].clk >= rows["client"][k].clk
      /\ \A d \in conflicts' \ conflicts :
           Readable(rows'["client"], d) \/ Readable(Database("client").seen, d)
  BY <1>2, <1>3, <1>4, <1>5, ApplyGrows
<1> QED
  BY <1>1, <1>6 DEF Progress, Newer, SavedMeanwhile

\* What a pull applies are copies: deferred rows, or rows of the feed.
LEMMA PullSources ==
    ASSUME TypeInv, CopiesInv, PullRetry \/ PullApply
    PROVE  /\ Progress("client")
           /\ inbox' \subseteq inbox \cup FeedChanges
<1>1. CASE PullRetry
  <2>1. InboxHead \subseteq FeedChange /\ InboxHead \subseteq inbox
    BY DEF InboxHead, TypeInv, TypeOK
  <2>2. {c \in InboxHead : IsMemo(c.key)} = {}
    BY DEF InboxHead, TypeInv
  <2>3. IsBatch({c \in InboxHead : IsMemo(c.key)})
    BY <2>2, FS_EmptySet DEF IsBatch
  <2>4. \A c \in InboxHead : <<c.key, c.row>> \in Copies
    BY <2>1, RowsCopied
  <2>5. pc \in {"retrying", "applying"} /\ ApplyPulled(InboxHead) /\ UNCHANGED now
    BY <1>1 DEF PullRetry
  <2>6. Progress("client") /\ inbox' \subseteq inbox \cup InboxHead
    BY <2>1, <2>3, <2>4, <2>5, ProgressPulled
  <2> QED
    BY <2>1, <2>6
<1>2. CASE PullApply
  <2>1. pc \in {"retrying", "applying"} /\ ApplyPulled(feed.changes) /\ UNCHANGED now
    BY <1>2 DEF PullApply
  <2>2. feed \in FeedMsg /\ IsBatch(feed.changes)
    BY <1>2 DEF PullApply, TypeInv, TypeOK
  <2>3. feed # NoMsg
    BY <2>2 DEF FeedMsg, NoMsg
  <2>4. feed.changes = FeedChanges /\ feed.changes \subseteq FeedChange
    BY <2>2, <2>3 DEF FeedChanges, FeedMsg
  <2>5. IsBatch({c \in feed.changes : IsMemo(c.key)})
    BY <2>2, FS_Subset DEF IsBatch
  <2>6. \A c \in feed.changes : <<c.key, c.row>> \in Copies
    BY <2>4, RowsCopied
  <2>7. Progress("client") /\ inbox' \subseteq inbox \cup feed.changes
    BY <2>1, <2>4, <2>5, <2>6, ProgressPulled
  <2> QED
    BY <2>4, <2>7
<1> QED
  BY <1>1, <1>2

LEMMA ProgressStep ==
    ASSUME TypeInv, DeliveryInv, CopiesInv, [Next]_vars
    PROVE  \E n \in Node : Progress(n)
<1>1. CASE \E n \in Node : Write(n)
  BY <1>1, ProgressWrite
<1>2. CASE ServerPush \/ ServerPushLate
  BY <1>2, ProgressServer
<1>3. CASE PullRetry \/ PullApply
  BY <1>3, PullSources DEF Node
<1>4. CASE UNCHANGED <<database, now>>
  BY <1>4, ProgressNone DEF database, Node
<1>5. CASE \/ StartCycle \/ SendPush \/ RetryDone \/ Collect \/ StartPush \/ PushDone
           \/ HandleReply \/ PullReads \/ InboxEmpty \/ PullRequest \/ AbortCycle
           \/ UNCHANGED vars
  BY <1>4, <1>5 DEF StartCycle, SendPush, RetryDone, Collect, StartPush, PushDone, HandleReply,
                    PullReads, InboxEmpty, PullRequest, AbortCycle, vars
<1> QED
  BY <1>1, <1>2, <1>3, <1>5 DEF Next, Daemon

\* The steps after which everything queued or on its way was a copy before.
LEMMA MovedSources ==
    ASSUME CopiesInv, NEW n \in Node, Grows(n),
           view' = view \/ view' = NoRows \/ (view' = rows["client"] /\ UNCHANGED rows),
           \A c \in (Accepted \cup inbox \cup FeedChanges)' : <<c.key, c.row>> \in Copies
    PROVE  Moved
<1>1. CASE view' = view
  <2>1. DOMAIN rows["client"] \subseteq DOMAIN rows'["client"]
    BY DEF Grows, Node
  <2> QED
    BY <1>1, <2>1, RowsCopied DEF CopiesInv, Moved
<1>2. CASE view' = NoRows
  BY <1>2 DEF NoRows, Moved
<1>3. CASE view' = rows["client"] /\ UNCHANGED rows
  BY <1>3, RowsCopied DEF Node, Moved
<1> QED
  BY <1>1, <1>2, <1>3

LEMMA MovedCollect ==
    ASSUME TypeInv, CopiesInv, Collect
    PROVE  Moved
<1> DEFINE l == log["client"]
           seqs == Scanned(l, pushed)
           Snapshot(s) == [seq |-> s, key |-> l[s], row |-> rows["client"][l[s]],
                           base |-> BaseOf(l[s])]
<1>1. /\ outbox' = outbox \cup {Snapshot(s) : s \in seqs}
      /\ UNCHANGED <<database, now, dead, receipts, inbox, feed, view>>
  BY DEF Collect, wire
<1>2. seqs \subseteq 1 .. Len(l)
  BY ScannedFinite DEF TypeInv, TypeOK, Node
<1>3. \A s \in seqs : l[s] \in DOMAIN rows["client"]
  BY <1>2 DEF TypeInv, Node
<1>4. \A s \in seqs : <<l[s], rows["client"][l[s]]>> \in Copies
  BY <1>3, RowsCopied DEF Node
<1> HIDE DEF seqs, l
<1>5. \A c \in outbox' \ outbox : <<c.key, c.row>> \in Copies
  <2>1. \A c \in outbox' \ outbox : \E s \in seqs : c.key = l[s] /\ c.row = rows["client"][l[s]]
    BY <1>1
  <2> QED
    BY <1>4, <2>1
<1>6. Accepted' \subseteq Accepted \cup (outbox' \ outbox) /\ FeedChanges' = FeedChanges
  BY <1>1 DEF Accepted, FeedChanges
<1>7. \A c \in (Accepted \cup inbox \cup FeedChanges)' : <<c.key, c.row>> \in Copies
  BY <1>1, <1>5, <1>6, RowsCopied
<1>8. Grows("client")
  BY <1>1, ProgressNone DEF Progress, database
<1> QED
  BY <1>1, <1>7, <1>8, MovedSources DEF Node

LEMMA MovedRequest ==
    ASSUME TypeInv, CopiesInv, PullRequest
    PROVE  Moved
<1> DEFINE l == log["server"]
           seqs == Scanned(l, pulled)
           Current(s) == [seq |-> s, key |-> l[s], row |-> rows["server"][l[s]]]
<1>1. UNCHANGED <<database, now, outbox, dead, receipts, inbox, view>>
  BY DEF PullRequest, disk
<1>2. feed' = feed \/ feed'.changes = {Current(s) : s \in seqs}
  BY DEF PullRequest
<1>3. seqs \subseteq 1 .. Len(l)
  BY ScannedFinite DEF TypeInv, TypeOK, Node
<1>4. \A s \in seqs : l[s] \in DOMAIN rows["server"]
  BY <1>3 DEF TypeInv, Node
<1>5. \A s \in seqs : <<l[s], rows["server"][l[s]]>> \in Copies
  BY <1>4, RowsCopied DEF Node
<1> HIDE DEF seqs, l
<1>6. \A c \in FeedChanges' : c \in FeedChanges \/
          \E s \in seqs : c.key = l[s] /\ c.row = rows["server"][l[s]]
  BY <1>2 DEF FeedChanges
<1>7. \A c \in (Accepted \cup inbox \cup FeedChanges)' : <<c.key, c.row>> \in Copies
  <2>1. Accepted' = Accepted
    BY <1>1 DEF Accepted
  <2> QED
    BY <1>1, <1>5, <1>6, <2>1, RowsCopied
<1>8. Grows("client")
  BY <1>1, ProgressNone DEF Progress, database
<1> QED
  BY <1>1, <1>7, <1>8, MovedSources DEF Node

LEMMA CopiesInit == Init => CopiesInv
<1> SUFFICES ASSUME Init PROVE CopiesInv
  OBVIOUS
<1>1. Accepted \cup inbox \cup FeedChanges = {} /\ DOMAIN view = {}
  BY DEF Init, Accepted, FeedChanges, NoRows
<1>2. \A p \in Copies : \E n \in Node : \E k \in DOMAIN rows[n] : p = <<k, rows[n][k]>>
  BY <1>1 DEF Copies
<1>3. \A n \in Node : \A k \in DOMAIN rows[n] : k[2] = 0 /\ WrittenAt(rows[n][k]) = 0
  BY ConstantsAssumption DEF Init, MemoKey, WrittenAt, SkewOf, ConstantsAssumption
<1>4. \A p \in Copies : p[1][2] = 0 /\ WrittenAt(p[2]) = 0
  BY <1>2, <1>3
<1> QED
  BY <1>1, <1>4 DEF CopiesInv, Init, IsMemo

LEMMA MovedStep ==
    ASSUME TypeInv, DeliveryInv, CopiesInv, [Next]_vars
    PROVE  Moved
<1>1. PICK n \in Node : Grows(n)
  BY ProgressStep DEF Progress
<1> DEFINE Sources == Accepted \cup inbox \cup FeedChanges
<1>2. CASE /\ view' = view \/ view' = NoRows \/ (view' = rows["client"] /\ UNCHANGED rows)
           /\ Accepted' = Accepted /\ inbox' \subseteq inbox \cup FeedChanges
           /\ feed' = feed \/ feed' = NoMsg
  <2>1. FeedChanges' \subseteq FeedChanges
    BY <1>2 DEF FeedChanges
  <2>2. Sources' \subseteq Sources
    BY <1>2, <2>1
  <2>3. \A c \in Sources' : <<c.key, c.row>> \in Copies
    BY <2>2, RowsCopied
  <2> QED
    BY <1>1, <1>2, <2>3, MovedSources
<1>3. UNCHANGED <<outbox, dead, receipts>> => Accepted' = Accepted
  BY DEF Accepted
<1>4. CASE \E o \in Node : Write(o)
  BY <1>2, <1>3, <1>4 DEF Write, CreateMemo, UpdateMemo, DeleteMemo, disk, wire
<1>5. CASE StartCycle \/ SendPush \/ RetryDone \/ StartPush \/ PushDone \/ InboxEmpty
  BY <1>2, <1>3, <1>5 DEF StartCycle, SendPush, RetryDone, StartPush, PushDone, InboxEmpty,
                          disk, wire
<1>6. CASE PullReads \/ AbortCycle
  BY <1>2, <1>3, <1>6 DEF PullReads, AbortCycle, database, disk
<1>7. CASE HandleReply
  BY <1>2, <1>7, HandleReplyAccepted DEF HandleReply
<1>8. CASE ServerPush \/ ServerPushLate
  BY <1>2, <1>8, DeliveryServer DEF ServerPush, ServerPushLate, disk
<1>9. CASE PullRetry \/ PullApply
  <2>1. inbox' \subseteq inbox \cup FeedChanges
    BY <1>9, PullSources
  <2> QED
    BY <1>2, <1>3, <1>9, <2>1 DEF PullRetry, PullApply
<1>10. CASE Collect
  BY <1>10, MovedCollect
<1>11. CASE PullRequest
  BY <1>11, MovedRequest
<1>12. CASE UNCHANGED vars
  BY <1>2, <1>3, <1>12 DEF vars, disk, wire
<1> QED
  BY <1>4, <1>5, <1>6, <1>7, <1>8, <1>9, <1>10, <1>11, <1>12 DEF Next, Daemon

LEMMA CopiesStep ==
    ASSUME TypeInv, DeliveryInv, CopiesInv, [Next]_vars
    PROVE  CopiesInv'
<1>1. PICK n \in Node : Grows(n)
  BY ProgressStep DEF Progress
<1> QED
  BY <1>1, TypeStep, MovedStep, CopiesKept

\* The body that lost a conflict stays readable: versions keep theirs for good.
LEMMA LoserStep ==
    ASSUME TypeInv, DeliveryInv, CopiesInv, ConflictLoserPreserved, [Next]_vars
    PROVE  ConflictLoserPreserved'
<1>1. TypeInv'
  BY TypeStep
<1>2. PICK n \in Node : Progress(n)
  BY ProgressStep
<1>3. ASSUME NEW o \in Node, NEW d, Readable(rows[o], d)
      PROVE  Readable(rows'[o], d)
  <2>1. PICK k \in DOMAIN rows[o] : k[1] = d.memo /\ ~IsMemo(k) /\ rows[o][k].val = d.lost
    BY <1>3 DEF Readable
  <2>2. k \in DOMAIN rows'[o] /\ rows'[o][k].val = rows[o][k].val
    BY <1>1, <1>2, <2>1, VersionsStay DEF Progress
  <2> QED
    BY <2>1, <2>2 DEF Readable
<1>4. ASSUME NEW d, Readable(Database(n).seen, d)
      PROVE  Readable(rows[n], d)
  <2>1. CASE Database(n).seen = rows[n]
    BY <1>4, <2>1
  <2>2. CASE n = "client" /\ Database(n).seen = view
    <3>1. PICK k \in DOMAIN view : k[1] = d.memo /\ ~IsMemo(k) /\ view[k].val = d.lost
      BY <1>4, <2>2 DEF Readable
    <3>2. k \in DOMAIN rows[n]
      BY <2>2, <3>1 DEF CopiesInv
    <3>3. rows[n][k].val = view[k].val
      BY <3>1, <3>2, RowsCopied DEF CopiesInv
    <3> QED
      BY <3>1, <3>2, <3>3 DEF Readable
  <2> QED
    BY <2>1, <2>2 DEF Database
<1>5. \A d \in conflicts : \E o \in Node : Readable(rows[o], d)
  BY DEF ConflictLoserPreserved, Readable
<1>6. \A d \in conflicts' : \E o \in Node : Readable(rows'[o], d)
  BY <1>2, <1>3, <1>4, <1>5 DEF Progress
<1> QED
  BY <1>6 DEF ConflictLoserPreserved, Readable

LEMMA CopiesInvariance == Spec => [](TypeInv /\ DeliveryInv /\ CopiesInv)
<1>1. TypeInv /\ DeliveryInv /\ CopiesInv /\ [Next]_vars => CopiesInv'
  BY CopiesStep
<1> QED
  BY <1>1, CopiesInit, Invariance, PTL DEF Spec

\* Whatever a pull or a push decides about a memo both sides changed, on rows read
\* before saves in between or not, the body that lost remains as a version.
THEOREM LoserPreserved == Spec => []ConflictLoserPreserved
<1>1. Init => ConflictLoserPreserved
  BY DEF Init, ConflictLoserPreserved
<1>2. TypeInv /\ DeliveryInv /\ CopiesInv /\ ConflictLoserPreserved /\ [Next]_vars
        => ConflictLoserPreserved'
  BY LoserStep
<1> QED
  BY <1>1, <1>2, CopiesInvariance, PTL DEF Spec

\* A row of another clock is replaced by an edit only within the nodes' difference.
LEMMA NewerWithinSkew ==
    ASSUME TypeInv, TypeInv', NEW n \in Node, NEW k \in DOMAIN rows[n], k \in DOMAIN rows'[n],
           Newer(n, k)
    PROVE  \/ rows[n][k].clk - rows'[n][k].clk < Greatest(1, Apart(Skew, 0))
           \/ n = "client" /\ SavedMeanwhile(k)
<1>1. rows[n][k] \in Row /\ rows'[n][k] \in Row
  BY DEF TypeInv, TypeOK, IsTable
<1>2. rows[n][k].clk \in Int /\ rows'[n][k].clk \in Int /\ now' \in Nat /\ rows[n][k].by \in Node
  BY <1>1 DEF Row, TypeInv, TypeOK
<1>3. CASE rows[n][k].clk <= rows'[n][k].clk
  BY <1>2, <1>3, ConstantsAssumption DEF Greatest, Apart, ConstantsAssumption
<1>4. CASE Stamped(n, k) /\ WrittenAt(rows[n][k]) < now'
  BY <1>2, <1>4, ConstantsAssumption
  DEF Stamped, WrittenAt, SkewOf, Greatest, Apart, ConstantsAssumption
<1> QED
  BY <1>3, <1>4 DEF Newer

\* No push, late push, pull or edit makes a row disappear or brings an older write
\* back, saves during a pull's transaction apart; where the clocks of the nodes differ,
\* an edit may set a row's clock back, by less than they differ.
THEOREM NothingRegresses == Spec => NoRegression
<1> DEFINE Kept == \A n \in Node : \A k \in DOMAIN rows[n] :
               /\ k \in DOMAIN rows'[n]
               /\ \/ rows[n][k].clk - rows'[n][k].clk < Greatest(1, Apart(Skew, 0))
                  \/ n = "client" /\ SavedMeanwhile(k)
<1>1. ASSUME TypeInv, DeliveryInv, CopiesInv, [Next]_vars
      PROVE  Kept
  <2>1. PICK n \in Node : Progress(n)
    BY <1>1, ProgressStep
  <2>2. TypeInv'
    BY <1>1, TypeStep
  <2> SUFFICES ASSUME NEW o \in Node, NEW k \in DOMAIN rows[o]
               PROVE  k \in DOMAIN rows'[o] /\ Newer(o, k)
    BY <1>1, <2>2, NewerWithinSkew
  <2>3. k \in DOMAIN rows'[o] /\ rows[o][k].clk \in Int
    BY <1>1, <2>1, StoredTyped DEF Progress, Grows
  <2>4. CASE o = n
    BY <2>1, <2>3, <2>4 DEF Progress
  <2>5. CASE o # n
    <3>1. rows'[o] = rows[o]
      BY <2>1, <2>5 DEF Progress, Grows
    <3> QED
      BY <2>3, <3>1 DEF Newer
  <2> QED
    BY <2>3, <2>4, <2>5
<1>2. TypeInv /\ DeliveryInv /\ CopiesInv /\ [Next]_vars => [Kept]_vars
  BY <1>1
<1> QED
  BY <1>2, CopiesInvariance, PTL DEF Spec, NoRegression

=============================================================================
