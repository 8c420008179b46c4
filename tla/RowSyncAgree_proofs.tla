------------------------- MODULE RowSyncAgree_proofs -------------------------
(***************************************************************************)
(* The replicas converge as far as their clocks agree: when nothing is       *)
(* pending in either direction both databases hold the same rows, and a      *)
(* memo differs only within the difference of the clocks.  The invariant     *)
(* says, row by row, that whatever one replica still lacks is on its way: in *)
(* the change log behind a cursor, queued, deferred or dead-lettered.        *)
(*                                                                         *)
(* The second half shows that a pulled batch may be applied row by row: the  *)
(* rows applied so far always leave what ApplyChanges says of them.          *)
(***************************************************************************)
EXTENDS RowSync_proofs, MCRowSync, WellFoundedInduction, SequenceTheorems

\* The log l has an entry of row k after position `since`.
LoggedIn(l, since, k) == \E s \in 1 .. Len(l) : since < s /\ l[s] = k

\* What node n has of row c at time t, with r in c's place: r is no older by its
\* clock, or c is the peer's, was written before, and seems newer by less than the
\* clocks differ.
Held(n, c, r, t) ==
    \/ c.clk <= r.clk
    \/ c.by # n /\ WrittenAt(c) < t /\ c.clk < r.clk + Apart(Skew, 0)

\* Table t of node n has the change, or a row in its place.
Covered(n, t, c, time) == c.key \in DOMAIN t /\ Held(n, c.row, t[c.key], time)

\* The laptop must still take the server's row.
Behind(k) ==
    /\ k \in DOMAIN rows["server"]
    /\ k \in DOMAIN rows["client"] =>
         \/ ~Held("client", rows["server"][k], rows["client"][k], now)
         \/ /\ Skew = 0 /\ rows["client"][k].clk = rows["server"][k].clk
            /\ Columns(rows["client"][k]) # Columns(rows["server"][k])

\* The server must still take the laptop's row.
Ahead(k) ==
    /\ k \in DOMAIN rows["client"]
    /\ k \in DOMAIN rows["server"] => ~Held("server", rows["client"][k], rows["server"][k], now)

PushPending(k) ==
    \/ LoggedIn(log["client"], pushed, k)
    \/ \E c \in outbox \cup dead : c.key = k /\ c.row = rows["client"][k]

PullPending(k) ==
    \/ LoggedIn(log["server"], pulled, k)
    \/ \E c \in inbox \cup pulldead : c.key = k

\* A feed holds, once, every row logged up to the cursor it brings.
CursorInv ==
    /\ pulled <= Len(log["server"])
    /\ feed # NoMsg =>
         /\ pc \in {"apply", "applying"}
         /\ feed.next <= Len(log["server"])
         /\ \A s \in 1 .. Len(log["server"]) : pulled < s /\ s <= feed.next =>
              \E c \in feed.changes : c.key = log["server"][s]
         /\ \A c, d \in feed.changes : c.key = d.key => c = d

\* An answer tells the outcome that was booked.
ReplyInv ==
    reply # NoMsg => \/ reply.status = "refused"
                     \/ \E r \in receipts : r.seq = reply.seq /\ r.status = reply.status

\* Of what the server wrote it has the last.
OwnInv ==
    \A p \in Copies : p[2].by = "server" =>
        p[1] \in DOMAIN rows["server"] /\ p[2].clk <= rows["server"][p[1]].clk

\* What the server sent, or took, it has, unless it was overwritten since.
ServerCovers ==
    /\ \A c \in FeedChanges \cup inbox : Covered("server", rows["server"], c, now)
    /\ \A r \in receipts : r.status # "rejected" => Covered("server", rows["server"], r.change, now)

\* What the laptop collected it has, and the transaction of a pull sees it; what
\* that has seen can only have been edited since.
ClientCovers ==
    /\ \A c \in Accepted : Covered("client", rows["client"], c, now)
    /\ pc \in {"retrying", "applying"} =>
         /\ \A c \in Accepted : Covered("client", view, c, now)
         /\ \A k \in DOMAIN view :
              view[k] = rows["client"][k] \/ WrittenAt(view[k]) < WrittenAt(rows["client"][k])
         /\ \A c \in FeedChanges \cup inbox :
              c.key \in DOMAIN view /\ c.row.clk <= view[c.key].clk =>
                Covered("client", rows["client"], c, now)

\* Another row of the same clock took the place of a collected one only by a pull,
\* which the server won.
SameClock == Skew = 0 =>
    \A c \in Accepted : rows["client"][c.key].clk = c.row.clk =>
        \/ Columns(rows["client"][c.key]) = Columns(c.row)
        \/ Covered("server", rows["server"], c, now)

\* Row c of the feed is the server's, or is logged again after `since`, or a push
\* replaced it by one of the laptop's.
Current(c, since) ==
    \/ LoggedIn(log["server"], since, c.key)
    \/ rows["server"][c.key] = c.row
    \/ /\ ~Behind(c.key)
       /\ \E d \in Accepted : d.key = c.key /\ d.row.by = "client" /\ c.row.clk < d.row.clk

FeedCurrent == \A c \in FeedChanges : Current(c, feed.next)

AheadPending  == \A k \in Key : Ahead(k) => PushPending(k)
BehindPending == \A k \in Key : Behind(k) => PullPending(k)

AgreeInv ==
    /\ CursorInv /\ ReplyInv
    /\ ServerCovers /\ ClientCovers
    /\ SameClock /\ FeedCurrent
    /\ AheadPending /\ BehindPending

\* One push at a time, and only while the queue is delivered.
CallInv ==
    /\ request = NoMsg \/ reply = NoMsg
    /\ request # NoMsg \/ reply # NoMsg => pc \in {"retry", "push"}

\* What every step preserves, taken together.
SyncInv == TypeInv /\ DeliveryInv /\ CopiesInv /\ OwnInv /\ CallInv /\ AgreeInv

-----------------------------------------------------------------------------
(* Logs.                                                                     *)

\* A finite set of numbers has a greatest one: otherwise take the least of its
\* subsets without one, and remove an element.
LEMMA GreatestExists ==
    ASSUME NEW S \in SUBSET Nat, IsFiniteSet(S), S # {}
    PROVE  \E x \in S : \A y \in S : y <= x
<1> DEFINE None == {T \in SUBSET S : T # {} /\ \A x \in T : \E y \in T : ~(y <= x)}
<1>1. None = {}
  <2> SUFFICES ASSUME None # {} PROVE FALSE
    OBVIOUS
  <2>1. IsWellFoundedOn(StrictSubsetOrdering(S), SUBSET S)
    BY FS_StrictSubsetOrderingWellFounded, FS_FiniteSubsetsOfFinite
  <2> HIDE DEF None
  <2>2. None \subseteq SUBSET S
    BY DEF None
  <2>3. PICK T \in None : \A U \in None : ~(<<U, T>> \in StrictSubsetOrdering(S))
    BY <2>1, <2>2, WFMin
  <2>4. PICK a \in T : TRUE
    BY <2>3 DEF None
  <2>5. T \ {a} # {}
    BY <2>3, <2>4 DEF None
  <2>6. T \ {a} \notin None
    BY <2>2, <2>3, <2>4 DEF StrictSubsetOrdering
  <2>7. PICK b \in T \ {a} : \A y \in T \ {a} : y <= b
    BY <2>2, <2>5, <2>6 DEF None
  <2>8. a \in Nat /\ b \in Nat /\ T \subseteq Nat
    BY <2>2, <2>4, <2>7
  <2>9. (\A y \in T : y <= a) \/ (\A y \in T : y <= b)
    BY <2>7, <2>8
  <2> QED
    BY <2>4, <2>7, <2>9 DEF None
<1>2. S \notin None
  BY <1>1
<1> QED
  BY <1>2

\* The last entry of its row among those scanned stands for every other.
LEMMA ScannedStands ==
    ASSUME NEW l \in Seq(Key), NEW since \in Nat, NEW s \in since + 1 .. ScanEnd(l, since)
    PROVE  \E t \in Scanned(l, since) : l[t] = l[s]
<1> DEFINE S == {t \in since + 1 .. ScanEnd(l, since) : l[t] = l[s]}
<1>1. ScanEnd(l, since) \in Nat
  BY ScanEndType
<1>2. IsFiniteSet(since + 1 .. ScanEnd(l, since)) /\ S \in SUBSET (since + 1 .. ScanEnd(l, since))
  BY <1>1, FS_Interval
<1>3. IsFiniteSet(S)
  BY <1>2, FS_Subset
<1>4. S \in SUBSET Nat /\ S # {}
  BY <1>1
<1>5. PICK t \in S : \A u \in S : u <= t
  BY <1>3, <1>4, GreatestExists
<1>6. \A u \in t + 1 .. ScanEnd(l, since) : l[u] # l[t]
  BY <1>1, <1>5
<1> QED
  BY <1>5, <1>6 DEF Scanned

LEMMA LoggedStays ==
    ASSUME NEW l \in Seq(Key), NEW m \in Seq(Key), IsExtension(m, l),
           NEW since, NEW k, LoggedIn(l, since, k)
    PROVE  LoggedIn(m, since, k)
BY DEF LoggedIn, IsExtension

LEMMA LoggedEarlier ==
    ASSUME NEW l \in Seq(Key), NEW since \in Int, NEW earlier \in Int, earlier <= since,
           NEW k, LoggedIn(l, since, k)
    PROVE  LoggedIn(l, earlier, k)
BY DEF LoggedIn

-----------------------------------------------------------------------------
(* Steps.  A step writes rows of one node: the API's, logged; those of a batch *)
(* B that win over the rows seen; and preserved losers, new and logged.        *)

Untouched(n, k) == k \in DOMAIN rows[n] /\ rows'[n][k] = rows[n][k]

Logged(n, k) ==
    /\ LoggedIn(log'[n], Len(log[n]), k)
    /\ IF k \in DOMAIN rows[n] THEN Stamped(n, k) /\ WrittenAt(rows[n][k]) < now'
       ELSE \A o \in Node : k \notin DOMAIN rows[o]

\* The incoming row wins, or loses, against the one seen on node n.
Wins(n, c) ==
    LET seen == Database(n).seen
    IN  c.key \in DOMAIN seen =>
          \/ seen[c.key].clk < c.row.clk
          \/ n = "client" /\ seen[c.key].clk = c.row.clk

Loses(n, c) ==
    LET seen == Database(n).seen
    IN  /\ c.key \in DOMAIN seen
        /\ \/ Columns(seen[c.key]) = Columns(c.row)
           \/ c.row.clk < seen[c.key].clk
           \/ n = "server" /\ c.row.clk = seen[c.key].clk

Stepped(n, B) ==
    /\ now <= now'
    /\ \A o \in Node : IsExtension(log'[o], log[o]) /\ DOMAIN rows[o] \subseteq DOMAIN rows'[o]
    /\ \A o \in Node \ {n} : rows'[o] = rows[o] /\ log'[o] = log[o]
    /\ \A k \in DOMAIN rows'[n] :
         \/ Untouched(n, k)
         \/ Logged(n, k)
         \/ \E c \in B : c.key = k /\ Wins(n, c) /\ rows'[n][k] = c.row
    /\ \A c \in B : \/ Wins(n, c) /\ c.key \in DOMAIN rows'[n] /\ rows'[n][c.key] = c.row
                    \/ Loses(n, c) /\ Untouched(n, c.key)

LEMMA SteppedNone ==
    ASSUME TypeInv, UNCHANGED <<rows, log, now>>, NEW n \in Node
    PROVE  Stepped(n, {})
BY SameIsExtension DEF Stepped, Untouched, TypeInv, TypeOK

\* What the invariants say of clocks are comparisons of integers.
LEMMA Clocks ==
    ASSUME TypeInv
    PROVE  /\ \A n \in Node : \A k \in DOMAIN rows[n] :
                k \in Key /\ rows[n][k] \in Row /\ rows[n][k].clk \in Int
           /\ \A k \in DOMAIN view : k \in Key /\ view[k] \in Row /\ view[k].clk \in Int
           /\ \A c \in Accepted \cup inbox \cup FeedChanges :
                c.key \in Key /\ c.row \in Row /\ c.row.clk \in Int
           /\ \A n \in Node : log[n] \in Seq(Key) /\ Len(log[n]) \in Nat
           /\ pushed \in Nat /\ pulled \in Nat /\ now \in Nat
<1>1. \A n \in Node : \A k \in DOMAIN rows[n] : k \in Key /\ rows[n][k] \in Row
  BY DEF TypeInv, TypeOK, IsTable
<1>2. \A k \in DOMAIN view : k \in Key /\ view[k] \in Row
  BY DEF TypeInv, TypeOK, IsTable
<1>3. FeedChanges \subseteq FeedChange
  BY DEF FeedChanges, TypeInv, TypeOK, FeedMsg
<1>4. Accepted \subseteq Change /\ inbox \subseteq FeedChange
  BY DEF Accepted, TypeInv, TypeOK, Receipt
<1>5. \A c \in Accepted \cup inbox \cup FeedChanges : c.key \in Key /\ c.row \in Row
  BY <1>3, <1>4 DEF Change, FeedChange
<1>6. \A row \in Row : row.clk \in Int
  BY DEF Row
<1>7. \A n \in Node : log[n] \in Seq(Key) /\ Len(log[n]) \in Nat
  BY DEF TypeInv, TypeOK
<1> QED
  BY <1>1, <1>2, <1>5, <1>6, <1>7 DEF TypeInv, TypeOK

\* The rows after the step have their types, too.
LEMMA ClocksAfter ==
    ASSUME TypeInv'
    PROVE  /\ \A n \in Node : \A k \in DOMAIN rows'[n] :
                rows'[n][k] \in Row /\ rows'[n][k].clk \in Int
           /\ now' \in Nat
BY DEF TypeInv, TypeOK, IsTable, Row

\* No row comes from the future.
LEMMA Times ==
    ASSUME CopiesInv
    PROVE  /\ \A n \in Node : \A k \in DOMAIN rows[n] : WrittenAt(rows[n][k]) <= now
           /\ \A c \in Accepted \cup inbox \cup FeedChanges : WrittenAt(c.row) <= now
<1>1. ASSUME NEW n \in Node, NEW k \in DOMAIN rows[n] PROVE WrittenAt(rows[n][k]) <= now
  <2>1. <<k, rows[n][k]>> \in Copies /\ <<k, rows[n][k]>>[2] = rows[n][k]
    BY RowsCopied
  <2> QED
    BY <2>1 DEF CopiesInv
<1>2. ASSUME NEW c \in Accepted \cup inbox \cup FeedChanges PROVE WrittenAt(c.row) <= now
  <2>1. <<c.key, c.row>> \in Copies /\ <<c.key, c.row>>[2] = c.row
    BY RowsCopied
  <2> QED
    BY <2>1 DEF CopiesInv
<1> QED
  BY <1>1, <1>2

LEMMA HeldSelf ==
    ASSUME NEW c, c.clk \in Int, NEW n, NEW t
    PROVE  Held(n, c, c, t)
BY DEF Held

\* A row stays held when time passes and the row in its place is kept, loses to one
\* that is no older, or is edited.
LEMMA HeldStays ==
    ASSUME NEW n \in Node, NEW c \in Row, NEW r \in Row, NEW s \in Row,
           NEW t \in Nat, NEW u \in Nat, t <= u, WrittenAt(c) <= t, Held(n, c, r, t),
           \/ r.clk <= s.clk
           \/ s.by = n /\ s.clk = u + SkewOf(n) /\ WrittenAt(r) < u
    PROVE  Held(n, c, s, u)
<1>1. /\ c.clk \in Int /\ r.clk \in Int /\ s.clk \in Int /\ Skew \in Int
      /\ c.by \in Node /\ r.by \in Node
  BY ConstantsAssumption DEF Row, ConstantsAssumption
<1>2. Apart(Skew, 0) = (IF Skew > 0 THEN Skew ELSE 0 - Skew)
  BY <1>1 DEF Apart, Greatest
<1>3. CASE r.clk <= s.clk
  BY <1>1, <1>2, <1>3 DEF Held, WrittenAt, SkewOf
<1>4. CASE s.by = n /\ s.clk = u + SkewOf(n) /\ WrittenAt(r) < u
  BY <1>1, <1>2, <1>4 DEF Held, WrittenAt, SkewOf, Node
<1> QED
  BY <1>3, <1>4

\* r is what is left of database db when the changes were applied: each of their rows
\* is written or leaves the row there is; what else is new is a preserved loser, logged.
TakesBatch(db, changes, side, r) ==
    /\ \A k \in DOMAIN r.rows :
         \/ k \in DOMAIN db.rows /\ r.rows[k] = db.rows[k]
         \/ \E c \in changes : c.key = k /\ IsWritten(db, c, side) /\ r.rows[k] = c.row
         \/ db.ids < k[2] /\ LoggedIn(r.log, Len(db.log), k)
    /\ \A c \in changes :
         /\ c.key \in DOMAIN r.rows
         /\ IF IsWritten(db, c, side) THEN r.rows[c.key] = c.row
            ELSE c.key \in DOMAIN db.rows /\ r.rows[c.key] = db.rows[c.key]

\* So it is for a batch of one row per key whose ids are known.
LEMMA AppliedBatch ==
    ASSUME NEW db, IsDatabase(db), IsTable(db.seen, Row), DOMAIN db.seen \subseteq DOMAIN db.rows,
           now \in Nat, NEW side \in Node, NEW changes, changes \subseteq Change,
           IsBatch({c \in changes : IsMemo(c.key)}),
           \A c, d \in changes : c.key = d.key => c.row = d.row,
           \A c \in changes : c.key[2] <= db.ids
    PROVE  TakesBatch(db, changes, side, ApplyChanges(db, changes, side))
<1> DEFINE kept == Preserved(db, changes, side)
           Saved(k) == {c \in kept : VersionKey(db, kept, c) = k}
           Written(k) == {c \in changes : c.key = k /\ IsWritten(db, c, side)}
           Nth(i) == CHOOSE c \in kept : Rank(kept, c) = i
           added == [i \in 1 .. Cardinality(kept) |-> VersionKey(db, kept, Nth(i))]
           r == ApplyChanges(db, changes, side)
           dom == DOMAIN db.rows \cup {c.key : c \in UNION {Written(c.key) : c \in changes}}
                     \cup {VersionKey(db, kept, c) : c \in kept}
           new(k) == IF \E c \in kept : VersionKey(db, kept, c) = k
                     THEN VersionRow(Peer(side), LoserBody(db, CHOOSE c \in Saved(k) : TRUE, side), now)
                     ELSE IF Written(k) = {} THEN db.rows[k]
                     ELSE (CHOOSE c \in Written(k) : TRUE).row
<1>1. kept \subseteq {c \in changes : IsMemo(c.key)}
  BY DEF Preserved, Conflicts
<1>2. IsBatch(kept)
  BY <1>1, FS_Subset DEF IsBatch
<1>3. r.rows = [k \in dom |-> new(k)] /\ r.log = db.log \o added
  BY DEF ApplyChanges
<1>4. IsDatabase(r)
  BY ApplyTyped
<1>5. Cardinality(kept) \in Nat /\ db.ids \in Nat /\ db.log \in Seq(Key) /\ r.log \in Seq(Key)
  BY <1>2, <1>4, FS_CardinalityType DEF IsBatch, IsDatabase
<1>6. ASSUME NEW c \in kept
      PROVE  /\ Rank(kept, c) \in 1 .. Cardinality(kept)
             /\ VersionKey(db, kept, c)[2] = db.ids + Rank(kept, c)
             /\ Nth(Rank(kept, c)) = c
  <2>1. Rank(kept, c) \in 1 .. Cardinality(kept)
    BY <1>2, <1>6, RankType
  <2>2. ASSUME NEW e \in kept, Rank(kept, e) = Rank(kept, c) PROVE e = c
    BY <1>2, <1>6, <2>2, RankInjective
  <2> QED
    BY <1>6, <2>1, <2>2 DEF VersionKey
<1>7. added \in Seq(Key) /\ Len(added) = Cardinality(kept)
  <2>1. \A i \in 1 .. Cardinality(kept) : Nth(i) \in kept
    BY <1>2, RankOnto
  <2>2. \A c \in kept : VersionKey(db, kept, c) \in Key
    <3> SUFFICES ASSUME NEW c \in kept PROVE VersionKey(db, kept, c) \in Key
      OBVIOUS
    <3>1. Rank(kept, c) \in Nat /\ c.key \in Memo \X Nat
      BY <1>1, <1>5, <1>6 DEF Change, Key
    <3> QED
      BY <1>5, <3>1 DEF VersionKey, Key
  <2>3. \A i \in 1 .. Cardinality(kept) : VersionKey(db, kept, Nth(i)) \in Key
    BY <2>1, <2>2
  <2> HIDE DEF kept, Nth
  <2> QED
    BY <1>5, <2>3
<1>8. ASSUME NEW c \in kept
      PROVE  db.ids < VersionKey(db, kept, c)[2] /\ LoggedIn(r.log, Len(db.log), VersionKey(db, kept, c))
  <2> DEFINE i == Rank(kept, c)
  <2>1. i \in 1 .. Cardinality(kept) /\ added[i] = VersionKey(db, kept, c)
    BY <1>6
  <2> HIDE DEF i, added, kept, r
  <2>2. i \in 1 .. Len(added)
    BY <1>7, <2>1
  <2>3. /\ Len(db.log) + i \in 1 .. Len(r.log) /\ Len(db.log) < Len(db.log) + i
        /\ r.log[Len(db.log) + i] = added[i]
    BY <1>3, <1>5, <1>7, <2>2
  <2> QED
    BY <1>5, <1>6, <2>1, <2>3 DEF LoggedIn, i
<1> HIDE DEF r, kept, added
<1>9. ASSUME NEW k \in dom, ~(\E c \in kept : VersionKey(db, kept, c) = k)
      PROVE  IF Written(k) = {} THEN k \in DOMAIN db.rows /\ r.rows[k] = db.rows[k]
             ELSE \A c \in Written(k) : r.rows[k] = c.row
  <2>1. CASE Written(k) = {}
    BY <1>3, <1>9, <2>1
  <2>2. CASE Written(k) # {}
    <3>1. (CHOOSE c \in Written(k) : TRUE) \in Written(k)
      BY <2>2
    <3>2. r.rows[k] = (CHOOSE c \in Written(k) : TRUE).row
      BY <1>3, <1>9, <2>2
    <3> QED
      BY <2>2, <3>1, <3>2
  <2> QED
    BY <2>1, <2>2
<1>10. DOMAIN r.rows = dom
  BY <1>3
<1>11. ASSUME NEW k \in DOMAIN r.rows
       PROVE  \/ k \in DOMAIN db.rows /\ r.rows[k] = db.rows[k]
              \/ \E c \in changes : c.key = k /\ IsWritten(db, c, side) /\ r.rows[k] = c.row
              \/ db.ids < k[2] /\ LoggedIn(r.log, Len(db.log), k)
  <2>1. CASE \E c \in kept : VersionKey(db, kept, c) = k
    BY <1>8, <2>1
  <2>2. CASE ~(\E c \in kept : VersionKey(db, kept, c) = k)
    BY <1>9, <1>10, <1>11, <2>2
  <2> QED
    BY <2>1, <2>2
<1>12. ASSUME NEW c \in changes
       PROVE  /\ c.key \in DOMAIN r.rows
              /\ IF IsWritten(db, c, side) THEN r.rows[c.key] = c.row
                 ELSE c.key \in DOMAIN db.rows /\ r.rows[c.key] = db.rows[c.key]
  <2>1. c.key[2] \in Nat
    BY DEF Change, Key
  <2>2. ~(\E d \in kept : VersionKey(db, kept, d) = c.key)
    BY <1>5, <1>8, <2>1
  <2>3. CASE IsWritten(db, c, side)
    <3>1. c \in Written(c.key)
      BY <2>3
    <3>2. c.key \in dom
      BY <3>1
    <3> QED
      BY <1>9, <1>10, <2>2, <2>3, <3>1, <3>2
  <2>4. CASE ~IsWritten(db, c, side)
    <3>1. c.key \in DOMAIN db.rows
      BY <2>4 DEF IsWritten, Exists
    <3>2. Written(c.key) = {}
      <4>1. ASSUME NEW d \in Written(c.key) PROVE FALSE
        <5>1. d.key = c.key /\ d.row = c.row /\ IsWritten(db, d, side)
          BY <4>1
        <5> QED
          BY <2>4, <5>1 DEF IsWritten, SameRow, Exists, IncomingWins
      <4> QED
        BY <4>1
    <3> QED
      BY <1>9, <1>10, <2>2, <2>4, <3>1, <3>2
  <2> QED
    BY <2>3, <2>4
<1> QED
  BY <1>11, <1>12 DEF r, TakesBatch

\* Applying copies is such a step of the node.
LEMMA SteppedApply ==
    ASSUME TypeInv, CopiesInv, NEW n \in Node, NEW changes, changes \subseteq Change,
           IsBatch({c \in changes : IsMemo(c.key)}),
           \A c, d \in changes : c.key = d.key => c.row = d.row,
           \A c \in changes : <<c.key, c.row>> \in Copies,
           SetDatabase(n, ApplyChanges(Database(n), changes, Peer(n))), UNCHANGED now
    PROVE  Stepped(n, changes)
<1> DEFINE db == Database(n)
           side == Peer(n)
           r == ApplyChanges(db, changes, side)
<1>1. IsDatabase(db) /\ IsTable(db.seen, Row) /\ now \in Nat /\ side \in Node
  BY TypeInvDatabase DEF TypeInv, TypeOK, Peer, Node
<1>2. db.rows = rows[n] /\ db.ids = ids /\ db.log = log[n] /\ DOMAIN db.seen \subseteq DOMAIN db.rows
  BY DEF Database, CopiesInv, Node
<1>3. \A c \in changes : c.key[2] <= db.ids
  <2>1. \A c \in changes : <<c.key, c.row>>[1][2] <= ids
    BY DEF CopiesInv
  <2> QED
    BY <1>2, <2>1
<1> HIDE DEF db, side
<1>4. TakesBatch(db, changes, side, r)
  BY <1>1, <1>2, <1>3, AppliedBatch
<1>5. IsExtension(r.log, db.log) /\ DOMAIN db.rows \subseteq DOMAIN r.rows
  <2>1. IsExtension(r.log, db.log)
    BY <1>1, ApplyTyped
  <2>2. DOMAIN db.rows \subseteq DOMAIN r.rows
    BY DEF ApplyChanges
  <2> QED
    BY <2>1, <2>2
<1> HIDE DEF r
<1>6. /\ rows'[n] = r.rows /\ log'[n] = r.log
      /\ \A o \in Node \ {n} : rows'[o] = rows[o] /\ log'[o] = log[o]
  BY DEF SetDatabase, TypeInv, TypeOK, db, r, side
<1>7. \A o \in Node : log[o] \in Seq(Key) /\ IsExtension(log[o], log[o])
  BY SameIsExtension DEF TypeInv, TypeOK
<1>8. ASSUME NEW c \in changes, IsWritten(db, c, side) PROVE Wins(n, c)
  <2>1. CASE c.key \in DOMAIN db.seen
    <3>1. c.row.clk \in Int /\ db.seen[c.key].clk \in Int
      BY <1>1, <2>1 DEF Change, Row, IsTable
    <3>2. side = "server" => n = "client"
      BY DEF side, Peer, Node
    <3> QED
      BY <1>8, <2>1, <3>1, <3>2 DEF Wins, IsWritten, IncomingWins, Exists, db
  <2>2. CASE c.key \notin DOMAIN db.seen
    BY <2>2 DEF Wins, db
  <2> QED
    BY <2>1, <2>2
<1>9. ASSUME NEW c \in changes, ~IsWritten(db, c, side) PROVE Loses(n, c)
  <2>1. c.key \in DOMAIN db.seen
    BY <1>9 DEF IsWritten, Exists
  <2>2. c.row.clk \in Int /\ db.seen[c.key].clk \in Int
    BY <1>1, <2>1 DEF Change, Row, IsTable
  <2>3. side # "server" => n = "server"
    BY DEF side, Peer, Node
  <2> QED
    BY <1>9, <2>1, <2>2, <2>3 DEF Loses, IsWritten, IncomingWins, SameRow, Exists, db
<1>10. ASSUME NEW k, ids < k[2], NEW o \in Node PROVE k \notin DOMAIN rows[o]
  BY <1>10, StoredTyped
<1>11. ASSUME NEW k \in DOMAIN rows'[n]
       PROVE  \/ Untouched(n, k)
              \/ Logged(n, k)
              \/ \E c \in changes : c.key = k /\ Wins(n, c) /\ rows'[n][k] = c.row
  <2>1. CASE k \in DOMAIN db.rows /\ r.rows[k] = db.rows[k]
    BY <1>2, <1>6, <2>1 DEF Untouched
  <2>2. CASE \E c \in changes : c.key = k /\ IsWritten(db, c, side) /\ r.rows[k] = c.row
    BY <1>6, <1>8, <2>2
  <2>3. CASE db.ids < k[2] /\ LoggedIn(r.log, Len(db.log), k)
    BY <1>2, <1>6, <1>10, <2>3 DEF Logged
  <2> QED
    BY <1>4, <1>6, <1>11, <2>1, <2>2, <2>3 DEF TakesBatch
<1>12. \A c \in changes : \/ Wins(n, c) /\ c.key \in DOMAIN rows'[n] /\ rows'[n][c.key] = c.row
                          \/ Loses(n, c) /\ Untouched(n, c.key)
  BY <1>2, <1>4, <1>6, <1>8, <1>9 DEF Untouched, TakesBatch
<1>13. \A o \in Node : IsExtension(log'[o], log[o]) /\ DOMAIN rows[o] \subseteq DOMAIN rows'[o]
  BY <1>2, <1>5, <1>6, <1>7
<1> QED
  BY <1>1, <1>6, <1>11, <1>12, <1>13 DEF Stepped

\* So is a save, which meets no batch.
LEMMA SteppedWrite ==
    ASSUME TypeInv, CopiesInv, NEW n \in Node, Write(n)
    PROVE  /\ Stepped(n, {})
           /\ UNCHANGED <<disk, receipts, pc, todo, wire, aborts, failures, applies>>
<1>1. PICK m \in Memo, row \in Row, keepBody \in BOOLEAN :
          /\ SaveMemo(n, m, row, keepBody)
          /\ keepBody => MemoKey(m) \in DOMAIN rows[n]
          /\ row.clk = now' + SkewOf(n) /\ row.by = n
          /\ IF MemoKey(m) \in DOMAIN rows[n] THEN WriteAfter(rows[n][MemoKey(m)])
             ELSE \A o \in Node : MemoKey(m) \notin DOMAIN rows[o]
  BY WriteSaves
<1>2. /\ now' \in Nat /\ now <= now'
      /\ UNCHANGED <<disk, receipts, pc, todo, wire, aborts, failures, applies>>
  BY WriteSaves
<1>3. /\ Grows(n)
      /\ \A k \in DOMAIN rows[n] : rows'[n][k] = IF k = MemoKey(m) THEN row ELSE rows[n][k]
      /\ \A k \in DOMAIN rows'[n] \ DOMAIN rows[n] :
           k = MemoKey(m) \/ (k = <<m, ids + 1>> /\ ids' = ids + 1)
  BY <1>1, <1>2, SaveGrows
<1>4. /\ log'[n] \in Seq(Key) /\ log[n] \in Seq(Key)
      /\ IsExtension(log'[n], log[n])
      /\ \A o \in Node \ {n} : rows'[o] = rows[o] /\ log'[o] = log[o]
  <2>1. DatabaseTypes' /\ IsExtension(log'[n], log[n])
    BY <1>1, <1>2, SaveMemoTyped
  <2>2. \A o \in Node \ {n} : rows'[o] = rows[o] /\ log'[o] = log[o]
    BY <1>1 DEF SaveMemo, TypeInv, TypeOK
  <2> QED
    BY <2>1, <2>2 DEF DatabaseTypes, TypeInv, TypeOK
<1>5. /\ LoggedIn(log'[n], Len(log[n]), MemoKey(m))
      /\ ids' = ids + 1 => LoggedIn(log'[n], Len(log[n]), <<m, ids + 1>>)
  <2> DEFINE kept == keepBody /\ rows[n][MemoKey(m)].val # Empty
             v == <<m, ids + 1>>
             l == log[n]
             k == MemoKey(m)
  <2>1. /\ log'[n] = l \o (IF kept THEN <<v>> ELSE << >>) \o <<k>>
        /\ ids' = IF kept THEN ids + 1 ELSE ids
    BY <1>1 DEF SaveMemo, TypeInv, TypeOK
  <2>2. ids \in Nat /\ l \in Seq(Key) /\ v \in Key /\ k \in Key
    BY <1>4 DEF TypeInv, TypeOK, Key, MemoKey
  <2> HIDE DEF kept, l, v, k
  <2>3. CASE kept
    <3>1. log'[n] = l \o <<v>> \o <<k>>
      BY <2>1, <2>3
    <3>2. Len(log'[n]) = Len(l) + 2 /\ log'[n][Len(l) + 1] = v /\ log'[n][Len(l) + 2] = k
      BY <2>2, <3>1
    <3>3. Len(l) \in Nat
      BY <2>2
    <3>4. LoggedIn(log'[n], Len(l), v) /\ LoggedIn(log'[n], Len(l), k)
      BY <3>2, <3>3 DEF LoggedIn
    <3> QED
      BY <3>4 DEF l, v, k
  <2>4. CASE ~kept
    <3>1. log'[n] = l \o << >> \o <<k>> /\ ids' # ids + 1
      BY <2>1, <2>2, <2>4
    <3>2. Len(log'[n]) = Len(l) + 1 /\ log'[n][Len(l) + 1] = k
      BY <2>2, <3>1
    <3>3. Len(l) \in Nat
      BY <2>2
    <3>4. LoggedIn(log'[n], Len(l), k)
      BY <3>2, <3>3 DEF LoggedIn
    <3> QED
      BY <3>1, <3>4 DEF l, k
  <2> QED
    BY <2>3, <2>4
<1>6. ASSUME NEW k \in DOMAIN rows'[n] PROVE Untouched(n, k) \/ Logged(n, k)
  <2>1. CASE k \in DOMAIN rows[n] /\ k # MemoKey(m)
    BY <1>3, <2>1 DEF Untouched
  <2>2. CASE k \in DOMAIN rows[n] /\ k = MemoKey(m)
    <3>1. WrittenAt(rows[n][k]) \in Int
      BY <2>2, Clocks, TimeTyped
    <3>2. Stamped(n, k) /\ WrittenAt(rows[n][k]) < now'
      BY <1>1, <1>2, <1>3, <2>2, <3>1 DEF WriteAfter, WrittenAt, Stamped
    <3> QED
      BY <1>5, <2>2, <3>2 DEF Logged
  <2>3. CASE k \notin DOMAIN rows[n] /\ k = MemoKey(m)
    BY <1>1, <1>5, <2>3 DEF Logged
  <2>4. CASE k \notin DOMAIN rows[n] /\ k # MemoKey(m)
    <3>1. k = <<m, ids + 1>> /\ ids' = ids + 1
      BY <1>3, <1>6, <2>4
    <3>2. \A o \in Node : k \notin DOMAIN rows[o]
      <4>1. SUFFICES ASSUME NEW o \in Node, k \in DOMAIN rows[o] PROVE FALSE
        OBVIOUS
      <4>2. k[2] <= ids /\ ids \in Nat
        BY <4>1, StoredTyped
      <4> QED
        BY <3>1, <4>2
    <3> QED
      BY <1>5, <2>4, <3>1, <3>2 DEF Logged
  <2> QED
    BY <2>1, <2>2, <2>3, <2>4
<1>7. \A o \in Node : IsExtension(log'[o], log[o]) /\ DOMAIN rows[o] \subseteq DOMAIN rows'[o]
  BY <1>3, <1>4, SameIsExtension DEF Grows, TypeInv, TypeOK
<1> QED
  BY <1>2, <1>4, <1>6, <1>7 DEF Stepped

-----------------------------------------------------------------------------
(* A step on the server: a save, or the push of an accepted change.          *)

\* A row that is held stays so as time passes.
LEMMA HeldLater ==
    ASSUME TypeInv, TypeInv', now <= now', NEW n \in Node, NEW row \in Row, NEW r \in Row,
           WrittenAt(row) <= now, Held(n, row, r, now)
    PROVE  Held(n, row, r, now')
<1>1. now \in Nat /\ now' \in Nat /\ r.clk <= r.clk
  BY Clocks, ClocksAfter DEF Row
<1> QED
  BY <1>1, HeldStays

LEMMA ServerStillHolds ==
    ASSUME TypeInv, TypeInv', NEW B, B \subseteq Accepted, Stepped("server", B),
           NEW k \in DOMAIN rows["server"], NEW row \in Row, WrittenAt(row) <= now,
           Held("server", row, rows["server"][k], now)
    PROVE  k \in DOMAIN rows'["server"] /\ Held("server", row, rows'["server"][k], now')
<1>1. k \in DOMAIN rows'["server"] /\ now <= now' /\ "server" \in Node
  BY DEF Stepped, Node
<1>2. /\ rows["server"][k] \in Row /\ rows'["server"][k] \in Row
      /\ rows["server"][k].clk \in Int /\ rows'["server"][k].clk \in Int
      /\ now \in Nat /\ now' \in Nat
  BY <1>1, Clocks, ClocksAfter
<1>3. CASE Untouched("server", k)
  BY <1>1, <1>2, <1>3, HeldLater DEF Untouched
<1>4. CASE Logged("server", k)
  BY <1>1, <1>2, <1>4, HeldStays DEF Logged, Stamped
<1>5. ASSUME NEW d \in B, d.key = k, Wins("server", d), rows'["server"][k] = d.row
      PROVE  Held("server", row, rows'["server"][k], now')
  <2>1. Database("server").seen = rows["server"] /\ d.row.clk \in Int
    BY <1>5, Clocks DEF Database
  <2>2. rows["server"][k].clk <= rows'["server"][k].clk
    BY <1>2, <1>5, <2>1 DEF Wins
  <2> QED
    BY <1>1, <1>2, <2>2, HeldStays
<1> QED
  BY <1>1, <1>3, <1>4, <1>5 DEF Stepped

LEMMA ServerStillCovers ==
    ASSUME TypeInv, TypeInv', CopiesInv, NEW B, B \subseteq Accepted, Stepped("server", B),
           NEW c \in Accepted \cup inbox \cup FeedChanges,
           Covered("server", rows["server"], c, now)
    PROVE  Covered("server", rows'["server"], c, now')
<1>1. c.row \in Row /\ WrittenAt(c.row) <= now
  BY Clocks, Times
<1> QED
  BY <1>1, ServerStillHolds DEF Covered

\* A pushed row that the server takes is the laptop's, or older: whatever of the
\* same clock took its place there came from the server.
LEMMA PushedNotBehind ==
    ASSUME TypeInv, TypeInv', CopiesInv, ClientCovers, SameClock,
           UNCHANGED rows["client"], now <= now',
           NEW c \in Accepted, Wins("server", c), rows'["server"][c.key] = c.row
    PROVE  ~Behind(c.key)'
<1>1. Database("server").seen = rows["server"] /\ "client" \in Node /\ "server" \in Node
  BY DEF Database, Node
<1>2. c.key \in DOMAIN rows["client"] /\ Held("client", c.row, rows["client"][c.key], now)
  BY DEF ClientCovers, Covered
<1>3. /\ c.row \in Row /\ c.row.clk \in Int /\ WrittenAt(c.row) <= now
      /\ rows["client"][c.key] \in Row /\ rows["client"][c.key].clk \in Int
      /\ c.key \in DOMAIN rows["server"] => rows["server"][c.key].clk \in Int
  BY <1>1, <1>2, Clocks, Times
<1>4. Held("client", c.row, rows["client"][c.key], now')
  BY <1>1, <1>2, <1>3, HeldLater
<1>5. Skew = 0 => ~Covered("server", rows["server"], c, now)
  BY <1>1, <1>3 DEF Wins, Covered, Held, Apart, Greatest
<1>6. Skew = 0 /\ rows["client"][c.key].clk = c.row.clk
         => Columns(rows["client"][c.key]) = Columns(c.row)
  BY <1>5 DEF SameClock
<1> QED
  BY <1>2, <1>4, <1>6 DEF Behind

\* Which rows the laptop still has to take after the step.
LEMMA ServerBehind ==
    ASSUME TypeInv, TypeInv', CopiesInv, ClientCovers, SameClock, UNCHANGED rows["client"],
           NEW B, B \subseteq Accepted, Stepped("server", B), NEW k \in Key, Behind(k)'
    PROVE  Behind(k) \/ LoggedIn(log'["server"], Len(log["server"]), k)
<1>1. k \in DOMAIN rows'["server"] /\ now <= now'
  BY DEF Behind, Stepped
<1>2. CASE Untouched("server", k)
  <2>1. k \in DOMAIN rows["server"] /\ rows'["server"][k] = rows["server"][k]
    BY <1>2 DEF Untouched
  <2>2. ASSUME k \in DOMAIN rows["client"], Held("client", rows["server"][k], rows["client"][k], now)
        PROVE  Held("client", rows["server"][k], rows["client"][k], now')
    <3>1. /\ rows["server"][k] \in Row /\ rows["client"][k] \in Row
          /\ WrittenAt(rows["server"][k]) <= now /\ "client" \in Node
      BY <2>1, <2>2, Clocks, Times DEF Node
    <3> QED
      BY <1>1, <2>2, <3>1, HeldLater
  <2> QED
    BY <2>1, <2>2 DEF Behind
<1>3. CASE Logged("server", k)
  BY <1>3 DEF Logged
<1>4. ASSUME NEW c \in B, c.key = k, Wins("server", c), rows'["server"][k] = c.row PROVE FALSE
  BY <1>1, <1>4, PushedNotBehind
<1> QED
  BY <1>1, <1>2, <1>3, <1>4 DEF Stepped

\* A row of the feed stays current: one pushed in its place was written on the laptop,
\* for of its own writes the server has the last.
LEMMA ServerCurrent ==
    ASSUME SyncInv, TypeInv', NEW B, B \subseteq Accepted, Stepped("server", B),
           Accepted' = Accepted, NEW c \in FeedChanges, NEW since \in Nat,
           since <= Len(log["server"]), Current(c, since)
    PROVE  Current(c, since)'
<1> DEFINE k == c.key
<1>1. /\ UNCHANGED rows["client"] /\ IsExtension(log'["server"], log["server"])
      /\ "server" \in Node /\ now <= now'
  BY DEF Stepped, Node
<1>2. /\ log["server"] \in Seq(Key) /\ log'["server"] \in Seq(Key)
      /\ Len(log["server"]) \in Nat
  BY DEF SyncInv, TypeInv, TypeOK, Node
<1>3. k \in Key /\ k \in DOMAIN rows["server"] /\ c.row.clk \in Int
  BY Clocks DEF SyncInv, AgreeInv, ServerCovers, Covered
<1>4. k \in DOMAIN rows'["server"] /\ rows["server"][k].clk \in Int
  BY <1>1, <1>3, Clocks DEF Stepped, SyncInv
<1>5. CASE LoggedIn(log'["server"], Len(log["server"]), k)
  BY <1>2, <1>5, LoggedEarlier DEF Current
<1>6. CASE LoggedIn(log["server"], since, k)
  BY <1>1, <1>2, <1>6, LoggedStays DEF Current
<1>7. CASE Untouched("server", k) /\ ~LoggedIn(log'["server"], Len(log["server"]), k)
  <2>1. ~Behind(k) => ~Behind(k)'
    BY <1>1, <1>3, <1>7, ServerBehind DEF SyncInv, AgreeInv
  <2> QED
    BY <1>6, <1>7, <2>1 DEF Current, Untouched
<1>8. ASSUME NEW d \in B, d.key = k, Wins("server", d), rows'["server"][k] = d.row,
             ~LoggedIn(log["server"], since, k)
      PROVE  Current(c, since)'
  <2>1. ~Behind(d.key)'
    BY <1>1, <1>8, PushedNotBehind DEF SyncInv, AgreeInv
  <2>2. CASE rows["server"][k] = c.row
    <3>1. Database("server").seen = rows["server"] /\ d.row \in Row /\ d.row.clk \in Int
      BY <1>8, Clocks DEF Database, SyncInv
    <3>2. c.row.clk < d.row.clk
      BY <1>3, <1>8, <2>2, <3>1 DEF Wins
    <3>3. <<k, d.row>> \in Copies
      BY <1>8, RowsCopied
    <3>4. d.row.by # "server"
      <4> SUFFICES ASSUME d.row.by = "server" PROVE FALSE
        OBVIOUS
      <4>1. <<k, d.row>>[1] = k /\ <<k, d.row>>[2] = d.row
        OBVIOUS
      <4>2. d.row.clk <= rows["server"][k].clk
        BY <3>3, <4>1 DEF SyncInv, OwnInv
      <4> QED
        BY <1>3, <2>2, <3>1, <3>2, <4>2
    <3>5. d.row.by = "client"
      BY <3>1, <3>4 DEF Row, Node
    <3> QED
      BY <1>8, <2>1, <3>2, <3>5 DEF Current
  <2>3. CASE \E e \in Accepted : e.key = k /\ e.row.by = "client" /\ c.row.clk < e.row.clk
    BY <1>8, <2>1, <2>3 DEF Current
  <2> QED
    BY <1>8, <2>2, <2>3 DEF Current
<1> QED
  BY <1>4, <1>5, <1>6, <1>7, <1>8 DEF Stepped, Logged

LEMMA AgreeServer ==
    ASSUME SyncInv, TypeInv', NEW B, B \subseteq Accepted, Stepped("server", B),
           UNCHANGED <<disk, feed, view>>, pc' = pc, Accepted' = Accepted,
           ReplyInv',
           \A r \in receipts' : r.status # "rejected" =>
             r \in receipts \/ Covered("server", rows'["server"], r.change, now')
    PROVE  AgreeInv'
<1>1. /\ rows'["client"] = rows["client"] /\ log'["client"] = log["client"]
      /\ IsExtension(log'["server"], log["server"])
      /\ now <= now' /\ "client" \in Node /\ "server" \in Node
  BY DEF Stepped, Node
<1>2. /\ log["server"] \in Seq(Key) /\ log'["server"] \in Seq(Key)
      /\ Len(log["server"]) \in Nat /\ Len(log'["server"]) \in Nat /\ pulled \in Nat
  BY DEF SyncInv, TypeInv, TypeOK, Node
<1>3. Len(log["server"]) <= Len(log'["server"])
  BY <1>1, <1>2 DEF IsExtension
<1>4. \A s \in 1 .. Len(log["server"]) : log'["server"][s] = log["server"][s]
  BY <1>1, <1>2 DEF IsExtension
<1>5. FeedChanges' = FeedChanges /\ inbox' = inbox
  BY DEF FeedChanges, disk
<1>6. feed # NoMsg => feed.next \in Nat /\ feed.next <= Len(log["server"])
  BY DEF SyncInv, AgreeInv, CursorInv, TypeInv, TypeOK, FeedMsg
<1>7. CursorInv'
  <2>1. pulled <= Len(log["server"])
    BY DEF SyncInv, AgreeInv, CursorInv
  <2>2. ASSUME feed # NoMsg, NEW s \in 1 .. Len(log'["server"]), pulled < s, s <= feed.next
        PROVE  \E c \in feed.changes : c.key = log'["server"][s]
    BY <1>2, <1>4, <1>6, <2>2 DEF SyncInv, AgreeInv, CursorInv
  <2>3. feed # NoMsg => /\ pc \in {"apply", "applying"}
                        /\ \A c, d \in feed.changes : c.key = d.key => c = d
    BY DEF SyncInv, AgreeInv, CursorInv
  <2>4. pulled <= Len(log'["server"]) /\ (feed # NoMsg => feed.next <= Len(log'["server"]))
    BY <1>2, <1>3, <1>6, <2>1
  <2> QED
    BY <2>2, <2>3, <2>4 DEF CursorInv, disk
<1>8. ServerCovers'
  <2>1. \A c \in FeedChanges \cup inbox : Covered("server", rows'["server"], c, now')
    BY ServerStillCovers DEF SyncInv, AgreeInv, ServerCovers
  <2>2. ASSUME NEW r \in receipts, r.status # "rejected"
        PROVE  Covered("server", rows'["server"], r.change, now')
    <3>1. Covered("server", rows["server"], r.change, now) /\ r.change \in Accepted
      BY <2>2 DEF SyncInv, AgreeInv, ServerCovers, Accepted
    <3> QED
      BY <3>1, ServerStillCovers DEF SyncInv
  <2> QED
    BY <1>5, <2>1, <2>2 DEF ServerCovers
<1>9. ClientCovers'
  <2>1. ASSUME NEW t, IsTable(t, Row), NEW c \in Accepted \cup inbox \cup FeedChanges,
               Covered("client", t, c, now)
        PROVE  Covered("client", t, c, now')
    <3>1. c.row \in Row /\ WrittenAt(c.row) <= now /\ c.key \in DOMAIN t /\ t[c.key] \in Row
      BY <2>1, Clocks, Times DEF SyncInv, Covered, IsTable
    <3> QED
      BY <1>1, <2>1, <3>1, HeldLater DEF SyncInv, Covered
  <2>2. IsTable(rows["client"], Row) /\ IsTable(view, Row)
    BY <1>1 DEF SyncInv, TypeInv, TypeOK
  <2> QED
    BY <1>1, <1>5, <2>1, <2>2 DEF SyncInv, AgreeInv, ClientCovers
<1>10. SameClock'
  <2>1. ASSUME NEW c \in Accepted, Covered("server", rows["server"], c, now)
        PROVE  Covered("server", rows'["server"], c, now')
    BY <2>1, ServerStillCovers DEF SyncInv
  <2> QED
    BY <1>1, <2>1 DEF SyncInv, AgreeInv, SameClock
<1>11. \A k \in Key : Behind(k)' => Behind(k) \/ LoggedIn(log'["server"], Len(log["server"]), k)
  BY <1>1, ServerBehind DEF SyncInv, AgreeInv
<1>12. FeedCurrent'
  <2>1. ASSUME NEW c \in FeedChanges PROVE Current(c, feed.next)'
    <3>1. feed # NoMsg
      BY <2>1 DEF FeedChanges
    <3>2. Current(c, feed.next)
      BY <2>1 DEF SyncInv, AgreeInv, FeedCurrent
    <3> DEFINE next == feed.next
    <3>3. next \in Nat /\ next <= Len(log["server"]) /\ next' = next
      BY <1>6, <3>1
    <3> QED
      BY <2>1, <3>2, <3>3, ServerCurrent DEF Current
  <2> QED
    BY <1>5, <2>1 DEF FeedCurrent
<1>13. AheadPending'
  <2> SUFFICES ASSUME NEW k \in Key, Ahead(k)' PROVE PushPending(k)'
    BY DEF AheadPending
  <2>1. Ahead(k)
    <3>1. k \in DOMAIN rows["client"]
      BY <1>1 DEF Ahead
    <3>2. rows["client"][k] \in Row /\ WrittenAt(rows["client"][k]) <= now
      BY <1>1, <3>1, Clocks, Times DEF SyncInv
    <3>3. ASSUME k \in DOMAIN rows["server"],
                 Held("server", rows["client"][k], rows["server"][k], now)
          PROVE  FALSE
      BY <1>1, <3>2, <3>3, ServerStillHolds DEF SyncInv, Ahead
    <3> QED
      BY <3>1, <3>3 DEF Ahead
  <2>2. PushPending(k)
    BY <2>1 DEF SyncInv, AgreeInv, AheadPending
  <2> QED
    BY <1>1, <2>2 DEF PushPending, disk
<1>14. BehindPending'
  <2> SUFFICES ASSUME NEW k \in Key, Behind(k)' PROVE PullPending(k)'
    BY DEF BehindPending
  <2>1. pulled <= Len(log["server"]) /\ pulled' = pulled /\ inbox' = inbox /\ pulldead' = pulldead
    BY DEF SyncInv, AgreeInv, CursorInv, disk
  <2>2. CASE LoggedIn(log'["server"], Len(log["server"]), k)
    BY <1>2, <2>1, <2>2, LoggedEarlier DEF PullPending
  <2>3. CASE Behind(k)
    <3>1. PullPending(k)
      BY <2>3 DEF SyncInv, AgreeInv, BehindPending
    <3>2. LoggedIn(log["server"], pulled, k) => LoggedIn(log'["server"], pulled, k)
      BY <1>1, <1>2, LoggedStays
    <3> QED
      BY <2>1, <3>1, <3>2 DEF PullPending
  <2> QED
    BY <1>11, <2>2, <2>3
<1> QED
  BY <1>7, <1>8, <1>9, <1>10, <1>12, <1>13, <1>14 DEF AgreeInv

-----------------------------------------------------------------------------
(* A step on the laptop: a save, or the rows of a pull, B, which the server     *)
(* covers and which win over what the transaction saw.                       *)

ClientStep(B) ==
    /\ Stepped("client", B)
    /\ B = {} \/ pc \in {"retrying", "applying"}
    /\ B \subseteq FeedChanges \cup inbox
    /\ UNCHANGED <<pushed, outbox, dead, receipts, reply>>

LEMMA ClientStepTypes ==
    ASSUME TypeInv, TypeInv', NEW B, ClientStep(B)
    PROVE  /\ rows'["server"] = rows["server"] /\ log'["server"] = log["server"]
           /\ Database("client").seen = view
           /\ \A k \in DOMAIN rows["client"] :
                /\ k \in DOMAIN rows'["client"]
                /\ rows["client"][k] \in Row /\ rows["client"][k].clk \in Int
           /\ \A k \in DOMAIN rows'["client"] :
                rows'["client"][k] \in Row /\ rows'["client"][k].clk \in Int
           /\ \A k \in DOMAIN rows["server"] :
                rows["server"][k] \in Row /\ rows["server"][k].clk \in Int
           /\ \A c \in B : c.key \in Key /\ c.row \in Row /\ c.row.clk \in Int
           /\ Accepted' = Accepted
           /\ now <= now' /\ "client" \in Node /\ "server" \in Node
<1>1. "client" \in Node /\ "server" \in Node
  BY DEF Node
<1>2. /\ rows'["server"] = rows["server"] /\ log'["server"] = log["server"] /\ now <= now'
      /\ DOMAIN rows["client"] \subseteq DOMAIN rows'["client"]
  BY <1>1 DEF ClientStep, Stepped
<1>3. Database("client").seen = view /\ Accepted' = Accepted
  BY DEF ClientStep, Database, Accepted
<1> QED
  BY <1>1, <1>2, <1>3, Clocks, ClocksAfter DEF ClientStep

\* A row the laptop and the transaction's view hold stays held.
LEMMA ClientStillHolds ==
    ASSUME SyncInv, TypeInv', NEW B, ClientStep(B),
           NEW k \in DOMAIN rows["client"], NEW row \in Row, WrittenAt(row) <= now,
           Held("client", row, rows["client"][k], now),
           B = {} \/ (k \in DOMAIN view /\ Held("client", row, view[k], now))
    PROVE  k \in DOMAIN rows'["client"] /\ Held("client", row, rows'["client"][k], now')
<1>1. /\ k \in DOMAIN rows'["client"] /\ rows["client"][k] \in Row /\ rows'["client"][k] \in Row
      /\ rows'["client"][k].clk \in Int /\ now <= now' /\ "client" \in Node
  BY ClientStepTypes DEF SyncInv
<1>2. now \in Nat /\ now' \in Nat
  BY Clocks, ClocksAfter DEF SyncInv
<1>3. CASE Untouched("client", k)
  BY <1>1, <1>3, HeldLater DEF Untouched, SyncInv
<1>4. CASE Logged("client", k)
  BY <1>1, <1>2, <1>4, HeldStays DEF Logged, Stamped
<1>5. ASSUME NEW d \in B, d.key = k, Wins("client", d), rows'["client"][k] = d.row
      PROVE  Held("client", row, rows'["client"][k], now')
  <2>1. k \in DOMAIN view /\ Held("client", row, view[k], now)
    BY <1>5
  <2>2. view[k] \in Row /\ view[k].clk \in Int /\ Database("client").seen = view
    BY <2>1, Clocks, ClientStepTypes DEF SyncInv
  <2>3. view[k].clk <= rows'["client"][k].clk
    BY <1>1, <1>5, <2>1, <2>2 DEF Wins
  <2> QED
    BY <1>1, <1>2, <2>1, <2>2, <2>3, HeldStays
<1> QED
  BY <1>1, <1>3, <1>4, <1>5 DEF ClientStep, Stepped

LEMMA ClientStillCovers ==
    ASSUME SyncInv, TypeInv', NEW B, ClientStep(B), NEW c \in Accepted
    PROVE  Covered("client", rows'["client"], c, now')
<1>1. c.row \in Row /\ WrittenAt(c.row) <= now
  BY Clocks, Times DEF SyncInv
<1>2. /\ Covered("client", rows["client"], c, now)
      /\ B = {} \/ Covered("client", view, c, now)
  BY DEF ClientStep, SyncInv, AgreeInv, ClientCovers
<1> QED
  BY <1>1, <1>2, ClientStillHolds DEF Covered

LEMMA ClientSameClock ==
    ASSUME SyncInv, TypeInv', NEW B, ClientStep(B)
    PROVE  SameClock'
<1> SUFFICES ASSUME Skew = 0, NEW c \in Accepted, rows'["client"][c.key].clk = c.row.clk
             PROVE  \/ Columns(rows'["client"][c.key]) = Columns(c.row)
                    \/ Covered("server", rows'["server"], c, now')
  BY ClientStepTypes DEF SameClock, SyncInv
<1> DEFINE k == c.key
<1>1. /\ k \in DOMAIN rows["client"] /\ Held("client", c.row, rows["client"][k], now)
      /\ c.row \in Row /\ c.row.clk \in Int /\ WrittenAt(c.row) <= now
  BY Clocks, Times DEF SyncInv, AgreeInv, ClientCovers, Covered
<1>2. /\ rows["client"][k] \in Row /\ rows["client"][k].clk \in Int
      /\ k \in DOMAIN rows'["client"] /\ rows'["client"][k].clk \in Int
      /\ rows'["server"] = rows["server"] /\ now <= now'
      /\ "client" \in Node /\ "server" \in Node
  BY <1>1, ClientStepTypes DEF SyncInv
<1>3. now \in Nat /\ now' \in Nat
  BY Clocks, ClocksAfter DEF SyncInv
<1>4. c.row.clk <= rows["client"][k].clk
  BY <1>1, <1>2 DEF Held, Apart, Greatest
<1>5. CASE Untouched("client", k)
  <2>1. Columns(rows["client"][k]) = Columns(c.row) \/ Covered("server", rows["server"], c, now)
    BY <1>5 DEF Untouched, SyncInv, AgreeInv, SameClock
  <2>2. Covered("server", rows["server"], c, now) => Covered("server", rows["server"], c, now')
    BY <1>1, <1>2, Clocks, HeldLater DEF Covered, SyncInv
  <2> QED
    BY <1>2, <1>5, <2>1, <2>2 DEF Untouched
<1>6. ~Logged("client", k)
  BY <1>1, <1>2, <1>3, <1>4 DEF Logged, Stamped, WrittenAt, SkewOf
<1>7. ASSUME NEW d \in B, d.key = k, rows'["client"][k] = d.row
      PROVE  Covered("server", rows'["server"], c, now')
  <2>1. Covered("server", rows["server"], d, now)
    BY <1>7 DEF ClientStep, SyncInv, AgreeInv, ServerCovers
  <2>2. k \in DOMAIN rows["server"] /\ rows["server"][k].clk \in Int
    BY <1>2, <1>7, <2>1, Clocks DEF Covered, SyncInv
  <2> QED
    BY <1>1, <1>2, <1>7, <2>1, <2>2 DEF Covered, Held, Apart, Greatest
<1> QED
  BY <1>2, <1>5, <1>6, <1>7 DEF ClientStep, Stepped

\* What the laptop is ahead in after the step it logged, or it was before.
LEMMA ClientAhead ==
    ASSUME SyncInv, TypeInv', NEW B, ClientStep(B)
    PROVE  AheadPending'
<1> SUFFICES ASSUME NEW k \in Key, Ahead(k)' PROVE PushPending(k)'
  BY DEF AheadPending
<1>1. /\ k \in DOMAIN rows'["client"] /\ rows'["server"] = rows["server"]
      /\ now <= now' /\ "client" \in Node /\ "server" \in Node
  BY ClientStepTypes DEF Ahead, SyncInv
<1>2. /\ log["client"] \in Seq(Key) /\ log'["client"] \in Seq(Key)
      /\ IsExtension(log'["client"], log["client"]) /\ pushed \in Nat /\ pushed' = pushed
      /\ pushed <= Len(log["client"]) /\ Len(log["client"]) \in Nat
  BY DEF SyncInv, TypeInv, TypeOK, Node, DeliveryInv, ClientStep, Stepped
<1>3. CASE Untouched("client", k)
  <2>1. k \in DOMAIN rows["client"] /\ rows'["client"][k] = rows["client"][k]
    BY <1>3 DEF Untouched
  <2>2. rows["client"][k] \in Row /\ WrittenAt(rows["client"][k]) <= now
    BY <1>1, <2>1, Clocks, Times DEF SyncInv
  <2>3. ASSUME k \in DOMAIN rows["server"],
               Held("server", rows["client"][k], rows["server"][k], now)
        PROVE  FALSE
    <3>1. rows["server"][k] \in Row
      BY <1>1, <2>3, Clocks DEF SyncInv
    <3>2. Held("server", rows["client"][k], rows["server"][k], now')
      BY <1>1, <2>2, <2>3, <3>1, HeldLater DEF SyncInv
    <3> QED
      BY <1>1, <2>1, <2>3, <3>2 DEF Ahead
  <2>4. Ahead(k)
    BY <2>1, <2>3 DEF Ahead
  <2>5. PushPending(k)
    BY <2>4 DEF SyncInv, AgreeInv, AheadPending
  <2>6. LoggedIn(log["client"], pushed, k) => LoggedIn(log'["client"], pushed, k)
    BY <1>2, LoggedStays
  <2> QED
    BY <1>2, <2>1, <2>5, <2>6 DEF PushPending, ClientStep
<1>4. CASE Logged("client", k)
  <2>1. LoggedIn(log'["client"], pushed, k)
    BY <1>2, <1>4, LoggedEarlier DEF Logged
  <2> QED
    BY <1>2, <2>1 DEF PushPending
<1>5. ASSUME NEW d \in B, d.key = k, rows'["client"][k] = d.row PROVE FALSE
  <2>1. /\ Covered("server", rows["server"], d, now)
        /\ d.row \in Row /\ WrittenAt(d.row) <= now
    BY <1>5, Clocks, Times DEF ClientStep, SyncInv, AgreeInv, ServerCovers
  <2>2. Held("server", d.row, rows["server"][k], now')
    <3>1. k \in DOMAIN rows["server"] /\ Held("server", d.row, rows["server"][k], now)
      BY <1>5, <2>1 DEF Covered
    <3>2. rows["server"][k] \in Row
      BY <1>1, <3>1, Clocks DEF SyncInv
    <3> QED
      BY <1>1, <2>1, <3>1, <3>2, HeldLater DEF SyncInv
  <2> QED
    BY <1>1, <1>5, <2>1, <2>2 DEF Covered, Ahead
<1> QED
  BY <1>1, <1>3, <1>4, <1>5 DEF ClientStep, Stepped

\* The laptop falls behind in no row but by the batch.
LEMMA ClientBehind ==
    ASSUME SyncInv, TypeInv', NEW B, ClientStep(B), NEW k \in Key, Behind(k)',
           \A c \in B : c.key # k
    PROVE  Behind(k)
<1>1. k \in DOMAIN rows["server"] /\ rows'["server"] = rows["server"]
  BY ClientStepTypes DEF Behind, SyncInv
<1>2. CASE k \in DOMAIN rows["client"]
  <2> SUFFICES ASSUME ~Behind(k) PROVE FALSE
    OBVIOUS
  <2>1. /\ k \in DOMAIN rows'["client"]
        /\ rows["client"][k] \in Row /\ rows["client"][k].clk \in Int
        /\ rows'["client"][k] \in Row /\ rows'["client"][k].clk \in Int
        /\ rows["server"][k] \in Row /\ rows["server"][k].clk \in Int
        /\ now <= now' /\ "client" \in Node /\ "server" \in Node
    BY <1>1, <1>2, ClientStepTypes DEF SyncInv
  <2>2. now \in Nat /\ now' \in Nat /\ WrittenAt(rows["server"][k]) <= now
    BY <1>1, <2>1, Clocks, ClocksAfter, Times DEF SyncInv
  <2>3. Held("client", rows["server"][k], rows["client"][k], now)
    BY <1>1, <1>2 DEF Behind
  <2>4. CASE Untouched("client", k)
    <3>1. Held("client", rows["server"][k], rows["client"][k], now')
      BY <2>1, <2>2, <2>3, HeldLater DEF SyncInv
    <3>2. rows'["client"][k] = rows["client"][k]
      BY <2>4 DEF Untouched
    <3>3. ~(/\ Skew = 0 /\ rows["client"][k].clk = rows["server"][k].clk
            /\ Columns(rows["client"][k]) # Columns(rows["server"][k]))
      BY <1>1, <1>2 DEF Behind
    <3> QED
      BY <1>1, <1>2, <2>1, <3>1, <3>2, <3>3 DEF Behind
  <2>5. CASE Logged("client", k)
    <3>1. Stamped("client", k) /\ WrittenAt(rows["client"][k]) < now'
      BY <1>2, <2>5 DEF Logged
    <3>2. Held("client", rows["server"][k], rows'["client"][k], now')
      BY <2>1, <2>2, <2>3, <3>1, HeldStays DEF Stamped
    <3>3. Skew = 0 => rows'["client"][k].clk # rows["server"][k].clk
      <4>1. Skew = 0 => rows["server"][k].clk <= rows["client"][k].clk
        BY <2>1, <2>3 DEF Held, Apart, Greatest
      <4> QED
        BY <2>1, <2>2, <3>1, <4>1 DEF Stamped, WrittenAt, SkewOf
    <3> QED
      BY <1>1, <2>1, <3>2, <3>3 DEF Behind
  <2> QED
    BY <2>1, <2>4, <2>5 DEF ClientStep, Stepped
<1>3. CASE k \notin DOMAIN rows["client"]
  BY <1>1, <1>3 DEF Behind
<1> QED
  BY <1>2, <1>3

\* A save.
LEMMA AgreeSave ==
    ASSUME SyncInv, TypeInv', Stepped("client", {}),
           UNCHANGED <<disk, receipts, pc, wire>>
    PROVE  AgreeInv'
<1>1. ClientStep({})
  BY DEF ClientStep, disk, wire
<1>2. /\ rows'["server"] = rows["server"] /\ log'["server"] = log["server"]
      /\ Accepted' = Accepted /\ now <= now' /\ "client" \in Node /\ "server" \in Node
  BY <1>1, ClientStepTypes DEF SyncInv
<1>3. FeedChanges' = FeedChanges /\ inbox' = inbox
  BY DEF FeedChanges, disk, wire
<1>4. CursorInv' /\ ReplyInv'
  BY <1>2, <1>3 DEF SyncInv, AgreeInv, CursorInv, ReplyInv, disk, wire
<1>5. ASSUME NEW c \in Accepted \cup inbox \cup FeedChanges, NEW n \in Node, NEW t,
             IsTable(t, Row), Covered(n, t, c, now)
      PROVE  Covered(n, t, c, now')
  <2>1. c.row \in Row /\ WrittenAt(c.row) <= now /\ c.key \in DOMAIN t /\ t[c.key] \in Row
    BY <1>5, Clocks, Times DEF SyncInv, Covered, IsTable
  <2> QED
    BY <1>2, <1>5, <2>1, HeldLater DEF SyncInv, Covered
<1>6. IsTable(rows["server"], Row) /\ IsTable(view, Row)
  BY DEF SyncInv, TypeInv, TypeOK, Node
<1>7. ServerCovers'
  <2>1. \A r \in receipts : r.change \in Accepted
    BY DEF Accepted
  <2> QED
    BY <1>2, <1>3, <1>5, <1>6, <2>1 DEF SyncInv, AgreeInv, ServerCovers
<1>8. ClientCovers'
  <2>1. \A c \in Accepted : Covered("client", rows'["client"], c, now')
    BY <1>1, ClientStillCovers
  <2> SUFFICES ASSUME pc \in {"retrying", "applying"}
               PROVE  /\ \A c \in Accepted : Covered("client", view, c, now')
                      /\ \A k \in DOMAIN view :
                           \/ view[k] = rows'["client"][k]
                           \/ WrittenAt(view[k]) < WrittenAt(rows'["client"][k])
                      /\ \A c \in FeedChanges \cup inbox :
                           c.key \in DOMAIN view /\ c.row.clk <= view[c.key].clk =>
                             Covered("client", rows'["client"], c, now')
    BY <1>2, <1>3, <2>1 DEF ClientCovers, wire
  <2>2. \A c \in Accepted : Covered("client", view, c, now')
    BY <1>2, <1>5, <1>6 DEF SyncInv, AgreeInv, ClientCovers
  <2>3. ASSUME NEW k \in DOMAIN view
        PROVE  view[k] = rows'["client"][k] \/ WrittenAt(view[k]) < WrittenAt(rows'["client"][k])
    <3>1. k \in DOMAIN rows["client"] /\ view[k] \in Row
      BY Clocks DEF SyncInv, CopiesInv
    <3>2. view[k] = rows["client"][k] \/ WrittenAt(view[k]) < WrittenAt(rows["client"][k])
      BY DEF SyncInv, AgreeInv, ClientCovers
    <3>3. /\ k \in DOMAIN rows'["client"] /\ rows["client"][k] \in Row
          /\ rows'["client"][k] \in Row
      BY <1>1, <3>1, ClientStepTypes DEF SyncInv
    <3>4. /\ WrittenAt(view[k]) \in Int /\ WrittenAt(rows["client"][k]) \in Int
          /\ now' \in Nat /\ SkewOf("client") \in Int
      BY <3>1, <3>3, TimeTyped, ClocksAfter, ConstantsAssumption DEF SkewOf, ConstantsAssumption
    <3>5. CASE Untouched("client", k)
      BY <3>2, <3>5 DEF Untouched
    <3>6. CASE Logged("client", k)
      <4>1. WrittenAt(rows'["client"][k]) = now' /\ WrittenAt(rows["client"][k]) < now'
        BY <3>1, <3>4, <3>6 DEF Logged, Stamped, WrittenAt
      <4> QED
        BY <3>2, <3>4, <4>1
    <3> QED
      BY <3>3, <3>5, <3>6 DEF Stepped
  <2>4. ASSUME NEW c \in FeedChanges \cup inbox, c.key \in DOMAIN view,
               c.row.clk <= view[c.key].clk
        PROVE  Covered("client", rows'["client"], c, now')
    <3>1. Covered("client", rows["client"], c, now)
      BY <2>4 DEF SyncInv, AgreeInv, ClientCovers
    <3>2. c.row \in Row /\ WrittenAt(c.row) <= now
      BY Clocks, Times DEF SyncInv
    <3> QED
      BY <1>1, <3>1, <3>2, ClientStillHolds DEF Covered
  <2> QED
    BY <2>2, <2>3, <2>4
<1>9. \A k \in Key : Behind(k)' => Behind(k)
  BY <1>1, ClientBehind
<1>10. FeedCurrent'
  <2>1. \A c \in FeedChanges : c.key \in Key
    BY Clocks DEF SyncInv
  <2> QED
    BY <1>2, <1>3, <1>9, <2>1 DEF SyncInv, AgreeInv, FeedCurrent, Current, wire
<1>11. BehindPending'
  BY <1>2, <1>9 DEF SyncInv, AgreeInv, BehindPending, PullPending, disk
<1> QED
  BY <1>1, <1>4, <1>7, <1>8, <1>10, <1>11, ClientSameClock, ClientAhead DEF AgreeInv

\* The transaction of a pull: its rows are taken, or deferred, or dead-lettered.
LEMMA PullSteps ==
    ASSUME SyncInv, TypeInv', pc \in {"retrying", "applying"},
           NEW changes, changes \subseteq FeedChange, changes \subseteq FeedChanges \cup inbox,
           IsBatch({c \in changes : IsMemo(c.key)}),
           \A c, d \in changes : c.key = d.key => c.row = d.row,
           ApplyPulled(changes), UNCHANGED <<now, pushed, outbox, dead, receipts, reply>>
    PROVE  \E good \in SUBSET changes :
             /\ ClientStep(good)
             /\ changes \ good \subseteq inbox' \cup pulldead'
             /\ inbox \ changes \subseteq inbox' /\ inbox' \subseteq inbox \cup changes
             /\ pulldead \subseteq pulldead'
<1> DEFINE Based(c) == [seq |-> c.seq, key |-> c.key, row |-> c.row, base |-> BaseOf(c.key)]
<1>1. PICK good \in SUBSET changes :
          /\ SetDatabase("client", ApplyChanges(Database("client"),
                                                {Based(c) : c \in good}, "server"))
          /\ changes \ good \subseteq inbox' \cup pulldead'
          /\ inbox \ changes \subseteq inbox' /\ inbox' \subseteq inbox \cup changes
          /\ pulldead \subseteq pulldead'
  <2>1. PICK failed \in SUBSET changes :
          /\ SetDatabase("client", ApplyChanges(Database("client"),
               {Based(c) : c \in (changes \ failed) \ Orphans(changes \ failed)}, "server"))
          /\ inbox' = (inbox \ changes) \cup Orphans(changes \ failed)
          /\ pulldead' = pulldead \cup failed
    BY DEF ApplyPulled
  <2>2. Orphans(changes \ failed) \subseteq changes
    BY DEF Orphans
  <2> DEFINE good == (changes \ failed) \ Orphans(changes \ failed)
  <2>3. good \in SUBSET changes /\ changes \ good \subseteq failed \cup Orphans(changes \ failed)
    OBVIOUS
  <2> QED
    BY <2>1, <2>2, <2>3
<1> DEFINE batch == {Based(c) : c \in good}
<1>2. batch \subseteq Change /\ IsBatch({c \in batch : IsMemo(c.key)})
  BY BasedBatch DEF SyncInv
<1>3. \A c \in batch : \E d \in good : c.key = d.key /\ c.row = d.row
  OBVIOUS
<1>4. \A d \in good : \E c \in batch : c.key = d.key /\ c.row = d.row
  <2>1. ASSUME NEW d \in good PROVE Based(d) \in batch /\ Based(d).key = d.key /\ Based(d).row = d.row
    OBVIOUS
  <2> QED
    BY <2>1
<1> HIDE DEF batch
<1>5. \A c \in batch : <<c.key, c.row>> \in Copies
  <2>1. \A d \in good : <<d.key, d.row>> \in Copies
    BY RowsCopied
  <2> QED
    BY <1>3, <2>1
<1>6. \A c, d \in batch : c.key = d.key => c.row = d.row
  BY <1>3
<1>7. SetDatabase("client", ApplyChanges(Database("client"), batch, Peer("client")))
  BY <1>1 DEF batch, Peer
<1>8. Stepped("client", batch)
  BY <1>2, <1>5, <1>6, <1>7, SteppedApply DEF SyncInv, Node
<1>9. Stepped("client", good)
  <2>1. ASSUME NEW c \in batch, NEW d \in good, c.key = d.key, c.row = d.row
        PROVE  (Wins("client", c) <=> Wins("client", d)) /\ (Loses("client", c) <=> Loses("client", d))
    BY <2>1 DEF Wins, Loses
  <2>2. ASSUME NEW k \in DOMAIN rows'["client"]
        PROVE  \/ Untouched("client", k)
               \/ Logged("client", k)
               \/ \E d \in good : d.key = k /\ Wins("client", d) /\ rows'["client"][k] = d.row
    BY <1>3, <1>8, <2>1, <2>2 DEF Stepped
  <2>3. ASSUME NEW d \in good
        PROVE  \/ /\ Wins("client", d)
                  /\ d.key \in DOMAIN rows'["client"] /\ rows'["client"][d.key] = d.row
               \/ Loses("client", d) /\ Untouched("client", d.key)
    <3>1. PICK c \in batch : c.key = d.key /\ c.row = d.row
      BY <1>4
    <3>2. \/ /\ Wins("client", c)
             /\ c.key \in DOMAIN rows'["client"] /\ rows'["client"][c.key] = c.row
          \/ Loses("client", c) /\ Untouched("client", c.key)
      BY <1>8 DEF Stepped
    <3> QED
      BY <2>1, <3>1, <3>2
  <2> QED
    BY <1>8, <2>2, <2>3 DEF Stepped
<1>10. ClientStep(good)
  BY <1>9 DEF ClientStep
<1> QED
  BY <1>1, <1>10

\* Once a row of the batch is applied, the laptop is behind in it only if the server
\* has logged it again.
LEMMA PulledNotBehind ==
    ASSUME SyncInv, TypeInv', NEW B, ClientStep(B), NEW c \in B, NEW since, Current(c, since)
    PROVE  ~Behind(c.key)' \/ LoggedIn(log["server"], since, c.key)
<1> DEFINE k == c.key
<1>1. /\ rows'["server"] = rows["server"] /\ Database("client").seen = view
      /\ c.row \in Row /\ c.row.clk \in Int /\ k \in Key
      /\ now <= now' /\ "client" \in Node /\ "server" \in Node
  BY ClientStepTypes DEF SyncInv
<1>2. c \in FeedChanges \cup inbox /\ pc \in {"retrying", "applying"}
  BY DEF ClientStep
<1>3. k \in DOMAIN rows["server"] /\ WrittenAt(c.row) <= now
  BY <1>2, Times DEF SyncInv, AgreeInv, ServerCovers, Covered
<1>4. \/ Wins("client", c) /\ k \in DOMAIN rows'["client"] /\ rows'["client"][k] = c.row
      \/ Loses("client", c) /\ Untouched("client", k)
  BY DEF ClientStep, Stepped
<1>5. CASE rows["server"][k] = c.row
  <2>1. CASE k \in DOMAIN rows'["client"] /\ rows'["client"][k] = c.row
    BY <1>1, <1>3, <1>5, <2>1, HeldSelf DEF Behind
  <2>2. CASE Loses("client", c) /\ Untouched("client", k)
    <3>1. /\ k \in DOMAIN view /\ k \in DOMAIN rows["client"] /\ rows'["client"][k] = rows["client"][k]
          /\ Columns(view[k]) = Columns(c.row) \/ c.row.clk < view[k].clk
      BY <1>1, <2>2 DEF Loses, Untouched
    <3>2. /\ view[k] \in Row /\ view[k].clk \in Int /\ k \in DOMAIN rows'["client"]
          /\ rows["client"][k] \in Row /\ rows["client"][k].clk \in Int
      BY <3>1, Clocks, ClientStepTypes DEF SyncInv
    <3>3. view[k] = rows["client"][k] \/ WrittenAt(view[k]) < WrittenAt(rows["client"][k])
      BY <1>2, <3>1 DEF SyncInv, AgreeInv, ClientCovers
    <3>4. Columns(view[k]) = Columns(c.row) => view[k].clk = c.row.clk
      BY DEF Columns
    <3>5. c.row.clk <= view[k].clk
      BY <1>1, <3>1, <3>2, <3>4
    <3>6. Held("client", c.row, rows["client"][k], now)
      BY <1>2, <3>1, <3>5 DEF SyncInv, AgreeInv, ClientCovers, Covered
    <3>7. Held("client", c.row, rows["client"][k], now')
      BY <1>1, <1>3, <3>2, <3>6, HeldLater DEF SyncInv
    <3>8. Skew = 0 /\ rows["client"][k].clk = c.row.clk => Columns(rows["client"][k]) = Columns(c.row)
      <4>1. Skew = 0 /\ view[k] # rows["client"][k] => view[k].clk < rows["client"][k].clk
        BY <1>1, <3>2, <3>3 DEF WrittenAt, SkewOf
      <4> QED
        BY <1>1, <3>1, <3>2, <3>5, <4>1
    <3> QED
      BY <1>1, <1>3, <1>5, <3>1, <3>2, <3>7, <3>8 DEF Behind
  <2> QED
    BY <1>4, <2>1, <2>2
<1>6. ASSUME ~Behind(k), NEW d \in Accepted, d.key = k, d.row.by = "client", c.row.clk < d.row.clk
      PROVE  ~Behind(k)'
  <2>1. Covered("client", view, d, now)
    BY <1>2, <1>6 DEF SyncInv, AgreeInv, ClientCovers
  <2>2. k \in DOMAIN view /\ view[k].clk \in Int /\ d.row.clk \in Int /\ d.row.clk <= view[k].clk
    BY <1>6, <2>1, Clocks DEF Covered, Held, SyncInv
  <2>3. ~Wins("client", c)
    BY <1>1, <1>6, <2>2 DEF Wins
  <2>4. Untouched("client", k)
    BY <1>4, <2>3
  <2>5. /\ k \in DOMAIN rows["client"] /\ k \in DOMAIN rows'["client"]
        /\ rows'["client"][k] = rows["client"][k]
        /\ rows["client"][k] \in Row /\ rows["server"][k] \in Row
    BY <1>3, <2>4, ClientStepTypes DEF Untouched, SyncInv
  <2>6. Held("client", rows["server"][k], rows["client"][k], now)
    BY <1>3, <1>6, <2>5 DEF Behind
  <2>7. WrittenAt(rows["server"][k]) <= now
    BY <1>1, <1>3, Times DEF SyncInv
  <2>8. Held("client", rows["server"][k], rows["client"][k], now')
    BY <1>1, <2>5, <2>6, <2>7, HeldLater DEF SyncInv
  <2>9. ~(/\ Skew = 0 /\ rows["client"][k].clk = rows["server"][k].clk
          /\ Columns(rows["client"][k]) # Columns(rows["server"][k]))
    BY <1>3, <1>6, <2>5 DEF Behind
  <2> QED
    BY <1>1, <1>3, <2>5, <2>8, <2>9 DEF Behind
<1> QED
  BY <1>5, <1>6 DEF Current

LEMMA AgreePulled ==
    ASSUME SyncInv, TypeInv', pc \in {"retrying", "applying"},
           NEW changes, changes \subseteq FeedChange, changes \subseteq FeedChanges \cup inbox,
           IsBatch({c \in changes : IsMemo(c.key)}),
           \A c, d \in changes : c.key = d.key => c.row = d.row,
           ApplyPulled(changes), UNCHANGED <<now, pushed, outbox, dead, receipts, reply>>,
           pulled' <= Len(log["server"]),
           \A s \in 1 .. Len(log["server"]) : pulled < s /\ s <= pulled' =>
              \E c \in changes : c.key = log["server"][s],
           NEW since, since = pulled', \A c \in changes : Current(c, since),
           feed' = NoMsg, view' = NoRows, pc' \notin {"retrying", "applying"}
    PROVE  AgreeInv'
<1>1. PICK good \in SUBSET changes :
          /\ ClientStep(good)
          /\ changes \ good \subseteq inbox' \cup pulldead'
          /\ inbox \ changes \subseteq inbox' /\ inbox' \subseteq inbox \cup changes
          /\ pulldead \subseteq pulldead'
  BY PullSteps
<1>2. /\ rows'["server"] = rows["server"] /\ log'["server"] = log["server"]
      /\ Accepted' = Accepted
  BY <1>1, ClientStepTypes DEF SyncInv
<1>3. FeedChanges' = {}
  BY DEF FeedChanges
<1>4. CursorInv' /\ ReplyInv' /\ FeedCurrent'
  BY <1>2, <1>3 DEF CursorInv, FeedCurrent, SyncInv, AgreeInv, ReplyInv
<1>5. ServerCovers'
  <2>1. \A c \in FeedChanges \cup inbox : Covered("server", rows["server"], c, now)
    BY DEF SyncInv, AgreeInv, ServerCovers
  <2>2. inbox' \subseteq FeedChanges \cup inbox
    BY <1>1
  <2> QED
    BY <1>2, <1>3, <2>1, <2>2 DEF SyncInv, AgreeInv, ServerCovers
<1>6. ClientCovers'
  <2>1. \A c \in Accepted : Covered("client", rows'["client"], c, now')
    BY <1>1, ClientStillCovers
  <2> QED
    BY <1>2, <2>1 DEF ClientCovers
<1>7. BehindPending'
  <2> SUFFICES ASSUME NEW k \in Key, Behind(k)' PROVE PullPending(k)'
    BY DEF BehindPending
  <2>1. CASE \E c \in changes \ good : c.key = k
    BY <1>1, <2>1 DEF PullPending
  <2>2. ASSUME NEW c \in good, c.key = k PROVE LoggedIn(log["server"], since, k)
    BY <1>1, <2>2, PulledNotBehind
  <2>3. CASE \A c \in changes : c.key # k
    <3>1. Behind(k)
      BY <1>1, <2>3, ClientBehind
    <3>2. PullPending(k)
      BY <3>1 DEF SyncInv, AgreeInv, BehindPending
    <3>3. CASE LoggedIn(log["server"], pulled, k)
      <4>1. PICK s \in 1 .. Len(log["server"]) : pulled < s /\ log["server"][s] = k
        BY <3>3 DEF LoggedIn
      <4>2. ~(s <= pulled')
        BY <2>3, <4>1
      <4>3. pulled' \in Nat /\ s \in Int
        BY <4>1 DEF TypeInv, TypeOK
      <4> QED
        BY <1>2, <4>1, <4>2, <4>3 DEF PullPending, LoggedIn
    <3>4. CASE \E c \in inbox \cup pulldead : c.key = k
      BY <1>1, <2>3, <3>4 DEF PullPending
    <3> QED
      BY <3>2, <3>3, <3>4 DEF PullPending
  <2> QED
    BY <1>2, <2>1, <2>2, <2>3 DEF PullPending
<1> QED
  BY <1>1, <1>4, <1>5, <1>6, <1>7, ClientSameClock, ClientAhead DEF AgreeInv

LEMMA AgreeRetry ==
    ASSUME SyncInv, TypeInv', PullRetry
    PROVE  AgreeInv'
<1>1. InboxHead \subseteq FeedChange /\ InboxHead \subseteq inbox
  BY DEF InboxHead, SyncInv, TypeInv, TypeOK
<1>2. \A c \in InboxHead : ~IsMemo(c.key)
  BY DEF InboxHead, SyncInv, TypeInv
<1>3. IsBatch({c \in InboxHead : IsMemo(c.key)})
  BY <1>2, FS_EmptySet DEF IsBatch
<1>4. ASSUME NEW c \in InboxHead, NEW d \in InboxHead, c.key = d.key PROVE c.row = d.row
  <2>1. <<c.key, c.row>> \in Copies /\ <<c.key, d.row>> \in Copies
    BY <1>1, <1>4, RowsCopied
  <2> QED
    BY <1>2, <2>1 DEF SyncInv, CopiesInv
<1>5. ASSUME NEW c \in InboxHead PROVE rows["server"][c.key] = c.row
  <2>1. c.key \in DOMAIN rows["server"]
    BY <1>1 DEF SyncInv, AgreeInv, ServerCovers, Covered
  <2>2. <<c.key, c.row>> \in Copies /\ <<c.key, rows["server"][c.key]>> \in Copies
    BY <1>1, <2>1, RowsCopied DEF Node
  <2> QED
    BY <1>2, <2>2 DEF SyncInv, CopiesInv
<1>6. /\ pc = "retrying" /\ pc' = "pull" /\ ApplyPulled(InboxHead)
      /\ view' = NoRows /\ feed' = feed
      /\ UNCHANGED <<now, pushed, pulled, outbox, dead, receipts, reply>>
  BY DEF PullRetry
<1>7. feed = NoMsg
  BY <1>6 DEF SyncInv, AgreeInv, CursorInv
<1>8. /\ pulled' <= Len(log["server"])
      /\ \A s \in 1 .. Len(log["server"]) : ~(pulled < s /\ s <= pulled')
  BY <1>6 DEF SyncInv, AgreeInv, CursorInv, TypeInv, TypeOK
<1>9. \A c \in InboxHead : Current(c, pulled)
  BY <1>5 DEF Current
<1> QED
  BY <1>1, <1>3, <1>4, <1>6, <1>7, <1>8, <1>9, AgreePulled

LEMMA AgreeApply ==
    ASSUME SyncInv, TypeInv', PullApply
    PROVE  AgreeInv'
<1>1. /\ pc = "applying" /\ pc' \in {"idle", "pull"} /\ ApplyPulled(feed.changes)
      /\ view' = NoRows /\ feed' = NoMsg /\ pulled' = feed.next
      /\ UNCHANGED <<now, pushed, outbox, dead, receipts, reply>>
  BY DEF PullApply
<1>2. feed \in FeedMsg /\ IsBatch(feed.changes)
  BY <1>1 DEF SyncInv, TypeInv, TypeOK
<1>3. feed # NoMsg
  BY <1>2 DEF FeedMsg, NoMsg
<1>4. feed.changes = FeedChanges /\ feed.changes \subseteq FeedChange
  BY <1>2, <1>3 DEF FeedChanges, FeedMsg
<1>5. IsBatch({c \in feed.changes : IsMemo(c.key)})
  BY <1>2, FS_Subset DEF IsBatch
<1>6. /\ \A c, d \in feed.changes : c.key = d.key => c.row = d.row
      /\ pulled' <= Len(log["server"])
      /\ \A s \in 1 .. Len(log["server"]) : pulled < s /\ s <= pulled' =>
           \E c \in feed.changes : c.key = log["server"][s]
  BY <1>1, <1>3 DEF SyncInv, AgreeInv, CursorInv
<1>7. \A c \in feed.changes : Current(c, feed.next)
  BY <1>4 DEF SyncInv, AgreeInv, FeedCurrent
<1> QED
  BY <1>1, <1>4, <1>5, <1>6, <1>7, AgreePulled

-----------------------------------------------------------------------------
(* The other steps.                                                          *)

LEMMA AgreeWrite ==
    ASSUME SyncInv, TypeInv', NEW n \in Node, Write(n)
    PROVE  AgreeInv'
<1>1. Stepped(n, {}) /\ UNCHANGED <<disk, receipts, pc, wire>>
  BY SteppedWrite DEF SyncInv
<1>2. CASE n = "client"
  BY <1>1, <1>2, AgreeSave
<1>3. CASE n = "server"
  <2>1. Accepted' = Accepted
    BY <1>1 DEF Accepted, disk
  <2>2. ReplyInv'
    BY <1>1 DEF SyncInv, AgreeInv, ReplyInv, wire
  <2> QED
    BY <1>1, <1>3, <2>1, <2>2, AgreeServer DEF wire
<1> QED
  BY <1>2, <1>3 DEF Node

LEMMA AgreePush ==
    ASSUME SyncInv, TypeInv', ServerPush \/ ServerPushLate
    PROVE  AgreeInv'
<1>1. PICK c \in Accepted, heard \in BOOLEAN : ServerHandles(c, heard)
  BY PushedAccepted DEF SyncInv
<1>2. UNCHANGED <<now, disk, feed, view>> /\ pc' = pc
  BY DEF ServerPush, ServerPushLate
<1>3. Accepted' = Accepted
  BY DeliveryServer DEF SyncInv
<1>4. CASE ServerRefuses(c, heard) \/ ServerReplays(c, heard)
  <2>1. UNCHANGED <<rows, log, receipts>>
    BY <1>4 DEF ServerRefuses, ServerReplays, database
  <2>2. ReplyInv'
    BY <1>4, <2>1 DEF ServerRefuses, ServerReplays, Respond, Refusal, Answer, ReceiptOf,
                      SyncInv, AgreeInv, ReplyInv
  <2>3. Stepped("server", {})
    BY <1>2, <2>1, SteppedNone DEF SyncInv, Node
  <2> QED
    BY <1>2, <1>3, <2>1, <2>2, <2>3, AgreeServer
<1>5. CASE ServerRowFails(c, heard)
  <2> DEFINE r == [seq |-> c.seq, change |-> c, status |-> "rejected", clk |-> 0]
  <2>1. UNCHANGED <<rows, log>> /\ receipts' = receipts \cup {r} /\ Respond(heard, Answer(r))
    BY <1>5 DEF ServerRowFails, StoreReceipt, database
  <2>2. ReplyInv'
    BY <2>1 DEF Respond, Answer, SyncInv, AgreeInv, ReplyInv
  <2>3. Stepped("server", {})
    BY <1>2, <2>1, SteppedNone DEF SyncInv, Node
  <2>4. \A q \in receipts' : q.status # "rejected" => q \in receipts
    BY <2>1
  <2> QED
    BY <1>2, <1>3, <2>2, <2>3, <2>4, AgreeServer
<1>6. CASE ServerApplies(c, heard)
  <2> DEFINE db == Database("server")
             r == [seq |-> c.seq, change |-> c,
                   status |-> IF IsWritten(db, c, "client") THEN "applied" ELSE "skipped",
                   clk |-> EffectiveClock(db, c, "client")]
  <2>1. /\ SetDatabase("server", ApplyChanges(db, {c}, Peer("server")))
        /\ receipts' = receipts \cup {r} /\ Respond(heard, Answer(r))
    BY <1>6 DEF ServerApplies, StoreReceipt, Peer
  <2>2. ReplyInv'
    <3> HIDE DEF r
    <3> QED
      BY <2>1 DEF Respond, Answer, SyncInv, AgreeInv, ReplyInv
  <2>3. {c} \subseteq Change /\ IsBatch({d \in {c} : IsMemo(d.key)})
    BY SingleBatch DEF Accepted, SyncInv, TypeInv, TypeOK, Receipt
  <2>4. <<c.key, c.row>> \in Copies
    BY RowsCopied
  <2>5. Stepped("server", {c})
    BY <1>2, <2>1, <2>3, <2>4, SteppedApply DEF SyncInv, Node
  <2>6. Covered("server", rows'["server"], c, now')
    <3>1. c.row.clk \in Int
      BY Clocks DEF SyncInv
    <3>2. CASE c.key \in DOMAIN rows'["server"] /\ rows'["server"][c.key] = c.row
      BY <3>1, <3>2, HeldSelf DEF Covered
    <3>3. CASE Loses("server", c) /\ Untouched("server", c.key)
      <4>1. /\ Database("server").seen = rows["server"] /\ c.key \in DOMAIN rows["server"]
            /\ rows'["server"][c.key] = rows["server"][c.key]
        BY <3>3 DEF Untouched, Database
      <4>2. rows["server"][c.key].clk \in Int /\ c.key \in DOMAIN rows'["server"]
        BY <2>5, <4>1, Clocks DEF SyncInv, Stepped, Node
      <4>3. c.row.clk <= rows["server"][c.key].clk
        BY <3>1, <3>3, <4>1, <4>2 DEF Loses, Columns
      <4> QED
        BY <4>1, <4>2, <4>3 DEF Covered, Held
    <3> QED
      BY <2>5, <3>2, <3>3 DEF Stepped
  <2>7. \A q \in receipts' : q \in receipts \/ Covered("server", rows'["server"], q.change, now')
    BY <2>1, <2>6
  <2> QED
    BY <1>2, <1>3, <2>2, <2>5, <2>7, AgreeServer
<1> QED
  BY <1>1, <1>4, <1>5, <1>6 DEF ServerHandles

\* Collecting: every entry scanned is queued, or the later one of its row.
LEMMA AgreeCollect ==
    ASSUME SyncInv, TypeInv', Collect
    PROVE  AgreeInv'
<1> DEFINE l == log["client"]
           seqs == Scanned(l, pushed)
           Snapshot(s) == [seq |-> s, key |-> l[s], row |-> rows["client"][l[s]],
                           base |-> BaseOf(l[s])]
<1>1. /\ outbox' = outbox \cup {Snapshot(s) : s \in seqs}
      /\ pushed' = ScanEnd(l, pushed)
      /\ UNCHANGED <<rows, log, now, dead, receipts, pulled, inbox, pulldead, reply, feed, view>>
      /\ pc = "collect" /\ pc' \in {"collect", "collected"}
  BY DEF Collect, database, wire
<1>2. l \in Seq(Key) /\ pushed \in Nat
  BY DEF SyncInv, TypeInv, TypeOK, Node
<1>3. seqs \subseteq 1 .. Len(l)
  BY <1>2, ScannedFinite
<1>4. \A s \in seqs : l[s] \in DOMAIN rows["client"] /\ rows["client"][l[s]].clk \in Int
  BY <1>3, Clocks DEF SyncInv, TypeInv, Node
<1>5. \A s \in seqs : Snapshot(s) \in outbox'
  BY <1>1
<1>6. \A c \in Accepted' : c \in Accepted \/
          \E s \in seqs : c.key = l[s] /\ c.row = rows["client"][l[s]]
  BY <1>1 DEF Accepted
<1>7. Accepted \subseteq Accepted' /\ FeedChanges' = FeedChanges /\ feed = NoMsg
  BY <1>1 DEF Accepted, FeedChanges, SyncInv, AgreeInv, CursorInv
<1> HIDE DEF seqs, l
<1>8. \A c \in Accepted' \ Accepted :
         Covered("client", rows["client"], c, now) /\ rows["client"][c.key] = c.row
  BY <1>4, <1>6, HeldSelf DEF Covered
<1>9. CursorInv' /\ ReplyInv' /\ ServerCovers' /\ FeedCurrent' /\ BehindPending'
  BY <1>1, <1>7 DEF SyncInv, AgreeInv, CursorInv, ReplyInv, ServerCovers, FeedCurrent, FeedChanges,
                    BehindPending, Behind, PullPending, Current
<1>10. ClientCovers' /\ SameClock'
  BY <1>1, <1>8 DEF SyncInv, AgreeInv, ClientCovers, SameClock
<1>11. AheadPending'
  <2> SUFFICES ASSUME NEW k \in Key, Ahead(k) PROVE PushPending(k)'
    BY <1>1 DEF AheadPending, Ahead
  <2>1. PushPending(k)
    BY DEF SyncInv, AgreeInv, AheadPending
  <2>2. CASE \E c \in outbox \cup dead : c.key = k /\ c.row = rows["client"][k]
    BY <1>1, <2>2 DEF PushPending
  <2>3. CASE LoggedIn(l, pushed, k)
    <3>1. PICK s \in 1 .. Len(l) : pushed < s /\ l[s] = k
      BY <2>3 DEF LoggedIn
    <3>2. ScanEnd(l, pushed) \in Nat
      BY <1>2, ScanEndType
    <3>3. CASE ScanEnd(l, pushed) < s
      BY <1>1, <3>1, <3>3 DEF PushPending, LoggedIn, l
    <3>4. CASE ~(ScanEnd(l, pushed) < s)
      <4>1. s \in pushed + 1 .. ScanEnd(l, pushed)
        BY <1>2, <3>1, <3>2, <3>4
      <4>2. PICK t \in seqs : l[t] = k
        BY <1>2, <3>1, <4>1, ScannedStands DEF seqs
      <4>3. Snapshot(t) \in outbox' /\ Snapshot(t).key = k /\ Snapshot(t).row = rows'["client"][k]
        BY <1>1, <1>5, <4>2
      <4> QED
        BY <4>3 DEF PushPending
    <3> QED
      BY <3>3, <3>4
  <2> QED
    BY <2>1, <2>2, <2>3 DEF PushPending, l
<1> QED
  BY <1>9, <1>10, <1>11 DEF AgreeInv

\* An answer settles the entry whose receipt it is: the server covers it.
LEMMA AgreeHandleReply ==
    ASSUME SyncInv, TypeInv', HandleReply
    PROVE  AgreeInv'
<1>1. Accepted' = Accepted
  BY HandleReplyAccepted DEF SyncInv
<1>2. /\ UNCHANGED <<rows, log, now, pushed, pulled, inbox, pulldead, receipts, feed, view>>
      /\ reply # NoMsg /\ reply' = NoMsg
      /\ pc' = pc \/ pc' = "idle"
  BY DEF HandleReply, database
<1>3. FeedChanges' = FeedChanges
  BY <1>2 DEF FeedChanges
<1>4. CursorInv'
  <2>1. pc \notin {"apply", "applying"}
    BY <1>2 DEF SyncInv, CallInv
  <2> QED
    BY <1>2, <2>1 DEF SyncInv, AgreeInv, CursorInv
<1>5. ReplyInv' /\ ServerCovers' /\ ClientCovers' /\ SameClock' /\ FeedCurrent' /\ BehindPending'
  BY <1>1, <1>2, <1>3 DEF SyncInv, AgreeInv, ReplyInv, ServerCovers, ClientCovers, SameClock,
                          FeedCurrent, Current, BehindPending, Behind, PullPending
<1>6. AheadPending'
  <2> SUFFICES ASSUME NEW k \in Key, Ahead(k) PROVE PushPending(k)'
    BY <1>2 DEF AheadPending, Ahead
  <2>1. PushPending(k)
    BY DEF SyncInv, AgreeInv, AheadPending
  <2>2. CASE LoggedIn(log["client"], pushed, k)
    BY <1>2, <2>2 DEF PushPending
  <2>3. ASSUME NEW c \in outbox \cup dead, c.key = k, c.row = rows["client"][k],
               c \notin outbox' \cup dead'
        PROVE  FALSE
    <3>1. c \in outbox /\ c.seq = reply.seq /\ reply.status \in {"applied", "skipped"}
      BY <2>3 DEF HandleReply
    <3>2. PICK r \in receipts : r.seq = reply.seq /\ r.status = reply.status
      BY <1>2, <3>1 DEF SyncInv, AgreeInv, ReplyInv
    <3>3. r.change = c
      BY <3>1, <3>2 DEF SyncInv, DeliveryInv, Accepted
    <3>4. Covered("server", rows["server"], c, now)
      BY <3>1, <3>2, <3>3 DEF SyncInv, AgreeInv, ServerCovers
    <3> QED
      BY <2>3, <3>4 DEF Ahead, Covered
  <2> QED
    BY <1>2, <2>1, <2>2, <2>3 DEF PushPending
<1> QED
  BY <1>4, <1>5, <1>6 DEF AgreeInv

\* The feed: every entry scanned has its row, once, as the server has it.
LEMMA AgreeRequest ==
    ASSUME SyncInv, TypeInv', PullRequest
    PROVE  AgreeInv'
<1> DEFINE l == log["server"]
           next == ScanEnd(l, pulled)
           seqs == Scanned(l, pulled)
           Sent(s) == [seq |-> s, key |-> l[s], row |-> rows["server"][l[s]]]
<1>1. /\ UNCHANGED <<rows, log, now, pushed, pulled, outbox, dead, inbox, pulldead, receipts,
                     reply, view>>
      /\ pc = "pull" /\ pc' \in {"idle", "apply"}
      /\ \/ UNCHANGED feed
         \/ /\ pc' = "apply"
            /\ feed' = [next |-> next, max |-> Len(l), changes |-> {Sent(s) : s \in seqs}]
  BY DEF PullRequest, database, disk
<1>2. feed = NoMsg /\ FeedChanges = {}
  BY <1>1 DEF SyncInv, AgreeInv, CursorInv, FeedChanges
<1>3. Accepted' = Accepted
  BY <1>1 DEF Accepted
<1>4. /\ l \in Seq(Key) /\ Len(l) \in Nat /\ pulled \in Nat
      /\ next \in Nat /\ next <= Len(l) /\ seqs \subseteq 1 .. Len(l)
  <2>1. l \in Seq(Key) /\ pulled \in Nat
    BY DEF SyncInv, TypeInv, TypeOK, Node
  <2> HIDE DEF l
  <2> QED
    BY <2>1, ScannedFinite, ScanEndType
<1>5. \A s \in seqs : l[s] \in DOMAIN rows["server"] /\ rows["server"][l[s]].clk \in Int
  BY <1>4, Clocks DEF SyncInv, TypeInv, Node
<1>6. \A s, t \in seqs : l[s] = l[t] => s = t
  <2>1. \A s, t \in seqs : /\ s \in pulled + 1 .. next
                           /\ l[s] = l[t] => ~(t \in s + 1 .. next)
    BY DEF Scanned
  <2>2. \A s, t \in seqs : l[s] = l[t] => ~(t \in s + 1 .. next) /\ ~(s \in t + 1 .. next)
    BY <2>1
  <2> HIDE DEF seqs, next, l
  <2> QED
    BY <1>4, <2>1, <2>2
<1> HIDE DEF seqs, next
<1>7. \A c \in FeedChanges' :
        \E s \in seqs : c = Sent(s)
  BY <1>1, <1>2 DEF FeedChanges
<1>8. CursorInv'
  <2>1. CASE feed' = NoMsg
    BY <1>1, <2>1 DEF SyncInv, AgreeInv, CursorInv
  <2>2. CASE feed' # NoMsg
    <3>1. /\ pc' = "apply" /\ feed'.next = next /\ feed'.changes = {Sent(s) : s \in seqs}
      BY <1>1, <1>2, <2>2
    <3>2. ASSUME NEW s \in 1 .. Len(l), pulled < s, s <= next
          PROVE  \E c \in feed'.changes : c.key = l[s]
      <4>1. s \in pulled + 1 .. next
        BY <1>4, <3>2
      <4>2. PICK t \in seqs : l[t] = l[s]
        BY <1>4, <4>1, ScannedStands DEF next, seqs
      <4>3. Sent(t) \in feed'.changes /\ Sent(t).key = l[s]
        BY <3>1, <4>2
      <4> QED
        BY <4>3
    <3>3. \A c, d \in feed'.changes : c.key = d.key => c = d
      BY <1>6, <3>1
    <3> QED
      BY <1>1, <1>4, <3>1, <3>2, <3>3 DEF SyncInv, AgreeInv, CursorInv
  <2> QED
    BY <2>1, <2>2
<1>9. ServerCovers'
  <2>1. \A c \in FeedChanges' : Covered("server", rows["server"], c, now)
    BY <1>5, <1>7, HeldSelf DEF Covered
  <2> QED
    BY <1>1, <2>1 DEF SyncInv, AgreeInv, ServerCovers
<1>10. FeedCurrent'
  <2>1. \A c \in FeedChanges' : rows["server"][c.key] = c.row
    BY <1>7
  <2> QED
    BY <1>1, <2>1 DEF FeedCurrent, Current
<1>11. ReplyInv' /\ ClientCovers' /\ SameClock' /\ AheadPending' /\ BehindPending'
  BY <1>1, <1>3 DEF SyncInv, AgreeInv, ReplyInv, ClientCovers, SameClock, AheadPending, Ahead,
                    PushPending, BehindPending, Behind, PullPending
<1> QED
  BY <1>8, <1>9, <1>10, <1>11 DEF AgreeInv

\* Steps that move the control of the cycle, take a snapshot or forget messages.
LEMMA AgreeControl ==
    ASSUME SyncInv, TypeInv',
           UNCHANGED <<rows, log, now, pushed, pulled, outbox, dead, inbox, pulldead, receipts>>,
           reply' = reply \/ reply' = NoMsg,
           feed' = NoMsg \/ (feed' = feed /\ (pc' \in {"apply", "applying"} \/ feed = NoMsg)),
           \/ pc' \notin {"retrying", "applying"}
           \/ view' = rows["client"]
           \/ view' = view /\ pc' = pc
    PROVE  AgreeInv'
<1>1. Accepted' = Accepted
  BY DEF Accepted
<1>2. FeedChanges' \subseteq FeedChanges /\ (feed' # NoMsg => feed' = feed)
  BY DEF FeedChanges
<1>3. CursorInv' /\ ReplyInv'
  BY <1>2 DEF SyncInv, AgreeInv, CursorInv, ReplyInv
<1>4. ServerCovers' /\ SameClock'
  BY <1>1, <1>2 DEF SyncInv, AgreeInv, ServerCovers, SameClock
<1>5. ClientCovers'
  <2>1. CASE pc' \notin {"retrying", "applying"}
    BY <1>1, <2>1 DEF SyncInv, AgreeInv, ClientCovers
  <2>2. CASE view' = rows["client"]
    BY <1>1, <1>2, <2>2 DEF SyncInv, AgreeInv, ClientCovers, Covered, Held
  <2>3. CASE view' = view /\ pc' = pc
    BY <1>1, <1>2, <2>3 DEF SyncInv, AgreeInv, ClientCovers
  <2> QED
    BY <2>1, <2>2, <2>3
<1>6. FeedCurrent'
  <2>1. CASE feed' = NoMsg
    BY <2>1 DEF FeedCurrent, FeedChanges
  <2>2. CASE feed' = feed
    BY <1>1, <2>2 DEF SyncInv, AgreeInv, FeedCurrent, FeedChanges, Behind, Current
  <2> QED
    BY <2>1, <2>2
<1>7. AheadPending' /\ BehindPending'
  BY DEF SyncInv, AgreeInv, AheadPending, Ahead, PushPending, BehindPending, Behind, PullPending
<1> QED
  BY <1>3, <1>4, <1>5, <1>6, <1>7 DEF AgreeInv

LEMMA CallStep ==
    ASSUME CallInv, [Next]_vars
    PROVE  CallInv'
<1>1. CASE \E n \in Node : Write(n)
  BY <1>1 DEF CallInv, Write, CreateMemo, UpdateMemo, DeleteMemo, wire
<1>2. CASE SendPush
  BY <1>2 DEF CallInv, SendPush
<1>3. CASE StartCycle \/ RetryDone \/ Collect \/ StartPush \/ PushDone \/ InboxEmpty
  BY <1>3 DEF CallInv, StartCycle, RetryDone, Collect, StartPush, PushDone, InboxEmpty, wire
<1>4. CASE HandleReply
  BY <1>4 DEF CallInv, HandleReply
<1>5. CASE PullReads \/ PullRetry \/ PullRequest \/ PullApply
  BY <1>5 DEF CallInv, PullReads, PullRetry, PullRequest, PullApply
<1>6. CASE ServerPush
  BY <1>6 DEF CallInv, ServerPush
<1>7. CASE ServerPushLate
  <2>1. reply' = reply
    BY <1>7 DEF ServerPushLate, ServerHandles, ServerRefuses, ServerReplays, ServerApplies,
                ServerRowFails, StoreReceipt, Respond
  <2> QED
    BY <1>7, <2>1 DEF CallInv, ServerPushLate
<1>8. CASE AbortCycle
  BY <1>8 DEF CallInv, AbortCycle
<1>9. CASE UNCHANGED vars
  BY <1>9 DEF CallInv, vars, wire
<1> QED
  BY <1>1, <1>2, <1>3, <1>4, <1>5, <1>6, <1>7, <1>8, <1>9 DEF Next, Daemon

LEMMA AgreeInit == Init => AgreeInv
<1> SUFFICES ASSUME Init PROVE AgreeInv
  OBVIOUS
<1>1. Accepted = {} /\ FeedChanges = {} /\ inbox = {} /\ receipts = {} /\ DOMAIN view = {}
  BY DEF Init, Accepted, FeedChanges, NoRows
<1>2. pulled = 0 /\ Len(log["server"]) = 0 /\ feed = NoMsg /\ reply = NoMsg
  BY DEF Init, Node
<1>3. rows["client"] = rows["server"]
  BY DEF Init, Node
<1>4. \A k \in DOMAIN rows["server"] : rows["server"][k].clk \in Int
  BY ConstantsAssumption DEF Init, Node, ConstantsAssumption
<1>5. \A k \in Key : ~Ahead(k) /\ ~Behind(k)
  BY <1>3, <1>4, HeldSelf DEF Ahead, Behind
<1> QED
  BY <1>1, <1>2, <1>5 DEF AgreeInv, CursorInv, ReplyInv, ServerCovers, ClientCovers, SameClock,
                          FeedCurrent, AheadPending, BehindPending, Init

LEMMA AgreeStep ==
    ASSUME SyncInv, [Next]_vars
    PROVE  AgreeInv'
<1>1. TypeInv'
  BY TypeStep DEF SyncInv
<1>2. pc \notin {"apply", "applying"} => feed = NoMsg
  BY DEF SyncInv, AgreeInv, CursorInv
<1>3. CASE \E n \in Node : Write(n)
  BY <1>1, <1>3, AgreeWrite
<1>4. CASE ServerPush \/ ServerPushLate
  BY <1>1, <1>4, AgreePush
<1>5. CASE Collect
  BY <1>1, <1>5, AgreeCollect
<1>6. CASE HandleReply
  BY <1>1, <1>6, AgreeHandleReply
<1>7. CASE PullRequest
  BY <1>1, <1>7, AgreeRequest
<1>8. CASE PullRetry
  BY <1>1, <1>8, AgreeRetry
<1>9. CASE PullApply
  BY <1>1, <1>9, AgreeApply
<1>10. CASE StartCycle \/ RetryDone \/ StartPush \/ PushDone \/ InboxEmpty
  BY <1>1, <1>2, <1>10, AgreeControl
  DEF StartCycle, RetryDone, StartPush, PushDone, InboxEmpty, database, disk, wire
<1>11. CASE SendPush
  BY <1>1, <1>2, <1>11, AgreeControl DEF SendPush, database, disk
<1>12. CASE PullReads
  BY <1>1, <1>2, <1>12, AgreeControl DEF PullReads, database, disk
<1>13. CASE AbortCycle
  BY <1>1, <1>13, AgreeControl DEF AbortCycle, database, disk
<1>14. CASE UNCHANGED vars
  BY <1>1, <1>2, <1>14, AgreeControl DEF vars, database, disk, wire
<1> QED
  BY <1>3, <1>4, <1>5, <1>6, <1>7, <1>8, <1>9, <1>10, <1>11, <1>12, <1>13, <1>14 DEF Next, Daemon

\* Of what the server wrote it has the last: an edit there is newer by its own clock.
LEMMA OwnStep ==
    ASSUME TypeInv, DeliveryInv, CopiesInv, OwnInv, [Next]_vars
    PROVE  OwnInv'
<1>1. PICK n \in Node : Progress(n)
  BY ProgressStep
<1>2. TypeInv' /\ Moved /\ Grows(n) /\ "server" \in Node
  BY <1>1, TypeStep, MovedStep DEF Progress, Node
<1> SUFFICES ASSUME NEW p \in Copies', p[2].by = "server"
             PROVE  p[1] \in DOMAIN rows'["server"] /\ p[2].clk <= rows'["server"][p[1]].clk
  BY DEF OwnInv
<1> DEFINE k == p[1]
<1>3. p[2] \in Row /\ p[2].clk \in Int
  BY <1>2, NewCopies DEF Row
<1>4. CASE p \in Copies
  <2>1. k \in DOMAIN rows["server"] /\ p[2].clk <= rows["server"][k].clk
    BY <1>4 DEF OwnInv
  <2>2. k \in DOMAIN rows'["server"] /\ now <= now'
    BY <1>2, <2>1 DEF Grows
  <2>3. rows["server"][k].clk \in Int /\ rows'["server"][k].clk \in Int /\ now \in Nat /\ now' \in Nat
    BY <1>2, <2>1, <2>2, Clocks, ClocksAfter
  <2>4. p[2].clk <= now
    BY <1>3, <1>4 DEF CopiesInv, WrittenAt, SkewOf
  <2>5. CASE n = "server"
    <3>1. rows["server"][k].clk <= rows'["server"][k].clk \/ Stamped("server", k)
      BY <1>1, <2>1, <2>5 DEF Progress, Newer
    <3> QED
      BY <1>3, <2>1, <2>2, <2>3, <2>4, <3>1 DEF Stamped, SkewOf
  <2>6. CASE n # "server"
    BY <1>2, <2>1, <2>2, <2>6 DEF Grows
  <2> QED
    BY <2>5, <2>6
<1>5. CASE p \notin Copies
  <2>1. k \in DOMAIN rows'[n] /\ p = <<k, rows'[n][k]>> /\ Stamped(n, k)
    BY <1>2, <1>5, NewCopies
  <2>2. p[2] = rows'[n][k]
    BY <2>1
  <2>3. n = "server"
    BY <2>1, <2>2 DEF Stamped
  <2> QED
    BY <1>3, <2>1, <2>2, <2>3
<1> QED
  BY <1>4, <1>5

LEMMA OwnInit == Init => OwnInv
<1> SUFFICES ASSUME Init PROVE OwnInv
  OBVIOUS
<1>1. Accepted \cup inbox \cup FeedChanges = {} /\ DOMAIN view = {}
  BY DEF Init, Accepted, FeedChanges, NoRows
<1>2. \A n \in Node : \A k \in DOMAIN rows[n] : rows[n][k].by = "client"
  BY DEF Init
<1>3. \A p \in Copies : p[2].by = "client"
  BY <1>1, <1>2 DEF Copies
<1> QED
  BY <1>3 DEF OwnInv

\* When nothing is left to be sent, answered or applied, no row is ahead or behind.
LEMMA NothingPending ==
    ASSUME SyncInv
    PROVE  SettledAgree
<1> SUFFICES ASSUME Settled
             PROVE  /\ DOMAIN rows["client"] = DOMAIN rows["server"]
                    /\ \A k \in DOMAIN rows["client"] :
                         \/ Columns(rows["client"][k]) = Columns(rows["server"][k])
                         \/ /\ IsMemo(k)
                            /\ Apart(rows["client"][k].clk, rows["server"][k].clk) < Apart(Skew, 0)
  BY DEF SettledAgree
<1>1. \A k \in Key : ~Ahead(k) /\ ~Behind(k)
  BY DEF Settled, SyncInv, AgreeInv, AheadPending, BehindPending, PushPending, PullPending,
         LoggedIn
<1>2. \A n \in Node : \A k \in DOMAIN rows[n] : k \in Key /\ rows[n][k].clk \in Int
  BY Clocks DEF SyncInv
<1>3. \A k \in DOMAIN rows["client"] : k \in DOMAIN rows["server"]
  BY <1>1, <1>2 DEF Ahead, Node
<1>4. \A k \in DOMAIN rows["server"] : k \in DOMAIN rows["client"]
  BY <1>1, <1>2 DEF Behind, Node
<1>5. ASSUME NEW k \in DOMAIN rows["client"]
      PROVE  \/ Columns(rows["client"][k]) = Columns(rows["server"][k])
             \/ /\ IsMemo(k)
                /\ Apart(rows["client"][k].clk, rows["server"][k].clk) < Apart(Skew, 0)
  <2>1. k \in Key /\ rows["client"][k].clk \in Int /\ rows["server"][k].clk \in Int
    BY <1>2, <1>3, <1>5 DEF Node
  <2>2. CASE IsMemo(k)
    <3>1. /\ Held("server", rows["client"][k], rows["server"][k], now)
          /\ Held("client", rows["server"][k], rows["client"][k], now)
          /\ Skew = 0 /\ rows["client"][k].clk = rows["server"][k].clk
               => Columns(rows["client"][k]) = Columns(rows["server"][k])
      BY <1>1, <1>3, <1>5, <2>1 DEF Ahead, Behind
    <3>2. Skew # 0 => Apart(rows["client"][k].clk, rows["server"][k].clk) < Apart(Skew, 0)
      BY <2>1, <3>1, ConstantsAssumption DEF Held, Apart, Greatest, ConstantsAssumption
    <3>3. Skew = 0 => rows["client"][k].clk = rows["server"][k].clk
      BY <2>1, <3>1 DEF Held, Apart, Greatest
    <3> QED
      BY <2>2, <3>1, <3>2, <3>3
  <2>3. CASE ~IsMemo(k)
    <3>1. <<k, rows["client"][k]>> \in Copies /\ <<k, rows["server"][k]>> \in Copies
      BY <1>3, <1>5, RowsCopied DEF Node
    <3> QED
      BY <2>3, <3>1 DEF SyncInv, CopiesInv
  <2> QED
    BY <2>2, <2>3
<1> QED
  BY <1>3, <1>4, <1>5

\* Whatever is lost, late, repeated or fails: once nothing is pending in either direction,
\* the laptop and the server hold the same rows; where their clocks differ, a memo may
\* still differ, with clocks closer to each other than those of the nodes.
THEOREM ReplicasAgree == Spec => []SettledAgree
<1>1. Init => SyncInv
  BY TypeInit, DeliveryInit, CopiesInit, OwnInit, AgreeInit DEF SyncInv, CallInv, Init
<1>2. SyncInv /\ [Next]_vars => SyncInv'
  BY TypeStep, DeliveryStep, CopiesStep, OwnStep, CallStep, AgreeStep DEF SyncInv
<1>3. SyncInv => SettledAgree
  BY NothingPending
<1> QED
  BY <1>1, <1>2, <1>3, PTL DEF Spec

-----------------------------------------------------------------------------
(* A batch row by row: ApplyChanges is what apply_changes does.              *)

\* A pulled batch: numbers and rows are distinct, its versions have old ids.
IsPulledBatch(db, S) ==
    /\ IsBatch(S)
    /\ \A c, d \in S : c.key = d.key => c = d
    /\ \A c \in S : c.key \in Key /\ c.key[2] <= db.ids
    /\ db.ids \in Nat /\ db.log \in Seq(Key)

\* Part of a batch is a batch.
LEMMA PartOfBatch ==
    ASSUME NEW db, NEW S, IsPulledBatch(db, S), NEW P \in SUBSET S
    PROVE  IsPulledBatch(db, P)
BY FS_Subset DEF IsPulledBatch, IsBatch

\* The rows of a table once a batch was applied: new versions, written rows and
\* the rows that stay, under keys that differ.
LEMMA AppliedTable ==
    ASSUME NEW db, NEW P, IsPulledBatch(db, P), NEW side
    PROVE  LET r == ApplyChanges(db, P, side)
               kept == Preserved(db, P, side)
               new == {VersionKey(db, kept, c) : c \in kept}
               written == {c \in P : IsWritten(db, c, side)}
           IN  /\ DOMAIN r.rows = DOMAIN db.rows \cup {c.key : c \in written} \cup new
               /\ \A c \in kept : r.rows[VersionKey(db, kept, c)]
                                    = VersionRow(Peer(side), LoserBody(db, c, side), now)
               /\ \A c \in written : c.key \notin new /\ r.rows[c.key] = c.row
               /\ \A k \in DOMAIN r.rows :
                    k \notin new /\ (\A c \in written : c.key # k) => r.rows[k] = db.rows[k]
               /\ \A c \in P : c.key \notin new
               /\ \A c \in kept : db.ids < VersionKey(db, kept, c)[2]
               /\ \A c, d \in kept : VersionKey(db, kept, c) = VersionKey(db, kept, d) => c = d
<1> DEFINE kept == Preserved(db, P, side)
           new == {VersionKey(db, kept, c) : c \in kept}
           written == {c \in P : IsWritten(db, c, side)}
           Saved(k) == {c \in kept : VersionKey(db, kept, c) = k}
           Written(k) == {c \in P : c.key = k /\ IsWritten(db, c, side)}
           r == ApplyChanges(db, P, side)
           dom == DOMAIN db.rows \cup {c.key : c \in UNION {Written(c.key) : c \in P}} \cup new
           val(k) == IF \E c \in kept : VersionKey(db, kept, c) = k
                     THEN VersionRow(Peer(side), LoserBody(db, CHOOSE c \in Saved(k) : TRUE, side), now)
                     ELSE IF Written(k) = {} THEN db.rows[k]
                     ELSE (CHOOSE c \in Written(k) : TRUE).row
<1>1. r.rows = [k \in dom |-> val(k)]
  BY DEF ApplyChanges
<1>2. IsBatch(kept) /\ kept \subseteq P
  BY FS_Subset DEF Preserved, IsPulledBatch, IsBatch
<1>3. \A c \in kept : Rank(kept, c) \in Nat \ {0} /\ VersionKey(db, kept, c)[2] = db.ids + Rank(kept, c)
  <2> SUFFICES ASSUME NEW c \in kept
               PROVE  Rank(kept, c) \in Nat \ {0} /\ VersionKey(db, kept, c)[2] = db.ids + Rank(kept, c)
    OBVIOUS
  <2> HIDE DEF kept
  <2>1. Cardinality(kept) \in Nat
    BY <1>2, FS_CardinalityType DEF IsBatch
  <2>2. Rank(kept, c) \in 1 .. Cardinality(kept)
    BY <1>2, RankType
  <2> QED
    BY <2>1, <2>2 DEF VersionKey
<1>4. \A c, d \in kept : VersionKey(db, kept, c) = VersionKey(db, kept, d) => c = d
  <2> HIDE DEF kept
  <2>1. ASSUME NEW c \in kept, NEW d \in kept, VersionKey(db, kept, c) = VersionKey(db, kept, d)
        PROVE  c = d
    <3>1. Rank(kept, c) = Rank(kept, d)
      BY <1>3, <2>1 DEF IsPulledBatch
    <3> QED
      BY <1>2, <3>1, RankInjective
  <2> QED
    BY <2>1
<1>5. \A c \in P : c.key \notin new
  BY <1>3 DEF IsPulledBatch, Key
<1>6. UNION {Written(c.key) : c \in P} = written
  OBVIOUS
<1>7. ASSUME NEW c \in kept
      PROVE  r.rows[VersionKey(db, kept, c)] = VersionRow(Peer(side), LoserBody(db, c, side), now)
  <2> DEFINE k == VersionKey(db, kept, c)
  <2>1. Saved(k) = {c}
    BY <1>4
  <2>2. (CHOOSE e \in Saved(k) : TRUE) = c
    BY <2>1
  <2> HIDE DEF r
  <2>3. k \in dom /\ r.rows[k] = val(k)
    BY <1>1
  <2> QED
    BY <2>2, <2>3
<1>8. ASSUME NEW c \in written
      PROVE  c.key \notin new /\ r.rows[c.key] = c.row
  <2>1. Written(c.key) = {c}
    BY DEF IsPulledBatch
  <2>2. (CHOOSE e \in Written(c.key) : TRUE) = c
    BY <2>1
  <2>3. ~(\E e \in kept : VersionKey(db, kept, e) = c.key)
    BY <1>5
  <2> HIDE DEF r
  <2>4. c.key \in dom
    BY <1>6
  <2>5. r.rows[c.key] = val(c.key)
    <3> HIDE DEF dom, val
    <3> QED
      BY <1>1, <2>4
  <2> QED
    BY <1>5, <2>1, <2>2, <2>3, <2>5
<1>9. ASSUME NEW k \in DOMAIN r.rows, k \notin new, \A c \in written : c.key # k
      PROVE  r.rows[k] = db.rows[k]
  <2>1. Written(k) = {}
    BY <1>9
  <2>2. ~(\E e \in kept : VersionKey(db, kept, e) = k)
    BY <1>9
  <2> HIDE DEF r
  <2>3. k \in dom /\ r.rows[k] = val(k)
    BY <1>1, <1>9
  <2> QED
    BY <2>1, <2>2, <2>3
<1>10. DOMAIN r.rows = DOMAIN db.rows \cup {c.key : c \in written} \cup new
  BY <1>1, <1>6
<1>11. /\ \A c \in kept : r.rows[VersionKey(db, kept, c)]
                             = VersionRow(Peer(side), LoserBody(db, c, side), now)
       /\ \A c \in written : c.key \notin new /\ r.rows[c.key] = c.row
       /\ \A k \in DOMAIN r.rows :
            k \notin new /\ (\A c \in written : c.key # k) => r.rows[k] = db.rows[k]
  <2> HIDE DEF r, kept, new, written
  <2> QED
    BY <1>7, <1>8, <1>9
<1>12. \A c \in kept : db.ids < VersionKey(db, kept, c)[2]
  BY <1>3 DEF IsPulledBatch
<1> QED
  BY <1>4, <1>5, <1>10, <1>11, <1>12

\* A change that comes last in the batch is ranked last among those preserved.
RankedLast(c, old, kept) ==
    /\ Cardinality(old) \in Nat
    /\ c \notin kept => kept = old
    /\ c \in kept => /\ kept = old \cup {c} /\ c \notin old
                     /\ Cardinality(kept) = Cardinality(old) + 1
                     /\ Rank(kept, c) = Cardinality(old) + 1
                     /\ \A d \in old : Rank(kept, d) = Rank(old, d)

LEMMA KeptStep ==
    ASSUME NEW db, NEW S, IsPulledBatch(db, S), NEW P \in SUBSET S, NEW c \in S \ P,
           \A d \in P : Before(d, c), NEW side
    PROVE  RankedLast(c, Preserved(db, P, side), Preserved(db, P \cup {c}, side))
<1> DEFINE old == Preserved(db, P, side)
           kept == Preserved(db, P \cup {c}, side)
<1>1. c \in kept <=> /\ Conflicts(db, c, side)
                     /\ ~HasVersion(db, c.key[1], LoserBody(db, c, side))
  BY DEF Preserved
<1>2. kept = old \cup (IF c \in kept THEN {c} ELSE {}) /\ c \notin old /\ old \subseteq P
  BY DEF Preserved
<1>3. IsFiniteSet(old) /\ Cardinality(old) \in Nat
  BY <1>2, FS_Subset, FS_CardinalityType DEF IsPulledBatch, IsBatch
<1>4. c \in kept => IsMemo(c.key)
  BY <1>1 DEF Conflicts
<1>5. \A d \in old : IsMemo(d.key)
  BY DEF Preserved, Conflicts
<1>6. \A d \in old : d.seq \in Int /\ c.seq \in Int
  BY <1>2 DEF IsPulledBatch, IsBatch
<1> HIDE DEF old, kept
<1>7. CASE c \in kept
  <2>1. kept = old \cup {c}
    BY <1>2, <1>7
  <2>2. Cardinality(kept) = Cardinality(old) + 1
    BY <1>2, <1>3, <2>1, FS_AddElement
  <2>3. \A d \in old : d.seq < c.seq
    BY <1>2, <1>4, <1>5, <1>7 DEF Before
  <2>4. {d \in kept : d.seq <= c.seq} = kept
    BY <1>6, <2>1, <2>3 DEF IsPulledBatch, IsBatch
  <2>5. \A d \in old : {e \in kept : e.seq <= d.seq} = {e \in old : e.seq <= d.seq}
    BY <1>6, <2>1, <2>3
  <2> QED
    BY <1>1, <1>2, <1>3, <1>7, <2>1, <2>2, <2>4, <2>5 DEF Rank, RankedLast, old, kept
<1> QED
  BY <1>1, <1>2, <1>3, <1>7 DEF RankedLast, old, kept

\* A table under a database's decisions: what becomes of `rows`, or of `seen`.
OnTable(db, t) ==
    [rows |-> t, seen |-> db.seen, log |-> db.log, ids |-> db.ids, conflicts |-> db.conflicts]

Table(db, t, P, side) == ApplyChanges(OnTable(db, t), P, side).rows

LEMMA TableDecisions ==
    ASSUME NEW db, NEW t, NEW side
    PROVE  LET o == OnTable(db, t)
           IN  /\ o.rows = t /\ o.ids = db.ids
               /\ \A P : IsPulledBatch(db, P) => IsPulledBatch(o, P)
               /\ \A c : /\ IsWritten(o, c, side) <=> IsWritten(db, c, side)
                         /\ LoserBody(o, c, side) = LoserBody(db, c, side)
               /\ \A P : Preserved(o, P, side) = Preserved(db, P, side)
               /\ \A K, c : VersionKey(o, K, c) = VersionKey(db, K, c)
BY DEF OnTable, IsPulledBatch, IsWritten, LoserBody, Preserved, VersionKey, Exists, SameRow,
       IncomingWins, Conflicts, IsTrueDivergence, HasVersion

\* What a table holds once batch P was applied.
IsApplied(db, t, P, side, r) ==
    LET kept == Preserved(db, P, side)
        new == {VersionKey(db, kept, c) : c \in kept}
        written == {c \in P : IsWritten(db, c, side)}
    IN  /\ DOMAIN r = DOMAIN t \cup {c.key : c \in written} \cup new
        /\ r = [k \in DOMAIN r |-> r[k]]
        /\ \A c \in kept : r[VersionKey(db, kept, c)]
                             = VersionRow(Peer(side), LoserBody(db, c, side), now)
        /\ \A c \in written : c.key \notin new /\ r[c.key] = c.row
        /\ \A k \in DOMAIN r : k \notin new /\ (\A c \in written : c.key # k) => r[k] = t[k]
        /\ \A c \in P : c.key \notin new
        /\ \A c \in kept : db.ids < VersionKey(db, kept, c)[2]
        /\ \A c, d \in kept : VersionKey(db, kept, c) = VersionKey(db, kept, d) => c = d

LEMMA TableApplied ==
    ASSUME NEW db, NEW P, IsPulledBatch(db, P), NEW side, NEW t
    PROVE  IsApplied(db, t, P, side, Table(db, t, P, side))
<1> DEFINE o == OnTable(db, t)
<1>1. IsPulledBatch(o, P)
  BY TableDecisions
<1>2. /\ o.rows = t /\ o.ids = db.ids
      /\ \A c : /\ IsWritten(o, c, side) <=> IsWritten(db, c, side)
                /\ LoserBody(o, c, side) = LoserBody(db, c, side)
      /\ Preserved(o, P, side) = Preserved(db, P, side)
      /\ \A K, c : VersionKey(o, K, c) = VersionKey(db, K, c)
  BY TableDecisions
<1>3. Table(db, t, P, side) = [k \in DOMAIN Table(db, t, P, side) |-> Table(db, t, P, side)[k]]
  BY DEF Table, ApplyChanges
<1> HIDE DEF o
<1> QED
  BY <1>1, <1>2, <1>3, AppliedTable DEF Table, o, IsApplied

\* What one more row of the batch does to a table.
LEMMA TableStep ==
    ASSUME NEW db, NEW S, IsPulledBatch(db, S), NEW P \in SUBSET S, NEW c \in S \ P,
           \A d \in P : Before(d, c), NEW side, NEW t
    PROVE  LET old == Preserved(db, P, side)
               kept == Preserved(db, P \cup {c}, side)
               r == Table(db, t, P, side)
               u == IF IsWritten(db, c, side) THEN Upsert(r, c.key, c.row) ELSE r
               v == <<c.key[1], db.ids + Cardinality(old) + 1>>
           IN  Table(db, t, P \cup {c}, side) =
                   IF c \in kept
                   THEN Upsert(u, v, VersionRow(Peer(side), LoserBody(db, c, side), now))
                   ELSE u
<1> DEFINE Q == P \cup {c}
           old == Preserved(db, P, side)
           kept == Preserved(db, Q, side)
           r == Table(db, t, P, side)
           s == Table(db, t, Q, side)
           u == IF IsWritten(db, c, side) THEN Upsert(r, c.key, c.row) ELSE r
           v == <<c.key[1], db.ids + Cardinality(old) + 1>>
           w == IF c \in kept
                THEN Upsert(u, v, VersionRow(Peer(side), LoserBody(db, c, side), now)) ELSE u
           oldKeys == {VersionKey(db, old, d) : d \in old}
           newKeys == {VersionKey(db, kept, d) : d \in kept}
           oldRows == {d \in P : IsWritten(db, d, side)}
           newRows == {d \in Q : IsWritten(db, d, side)}
<1>1. IsPulledBatch(db, P) /\ IsPulledBatch(db, Q)
  BY PartOfBatch
<1>2. /\ Cardinality(old) \in Nat
      /\ c \notin kept => kept = old
      /\ c \in kept => /\ kept = old \cup {c} /\ c \notin old
                       /\ Rank(kept, c) = Cardinality(old) + 1
                       /\ \A d \in old : Rank(kept, d) = Rank(old, d)
  <2>1. RankedLast(c, old, kept)
    BY KeptStep
  <2> HIDE DEF old, kept
  <2> QED
    BY <2>1 DEF RankedLast
<1>3. \A d \in old : VersionKey(db, kept, d) = VersionKey(db, old, d)
  BY <1>2 DEF VersionKey
<1>4. c \in kept => VersionKey(db, kept, c) = v
  <2> SUFFICES ASSUME c \in kept PROVE VersionKey(db, kept, c) = v
    OBVIOUS
  <2> HIDE DEF kept, old
  <2>1. db.ids \in Nat /\ Cardinality(old) \in Nat /\ Rank(kept, c) = Cardinality(old) + 1
    BY <1>2 DEF IsPulledBatch
  <2>2. db.ids + Rank(kept, c) = db.ids + Cardinality(old) + 1
    BY <2>1
  <2> QED
    BY <2>2 DEF VersionKey
<1>5. newKeys = oldKeys \cup (IF c \in kept THEN {v} ELSE {})
  BY <1>2, <1>3, <1>4
<1>6. newRows = oldRows \cup (IF IsWritten(db, c, side) THEN {c} ELSE {})
  OBVIOUS
<1>7. /\ DOMAIN r = DOMAIN t \cup {d.key : d \in oldRows} \cup oldKeys
      /\ r = [k \in DOMAIN r |-> r[k]]
      /\ \A d \in old : r[VersionKey(db, old, d)]
                          = VersionRow(Peer(side), LoserBody(db, d, side), now)
      /\ \A d \in oldRows : d.key \notin oldKeys /\ r[d.key] = d.row
      /\ \A k \in DOMAIN r : k \notin oldKeys /\ (\A d \in oldRows : d.key # k) => r[k] = t[k]
  <2>1. IsApplied(db, t, P, side, r)
    BY <1>1, TableApplied
  <2> HIDE DEF r
  <2> QED
    BY <2>1 DEF IsApplied
<1>8. /\ DOMAIN s = DOMAIN t \cup {d.key : d \in newRows} \cup newKeys
      /\ s = [k \in DOMAIN s |-> s[k]]
      /\ \A d \in kept : s[VersionKey(db, kept, d)]
                          = VersionRow(Peer(side), LoserBody(db, d, side), now)
      /\ \A d \in newRows : d.key \notin newKeys /\ s[d.key] = d.row
      /\ \A k \in DOMAIN s : k \notin newKeys /\ (\A d \in newRows : d.key # k) => s[k] = t[k]
      /\ \A d \in Q : d.key \notin newKeys
      /\ \A d, e \in kept : VersionKey(db, kept, d) = VersionKey(db, kept, e) => d = e
  <2>1. IsApplied(db, t, Q, side, s)
    <3> HIDE DEF Q
    <3> QED
      BY <1>1, TableApplied
  <2> HIDE DEF Q, s
  <2> QED
    BY <2>1 DEF IsApplied
<1>9. c \in Q /\ c.key \notin newKeys /\ \A d \in oldRows : d.key # c.key
  BY <1>8 DEF IsPulledBatch
<1>10. c \in kept => v \notin oldKeys
  BY <1>2, <1>3, <1>4, <1>8
<1> HIDE DEF Q, old, kept, r, s, v, oldKeys, newKeys, oldRows, newRows
<1>11. /\ DOMAIN w = DOMAIN r \cup (IF IsWritten(db, c, side) THEN {c.key} ELSE {})
                             \cup (IF c \in kept THEN {v} ELSE {})
       /\ w = [k \in DOMAIN w |-> w[k]]
       /\ \A k \in DOMAIN w :
            w[k] = IF c \in kept /\ k = v
                   THEN VersionRow(Peer(side), LoserBody(db, c, side), now)
                   ELSE IF IsWritten(db, c, side) /\ k = c.key THEN c.row ELSE r[k]
  BY <1>7 DEF Upsert
<1> HIDE DEF w
<1>12. DOMAIN s = DOMAIN w
  BY <1>5, <1>6, <1>7, <1>8, <1>11
<1>13. ASSUME NEW k \in DOMAIN s PROVE s[k] = w[k]
  <2>1. CASE c \in kept /\ k = v
    BY <1>4, <1>8, <1>11, <1>12, <1>13, <2>1
  <2>2. CASE ~(c \in kept /\ k = v) /\ IsWritten(db, c, side) /\ k = c.key
    BY <1>6, <1>8, <1>11, <1>12, <1>13, <2>2
  <2>3. CASE ~(c \in kept /\ k = v) /\ ~(IsWritten(db, c, side) /\ k = c.key)
    <3>1. w[k] = r[k] /\ k \in DOMAIN r
      BY <1>11, <1>12, <1>13, <2>3
    <3>2. CASE k \in oldKeys
      <4>1. PICK d \in old : k = VersionKey(db, old, d)
        BY <3>2 DEF oldKeys
      <4>2. d \in kept /\ VersionKey(db, kept, d) = k
        BY <1>2, <1>3, <4>1
      <4> QED
        BY <1>7, <1>8, <3>1, <4>1, <4>2
    <3>3. CASE k \notin oldKeys /\ \E d \in oldRows : d.key = k
      BY <1>6, <1>7, <1>8, <3>1, <3>3
    <3>4. CASE k \notin oldKeys /\ \A d \in oldRows : d.key # k
      <4>1. k \notin newKeys
        BY <1>5, <2>3, <3>4
      <4>2. \A d \in newRows : d.key # k
        BY <1>6, <2>3, <3>4
      <4> QED
        BY <1>7, <1>8, <1>13, <3>1, <3>4, <4>1, <4>2
    <3> QED
      BY <3>2, <3>3, <3>4
  <2> QED
    BY <2>1, <2>2, <2>3
<1>14. s = w
  BY <1>8, <1>11, <1>12, <1>13
<1> QED
  BY <1>14 DEF Q, old, kept, r, s, v, w

\* The database once batch P was applied, with what its transaction sees then.
Outcome(db, P) ==
    LET r == ApplyChanges(db, P, "server")
    IN  [rows |-> Table(db, db.rows, P, "server"), seen |-> Table(db, db.seen, P, "server"),
         log |-> r.log, ids |-> r.ids, conflicts |-> r.conflicts]

\* A row's outcome depends on no row applied before it.
LEMMA OwnOutcome ==
    ASSUME NEW db, NEW S, IsPulledBatch(db, S), NEW P \in SUBSET S, NEW c \in S \ P,
           \A d \in P : Before(d, c)
    PROVE  LET x == Outcome(db, P)
           IN  /\ IsWritten(x, c, "server") <=> IsWritten(db, c, "server")
               /\ Conflicts(x, c, "server") <=> Conflicts(db, c, "server")
               /\ Conflicts(db, c, "server") =>
                    /\ LoserBody(x, c, "server") = LoserBody(db, c, "server")
                    /\ \A val : HasVersion(x, c.key[1], val) <=> HasVersion(db, c.key[1], val)
<1> DEFINE x == Outcome(db, P)
           r == Table(db, db.seen, P, "server")
           old == Preserved(db, P, "server")
           new == {VersionKey(db, old, d) : d \in old}
           written == {d \in P : IsWritten(db, d, "server")}
<1>1. IsApplied(db, db.seen, P, "server", r)
  BY PartOfBatch, TableApplied
<1>2. x.seen = r
  BY DEF Outcome
<1> HIDE DEF r, x
<1>3. /\ DOMAIN r = DOMAIN db.seen \cup {d.key : d \in written} \cup new
      /\ \A k \in DOMAIN r : k \notin new /\ (\A d \in written : d.key # k) => r[k] = db.seen[k]
      /\ \A d \in old : db.ids < VersionKey(db, old, d)[2]
  BY <1>1 DEF IsApplied
<1>4. c.key \notin new
  BY <1>3 DEF IsPulledBatch, Key
<1>5. \A d \in written : d.key # c.key
  BY DEF IsPulledBatch
<1>6. /\ c.key \in DOMAIN r <=> c.key \in DOMAIN db.seen
      /\ c.key \in DOMAIN db.seen => r[c.key] = db.seen[c.key]
  BY <1>3, <1>4, <1>5
<1>7. /\ IsWritten(x, c, "server") <=> IsWritten(db, c, "server")
      /\ Conflicts(x, c, "server") <=> Conflicts(db, c, "server")
      /\ Conflicts(db, c, "server") => LoserBody(x, c, "server") = LoserBody(db, c, "server")
  BY <1>2, <1>6
  DEF IsWritten, Conflicts, LoserBody, Exists, SameRow, IncomingWins, IsTrueDivergence
<1>8. ASSUME Conflicts(db, c, "server"), NEW val
      PROVE  HasVersion(x, c.key[1], val) <=> HasVersion(db, c.key[1], val)
  <2>1. IsMemo(c.key) /\ \A d \in P : IsMemo(d.key)
    BY <1>8 DEF Conflicts, Before
  <2>2. ASSUME NEW d \in P PROVE d.key[1] # c.key[1]
    <3>1. d.key # c.key /\ d.key \in Key /\ c.key \in Key
      BY DEF IsPulledBatch
    <3>2. d.key[2] = c.key[2]
      BY <2>1 DEF IsMemo
    <3> QED
      BY <3>1, <3>2 DEF Key
  <2>3. ASSUME NEW k \in new PROVE k[1] # c.key[1]
    <3>1. PICK d \in old : k = VersionKey(db, old, d)
      BY <2>3
    <3>2. d \in P
      BY DEF Preserved
    <3> QED
      BY <2>2, <3>1, <3>2 DEF VersionKey
  <2>4. ASSUME NEW k, k[1] = c.key[1], ~IsMemo(k)
        PROVE  /\ k \in DOMAIN r <=> k \in DOMAIN db.seen
               /\ k \in DOMAIN r => r[k] = db.seen[k]
    BY <1>3, <2>1, <2>3, <2>4
  <2> QED
    BY <1>2, <2>4 DEF HasVersion
<1> QED
  BY <1>7, <1>8 DEF x

LEMMA AppendStep ==
    ASSUME NEW T, NEW l \in Seq(T), NEW s \in Seq(T), NEW f \in Seq(T), NEW n \in Nat, NEW v \in T,
           Len(s) = n, Len(f) = n + 1, f[n + 1] = v, \A i \in 1 .. n : f[i] = s[i]
    PROVE  l \o f = Append(l \o s, v)
<1>2. l \o s \in Seq(T) /\ Append(l \o s, v) \in Seq(T) /\ l \o f \in Seq(T)
  OBVIOUS
<1>3. Len(l \o f) = Len(l) + n + 1 /\ Len(Append(l \o s, v)) = Len(l) + n + 1
  BY <1>2
<1>4. ASSUME NEW i \in 1 .. Len(l) + n + 1
      PROVE  (l \o f)[i] = Append(l \o s, v)[i]
  BY <1>2, <1>3
<1> QED
  BY <1>2, <1>3, <1>4, SeqEqual

\* The entries a batch adds to the log: those of its first rows stay where they are.
LEMMA LogStep ==
    ASSUME NEW db, NEW S, IsPulledBatch(db, S), NEW P \in SUBSET S, NEW c \in S \ P,
           \A d \in P : Before(d, c)
    PROVE  LET old == Preserved(db, P, "server")
               kept == Preserved(db, P \cup {c}, "server")
               l == ApplyChanges(db, P, "server").log
           IN  ApplyChanges(db, P \cup {c}, "server").log =
                   IF c \in kept THEN Append(l, <<c.key[1], db.ids + Cardinality(old) + 1>>) ELSE l
<1> DEFINE old == Preserved(db, P, "server")
           kept == Preserved(db, P \cup {c}, "server")
           n == Cardinality(old)
           v == <<c.key[1], db.ids + n + 1>>
           Nth(K, i) == CHOOSE d \in K : Rank(K, d) = i
           Added(K) == [i \in 1 .. Cardinality(K) |-> VersionKey(db, K, Nth(K, i))]
<1>1. RankedLast(c, old, kept)
  BY KeptStep
<1>2. /\ ApplyChanges(db, P, "server").log = db.log \o Added(old)
      /\ ApplyChanges(db, P \cup {c}, "server").log = db.log \o Added(kept)
  BY DEF ApplyChanges
<1>3. IsBatch(old) /\ IsBatch(kept) /\ old \subseteq S /\ kept \subseteq S
  BY FS_Subset DEF Preserved, IsPulledBatch, IsBatch
<1>4. \A d \in S : d.key[1] \in Memo
  BY DEF IsPulledBatch, Key
<1>5. db.ids \in Nat /\ db.log \in Seq(Key)
  BY DEF IsPulledBatch
<1> HIDE DEF old, kept
<1>6. ASSUME c \in kept
      PROVE  ApplyChanges(db, P \cup {c}, "server").log = Append(ApplyChanges(db, P, "server").log, v)
  <2>1. /\ n \in Nat /\ kept = old \cup {c} /\ c \notin old
        /\ Cardinality(kept) = n + 1 /\ Rank(kept, c) = n + 1
        /\ \A d \in old : Rank(kept, d) = Rank(old, d)
    BY <1>1, <1>6 DEF RankedLast
  <2>2. ASSUME NEW i \in 1 .. n
        PROVE  Nth(old, i) \in old /\ Rank(old, Nth(old, i)) = i
    BY <1>3, RankOnto
  <2>3. ASSUME NEW i \in 1 .. n
        PROVE  Nth(kept, i) = Nth(old, i)
    <3>1. Nth(old, i) \in kept /\ Rank(kept, Nth(old, i)) = i
      BY <2>1, <2>2
    <3>2. Nth(kept, i) \in kept /\ Rank(kept, Nth(kept, i)) = i
      BY <3>1
    <3> HIDE DEF Nth
    <3> QED
      BY <1>3, <3>1, <3>2, RankInjective
  <2>4. Nth(kept, n + 1) = c
    <3>1. Nth(kept, n + 1) \in kept /\ Rank(kept, Nth(kept, n + 1)) = n + 1
      BY <2>1
    <3> HIDE DEF Nth
    <3> QED
      BY <1>3, <2>1, <3>1, RankInjective
  <2>5. ASSUME NEW i \in 1 .. n
        PROVE  VersionKey(db, kept, Nth(kept, i)) = VersionKey(db, old, Nth(old, i))
    BY <2>1, <2>2, <2>3 DEF VersionKey
  <2>6. VersionKey(db, kept, Nth(kept, n + 1)) = v
    <3>1. db.ids + Rank(kept, c) = db.ids + n + 1
      BY <1>5, <2>1
    <3> HIDE DEF Nth
    <3> QED
      BY <2>4, <3>1 DEF VersionKey
  <2>7. ASSUME NEW i \in 1 .. n
        PROVE  VersionKey(db, old, Nth(old, i)) \in Key
    <3>1. Nth(old, i) \in S /\ Rank(old, Nth(old, i)) \in Nat
      BY <1>3, <2>1, <2>2
    <3> HIDE DEF Nth
    <3> QED
      BY <1>4, <1>5, <3>1 DEF VersionKey, Key
  <2>8. Added(old) \in Seq(Key) /\ Len(Added(old)) = n
    BY <2>1, <2>7
  <2>9. v \in Key
    BY <1>3, <1>4, <1>5, <1>6, <2>1 DEF Key
  <2>10. /\ Added(kept) \in Seq(Key) /\ Len(Added(kept)) = n + 1
         /\ Added(kept)[n + 1] = v /\ \A i \in 1 .. n : Added(kept)[i] = Added(old)[i]
    <3> DEFINE val(i) == VersionKey(db, kept, Nth(kept, i))
    <3>1. \A i \in 1 .. n + 1 : val(i) \in Key
      <4>1. \A i \in 1 .. n + 1 : i \in 1 .. n \/ i = n + 1
        BY <2>1
      <4> HIDE DEF Nth
      <4> QED
        BY <2>5, <2>6, <2>7, <2>9, <4>1
    <3>2. Added(kept) = [i \in 1 .. n + 1 |-> val(i)]
      BY <2>1
    <3>3. \A i \in 1 .. n : val(i) = Added(old)[i]
      BY <2>5
    <3>4. val(n + 1) = v
      BY <2>6
    <3>5. n + 1 \in Nat /\ n + 1 \in 1 .. n + 1 /\ \A i \in 1 .. n : i \in 1 .. n + 1
      BY <2>1
    <3> HIDE DEF Added, val, v
    <3> QED
      BY <3>1, <3>2, <3>3, <3>4, <3>5
  <2> HIDE DEF Added, v, n
  <2>11. db.log \o Added(kept) = Append(db.log \o Added(old), v)
    <3> DEFINE l == db.log
               f == Added(kept)
               s == Added(old)
    <3>1. /\ l \in Seq(Key) /\ s \in Seq(Key) /\ f \in Seq(Key) /\ n \in Nat /\ v \in Key
          /\ Len(s) = n /\ Len(f) = n + 1 /\ f[n + 1] = v /\ \A i \in 1 .. n : f[i] = s[i]
      BY <1>5, <2>1, <2>8, <2>9, <2>10
    <3> HIDE DEF l, f, s
    <3>2. l \o f = Append(l \o s, v)
      BY <3>1, AppendStep
    <3> QED
      BY <3>2 DEF l, f, s
  <2>12. ApplyChanges(db, P \cup {c}, "server").log = Append(ApplyChanges(db, P, "server").log, v)
    BY <1>2, <2>11
  <2> QED
    BY <2>12
<1>7. c \notin kept
        => ApplyChanges(db, P \cup {c}, "server").log = ApplyChanges(db, P, "server").log
  <2> HIDE DEF Added
  <2> QED
    BY <1>1, <1>2 DEF RankedLast
<1> QED
  BY <1>6, <1>7 DEF old, kept

\* The state of the batch after one more row is what _apply_one makes of it.
LEMMA RowStep ==
    ASSUME NEW db, NEW S, IsPulledBatch(db, S), NEW P \in SUBSET S, NEW c \in S \ P,
           \A d \in P : Before(d, c)
    PROVE  Outcome(db, P \cup {c}) = ApplyOne(Outcome(db, P), c, "server")
<1> DEFINE Q == P \cup {c}
           x == Outcome(db, P)
           y == Outcome(db, Q)
           z == ApplyOne(x, c, "server")
           old == Preserved(db, P, "server")
           keptSet == Preserved(db, Q, "server")
           loser == LoserBody(x, c, "server")
           kept == Conflicts(x, c, "server") /\ ~HasVersion(x, c.key[1], loser)
           v == <<c.key[1], x.ids + 1>>
           row == VersionRow(Peer("server"), loser, now)
           After(t) ==
               LET u == IF IsWritten(x, c, "server") THEN Upsert(t, c.key, c.row) ELSE t
               IN  IF kept THEN Upsert(u, v, row) ELSE u
<1>1. /\ IsWritten(x, c, "server") <=> IsWritten(db, c, "server")
      /\ Conflicts(x, c, "server") <=> Conflicts(db, c, "server")
      /\ Conflicts(db, c, "server") =>
           /\ LoserBody(x, c, "server") = LoserBody(db, c, "server")
           /\ \A val : HasVersion(x, c.key[1], val) <=> HasVersion(db, c.key[1], val)
  BY OwnOutcome
<1>2. c \in keptSet <=> kept
  BY <1>1 DEF Preserved
<1>3. c \in keptSet => loser = LoserBody(db, c, "server")
  BY <1>1 DEF Preserved
<1>4. x.ids = db.ids + Cardinality(old) /\ y.ids = db.ids + Cardinality(keptSet)
  BY DEF Outcome, ApplyChanges
<1>5. RankedLast(c, old, keptSet)
  BY KeptStep
<1>6. z = [rows |-> After(x.rows), seen |-> After(x.seen),
           log |-> IF kept THEN Append(x.log, v) ELSE x.log,
           ids |-> IF kept THEN x.ids + 1 ELSE x.ids,
           conflicts |-> IF Conflicts(x, c, "server")
                         THEN x.conflicts \cup {[memo |-> c.key[1], lost |-> loser]}
                         ELSE x.conflicts]
  BY DEF ApplyOne
<1>7. ASSUME NEW t
      PROVE  Table(db, t, Q, "server") = After(Table(db, t, P, "server"))
  <2> DEFINE r == Table(db, t, P, "server")
             u == IF IsWritten(db, c, "server") THEN Upsert(r, c.key, c.row) ELSE r
  <2>1. Table(db, t, Q, "server") =
          IF c \in keptSet
          THEN Upsert(u, <<c.key[1], db.ids + Cardinality(old) + 1>>,
                      VersionRow(Peer("server"), LoserBody(db, c, "server"), now))
          ELSE u
    BY TableStep
  <2> HIDE DEF x, old, keptSet
  <2> QED
    BY <1>1, <1>2, <1>3, <1>4, <2>1
<1>8. y.rows = After(x.rows) /\ y.seen = After(x.seen)
  <2>1. /\ x.rows = Table(db, db.rows, P, "server") /\ y.rows = Table(db, db.rows, Q, "server")
        /\ x.seen = Table(db, db.seen, P, "server") /\ y.seen = Table(db, db.seen, Q, "server")
    BY DEF Outcome
  <2> HIDE DEF x, y, After
  <2> QED
    BY <1>7, <2>1
<1>9. y.log = IF kept THEN Append(x.log, v) ELSE x.log
  <2>1. /\ x.log = ApplyChanges(db, P, "server").log
        /\ y.log = ApplyChanges(db, Q, "server").log
    BY DEF Outcome
  <2>2. ApplyChanges(db, Q, "server").log =
          IF c \in keptSet
          THEN Append(ApplyChanges(db, P, "server").log,
                      <<c.key[1], db.ids + Cardinality(old) + 1>>)
          ELSE ApplyChanges(db, P, "server").log
    BY LogStep
  <2> HIDE DEF x, y, old, keptSet
  <2> QED
    BY <1>2, <1>4, <2>1, <2>2
<1>10. y.ids = IF kept THEN x.ids + 1 ELSE x.ids
  <2>1. db.ids \in Nat
    BY DEF IsPulledBatch
  <2> HIDE DEF x, y, old, keptSet
  <2> QED
    BY <1>2, <1>4, <1>5, <2>1 DEF RankedLast
<1>11. y.conflicts = IF Conflicts(x, c, "server")
                     THEN x.conflicts \cup {[memo |-> c.key[1], lost |-> loser]}
                     ELSE x.conflicts
  <2> DEFINE Lost(d) == [memo |-> d.key[1], lost |-> LoserBody(db, d, "server")]
  <2>1. /\ x.conflicts = db.conflicts \cup {Lost(d) : d \in {e \in P : Conflicts(db, e, "server")}}
        /\ y.conflicts = db.conflicts \cup {Lost(d) : d \in {e \in Q : Conflicts(db, e, "server")}}
    BY DEF Outcome, ApplyChanges
  <2>2. {e \in Q : Conflicts(db, e, "server")} = {e \in P : Conflicts(db, e, "server")}
                                      \cup (IF Conflicts(db, c, "server") THEN {c} ELSE {})
    OBVIOUS
  <2>3. Conflicts(db, c, "server") => Lost(c) = [memo |-> c.key[1], lost |-> loser]
    BY <1>1
  <2> HIDE DEF x, y, Lost, loser
  <2> QED
    BY <1>1, <2>1, <2>2, <2>3
<1>12. y = [rows |-> y.rows, seen |-> y.seen, log |-> y.log, ids |-> y.ids,
            conflicts |-> y.conflicts]
  BY DEF Outcome
<1> HIDE DEF x, y, z, After, kept, loser, v
<1> QED
  BY <1>6, <1>8, <1>9, <1>10, <1>11, <1>12 DEF x, y, z

-----------------------------------------------------------------------------
(* The order of a batch.                                                     *)

Place(S, c) == Cardinality({d \in S : Before(d, c)})

LEMMA BeforeOrder ==
    ASSUME NEW db, NEW S, IsPulledBatch(db, S)
    PROVE  /\ \A c \in S : ~Before(c, c)
           /\ \A c, d, e \in S : Before(c, d) /\ Before(d, e) => Before(c, e)
           /\ \A c, d \in S : c = d \/ Before(c, d) \/ Before(d, c)
BY DEF Before, IsMemo, IsPulledBatch, IsBatch

LEMMA PlaceType ==
    ASSUME NEW db, NEW S, IsPulledBatch(db, S), NEW c \in S
    PROVE  Place(S, c) + 1 \in 1 .. Cardinality(S) /\ Place(S, c) \in Nat
<1> DEFINE T == {d \in S : Before(d, c)}
<1>1. T \in SUBSET S /\ c \notin T
  BY BeforeOrder
<1>2. IsFiniteSet(S) /\ Cardinality(S) \in Nat
  BY FS_CardinalityType DEF IsPulledBatch, IsBatch
<1> HIDE DEF T
<1>3. IsFiniteSet(T) /\ Cardinality(T) <= Cardinality(S) /\ Cardinality(T) # Cardinality(S)
  BY <1>1, <1>2, FS_Subset
<1>4. Cardinality(T) \in Nat
  BY <1>3, FS_CardinalityType
<1> QED
  BY <1>2, <1>3, <1>4 DEF Place, T

LEMMA PlaceIncreasing ==
    ASSUME NEW db, NEW S, IsPulledBatch(db, S), NEW c \in S, NEW d \in S, Before(c, d)
    PROVE  Place(S, c) < Place(S, d)
<1> DEFINE T(x) == {e \in S : Before(e, x)}
<1>1. T(c) \in SUBSET T(d) /\ c \in T(d) /\ c \notin T(c)
  BY BeforeOrder
<1>2. IsFiniteSet(T(d))
  BY FS_Subset, T(d) \in SUBSET S DEF IsPulledBatch, IsBatch
<1> HIDE DEF T
<1>3. /\ IsFiniteSet(T(c))
      /\ Cardinality(T(c)) <= Cardinality(T(d))
      /\ Cardinality(T(d)) # Cardinality(T(c))
  BY <1>1, <1>2, FS_Subset
<1>4. Cardinality(T(c)) \in Nat /\ Cardinality(T(d)) \in Nat
  BY <1>2, <1>3, FS_CardinalityType
<1>5. Cardinality(T(c)) < Cardinality(T(d))
  BY <1>3, <1>4
<1> QED
  BY <1>5 DEF T, Place

LEMMA PlaceOrder ==
    ASSUME NEW db, NEW S, IsPulledBatch(db, S), NEW c \in S, NEW d \in S
    PROVE  /\ Place(S, c) = Place(S, d) => c = d
           /\ Place(S, c) < Place(S, d) => Before(c, d)
<1>1. Place(S, c) \in Nat /\ Place(S, d) \in Nat
  BY PlaceType
<1>2. c = d \/ Before(c, d) \/ Before(d, c)
  BY BeforeOrder
<1>3. Before(c, d) => Place(S, c) < Place(S, d)
  BY PlaceIncreasing
<1>4. Before(d, c) => Place(S, d) < Place(S, c)
  BY PlaceIncreasing
<1> QED
  BY <1>1, <1>2, <1>3, <1>4

\* Some row has each place.
LEMMA PlaceOnto ==
    ASSUME NEW db, NEW S, IsPulledBatch(db, S), NEW i \in 1 .. Cardinality(S)
    PROVE  \E c \in S : Place(S, c) = i - 1
<1> DEFINE n == Cardinality(S)
           f == [c \in S |-> Place(S, c) + 1]
<1>1. n \in Nat /\ IsFiniteSet(S)
  BY FS_CardinalityType DEF IsPulledBatch, IsBatch
<1>2. IsFiniteSet(1 .. n) /\ Cardinality(1 .. n) = n
  BY <1>1, FS_Interval
<1>3. f \in [S -> 1 .. n]
  BY PlaceType
<1>4. \A c, d \in S : f[c] = f[d] => c = d
  <2> SUFFICES ASSUME NEW c \in S, NEW d \in S, f[c] = f[d] PROVE c = d
    OBVIOUS
  <2>1. Place(S, c) \in Nat /\ Place(S, d) \in Nat
    BY PlaceType
  <2>2. Place(S, c) = Place(S, d)
    BY <2>1
  <2> QED
    BY <2>2, PlaceOrder
<1> HIDE DEF n, f
<1>5. f \in Injection(S, 1 .. n)
  BY <1>3, <1>4, Fun_IsInj
<1>6. f \in Surjection(S, 1 .. n)
  BY <1>1, <1>2, <1>5, FS_Injection DEF n
<1>7. PICK c \in S : f[c] = i
  BY <1>6 DEF n, Surjection
<1>8. Place(S, c) \in Nat /\ f[c] = Place(S, c) + 1
  BY PlaceType DEF f
<1> QED
  BY <1>7, <1>8

\* The first i rows of a batch, and the row after them.
FirstRows(S, i) == {c \in S : Place(S, c) < i}

Nth(S, i) == CHOOSE c \in S : Cardinality({d \in S : Before(d, c)}) = i - 1

LEMMA NextRow ==
    ASSUME NEW db, NEW S, IsPulledBatch(db, S), NEW i \in 1 .. Cardinality(S)
    PROVE  /\ Nth(S, i) \in S \ FirstRows(S, i - 1)
           /\ \A d \in FirstRows(S, i - 1) : Before(d, Nth(S, i))
           /\ FirstRows(S, i) = FirstRows(S, i - 1) \cup {Nth(S, i)}
<1> DEFINE c == Nth(S, i)
<1>1. c \in S /\ Place(S, c) = i - 1
  BY PlaceOnto DEF Nth, Place
<1> HIDE DEF c
<1>2. \A d \in S : Place(S, d) \in Nat
  BY PlaceType
<1>3. \A d \in S : Place(S, d) < i - 1 => Before(d, c)
  BY <1>1, PlaceOrder
<1>4. \A d \in S : Place(S, d) = i - 1 => d = c
  BY <1>1, PlaceOrder
<1>5. i \in Int
  OBVIOUS
<1>6. FirstRows(S, i) = FirstRows(S, i - 1) \cup {c}
  BY <1>1, <1>2, <1>4, <1>5 DEF FirstRows
<1> QED
  BY <1>1, <1>3, <1>6, <1>5 DEF FirstRows, c

LEMMA NoRowsApplied ==
    ASSUME NEW db, db.ids \in Nat, db.log \in Seq(Key),
           db = [rows |-> db.rows, seen |-> db.seen, log |-> db.log, ids |-> db.ids,
                 conflicts |-> db.conflicts],
           db.rows = [k \in DOMAIN db.rows |-> db.rows[k]],
           db.seen = [k \in DOMAIN db.seen |-> db.seen[k]]
    PROVE  Outcome(db, {}) = db
<1>1. Preserved(db, {}, "server") = {} /\ IsPulledBatch(db, {})
  BY FS_EmptySet DEF Preserved, IsPulledBatch, IsBatch
<1>2. Cardinality({}) = 0
  BY FS_EmptySet
<1>3. ASSUME NEW t, t = [k \in DOMAIN t |-> t[k]]
      PROVE  Table(db, t, {}, "server") = t
  <2> DEFINE r == Table(db, t, {}, "server")
  <2>1. IsApplied(db, t, {}, "server", r)
    BY <1>1, TableApplied
  <2> HIDE DEF r
  <2>2. DOMAIN r = DOMAIN t /\ r = [k \in DOMAIN r |-> r[k]] /\ \A k \in DOMAIN r : r[k] = t[k]
    BY <1>1, <2>1 DEF IsApplied
  <2>3. r = t
    BY <1>3, <2>2
  <2> QED
    BY <2>3 DEF r
<1>4. ApplyChanges(db, {}, "server").log = db.log /\ ApplyChanges(db, {}, "server").ids = db.ids
  <2> DEFINE K == Preserved(db, {}, "server")
             l == [i \in 1 .. Cardinality(K) |-> VersionKey(db, K, CHOOSE c \in K : Rank(K, c) = i)]
  <2>1. /\ ApplyChanges(db, {}, "server").log = db.log \o l
        /\ ApplyChanges(db, {}, "server").ids = db.ids + Cardinality(K)
    BY DEF ApplyChanges
  <2>2. l = << >> /\ Cardinality(K) = 0
    <3> HIDE DEF K
    <3> SUFFICES ASSUME K = {} PROVE l = << >> /\ Cardinality(K) = 0
      BY <1>1 DEF K
    <3>1. 1 .. Cardinality(K) = {}
      BY <1>2
    <3> QED
      BY <1>2, <3>1
  <2>3. db.log \o << >> = db.log /\ db.ids + 0 = db.ids
    BY ConcatEmptySeq
  <2> HIDE DEF l, K
  <2> QED
    BY <2>1, <2>2, <2>3
<1>6. ApplyChanges(db, {}, "server").conflicts = db.conflicts
  BY DEF ApplyChanges
<1>7. Outcome(db, {}) = [rows |-> db.rows, seen |-> db.seen, log |-> db.log, ids |-> db.ids,
                         conflicts |-> db.conflicts]
  BY <1>3, <1>4, <1>6 DEF Outcome
<1> QED
  BY <1>7

\* Row by row is what ApplyChanges does at once, to the rows and to those seen.
LEMMA RowByRowApplied ==
    ASSUME NEW db, NEW S, IsPulledBatch(db, S),
           db = [rows |-> db.rows, seen |-> db.seen, log |-> db.log, ids |-> db.ids,
                 conflicts |-> db.conflicts],
           db.rows = [k \in DOMAIN db.rows |-> db.rows[k]],
           db.seen = [k \in DOMAIN db.seen |-> db.seen[k]]
    PROVE  RowByRow(db, S, "server") = Outcome(db, S)
<1> DEFINE n == Cardinality(S)
           IsRun(f) == f = [i \in 0 .. n |->
                              IF i = 0 THEN db ELSE ApplyOne(f[i - 1], Nth(S, i), "server")]
           after == CHOOSE f : IsRun(f)
           g == [i \in 0 .. n |-> Outcome(db, FirstRows(S, i))]
<1>1. n \in Nat
  BY FS_CardinalityType DEF IsPulledBatch, IsBatch
<1>2. FirstRows(S, 0) = {} /\ FirstRows(S, n) = S
  BY <1>1, PlaceType DEF FirstRows
<1>3. Outcome(db, FirstRows(S, 0)) = db
  BY <1>2, NoRowsApplied DEF IsPulledBatch
<1>4. ASSUME NEW i \in 1 .. n
      PROVE  Outcome(db, FirstRows(S, i))
               = ApplyOne(Outcome(db, FirstRows(S, i - 1)), Nth(S, i), "server")
  <2> DEFINE P == FirstRows(S, i - 1)
             c == Nth(S, i)
  <2>1. P \in SUBSET S
    BY DEF FirstRows
  <2>2. /\ c \in S \ P
        /\ \A d \in P : Before(d, c)
        /\ FirstRows(S, i) = P \cup {c}
    BY NextRow
  <2> HIDE DEF P, c
  <2>3. Outcome(db, P \cup {c}) = ApplyOne(Outcome(db, P), c, "server")
    BY <2>1, <2>2, RowStep
  <2> QED
    BY <2>2, <2>3 DEF P, c
<1>5. IsRun(g)
  <2>1. ASSUME NEW i \in 0 .. n
        PROVE  g[i] = IF i = 0 THEN db ELSE ApplyOne(g[i - 1], Nth(S, i), "server")
    <3>1. CASE i = 0
      BY <1>1, <1>3, <3>1
    <3>2. CASE i # 0
      <4>1. i \in 1 .. n /\ i - 1 \in 0 .. n
        BY <1>1, <3>2
      <4>2. g[i] = Outcome(db, FirstRows(S, i)) /\ g[i - 1] = Outcome(db, FirstRows(S, i - 1))
        BY <4>1
      <4> HIDE DEF g
      <4> QED
        BY <1>4, <3>2, <4>1, <4>2
    <3> QED
      BY <3>1, <3>2
  <2>2. g = [i \in 0 .. n |-> g[i]]
    OBVIOUS
  <2> HIDE DEF g
  <2> QED
    BY <2>1, <2>2
<1>6. IsRun(after)
  <2> HIDE DEF IsRun, g
  <2> QED
    BY <1>5
<1>7. \A i \in 0 .. n : after[i] = Outcome(db, FirstRows(S, i))
  <2> DEFINE Bad == {i \in 0 .. n : after[i] # Outcome(db, FirstRows(S, i))}
  <2>1. after[0] = db
    <3>1. 0 \in 0 .. n
      BY <1>1
    <3> HIDE DEF after
    <3> QED
      BY <1>6, <3>1
  <2>2. ASSUME NEW i \in 1 .. n
        PROVE  after[i] = ApplyOne(after[i - 1], Nth(S, i), "server")
    <3>1. i \in 0 .. n /\ i # 0
      BY <1>1
    <3> HIDE DEF after
    <3> QED
      BY <1>6, <3>1
  <2> HIDE DEF after
  <2> SUFFICES ASSUME Bad # {} PROVE FALSE
    OBVIOUS
  <2>3. Bad \subseteq Nat
    BY <1>1
  <2>4. PICK i \in Bad : \A j \in Bad : ~(<<j, i>> \in OpToRel(<, Nat))
    <3> HIDE DEF Bad
    <3> QED
      BY <2>3, NatLessThanWellFounded, WFMin
  <2>5. i # 0
    BY <1>1, <1>3, <2>1
  <2>6. i \in 1 .. n /\ i - 1 \in 0 .. n /\ i - 1 \in Nat /\ i \in Nat /\ i - 1 < i
    BY <1>1, <2>5
  <2>7. <<i - 1, i>> \in OpToRel(<, Nat)
    BY <2>6 DEF OpToRel
  <2>8. after[i - 1] = Outcome(db, FirstRows(S, i - 1))
    BY <2>4, <2>6, <2>7
  <2>9. after[i] = Outcome(db, FirstRows(S, i))
    BY <1>4, <2>2, <2>6, <2>8
  <2> QED
    BY <2>4, <2>9
<1>8. RowByRow(db, S, "server") = after[n]
  BY DEF RowByRow, Nth
<1>9. after[n] = Outcome(db, FirstRows(S, n))
  <2>1. n \in 0 .. n
    BY <1>1
  <2> HIDE DEF after, n
  <2> QED
    BY <1>7, <2>1
<1> QED
  BY <1>2, <1>8, <1>9

-----------------------------------------------------------------------------
(* What a feed is made of.                                                   *)

\* A feed holds one change per row.
OneChangePerRow == \A c, d \in FeedChanges : c.key = d.key => c = d

LEMMA FeedIsMessage == NoMsg \notin FeedMsg
<1>1. \A f \in FeedMsg : "next" \in DOMAIN f
  BY DEF FeedMsg
<1>2. "next" \notin DOMAIN NoMsg
  BY DEF NoMsg
<1> QED
  BY <1>1, <1>2

LEMMA RequestedRows ==
    ASSUME TypeInv, PullRequest, feed' # feed
    PROVE  OneChangePerRow'
<1> DEFINE l == log["server"]
           seqs == Scanned(l, pulled)
           ReadAt(s) == [seq |-> s, key |-> l[s], row |-> rows["server"][l[s]]]
<1>1. FeedChanges' = {ReadAt(s) : s \in seqs}
  <2> DEFINE msg == [next |-> ScanEnd(l, pulled), max |-> Len(l), changes |-> {ReadAt(s) : s \in seqs}]
  <2>1. feed' = msg
    BY DEF PullRequest
  <2>2. "next" \in DOMAIN msg /\ "next" \notin DOMAIN NoMsg
    BY DEF NoMsg
  <2>3. msg.changes = {ReadAt(s) : s \in seqs}
    OBVIOUS
  <2> HIDE DEF msg
  <2> QED
    BY <2>1, <2>2, <2>3 DEF FeedChanges
<1>2. \A s \in seqs : \A t \in s + 1 .. ScanEnd(l, pulled) : l[t] # l[s]
  BY DEF Scanned
<1>3. l \in Seq(Key) /\ Len(l) \in Nat /\ pulled \in Nat /\ ScanEnd(l, pulled) \in Nat
  <2>1. l \in Seq(Key) /\ pulled \in Nat
    BY DEF TypeInv, TypeOK, Node
  <2> HIDE DEF l
  <2> QED
    BY <2>1, ScanEndType
<1>4. \A s \in seqs : s \in pulled + 1 .. ScanEnd(l, pulled)
  BY DEF Scanned
<1> HIDE DEF seqs, l
<1>5. ASSUME NEW s \in seqs, NEW t \in seqs, l[s] = l[t]
      PROVE  s = t
  <2>1. s \in Nat /\ t \in Nat /\ s <= ScanEnd(l, pulled) /\ t <= ScanEnd(l, pulled)
    BY <1>3, <1>4
  <2>2. ~(t \in s + 1 .. ScanEnd(l, pulled)) /\ ~(s \in t + 1 .. ScanEnd(l, pulled))
    BY <1>2, <1>5
  <2> QED
    BY <1>3, <2>1, <2>2
<1> QED
  BY <1>1, <1>5 DEF OneChangePerRow

LEMMA OneChangeStep ==
    ASSUME TypeInv, OneChangePerRow, [Next]_vars
    PROVE  OneChangePerRow'
<1>1. feed' = feed \/ feed' = NoMsg \/ PullRequest
  BY DEF Next, Write, Daemon, CreateMemo, UpdateMemo, DeleteMemo, StartCycle, SendPush, RetryDone,
         Collect, StartPush, PushDone, HandleReply, PullReads, InboxEmpty, PullRetry, PullApply,
         ServerPush, ServerPushLate, AbortCycle, vars, wire
<1>2. CASE feed' = feed \/ feed' = NoMsg
  BY <1>2 DEF OneChangePerRow, FeedChanges
<1>3. CASE PullRequest /\ feed' # feed
  BY <1>3, RequestedRows
<1> QED
  BY <1>1, <1>2, <1>3

\* What a pull applies is a batch of the laptop's database.
LEMMA FeedIsBatch ==
    ASSUME TypeInv, CopiesInv, OneChangePerRow, pc = "applying"
    PROVE  IsPulledBatch(Database("client"),
               {[seq |-> c.seq, key |-> c.key, row |-> c.row, base |-> BaseOf(c.key)] :
                  c \in feed.changes})
<1> DEFINE Based(c) == [seq |-> c.seq, key |-> c.key, row |-> c.row, base |-> BaseOf(c.key)]
           F == feed.changes
           S == {Based(c) : c \in F}
           db == Database("client")
<1>1. IsBatch(F) /\ feed # NoMsg /\ F \subseteq FeedChange
  <2>1. feed \in FeedMsg
    BY DEF TypeInv, TypeOK
  <2> QED
    BY <2>1, FeedIsMessage DEF TypeInv, FeedMsg
<1>2. F = FeedChanges
  BY <1>1 DEF FeedChanges
<1>3. db.ids = ids /\ db.log = log["client"] /\ ids \in Nat /\ log["client"] \in Seq(Key)
  BY DEF Database, TypeInv, TypeOK, Node
<1>4. \A c \in F : c.key \in Key /\ c.seq \in Int /\ c.key[2] <= ids
  <2> SUFFICES ASSUME NEW c \in F PROVE c.key \in Key /\ c.seq \in Int /\ c.key[2] <= ids
    OBVIOUS
  <2>1. <<c.key, c.row>> \in Copies
    BY <1>2, RowsCopied
  <2>2. <<c.key, c.row>>[1][2] <= ids
    BY <2>1 DEF CopiesInv
  <2> QED
    BY <1>1, <2>2 DEF FeedChange
<1>5. IsFiniteSet(S)
  <2> DEFINE g == [c \in F |-> Based(c)]
  <2>1. g \in [F -> S] /\ \A d \in S : \E c \in F : g[c] = d
    OBVIOUS
  <2> HIDE DEF g, S, F
  <2>2. g \in Surjection(F, S)
    BY <2>1, Fun_IsSurj
  <2> QED
    BY <1>1, <2>2, FS_Surjection DEF IsBatch
<1>6. \A c, d \in S : (c.seq = d.seq \/ c.key = d.key) => c = d
  <2> SUFFICES ASSUME NEW c \in F, NEW d \in F, c.seq = d.seq \/ c.key = d.key
               PROVE  Based(c) = Based(d)
    OBVIOUS
  <2>1. c = d
    BY <1>1, <1>2 DEF IsBatch, OneChangePerRow
  <2> QED
    BY <2>1
<1>7. \A c \in S : c.key \in Key /\ c.seq \in Int /\ c.key[2] <= ids
  BY <1>4
<1> HIDE DEF S, F, db
<1>8. IsPulledBatch(db, S)
  BY <1>3, <1>5, <1>6, <1>7 DEF IsPulledBatch, IsBatch
<1> QED
  BY <1>8 DEF S, F, db

\* Pulled rows may be applied one by one, in the order of their tables and numbers,
\* or all by their own outcome: rows, log, ids and recorded conflicts are the same.
THEOREM OrderOfRows == Spec => []BatchOrderIrrelevant
<1>1. Init => OneChangePerRow
  BY DEF Init, OneChangePerRow, FeedChanges, NoMsg
<1>2. TypeInv /\ OneChangePerRow /\ [Next]_vars => OneChangePerRow'
  BY OneChangeStep
<1>3. TypeInv /\ CopiesInv /\ OneChangePerRow => BatchOrderIrrelevant
  <2> DEFINE S == {[seq |-> c.seq, key |-> c.key, row |-> c.row, base |-> BaseOf(c.key)] :
                      c \in feed.changes}
             db == Database("client")
             one == RowByRow(db, S, "server")
             all == ApplyChanges(db, S, "server")
  <2> SUFFICES ASSUME TypeInv, CopiesInv, OneChangePerRow, pc = "applying"
               PROVE  \A f \in DOMAIN all : one[f] = all[f]
    BY DEF BatchOrderIrrelevant
  <2>1. IsPulledBatch(db, S)
    BY FeedIsBatch
  <2>2. /\ db = [rows |-> db.rows, seen |-> db.seen, log |-> db.log, ids |-> db.ids,
                 conflicts |-> db.conflicts]
        /\ db.rows = [k \in DOMAIN db.rows |-> db.rows[k]]
        /\ db.seen = [k \in DOMAIN db.seen |-> db.seen[k]]
    BY DEF Database, TypeInv, TypeOK, IsTable, Node
  <2> HIDE DEF db, S
  <2>3. one = Outcome(db, S)
    BY <2>1, <2>2, RowByRowApplied
  <2>4. OnTable(db, db.rows) = db
    BY <2>2 DEF OnTable
  <2>5. /\ one.rows = all.rows /\ one.log = all.log /\ one.ids = all.ids
        /\ one.conflicts = all.conflicts
    BY <2>3, <2>4 DEF Outcome, Table
  <2>6. DOMAIN all = {"rows", "log", "ids", "conflicts"}
    BY DEF ApplyChanges
  <2> HIDE DEF one, all
  <2> QED
    BY <2>5, <2>6
<1> QED
  BY <1>1, <1>2, <1>3, CopiesInvariance, PTL DEF Spec

=============================================================================
