------------------------------ MODULE MCRowSync ------------------------------
(***************************************************************************)
(* RowSync for TLC, with the row-by-row form of apply_changes against which *)
(* the closed form ApplyChanges of RowSync is compared.                     *)
(***************************************************************************)
EXTENDS RowSync

\* sync_apply._apply_one for one row of the batch.
ApplyOne(db, c, side) ==
    LET loser == LoserBody(db, c, side)
        kept  == Conflicts(db, c, side) /\ ~HasVersion(db, c.key[1], loser)
        v     == <<c.key[1], db.ids + 1>>
        After(t) ==
            LET u == IF IsWritten(db, c, side) THEN Upsert(t, c.key, c.row) ELSE t
            IN  IF kept THEN Upsert(u, v, VersionRow(Peer(side), loser, now)) ELSE u
    IN  [rows |-> After(db.rows), seen |-> After(db.seen),
         log  |-> IF kept THEN Append(db.log, v) ELSE db.log,
         ids  |-> IF kept THEN db.ids + 1 ELSE db.ids,
         conflicts |-> IF Conflicts(db, c, side)
                       THEN db.conflicts \cup {[memo |-> c.key[1], lost |-> loser]}
                       ELSE db.conflicts]

\* The order of the rows in the batch: tables in dependency order, then seq.
Before(c, d) ==
    \/ IsMemo(c.key) /\ ~IsMemo(d.key)
    \/ IsMemo(c.key) = IsMemo(d.key) /\ c.seq < d.seq

RowByRow(db, changes, side) ==
    LET n == Cardinality(changes)
        nth(i) == CHOOSE c \in changes : Cardinality({d \in changes : Before(d, c)}) = i - 1
        after[i \in 0 .. n] == IF i = 0 THEN db ELSE ApplyOne(after[i - 1], nth(i), side)
    IN  after[n]

\* Applying the pulled batch row by row, each row seeing what the rows before it
\* did (apply_changes), has exactly the outcome ApplyChanges gives: a memo's
\* outcome depends on no other row of its batch.
BatchOrderIrrelevant ==
    pc = "applying" =>
        LET batch == {[seq |-> c.seq, key |-> c.key, row |-> c.row, base |-> BaseOf(c.key)] :
                         c \in feed.changes}
            one == RowByRow(Database("client"), batch, "server")
            all == ApplyChanges(Database("client"), batch, "server")
        IN  \A f \in DOMAIN all : one[f] = all[f]

=============================================================================
