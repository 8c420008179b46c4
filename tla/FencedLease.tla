---------------------------- MODULE FencedLease ----------------------------
(***************************************************************************)
(* What a lock with leases promises the memos it guards: one holder at a     *)
(* time, until its lease is given up or its time is over; a number for each  *)
(* lease, one more than the last (the fence); and writes under the number of *)
(* the lease that runs only.  Timers, messages, what clients believe of      *)
(* their leases, and at whose word one is given up, are left open.           *)
(***************************************************************************)
EXTENDS Integers

CONSTANTS
    Memo,    \* what is locked
    Owner,   \* who may hold it
    Nobody   \* no owner

VARIABLES
    now,     \* the clock
    holder,  \* the owner whose lease of each memo runs, or Nobody
    until,   \* the end of that lease
    fence,   \* the number of the last lease of each memo
    written  \* the number under which each memo was last written

Init ==
    /\ now = 0
    /\ holder = [m \in Memo |-> Nobody] /\ until = [m \in Memo |-> 0]
    /\ fence = [m \in Memo |-> 0] /\ written = [m \in Memo |-> 0]

OnlyLeaseOf(m) ==
    /\ \A n \in Memo \ {m} : holder'[n] = holder[n] /\ until'[n] = until[n]
    /\ UNCHANGED <<now, written>>

\* A free memo gets a holder and a new number; if leases take no time, it stays free.
Grant(m, o) ==
    /\ holder[m] = Nobody
    /\ fence' = [fence EXCEPT ![m] = @ + 1]
    /\ \/ holder'[m] = o /\ until'[m] > now
       \/ UNCHANGED <<holder, until>>
    /\ OnlyLeaseOf(m)

\* The holder keeps its number and loses no time.
Renew(m, o) ==
    /\ holder[m] = o /\ holder'[m] = o
    /\ until'[m] >= until[m]
    /\ OnlyLeaseOf(m) /\ UNCHANGED fence

\* Leases of one holder are given up before their time is over.
GiveUp(o) ==
    /\ \A m \in Memo : \/ holder'[m] = holder[m] /\ until'[m] = until[m]
                       \/ holder[m] = o /\ holder'[m] = Nobody
    /\ UNCHANGED <<now, fence, written>>

Write(m) ==
    /\ holder[m] # Nobody
    /\ written' = [written EXCEPT ![m] = fence[m]]
    /\ UNCHANGED <<now, holder, until, fence>>

\* Time ends the leases it has overtaken, and no others.
Tick ==
    /\ now' = now + 1
    /\ \A m \in Memo : IF holder[m] # Nobody /\ until[m] > now'
                       THEN holder'[m] = holder[m] /\ until'[m] = until[m]
                       ELSE holder'[m] = Nobody
    /\ UNCHANGED <<fence, written>>

Next ==
    \/ \E o \in Owner : \/ \E m \in Memo : Grant(m, o) \/ Renew(m, o)
                        \/ GiveUp(o)
    \/ \E m \in Memo : Write(m)
    \/ Tick

Spec == Init /\ [][Next]_<<now, holder, until, fence, written>>

=============================================================================
