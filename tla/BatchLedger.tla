----------------------------- MODULE BatchLedger -----------------------------
(***************************************************************************)
(* What Bulk promises about the money and the outcomes of one batch,       *)
(* without rows, copies, topics or requests: units are blocked once per    *)
(* confirmation, jobs are sent against blocked units, a job is sent again  *)
(* only after it failed, a result is booked only for a job that was sent,  *)
(* a build that it brought stays until a failure is reported for the job,  *)
(* and only transactions that billing holds are given back.                *)
(***************************************************************************)
EXTENDS Naturals, FiniteSets

CONSTANTS
    Payers,    \* confirmations, the only ones who block units
    Repeaters, \* admin restarts, which send failed jobs once more
    Givers,    \* whoever may give transactions back
    Rows,      \* the jobs of the batch
    Successes, \* results that bring a build
    Failures   \* results that bring none

VARIABLES
    blocked, \* units that each payer has blocked
    held,    \* transactions that billing issued, each named after its payer
    sent,    \* who sent which job to Generation
    booked,  \* the results that were ever booked for each job
    built,   \* the jobs that have a build
    returned \* who gave which transaction back

ledgerVars == <<blocked, held, sent, booked, built, returned>>

Init ==
    /\ blocked = [p \in Payers |-> 0]
    /\ held = {}
    /\ sent = {}
    /\ booked = [j \in Rows |-> {}]
    /\ built = {}
    /\ returned = {}

SentBy(p) == {j \in Rows : <<p, j>> \in sent}

\* How many units, and how many transactions for them, is the business of the
\* client and of billing; that it happens once is Bulk's.
Block(p) ==
    /\ blocked[p] = 0
    /\ \A t \in held : t[1] # p
    /\ blocked'[p] \in Nat
    /\ blocked' = [blocked EXCEPT ![p] = blocked'[p]]
    /\ held \subseteq held'
    /\ \A t \in held' \ held : t[1] = p
    /\ UNCHANGED <<sent, booked, built, returned>>

\* A confirmation stays within what it blocked.
Send(p, j) ==
    /\ Cardinality(SentBy(p) \cup {j}) <= blocked[p]
    /\ sent' = sent \cup {<<p, j>>}
    /\ UNCHANGED <<blocked, held, booked, built, returned>>

\* A restart repeats only what was paid for and has come back as failed.
Repeat(p, j) ==
    /\ booked[j] \cap Failures # {}
    /\ sent' = sent \cup {<<p, j>>}
    /\ UNCHANGED <<blocked, held, booked, built, returned>>

\* Nothing else gives a job a build or takes it away.
Book(j, result) ==
    /\ \E s \in sent : s[2] = j
    /\ booked' = [booked EXCEPT ![j] = @ \cup {result}]
    /\ built' = IF result \in Successes THEN built \cup {j} ELSE built \ {j}
    /\ UNCHANGED <<blocked, held, sent, returned>>

Return(g, txs) ==
    /\ returned' = returned \cup ({g} \X txs)
    /\ UNCHANGED <<blocked, held, sent, booked, built>>

Next ==
    \/ \E p \in Payers : Block(p)
    \/ \E p \in Payers, j \in Rows : Send(p, j)
    \/ \E p \in Repeaters, j \in Rows : Repeat(p, j)
    \/ \E j \in Rows, result \in Successes \cup Failures : Book(j, result)
    \/ \E g \in Givers, txs \in SUBSET held : Return(g, txs)

Spec == Init /\ [][Next]_ledgerVars
=============================================================================
