------------------------------- MODULE Ledger -------------------------------
(***************************************************************************)
(* LedgerService.postEntry: the double-entry ledger of the API gateway.    *)
(*                                                                         *)
(* Every call runs one PostgreSQL transaction at READ COMMITTED:           *)
(*   BEGIN; SELECT the previous hash; INSERT the entry; upsert the debit   *)
(*   snapshot; upsert the credit snapshot; COMMIT.                         *)
(* The awaits between these statements are where calls interleave, so each *)
(* statement that other calls can see, or wait for, is an action.          *)
(*                                                                         *)
(* Abstracted: a hash is the id of the entry it is the digest of (SHA-256  *)
(* over an input that holds the entry's own random id), an entry's id is   *)
(* the call that posts it, and created_at (NOW(), the instant of BEGIN) is *)
(* a logical clock that ticks at every BEGIN.                              *)
(***************************************************************************)
EXTENDS Integers, FiniteSets, FiniteSetsExt

CONSTANTS
    Accounts,   \* ledger sub-accounts, e.g. pta-1:available
    Txns,       \* calls of postEntry; a call posts at most one entry
    Postings,   \* the parameters callers pass: [debit, credit, amount]
    PoolSize,   \* new Pool({ max: 20 }): transactions open at once
    GenesisHash,\* '0'.repeat(64), the prevHash of a first entry
    NoTxn       \* no transaction holds the row lock

ASSUME PostingsAssumption ==
    /\ Postings \subseteq [debit: Accounts, credit: Accounts, amount: Int]
    /\ \A p \in Postings: p.debit # p.credit

ASSUME PoolAssumption == PoolSize \in Nat \ {0}

ASSUME TxnsAssumption == IsFiniteSet(Txns)

ASSUME NamesAssumption ==
    /\ GenesisHash \notin Txns
    /\ NoTxn \notin Txns

VARIABLES
    entries,    \* committed rows of ledger_entries
    balance,    \* committed account_balance_snapshots.balance
    rowLock,    \* the transaction that has written, and so locks, a snapshot row
    call,       \* per call: where it stands and its local variables
    now         \* the database clock, one tick per BEGIN

vars == <<entries, balance, rowLock, call, now>>

Hashes == Txns \cup {GenesisHash}

Entry == [id: Txns, debit: Accounts, credit: Accounts, amount: Nat,
          prev: Hashes, createdAt: Nat,
          committedAt: Nat]     \* not a column: kept for the properties

\* Where a call stands: before postEntry is called; BEGIN done; the entry
\* inserted; one, then both snapshots written; and how the promise ended.
Stages == {"idle", "begun", "inserted", "debited", "credited",
           "posted", "rejected", "failed"}

InTransaction == {"begun", "inserted", "debited", "credited"}
Finished == {"posted", "rejected", "failed"}

Calls == [stage: Stages, posting: Postings, prev: Hashes, at: Nat]

TypeOK ==
    /\ entries \subseteq Entry
    /\ balance \in [Accounts -> Int]
    /\ rowLock \in [Accounts -> Txns \cup {NoTxn}]
    /\ call \in [Txns -> Calls]
    /\ now \in Nat

Init ==
    /\ entries = {}
    /\ balance = [a \in Accounts |-> 0]
    /\ rowLock = [a \in Accounts |-> NoTxn]
    /\ call \in [Txns -> [stage: {"idle"}, posting: Postings,
                          prev: {GenesisHash}, at: {0}]]
    /\ now = 0

----------------------------------------------------------------------------
\* (Operators named Bug... are not used by the specification: each is a
\* plausible mistake in the definition after it, listed in PROJECT.json.)

\* The SELECT looks at the entries that debit the account only.
BugTouching(a) == {e \in entries: e.debit = a}

\* The rows the chain-link SELECT reads: entries touching the account.
Touching(a) == {e \in entries: e.debit = a \/ e.credit = a}

\* ORDER BY created_at without DESC.
BugLatestHashAscending(a) ==
    IF Touching(a) = {}
    THEN GenesisHash
    ELSE (CHOOSE e \in Touching(a):
            \A f \in Touching(a): f.createdAt >= e.createdAt).id

\* ORDER BY created_at DESC LIMIT 1, '0'.repeat(64) when there is no row.
LatestHash(a) ==
    IF Touching(a) = {}
    THEN GenesisHash
    ELSE (CHOOSE e \in Touching(a):
            \A f \in Touching(a): f.createdAt <= e.createdAt).id

\* The row the INSERT of call t writes.
EntryOf(t) == [id |-> t,
               debit |-> call[t].posting.debit,
               credit |-> call[t].posting.credit,
               amount |-> call[t].posting.amount,
               prev |-> call[t].prev,
               createdAt |-> call[t].at,
               committedAt |-> now]

\* The second upsert is forgotten.
BugAppliedDebitOnly(p) == [balance EXCEPT ![p.debit] = @ - p.amount]

\* The two upserts of _updateBalanceSnapshot: -amount, then +amount.
Applied(p) == [a \in Accounts |->
                 IF a = p.debit THEN balance[a] - p.amount
                 ELSE IF a = p.credit THEN balance[a] + p.amount
                 ELSE balance[a]]

\* client.release() without ROLLBACK or COMMIT: the locks stay.
BugUnlockedNever(t) == rowLock

Unlocked(t) == [a \in Accounts |-> IF rowLock[a] = t THEN NoTxn ELSE rowLock[a]]

----------------------------------------------------------------------------
\* if (params.amount <= 0n) throw: no transaction is opened.
RejectAmount(t) ==
    /\ call[t].stage = "idle"
    /\ call[t].posting.amount <= 0
    /\ call' = [call EXCEPT ![t].stage = "rejected"]
    /\ UNCHANGED <<entries, balance, rowLock, now>>

\* The calls that hold a client of the pool.
Open == {t \in Txns: call[t].stage \in InTransaction}

PoolFull == Cardinality(Open) >= PoolSize

\* pool.connect(); BEGIN. NOW() is fixed for the whole transaction here.
Begin(t) ==
    /\ call[t].stage = "idle"
    /\ call[t].posting.amount > 0
    /\ ~PoolFull
    /\ now' = now + 1
    /\ call' = [call EXCEPT ![t] = [@ EXCEPT !.stage = "begun", !.at = now + 1]]
    /\ UNCHANGED <<entries, balance, rowLock>>

\* connectionTimeoutMillis passes with every client taken: connect() rejects,
\* before the try block.
ConnectTimeout(t) ==
    /\ call[t].stage = "idle"
    /\ call[t].posting.amount > 0
    /\ PoolFull
    /\ call' = [call EXCEPT ![t].stage = "failed"]
    /\ UNCHANGED <<entries, balance, rowLock, now>>

\* SELECT hash ... for the debit account, then INSERT the entry. The row is
\* invisible to other transactions until COMMIT, so the two are one step.
InsertEntry(t) ==
    /\ call[t].stage = "begun"
    /\ call' = [call EXCEPT ![t] =
                  [@ EXCEPT !.stage = "inserted",
                            !.prev = LatestHash(call[t].posting.debit)]]
    /\ UNCHANGED <<entries, balance, rowLock, now>>

\* INSERT ... ON CONFLICT DO UPDATE on a snapshot row waits for the row lock
\* and keeps it until the transaction ends; balance + $2 is evaluated on the
\* latest committed row once the lock is granted.
WriteSnapshot(t, from, to, account) ==
    /\ call[t].stage = from
    /\ rowLock[account] = NoTxn
    /\ rowLock' = [rowLock EXCEPT ![account] = t]
    /\ call' = [call EXCEPT ![t].stage = to]
    /\ UNCHANGED <<entries, balance, now>>

DebitSnapshot(t) ==
    WriteSnapshot(t, "inserted", "debited", call[t].posting.debit)

CreditSnapshot(t) ==
    WriteSnapshot(t, "debited", "credited", call[t].posting.credit)

\* COMMIT makes the entry and both snapshots visible and releases the locks.
\* The reply may be lost with the connection: the caller then gets an error
\* for an entry that is posted.
Commit(t) ==
    /\ call[t].stage = "credited"
    /\ entries' = entries \cup {EntryOf(t)}
    /\ balance' = Applied(call[t].posting)
    /\ rowLock' = Unlocked(t)
    /\ \E outcome \in {"posted", "failed"}:
         call' = [call EXCEPT ![t].stage = outcome]
    /\ UNCHANGED now

\* The INSERT runs on the pool, not on the transaction's client: it is there
\* even when the transaction rolls back.
BugRollbackKeepsEntry(t) ==
    /\ call[t].stage \in InTransaction
    /\ rowLock' = Unlocked(t)
    /\ call' = [call EXCEPT ![t].stage = "failed"]
    /\ entries' = IF call[t].stage = "begun" THEN entries
                  ELSE entries \cup {EntryOf(t)}
    /\ UNCHANGED <<balance, now>>

\* Any statement fails (a lost connection, a crash of the process or of the
\* server): ROLLBACK, and the error is thrown to the caller.
Rollback(t) ==
    /\ call[t].stage \in InTransaction
    /\ rowLock' = Unlocked(t)
    /\ call' = [call EXCEPT ![t].stage = "failed"]
    /\ UNCHANGED <<entries, balance, now>>

\* t waits for the credit row of u while u waits for the credit row of t.
WaitsFor(t, u) ==
    /\ call[t].stage = "debited"
    /\ rowLock[call[t].posting.credit] = u

\* PostgreSQL's deadlock detector aborts one transaction of a wait cycle:
\* the failed statement takes the catch branch, ROLLBACK and throw.
DeadlockAbort(t) ==
    /\ \E S \in SUBSET Txns:
         /\ t \in S
         /\ \A x \in S: \E y \in S: WaitsFor(x, y)
    /\ Rollback(t)

\* Every call has ended: the system may stop.
Done ==
    /\ \A t \in Txns: call[t].stage \in Finished
    /\ UNCHANGED vars

Step(t) ==
    \/ RejectAmount(t)
    \/ Begin(t)
    \/ InsertEntry(t)
    \/ DebitSnapshot(t)
    \/ CreditSnapshot(t)
    \/ Commit(t)

Next ==
    \/ \E t \in Txns: Step(t) \/ ConnectTimeout(t) \/ DeadlockAbort(t) \/ Rollback(t)
    \/ Done

\* A call that has opened a transaction goes on (its awaits resolve), and
\* PostgreSQL breaks wait cycles; nobody has to fail.
Spec ==
    /\ Init
    /\ [][Next]_vars
    /\ \A t \in Txns: WF_vars(Step(t)) /\ WF_vars(DeadlockAbort(t))
----------------------------------------------------------------------------
\* Invariant 4 of the file header, "Balance views are DERIVED from entries":
\* at every instant each snapshot equals the net of the committed entries,
\* however postings interleave, wait for each other, deadlock or lose a reply.
\* It is also the double-entry promise: no half of a posting is ever visible.
Amounts(S) == MapThenSumSet(LAMBDA e: e.amount, S)

NetOfEntries(a) == Amounts({e \in entries: e.credit = a})
                   - Amounts({e \in entries: e.debit = a})

SnapshotsDerived == \A a \in Accounts: balance[a] = NetOfEntries(a)

\* The chain links only to history that exists: prevHash is the genesis hash
\* or the hash of a committed entry on the debit account, never the hash of a
\* transaction that rolled back (postEntry reads it before it knows its own
\* or any other transaction's outcome).
LinksCommitted ==
    \A e \in entries:
        \/ e.prev = GenesisHash
        \/ \E f \in entries: f.id = e.prev /\ (f.debit = e.debit \/ f.credit = e.debit)

\* Invariant 3 of the file header, "Every entry chain-links to the previous
\* entry", per debit account, which is what the SELECT orders by: no entry on
\* that account lies between an entry and the one it links to.
ChainLinked ==
    \A e \in entries:
        /\ e.prev = GenesisHash =>
             \A f \in entries: e.debit \in {f.debit, f.credit} =>
                f.createdAt >= e.createdAt
        /\ e.prev # GenesisHash =>
             \E g \in entries:
                /\ g.id = e.prev
                /\ g.createdAt < e.createdAt
                /\ \A f \in entries:
                     e.debit \in {f.debit, f.credit} /\ f.createdAt < e.createdAt
                        => f.createdAt <= g.createdAt

\* No two postings that debit the same account continue the chain from the
\* same entry: the chain of an account's debits is a list, so a removed entry
\* always breaks a link.
NoFork ==
    \A e, f \in entries: e.debit = f.debit /\ e.prev = f.prev => e = f

\* e and f were posted by transactions open at the same time.
Overlap(e, f) ==
    e.createdAt <= f.committedAt /\ f.createdAt <= e.committedAt

Touches(e, a) == e.debit = a \/ e.credit = a

\* How far the chain holds with postings in parallel: an entry whose posting
\* overlapped no other on its debit account links to the account's latest
\* entry, whatever happened to the chain before it, or rolled back meanwhile.
QuietLinked ==
    \A e \in entries:
        LET others == {f \in entries \ {e}: Touches(f, e.debit)}
            before == {f \in others: f.createdAt < e.createdAt}
        IN  (\A f \in others: ~Overlap(e, f)) =>
              IF before = {}
              THEN e.prev = GenesisHash
              ELSE \E g \in before:
                     /\ e.prev = g.id
                     /\ \A f \in before: f.createdAt <= g.createdAt

\* And what every fork comes from: of two entries on one debit account with
\* one predecessor, and that predecessor, two were posted at the same time.
\* Postings one after the other never fork, with any number of clients.
ForksOverlap ==
    \A e, f \in entries:
        e # f /\ e.debit = f.debit /\ e.prev = f.prev =>
            \/ Overlap(e, f)
            \/ \E g \in entries: g.id = e.prev /\ (Overlap(e, g) \/ Overlap(f, g))

\* "Transactional - either both sides post or neither does" (postEntry's
\* comment), and a call that is answered without error has posted, for what it
\* was asked: callers cannot tell postEntry from a ledger that posts at one
\* instant, through the awaits, waits, aborts and lost replies in between.
Atomic == INSTANCE AtomicLedger WITH
    asked <- [t \in Txns |-> call[t].posting],
    rows <- {[id |-> e.id, debit |-> e.debit, credit |-> e.credit,
              amount |-> e.amount] : e \in entries},
    answer <- [t \in Txns |-> IF call[t].stage \in Finished THEN call[t].stage
                              ELSE "none"]

PostingsAtomic == Atomic!Spec

\* A posting that opened its transaction ends, whatever rows it shares with
\* others: the debit-then-credit lock order of two opposite postings cannot
\* block them, and their clients, forever.
PostingEnds ==
    \A t \in Txns: (call[t].stage = "begun") ~> (call[t].stage \in Finished)
=============================================================================
