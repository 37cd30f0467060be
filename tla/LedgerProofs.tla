---------------------------- MODULE LedgerProofs ----------------------------
(* What TLAPS proves about Ledger, for every set of calls, accounts and      *)
(* postings and every pool size.                                             *)
EXTENDS Ledger, FiniteSetTheorems, TLAPS

\* Calls that have inserted their entry, and so hold the hash they read.
Linked == {"inserted", "debited", "credited"}

\* An open transaction has a positive amount and was stamped by the clock.
CallInv ==
    \A t \in Txns: call[t].stage \in InTransaction =>
        /\ call[t].posting.amount > 0
        /\ call[t].at <= now

\* An entry belongs to a call that has ended; a call posts at most one.
EntryInv ==
    /\ \A e \in entries: call[e.id].stage \in {"posted", "failed"}
    /\ \A e, f \in entries: e.id = f.id => e = f
    /\ \A e \in entries: e.createdAt <= now

\* The latest entry the chain-link SELECT looks for exists.
LatestInv ==
    \A a \in Accounts: Touching(a) # {} =>
        \E e \in Touching(a): \A f \in Touching(a): f.createdAt <= e.createdAt

\* The hash an open transaction has read is committed history.
PrevInv ==
    \A t \in Txns: call[t].stage \in Linked =>
        \/ call[t].prev = GenesisHash
        \/ \E f \in entries:
             f.id = call[t].prev /\ Touches(f, call[t].posting.debit)

Inv == TypeOK /\ CallInv /\ EntryInv /\ LatestInv /\ PrevInv /\ LinksCommitted

\* LatestHash returns the genesis hash for an untouched account and the hash
\* of a committed entry on the account, with the greatest created_at, otherwise.
LEMMA LatestHashProperty ==
    ASSUME LatestInv, NEW a \in Accounts
    PROVE  \/ Touching(a) = {} /\ LatestHash(a) = GenesisHash
           \/ \E e \in Touching(a):
                /\ LatestHash(a) = e.id
                /\ \A f \in Touching(a): f.createdAt <= e.createdAt
<1>1. CASE Touching(a) = {}
  BY <1>1 DEF LatestHash
<1>2. CASE Touching(a) # {}
  <2> DEFINE P(e) == \A f \in Touching(a): f.createdAt <= e.createdAt
             m == CHOOSE e \in Touching(a): P(e)
  <2>1. \E e \in Touching(a): P(e)
    BY <1>2 DEF LatestInv
  <2>2. m \in Touching(a) /\ P(m)
    BY <2>1
  <2>3. LatestHash(a) = m.id
    BY <1>2 DEF LatestHash
  <2> QED
    BY <2>2, <2>3
<1> QED
  BY <1>1, <1>2

\* What is true of the accounts of a posting.
LEMMA PostingProperty ==
    ASSUME NEW p \in Postings
    PROVE  p.debit \in Accounts /\ p.credit \in Accounts
           /\ p.amount \in Int /\ p.debit # p.credit
BY PostingsAssumption

LEMMA InitInv == Init => Inv
<1> SUFFICES ASSUME Init PROVE Inv
  OBVIOUS
<1>1. TypeOK
  BY DEF Init, TypeOK, Calls, Stages, Hashes
<1>2. \A t \in Txns: call[t].stage = "idle"
  BY DEF Init
<1>3. CallInv /\ PrevInv
  BY <1>2 DEF CallInv, PrevInv, InTransaction, Linked
<1>4. EntryInv /\ LatestInv /\ LinksCommitted
  BY DEF Init, EntryInv, LatestInv, LinksCommitted, Touching
<1> QED
  BY <1>1, <1>3, <1>4 DEF Inv

\* A step that only moves a call's stage, within its transaction or out of it,
\* without committing, keeps the invariant: RejectAmount, ConnectTimeout, the
\* snapshot writes and ROLLBACK.
LEMMA StageStep ==
    ASSUME Inv, NEW t \in Txns, NEW s \in Stages,
           call' = [call EXCEPT ![t].stage = s],
           call[t].stage \notin {"posted", "failed"} \/ s = "failed",
           s \in InTransaction => call[t].stage \in InTransaction,
           s \in Linked => call[t].stage \in Linked,
           entries' = entries, balance' = balance, now' = now,
           rowLock' \in [Accounts -> Txns \cup {NoTxn}]
    PROVE  Inv'
<1> USE DEF Inv
<1>1. TypeOK'
  BY DEF TypeOK, Calls
<1>2. \A u \in Txns: /\ call'[u].posting = call[u].posting
                      /\ call'[u].prev = call[u].prev
                      /\ call'[u].at = call[u].at
                      /\ u # t => call'[u].stage = call[u].stage
  BY DEF TypeOK, Calls
<1>3. call'[t].stage = s
  BY DEF TypeOK, Calls
<1>4. CallInv'
  BY <1>2, <1>3 DEF CallInv
<1>5. EntryInv'
  <2>1. \A e \in entries: e.id \in Txns
    BY DEF TypeOK, Entry
  <2>2. \A e \in entries: call'[e.id].stage \in {"posted", "failed"}
    BY <2>1, <1>2, <1>3 DEF EntryInv
  <2> QED
    BY <2>2 DEF EntryInv
<1>6. LatestInv'
  BY DEF LatestInv, Touching
<1>7. PrevInv'
  BY <1>2, <1>3 DEF PrevInv
<1>8. LinksCommitted'
  BY DEF LinksCommitted
<1> QED
  BY <1>1, <1>4, <1>5, <1>6, <1>7, <1>8

LEMMA BeginInv ==
    ASSUME Inv, NEW t \in Txns, Begin(t)
    PROVE  Inv'
<1> USE DEF Inv, Begin
<1>1. TypeOK'
  <2> DEFINE r == [call[t] EXCEPT !.stage = "begun", !.at = now + 1]
  <2>1. r \in Calls
    <3>1. call[t] \in Calls /\ now + 1 \in Nat
      BY DEF TypeOK
    <3> QED
      BY <3>1 DEF Calls, Stages
  <2>2. call' = [call EXCEPT ![t] = r]
    OBVIOUS
  <2> HIDE DEF r
  <2>3. call' \in [Txns -> Calls]
    BY <2>1, <2>2 DEF TypeOK
  <2> QED
    BY <2>3 DEF TypeOK
<1>2. \A u \in Txns: /\ call'[u].posting = call[u].posting
                      /\ call'[u].prev = call[u].prev
                      /\ u # t => call'[u] = call[u]
  BY DEF TypeOK, Calls
<1>3. call'[t].stage = "begun" /\ call'[t].at = now + 1
  BY DEF TypeOK, Calls
<1>4. now \in Nat /\ now' = now + 1
  BY DEF TypeOK
<1>5. CallInv'
  <2>1. \A u \in Txns: call[u].at \in Nat
    BY DEF TypeOK, Calls
  <2> QED
    BY <1>2, <1>3, <1>4, <2>1 DEF CallInv
<1>6. EntryInv'
  <2>1. \A e \in entries: e.id \in Txns /\ e.createdAt \in Nat
    BY DEF TypeOK, Entry
  <2>2. \A e \in entries: e.id # t
    BY DEF EntryInv
  <2> QED
    BY <1>2, <1>4, <2>1, <2>2 DEF EntryInv
<1>7. LatestInv'
  BY DEF LatestInv, Touching
<1>8. PrevInv'
  BY <1>2, <1>3 DEF PrevInv, Linked
<1>9. LinksCommitted'
  BY DEF LinksCommitted
<1> QED
  BY <1>1, <1>5, <1>6, <1>7, <1>8, <1>9

LEMMA InsertInv ==
    ASSUME Inv, NEW t \in Txns, InsertEntry(t)
    PROVE  Inv'
<1> USE DEF Inv, InsertEntry
<1> DEFINE a == call[t].posting.debit
<1>1. a \in Accounts
  BY PostingProperty DEF TypeOK, Calls
<1>2. \/ LatestHash(a) = GenesisHash
      \/ \E e \in entries: e.id = LatestHash(a) /\ Touches(e, a)
  BY <1>1, LatestHashProperty DEF Touching, Touches
<1>3. LatestHash(a) \in Hashes
  BY <1>2 DEF TypeOK, Entry, Hashes
<1>4. TypeOK'
  BY <1>3 DEF TypeOK, Calls, Stages
<1>5. \A u \in Txns: /\ call'[u].posting = call[u].posting
                      /\ call'[u].at = call[u].at
                      /\ u # t => call'[u] = call[u]
  BY DEF TypeOK, Calls
<1>6. call'[t].stage = "inserted" /\ call'[t].prev = LatestHash(a)
  BY DEF TypeOK, Calls
<1>7. CallInv'
  BY <1>5, <1>6 DEF CallInv, InTransaction
<1>8. EntryInv'
  <2>1. \A e \in entries: e.id \in Txns /\ e.id # t
    BY DEF TypeOK, Entry, EntryInv
  <2>2. \A e \in entries: call'[e.id] = call[e.id]
    BY <1>5, <2>1
  <2>3. entries' = entries /\ now' = now
    OBVIOUS
  <2> QED
    BY <2>2, <2>3 DEF EntryInv
<1>9. LatestInv'
  BY DEF LatestInv, Touching
<1>10. PrevInv'
  <2> SUFFICES ASSUME NEW u \in Txns, call'[u].stage \in Linked
               PROVE  \/ call'[u].prev = GenesisHash
                      \/ \E f \in entries: f.id = call'[u].prev
                                           /\ Touches(f, call'[u].posting.debit)
    BY DEF PrevInv
  <2>1. CASE u = t
    <3>1. call'[t].posting.debit = a
      BY <1>5
    <3> QED
      BY <1>2, <1>6, <2>1, <3>1
  <2>2. CASE u # t
    BY <1>5, <2>2 DEF PrevInv
  <2> QED
    BY <2>1, <2>2
<1>11. LinksCommitted'
  BY DEF LinksCommitted
<1> QED
  BY <1>4, <1>7, <1>8, <1>9, <1>10, <1>11

\* COMMIT: the entry links to committed history, as PrevInv says; it belongs
\* to a call that now ends, and no entry of this call was there before.
LEMMA CommitInv ==
    ASSUME Inv, NEW t \in Txns, Commit(t)
    PROVE  Inv'
<1> USE DEF Inv
<1> DEFINE n == EntryOf(t)
           p == call[t].posting
<1>1. PICK outcome \in {"posted", "failed"}:
        call' = [call EXCEPT ![t].stage = outcome]
  BY DEF Commit
<1>2. /\ call[t].stage = "credited"
      /\ entries' = entries \cup {n}
      /\ now' = now
      /\ balance' = Applied(p)
      /\ rowLock' = Unlocked(t)
  BY DEF Commit
<1>3. /\ p \in Postings /\ p.debit \in Accounts /\ p.credit \in Accounts
      /\ p.amount \in Int /\ p.amount > 0
      /\ call[t].prev \in Hashes /\ call[t].at \in Nat /\ now \in Nat
  BY <1>2, PostingProperty DEF TypeOK, Calls, CallInv, InTransaction
<1>4. /\ n \in Entry /\ n.id = t /\ n.debit = p.debit /\ n.credit = p.credit
      /\ n.prev = call[t].prev /\ n.createdAt = call[t].at
  BY <1>3 DEF EntryOf, Entry
<1>5. TypeOK'
  <2>1. call' \in [Txns -> Calls]
    BY <1>1 DEF TypeOK, Calls, Stages
  <2>2. balance' \in [Accounts -> Int]
    BY <1>2, <1>3 DEF TypeOK, Applied
  <2>3. rowLock' \in [Accounts -> Txns \cup {NoTxn}]
    BY <1>2 DEF TypeOK, Unlocked
  <2> QED
    BY <1>2, <1>4, <2>1, <2>2, <2>3 DEF TypeOK
<1>7. call'[t].stage \in {"posted", "failed"}
  BY <1>1 DEF TypeOK, Calls
<1>8. CallInv'
  <2>1. \A u \in Txns: call'[u].stage \in InTransaction =>
          call[u].stage \in InTransaction
    BY <1>1 DEF TypeOK, Calls, InTransaction
  <2>2. \A u \in Txns: call'[u].posting = call[u].posting /\ call'[u].at = call[u].at
    BY <1>1 DEF TypeOK, Calls
  <2> QED
    BY <1>2, <2>1, <2>2 DEF CallInv
<1>9. EntryInv'
  <2>1. \A e \in entries: e.id \in Txns /\ e.id # t
    BY <1>2 DEF TypeOK, Entry, EntryInv
  <2>2. \A e \in entries': call'[e.id].stage \in {"posted", "failed"}
    <3>1. \A e \in entries: call'[e.id].stage = call[e.id].stage
      BY <1>1, <2>1 DEF TypeOK, Calls
    <3>2. \A e \in entries: call'[e.id].stage \in {"posted", "failed"}
      BY <3>1 DEF EntryInv
    <3>3. call'[n.id].stage \in {"posted", "failed"}
      BY <1>4, <1>7
    <3> QED
      BY <1>2, <3>2, <3>3
  <2>3. \A e, f \in entries': e.id = f.id => e = f
    BY <1>2, <1>4, <2>1 DEF EntryInv
  <2>4. \A e \in entries': e.createdAt <= now'
    BY <1>2, <1>4 DEF EntryInv, CallInv, InTransaction
  <2> QED
    BY <2>2, <2>3, <2>4 DEF EntryInv
<1>10. LatestInv'
  <2> SUFFICES ASSUME NEW a \in Accounts, Touching(a)' # {}
               PROVE  \E e \in Touching(a)': \A f \in Touching(a)':
                        f.createdAt <= e.createdAt
    BY DEF LatestInv
  <2>1. \A f \in Touching(a)': f \in Touching(a) \/ f = n
    BY <1>2 DEF Touching
  <2>2. \A f \in Touching(a): f \in Touching(a)' /\ f.createdAt \in Nat
    BY <1>2 DEF Touching, TypeOK, Entry
  <2>3. n.createdAt \in Nat
    BY <1>3, <1>4
  <2>4. CASE Touching(a) = {}
    BY <2>1, <2>3, <2>4
  <2>5. CASE Touching(a) # {}
    <3>1. PICK m \in Touching(a): \A f \in Touching(a): f.createdAt <= m.createdAt
      BY <2>5 DEF LatestInv
    <3>2. CASE n \in Touching(a)' /\ n.createdAt > m.createdAt
      BY <2>1, <2>2, <2>3, <3>1, <3>2
    <3>3. CASE ~(n \in Touching(a)' /\ n.createdAt > m.createdAt)
      BY <2>1, <2>2, <2>3, <3>1, <3>3
    <3> QED
      BY <3>2, <3>3
  <2> QED
    BY <2>4, <2>5
<1>11. PrevInv'
  <2>1. \A u \in Txns: call'[u].stage \in Linked => call[u].stage \in Linked
    BY <1>1 DEF TypeOK, Calls, Linked
  <2>2. \A u \in Txns: call'[u].posting = call[u].posting /\ call'[u].prev = call[u].prev
    BY <1>1 DEF TypeOK, Calls
  <2> QED
    BY <1>2, <2>1, <2>2 DEF PrevInv
<1>12. LinksCommitted'
  <2>1. \/ n.prev = GenesisHash
        \/ \E f \in entries: f.id = n.prev /\ (f.debit = n.debit \/ f.credit = n.debit)
    BY <1>2, <1>4 DEF PrevInv, Linked, Touches
  <2> QED
    BY <1>2, <2>1 DEF LinksCommitted
<1> QED
  BY <1>5, <1>8, <1>9, <1>10, <1>11, <1>12

\* Every step keeps the invariant, one case per action.
LEMMA NextInv ==
    ASSUME Inv, [Next]_vars
    PROVE  Inv'
<1>1. TypeOK
  BY DEF Inv
<1>2. ASSUME NEW t \in Txns, RejectAmount(t) PROVE Inv'
  BY <1>1, <1>2, StageStep
     DEF RejectAmount, Stages, InTransaction, Linked, TypeOK
<1>3. ASSUME NEW t \in Txns, Begin(t) PROVE Inv'
  BY <1>3, BeginInv
<1>4. ASSUME NEW t \in Txns, InsertEntry(t) PROVE Inv'
  BY <1>4, InsertInv
<1>5. ASSUME NEW t \in Txns, DebitSnapshot(t) PROVE Inv'
  BY <1>1, <1>5, StageStep
     DEF DebitSnapshot, WriteSnapshot, Stages, InTransaction, Linked, TypeOK
<1>6. ASSUME NEW t \in Txns, CreditSnapshot(t) PROVE Inv'
  BY <1>1, <1>6, StageStep
     DEF CreditSnapshot, WriteSnapshot, Stages, InTransaction, Linked, TypeOK
<1>7. ASSUME NEW t \in Txns, Commit(t) PROVE Inv'
  BY <1>7, CommitInv
<1>8. ASSUME NEW t \in Txns, ConnectTimeout(t) PROVE Inv'
  BY <1>1, <1>8, StageStep
     DEF ConnectTimeout, Stages, InTransaction, Linked, TypeOK
<1>9. ASSUME NEW t \in Txns, Rollback(t) PROVE Inv'
  <2>1. Unlocked(t) \in [Accounts -> Txns \cup {NoTxn}]
    BY <1>1 DEF Unlocked, TypeOK
  <2> QED
    BY <1>9, <2>1, StageStep DEF Rollback, Stages, InTransaction, Linked
<1>10. CASE UNCHANGED vars
  BY <1>10 DEF vars, Inv, TypeOK, CallInv, EntryInv, LatestInv, Touching,
               PrevInv, LinksCommitted
<1> QED
  BY <1>2, <1>3, <1>4, <1>5, <1>6, <1>7, <1>8, <1>9, <1>10
     DEF Next, Step, DeadlockAbort, Done

\* The inductive invariant, from which the theorems below follow.
LEMMA Invariance == Spec => []Inv
<1>1. Init => Inv
  BY InitInv
<1>2. Inv /\ [Next]_vars => Inv'
  BY NextInv
<1> QED
  BY <1>1, <1>2, PTL DEF Spec

\* Type correctness of the ledger.
THEOREM TypeCorrect == Spec => []TypeOK
BY Invariance, PTL DEF Inv

\* The chain never links to the hash of an entry that was rolled back.
THEOREM ChainLinksCommitted == Spec => []LinksCommitted
BY Invariance, PTL DEF Inv

----------------------------------------------------------------------------
(* One client in the pool: postings do not overlap and the chain is a list.  *)

\* What the SELECT of a call that is alone has read: the latest entry.
ReadLatest(E, prev, a) ==
    /\ prev = GenesisHash => \A f \in E: ~Touches(f, a)
    /\ prev # GenesisHash =>
         \E g \in E:
            g.id = prev /\ \A f \in E: Touches(f, a) => f.createdAt <= g.createdAt

SerialInv ==
    /\ \A t, u \in Open: t = u
    /\ \A t \in Open: \A e \in entries: e.createdAt < call[t].at
    /\ \A e, f \in entries: e.createdAt = f.createdAt => e = f
    /\ \A t \in Txns: call[t].stage \in Linked =>
          ReadLatest(entries, call[t].prev, call[t].posting.debit)
    /\ ChainLinked

\* With one client, a full pool is exactly an open transaction.
LEMMA PoolOfOne ==
    ASSUME PoolSize = 1, ~PoolFull
    PROVE  Open = {}
<1>1. IsFiniteSet(Open)
  BY TxnsAssumption, FS_Subset DEF Open
<1>2. Cardinality(Open) \in Nat
  BY <1>1, FS_CardinalityType
<1>3. Cardinality(Open) = 0
  BY <1>2 DEF PoolFull
<1> QED
  BY <1>1, <1>3, FS_EmptySet

\* A step that commits nothing, opens no transaction and reads no hash.
LEMMA SerialStageStep ==
    ASSUME SerialInv, TypeOK, NEW t \in Txns, NEW s \in Stages,
           call' = [call EXCEPT ![t].stage = s],
           s \in InTransaction => call[t].stage \in InTransaction,
           s \in Linked => call[t].stage \in Linked,
           entries' = entries
    PROVE  SerialInv'
<1>1. \A u \in Txns: /\ call'[u].posting = call[u].posting
                     /\ call'[u].prev = call[u].prev
                     /\ call'[u].at = call[u].at
                     /\ call'[u].stage \in Linked => call[u].stage \in Linked
                     /\ call'[u].stage \in InTransaction =>
                          call[u].stage \in InTransaction
  BY DEF TypeOK, Calls
<1>2. \A u \in Open': u \in Open /\ call'[u].at = call[u].at
  BY <1>1 DEF Open
<1>3. \A u \in Txns: call'[u].stage \in Linked =>
        ReadLatest(entries, call[u].prev, call[u].posting.debit)
  BY <1>1 DEF SerialInv
<1>4. \A u \in Txns: call'[u].stage \in Linked =>
        ReadLatest(entries', call'[u].prev, call'[u].posting.debit)
  BY <1>1, <1>3
<1>5. /\ \A u, v \in Open': u = v
      /\ \A u \in Open': \A e \in entries': e.createdAt < call'[u].at
      /\ \A e, f \in entries': e.createdAt = f.createdAt => e = f
  BY <1>2 DEF SerialInv
<1>6. ChainLinked'
  BY DEF SerialInv, ChainLinked
<1> QED
  BY <1>4, <1>5, <1>6 DEF SerialInv

LEMMA SerialBegin ==
    ASSUME SerialInv, Inv, PoolSize = 1, NEW t \in Txns, Begin(t)
    PROVE  SerialInv'
<1>1. Open = {}
  BY PoolOfOne DEF Begin
<1>2. TypeOK /\ entries' = entries
  BY DEF Inv, Begin
<1>3. call' = [call EXCEPT ![t] = [@ EXCEPT !.stage = "begun", !.at = now + 1]]
  BY DEF Begin
<1>4. Open' = {t} /\ call'[t].at = now + 1
  BY <1>1, <1>2, <1>3 DEF Open, InTransaction, TypeOK, Calls
<1>5. \A e \in entries: e.createdAt < now + 1
  BY <1>2 DEF Inv, EntryInv, TypeOK, Entry
<1>6. \A u \in Txns: call'[u].stage \notin Linked
  BY <1>1, <1>2, <1>3 DEF Open, InTransaction, Linked, TypeOK, Calls
<1> QED
  BY <1>2, <1>4, <1>5, <1>6 DEF SerialInv, ChainLinked

LEMMA SerialInsert ==
    ASSUME SerialInv, Inv, NEW t \in Txns, InsertEntry(t)
    PROVE  SerialInv'
<1> DEFINE a == call[t].posting.debit
           r == [call[t] EXCEPT !.stage = "inserted", !.prev = LatestHash(a)]
<1>1. TypeOK /\ LatestInv /\ entries' = entries /\ a \in Accounts
      /\ call[t] \in Calls /\ call[t].stage = "begun"
  BY PostingProperty DEF Inv, InsertEntry, TypeOK, Calls
<1>2. call' = [call EXCEPT ![t] = r]
  BY DEF InsertEntry
<1>3. /\ r.stage = "inserted" /\ r.prev = LatestHash(a)
      /\ r.posting = call[t].posting /\ r.at = call[t].at
  BY <1>1 DEF Calls
<1>4. GenesisHash \notin {e.id: e \in entries}
  BY <1>1, NamesAssumption DEF TypeOK, Entry
<1>5. ReadLatest(entries, LatestHash(a), a)
  BY <1>1, <1>4, LatestHashProperty DEF ReadLatest, Touching, Touches
<1> HIDE DEF r
<1>6. call'[t] = r /\ \A u \in Txns: u # t => call'[u] = call[u]
  BY <1>1, <1>2 DEF TypeOK
<1>7. \A u \in Open': u \in Open /\ call'[u].at = call[u].at
  BY <1>1, <1>3, <1>6 DEF Open, InTransaction
<1>8. \A u \in Txns: call'[u].stage \in Linked =>
        ReadLatest(entries', call'[u].prev, call'[u].posting.debit)
  BY <1>1, <1>3, <1>5, <1>6 DEF SerialInv
<1>9. /\ \A u, v \in Open': u = v
      /\ \A u \in Open': \A e \in entries': e.createdAt < call'[u].at
      /\ \A e, f \in entries': e.createdAt = f.createdAt => e = f
  BY <1>1, <1>7 DEF SerialInv
<1>10. ChainLinked'
  BY <1>1 DEF SerialInv, ChainLinked
<1> QED
  BY <1>8, <1>9, <1>10 DEF SerialInv

LEMMA SerialCommit ==
    ASSUME SerialInv, Inv, NEW t \in Txns, Commit(t)
    PROVE  SerialInv'
<1> DEFINE n == EntryOf(t)
           a == call[t].posting.debit
<1>1. /\ TypeOK /\ entries' = entries \cup {n} /\ t \in Open
      /\ call[t].stage \in Linked /\ call[t] \in Calls
  BY DEF Inv, Commit, Open, InTransaction, Linked, TypeOK
<1>2. PICK outcome \in {"posted", "failed"}:
        call' = [call EXCEPT ![t].stage = outcome]
  BY DEF Commit
<1>3. \A u \in Txns: call'[u].stage \in InTransaction => u \in Open /\ u # t
  BY <1>1, <1>2 DEF Open, InTransaction, TypeOK, Calls
<1>4. Open' = {}
  BY <1>1, <1>3 DEF SerialInv, Open
<1>5. \A u \in Txns: call'[u].stage \notin Linked
  BY <1>4 DEF Open, Linked, InTransaction
<1>6. /\ n.prev = call[t].prev /\ n.debit = a /\ n.createdAt = call[t].at
      /\ n.createdAt \in Nat
  BY <1>1 DEF EntryOf, Calls
<1>7. \A e \in entries: e.createdAt < n.createdAt /\ e.createdAt \in Nat
  BY <1>1, <1>6 DEF SerialInv, TypeOK, Entry
<1>8. ReadLatest(entries, n.prev, n.debit)
  BY <1>1, <1>6 DEF SerialInv
<1> HIDE DEF n, a
<1>9. \A e, f \in entries': e.createdAt = f.createdAt => e = f
  BY <1>1, <1>6, <1>7 DEF SerialInv
<1>10. ChainLinked'
  <2> SUFFICES ASSUME NEW e \in entries'
      PROVE  /\ e.prev = GenesisHash =>
                  \A f \in entries': e.debit \in {f.debit, f.credit} =>
                     f.createdAt >= e.createdAt
             /\ e.prev # GenesisHash =>
                  \E g \in entries':
                     /\ g.id = e.prev
                     /\ g.createdAt < e.createdAt
                     /\ \A f \in entries':
                          e.debit \in {f.debit, f.credit} /\ f.createdAt < e.createdAt
                             => f.createdAt <= g.createdAt
    BY DEF ChainLinked
  <2>1. CASE e = n
    BY <1>1, <1>6, <1>7, <1>8, <2>1 DEF ReadLatest, Touches
  <2>2. CASE e \in entries
    BY <1>1, <1>6, <1>7, <2>2 DEF SerialInv, ChainLinked
  <2> QED
    BY <1>1, <2>1, <2>2
<1> QED
  BY <1>4, <1>5, <1>9, <1>10 DEF SerialInv

LEMMA SerialNext ==
    ASSUME SerialInv, Inv, PoolSize = 1, [Next]_vars
    PROVE  SerialInv'
<1>1. TypeOK
  BY DEF Inv
<1>2. ASSUME NEW t \in Txns, RejectAmount(t) PROVE SerialInv'
  BY <1>1, <1>2, SerialStageStep DEF RejectAmount, Stages, InTransaction, Linked
<1>3. ASSUME NEW t \in Txns, Begin(t) PROVE SerialInv'
  BY <1>3, SerialBegin
<1>4. ASSUME NEW t \in Txns, InsertEntry(t) PROVE SerialInv'
  BY <1>4, SerialInsert
<1>5. ASSUME NEW t \in Txns, DebitSnapshot(t) PROVE SerialInv'
  BY <1>1, <1>5, SerialStageStep
     DEF DebitSnapshot, WriteSnapshot, Stages, InTransaction, Linked
<1>6. ASSUME NEW t \in Txns, CreditSnapshot(t) PROVE SerialInv'
  BY <1>1, <1>6, SerialStageStep
     DEF CreditSnapshot, WriteSnapshot, Stages, InTransaction, Linked
<1>7. ASSUME NEW t \in Txns, Commit(t) PROVE SerialInv'
  BY <1>7, SerialCommit
<1>8. ASSUME NEW t \in Txns, ConnectTimeout(t) PROVE SerialInv'
  BY <1>1, <1>8, SerialStageStep DEF ConnectTimeout, Stages, InTransaction, Linked
<1>9. ASSUME NEW t \in Txns, Rollback(t) PROVE SerialInv'
  BY <1>1, <1>9, SerialStageStep DEF Rollback, Stages, InTransaction, Linked
<1>10. CASE UNCHANGED vars
  BY <1>10 DEF vars, SerialInv, Open, ChainLinked
<1> QED
  BY <1>2, <1>3, <1>4, <1>5, <1>6, <1>7, <1>8, <1>9, <1>10
     DEF Next, Step, DeadlockAbort, Done

\* Of two debits of one account, the later links to the earlier or to an entry
\* after it, and the earlier to one before itself: never to the same entry.
LEMMA ChainLinkedNoFork ==
    ASSUME Inv, SerialInv
    PROVE  NoFork
<1>1. \A x \in entries: x.createdAt \in Nat
  BY DEF Inv, TypeOK, Entry
<1>2. ASSUME NEW e \in entries, NEW f \in entries,
             e.debit = f.debit, e.prev = f.prev, e.createdAt < f.createdAt
      PROVE  FALSE
  <2>1. f.prev # GenesisHash
    BY <1>1, <1>2 DEF SerialInv, ChainLinked
  <2>2. PICK g \in entries: g.id = f.prev /\ e.createdAt <= g.createdAt
    BY <1>2, <2>1 DEF SerialInv, ChainLinked
  <2>3. PICK h \in entries: h.id = e.prev /\ h.createdAt < e.createdAt
    BY <1>2, <2>1 DEF SerialInv, ChainLinked
  <2>4. g = h
    BY <1>2, <2>2, <2>3 DEF Inv, EntryInv
  <2> QED
    BY <1>1, <2>2, <2>3, <2>4
<1>3. SUFFICES ASSUME NEW e \in entries, NEW f \in entries,
                      e.debit = f.debit, e.prev = f.prev
               PROVE  e = f
  BY DEF NoFork
<1>4. CASE e.createdAt < f.createdAt
  BY <1>2, <1>3, <1>4
<1>5. CASE f.createdAt < e.createdAt
  BY <1>2, <1>3, <1>5
<1>6. CASE e.createdAt = f.createdAt
  BY <1>6 DEF SerialInv
<1> QED
  BY <1>1, <1>4, <1>5, <1>6

\* With a single client in the pool, the chain of the ledger is what the file
\* header promises: each entry links to the previous entry of its debit
\* account and no two debits of an account continue from the same entry.
THEOREM SerialChain ==
    ASSUME PoolSize = 1
    PROVE  Spec => [](ChainLinked /\ NoFork)
<1>1. Init => SerialInv
  BY DEF Init, SerialInv, Open, InTransaction, Linked, ChainLinked
<1>2. SerialInv /\ Inv /\ [Next]_vars => SerialInv'
  BY SerialNext
<1>3. Inv /\ SerialInv => ChainLinked /\ NoFork
  BY ChainLinkedNoFork DEF SerialInv
<1> QED
  BY <1>1, <1>2, <1>3, Invariance, PTL DEF Spec

----------------------------------------------------------------------------
(* A posting is one step of the atomic ledger, every other step none.       *)

\* What COMMIT does to entries and balances.
LEMMA CommitPosts ==
    ASSUME Inv, NEW t \in Txns, Commit(t)
    PROVE  LET p == call[t].posting
               n == EntryOf(t)
           IN  /\ entries' = entries \cup {n} /\ n \notin entries
               /\ n.id = t /\ n.debit = p.debit /\ n.credit = p.credit
               /\ n.amount = p.amount
               /\ p \in Postings /\ p.amount \in Int /\ p.amount > 0
               /\ p.debit \in Accounts /\ p.credit \in Accounts /\ p.debit # p.credit
               /\ balance' = [balance EXCEPT ![p.debit] = @ - p.amount,
                                             ![p.credit] = @ + p.amount]
<1> DEFINE n == EntryOf(t)
           p == call[t].posting
<1>1. /\ entries' = entries \cup {n} /\ balance' = Applied(p)
      /\ call[t].stage = "credited"
  BY DEF Commit
<1>2. /\ n.id = t /\ n.debit = p.debit /\ n.credit = p.credit
      /\ n.amount = p.amount
  BY DEF EntryOf
<1>3. n \notin entries
  BY <1>1, <1>2 DEF Inv, EntryInv
<1>4. /\ p \in Postings /\ p.debit # p.credit /\ p.debit \in Accounts
      /\ p.credit \in Accounts /\ p.amount \in Int
  BY PostingProperty DEF Inv, TypeOK, Calls
<1>5. p.amount > 0
  BY <1>1 DEF Inv, CallInv, InTransaction
<1>6. balance \in [Accounts -> Int]
  BY DEF Inv, TypeOK
<1> HIDE DEF n, p
<1>7. balance' = [balance EXCEPT ![p.debit] = @ - p.amount,
                                 ![p.credit] = @ + p.amount]
  BY <1>1, <1>4, <1>6 DEF Applied
<1> QED
  BY <1>1, <1>2, <1>3, <1>4, <1>5, <1>7 DEF n, p

\* What the atomic ledger sees of this one.
Asked == [t \in Txns |-> call[t].posting]
Rows == {[id |-> e.id, debit |-> e.debit, credit |-> e.credit,
          amount |-> e.amount] : e \in entries}
Answer == [t \in Txns |-> IF call[t].stage \in Finished THEN call[t].stage
                          ELSE "none"]

\* A call that ends without COMMIT is refused, one that goes on is a stutter.
LEMMA StageMaps ==
    ASSUME Inv, NEW t \in Txns, NEW s \in Stages,
           call' = [call EXCEPT ![t].stage = s],
           call[t].stage \notin Finished,
           s \in Finished => s = IF call[t].posting.amount > 0 THEN "failed"
                                 ELSE "rejected",
           entries' = entries, balance' = balance
    PROVE  Atomic!Refuse(t) \/ UNCHANGED <<Asked, Rows, balance, Answer>>
<1>1. \A u \in Txns: /\ call'[u].posting = call[u].posting
                     /\ call'[u].stage = IF u = t THEN s ELSE call[u].stage
  BY DEF Inv, TypeOK, Calls
<1>2. Asked' = Asked /\ Rows' = Rows
  BY <1>1 DEF Asked, Rows
<1>3. Answer[t] = "none"
  BY DEF Answer
<1>4. CASE s \in Finished
  <2>1. Answer' = [Answer EXCEPT ![t] = s]
    BY <1>1, <1>4 DEF Answer
  <2>2. s = IF Asked[t].amount > 0 THEN "failed" ELSE "rejected"
    BY <1>4 DEF Asked
  <2> QED
    BY <1>2, <1>3, <2>1, <2>2 DEF Atomic!Refuse, Asked, Rows, Answer
<1>5. CASE s \notin Finished
  <2>1. Answer' = Answer
    BY <1>1, <1>5 DEF Answer
  <2> QED
    BY <1>2, <2>1
<1> QED
  BY <1>4, <1>5

\* BEGIN and the INSERT of a transaction are invisible.
LEMMA OpenMaps ==
    ASSUME Inv, NEW t \in Txns, Begin(t) \/ InsertEntry(t)
    PROVE  UNCHANGED <<Asked, Rows, balance, Answer>>
<1>1. \A u \in Txns: /\ call'[u].posting = call[u].posting
                     /\ u # t => call'[u].stage = call[u].stage
  <2>1. CASE Begin(t)
    BY <2>1 DEF Inv, TypeOK, Calls, Begin
  <2>2. CASE InsertEntry(t)
    BY <2>2 DEF Inv, TypeOK, Calls, InsertEntry
  <2> QED
    BY <2>1, <2>2
<1>2. call[t].stage \notin Finished /\ call'[t].stage \notin Finished
  <2>1. CASE Begin(t)
    BY <2>1 DEF Inv, TypeOK, Calls, Begin, Finished
  <2>2. CASE InsertEntry(t)
    BY <2>2 DEF Inv, TypeOK, Calls, InsertEntry, Finished
  <2> QED
    BY <2>1, <2>2
<1>3. Answer' = Answer /\ Asked' = Asked
  BY <1>1, <1>2 DEF Answer, Asked
<1> QED
  BY <1>3 DEF Rows, Begin, InsertEntry

\* COMMIT is where the posting takes effect.
LEMMA CommitMaps ==
    ASSUME Inv, NEW t \in Txns, Commit(t)
    PROVE  Atomic!Post(t)
<1> DEFINE p == call[t].posting
           n == EntryOf(t)
           row == [id |-> t, debit |-> p.debit, credit |-> p.credit,
                   amount |-> p.amount]
<1>1. PICK outcome \in {"posted", "failed"}:
        call' = [call EXCEPT ![t].stage = outcome]
  BY DEF Commit
<1>2. \A u \in Txns: /\ call'[u].posting = call[u].posting
                     /\ call'[u].stage = IF u = t THEN outcome ELSE call[u].stage
  BY <1>1 DEF Inv, TypeOK, Calls
<1>3. call[t].stage = "credited"
  BY DEF Commit
<1>4. Asked' = Asked /\ Asked[t] = p
  BY <1>2 DEF Asked
<1>5. Answer[t] = "none" /\ Answer' = [Answer EXCEPT ![t] = outcome]
  BY <1>2, <1>3 DEF Answer, Finished
<1>6. /\ entries' = entries \cup {n} /\ p.amount > 0
      /\ n.id = t /\ n.debit = p.debit /\ n.credit = p.credit /\ n.amount = p.amount
      /\ balance' = [balance EXCEPT ![p.debit] = @ - p.amount,
                                    ![p.credit] = @ + p.amount]
  BY CommitPosts
<1> HIDE DEF p, n
<1>7. Rows' = Rows \cup {row}
  BY <1>6 DEF Rows
<1> HIDE DEF row
<1>8. Atomic!Row(t) = row
  BY <1>4 DEF Atomic!Row, Asked, row
<1> QED
  BY <1>1, <1>4, <1>5, <1>6, <1>7, <1>8 DEF Atomic!Post, Asked, Rows, Answer

LEMMA StepMaps ==
    ASSUME Inv, [Next]_vars
    PROVE  Atomic!Next \/ UNCHANGED <<Asked, Rows, balance, Answer>>
<1>1. CASE UNCHANGED vars
  BY <1>1 DEF vars, Asked, Rows, Answer
<1>2. ASSUME NEW t \in Txns, RejectAmount(t)
      PROVE  Atomic!Next \/ UNCHANGED <<Asked, Rows, balance, Answer>>
  <2>1. ~(call[t].posting.amount > 0)
    BY <1>2, PostingProperty DEF RejectAmount, Inv, TypeOK, Calls
  <2> QED
    BY <1>2, <2>1, StageMaps DEF RejectAmount, Finished, Stages, Atomic!Next
<1>3. ASSUME NEW t \in Txns, ConnectTimeout(t)
      PROVE  Atomic!Next \/ UNCHANGED <<Asked, Rows, balance, Answer>>
  BY <1>3, StageMaps DEF ConnectTimeout, Finished, Stages, Atomic!Next
<1>4. ASSUME NEW t \in Txns, Rollback(t)
      PROVE  Atomic!Next \/ UNCHANGED <<Asked, Rows, balance, Answer>>
  <2>1. call[t].posting.amount > 0
    BY <1>4 DEF Rollback, Inv, CallInv
  <2> QED
    BY <1>4, <2>1, StageMaps
       DEF Rollback, InTransaction, Finished, Stages, Atomic!Next
<1>5. ASSUME NEW t \in Txns, DebitSnapshot(t) \/ CreditSnapshot(t)
      PROVE  Atomic!Next \/ UNCHANGED <<Asked, Rows, balance, Answer>>
  BY <1>5, StageMaps
     DEF DebitSnapshot, CreditSnapshot, WriteSnapshot, Finished, Stages, Atomic!Next
<1>6. ASSUME NEW t \in Txns, Commit(t) PROVE Atomic!Next
  BY <1>6, CommitMaps DEF Atomic!Next
<1> QED
  BY <1>1, <1>2, <1>3, <1>4, <1>5, <1>6, OpenMaps
     DEF Next, Step, DeadlockAbort, Done

\* Callers cannot tell postEntry from a ledger that posts at one instant, or
\* not at all: whatever interleaves with the awaits of a call, and however its
\* transaction ends, entry and balances appear in one step between the call
\* and its answer, and a call answered without error has posted.
THEOREM AtomicPostings == Spec => PostingsAtomic
<1>1. Init => Atomic!Init
  <2> SUFFICES ASSUME Init PROVE Atomic!Init
    OBVIOUS
  <2>1. call \in [Txns -> Calls]
    BY InitInv DEF Inv, TypeOK
  <2>2. \A t \in Txns: call[t].stage = "idle" /\ call[t].posting \in Postings
    BY <2>1 DEF Init, Calls
  <2> QED
    BY <2>2 DEF Init, Atomic!Init, Finished
<1>2. Inv /\ [Next]_vars => [Atomic!Next]_<<Asked, Rows, balance, Answer>>
  BY StepMaps
<1>3. Spec => [][Atomic!Next]_<<Asked, Rows, balance, Answer>>
  BY <1>2, Invariance, PTL DEF Spec
<1>4. Spec => Init
  BY PTL DEF Spec
<1> QED
  BY <1>1, <1>3, <1>4, PTL DEF PostingsAtomic, Atomic!Spec, Asked, Rows, Answer

----------------------------------------------------------------------------
(* Sums over finite sets. The library's induction theorems take an operator,*)
(* so each induction here is a minimal counterexample instead.              *)

Sum(f, S) == MapThenSumSet(LAMBDA x: f[x], S)

\* The element MapThenSumSet takes first, and what it computes: g has the sum
\* over every subset of S, if each is the first value and the sum of the rest.
First(s) == CHOOSE x \in s : TRUE
SumBy(f, g, s) == IF s = {} THEN 0 ELSE f[First(s)] + g[s \ {First(s)}]
IsSums(f, g, S) == g = [s \in SUBSET S |-> SumBy(f, g, s)]
Sums(f, S) == CHOOSE g : IsSums(f, g, S)

LEMMA SumOfSums == ASSUME NEW f, NEW S PROVE Sum(f, S) = Sums(f, S)[S]
BY DEF Sum, MapThenSumSet, MapThenFoldSet, Sums, IsSums, SumBy, First

LEMMA FirstIn == ASSUME NEW s, s # {} PROVE First(s) \in s
BY DEF First

\* Of the subsets of a finite set that have a property, one has no smaller one
\* below it.
LEMMA Minimal ==
  ASSUME NEW S, IsFiniteSet(S), NEW B, B \subseteq SUBSET S, B # {}
  PROVE  \E s \in B: \A t \in SUBSET s: t # s => t \notin B
<1>1. IsWellFoundedOn(StrictSubsetOrdering(S), SUBSET S)
  BY FS_StrictSubsetOrderingWellFounded, FS_FiniteSubsetsOfFinite
<1>2. PICK s \in B: \A t \in B: <<t, s>> \notin StrictSubsetOrdering(S)
  BY <1>1, WFMin
<1>3. ASSUME NEW t \in SUBSET s, t # s PROVE t \notin B
  <2>1. <<t, s>> \in (SUBSET S) \X (SUBSET S)
    BY <1>2
  <2>2. <<t, s>> \in StrictSubsetOrdering(S)
    BY <2>1, <1>3 DEF StrictSubsetOrdering
  <2> QED
    BY <1>2, <2>2
<1> QED
  BY <1>2, <1>3

\* Two such functions agree where both are defined.
LEMMA SumsAgree ==
  ASSUME NEW S, IsFiniteSet(S), NEW T, T \subseteq S, NEW e,
         NEW f, IsSums(e, f, S), NEW g, IsSums(e, g, T)
  PROVE  \A s \in SUBSET T: f[s] = g[s]
<1> DEFINE B == {s \in SUBSET T: f[s] # g[s]}
<1> SUFFICES ASSUME B # {} PROVE FALSE
  OBVIOUS
<1>1. IsFiniteSet(T) /\ B \subseteq SUBSET T
  BY FS_Subset
<1>2. PICK s \in B: \A t \in SUBSET s: t # s => t \notin B
  <2> HIDE DEF B
  <2> QED
    BY <1>1, Minimal
<1>3. f[s] = SumBy(e, f, s) /\ g[s] = SumBy(e, g, s)
  BY <1>2 DEF IsSums
<1>4. s # {}
  BY <1>2, <1>3 DEF SumBy
<1>5. First(s) \in s
  BY <1>4, FirstIn
<1>6. s \ {First(s)} \notin B
  BY <1>2, <1>5
<1>7. f[s \ {First(s)}] = g[s \ {First(s)}]
  BY <1>2, <1>6
<1> QED
  BY <1>2, <1>3, <1>7 DEF SumBy

\* There is one, for every finite set: on a minimal set without, the sums of
\* its smaller subsets make one.
LEMMA SumsExist ==
  ASSUME NEW f, NEW S, IsFiniteSet(S)
  PROVE  IsSums(f, Sums(f, S), S)
<1> DEFINE B == {s \in SUBSET S: ~ IsSums(f, Sums(f, s), s)}
<1> SUFFICES ASSUME B # {} PROVE FALSE
  OBVIOUS
<1>1. B \subseteq SUBSET S
  OBVIOUS
<1>2. PICK s \in B: \A t \in SUBSET s: t # s => t \notin B
  <2> HIDE DEF B
  <2> QED
    BY <1>1, Minimal
<1>3. \A t \in SUBSET s: t # s => IsSums(f, Sums(f, t), t)
  BY <1>2
<1> DEFINE Below(t) == Sums(f, t)[t]
           Value(t) == IF t = {} THEN 0 ELSE f[First(t)] + Below(t \ {First(t)})
           g == [t \in SUBSET s |-> Value(t)]
<1>4. IsFiniteSet(s)
  BY FS_Subset
<1>5. ASSUME NEW t \in SUBSET s, t # s PROVE Below(t) = Value(t)
  <2>1. Below(t) = SumBy(f, Sums(f, t), t)
    <3>1. IsSums(f, Sums(f, t), t)
      BY <1>3, <1>5
    <3> QED
      BY <3>1 DEF IsSums
  <2>2. CASE t = {}
    BY <2>1, <2>2 DEF SumBy
  <2>3. CASE t # {}
    <3> DEFINE u == t \ {First(t)}
    <3>1. u \in SUBSET s /\ u # s /\ u \subseteq t /\ IsFiniteSet(t)
      BY <1>4, <1>5, <2>3, FirstIn, FS_Subset
    <3>2. Sums(f, t)[u] = Sums(f, u)[u]
      <4>1. IsSums(f, Sums(f, u), u) /\ IsSums(f, Sums(f, t), t)
        BY <1>3, <1>5, <3>1
      <4> HIDE DEF u
      <4> QED
        BY <3>1, <4>1, SumsAgree
    <3> QED
      BY <2>1, <2>3, <3>2 DEF SumBy
  <2> QED
    BY <2>2, <2>3
<1>6. ASSUME NEW t \in SUBSET s PROVE g[t] = SumBy(f, g, t)
  <2>1. CASE t = {}
    BY <2>1 DEF SumBy
  <2>2. CASE t # {}
    <3> DEFINE u == t \ {First(t)}
    <3>1. u \in SUBSET s /\ u # s
      BY <2>2, FirstIn
    <3>2. g[u] = Below(u)
      BY <3>1, <1>5
    <3> QED
      BY <2>2, <3>2 DEF SumBy
  <2> QED
    BY <2>1, <2>2
<1>7. IsSums(f, g, s)
  <2> SUFFICES g = [t \in SUBSET s |-> SumBy(f, g, t)]
    BY DEF IsSums
  <2> DEFINE h == [t \in SUBSET s |-> SumBy(f, g, t)]
  <2>1. \A t \in SUBSET s: h[t] = g[t]
    BY <1>6
  <2> QED
    BY <2>1
<1>8. IsSums(f, Sums(f, s), s)
  <2> HIDE DEF g
  <2> QED
    BY <1>7 DEF Sums
<1> QED
  BY <1>2, <1>8

LEMMA SumUnfold ==
  ASSUME NEW f, NEW S, IsFiniteSet(S)
  PROVE  Sum(f, S) = IF S = {} THEN 0
                     ELSE f[First(S)] + Sum(f, S \ {First(S)})
<1>1. IsSums(f, Sums(f, S), S)
  BY SumsExist
<1>2. Sums(f, S)[S] = SumBy(f, Sums(f, S), S)
  BY <1>1 DEF IsSums
<1>3. CASE S = {}
  BY <1>2, <1>3, SumOfSums DEF SumBy
<1>4. CASE S # {}
  <2> DEFINE T == S \ {First(S)}
  <2>1. T \subseteq S /\ IsFiniteSet(T)
    BY FS_Subset
  <2>2. IsSums(f, Sums(f, T), T)
    BY <2>1, SumsExist
  <2>3. Sums(f, S)[T] = Sums(f, T)[T]
    <3> HIDE DEF T
    <3> QED
      BY <1>1, <2>1, <2>2, SumsAgree
  <2>4. Sum(f, T) = Sums(f, T)[T] /\ Sum(f, S) = Sums(f, S)[S]
    BY SumOfSums
  <2> QED
    BY <1>2, <1>4, <2>3, <2>4 DEF SumBy
<1> QED
  BY <1>3, <1>4

LEMMA SumInt ==
  ASSUME NEW f, NEW S, IsFiniteSet(S), \A x \in S: f[x] \in Int
  PROVE  Sum(f, S) \in Int
<1> DEFINE B == {s \in SUBSET S: Sum(f, s) \notin Int}
<1> SUFFICES ASSUME B # {} PROVE FALSE
  OBVIOUS
<1>1. B \subseteq SUBSET S
  OBVIOUS
<1>2. PICK s \in B: \A t \in SUBSET s: t # s => t \notin B
  <2> HIDE DEF B
  <2> QED
    BY <1>1, Minimal
<1>3. IsFiniteSet(s)
  BY FS_Subset
<1>4. Sum(f, s) = IF s = {} THEN 0 ELSE f[First(s)] + Sum(f, s \ {First(s)})
  BY <1>3, SumUnfold
<1>5. CASE s = {}
  BY <1>2, <1>4, <1>5
<1>6. CASE s # {}
  <2>1. First(s) \in s /\ f[First(s)] \in Int
    BY <1>6, FirstIn
  <2>2. Sum(f, s \ {First(s)}) \in Int
    BY <1>2, <2>1
  <2> QED
    BY <1>2, <1>4, <1>6, <2>1, <2>2
<1> QED
  BY <1>5, <1>6

\* It does not matter which element is taken first.
LEMMA SumRemove ==
  ASSUME NEW f, NEW S, IsFiniteSet(S), \A x \in S: f[x] \in Int, NEW x \in S
  PROVE  Sum(f, S) = f[x] + Sum(f, S \ {x})
<1> DEFINE B == {s \in SUBSET S: \E y \in s: Sum(f, s) # f[y] + Sum(f, s \ {y})}
<1> SUFFICES ASSUME B # {} PROVE FALSE
  OBVIOUS
<1>1. B \subseteq SUBSET S
  OBVIOUS
<1>2. PICK s \in B: \A t \in SUBSET s: t # s => t \notin B
  <2> HIDE DEF B
  <2> QED
    BY <1>1, Minimal
<1>3. PICK y \in s: Sum(f, s) # f[y] + Sum(f, s \ {y})
  BY <1>2
<1> DEFINE c == First(s)
<1>4. c \in s /\ IsFiniteSet(s)
  BY <1>3, FirstIn, FS_Subset
<1>5. Sum(f, s) = f[c] + Sum(f, s \ {c})
  BY <1>4, SumUnfold
<1>6. c # y
  BY <1>3, <1>5
<1> HIDE DEF c
<1> DEFINE u == (s \ {c}) \ {y}
<1>7. Sum(f, s \ {c}) = f[y] + Sum(f, u)
  <2>1. s \ {c} \notin B /\ s \ {c} \in SUBSET S /\ y \in s \ {c}
    BY <1>2, <1>3, <1>4, <1>6
  <2> QED
    BY <2>1
<1>8. Sum(f, s \ {y}) = f[c] + Sum(f, u)
  <2>1. s \ {y} \notin B /\ s \ {y} \in SUBSET S /\ c \in s \ {y}
    BY <1>2, <1>3, <1>4, <1>6
  <2>2. (s \ {y}) \ {c} = u
    OBVIOUS
  <2> HIDE DEF u
  <2> QED
    BY <2>1, <2>2
<1>9. f[c] \in Int /\ f[y] \in Int /\ Sum(f, u) \in Int
  <2>1. IsFiniteSet(u) /\ u \subseteq S
    BY FS_Subset
  <2> HIDE DEF u
  <2> QED
    BY <1>3, <1>4, <2>1, SumInt
<1> HIDE DEF u
<1> QED
  BY <1>3, <1>5, <1>7, <1>8, <1>9

\* Only the values on the set count.
LEMMA SumSame ==
  ASSUME NEW f, NEW g, NEW S, IsFiniteSet(S), \A x \in S: f[x] = g[x]
  PROVE  Sum(f, S) = Sum(g, S)
<1> DEFINE B == {s \in SUBSET S: Sum(f, s) # Sum(g, s)}
<1> SUFFICES ASSUME B # {} PROVE FALSE
  OBVIOUS
<1>1. B \subseteq SUBSET S
  OBVIOUS
<1>2. PICK s \in B: \A t \in SUBSET s: t # s => t \notin B
  <2> HIDE DEF B
  <2> QED
    BY <1>1, Minimal
<1>3. IsFiniteSet(s)
  BY FS_Subset
<1>4. /\ Sum(f, s) = IF s = {} THEN 0 ELSE f[First(s)] + Sum(f, s \ {First(s)})
      /\ Sum(g, s) = IF s = {} THEN 0 ELSE g[First(s)] + Sum(g, s \ {First(s)})
  BY <1>3, SumUnfold
<1>5. s # {}
  BY <1>2, <1>4
<1>6. First(s) \in s /\ f[First(s)] = g[First(s)]
  BY <1>2, <1>5, FirstIn
<1>7. Sum(f, s \ {First(s)}) = Sum(g, s \ {First(s)})
  BY <1>2, <1>6
<1> QED
  BY <1>2, <1>4, <1>6, <1>7

\* One value changes, and the sum with it.
LEMMA SumChange ==
  ASSUME NEW f, NEW g, NEW S, IsFiniteSet(S), NEW x \in S,
         \A y \in S: f[y] \in Int /\ g[y] \in Int,
         \A y \in S \ {x}: f[y] = g[y]
  PROVE  Sum(g, S) = Sum(f, S) - f[x] + g[x]
<1> DEFINE T == S \ {x}
<1>1. IsFiniteSet(T) /\ \A y \in T: f[y] \in Int /\ f[y] = g[y]
  BY FS_Subset
<1>2. Sum(f, S) = f[x] + Sum(f, T) /\ Sum(g, S) = g[x] + Sum(g, T)
  BY SumRemove
<1> HIDE DEF T
<1>3. Sum(f, T) = Sum(g, T) /\ Sum(f, T) \in Int
  BY <1>1, SumSame, SumInt
<1> QED
  BY <1>2, <1>3

\* The amounts of a finite set of entries are such a sum.
LEMMA AmountsSum ==
  ASSUME NEW S, IsFiniteSet(S)
  PROVE  Amounts(S) = Sum([e \in S |-> e.amount], S)
<1> DEFINE f == [e \in S |-> e.amount]
           By(g, s) == IF s = {} THEN 0 ELSE First(s).amount + g[s \ {First(s)}]
           Is(g) == g = [s \in SUBSET S |-> By(g, s)]
           h == CHOOSE g: Is(g)
<1>1. Amounts(S) = h[S]
  BY DEF Amounts, MapThenSumSet, MapThenFoldSet, First
<1>2. ASSUME NEW g PROVE IsSums(f, g, S) <=> Is(g)
  <2>1. ASSUME NEW s \in SUBSET S PROVE SumBy(f, g, s) = By(g, s)
    <3>1. s # {} => First(s) \in S
      BY FirstIn
    <3> QED
      BY <3>1 DEF SumBy
  <2>2. [s \in SUBSET S |-> SumBy(f, g, s)] = [s \in SUBSET S |-> By(g, s)]
    BY <2>1
  <2> QED
    BY <2>2 DEF IsSums
<1>3. IsSums(f, Sums(f, S), S)
  <2> HIDE DEF f
  <2> QED
    BY SumsExist
<1>4. Is(Sums(f, S))
  BY <1>2, <1>3
<1>5. Is(h)
  <2> HIDE DEF Is
  <2> QED
    BY <1>4
<1>6. IsSums(f, h, S)
  BY <1>2, <1>5
<1>7. h[S] = Sums(f, S)[S]
  <2> HIDE DEF h, f
  <2> QED
    BY <1>3, <1>6, SumsAgree
<1>8. Sum(f, S) = Sums(f, S)[S]
  BY SumOfSums
<1> QED
  BY <1>1, <1>7, <1>8

LEMMA AmountsInt ==
  ASSUME NEW S, IsFiniteSet(S), \A e \in S: e.amount \in Int
  PROVE  Amounts(S) \in Int
<1> DEFINE f == [e \in S |-> e.amount]
<1>1. \A e \in S: f[e] \in Int
  OBVIOUS
<1>2. Amounts(S) = Sum(f, S)
  BY AmountsSum
<1> HIDE DEF f
<1> QED
  BY <1>1, <1>2, SumInt

\* An entry more.
LEMMA AmountsAdd ==
  ASSUME NEW S, IsFiniteSet(S), \A e \in S: e.amount \in Int,
         NEW x, x \notin S, x.amount \in Int
  PROVE  Amounts(S \cup {x}) = Amounts(S) + x.amount
<1> DEFINE T == S \cup {x}
           f == [e \in S |-> e.amount]
           g == [e \in T |-> e.amount]
<1>1. /\ IsFiniteSet(T) /\ x \in T /\ T \ {x} = S
      /\ \A e \in T: g[e] \in Int
      /\ \A e \in S: f[e] = g[e]
      /\ g[x] = x.amount
  BY FS_AddElement
<1>2. Amounts(T) = Sum(g, T) /\ Amounts(S) = Sum(f, S)
  <2> HIDE DEF T
  <2> QED
    BY <1>1, AmountsSum
<1> HIDE DEF T, f, g
<1>3. Sum(g, T) = g[x] + Sum(g, S)
  BY <1>1, SumRemove
<1>4. Sum(f, S) = Sum(g, S)
  BY <1>1, SumSame
<1>5. Amounts(S) \in Int
  BY AmountsInt
<1> QED
  BY <1>1, <1>2, <1>3, <1>4, <1>5 DEF T

Credits(a) == {e \in entries: e.credit = a}
Debits(a) == {e \in entries: e.debit = a}

\* COMMIT moves the net of an account by what it moves its snapshot.
LEMMA SnapshotsStep ==
    ASSUME Inv, IsFiniteSet(entries), SnapshotsDerived, [Next]_vars
    PROVE  IsFiniteSet(entries)' /\ SnapshotsDerived'
<1>1. CASE entries' = entries /\ balance' = balance
  BY <1>1 DEF SnapshotsDerived, NetOfEntries
<1>2. ASSUME NEW t \in Txns, Commit(t)
      PROVE  IsFiniteSet(entries)' /\ SnapshotsDerived'
  <2> DEFINE p == call[t].posting
             n == EntryOf(t)
  <2>1. /\ entries' = entries \cup {n} /\ n \notin entries
        /\ n.debit = p.debit /\ n.credit = p.credit /\ n.amount = p.amount
        /\ p.amount \in Int /\ p.debit # p.credit
        /\ p.debit \in Accounts /\ p.credit \in Accounts
        /\ balance' = [balance EXCEPT ![p.debit] = @ - p.amount,
                                      ![p.credit] = @ + p.amount]
    BY <1>2, CommitPosts
  <2> HIDE DEF p, n
  <2>2. IsFiniteSet(entries)'
    BY <2>1, FS_AddElement
  <2>3. \A e \in entries: e.amount \in Int
    BY DEF Inv, TypeOK, Entry
  <2>4. ASSUME NEW a \in Accounts PROVE balance'[a] = NetOfEntries(a)'
    <3>1. /\ IsFiniteSet(Credits(a)) /\ IsFiniteSet(Debits(a))
          /\ \A e \in Credits(a) \cup Debits(a): e.amount \in Int
          /\ n \notin Credits(a) /\ n \notin Debits(a)
      BY <2>1, <2>3, FS_Subset DEF Credits, Debits
    <3>2. Credits(a)' = IF a = n.credit THEN Credits(a) \cup {n} ELSE Credits(a)
      BY <2>1 DEF Credits
    <3>3. Debits(a)' = IF a = n.debit THEN Debits(a) \cup {n} ELSE Debits(a)
      BY <2>1 DEF Debits
    <3>4. Amounts(Credits(a)) \in Int /\ Amounts(Debits(a)) \in Int
      BY <3>1, AmountsInt
    <3>5. Amounts(Credits(a)') = IF a = n.credit THEN Amounts(Credits(a)) + n.amount
                                 ELSE Amounts(Credits(a))
      BY <2>1, <3>1, <3>2, AmountsAdd
    <3>6. Amounts(Debits(a)') = IF a = n.debit THEN Amounts(Debits(a)) + n.amount
                                ELSE Amounts(Debits(a))
      BY <2>1, <3>1, <3>3, AmountsAdd
    <3>7. /\ NetOfEntries(a) = Amounts(Credits(a)) - Amounts(Debits(a))
          /\ NetOfEntries(a)' = Amounts(Credits(a)') - Amounts(Debits(a)')
      BY DEF NetOfEntries, Credits, Debits
    <3>8. balance[a] = NetOfEntries(a)
      BY DEF SnapshotsDerived
    <3>9. balance'[a] = IF a = n.debit THEN balance[a] - n.amount
                        ELSE IF a = n.credit THEN balance[a] + n.amount
                        ELSE balance[a]
      BY <2>1 DEF Inv, TypeOK
    <3> QED
      BY <2>1, <3>4, <3>5, <3>6, <3>7, <3>8, <3>9
  <2> QED
    BY <2>2, <2>4 DEF SnapshotsDerived
<1> QED
  BY <1>1, <1>2
     DEF Next, Step, Done, DeadlockAbort, Rollback, RejectAmount, Begin,
         ConnectTimeout, InsertEntry, DebitSnapshot, CreditSnapshot,
         WriteSnapshot, vars

\* "Balance views are DERIVED from entries": for any number of postings, on
\* any accounts and clients, every snapshot is at every instant the sum of the
\* committed credits less the sum of the committed debits of its account.
THEOREM SnapshotsAreDerived == Spec => []SnapshotsDerived
<1>1. Init => IsFiniteSet(entries) /\ SnapshotsDerived
  <2> SUFFICES ASSUME Init PROVE IsFiniteSet(entries) /\ SnapshotsDerived
    OBVIOUS
  <2>1. IsFiniteSet({}) /\ Amounts({}) = 0
    BY FS_EmptySet, AmountsSum, SumUnfold
  <2>2. \A a \in Accounts: Credits(a) = {} /\ Debits(a) = {} /\ balance[a] = 0
    BY DEF Init, Credits, Debits
  <2>3. \A a \in Accounts: NetOfEntries(a) = 0
    BY <2>1, <2>2 DEF NetOfEntries, Credits, Debits
  <2>4. entries = {}
    BY DEF Init
  <2> QED
    BY <2>1, <2>2, <2>3, <2>4 DEF SnapshotsDerived
<1>2. (IsFiniteSet(entries) /\ SnapshotsDerived) /\ Inv /\ [Next]_vars
        => (IsFiniteSet(entries) /\ SnapshotsDerived)'
  BY SnapshotsStep
<1> QED
  BY <1>1, <1>2, Invariance, PTL DEF Spec

\* The two sides of a posting cancel out over the accounts.
LEMMA BooksStep ==
    ASSUME Inv, IsFiniteSet(Accounts), Sum(balance, Accounts) = 0, [Next]_vars
    PROVE  Sum(balance', Accounts) = 0
<1>1. CASE balance' = balance
  BY <1>1
<1>2. ASSUME NEW t \in Txns, Commit(t)
      PROVE  Sum(balance', Accounts) = 0
  <2> DEFINE p == call[t].posting
             d == p.debit
             c == p.credit
  <2>1. /\ p.amount \in Int /\ d # c /\ d \in Accounts /\ c \in Accounts
        /\ balance' = [balance EXCEPT ![d] = @ - p.amount, ![c] = @ + p.amount]
    BY <1>2, CommitPosts
  <2>2. PICK amount \in Int: amount = p.amount
    BY <2>1
  <2> HIDE DEF p, d, c
  <2>3. PICK half: half = [balance EXCEPT ![d] = balance[d] - amount]
    OBVIOUS
  <2>4. balance \in [Accounts -> Int]
    BY DEF Inv, TypeOK
  <2>5. /\ \A a \in Accounts: balance[a] \in Int /\ half[a] \in Int /\ balance'[a] \in Int
        /\ \A a \in Accounts \ {d}: balance[a] = half[a]
        /\ \A a \in Accounts \ {c}: half[a] = balance'[a]
        /\ half[d] = balance[d] - amount
        /\ balance'[c] = half[c] + amount
    BY <2>1, <2>2, <2>3, <2>4
  <2>6. PICK new: new = balance'
    OBVIOUS
  <2>7. Sum(half, Accounts) = Sum(balance, Accounts) - balance[d] + half[d]
    BY <2>1, <2>5, SumChange
  <2>8. Sum(new, Accounts) = Sum(half, Accounts) - half[c] + new[c]
    <3>1. /\ c \in Accounts
          /\ \A a \in Accounts: half[a] \in Int /\ new[a] \in Int
          /\ \A a \in Accounts \ {c}: half[a] = new[a]
      BY <2>1, <2>5, <2>6
    <3> QED
      BY <3>1, SumChange
  <2>9. balance[d] \in Int /\ half[d] \in Int /\ half[c] \in Int
    BY <2>1, <2>5
  <2> QED
    BY <2>2, <2>5, <2>6, <2>7, <2>8, <2>9
<1> QED
  BY <1>1, <1>2
     DEF Next, Step, Done, DeadlockAbort, Rollback, RejectAmount, Begin,
         ConnectTimeout, InsertEntry, DebitSnapshot, CreditSnapshot,
         WriteSnapshot, vars

\* Double entry: the balances of all accounts sum to zero at every instant,
\* whatever postings are open; nothing is created and nothing is lost.
BooksBalance == Sum(balance, Accounts) = 0

THEOREM BooksAlwaysBalance ==
    ASSUME IsFiniteSet(Accounts)
    PROVE  Spec => []BooksBalance
<1>1. Init => BooksBalance
  <2> SUFFICES ASSUME Init PROVE Sum(balance, Accounts) = 0
    BY DEF BooksBalance
  <2> DEFINE B == {S \in SUBSET Accounts: Sum(balance, S) # 0}
  <2> SUFFICES ASSUME B # {} PROVE FALSE
    OBVIOUS
  <2>1. B \subseteq SUBSET Accounts
    OBVIOUS
  <2>2. PICK S \in B: \A T \in SUBSET S: T # S => T \notin B
    <3> HIDE DEF B
    <3> QED
      BY <2>1, Minimal
  <2>3. IsFiniteSet(S) /\ S \subseteq Accounts
    BY FS_Subset
  <2>4. Sum(balance, S) = IF S = {} THEN 0
                          ELSE balance[First(S)] + Sum(balance, S \ {First(S)})
    BY <2>3, SumUnfold
  <2>5. S # {}
    BY <2>2, <2>4
  <2>6. First(S) \in S /\ balance[First(S)] = 0
    BY <2>3, <2>5, FirstIn DEF Init
  <2>7. Sum(balance, S \ {First(S)}) = 0
    BY <2>2, <2>6
  <2> QED
    BY <2>2, <2>4, <2>5, <2>6, <2>7
<1>2. BooksBalance /\ Inv /\ [Next]_vars => BooksBalance'
  BY BooksStep DEF BooksBalance
<1> QED
  BY <1>1, <1>2, Invariance, PTL DEF Spec

----------------------------------------------------------------------------
(* Any number of clients: what the chain keeps when postings overlap.       *)

\* What the SELECT of a transaction that began at a given time has read: of
\* the entries on the account, the latest of those it could see. The others
\* were committed after the transaction had begun.
ReadVisible(E, prev, a, at) ==
    \/ /\ prev = GenesisHash
       /\ \A f \in E: Touches(f, a) => at <= f.committedAt
    \/ \E g \in E:
         /\ g.id = prev
         /\ \A f \in E: Touches(f, a) =>
              f.createdAt <= g.createdAt \/ at <= f.committedAt

\* An entry links to what its transaction read, and not to a transaction that
\* began after it was committed.
EntryVisible(e) ==
    /\ ReadVisible(entries \ {e}, e.prev, e.debit, e.createdAt)
    /\ \A g \in entries: g.id = e.prev => g.createdAt <= e.committedAt

ParallelInv ==
    /\ \A e \in entries: e.createdAt <= e.committedAt /\ e.committedAt <= now
    /\ \A t \in Txns: call[t].stage \in Linked =>
          ReadVisible(entries, call[t].prev, call[t].posting.debit, call[t].at)
    /\ \A e \in entries: EntryVisible(e)

\* A step that commits nothing and reads no hash.
LEMMA ParallelFrame ==
    ASSUME ParallelInv, Inv, entries' = entries, now' \in Nat, now <= now',
           \A t \in Txns: call'[t].stage \in Linked =>
             \/ /\ call[t].stage \in Linked
                /\ call'[t].prev = call[t].prev
                /\ call'[t].posting = call[t].posting
                /\ call'[t].at = call[t].at
             \/ ReadVisible(entries, call'[t].prev, call'[t].posting.debit, call'[t].at)
    PROVE  ParallelInv'
<1>1. \A e \in entries': e.createdAt <= e.committedAt /\ e.committedAt <= now'
  <2>1. \A e \in entries: e.committedAt \in Nat /\ now \in Nat
    BY DEF Inv, TypeOK, Entry
  <2> QED
    BY <2>1 DEF ParallelInv
<1>2. \A t \in Txns: call'[t].stage \in Linked =>
        ReadVisible(entries', call'[t].prev, call'[t].posting.debit, call'[t].at)
  BY DEF ParallelInv
<1>3. \A e \in entries': EntryVisible(e)'
  BY DEF ParallelInv, EntryVisible
<1> QED
  BY <1>1, <1>2, <1>3 DEF ParallelInv

\* The SELECT misses no entry that was committed before the transaction began.
LEMMA ParallelInsert ==
    ASSUME ParallelInv, Inv, NEW t \in Txns, InsertEntry(t)
    PROVE  ParallelInv'
<1> DEFINE a == call[t].posting.debit
<1>1. /\ a \in Accounts /\ now \in Nat /\ entries' = entries /\ now' = now
      /\ call[t] \in Calls
  BY PostingProperty DEF Inv, TypeOK, Calls, InsertEntry
<1>2. /\ call'[t].prev = LatestHash(a)
      /\ call'[t].posting = call[t].posting
      /\ \A u \in Txns: u # t => call'[u] = call[u]
  BY DEF Inv, TypeOK, Calls, InsertEntry
<1>3. ReadVisible(entries, LatestHash(a), a, call'[t].at)
  <2>1. CASE Touching(a) = {} /\ LatestHash(a) = GenesisHash
    BY <2>1 DEF ReadVisible, Touching, Touches
  <2>2. ASSUME NEW g \in Touching(a), LatestHash(a) = g.id,
               \A f \in Touching(a): f.createdAt <= g.createdAt
        PROVE  ReadVisible(entries, LatestHash(a), a, call'[t].at)
    BY <2>2 DEF ReadVisible, Touching, Touches
  <2> QED
    BY <1>1, <2>1, <2>2, LatestHashProperty DEF Inv
<1> HIDE DEF a
<1>4. ASSUME NEW u \in Txns, call'[u].stage \in Linked
      PROVE  \/ /\ call[u].stage \in Linked
                /\ call'[u].prev = call[u].prev
                /\ call'[u].posting = call[u].posting
                /\ call'[u].at = call[u].at
             \/ ReadVisible(entries, call'[u].prev, call'[u].posting.debit, call'[u].at)
  <2>1. CASE u = t
    BY <1>2, <1>3, <2>1 DEF a
  <2>2. CASE u # t
    BY <1>2, <1>4, <2>2
  <2> QED
    BY <2>1, <2>2
<1> QED
  BY <1>1, <1>4, ParallelFrame

\* COMMIT stamps the entry with an instant after the beginning of every open
\* transaction: no one has to have seen it.
LEMMA ParallelCommit ==
    ASSUME ParallelInv, Inv, NEW t \in Txns, Commit(t)
    PROVE  ParallelInv'
<1>0. PICK n: n = EntryOf(t)
  OBVIOUS
<1>1. /\ TypeOK /\ entries' = entries \cup {n} /\ now' = now /\ now \in Nat
      /\ call[t].stage \in Linked /\ call[t].stage \in InTransaction
      /\ call[t] \in Calls /\ call[t].stage = "credited"
  BY <1>0 DEF Inv, Commit, InTransaction, Linked, TypeOK
<1>2. PICK outcome \in {"posted", "failed"}:
        call' = [call EXCEPT ![t].stage = outcome]
  BY DEF Commit
<1>3. /\ n.id = t /\ n.prev = call[t].prev /\ n.debit = call[t].posting.debit
      /\ n.createdAt = call[t].at /\ n.committedAt = now /\ n.createdAt \in Nat
      /\ n.createdAt <= now
  BY <1>0, <1>1 DEF EntryOf, Calls, Inv, CallInv
<1>4. \A e \in entries: /\ e.id # t /\ e.id \in Txns /\ e # n
                        /\ e.createdAt \in Nat /\ e.createdAt <= now
  BY <1>1, <1>3 DEF TypeOK, Entry, Inv, EntryInv
<1>5. t # GenesisHash
  BY NamesAssumption
<1>6. ASSUME NEW E \in SUBSET entries, NEW prev, NEW b, NEW at \in Nat,
             ReadVisible(E, prev, b, at), at <= now
      PROVE  ReadVisible(E \cup {n}, prev, b, at)
  BY <1>3, <1>6 DEF ReadVisible
<1>7. \A e \in entries': e.createdAt <= e.committedAt /\ e.committedAt <= now'
  BY <1>1, <1>3 DEF ParallelInv
<1>8. ASSUME NEW u \in Txns, call'[u].stage \in Linked
      PROVE  ReadVisible(entries', call'[u].prev, call'[u].posting.debit, call'[u].at)
  <2>1. /\ call[u].stage \in Linked /\ call[u].stage \in InTransaction
        /\ call'[u].prev = call[u].prev
        /\ call'[u].posting = call[u].posting
        /\ call'[u].at = call[u].at /\ call[u].at \in Nat
    BY <1>1, <1>2, <1>8 DEF TypeOK, Calls, Linked, InTransaction
  <2>2. call[u].at <= now
    BY <2>1 DEF Inv, CallInv
  <2> QED
    BY <1>1, <1>6, <2>1, <2>2 DEF ParallelInv
<1>9. EntryVisible(n)'
  <2>1. entries' \ {n} = entries
    BY <1>1, <1>4
  <2>2. ReadVisible(entries' \ {n}, n.prev, n.debit, n.createdAt)
    BY <1>1, <1>3, <2>1 DEF ParallelInv
  <2>3. \A g \in entries': g.createdAt <= n.committedAt
    BY <1>1, <1>3, <1>4
  <2> QED
    BY <2>2, <2>3 DEF EntryVisible
<1>10. ASSUME NEW e \in entries PROVE EntryVisible(e)'
  <2>1. EntryVisible(e)
    BY DEF ParallelInv
  <2>2. entries' \ {e} = (entries \ {e}) \cup {n}
    BY <1>1, <1>4
  <2>3. ReadVisible(entries' \ {e}, e.prev, e.debit, e.createdAt)
    BY <1>4, <1>6, <2>1, <2>2 DEF EntryVisible
  <2>4. e.prev # t
    <3>1. \/ e.prev = GenesisHash
          \/ \E f \in entries: f.id = e.prev
      BY DEF Inv, LinksCommitted
    <3> QED
      BY <1>4, <1>5, <3>1
  <2>5. \A g \in entries': g.id = e.prev => g.createdAt <= e.committedAt
    BY <1>1, <1>3, <2>1, <2>4 DEF EntryVisible
  <2> QED
    BY <2>3, <2>5 DEF EntryVisible
<1> QED
  BY <1>1, <1>7, <1>8, <1>9, <1>10 DEF ParallelInv

LEMMA ParallelNext ==
    ASSUME ParallelInv, Inv, [Next]_vars
    PROVE  ParallelInv'
<1>1. TypeOK /\ now \in Nat /\ now <= now
  BY DEF Inv, TypeOK
<1>2. ASSUME NEW t \in Txns, InsertEntry(t) PROVE ParallelInv'
  BY <1>2, ParallelInsert
<1>3. ASSUME NEW t \in Txns, Commit(t) PROVE ParallelInv'
  BY <1>3, ParallelCommit
<1>4. ASSUME NEW t \in Txns, NEW s \in Stages,
             call' = [call EXCEPT ![t].stage = s],
             s \in Linked => call[t].stage \in Linked,
             entries' = entries, now' = now
      PROVE  ParallelInv'
  <2>1. \A u \in Txns: /\ call'[u].posting = call[u].posting
                       /\ call'[u].prev = call[u].prev
                       /\ call'[u].at = call[u].at
                       /\ call'[u].stage \in Linked => call[u].stage \in Linked
    BY <1>1, <1>4 DEF TypeOK, Calls
  <2> QED
    BY <1>1, <1>4, <2>1, ParallelFrame
<1>5. ASSUME NEW t \in Txns, Begin(t) PROVE ParallelInv'
  <2>1. \A u \in Txns: call'[u].stage \in Linked => call'[u] = call[u]
    BY <1>1, <1>5 DEF Begin, TypeOK, Calls, Linked
  <2>2. entries' = entries /\ now' \in Nat /\ now <= now'
    BY <1>1, <1>5 DEF Begin
  <2> QED
    BY <2>1, <2>2, ParallelFrame
<1>6. ASSUME NEW t \in Txns, RejectAmount(t) PROVE ParallelInv'
  BY <1>4, <1>6 DEF RejectAmount, Stages, Linked
<1>7. ASSUME NEW t \in Txns, DebitSnapshot(t) PROVE ParallelInv'
  BY <1>4, <1>7 DEF DebitSnapshot, WriteSnapshot, Stages, Linked
<1>8. ASSUME NEW t \in Txns, CreditSnapshot(t) PROVE ParallelInv'
  BY <1>4, <1>8 DEF CreditSnapshot, WriteSnapshot, Stages, Linked
<1>9. ASSUME NEW t \in Txns, ConnectTimeout(t) PROVE ParallelInv'
  BY <1>4, <1>9 DEF ConnectTimeout, Stages, Linked
<1>10. ASSUME NEW t \in Txns, Rollback(t) PROVE ParallelInv'
  BY <1>4, <1>10 DEF Rollback, Stages, Linked
<1>11. CASE UNCHANGED vars
  BY <1>1, <1>11, ParallelFrame DEF vars
<1> QED
  BY <1>2, <1>3, <1>5, <1>6, <1>7, <1>8, <1>9, <1>10, <1>11
     DEF Next, Step, DeadlockAbort, Done

\* What an entry whose posting was alone on its account has read is the latest.
LEMMA VisibleQuiet ==
    ASSUME ParallelInv, Inv
    PROVE  QuietLinked
<1>1. \A e \in entries: /\ e.createdAt \in Nat /\ e.committedAt \in Nat
                        /\ e.id \in Txns
                        /\ e.createdAt <= e.committedAt
  BY DEF Inv, TypeOK, Entry, ParallelInv
<1> SUFFICES
      ASSUME NEW e \in entries,
             \A f \in {f \in entries \ {e}: Touches(f, e.debit)}: ~Overlap(e, f)
      PROVE  LET others == {f \in entries \ {e}: Touches(f, e.debit)}
                 before == {f \in others: f.createdAt < e.createdAt}
             IN  IF before = {}
                 THEN e.prev = GenesisHash
                 ELSE \E g \in before:
                        /\ e.prev = g.id
                        /\ \A f \in before: f.createdAt <= g.createdAt
  BY DEF QuietLinked
<1> DEFINE others == {f \in entries \ {e}: Touches(f, e.debit)}
           before == {f \in others: f.createdAt < e.createdAt}
<1>2. EntryVisible(e)
  BY DEF ParallelInv
<1>3. \A f \in others: f.committedAt < e.createdAt \/ e.committedAt < f.createdAt
  BY <1>1 DEF Overlap
<1>4. \A f \in before: f.committedAt < e.createdAt
  BY <1>1, <1>3
<1>5. CASE /\ e.prev = GenesisHash
           /\ \A f \in entries \ {e}: Touches(f, e.debit) => e.createdAt <= f.committedAt
  <2>1. before = {}
    BY <1>1, <1>4, <1>5
  <2> QED
    BY <1>5, <2>1
<1>6. ASSUME NEW g \in entries \ {e}, g.id = e.prev,
             \A f \in entries \ {e}: Touches(f, e.debit) =>
                f.createdAt <= g.createdAt \/ e.createdAt <= f.committedAt
      PROVE  /\ before # {}
             /\ \E h \in before: /\ e.prev = h.id
                                 /\ \A f \in before: f.createdAt <= h.createdAt
  <2>1. Touches(g, e.debit)
    <3>1. \/ e.prev = GenesisHash
          \/ \E f \in entries: f.id = e.prev /\ Touches(f, e.debit)
      BY DEF Inv, LinksCommitted, Touches
    <3>2. g.id # GenesisHash
      BY <1>1, NamesAssumption
    <3> QED
      BY <1>6, <3>1, <3>2 DEF Inv, EntryInv
  <2>2. g.createdAt <= e.committedAt
    BY <1>2, <1>6 DEF EntryVisible
  <2>3. g \in before
    BY <1>1, <1>3, <2>1, <2>2
  <2>4. \A f \in before: f.createdAt <= g.createdAt
    BY <1>1, <1>4, <1>6
  <2> QED
    BY <1>6, <2>3, <2>4
<1> HIDE DEF before
<1>7. \/ before = {} /\ e.prev = GenesisHash
      \/ /\ before # {}
         /\ \E h \in before: /\ e.prev = h.id
                             /\ \A f \in before: f.createdAt <= h.createdAt
  <2>1. CASE /\ e.prev = GenesisHash
             /\ \A f \in entries \ {e}: Touches(f, e.debit) => e.createdAt <= f.committedAt
    BY <1>1, <1>4, <2>1 DEF before
  <2>2. CASE ~ /\ e.prev = GenesisHash
               /\ \A f \in entries \ {e}: Touches(f, e.debit) =>
                    e.createdAt <= f.committedAt
    BY <1>2, <1>6, <2>2 DEF EntryVisible, ReadVisible
  <2> QED
    BY <2>1, <2>2
<1> QED
  BY <1>7 DEF before

\* Two entries that read the same predecessor both missed each other.
LEMMA VisibleForks ==
    ASSUME ParallelInv, Inv
    PROVE  ForksOverlap
<1>1. \A e \in entries: /\ e.createdAt \in Nat /\ e.committedAt \in Nat
                        /\ e.id \in Txns
                        /\ e.createdAt <= e.committedAt
  BY DEF Inv, TypeOK, Entry, ParallelInv
<1> SUFFICES ASSUME NEW e \in entries, NEW f \in entries,
                    e # f, e.debit = f.debit, e.prev = f.prev
             PROVE  \/ Overlap(e, f)
                    \/ \E g \in entries: g.id = e.prev /\ (Overlap(e, g) \/ Overlap(f, g))
  BY DEF ForksOverlap
<1>2. EntryVisible(e) /\ EntryVisible(f) /\ Touches(e, f.debit) /\ Touches(f, e.debit)
  BY DEF ParallelInv, Touches
<1>3. CASE e.prev = GenesisHash
  <2>1. \A g \in entries: g.id # GenesisHash
    BY <1>1, NamesAssumption
  <2>2. e.createdAt <= f.committedAt /\ f.createdAt <= e.committedAt
    BY <1>2, <1>3, <2>1 DEF EntryVisible, ReadVisible
  <2> QED
    BY <2>2 DEF Overlap
<1>4. CASE e.prev # GenesisHash
  <2>1. PICK g \in entries \ {e}:
          /\ g.id = e.prev
          /\ f.createdAt <= g.createdAt \/ e.createdAt <= f.committedAt
    BY <1>2, <1>4 DEF EntryVisible, ReadVisible
  <2>2. PICK h \in entries \ {f}:
          /\ h.id = f.prev
          /\ e.createdAt <= h.createdAt \/ f.createdAt <= e.committedAt
    BY <1>2, <1>4 DEF EntryVisible, ReadVisible
  <2>3. g = h
    BY <2>1, <2>2 DEF Inv, EntryInv
  <2>4. g.createdAt <= e.committedAt /\ g.createdAt <= f.committedAt
    BY <1>2, <2>1 DEF EntryVisible
  <2>5. CASE f.createdAt <= g.createdAt
    BY <1>1, <2>1, <2>4, <2>5 DEF Overlap
  <2>6. CASE e.createdAt <= g.createdAt
    BY <1>1, <2>1, <2>4, <2>6 DEF Overlap
  <2>7. CASE e.createdAt <= f.committedAt /\ f.createdAt <= e.committedAt
    BY <2>7 DEF Overlap
  <2> QED
    BY <2>1, <2>2, <2>3, <2>5, <2>6, <2>7
<1> QED
  BY <1>3, <1>4


LEMMA ParallelInvariance == Spec => [](Inv /\ ParallelInv)
<1>1. Init => ParallelInv
  BY DEF Init, ParallelInv, Linked
<1>2. ParallelInv /\ Inv /\ [Next]_vars => ParallelInv'
  BY ParallelNext
<1> QED
  BY <1>1, <1>2, Invariance, PTL DEF Spec

\* With postings in parallel, the chain is still right wherever an account is
\* quiet: an entry that overlapped no other links to the latest before it.
THEOREM QuietChain == Spec => []QuietLinked
<1>1. Inv /\ ParallelInv => QuietLinked
  BY VisibleQuiet
<1> QED
  BY <1>1, ParallelInvariance, PTL

\* Overlapping postings are the only source of a fork, with any number of
\* clients.
THEOREM ForksAreOverlaps == Spec => []ForksOverlap
<1>1. Inv /\ ParallelInv => ForksOverlap
  BY VisibleForks
<1> QED
  BY <1>1, ParallelInvariance, PTL

----------------------------------------------------------------------------
(* Nobody waits for ever: the step that the fairness of Spec takes is there. *)

\* A row is locked by a transaction that has written it.
LockInv ==
    \A a \in Accounts: rowLock[a] # NoTxn =>
        LET t == rowLock[a]
        IN  \/ call[t].stage = "debited" /\ a = call[t].posting.debit
            \/ call[t].stage = "credited"

\* The guard of Step(t).
CanStep(t) ==
    \/ call[t].stage = "idle" /\ (call[t].posting.amount <= 0 \/ ~PoolFull)
    \/ call[t].stage \in {"begun", "credited"}
    \/ call[t].stage = "inserted" /\ rowLock[call[t].posting.debit] = NoTxn
    \/ call[t].stage = "debited" /\ rowLock[call[t].posting.credit] = NoTxn

\* The guard of DeadlockAbort(t): t is one of the transactions PostgreSQL's
\* detector may abort.
InWaitCycle(t) ==
    \E S \in SUBSET Txns: t \in S /\ \A x \in S: \E y \in S: WaitsFor(x, y)

NeverStuck ==
    (\E t \in Txns: call[t].stage \notin Finished) =>
        \E t \in Txns: CanStep(t) \/ InWaitCycle(t)

\* A step that changes no lock, and no call that holds one.
LEMMA LockFrame ==
    ASSUME LockInv, TypeOK, rowLock' = rowLock,
           \A u \in Txns: call[u].stage \in {"debited", "credited"} =>
             call'[u].stage = call[u].stage /\ call'[u].posting = call[u].posting
    PROVE  LockInv'
<1> SUFFICES ASSUME NEW a \in Accounts, rowLock'[a] # NoTxn
             PROVE  \/ /\ call'[rowLock'[a]].stage = "debited"
                       /\ a = call'[rowLock'[a]].posting.debit
                    \/ call'[rowLock'[a]].stage = "credited"
  BY DEF LockInv
<1>1. rowLock[a] \in Txns /\ rowLock'[a] = rowLock[a]
  BY DEF TypeOK
<1>2. \/ call[rowLock[a]].stage = "debited" /\ a = call[rowLock[a]].posting.debit
      \/ call[rowLock[a]].stage = "credited"
  BY <1>1 DEF LockInv
<1> QED
  BY <1>1, <1>2

\* A transaction that ends leaves no lock.
LEMMA LockReleased ==
    ASSUME LockInv, TypeOK, NEW t \in Txns, NEW s,
           rowLock' = Unlocked(t), call' = [call EXCEPT ![t].stage = s]
    PROVE  LockInv'
<1> SUFFICES ASSUME NEW a \in Accounts, rowLock'[a] # NoTxn
             PROVE  \/ /\ call'[rowLock'[a]].stage = "debited"
                       /\ a = call'[rowLock'[a]].posting.debit
                    \/ call'[rowLock'[a]].stage = "credited"
  BY DEF LockInv
<1>1. rowLock[a] \in Txns \ {t} /\ rowLock'[a] = rowLock[a]
  BY DEF TypeOK, Unlocked
<1>2. call'[rowLock[a]] = call[rowLock[a]]
  BY <1>1 DEF TypeOK
<1> QED
  BY <1>1, <1>2 DEF LockInv

LEMMA LockStep ==
    ASSUME LockInv, Inv, [Next]_vars
    PROVE  LockInv'
<1>1. TypeOK /\ \A t \in Txns: call[t] \in Calls
  BY DEF Inv, TypeOK
<1>2. ASSUME NEW t \in Txns, NEW s \in Stages,
             call[t].stage \notin {"debited", "credited"},
             call' = [call EXCEPT ![t].stage = s], rowLock' = rowLock
      PROVE  LockInv'
  BY <1>1, <1>2, LockFrame DEF TypeOK
<1>3. ASSUME NEW t \in Txns, Begin(t) PROVE LockInv'
  BY <1>1, <1>3, LockFrame DEF Begin, TypeOK
<1>4. ASSUME NEW t \in Txns, InsertEntry(t) PROVE LockInv'
  BY <1>1, <1>4, LockFrame DEF InsertEntry, TypeOK
<1>5. ASSUME NEW t \in Txns, DebitSnapshot(t) PROVE LockInv'
  <2> DEFINE d == call[t].posting.debit
  <2>1. /\ call[t].stage = "inserted" /\ d \in Accounts
        /\ rowLock' = [rowLock EXCEPT ![d] = t]
        /\ call' = [call EXCEPT ![t].stage = "debited"]
    BY <1>1, <1>5, PostingProperty DEF DebitSnapshot, WriteSnapshot, Calls
  <2>2. call'[t].stage = "debited" /\ call'[t].posting.debit = d
    BY <1>1, <2>1 DEF TypeOK, Calls
  <2>3. \A a \in Accounts: rowLock'[a] = IF a = d THEN t ELSE rowLock[a]
    BY <1>1, <2>1 DEF TypeOK
  <2>4. \A a \in Accounts: rowLock[a] # t
    <3>1. t # NoTxn
      BY NamesAssumption
    <3> QED
      BY <2>1, <3>1 DEF LockInv
  <2>5. \A u \in Txns: u # t => call'[u] = call[u]
    BY <1>1, <2>1 DEF TypeOK
  <2>6. \A a \in Accounts: rowLock[a] # NoTxn => rowLock[a] \in Txns
    BY <1>1 DEF TypeOK
  <2> HIDE DEF d
  <2> QED
    BY <2>2, <2>3, <2>4, <2>5, <2>6 DEF LockInv
<1>6. ASSUME NEW t \in Txns, CreditSnapshot(t) PROVE LockInv'
  <2> DEFINE c == call[t].posting.credit
  <2>1. /\ call[t].stage = "debited" /\ c \in Accounts
        /\ rowLock' = [rowLock EXCEPT ![c] = t]
        /\ call' = [call EXCEPT ![t].stage = "credited"]
    BY <1>1, <1>6, PostingProperty DEF CreditSnapshot, WriteSnapshot, Calls
  <2>2. call'[t].stage = "credited"
    BY <1>1, <2>1 DEF TypeOK, Calls
  <2>3. \A a \in Accounts: rowLock'[a] = IF a = c THEN t ELSE rowLock[a]
    BY <1>1, <2>1 DEF TypeOK
  <2>4. \A u \in Txns: u # t => call'[u] = call[u]
    BY <1>1, <2>1 DEF TypeOK
  <2>5. \A a \in Accounts: rowLock[a] # NoTxn => rowLock[a] \in Txns
    BY <1>1 DEF TypeOK
  <2> HIDE DEF c
  <2> QED
    BY <2>2, <2>3, <2>4, <2>5 DEF LockInv
<1>7. ASSUME NEW t \in Txns, Commit(t) PROVE LockInv'
  BY <1>1, <1>7, LockReleased DEF Commit
<1>8. ASSUME NEW t \in Txns, Rollback(t) PROVE LockInv'
  BY <1>1, <1>8, LockReleased DEF Rollback
<1>9. ASSUME NEW t \in Txns, RejectAmount(t) PROVE LockInv'
  BY <1>2, <1>9 DEF RejectAmount, Stages
<1>10. ASSUME NEW t \in Txns, ConnectTimeout(t) PROVE LockInv'
  BY <1>2, <1>10 DEF ConnectTimeout, Stages
<1>11. CASE UNCHANGED vars
  BY <1>11 DEF vars, LockInv
<1> QED
  BY <1>3, <1>4, <1>5, <1>6, <1>7, <1>8, <1>9, <1>10, <1>11
     DEF Next, Step, DeadlockAbort, Done

\* When no call can take its next step, the calls that wait for their credit
\* row wait for each other: they are a wait cycle, and there is one.
LEMMA StuckIsCycle ==
    ASSUME Inv, LockInv
    PROVE  NeverStuck
<1> SUFFICES ASSUME NEW t \in Txns, call[t].stage \notin Finished,
                    \A u \in Txns: ~CanStep(u)
             PROVE  \E u \in Txns: InWaitCycle(u)
  BY DEF NeverStuck
<1>1. \A u \in Txns: /\ call[u].stage \in Stages
                      /\ call[u].posting.debit \in Accounts
                      /\ call[u].posting.credit \in Accounts
  BY PostingProperty DEF Inv, TypeOK, Calls
<1> DEFINE S == {u \in Txns: call[u].stage = "debited"}
<1>2. ASSUME NEW a \in Accounts, rowLock[a] # NoTxn
      PROVE  rowLock[a] \in S
  <2>1. rowLock[a] \in Txns
    BY <1>2 DEF Inv, TypeOK
  <2>2. call[rowLock[a]].stage # "credited"
    BY <2>1 DEF CanStep
  <2> QED
    BY <1>2, <2>1, <2>2 DEF LockInv
<1>3. \A x \in S: \E y \in S: WaitsFor(x, y)
  <2> SUFFICES ASSUME NEW x \in S PROVE \E y \in S: WaitsFor(x, y)
    OBVIOUS
  <2>1. rowLock[call[x].posting.credit] # NoTxn
    BY DEF CanStep
  <2>2. rowLock[call[x].posting.credit] \in S
    BY <1>1, <1>2, <2>1
  <2> QED
    BY <2>2 DEF WaitsFor
<1>4. \E u \in Txns: call[u].stage \in {"inserted", "debited"}
  <2>1. CASE call[t].stage = "idle"
    <3>1. PoolFull
      BY <2>1 DEF CanStep
    <3>2. Open # {}
      <4>1. Cardinality({}) = 0
        BY FS_EmptySet
      <4> QED
        BY <3>1, <4>1, PoolAssumption DEF PoolFull
    <3>3. PICK u \in Txns: call[u].stage \in InTransaction
      BY <3>2 DEF Open
    <3> QED
      BY <3>3 DEF InTransaction, CanStep
  <2>2. CASE call[t].stage # "idle"
    BY <1>1, <2>2 DEF Stages, Finished, CanStep
  <2> QED
    BY <2>1, <2>2
<1>5. S # {}
  <2>1. PICK u \in Txns: call[u].stage \in {"inserted", "debited"}
    BY <1>4
  <2>2. CASE call[u].stage = "inserted"
    BY <1>1, <1>2, <2>2 DEF CanStep
  <2>3. CASE call[u].stage = "debited"
    BY <2>3
  <2> QED
    BY <2>1, <2>2, <2>3
<1>6. S \in SUBSET Txns
  OBVIOUS
<1> QED
  BY <1>3, <1>5, <1>6 DEF InWaitCycle

\* Postings cannot block each other for ever, whichever rows they share and
\* however few clients the pool has: while a call has not ended, one call can
\* take its next step or PostgreSQL's detector finds a wait cycle to break.
\* (PostingEnds, which needs the fairness too, is for TLC.)
THEOREM SomeoneCanGoOn == Spec => []NeverStuck
<1>1. Init => LockInv
  BY DEF Init, LockInv
<1>2. LockInv /\ Inv /\ [Next]_vars => LockInv'
  BY LockStep
<1>3. Inv /\ LockInv => NeverStuck
  BY StuckIsCycle
<1> QED
  BY <1>1, <1>2, <1>3, Invariance, PTL DEF Spec
=============================================================================
