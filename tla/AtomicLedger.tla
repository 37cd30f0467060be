----------------------------- MODULE AtomicLedger -----------------------------
(***************************************************************************)
(* What postEntry promises its callers: a call takes effect at one instant *)
(* between the call and its answer, the entry and both balances together,  *)
(* or never. An answer without error stands for an entry; an error does    *)
(* not tell whether there is one, but for a refused amount.                *)
(***************************************************************************)
EXTENDS Integers

CONSTANTS
    Accounts,   \* ledger sub-accounts
    Txns,       \* calls of postEntry
    Postings    \* their parameters: [debit, credit, amount]

VARIABLES
    asked,      \* per call: its parameters
    rows,       \* the entries: who posted them, accounts and amount
    balance,    \* per account
    answer      \* per call: "none" until its promise is settled

Init ==
    /\ asked \in [Txns -> Postings]
    /\ rows = {}
    /\ balance = [a \in Accounts |-> 0]
    /\ answer = [t \in Txns |-> "none"]

Row(t) == [id |-> t, debit |-> asked[t].debit, credit |-> asked[t].credit,
           amount |-> asked[t].amount]

\* The answer to a posting may be lost: the caller then gets an error.
Post(t) ==
    /\ answer[t] = "none"
    /\ asked[t].amount > 0
    /\ rows' = rows \cup {Row(t)}
    /\ balance' = [balance EXCEPT ![asked[t].debit] = @ - asked[t].amount,
                                  ![asked[t].credit] = @ + asked[t].amount]
    /\ \E outcome \in {"posted", "failed"}:
         answer' = [answer EXCEPT ![t] = outcome]
    /\ UNCHANGED asked

\* An amount that is not positive is refused; anything else may fail.
Refuse(t) ==
    /\ answer[t] = "none"
    /\ answer' = [answer EXCEPT ![t] =
                    IF asked[t].amount > 0 THEN "failed" ELSE "rejected"]
    /\ UNCHANGED <<asked, rows, balance>>

Next == \E t \in Txns: Post(t) \/ Refuse(t)

Spec == Init /\ [][Next]_<<asked, rows, balance, answer>>
=============================================================================
