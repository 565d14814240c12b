--------------------------- MODULE LedgerFigures ---------------------------
(***************************************************************************)
(* BankAccount.current_balance: what the ledger of one account says the    *)
(* balance is.  Rows that come with a statement carry the bank's running   *)
(* balance; rows entered by hand or pushed by the bank do not.  The newest *)
(* stated balance is the anchor, and the movements after it are added.     *)
(*                                                                         *)
(* The bank's own record, Movements, is the reference: the account opened  *)
(* empty, and the balance after a movement is the sum up to it.  A         *)
(* statement lists a stretch of it, oldest or newest first, and rows keep  *)
(* the order in which they were created: the position in ledger is         *)
(* created_at.                                                             *)
(***************************************************************************)
EXTENDS Integers, Sequences, FiniteSets, SequencesExt

CONSTANTS
  Days,        \* the day of each movement of the bank, in the bank's order
  Signed,      \* its amount, outflows negative
  MaxRows      \* bound on the rows of the account

Movements == DOMAIN Days

ASSUME MovementsAssumption ==
  /\ Days \in Seq(Nat) /\ Signed \in Seq(Int) /\ Len(Signed) = Len(Days)
  /\ \A i, j \in Movements : i < j => Days[i] <= Days[j]
  /\ MaxRows \in Nat

VARIABLE
  ledger       \* the rows of transactions, as they were created

LedgerRow == [movement : Movements, stated : BOOLEAN]

\* The balance the bank's statements print after a movement.
Running(k) == FoldLeft(+, 0, SubSeq(Signed, 1, k))

DayOf(row) == Days[row.movement]

\* Transaction.is_duplicate, with movements of one day told apart by their
\* merchant or amount.
Known(k) == \E row \in ToSet(ledger) : row.movement = k

LedgerInit == ledger = <<>>

\* POST /statements/{id}/transactions: the rows that are not duplicates are
\* created in the order in which they were submitted, balances and all.
ApproveStatement(first, last, newestFirst) ==
  LET fresh == {k \in first..last : ~Known(k)}
  IN  \E listed \in [1..Cardinality(fresh) -> fresh] :
        /\ \A i, j \in DOMAIN listed :
             i < j => IF newestFirst THEN listed[i] > listed[j] ELSE listed[i] < listed[j]
        /\ fresh # {} /\ Len(ledger) + Len(listed) <= MaxRows
        /\ ledger' = ledger \o [i \in DOMAIN listed |-> [movement |-> listed[i], stated |-> TRUE]]

\* POST /transactions, or a push of the bank: no balance.
RecordMovement(k) ==
  /\ ~Known(k) /\ Len(ledger) < MaxRows
  /\ ledger' = Append(ledger, [movement |-> k, stated |-> FALSE])

\* DELETE /transactions/{id}
DeleteRow(n) == ledger' = RemoveAt(ledger, n)

LedgerFiguresNext ==
  \/ \E first, last \in Movements, newestFirst \in BOOLEAN :
       first <= last /\ ApproveStatement(first, last, newestFirst)
  \/ \E k \in Movements : RecordMovement(k)
  \/ \E n \in DOMAIN ledger : DeleteRow(n)

LedgerFiguresSpec == LedgerInit /\ [][LedgerFiguresNext]_ledger

(***************************************************************************)
(* current_balance                                                         *)
(***************************************************************************)

\* Row n is younger than row m: order_by("transaction_date", "created_at").
Newer(n, m) ==
  \/ DayOf(ledger[n]) > DayOf(ledger[m])
  \/ DayOf(ledger[n]) = DayOf(ledger[m]) /\ n > m

\* Mutant: the row created last is the anchor.
AnchorLastCreated(stated) == CHOOSE n \in stated : \A m \in stated : m <= n

Anchor(stated) == CHOOSE n \in stated : \A m \in stated \ {n} : Newer(n, m)

CurrentBalance ==
  LET stated == {n \in DOMAIN ledger : ledger[n].stated}
      anchor == Anchor(stated)
      movements == IF stated = {} THEN DOMAIN ledger
                                  ELSE {n \in DOMAIN ledger : Newer(n, anchor)}
      balance == IF stated = {} THEN 0 ELSE Running(ledger[anchor].movement)
  IN  FoldLeftDomain(LAMBDA sum, n : IF n \in movements THEN sum + Signed[ledger[n].movement]
                                                        ELSE sum,
                     balance, ledger)

(***************************************************************************)
(* Properties                                                              *)
(***************************************************************************)

LedgerFiguresTypeOK == ledger \in Seq(LedgerRow) /\ Len(ledger) <= MaxRows

\* The rows of every day were created in the order of the bank.
DaysInOrder ==
  \A n, m \in DOMAIN ledger :
    n < m /\ DayOf(ledger[n]) = DayOf(ledger[m]) => ledger[n].movement < ledger[m].movement

\* The movements that have a row, the last of them, and the last one whose
\* balance a row states (the opening of the account, if none does).
Recorded == {ledger[n].movement : n \in DOMAIN ledger}
LastOf(ks) == CHOOSE k \in ks : \A j \in ks : j <= k
LastStated == LastOf({ledger[n].movement : n \in {m \in DOMAIN ledger : ledger[m].stated}} \cup {0})
NothingMissing == \A k \in Movements : LastStated < k /\ k <= LastOf(Recorded) => k \in Recorded

\* "Treat the newest stated balance as an anchor, then apply every newer
\* movement so a NULL balance on the latest row cannot hide real
\* credits/debits": whatever statements were approved, in whatever order, with
\* overlaps and gaps before the newest stated balance, and whatever was entered,
\* pushed or deleted in between, the balance is the bank's after the last
\* movement recorded, unless a movement after that balance is missing or the
\* rows of a day were created out of the bank's order.
BalanceAsStated ==
  ledger # <<>> /\ DaysInOrder /\ NothingMissing =>
    CurrentBalance = Running(LastOf(Recorded))
=============================================================================
