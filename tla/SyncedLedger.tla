---------------------------- MODULE SyncedLedger ----------------------------
(***************************************************************************)
(* The ledger of one user and everybody who writes to it: the Celery task  *)
(* that ingests what a bank pushed (core/tasks/bank_sync.py), the approval *)
(* of a statement (core/views/statements.py), manual entry, edits and      *)
(* deletions (core/views/aggregations.py).                                 *)
(*                                                                         *)
(* Every writer first looks for a row of the same identity and inserts     *)
(* afterwards, so what it saw may no longer hold when it inserts.  Behind  *)
(* them all is the unique constraint of the transactions table, which does *)
(* not cover identities with a NULL in them.                               *)
(*                                                                         *)
(* A row's identity within its account (date, amount, merchant_raw,        *)
(* transaction_type) is a key.  Ingestion, entry and edits commit every    *)
(* statement by itself; an approval commits all its rows at once, and      *)
(* whoever inserts a key that an approval holds uncommitted waits for it.  *)
(***************************************************************************)
EXTENDS Naturals, Sequences, FiniteSets

CONSTANTS
  Accounts,     \* bank_accounts rows of the user
  Synced,       \* those with link_type "synced", which nobody can change
  Keys,         \* row identities
  NullKeys,     \* identities with merchant_raw or transaction_type NULL
  Batches,      \* sequences of keys that a bank pushes, or a statement contains
  Tasks,        \* ingest_synced_transactions tasks, each delivered at most once
  Approvals,    \* POST /statements/{id}/transactions requests
  Entries,      \* POST /transactions requests
  Edits,        \* PATCH /transactions/{id} requests
  WorkerSlots,  \* tasks the Celery worker runs at the same time
  MaxLost       \* bound on tasks killed with their worker

ASSUME LedgerAssumption ==
  /\ Synced \subseteq Accounts /\ NullKeys \subseteq Keys
  /\ Batches \subseteq Seq(Keys)
  /\ IsFiniteSet(Tasks) /\ WorkerSlots \in Nat \ {0} /\ MaxLost \in Nat
  /\ Tasks \cap (Approvals \cup Entries \cup Edits) = {}
  /\ Approvals \cap (Entries \cup Edits) = {} /\ Entries \cap Edits = {}

VARIABLES
  present,   \* the accounts that exist
  rows,      \* committed rows: how many of each account, key and source
  pc,        \* where each writer is
  account,   \* the account it writes to
  todo,      \* the keys it has still to look at
  batch,     \* a task's transactions argument
  pending,   \* an approval's inserted and uncommitted keys
  edited,    \* an edit's row: key and source as read, and whether it is still there
  told       \* tasks whose transaction_synced event has been published

vars == <<present, rows, pc, account, todo, batch, pending, edited, told>>
local == <<account, todo, batch, pending, edited>>
-----------------------------------------------------------------------------
None == "none"
NoRow == [key |-> None, source |-> None, there |-> FALSE]
Sources == {"statement", "manual", "synced"}
Rows == [key : Keys, source : Sources, there : BOOLEAN]
NoRows == [k \in Keys |-> [s \in Sources |-> 0]]
Manual == Accounts \ Synced
Writers == Tasks \cup Approvals \cup Entries \cup Edits
PCs == {"idle", "queued", "checking", "inserting", "done", "failed", "lost"}

TypeOK ==
  /\ present \subseteq Accounts /\ Synced \subseteq present
  /\ rows \in [Accounts -> [Keys -> [Sources -> Nat]]]
  /\ pc \in [Writers -> PCs]
  /\ account \in [Writers -> Accounts \cup {None}]
  /\ todo \in [Writers -> Seq(Keys)]
  /\ batch \in [Tasks -> Seq(Keys)]
  /\ pending \in [Approvals -> SUBSET Keys]
  /\ edited \in [Edits -> Rows \cup {NoRow}]
  /\ told \subseteq Tasks

Init ==
  /\ present = Accounts
  /\ rows = [a \in Accounts |-> NoRows]
  /\ pc = [w \in Writers |-> "idle"]
  /\ account = [w \in Writers |-> None]
  /\ todo = [w \in Writers |-> <<>>]
  /\ batch = [t \in Tasks |-> <<>>]
  /\ pending = [p \in Approvals |-> {}]
  /\ edited = [d \in Edits |-> NoRow]
  /\ told = {}

Count(a, k) == rows[a][k]["statement"] + rows[a][k]["manual"] + rows[a][k]["synced"]
Held(a, k) == Count(a, k) > 0

Goto(w, there) == pc' = [pc EXCEPT ![w] = there]
Key(w) == Head(todo[w])

\* Mutant: no unique constraint.
ViolatesNever(a, k) == FALSE

\* The key would be the second of its identity, and the constraint covers it.
Violates(a, k) == k \notin NullKeys /\ Held(a, k)

\* An approval other than w holds the key uncommitted: the unique index makes
\* whoever inserts it wait for that approval to end.
Blockers(w, a, k) ==
  {p \in Approvals \ {w} : account[p] = a /\ k \in pending[p] \ NullKeys}

Put(a, k, s) == rows' = [rows EXCEPT ![a][k][s] = @ + 1]

\* A request or task starts on an account with the keys it brings.
Start(w, a, keys, there) ==
  /\ pc[w] = "idle" /\ a \in present
  /\ Goto(w, there)
  /\ account' = [account EXCEPT ![w] = a]
  /\ todo' = [todo EXCEPT ![w] = keys]

\* A request ends, and with it all the state it had.
Finish(w, there) ==
  /\ Goto(w, there)
  /\ account' = [account EXCEPT ![w] = None]
  /\ todo' = [todo EXCEPT ![w] = <<>>]

Next1(w) == todo' = [todo EXCEPT ![w] = Tail(@)]
-----------------------------------------------------------------------------
(* ingest_synced_transactions()                                            *)

\* BankSyncWebhookView, or the backfill of apply_synced_accounts().
Deliver(t, a, b) ==
  /\ a \in Synced
  /\ Start(t, a, b, "queued")
  /\ batch' = [batch EXCEPT ![t] = b]
  /\ UNCHANGED <<present, rows, pending, edited, told>>

Fetch(t) ==
  /\ pc[t] = "queued"
  /\ Cardinality({u \in Tasks : pc[u] \in {"checking", "inserting"}}) < WorkerSlots
  /\ Goto(t, "checking")
  /\ UNCHANGED <<present, rows, local, told>>

\* Mutant: a comparison in which NULL equals nothing.
IngestCheckNullsDiffer(t) ==
  /\ pc[t] = "checking" /\ todo[t] # <<>>
  /\ IF Held(account[t], Key(t)) /\ Key(t) \notin NullKeys THEN Next1(t) /\ UNCHANGED pc
     ELSE Goto(t, "inserting") /\ UNCHANGED todo
  /\ UNCHANGED <<present, rows, account, batch, pending, edited, told>>

\* Mutant: a duplicate ends the loop.
IngestCheckBreaks(t) ==
  /\ pc[t] = "checking" /\ todo[t] # <<>>
  /\ IF Held(account[t], Key(t)) THEN todo' = [todo EXCEPT ![t] = <<>>] /\ UNCHANGED pc
     ELSE Goto(t, "inserting") /\ UNCHANGED todo
  /\ UNCHANGED <<present, rows, account, batch, pending, edited, told>>

\* Transaction.is_duplicate(): a row found is skipped.
IngestCheck(t) ==
  /\ pc[t] = "checking" /\ todo[t] # <<>>
  /\ IF Held(account[t], Key(t)) THEN Next1(t) /\ UNCHANGED pc
     ELSE Goto(t, "inserting") /\ UNCHANGED todo
  /\ UNCHANGED <<present, rows, account, batch, pending, edited, told>>

\* Transaction.objects.create(), one transaction each; an IntegrityError ends the
\* task with the rest of the batch untouched.
IngestInsert(t) ==
  /\ pc[t] = "inserting"
  /\ IF Violates(account[t], Key(t))
     THEN Goto(t, "failed") /\ UNCHANGED <<rows, todo>>
     ELSE Put(account[t], Key(t), "synced") /\ Next1(t) /\ Goto(t, "checking")
  /\ UNCHANGED <<present, account, batch, pending, edited, told>>

IngestPublish(t) ==
  /\ pc[t] = "checking" /\ todo[t] = <<>>
  /\ told' = told \cup {t}
  /\ Goto(t, "done")
  /\ UNCHANGED <<present, rows, local>>

\* The worker is killed: the message was acknowledged when it was taken.
Lost(t) ==
  /\ pc[t] \in {"checking", "inserting"}
  /\ Cardinality({u \in Tasks : pc[u] = "lost"}) < MaxLost
  /\ Goto(t, "lost")
  /\ UNCHANGED <<present, rows, local, told>>

-----------------------------------------------------------------------------
(* The approval of a statement: the atomic block of                        *)
(* StatementTransactionApprovalView.post()                                 *)

\* Mutant: without assert_account_mutable().
ApprovalStartAnyAccount(p, a, b) ==
  /\ Start(p, a, b, "checking")
  /\ UNCHANGED <<present, rows, batch, pending, edited, told>>

\* assert_account_mutable() has passed.
ApprovalStart(p, a, b) ==
  /\ a \in Manual
  /\ Start(p, a, b, "checking")
  /\ UNCHANGED <<present, rows, batch, pending, edited, told>>

\* The look for a duplicate sees what is committed and the block's own rows.
ApprovalCheck(p) ==
  /\ pc[p] = "checking" /\ todo[p] # <<>>
  /\ IF Held(account[p], Key(p)) \/ Key(p) \in pending[p]
     THEN Next1(p) /\ UNCHANGED pc
     ELSE Goto(p, "inserting") /\ UNCHANGED todo
  /\ UNCHANGED <<present, rows, account, batch, pending, edited, told>>

\* Mutant: the transaction is left open.
ApprovalEndsHolding(p, there) ==
  /\ Goto(p, there)
  /\ UNCHANGED <<present, account, todo, batch, pending, edited, told>>

ApprovalEnds(p, there) ==
  /\ Finish(p, there)
  /\ pending' = [pending EXCEPT ![p] = {}]
  /\ UNCHANGED <<present, batch, edited, told>>

\* An IntegrityError rolls the whole block back.
ApprovalInsert(p) ==
  /\ pc[p] = "inserting" /\ Blockers(p, account[p], Key(p)) = {}
  /\ UNCHANGED rows
  /\ IF Violates(account[p], Key(p)) THEN ApprovalEnds(p, "failed")
     ELSE /\ pending' = [pending EXCEPT ![p] = @ \cup {Key(p)}]
          /\ Next1(p) /\ Goto(p, "checking")
          /\ UNCHANGED <<present, account, batch, edited, told>>

\* All rows at once, if the account is still there (a deferred foreign key).
ApprovalCommit(p) ==
  LET a == account[p]
  IN
  /\ pc[p] = "checking" /\ todo[p] = <<>>
  /\ IF a \in present
     THEN /\ rows' = [rows EXCEPT ![a] = [k \in Keys |-> [s \in Sources |->
                        IF k \in pending[p] /\ s = "statement"
                        THEN rows[a][k][s] + 1 ELSE rows[a][k][s]]]]
          /\ ApprovalEnds(p, "done")
     ELSE ApprovalEnds(p, "failed") /\ UNCHANGED rows

\* Approvals that wait for each other: PostgreSQL makes one of them fail.
Waits(p, q) ==
  pc[p] = "inserting" /\ q \in Blockers(p, account[p], Key(p))

Deadlocked(p) ==
  \E Q \in SUBSET Approvals : p \in Q /\ \A q \in Q :
    (\E r \in Q : Waits(q, r)) /\ (\E r \in Q : Waits(r, q))

ApprovalVictim(p) == Deadlocked(p) /\ ApprovalEnds(p, "failed") /\ UNCHANGED rows

-----------------------------------------------------------------------------
(* Manual entry, edits and deletions, on accounts that are not synced      *)

\* TransactionListCreateView.post(): the look for a duplicate, which refuses ...
EntryCheck(e, a, k) ==
  /\ a \in Manual /\ ~Held(a, k)
  /\ Start(e, a, <<k>>, "inserting")
  /\ UNCHANGED <<present, rows, batch, pending, edited, told>>

\* ... and the insertion, refused when it violates the constraint or when the
\* account has gone.
EntryInsert(e) ==
  LET a == account[e]  k == Key(e)
  IN
  /\ pc[e] = "inserting" /\ Blockers(e, a, k) = {}
  /\ IF Violates(a, k) \/ a \notin present
     THEN Finish(e, "failed") /\ UNCHANGED rows
     ELSE Finish(e, "done") /\ Put(a, k, "manual")
  /\ UNCHANGED <<present, batch, pending, edited, told>>

\* The edits whose row is one of these, and has not been deleted since.
Readers(a, k, s) ==
  {d \in Edits : account[d] = a /\ edited[d] = [key |-> k, source |-> s, there |-> TRUE]}

\* TransactionDetailView.patch() reads a row and changes its identity, or leaves
\* it as it is (a category): one edit at a time of rows that look the same ...
EditRead(d, a, old, new, s) ==
  /\ a \in Manual /\ rows[a][old][s] > 0 /\ Readers(a, old, s) = {}
  /\ Start(d, a, <<new>>, "inserting")
  /\ edited' = [edited EXCEPT ![d] = [key |-> old, source |-> s, there |-> TRUE]]
  /\ UNCHANGED <<present, rows, batch, pending, told>>

\* Mutant: the row is taken to be there.
EditSaveBlindly(d) ==
  LET a == account[d]  new == Key(d)  old == edited[d].key  s == edited[d].source
      clash == Violates(a, new) /\ new # old
  IN
  /\ pc[d] = "inserting" /\ Blockers(d, a, new) = {}
  /\ IF clash \/ a \notin present
     THEN Finish(d, "failed") /\ UNCHANGED rows
     ELSE Finish(d, "done")
          /\ rows' = [[rows EXCEPT ![a][old][s] = @ - 1] EXCEPT ![a][new][s] = @ + 1]
  /\ edited' = [edited EXCEPT ![d] = NoRow]
  /\ UNCHANGED <<present, batch, pending, told>>

\* ... and save() writes all its columns: an UPDATE, or an INSERT when the row
\* has gone in the meantime.
EditSave(d) ==
  LET a == account[d]  new == Key(d)  old == edited[d].key  s == edited[d].source
      left == IF edited[d].there THEN [rows EXCEPT ![a][old][s] = @ - 1] ELSE rows
      clash == Violates(a, new) /\ ~(edited[d].there /\ new = old)
  IN
  /\ pc[d] = "inserting" /\ Blockers(d, a, new) = {}
  /\ IF clash \/ a \notin present
     THEN Finish(d, "failed") /\ UNCHANGED rows
     ELSE Finish(d, "done") /\ rows' = [left EXCEPT ![a][new][s] = @ + 1]
  /\ edited' = [edited EXCEPT ![d] = NoRow]
  /\ UNCHANGED <<present, batch, pending, told>>

\* TransactionDetailView.delete(), and each row of a bulk deletion: the row of an
\* edit, or one that nobody has read.
Delete(a, k, s) ==
  /\ a \in Manual /\ rows[a][k][s] > 0
  /\ rows' = [rows EXCEPT ![a][k][s] = @ - 1]
  /\ \/ /\ Readers(a, k, s) = {} \/ rows[a][k][s] > 1
        /\ UNCHANGED edited
     \/ \E d \in Readers(a, k, s) : edited' = [edited EXCEPT ![d].there = FALSE]
  /\ UNCHANGED <<present, pc, account, todo, batch, pending, told>>

\* Mutant: without assert_account_mutable().
AccountGoneAny(a) ==
  /\ a \in present
  /\ present' = present \ {a}
  /\ rows' = [rows EXCEPT ![a] = NoRows]
  /\ UNCHANGED <<pc, local, told>>

\* A manual account goes with its rows: BankAccountDetailView.delete(), or
\* apply_synced_accounts() when its bank is linked.
AccountGone(a) ==
  /\ a \in Manual \cap present
  /\ present' = present \ {a}
  /\ rows' = [rows EXCEPT ![a] = NoRows]
  /\ edited' = [d \in Edits |->
                  IF account[d] = a /\ edited[d].there
                  THEN [edited[d] EXCEPT !.there = FALSE] ELSE edited[d]]
  /\ UNCHANGED <<pc, account, todo, batch, pending, told>>

-----------------------------------------------------------------------------
TaskStep(t) == Fetch(t) \/ IngestCheck(t) \/ IngestInsert(t) \/ IngestPublish(t)

ApprovalStep(p) ==
  ApprovalCheck(p) \/ ApprovalInsert(p) \/ ApprovalCommit(p) \/ ApprovalVictim(p)

Next ==
  \/ \E t \in Tasks : TaskStep(t) \/ Lost(t)
  \/ \E t \in Tasks, a \in Accounts, b \in Batches : Deliver(t, a, b)
  \/ \E p \in Approvals : ApprovalStep(p)
  \/ \E p \in Approvals, a \in Accounts, b \in Batches : ApprovalStart(p, a, b)
  \/ \E e \in Entries : EntryInsert(e)
  \/ \E e \in Entries, a \in Accounts, k \in Keys : EntryCheck(e, a, k)
  \/ \E d \in Edits : EditSave(d)
  \/ \E d \in Edits, a \in Accounts, old, new \in Keys, s \in Sources :
       EditRead(d, a, old, new, s)
  \/ \E a \in Accounts, k \in Keys, s \in Sources : Delete(a, k, s)
  \/ \E a \in Accounts : AccountGone(a)

Spec == Init /\ [][Next]_vars

\* The worker and the web threads carry on with what they have begun.
Fairness ==
  /\ \A t \in Tasks : WF_vars(TaskStep(t))
  /\ \A p \in Approvals : WF_vars(ApprovalStep(p))
  /\ \A e \in Entries : WF_vars(EntryInsert(e))
  /\ \A d \in Edits : WF_vars(EditSave(d))

FairSpec == Spec /\ Fairness
-----------------------------------------------------------------------------
\* An identity the constraint covers is in the ledger at most once, and an
\* approval never holds a second row of it uncommitted: ApprovalCommit, which
\* does not check again, cannot fail on it.
KeyedRowsUnique ==
  \A a \in Accounts, k \in Keys \ NullKeys :
    /\ Count(a, k) <= 1
    /\ \A p \in Approvals : account[p] = a /\ k \in pending[p] =>
         /\ Count(a, k) = 0
         /\ \A q \in Approvals \ {p} : account[q] = a => k \notin pending[q]

\* The rows of a synced account are exactly those its bank pushed, and no other
\* account has such rows (assert_account_mutable before every other writer).
SyncedRowsFromBank ==
  \A a \in Accounts, k \in Keys, s \in Sources :
    rows[a][k][s] > 0 => (a \in Synced <=> s = "synced")

\* What a bank pushed twice, or backfills again, is in the ledger once, NULLs or
\* not (is_duplicate), as long as no two tasks run at the same time.
SyncedOnce == \A a \in Synced, k \in Keys : Count(a, k) <= 1

\* A delivered batch is in the ledger, all of it, when its task has ended, however
\* it ended, unless its worker was killed.
PushLands ==
  \A t \in Tasks : pc[t] \in {"done", "failed"} =>
    \A i \in DOMAIN batch[t] : Held(account[t], batch[t][i])

\* Nobody can take a synced row away: neither deletions, nor edits, nor the
\* removal of an account (assert_account_mutable).
SyncedHistoryKept ==
  [][\A a \in Synced, k \in Keys : Count(a, k)' >= Count(a, k)]_rows

\* The task publishes "whether or not anything was created"
\* (ingest_synced_transactions).
IngestTold == \A t \in Tasks : pc[t] \in {"done", "failed"} => t \in told

\* Nobody waits for ever: not two approvals for each other, nor an entry or an
\* edit for an approval.
WritersEnd ==
  \A w \in Writers : pc[w] # "idle" ~> pc[w] \in {"done", "failed", "lost"}
=============================================================================
