------------------------- MODULE SyncedLedgerProofs -------------------------
(***************************************************************************)
(* The inductive invariant of SyncedLedger, and what follows from it for   *)
(* any number of accounts, identities, writers and worker slots.           *)
(***************************************************************************)
EXTENDS SyncedLedger, TLAPS, FiniteSetTheorems

\* Where the writers are: tasks on synced accounts, all others on accounts that
\* are not; whoever is about to insert has a key to insert; only an approval that
\* is under way has uncommitted rows, and only an edit that is has a row.
AtHome ==
  /\ \A w \in Writers : pc[w] = "inserting" => todo[w] # <<>>
  /\ \A t \in Tasks : pc[t] # "idle" => account[t] \in Synced
  /\ \A p \in Approvals :
       /\ pc[p] \in {"checking", "inserting"} => account[p] \in Manual
       /\ pending[p] # {} => pc[p] \in {"checking", "inserting"}
  /\ \A w \in Entries \cup Edits : pc[w] = "inserting" => account[w] \in Manual
  /\ \A d \in Edits :
       IF pc[d] = "inserting" THEN edited[d] \in Rows /\ edited[d].source # "synced"
       ELSE edited[d] = NoRow

\* The row of an edit is one of those it looks like, and no other edit has it.
RowsRead ==
  \A d \in Edits : edited[d].there =>
    /\ rows[account[d]][edited[d].key][edited[d].source] > 0
    /\ \A e \in Edits : e # d /\ account[e] = account[d] => edited[e] # edited[d]

LedgerInv == TypeOK /\ AtHome /\ RowsRead /\ KeyedRowsUnique /\ SyncedRowsFromBank

-----------------------------------------------------------------------------
(* The rows                                                                *)

RowCounts == [Accounts -> [Keys -> [Sources -> Nat]]]

LEMMA SourceCases ==
  /\ "statement" \in Sources /\ "manual" \in Sources /\ "synced" \in Sources
  /\ \A s \in Sources : s = "statement" \/ s = "manual" \/ s = "synced"
  BY DEF Sources

LEMMA CountNat ==
  ASSUME rows \in RowCounts, NEW a \in Accounts, NEW k \in Keys
  PROVE  /\ Count(a, k) \in Nat
         /\ \A s \in Sources : rows[a][k][s] \in Nat /\ rows[a][k][s] <= Count(a, k)
         /\ (\A s \in Sources : rows[a][k][s] = 0) => Count(a, k) = 0
  BY SourceCases DEF RowCounts, Count

\* One more row of an identity and source, and one less.
LEMMA MoreRows ==
  ASSUME NEW r \in RowCounts, NEW a \in Accounts, NEW k \in Keys, NEW s \in Sources
  PROVE  LET q == [r EXCEPT ![a][k][s] = @ + 1]
         IN  /\ q \in RowCounts
             /\ \A b \in Accounts, l \in Keys, u \in Sources :
                  q[b][l][u] = IF b = a /\ l = k /\ u = s THEN r[b][l][u] + 1 ELSE r[b][l][u]
  BY DEF RowCounts

LEMMA FewerRows ==
  ASSUME NEW r \in RowCounts, NEW a \in Accounts, NEW k \in Keys, NEW s \in Sources,
         r[a][k][s] > 0
  PROVE  LET q == [r EXCEPT ![a][k][s] = @ - 1]
         IN  /\ q \in RowCounts
             /\ \A b \in Accounts, l \in Keys, u \in Sources :
                  q[b][l][u] = IF b = a /\ l = k /\ u = s THEN r[b][l][u] - 1 ELSE r[b][l][u]
  BY DEF RowCounts

LEMMA PutEffect ==
  ASSUME rows \in RowCounts, NEW a \in Accounts, NEW k \in Keys, NEW s \in Sources,
         Put(a, k, s)
  PROVE  /\ rows' \in RowCounts
         /\ \A b \in Accounts, l \in Keys, u \in Sources :
              rows'[b][l][u] = IF b = a /\ l = k /\ u = s THEN rows[b][l][u] + 1
                               ELSE rows[b][l][u]
         /\ \A b \in Accounts, l \in Keys :
              Count(b, l)' = IF b = a /\ l = k THEN Count(b, l) + 1 ELSE Count(b, l)
<1>1. rows' \in RowCounts
  BY DEF RowCounts, Put
<1>2. \A b \in Accounts, l \in Keys, u \in Sources :
        rows'[b][l][u] = IF b = a /\ l = k /\ u = s THEN rows[b][l][u] + 1
                         ELSE rows[b][l][u]
  BY DEF RowCounts, Put
<1>3. \A b \in Accounts, l \in Keys, u \in Sources : rows[b][l][u] \in Nat
  BY DEF RowCounts
<1>. QED
  BY <1>1, <1>2, <1>3, SourceCases DEF Count

-----------------------------------------------------------------------------
(* Type correctness                                                        *)

LEMMA NoRowsTyped == NoRows \in [Keys -> [Sources -> Nat]]
  BY DEF NoRows

LEMMA RowTyped ==
  ASSUME NEW k \in Keys, NEW s \in Sources, NEW b \in BOOLEAN
  PROVE  [key |-> k, source |-> s, there |-> b] \in Rows
  BY DEF Rows

LEMMA RowLeft ==
  ASSUME NEW x \in Rows
  PROVE  LET y == [x EXCEPT !.there = FALSE]
         IN  y \in Rows /\ ~y.there /\ y.key = x.key /\ y.source = x.source
  BY DEF Rows

LEMMA RowThere ==
  ASSUME NEW x \in Rows \cup {NoRow}, x.there
  PROVE  x \in Rows
  BY DEF NoRow

LEMMA OneKey == \A k \in Keys : <<k>> \in Seq(Keys)
  OBVIOUS

LEMMA StartTyped ==
  ASSUME TypeOK, NEW w \in Writers, NEW a \in Accounts, NEW keys \in Seq(Keys),
         NEW there \in PCs, Start(w, a, keys, there)
  PROVE  /\ pc' \in [Writers -> PCs] /\ account' \in [Writers -> Accounts \cup {None}]
         /\ todo' \in [Writers -> Seq(Keys)]
  BY DEF TypeOK, Start, Goto

LEMMA FinishTyped ==
  ASSUME TypeOK, NEW w \in Writers, NEW there \in PCs, Finish(w, there)
  PROVE  /\ pc' \in [Writers -> PCs] /\ account' \in [Writers -> Accounts \cup {None}]
         /\ todo' \in [Writers -> Seq(Keys)]
  BY DEF TypeOK, Finish, Goto

LEMMA KeyTyped ==
  ASSUME TypeOK, NEW w \in Writers, todo[w] # <<>>
  PROVE  Key(w) \in Keys /\ Tail(todo[w]) \in Seq(Keys)
<1>1. todo[w] \in Seq(Keys)
  BY DEF TypeOK
<1>. QED
  BY <1>1 DEF Key

LEMMA NextTyped ==
  ASSUME TypeOK, NEW w \in Writers, todo[w] # <<>>, Next1(w)
  PROVE  todo' \in [Writers -> Seq(Keys)]
  BY KeyTyped DEF TypeOK, Next1

LEMMA GotoTyped ==
  ASSUME TypeOK, NEW w \in Writers, NEW there \in PCs, Goto(w, there)
  PROVE  pc' \in [Writers -> PCs]
  BY DEF TypeOK, Goto

LEMMA InitTyped == Init => TypeOK
<1>. SUFFICES ASSUME Init PROVE TypeOK
  OBVIOUS
<1>1. pc \in [Writers -> PCs] /\ todo \in [Writers -> Seq(Keys)]
  BY DEF Init, PCs
<1>2. rows \in RowCounts
  BY NoRowsTyped DEF Init, RowCounts
<1>. QED
  BY <1>1, <1>2, LedgerAssumption DEF Init, TypeOK, RowCounts

LEMMA TypeStep ==
  ASSUME TypeOK, AtHome, RowsRead, [Next]_vars
  PROVE  TypeOK'
<1>. USE DEF Writers, PCs
<1>b. Batches \subseteq Seq(Keys) /\ Synced \subseteq Accounts
  BY LedgerAssumption
<1>1. ASSUME NEW t \in Tasks, TaskStep(t) \/ Lost(t) PROVE TypeOK'
  <2>1. CASE Fetch(t) \/ IngestPublish(t) \/ Lost(t)
    BY <2>1, GotoTyped DEF TypeOK, Fetch, IngestPublish, Lost, local
  <2>2. CASE IngestCheck(t)
    BY <2>2, GotoTyped, NextTyped DEF TypeOK, IngestCheck
  <2>3. CASE IngestInsert(t)
    <3>1. todo[t] # <<>> /\ account[t] \in Accounts /\ Key(t) \in Keys
      BY <2>3, <1>b, KeyTyped DEF IngestInsert, AtHome
    <3>2. rows' \in RowCounts
      BY <2>3, <3>1, PutEffect, SourceCases DEF IngestInsert, TypeOK, RowCounts
    <3>. QED
      BY <2>3, <3>1, <3>2, GotoTyped, NextTyped DEF TypeOK, IngestInsert, RowCounts
  <2>. QED
    BY <1>1, <2>1, <2>2, <2>3 DEF TaskStep
<1>2. ASSUME NEW t \in Tasks, NEW a \in Accounts, NEW b \in Batches, Deliver(t, a, b)
      PROVE  TypeOK'
  BY <1>2, <1>b, StartTyped DEF TypeOK, Deliver
<1>3. ASSUME NEW p \in Approvals, ApprovalStep(p) PROVE TypeOK'
  <2>1. CASE ApprovalCheck(p)
    BY <2>1, GotoTyped, NextTyped DEF TypeOK, ApprovalCheck
  <2>2. CASE ApprovalInsert(p)
    <3>1. todo[p] # <<>> /\ Key(p) \in Keys
      BY <2>2, KeyTyped DEF ApprovalInsert, AtHome
    <3>2. CASE Violates(account[p], Key(p))
      BY <2>2, <3>2, FinishTyped DEF TypeOK, ApprovalInsert, ApprovalEnds
    <3>3. CASE ~Violates(account[p], Key(p))
      <4>1. pending[p] \cup {Key(p)} \in SUBSET Keys
        BY <3>1 DEF TypeOK
      <4>2. pending' \in [Approvals -> SUBSET Keys]
        BY <2>2, <3>3, <4>1 DEF TypeOK, ApprovalInsert
      <4>. QED
        BY <2>2, <3>1, <3>3, <4>2, GotoTyped, NextTyped DEF TypeOK, ApprovalInsert
    <3>. QED
      BY <3>2, <3>3
  <2>3. CASE ApprovalCommit(p)
    <3>1. rows' \in RowCounts
      <4>. DEFINE a == account[p]
                  after == [k \in Keys |-> [s \in Sources |->
                              IF k \in pending[p] /\ s = "statement"
                              THEN rows[a][k][s] + 1 ELSE rows[a][k][s]]]
      <4>1. a \in Accounts
        BY <2>3 DEF ApprovalCommit, AtHome, Manual
      <4>2. \A k \in Keys, s \in Sources : rows[a][k][s] \in Nat
        BY <4>1 DEF TypeOK
      <4>3. after \in [Keys -> [Sources -> Nat]]
        BY <4>2
      <4>4. rows' = rows \/ rows' = [rows EXCEPT ![a] = after]
        BY <2>3 DEF ApprovalCommit
      <4>. QED
        BY <4>1, <4>3, <4>4 DEF TypeOK, RowCounts
    <3>2. ApprovalEnds(p, "done") \/ ApprovalEnds(p, "failed")
      BY <2>3 DEF ApprovalCommit
    <3>. QED
      BY <3>1, <3>2, FinishTyped DEF TypeOK, ApprovalEnds, RowCounts
  <2>4. CASE ApprovalVictim(p)
    BY <2>4, FinishTyped DEF TypeOK, ApprovalVictim, ApprovalEnds
  <2>. QED
    BY <1>3, <2>1, <2>2, <2>3, <2>4 DEF ApprovalStep
<1>4. ASSUME NEW p \in Approvals, NEW a \in Accounts, NEW b \in Batches, ApprovalStart(p, a, b)
      PROVE  TypeOK'
  BY <1>4, <1>b, StartTyped DEF TypeOK, ApprovalStart
<1>5. ASSUME NEW e \in Entries, EntryInsert(e) PROVE TypeOK'
  <2>1. account[e] \in Accounts /\ Key(e) \in Keys
    BY <1>5, KeyTyped DEF EntryInsert, AtHome, Manual
  <2>2. rows' \in RowCounts
    BY <1>5, <2>1, PutEffect, SourceCases DEF EntryInsert, TypeOK, RowCounts
  <2>. QED
    BY <1>5, <2>2, FinishTyped DEF EntryInsert, TypeOK, RowCounts
<1>6. ASSUME NEW e \in Entries, NEW a \in Accounts, NEW k \in Keys, EntryCheck(e, a, k)
      PROVE  TypeOK'
  BY <1>6, OneKey, StartTyped DEF TypeOK, EntryCheck
<1>7. ASSUME NEW d \in Edits, EditSave(d) PROVE TypeOK'
  <2>1. account[d] \in Accounts /\ Key(d) \in Keys /\ edited[d] \in Rows
    BY <1>7, KeyTyped DEF EditSave, AtHome, Manual
  <2>2. edited[d].key \in Keys /\ edited[d].source \in Sources
    BY <2>1 DEF Rows
  <2>3. edited[d].there => rows[account[d]][edited[d].key][edited[d].source] > 0
    BY DEF RowsRead
  <2>4. rows' \in RowCounts
    <3>. DEFINE left == IF edited[d].there
                        THEN [rows EXCEPT ![account[d]][edited[d].key][edited[d].source] = @ - 1]
                        ELSE rows
    <3>1. rows \in RowCounts
      BY DEF TypeOK, RowCounts
    <3>2. left \in RowCounts
      BY <2>1, <2>2, <2>3, <3>1, FewerRows
    <3>3. rows' = rows \/ rows' = [left EXCEPT ![account[d]][Key(d)][edited[d].source] = @ + 1]
      BY <1>7 DEF EditSave
    <3>. HIDE DEF left
    <3>4. rows' \in RowCounts
      <4>1. [left EXCEPT ![account[d]][Key(d)][edited[d].source] = @ + 1] \in RowCounts
        BY <2>1, <2>2, <3>2, MoreRows
      <4>. QED
        BY <3>1, <3>3, <4>1
    <3>. QED
      BY <3>4
  <2>. QED
    BY <1>7, <2>4, FinishTyped DEF EditSave, TypeOK, RowCounts
<1>8. ASSUME NEW d \in Edits, NEW a \in Accounts, NEW old \in Keys, NEW new \in Keys,
             NEW s \in Sources, EditRead(d, a, old, new, s)
      PROVE  TypeOK'
  <2>1. edited' \in [Edits -> Rows \cup {NoRow}]
    BY <1>8, RowTyped DEF TypeOK, EditRead
  <2>. QED
    BY <1>8, <2>1, OneKey, StartTyped DEF TypeOK, EditRead
<1>9. ASSUME NEW a \in Accounts, NEW k \in Keys, NEW s \in Sources, Delete(a, k, s)
      PROVE  TypeOK'
  <2>1. rows' \in RowCounts
    BY <1>9 DEF Delete, TypeOK, RowCounts
  <2>2. edited' \in [Edits -> Rows \cup {NoRow}]
    <3>1. ASSUME NEW d \in Readers(a, k, s)
          PROVE  d \in Edits /\ edited[d] \in Rows
      BY <3>1, RowTyped DEF Readers
    <3>2. \/ edited' = edited
          \/ \E d \in Readers(a, k, s) :
               edited' = [edited EXCEPT ![d] = [edited[d] EXCEPT !.there = FALSE]]
      BY <1>9 DEF Delete
    <3>. QED
      <4>1. ASSUME NEW d \in Readers(a, k, s)
            PROVE  [edited[d] EXCEPT !.there = FALSE] \in Rows
        BY <3>1, <4>1, RowLeft
      <4>2. edited \in [Edits -> Rows \cup {NoRow}]
        BY DEF TypeOK
      <4>3. ASSUME NEW d \in Readers(a, k, s),
                   edited' = [edited EXCEPT ![d] = [edited[d] EXCEPT !.there = FALSE]]
            PROVE  edited' \in [Edits -> Rows \cup {NoRow}]
        BY <4>1, <4>2, <4>3, <3>1
      <4>. QED
        BY <3>2, <4>2, <4>3
  <2>. QED
    BY <1>9, <2>1, <2>2 DEF Delete, TypeOK, RowCounts
<1>10. ASSUME NEW a \in Accounts, AccountGone(a) PROVE TypeOK'
  <2>1. edited' \in [Edits -> Rows \cup {NoRow}]
    BY <1>10, RowLeft, RowThere DEF AccountGone, TypeOK
  <2>. QED
    BY <1>10, <2>1, NoRowsTyped DEF AccountGone, TypeOK, Manual
<1>11. CASE UNCHANGED vars
  BY <1>11 DEF TypeOK, vars
<1>. QED
  BY <1>1, <1>2, <1>3, <1>4, <1>5, <1>6, <1>7, <1>8, <1>9, <1>10, <1>11 DEF Next

-----------------------------------------------------------------------------
(* Where the writers are                                                   *)

\* A deletion and the removal of an account leave their rows to the edits, which
\* will find that they have gone.
LEMMA RowsGone ==
  ASSUME AtHome, TypeOK, UNCHANGED <<pc, account, todo, pending>>,
         \A d \in Edits : \/ edited'[d] = edited[d]
                         \/ /\ edited[d].there
                            /\ edited'[d] = [edited[d] EXCEPT !.there = FALSE]
  PROVE  AtHome'
<1>1. \A d \in Edits : IF pc[d] = "inserting"
                      THEN edited'[d] \in Rows /\ edited'[d].source # "synced"
                      ELSE edited'[d] = NoRow
  <2>. TAKE d \in Edits
  <2>1. CASE edited'[d] = edited[d]
    BY <2>1 DEF AtHome
  <2>2. CASE edited[d].there /\ edited'[d] = [edited[d] EXCEPT !.there = FALSE]
    <3>1. edited[d] \in Rows /\ pc[d] = "inserting"
      BY <2>2, RowThere DEF AtHome, TypeOK, NoRow
    <3>. QED
      BY <2>2, <3>1, RowLeft DEF AtHome
  <2>. QED
    BY <2>1, <2>2
<1>. QED
  BY <1>1 DEF AtHome

LEMMA Finished ==
  ASSUME TypeOK, NEW w \in Writers, NEW there, Finish(w, there)
  PROVE  /\ pc'[w] = there /\ account'[w] = None /\ todo'[w] = <<>>
         /\ \A v \in Writers : v # w =>
              pc'[v] = pc[v] /\ account'[v] = account[v] /\ todo'[v] = todo[v]
  BY DEF TypeOK, Finish, Goto

LEMMA ApprovalEnded ==
  ASSUME TypeOK, AtHome, NEW p \in Approvals, NEW there \in {"done", "failed"},
         ApprovalEnds(p, there)
  PROVE  AtHome'
<1>1. /\ pc'[p] = there
      /\ \A v \in Writers : v # p =>
           pc'[v] = pc[v] /\ account'[v] = account[v] /\ todo'[v] = todo[v]
  BY Finished DEF ApprovalEnds, Writers
<1>2. /\ pending'[p] = {} /\ \A q \in Approvals : q # p => pending'[q] = pending[q]
      /\ edited' = edited
  BY DEF ApprovalEnds, TypeOK
<1>3. p \notin Tasks \cup Entries \cup Edits
  BY LedgerAssumption
<1>. QED
  BY <1>1, <1>2, <1>3 DEF AtHome, Writers

LEMMA InitAtHome == Init => AtHome
  BY DEF Init, AtHome, Writers

LEMMA HomeStep ==
  ASSUME TypeOK, AtHome, SyncedRowsFromBank, [Next]_vars
  PROVE  AtHome'
<1>. USE LedgerAssumption DEF AtHome, Writers, TypeOK
<1>1. ASSUME NEW t \in Tasks, TaskStep(t) \/ Lost(t) PROVE AtHome'
  <2>1. CASE Fetch(t) \/ IngestPublish(t) \/ Lost(t)
    BY <2>1 DEF Fetch, IngestPublish, Lost, Goto, local
  <2>2. CASE IngestCheck(t)
    BY <2>2 DEF IngestCheck, Goto, Next1
  <2>3. CASE IngestInsert(t)
    BY <2>3 DEF IngestInsert, Goto, Next1
  <2>. QED
    BY <1>1, <2>1, <2>2, <2>3 DEF TaskStep
<1>2. ASSUME NEW t \in Tasks, NEW a \in Accounts, NEW b \in Batches, Deliver(t, a, b)
      PROVE  AtHome'
  BY <1>2 DEF Deliver, Start, Goto
<1>3. ASSUME NEW p \in Approvals, ApprovalStep(p) PROVE AtHome'
  <2>1. CASE ApprovalCheck(p)
    BY <2>1 DEF ApprovalCheck, Goto, Next1
  <2>2. CASE ApprovalInsert(p)
    <3>1. CASE Violates(account[p], Key(p))
      BY <2>2, <3>1, ApprovalEnded DEF ApprovalInsert
    <3>2. CASE ~Violates(account[p], Key(p))
      BY <2>2, <3>2 DEF ApprovalInsert, Goto, Next1
    <3>. QED
      BY <3>1, <3>2
  <2>3. CASE ApprovalCommit(p) \/ ApprovalVictim(p)
    BY <2>3, ApprovalEnded DEF ApprovalCommit, ApprovalVictim
  <2>. QED
    BY <1>3, <2>1, <2>2, <2>3 DEF ApprovalStep
<1>4. ASSUME NEW p \in Approvals, NEW a \in Accounts, NEW b \in Batches, ApprovalStart(p, a, b)
      PROVE  AtHome'
  BY <1>4 DEF ApprovalStart, Start, Goto
<1>5. ASSUME NEW e \in Entries, EntryInsert(e) PROVE AtHome'
  <2>1. PICK there \in {"done", "failed"} : Finish(e, there)
    BY <1>5 DEF EntryInsert
  <2>2. pc'[e] = there /\ \A v \in Writers : v # e =>
          pc'[v] = pc[v] /\ account'[v] = account[v] /\ todo'[v] = todo[v]
    BY <2>1, Finished
  <2>3. pending' = pending /\ edited' = edited
    BY <1>5 DEF EntryInsert
  <2>. QED
    BY <2>2, <2>3
<1>6. ASSUME NEW e \in Entries, NEW a \in Accounts, NEW k \in Keys, EntryCheck(e, a, k)
      PROVE  AtHome'
  BY <1>6 DEF EntryCheck, Start, Goto
<1>7. ASSUME NEW d \in Edits, EditSave(d) PROVE AtHome'
  <2>1. PICK there \in {"done", "failed"} : Finish(d, there)
    BY <1>7 DEF EditSave
  <2>2. pc'[d] = there /\ \A v \in Writers : v # d =>
          pc'[v] = pc[v] /\ account'[v] = account[v] /\ todo'[v] = todo[v]
    BY <2>1, Finished
  <2>3. /\ pending' = pending /\ edited'[d] = NoRow
        /\ \A f \in Edits : f # d => edited'[f] = edited[f]
    BY <1>7 DEF EditSave
  <2>. QED
    BY <2>2, <2>3
<1>8. ASSUME NEW d \in Edits, NEW a \in Accounts, NEW old \in Keys, NEW new \in Keys,
             NEW s \in Sources, EditRead(d, a, old, new, s)
      PROVE  AtHome'
  <2>1. s # "synced"
    BY <1>8 DEF EditRead, SyncedRowsFromBank, Manual
  <2>. QED
    BY <1>8, <2>1, RowTyped DEF EditRead, Start, Goto
<1>9. ASSUME NEW a \in Accounts, NEW k \in Keys, NEW s \in Sources, Delete(a, k, s)
      PROVE  AtHome'
  <2>1. \A d \in Readers(a, k, s) : d \in Edits /\ edited[d].there
    BY DEF Readers
  <2>2. \A d \in Edits : \/ edited'[d] = edited[d]
                        \/ /\ edited[d].there
                           /\ edited'[d] = [edited[d] EXCEPT !.there = FALSE]
    BY <1>9, <2>1 DEF Delete
  <2>. QED
    BY <1>9, <2>2, RowsGone DEF Delete
<1>10. ASSUME NEW a \in Accounts, AccountGone(a) PROVE AtHome'
  BY <1>10, RowsGone DEF AccountGone
<1>11. CASE UNCHANGED vars
  BY <1>11 DEF vars
<1>. QED
  BY <1>1, <1>2, <1>3, <1>4, <1>5, <1>6, <1>7, <1>8, <1>9, <1>10, <1>11 DEF Next

-----------------------------------------------------------------------------
(* What the steps do to the rows                                           *)

\* Rows are only added, at one place at most, or for an approval.
LEMMA CommitEffect ==
  ASSUME TypeOK, AtHome, NEW p \in Approvals, ApprovalCommit(p)
  PROVE  LET a == account[p] IN
         /\ a \in Manual
         /\ \A b \in Accounts, l \in Keys, u \in Sources :
              \/ rows'[b][l][u] = rows[b][l][u]
              \/ /\ b = a /\ l \in pending[p] /\ u = "statement"
                 /\ rows'[b][l][u] = rows[b][l][u] + 1
         /\ ApprovalEnds(p, "done") \/ ApprovalEnds(p, "failed")
<1>1. account[p] \in Manual /\ account[p] \in Accounts
  BY DEF ApprovalCommit, AtHome, Manual
<1>2. ApprovalEnds(p, "done") \/ ApprovalEnds(p, "failed")
  BY DEF ApprovalCommit
<1>3. \/ rows' = rows
      \/ rows' = [rows EXCEPT ![account[p]] = [k \in Keys |-> [s \in Sources |->
                    IF k \in pending[p] /\ s = "statement"
                    THEN rows[account[p]][k][s] + 1 ELSE rows[account[p]][k][s]]]]
  BY DEF ApprovalCommit
<1>4. \A b \in Accounts, l \in Keys, u \in Sources :
        \/ rows'[b][l][u] = rows[b][l][u]
        \/ /\ b = account[p] /\ l \in pending[p] /\ u = "statement"
           /\ rows'[b][l][u] = rows[b][l][u] + 1
  BY <1>1, <1>3 DEF TypeOK
<1>. QED
  BY <1>1, <1>2, <1>4

LEMMA IngestEffect ==
  ASSUME TypeOK, AtHome, NEW t \in Tasks, IngestInsert(t)
  PROVE  LET a == account[t]  k == Key(t) IN
         /\ a \in Synced /\ k \in Keys
         /\ rows' = rows \/ (Put(a, k, "synced") /\ ~Violates(a, k))
  BY KeyTyped DEF IngestInsert, AtHome, Writers

LEMMA EntryEffect ==
  ASSUME TypeOK, AtHome, NEW e \in Entries, EntryInsert(e)
  PROVE  LET a == account[e]  k == Key(e) IN
         /\ a \in Manual /\ k \in Keys /\ Blockers(e, a, k) = {}
         /\ rows' = rows \/ (Put(a, k, "manual") /\ ~Violates(a, k))
  BY KeyTyped DEF EntryInsert, AtHome, Writers

\* A saved row has one place more, and one less if it was still there.
LEMMA SaveEffect ==
  ASSUME TypeOK, AtHome, RowsRead, NEW d \in Edits, EditSave(d)
  PROVE  LET a == account[d]  new == Key(d)  old == edited[d].key  s == edited[d].source
             own(b, l, u) == edited[d].there /\ b = a /\ l = old /\ u = s
             its(b, l, u) == b = a /\ l = new /\ u = s
         IN
         /\ a \in Manual /\ new \in Keys /\ old \in Keys /\ s \in Sources /\ s # "synced"
         /\ Blockers(d, a, new) = {}
         /\ edited[d].there => rows[a][old][s] > 0
         /\ \/ rows' = rows
            \/ /\ Violates(a, new) => edited[d].there /\ new = old
               /\ \A b \in Accounts, l \in Keys, u \in Sources :
                    rows'[b][l][u] = rows[b][l][u] - (IF own(b, l, u) THEN 1 ELSE 0)
                                                   + (IF its(b, l, u) THEN 1 ELSE 0)
<1>. DEFINE a == account[d]
            new == Key(d)
            old == edited[d].key
            s == edited[d].source
            left == IF edited[d].there THEN [rows EXCEPT ![a][old][s] = @ - 1] ELSE rows
<1>1. a \in Manual /\ a \in Accounts /\ new \in Keys /\ edited[d] \in Rows /\ s # "synced"
  BY KeyTyped DEF EditSave, AtHome, Manual, Writers
<1>2. old \in Keys /\ s \in Sources
  BY <1>1 DEF Rows
<1>3. edited[d].there => rows[a][old][s] > 0
  BY DEF RowsRead
<1>4. rows \in RowCounts /\ \A b \in Accounts, l \in Keys, u \in Sources : rows[b][l][u] \in Nat
  BY DEF TypeOK, RowCounts
<1>5. /\ left \in RowCounts
      /\ \A b \in Accounts, l \in Keys, u \in Sources :
           left[b][l][u] = rows[b][l][u]
             - (IF edited[d].there /\ b = a /\ l = old /\ u = s THEN 1 ELSE 0)
  <2>1. CASE edited[d].there
    <3>1. rows[a][old][s] > 0
      BY <1>3, <2>1
    <3>. DEFINE q == [rows EXCEPT ![a][old][s] = @ - 1]
    <3>2. /\ q \in RowCounts
          /\ \A b \in Accounts, l \in Keys, u \in Sources :
               q[b][l][u] = IF b = a /\ l = old /\ u = s THEN rows[b][l][u] - 1
                            ELSE rows[b][l][u]
      <4>. HIDE DEF a, old, s
      <4>. QED
        BY <1>1, <1>2, <3>1, <1>4, FewerRows
    <3>3. left = q
      BY <2>1
    <3>. HIDE DEF q, left
    <3>. QED
      BY <1>4, <2>1, <3>2, <3>3
  <2>2. CASE ~edited[d].there
    BY <1>4, <2>2
  <2>. QED
    BY <2>1, <2>2
<1>6. Blockers(d, a, new) = {}
  BY DEF EditSave
<1>7. \/ rows' = rows
      \/ /\ rows' = [left EXCEPT ![a][new][s] = @ + 1]
         /\ Violates(a, new) => edited[d].there /\ new = old
  BY DEF EditSave
<1>. HIDE DEF left
<1>8. LET q == [left EXCEPT ![a][new][s] = @ + 1]
      IN  \A b \in Accounts, l \in Keys, u \in Sources :
            q[b][l][u] = IF b = a /\ l = new /\ u = s THEN left[b][l][u] + 1 ELSE left[b][l][u]
  <2>1. left \in RowCounts /\ a \in Accounts /\ new \in Keys /\ s \in Sources
    BY <1>1, <1>2, <1>5
  <2>. HIDE DEF a, new, s
  <2>. QED
    BY <2>1 DEF RowCounts
<1>9. ASSUME rows' = [left EXCEPT ![a][new][s] = @ + 1]
      PROVE  \A b \in Accounts, l \in Keys, u \in Sources :
               rows'[b][l][u] = rows[b][l][u]
                 - (IF edited[d].there /\ b = a /\ l = old /\ u = s THEN 1 ELSE 0)
                 + (IF b = a /\ l = new /\ u = s THEN 1 ELSE 0)
  BY <1>4, <1>5, <1>8, <1>9
<1>. QED
  BY <1>1, <1>2, <1>3, <1>6, <1>7, <1>9

LEMMA DeleteEffect ==
  ASSUME TypeOK, NEW a \in Accounts, NEW k \in Keys, NEW s \in Sources, Delete(a, k, s)
  PROVE  /\ a \in Manual /\ rows[a][k][s] > 0
         /\ \A b \in Accounts, l \in Keys, u \in Sources :
              rows'[b][l][u] = IF b = a /\ l = k /\ u = s THEN rows[b][l][u] - 1
                               ELSE rows[b][l][u]
  BY FewerRows DEF Delete, TypeOK, RowCounts

LEMMA DeleteEdits ==
  ASSUME TypeOK, NEW a \in Accounts, NEW k \in Keys, NEW s \in Sources, Delete(a, k, s)
  PROVE  \/ edited' = edited /\ (Readers(a, k, s) = {} \/ rows[a][k][s] > 1)
         \/ \E d \in Readers(a, k, s) :
              /\ edited[d] \in Rows /\ ~edited'[d].there
              /\ \A e \in Edits : e # d => edited'[e] = edited[e]
<1>1. CASE edited' = edited /\ (Readers(a, k, s) = {} \/ rows[a][k][s] > 1)
  BY <1>1
<1>2. CASE \E d \in Readers(a, k, s) :
             edited' = [edited EXCEPT ![d] = [edited[d] EXCEPT !.there = FALSE]]
  <2>1. PICK d \in Readers(a, k, s) :
               edited' = [edited EXCEPT ![d] = [edited[d] EXCEPT !.there = FALSE]]
    BY <1>2
  <2>2. d \in Edits /\ edited[d] \in Rows
    BY RowTyped DEF Readers
  <2>3. /\ edited'[d] = [edited[d] EXCEPT !.there = FALSE]
        /\ \A e \in Edits : e # d => edited'[e] = edited[e]
    BY <2>1, <2>2 DEF TypeOK
  <2>4. ~edited'[d].there
    BY <2>2, <2>3, RowLeft
  <2>. QED
    BY <2>2, <2>3, <2>4
<1>. QED
  BY <1>1, <1>2 DEF Delete

LEMMA GoneEffect ==
  ASSUME TypeOK, NEW a \in Accounts, AccountGone(a)
  PROVE  /\ a \in Manual
         /\ \A b \in Accounts, l \in Keys, u \in Sources :
              rows'[b][l][u] = IF b = a THEN 0 ELSE rows[b][l][u]
  BY DEF AccountGone, TypeOK, NoRows

\* Every other step leaves the rows alone.
LEMMA RowsChange ==
  ASSUME [Next]_vars
  PROVE  \/ rows' = rows
         \/ \E t \in Tasks : IngestInsert(t)
         \/ \E p \in Approvals : ApprovalCommit(p)
         \/ \E e \in Entries : EntryInsert(e)
         \/ \E d \in Edits : EditSave(d)
         \/ \E a \in Accounts, k \in Keys, s \in Sources : Delete(a, k, s)
         \/ \E a \in Accounts : AccountGone(a)
<1>. USE DEF Next, TaskStep, ApprovalStep, vars, local
<1>1. ASSUME NEW t \in Tasks, Fetch(t) \/ IngestCheck(t) \/ IngestPublish(t) \/ Lost(t)
      PROVE  rows' = rows
  BY <1>1 DEF Fetch, IngestCheck, IngestPublish, Lost
<1>2. ASSUME NEW p \in Approvals, ApprovalCheck(p) \/ ApprovalInsert(p) \/ ApprovalVictim(p)
      PROVE  rows' = rows
  BY <1>2 DEF ApprovalCheck, ApprovalInsert, ApprovalVictim
<1>3. \A w, a, b : Deliver(w, a, b) \/ ApprovalStart(w, a, b) \/ EntryCheck(w, a, b)
                  => rows' = rows
  BY DEF Deliver, ApprovalStart, EntryCheck
<1>4. \A d, a, old, new, s : EditRead(d, a, old, new, s) => rows' = rows
  BY DEF EditRead
<1>. QED
  BY <1>1, <1>2, <1>3, <1>4

-----------------------------------------------------------------------------
(* Provenance: synced rows on synced accounts, other rows on others        *)

LEMMA FromBankStep ==
  ASSUME TypeOK, AtHome, RowsRead, SyncedRowsFromBank, [Next]_vars
  PROVE  SyncedRowsFromBank'
<1>. SUFFICES ASSUME NEW b \in Accounts, NEW l \in Keys, NEW u \in Sources,
                     rows'[b][l][u] > 0
              PROVE  b \in Synced <=> u = "synced"
  BY DEF SyncedRowsFromBank
<1>. SUFFICES ASSUME rows[b][l][u] = 0
              PROVE  b \in Synced <=> u = "synced"
  BY DEF SyncedRowsFromBank, TypeOK
<1>. USE LedgerAssumption DEF Manual
<1>1. rows \in RowCounts /\ Synced \subseteq Accounts
  BY DEF TypeOK, RowCounts
<1>2. ASSUME NEW t \in Tasks, IngestInsert(t) PROVE b \in Synced <=> u = "synced"
  <2>1. /\ account[t] \in Synced /\ Key(t) \in Keys
        /\ rows' = rows \/ Put(account[t], Key(t), "synced")
    BY <1>2, IngestEffect
  <2>. QED
    BY <1>1, <2>1, PutEffect, SourceCases
<1>3. ASSUME NEW p \in Approvals, ApprovalCommit(p) PROVE b \in Synced <=> u = "synced"
  BY <1>3, CommitEffect
<1>4. ASSUME NEW e \in Entries, EntryInsert(e) PROVE b \in Synced <=> u = "synced"
  <2>1. /\ account[e] \in Manual /\ Key(e) \in Keys
        /\ rows' = rows \/ Put(account[e], Key(e), "manual")
    BY <1>4, EntryEffect
  <2>. QED
    BY <1>1, <2>1, PutEffect, SourceCases
<1>5. ASSUME NEW d \in Edits, EditSave(d) PROVE b \in Synced <=> u = "synced"
  BY <1>5, SaveEffect
<1>6. ASSUME NEW a \in Accounts, NEW k \in Keys, NEW s \in Sources, Delete(a, k, s)
      PROVE  b \in Synced <=> u = "synced"
  BY <1>6, DeleteEffect
<1>7. ASSUME NEW a \in Accounts, AccountGone(a) PROVE b \in Synced <=> u = "synced"
  BY <1>7, GoneEffect
<1>. QED
  BY <1>2, <1>3, <1>4, <1>5, <1>6, <1>7, RowsChange

-----------------------------------------------------------------------------
(* The rows of the edits                                                   *)

\* The edits are as they were, and no row has gone.
LEMMA ReadKept ==
  ASSUME TypeOK, AtHome, RowsRead, TypeOK', edited' = edited,
         \A d \in Edits : account'[d] = account[d],
         \A a \in Accounts, k \in Keys, s \in Sources : rows'[a][k][s] >= rows[a][k][s]
  PROVE  RowsRead'
<1>. SUFFICES ASSUME NEW d \in Edits, edited[d].there
              PROVE  /\ rows'[account[d]][edited[d].key][edited[d].source] > 0
                     /\ \A e \in Edits : e # d /\ account[e] = account[d] => edited[e] # edited[d]
  BY DEF RowsRead
<1>1. edited[d] \in Rows /\ account[d] \in Accounts
  BY RowThere DEF AtHome, TypeOK, Manual, NoRow
<1>2. edited[d].key \in Keys /\ edited[d].source \in Sources
  BY <1>1 DEF Rows
<1>3. rows[account[d]][edited[d].key][edited[d].source] \in Nat
  BY <1>1, <1>2 DEF TypeOK
<1>4. rows'[account[d]][edited[d].key][edited[d].source]
        >= rows[account[d]][edited[d].key][edited[d].source]
  BY <1>1, <1>2
<1>5. rows'[account[d]][edited[d].key][edited[d].source] \in Nat
  BY <1>1, <1>2 DEF TypeOK
<1>6. /\ rows[account[d]][edited[d].key][edited[d].source] > 0
      /\ \A e \in Edits : e # d /\ account[e] = account[d] => edited[e] # edited[d]
  BY DEF RowsRead
<1>. QED
  BY <1>3, <1>4, <1>5, <1>6

LEMMA ReadStep ==
  ASSUME TypeOK, AtHome, RowsRead, TypeOK', [Next]_vars
  PROVE  RowsRead'
<1>1. \A a \in Accounts, k \in Keys, s \in Sources : rows[a][k][s] \in Nat
  BY DEF TypeOK
<1>r. rows \in RowCounts
  BY DEF TypeOK, RowCounts
<1>2. ASSUME edited' = edited, \A d \in Edits : account'[d] = account[d], rows' = rows
      PROVE  RowsRead'
  BY <1>1, <1>2, ReadKept
<1>3. ASSUME NEW w \in Writers, w \notin Edits,
             \E a, keys, there : Start(w, a, keys, there) \/ Finish(w, there) \/ account' = account
      PROVE  \A d \in Edits : account'[d] = account[d]
  BY <1>3 DEF Start, Finish, TypeOK, Writers
<1>4. ASSUME NEW t \in Tasks, TaskStep(t) \/ Lost(t) PROVE RowsRead'
  <2>1. account' = account /\ edited' = edited
    BY <1>4 DEF TaskStep, Lost, Fetch, IngestCheck, IngestInsert, IngestPublish, local
  <2>2. CASE IngestInsert(t)
    <3>1. rows' = rows \/ Put(account[t], Key(t), "synced")
      BY <2>2, IngestEffect
    <3>2. account[t] \in Accounts /\ Key(t) \in Keys
      BY <2>2, IngestEffect, LedgerAssumption
    <3>. QED
      BY <1>1, <1>r, <2>1, <3>1, <3>2, PutEffect, ReadKept, SourceCases
  <2>3. CASE ~IngestInsert(t)
    <3>1. rows' = rows
      BY <1>4, <2>3 DEF TaskStep, Lost, Fetch, IngestCheck, IngestPublish
    <3>. QED
      BY <1>2, <2>1, <3>1
  <2>. QED
    BY <2>2, <2>3
<1>5. ASSUME NEW t \in Tasks, NEW a \in Accounts, NEW b \in Batches, Deliver(t, a, b)
      PROVE  RowsRead'
  BY <1>2, <1>3, <1>5, LedgerAssumption DEF Deliver, Writers
<1>6. ASSUME NEW p \in Approvals, ApprovalStep(p) PROVE RowsRead'
  <2>1. p \in Writers /\ p \notin Edits
    BY LedgerAssumption DEF Writers
  <2>2. /\ edited' = edited
        /\ account' = account \/ \E there : Finish(p, there)
    BY <1>6 DEF ApprovalStep, ApprovalCheck, ApprovalInsert, ApprovalCommit, ApprovalVictim,
       ApprovalEnds
  <2>3. \A d \in Edits : account'[d] = account[d]
    BY <1>3, <2>1, <2>2
  <2>4. CASE ApprovalCommit(p)
    <3>1. \A b \in Accounts, l \in Keys, u \in Sources : rows'[b][l][u] >= rows[b][l][u]
      BY <1>1, <2>4, CommitEffect
    <3>. QED
      BY <2>2, <2>3, <3>1, ReadKept
  <2>5. CASE ~ApprovalCommit(p)
    <3>1. rows' = rows
      BY <1>6, <2>5 DEF ApprovalStep, ApprovalCheck, ApprovalInsert, ApprovalVictim
    <3>. QED
      BY <1>2, <2>2, <2>3, <3>1
  <2>. QED
    BY <2>4, <2>5
<1>7. ASSUME NEW p \in Approvals, NEW a \in Accounts, NEW b \in Batches, ApprovalStart(p, a, b)
      PROVE  RowsRead'
  BY <1>2, <1>3, <1>7, LedgerAssumption DEF ApprovalStart, Writers
<1>8. ASSUME NEW e \in Entries, EntryInsert(e) PROVE RowsRead'
  <2>1. e \in Writers /\ e \notin Edits
    BY LedgerAssumption DEF Writers
  <2>2. edited' = edited /\ \E there : Finish(e, there)
    BY <1>8 DEF EntryInsert
  <2>3. \A d \in Edits : account'[d] = account[d]
    BY <1>3, <2>1, <2>2
  <2>4. /\ account[e] \in Accounts /\ Key(e) \in Keys
        /\ rows' = rows \/ Put(account[e], Key(e), "manual")
    BY <1>8, EntryEffect DEF Manual
  <2>. QED
    BY <1>1, <1>r, <2>2, <2>3, <2>4, PutEffect, ReadKept, SourceCases
<1>9. ASSUME NEW e \in Entries, NEW a \in Accounts, NEW k \in Keys, EntryCheck(e, a, k)
      PROVE  RowsRead'
  BY <1>2, <1>3, <1>9, LedgerAssumption DEF EntryCheck, Writers
<1>10. ASSUME NEW d \in Edits, EditSave(d) PROVE RowsRead'
  <2>1. /\ edited'[d] = NoRow
        /\ \A e \in Edits : e # d => edited'[e] = edited[e] /\ account'[e] = account[e]
    BY <1>10 DEF EditSave, Finish, TypeOK, Writers
  <2>. SUFFICES ASSUME NEW e \in Edits, e # d, edited[e].there
                PROVE  /\ rows'[account[e]][edited[e].key][edited[e].source] > 0
                       /\ \A f \in Edits : f # e /\ account'[f] = account[e]
                                           => edited'[f] # edited[e]
    BY <2>1 DEF RowsRead, NoRow
  <2>2. /\ rows[account[e]][edited[e].key][edited[e].source] > 0
        /\ \A f \in Edits : f # e /\ account[f] = account[e] => edited[f] # edited[e]
    BY DEF RowsRead
  <2>3. edited[e] \in Rows /\ account[e] \in Accounts
    BY RowThere DEF AtHome, TypeOK, Manual, NoRow
  <2>4. edited[e].key \in Keys /\ edited[e].source \in Sources
    BY <2>3 DEF Rows
  <2>5. edited[d] \in Rows
    BY <1>10 DEF EditSave, AtHome
  <2>6. ~(/\ edited[d].there /\ account[e] = account[d]
          /\ edited[e].key = edited[d].key /\ edited[e].source = edited[d].source)
    BY <2>2, <2>3, <2>5 DEF Rows
  <2>7. rows'[account[e]][edited[e].key][edited[e].source]
          >= rows[account[e]][edited[e].key][edited[e].source]
    BY <1>1, <1>10, <2>3, <2>4, <2>6, SaveEffect
  <2>8. \A f \in Edits : f # e /\ account'[f] = account[e] => edited'[f] # edited[e]
    BY <2>1, <2>2 DEF NoRow
  <2>. QED
    <3>1. rows'[account[e]][edited[e].key][edited[e].source] \in Nat
      BY <2>3, <2>4 DEF TypeOK
    <3>2. rows[account[e]][edited[e].key][edited[e].source] \in Nat
      BY <1>1, <2>3, <2>4
    <3>. QED
      BY <2>2, <2>7, <2>8, <3>1, <3>2
<1>11. ASSUME NEW d \in Edits, NEW a \in Accounts, NEW old \in Keys, NEW new \in Keys,
              NEW s \in Sources, EditRead(d, a, old, new, s)
       PROVE  RowsRead'
  <2>. DEFINE x == [key |-> old, source |-> s, there |-> TRUE]
  <2>1. /\ edited'[d] = x /\ account'[d] = a /\ rows' = rows
        /\ \A e \in Edits : e # d => edited'[e] = edited[e] /\ account'[e] = account[e]
    BY <1>11 DEF EditRead, Start, TypeOK, Writers
  <2>2. rows[a][old][s] > 0 /\ \A e \in Edits : account[e] = a => edited[e] # x
    BY <1>11 DEF EditRead, Readers
  <2>3. x.there /\ x.key = old /\ x.source = s
    OBVIOUS
  <2>. HIDE DEF x
  <2>. QED
    BY <2>1, <2>2, <2>3 DEF RowsRead
<1>12. ASSUME NEW a \in Accounts, NEW k \in Keys, NEW s \in Sources, Delete(a, k, s)
       PROVE  RowsRead'
  <2>. SUFFICES ASSUME NEW e \in Edits, edited'[e].there
                PROVE  /\ rows'[account[e]][edited'[e].key][edited'[e].source] > 0
                       /\ \A f \in Edits : f # e /\ account[f] = account[e]
                                           => edited'[f] # edited'[e]
    BY <1>12 DEF Delete, RowsRead
  <2>1. \A f \in Edits : \/ edited'[f] = edited[f]
                        \/ (edited[f] \in Rows /\ ~edited'[f].there)
    <3>1. \/ edited' = edited
          \/ \E d \in Readers(a, k, s) :
               /\ edited[d] \in Rows /\ ~edited'[d].there
               /\ \A f \in Edits : f # d => edited'[f] = edited[f]
      BY <1>12, DeleteEdits
    <3>2. CASE edited' = edited
      BY <3>2
    <3>3. ASSUME NEW d \in Readers(a, k, s), edited[d] \in Rows, ~edited'[d].there,
                 \A f \in Edits : f # d => edited'[f] = edited[f],
                 NEW f \in Edits
          PROVE  edited'[f] = edited[f] \/ (edited[f] \in Rows /\ ~edited'[f].there)
      <4>1. CASE f = d
        BY <3>3, <4>1
      <4>2. CASE f # d
        BY <3>3, <4>2
      <4>. QED
        BY <4>1, <4>2
    <3>. QED
      BY <3>1, <3>2, <3>3
  <2>2. edited'[e] = edited[e] /\ edited[e].there
    BY <2>1
  <2>3. edited[e] \in Rows /\ account[e] \in Accounts
    BY <2>2, RowThere DEF AtHome, TypeOK, Manual, NoRow
  <2>4. edited[e].key \in Keys /\ edited[e].source \in Sources
    BY <2>3 DEF Rows
  <2>5. CASE account[e] = a /\ edited[e].key = k /\ edited[e].source = s
    <3>1. e \in Readers(a, k, s)
      BY <2>2, <2>3, <2>5 DEF Readers, Rows
    <3>2. \A d \in Readers(a, k, s) : d = e
      BY <2>2, <2>5, <3>1 DEF Readers, RowsRead
    <3>3. rows[a][k][s] > 1
      BY <1>12, <2>2, <3>1, <3>2, DeleteEdits
    <3>. QED
      BY <1>1, <1>12, <2>1, <2>2, <2>5, <3>3, DeleteEffect DEF RowsRead
  <2>6. CASE ~(account[e] = a /\ edited[e].key = k /\ edited[e].source = s)
    BY <1>12, <2>1, <2>2, <2>3, <2>4, <2>6, DeleteEffect DEF RowsRead
  <2>. QED
    BY <2>5, <2>6
<1>13. ASSUME NEW a \in Accounts, AccountGone(a) PROVE RowsRead'
  <2>. SUFFICES ASSUME NEW e \in Edits, edited'[e].there
                PROVE  /\ rows'[account[e]][edited'[e].key][edited'[e].source] > 0
                       /\ \A f \in Edits : f # e /\ account[f] = account[e]
                                           => edited'[f] # edited'[e]
    BY <1>13 DEF AccountGone, RowsRead
  <2>1. \A f \in Edits : \/ edited'[f] = edited[f] /\ ~(account[f] = a /\ edited[f].there)
                        \/ ~edited'[f].there
    BY <1>13, RowLeft, RowThere DEF AccountGone, TypeOK
  <2>2. edited'[e] = edited[e] /\ edited[e].there /\ account[e] # a
    BY <2>1
  <2>3. edited[e] \in Rows /\ account[e] \in Accounts
    BY <2>2, RowThere DEF AtHome, TypeOK, Manual, NoRow
  <2>4. edited[e].key \in Keys /\ edited[e].source \in Sources
    BY <2>3 DEF Rows
  <2>. QED
    BY <1>13, <2>1, <2>2, <2>3, <2>4, GoneEffect DEF RowsRead
<1>14. CASE UNCHANGED vars
  BY <1>2, <1>14 DEF vars
<1>. QED
  BY <1>4, <1>5, <1>6, <1>7, <1>8, <1>9, <1>10, <1>11, <1>12, <1>13, <1>14 DEF Next

-----------------------------------------------------------------------------
(* Uniqueness                                                              *)

LEMMA CountTyped ==
  ASSUME TypeOK
  PROVE  \A a \in Accounts, k \in Keys : Count(a, k) \in Nat
  BY CountNat DEF TypeOK, RowCounts

LEMMA CountTypedNext ==
  ASSUME TypeOK'
  PROVE  \A a \in Accounts, k \in Keys : Count(a, k)' \in Nat
  BY SourceCases DEF Count, TypeOK

LEMMA CountLess ==
  ASSUME TypeOK, TypeOK',
         \A b \in Accounts, l \in Keys, u \in Sources : rows'[b][l][u] <= rows[b][l][u]
  PROVE  \A b \in Accounts, l \in Keys : Count(b, l)' <= Count(b, l)
  BY SourceCases DEF Count, TypeOK

\* Counts that do not grow, and approvals that hold no more than before.
LEMMA UniqueKept ==
  ASSUME TypeOK, TypeOK', KeyedRowsUnique,
         \A a \in Accounts, k \in Keys \ NullKeys : Count(a, k)' <= Count(a, k),
         \A p \in Approvals, a \in Accounts, k \in Keys :
           account'[p] = a /\ k \in pending'[p] => account[p] = a /\ k \in pending[p]
  PROVE  KeyedRowsUnique'
<1>. SUFFICES ASSUME NEW a \in Accounts, NEW k \in Keys \ NullKeys
              PROVE  /\ Count(a, k)' <= 1
                     /\ \A p \in Approvals : account'[p] = a /\ k \in pending'[p] =>
                          /\ Count(a, k)' = 0
                          /\ \A q \in Approvals \ {p} : account'[q] = a => k \notin pending'[q]
  BY DEF KeyedRowsUnique
<1>1. Count(a, k) \in Nat /\ Count(a, k)' \in Nat
  BY CountTyped, CountTypedNext
<1>2. /\ Count(a, k) <= 1 /\ Count(a, k)' <= Count(a, k)
      /\ \A p \in Approvals : account[p] = a /\ k \in pending[p] =>
           /\ Count(a, k) = 0
           /\ \A q \in Approvals \ {p} : account[q] = a => k \notin pending[q]
  BY DEF KeyedRowsUnique
<1>. HIDE DEF Count
<1>. QED
  BY <1>1, <1>2

\* A row of an identity that is not there and that no approval holds.
LEMMA UniquePut ==
  ASSUME TypeOK, TypeOK', KeyedRowsUnique,
         NEW a \in Accounts, NEW k \in Keys, NEW s \in Sources,
         Put(a, k, s), ~Violates(a, k),
         \A p \in Approvals : account[p] = a => k \notin pending[p] \ NullKeys,
         \A p \in Approvals : account'[p] = account[p] /\ pending'[p] = pending[p]
  PROVE  KeyedRowsUnique'
<1>1. \A b \in Accounts, l \in Keys :
        Count(b, l)' = IF b = a /\ l = k THEN Count(b, l) + 1 ELSE Count(b, l)
  BY PutEffect DEF TypeOK, RowCounts
<1>2. k \notin NullKeys => Count(a, k) = 0
  BY CountTyped DEF Violates, Held
<1>. QED
  BY <1>1, <1>2 DEF KeyedRowsUnique

\* A step that leaves the rows alone and approvals too, or ends one of them.
LEMMA UniqueQuiet ==
  ASSUME TypeOK, TypeOK', KeyedRowsUnique, rows' = rows,
         \A p \in Approvals : \/ account'[p] = account[p] /\ pending'[p] = pending[p]
                             \/ pending'[p] = {}
  PROVE  KeyedRowsUnique'
<1>1. \A a \in Accounts, k \in Keys : Count(a, k)' = Count(a, k)
  BY DEF Count
<1>2. \A a \in Accounts, k \in Keys : Count(a, k) \in Nat
  BY CountTyped
<1>. QED
  BY <1>1, <1>2, UniqueKept

LEMMA UniqueStep ==
  ASSUME TypeOK, TypeOK', AtHome, RowsRead, KeyedRowsUnique, [Next]_vars
  PROVE  KeyedRowsUnique'
<1>. USE LedgerAssumption DEF Writers
<1>1. ASSUME NEW t \in Tasks, TaskStep(t) \/ Lost(t) PROVE KeyedRowsUnique'
  <2>1. account' = account /\ pending' = pending
    BY <1>1 DEF TaskStep, Lost, Fetch, IngestCheck, IngestInsert, IngestPublish, local
  <2>2. CASE IngestInsert(t)
    <3>1. /\ account[t] \in Synced /\ Key(t) \in Keys
          /\ rows' = rows \/ (Put(account[t], Key(t), "synced") /\ ~Violates(account[t], Key(t)))
      BY <2>2, IngestEffect
    <3>2. \A p \in Approvals : account[p] = account[t] => pending[p] = {}
      BY <3>1 DEF AtHome, Manual
    <3>. QED
      BY <2>1, <3>1, <3>2, UniquePut, UniqueQuiet, SourceCases
  <2>3. CASE ~IngestInsert(t)
    <3>1. rows' = rows
      BY <1>1, <2>3 DEF TaskStep, Lost, Fetch, IngestCheck, IngestPublish
    <3>. QED
      BY <2>1, <3>1, UniqueQuiet
  <2>. QED
    BY <2>2, <2>3
<1>2. ASSUME NEW t \in Tasks, NEW a \in Accounts, NEW b \in Batches, Deliver(t, a, b)
      PROVE  KeyedRowsUnique'
  BY <1>2, UniqueQuiet DEF Deliver, Start, TypeOK
<1>3. ASSUME NEW p \in Approvals, ApprovalStep(p) PROVE KeyedRowsUnique'
  <2>1. CASE ApprovalCheck(p)
    BY <2>1, UniqueQuiet DEF ApprovalCheck
  <2>e. ASSUME NEW there \in {"done", "failed"}, ApprovalEnds(p, there)
        PROVE  /\ pending'[p] = {}
               /\ \A q \in Approvals : q # p => pending'[q] = pending[q] /\ account'[q] = account[q]
    BY <2>e, Finished DEF ApprovalEnds, TypeOK
  <2>2. CASE ApprovalInsert(p)
    <3>1. CASE Violates(account[p], Key(p))
      BY <2>2, <2>e, <3>1, UniqueQuiet DEF ApprovalInsert
    <3>2. CASE ~Violates(account[p], Key(p))
      <4>1. /\ rows' = rows /\ account' = account
            /\ pending' = [pending EXCEPT ![p] = @ \cup {Key(p)}]
            /\ Blockers(p, account[p], Key(p)) = {}
        BY <2>2, <3>2 DEF ApprovalInsert
      <4>2. account[p] \in Accounts /\ Key(p) \in Keys
        BY <2>2, KeyTyped DEF ApprovalInsert, AtHome, Manual
      <4>3. Key(p) \notin NullKeys => Count(account[p], Key(p)) = 0
        BY <3>2, <4>2, CountTyped DEF Violates, Held
      <4>4. \A q \in Approvals : q # p /\ account[q] = account[p] => Key(p) \notin pending[q] \ NullKeys
        BY <4>1 DEF Blockers
      <4>5. /\ pending'[p] = pending[p] \cup {Key(p)}
            /\ \A q \in Approvals : q # p => pending'[q] = pending[q]
        BY <4>1 DEF TypeOK
      <4>6. \A a \in Accounts, k \in Keys : Count(a, k)' = Count(a, k)
        BY <4>1 DEF Count
      <4>. QED
        BY <4>1, <4>2, <4>3, <4>4, <4>5, <4>6 DEF KeyedRowsUnique
    <3>. QED
      BY <3>1, <3>2
  <2>3. CASE ApprovalCommit(p)
    <3>. DEFINE a == account[p]
    <3>1. /\ a \in Manual /\ a \in Accounts
          /\ \A b \in Accounts, l \in Keys, u \in Sources :
               \/ rows'[b][l][u] = rows[b][l][u]
               \/ /\ b = a /\ l \in pending[p] /\ u = "statement"
                  /\ rows'[b][l][u] = rows[b][l][u] + 1
          /\ ApprovalEnds(p, "done") \/ ApprovalEnds(p, "failed")
      BY <2>3, CommitEffect DEF Manual
    <3>2. \A b \in Accounts, l \in Keys :
            \/ Count(b, l)' = Count(b, l)
            \/ b = a /\ l \in pending[p] /\ Count(b, l)' = Count(b, l) + 1
      <4>1. \A b \in Accounts, l \in Keys :
              /\ rows'[b][l]["manual"] = rows[b][l]["manual"]
              /\ rows'[b][l]["synced"] = rows[b][l]["synced"]
              /\ \/ rows'[b][l]["statement"] = rows[b][l]["statement"]
                 \/ /\ b = a /\ l \in pending[p]
                    /\ rows'[b][l]["statement"] = rows[b][l]["statement"] + 1
        BY <3>1, SourceCases
      <4>2. \A b \in Accounts, l \in Keys, u \in Sources : rows[b][l][u] \in Nat
        BY DEF TypeOK
      <4>. HIDE DEF a
      <4>. SUFFICES ASSUME NEW b \in Accounts, NEW l \in Keys
                    PROVE  \/ Count(b, l)' = Count(b, l)
                           \/ /\ b = a /\ l \in pending[p]
                              /\ Count(b, l)' = Count(b, l) + 1
        OBVIOUS
      <4>3. /\ rows[b][l]["statement"] \in Nat /\ rows[b][l]["manual"] \in Nat
            /\ rows[b][l]["synced"] \in Nat
        BY <4>2, SourceCases
      <4>. QED
        BY <4>1, <4>3 DEF Count
    <3>3. /\ pending'[p] = {}
          /\ \A q \in Approvals : q # p => pending'[q] = pending[q] /\ account'[q] = account[q]
      BY <2>e, <3>1
    <3>4. \A b \in Accounts, l \in Keys : Count(b, l) \in Nat /\ Count(b, l)' \in Nat
      BY CountTyped, CountTypedNext
    <3>. HIDE DEF a
    <3>5. \A l \in Keys \ NullKeys : l \in pending[p] =>
            Count(a, l) = 0 /\ \A q \in Approvals \ {p} : account[q] = a => l \notin pending[q]
      BY <3>1 DEF KeyedRowsUnique, a
    <3>. QED
      BY <3>2, <3>3, <3>4, <3>5 DEF KeyedRowsUnique
  <2>4. CASE ApprovalVictim(p)
    BY <2>4, <2>e, UniqueQuiet DEF ApprovalVictim
  <2>. QED
    BY <1>3, <2>1, <2>2, <2>3, <2>4 DEF ApprovalStep
<1>4. ASSUME NEW p \in Approvals, NEW a \in Accounts, NEW b \in Batches, ApprovalStart(p, a, b)
      PROVE  KeyedRowsUnique'
  <2>1. pending[p] = {}
    BY <1>4 DEF ApprovalStart, Start, AtHome
  <2>2. /\ rows' = rows /\ pending' = pending
        /\ \A q \in Approvals : q # p => account'[q] = account[q]
    BY <1>4 DEF ApprovalStart, Start, TypeOK
  <2>. QED
    BY <2>1, <2>2, UniqueQuiet
<1>5. ASSUME NEW e \in Entries, EntryInsert(e) PROVE KeyedRowsUnique'
  <2>1. /\ account[e] \in Accounts /\ Key(e) \in Keys /\ Blockers(e, account[e], Key(e)) = {}
        /\ rows' = rows \/ (Put(account[e], Key(e), "manual") /\ ~Violates(account[e], Key(e)))
    BY <1>5, EntryEffect DEF Manual
  <2>2. \A p \in Approvals : account'[p] = account[p] /\ pending'[p] = pending[p]
    BY <1>5, Finished DEF EntryInsert
  <2>3. \A p \in Approvals : account[p] = account[e] => Key(e) \notin pending[p] \ NullKeys
    BY <2>1 DEF Blockers
  <2>. QED
    BY <2>1, <2>2, <2>3, UniquePut, UniqueQuiet, SourceCases
<1>6. ASSUME NEW e \in Entries, NEW a \in Accounts, NEW k \in Keys, EntryCheck(e, a, k)
      PROVE  KeyedRowsUnique'
  BY <1>6, UniqueQuiet DEF EntryCheck, Start, TypeOK
<1>7. ASSUME NEW d \in Edits, EditSave(d) PROVE KeyedRowsUnique'
  <2>. DEFINE a == account[d]
              new == Key(d)
              old == edited[d].key
              s == edited[d].source
              there == edited[d].there
              own(b, l, u) == there /\ b = a /\ l = old /\ u = s
              its(b, l, u) == b = a /\ l = new /\ u = s
  <2>1. /\ a \in Manual /\ new \in Keys /\ old \in Keys /\ s \in Sources
        /\ Blockers(d, a, new) = {}
        /\ there => rows[a][old][s] > 0
        /\ \/ rows' = rows
           \/ /\ Violates(a, new) => there /\ new = old
              /\ \A b \in Accounts, l \in Keys, u \in Sources :
                   rows'[b][l][u] = rows[b][l][u] - (IF own(b, l, u) THEN 1 ELSE 0)
                                                  + (IF its(b, l, u) THEN 1 ELSE 0)
    BY <1>7, SaveEffect
  <2>2. \A p \in Approvals : account'[p] = account[p] /\ pending'[p] = pending[p]
    BY <1>7, Finished DEF EditSave
  <2>3. \A p \in Approvals : account[p] = a => new \notin pending[p] \ NullKeys
    BY <2>1 DEF Blockers
  <2>4. CASE rows' = rows
    BY <2>2, <2>4, UniqueQuiet
  <2>5. CASE rows' # rows
    <3>1. a \in Accounts /\ (Violates(a, new) => there /\ new = old)
      BY <2>1, <2>5 DEF Manual
    <3>2. \A b \in Accounts, l \in Keys, u \in Sources :
            rows'[b][l][u] = rows[b][l][u] - (IF own(b, l, u) THEN 1 ELSE 0)
                                           + (IF its(b, l, u) THEN 1 ELSE 0)
      BY <2>1, <2>5
    <3>3. \A b \in Accounts, l \in Keys :
            Count(b, l)' = Count(b, l) - (IF there /\ b = a /\ l = old THEN 1 ELSE 0)
                                       + (IF b = a /\ l = new THEN 1 ELSE 0)
      <4>1. s = "statement" \/ s = "manual" \/ s = "synced"
        BY <2>1, SourceCases
      <4>2. \A b \in Accounts, l \in Keys, u \in Sources : rows[b][l][u] \in Nat
        BY DEF TypeOK
      <4>. HIDE DEF a, new, old, s, there
      <4>. SUFFICES ASSUME NEW b \in Accounts, NEW l \in Keys
                    PROVE  Count(b, l)' = Count(b, l)
                             - (IF there /\ b = a /\ l = old THEN 1 ELSE 0)
                             + (IF b = a /\ l = new THEN 1 ELSE 0)
        OBVIOUS
      <4>3. \A u \in Sources :
              rows'[b][l][u] = rows[b][l][u]
                - (IF there /\ b = a /\ l = old /\ u = s THEN 1 ELSE 0)
                + (IF b = a /\ l = new /\ u = s THEN 1 ELSE 0)
        BY <3>2
      <4>4. /\ rows[b][l]["statement"] \in Nat /\ rows[b][l]["manual"] \in Nat
            /\ rows[b][l]["synced"] \in Nat
        BY <4>2, SourceCases
      <4>5. CASE s = "statement"
        <5>1. /\ rows'[b][l]["manual"] = rows[b][l]["manual"]
              /\ rows'[b][l]["synced"] = rows[b][l]["synced"]
              /\ rows'[b][l]["statement"] = rows[b][l]["statement"]
                   - (IF there /\ b = a /\ l = old THEN 1 ELSE 0)
                   + (IF b = a /\ l = new THEN 1 ELSE 0)
          BY <4>2, <4>3, <4>5, SourceCases
        <5>. QED
          BY <4>4, <5>1 DEF Count
      <4>6. CASE s = "manual"
        <5>1. /\ rows'[b][l]["statement"] = rows[b][l]["statement"]
              /\ rows'[b][l]["synced"] = rows[b][l]["synced"]
              /\ rows'[b][l]["manual"] = rows[b][l]["manual"]
                   - (IF there /\ b = a /\ l = old THEN 1 ELSE 0)
                   + (IF b = a /\ l = new THEN 1 ELSE 0)
          BY <4>2, <4>3, <4>6, SourceCases
        <5>. QED
          BY <4>4, <5>1 DEF Count
      <4>7. CASE s = "synced"
        <5>1. /\ rows'[b][l]["statement"] = rows[b][l]["statement"]
              /\ rows'[b][l]["manual"] = rows[b][l]["manual"]
              /\ rows'[b][l]["synced"] = rows[b][l]["synced"]
                   - (IF there /\ b = a /\ l = old THEN 1 ELSE 0)
                   + (IF b = a /\ l = new THEN 1 ELSE 0)
          BY <4>2, <4>3, <4>7, SourceCases
        <5>. QED
          BY <4>4, <5>1 DEF Count
      <4>. QED
        BY <4>1, <4>5, <4>6, <4>7
    <3>4. \A b \in Accounts, l \in Keys : Count(b, l) \in Nat /\ Count(b, l)' \in Nat
      BY CountTyped, CountTypedNext
    <3>5. new \notin NullKeys => Count(a, new) = 0 \/ (there /\ new = old)
      BY <2>1, <3>1, <3>4 DEF Violates, Held
    <3>. HIDE DEF a, new, old, s, there
    <3>. QED
      <4>. SUFFICES ASSUME NEW b \in Accounts, NEW l \in Keys \ NullKeys
                    PROVE  /\ Count(b, l)' <= 1
                           /\ \A p \in Approvals : account[p] = b /\ l \in pending[p] =>
                                /\ Count(b, l)' = 0
                                /\ \A q \in Approvals \ {p} : account[q] = b => l \notin pending[q]
        BY <2>2 DEF KeyedRowsUnique
      <4>1. /\ Count(b, l) <= 1 /\ Count(b, l) \in Nat /\ Count(b, l)' \in Nat
            /\ \A p \in Approvals : account[p] = b /\ l \in pending[p] =>
                 /\ Count(b, l) = 0
                 /\ \A q \in Approvals \ {p} : account[q] = b => l \notin pending[q]
        BY <3>4 DEF KeyedRowsUnique
      <4>2. CASE b = a /\ l = new
        <5>1. Count(b, l)' = Count(b, l) + 1 - (IF there /\ l = old THEN 1 ELSE 0)
          BY <3>3, <4>1, <4>2
        <5>2. Count(b, l)' <= 1
          BY <3>5, <4>1, <4>2, <5>1
        <5>3. \A p \in Approvals : account[p] = b => l \notin pending[p]
          BY <2>3, <4>2
        <5>. QED
          BY <5>2, <5>3
      <4>3. CASE ~(b = a /\ l = new)
        <5>1. Count(b, l)' <= Count(b, l)
          BY <3>3, <4>1, <4>3
        <5>. QED
          BY <4>1, <5>1
      <4>. QED
        BY <4>2, <4>3
  <2>. QED
    BY <2>4, <2>5
<1>8. ASSUME NEW d \in Edits, NEW a \in Accounts, NEW old \in Keys, NEW new \in Keys,
             NEW s \in Sources, EditRead(d, a, old, new, s)
      PROVE  KeyedRowsUnique'
  BY <1>8, UniqueQuiet DEF EditRead, Start, TypeOK
<1>9. ASSUME NEW a \in Accounts, NEW k \in Keys, NEW s \in Sources, Delete(a, k, s)
      PROVE  KeyedRowsUnique'
  <2>1. \A b \in Accounts, l \in Keys, u \in Sources : rows'[b][l][u] <= rows[b][l][u]
    <3>1. \A b \in Accounts, l \in Keys, u \in Sources : rows[b][l][u] \in Nat
      BY DEF TypeOK
    <3>. QED
      BY <1>9, <3>1, DeleteEffect
  <2>2. account' = account /\ pending' = pending
    BY <1>9 DEF Delete
  <2>. QED
    BY <2>1, <2>2, CountLess, UniqueKept
<1>10. ASSUME NEW a \in Accounts, AccountGone(a) PROVE KeyedRowsUnique'
  <2>1. \A b \in Accounts, l \in Keys, u \in Sources : rows'[b][l][u] <= rows[b][l][u]
    <3>1. \A b \in Accounts, l \in Keys, u \in Sources : rows[b][l][u] \in Nat
      BY DEF TypeOK
    <3>. QED
      BY <1>10, <3>1, GoneEffect
  <2>2. account' = account /\ pending' = pending
    BY <1>10 DEF AccountGone
  <2>. QED
    BY <2>1, <2>2, CountLess, UniqueKept
<1>11. CASE UNCHANGED vars
  BY <1>11, UniqueQuiet DEF vars
<1>. QED
  BY <1>1, <1>2, <1>3, <1>4, <1>5, <1>6, <1>7, <1>8, <1>9, <1>10, <1>11 DEF Next

-----------------------------------------------------------------------------
(* The theorems                                                            *)

LEMMA LedgerInit == Init => LedgerInv
<1>. SUFFICES ASSUME Init PROVE LedgerInv
  OBVIOUS
<1>1. TypeOK /\ AtHome
  BY InitTyped, InitAtHome
<1>2. \A a \in Accounts, k \in Keys, s \in Sources : rows[a][k][s] = 0
  BY DEF Init, NoRows
<1>3. \A a \in Accounts, k \in Keys : Count(a, k) = 0
  BY <1>2, SourceCases DEF Count
<1>4. RowsRead
  BY DEF Init, NoRow, RowsRead
<1>5. KeyedRowsUnique
  BY <1>3 DEF Init, KeyedRowsUnique
<1>6. SyncedRowsFromBank
  BY <1>2 DEF SyncedRowsFromBank
<1>. QED
  BY <1>1, <1>4, <1>5, <1>6 DEF LedgerInv

LEMMA LedgerStep == LedgerInv /\ [Next]_vars => LedgerInv'
<1>. SUFFICES ASSUME LedgerInv, [Next]_vars PROVE LedgerInv'
  OBVIOUS
<1>. USE DEF LedgerInv
<1>1. TypeOK'
  BY TypeStep
<1>2. AtHome' /\ SyncedRowsFromBank'
  BY HomeStep, FromBankStep
<1>3. RowsRead' /\ KeyedRowsUnique'
  BY <1>1, ReadStep, UniqueStep
<1>. QED
  BY <1>1, <1>2, <1>3

\* The ledger and its writers are well typed; in particular no save of an edit
\* takes away a row that is not there.
THEOREM LedgerTyping == Spec => []TypeOK
<1>1. LedgerInv => TypeOK
  BY DEF LedgerInv
<1>. QED
  BY <1>1, LedgerInit, LedgerStep, PTL DEF Spec

\* However the tasks, approvals, entries, edits and deletions interleave, with any
\* number of workers, no identity the constraint covers gets two rows, and two
\* approvals never hold the same one uncommitted.
THEOREM RowsUnique == Spec => []KeyedRowsUnique
<1>1. LedgerInv => KeyedRowsUnique
  BY DEF LedgerInv
<1>. QED
  BY <1>1, LedgerInit, LedgerStep, PTL DEF Spec

\* Rows of a synced account come from ingestion only, and those of other accounts
\* never do: an edit keeps its row where it was, whenever it saves it.
THEOREM RowsFromBank == Spec => []SyncedRowsFromBank
<1>1. LedgerInv => SyncedRowsFromBank
  BY DEF LedgerInv
<1>. QED
  BY <1>1, LedgerInit, LedgerStep, PTL DEF Spec

\* What a step does to the rows of a synced account is the insertion of a task.
LEMMA SyncedStep ==
  ASSUME LedgerInv, [Next]_vars, NEW a \in Synced, NEW k \in Keys
  PROVE  \/ Count(a, k)' = Count(a, k)
         \/ \E t \in Tasks : /\ IngestInsert(t) /\ account[t] = a /\ Key(t) = k
                            /\ Count(a, k)' = Count(a, k) + 1
<1>. USE DEF LedgerInv
<1>1. a \in Accounts /\ a \notin Manual
  BY LedgerAssumption DEF Manual
<1>2. rows \in RowCounts
  BY DEF TypeOK, RowCounts
<1>3. (\A u \in Sources : rows'[a][k][u] = rows[a][k][u]) => Count(a, k)' = Count(a, k)
  BY SourceCases DEF Count
<1>4. ASSUME NEW t \in Tasks, IngestInsert(t)
      PROVE  \/ Count(a, k)' = Count(a, k)
             \/ account[t] = a /\ Key(t) = k /\ Count(a, k)' = Count(a, k) + 1
  <2>1. /\ account[t] \in Accounts /\ Key(t) \in Keys
        /\ rows' = rows \/ Put(account[t], Key(t), "synced")
    BY <1>4, IngestEffect, LedgerAssumption
  <2>. QED
    BY <1>1, <1>2, <1>3, <2>1, PutEffect, SourceCases
<1>5. ASSUME NEW p \in Approvals, ApprovalCommit(p) PROVE Count(a, k)' = Count(a, k)
  BY <1>1, <1>3, <1>5, CommitEffect
<1>6. ASSUME NEW e \in Entries, EntryInsert(e) PROVE Count(a, k)' = Count(a, k)
  <2>1. /\ account[e] \in Manual /\ account[e] \in Accounts /\ Key(e) \in Keys
        /\ rows' = rows \/ Put(account[e], Key(e), "manual")
    BY <1>6, EntryEffect DEF Manual
  <2>. QED
    BY <1>1, <1>2, <1>3, <2>1, PutEffect, SourceCases
<1>7. ASSUME NEW d \in Edits, EditSave(d) PROVE Count(a, k)' = Count(a, k)
  <2>1. \A u \in Sources : rows[a][k][u] \in Nat
    BY <1>1 DEF TypeOK
  <2>. QED
    BY <1>1, <1>3, <1>7, <2>1, SaveEffect
<1>8. ASSUME NEW b \in Accounts, NEW l \in Keys, NEW s \in Sources, Delete(b, l, s)
      PROVE  Count(a, k)' = Count(a, k)
  BY <1>1, <1>3, <1>8, DeleteEffect
<1>9. ASSUME NEW b \in Accounts, AccountGone(b) PROVE Count(a, k)' = Count(a, k)
  BY <1>1, <1>3, <1>9, GoneEffect
<1>10. ASSUME rows' = rows PROVE Count(a, k)' = Count(a, k)
  BY <1>10 DEF Count
<1>. QED
  BY <1>4, <1>5, <1>6, <1>7, <1>8, <1>9, <1>10, RowsChange

\* No step of anybody takes a row of a synced account away.
THEOREM HistoryKept == Spec => SyncedHistoryKept
<1>1. LedgerInv /\ [Next]_vars
        => [\A a \in Synced, k \in Keys : Count(a, k)' >= Count(a, k)]_rows
  <2>. SUFFICES ASSUME LedgerInv, [Next]_vars, NEW a \in Synced, NEW k \in Keys
                PROVE  Count(a, k)' >= Count(a, k)
    OBVIOUS
  <2>1. Count(a, k) \in Nat
    BY CountTyped, LedgerAssumption DEF LedgerInv
  <2>. QED
    BY <2>1, SyncedStep
<1>. QED
  BY <1>1, LedgerInit, LedgerStep, PTL DEF Spec, SyncedHistoryKept
(***************************************************************************)
(* What a worker that runs one task at a time adds: a task that has looked *)
(* for a row inserts before anybody else writes to the account, so even    *)
(* rows the unique constraint does not cover are ingested once.            *)
(***************************************************************************)

Running(t) == pc[t] \in {"checking", "inserting"}

\* One task runs, and what it saw when it looked still holds when it inserts.
SerialInv ==
  /\ \A t, u \in Tasks : Running(t) /\ Running(u) => t = u
  /\ \A t \in Tasks : pc[t] = "inserting" => Count(account[t], Key(t)) = 0
  /\ SyncedOnce

LEMMA SerialInit == Init => SerialInv
<1>. SUFFICES ASSUME Init PROVE SerialInv
  OBVIOUS
<1>1. \A a \in Accounts, k \in Keys : Count(a, k) = 0
  BY SourceCases DEF Init, NoRows, Count
<1>2. \A t \in Tasks : pc[t] = "idle"
  BY DEF Init, Writers
<1>. QED
  BY <1>1, <1>2, LedgerAssumption DEF SerialInv, Running, SyncedOnce

LEMMA SerialStep ==
  ASSUME WorkerSlots = 1, LedgerInv, SerialInv, [Next]_vars
  PROVE  SerialInv'
<1>. USE DEF Writers
<1>0. TypeOK
  BY DEF LedgerInv
<1>1. ASSUME NEW t \in Tasks, Fetch(t) PROVE SerialInv'
  <2>1. \A u \in Tasks : ~Running(u)
    <3>. DEFINE R == {u \in Tasks : pc[u] \in {"checking", "inserting"}}
    <3>1. IsFiniteSet(R)
      BY LedgerAssumption, FS_Subset
    <3>2. Cardinality(R) = 0
      BY <1>1, <3>1, FS_CardinalityType DEF Fetch
    <3>3. R = {}
      BY <3>1, <3>2, FS_EmptySet
    <3>. QED
      BY <3>3 DEF Running
  <2>2. pc' = [pc EXCEPT ![t] = "checking"] /\ rows' = rows /\ account' = account /\ todo' = todo
    BY <1>1 DEF Fetch, Goto, local
  <2>3. \A u \in Tasks : pc'[u] = IF u = t THEN "checking" ELSE pc[u]
    BY <1>0, <2>2 DEF TypeOK
  <2>4. SyncedOnce'
    BY <2>2 DEF SerialInv, SyncedOnce, Count
  <2>5. \A u, v \in Tasks : Running(u)' /\ Running(v)' => u = v
    BY <2>1, <2>3 DEF Running
  <2>6. \A u \in Tasks : pc'[u] # "inserting"
    BY <2>1, <2>3 DEF Running
  <2>. QED
    BY <2>4, <2>5, <2>6 DEF SerialInv
<1>2. ASSUME NEW t \in Tasks, IngestCheck(t) PROVE SerialInv'
  <2>1. \A u \in Tasks : u # t => pc[u] # "inserting" /\ pc'[u] = pc[u]
    BY <1>0, <1>2 DEF IngestCheck, Goto, SerialInv, Running, TypeOK
  <2>2. rows' = rows /\ account' = account
    BY <1>2 DEF IngestCheck
  <2>3. pc'[t] = "checking" \/ (pc'[t] = "inserting" /\ todo' = todo /\ ~Held(account[t], Key(t)))
    BY <1>0, <1>2 DEF IngestCheck, Goto, TypeOK
  <2>4. \A u, v \in Tasks : Running(u)' /\ Running(v)' => u = v
    BY <1>2, <2>1 DEF IngestCheck, SerialInv, Running
  <2>5. ASSUME pc'[t] = "inserting" PROVE Count(account[t], Key(t))' = 0
    <3>1. account[t] \in Accounts /\ Key(t) \in Keys
      BY <1>2, KeyTyped, LedgerAssumption DEF IngestCheck, LedgerInv, AtHome
    <3>2. Count(account[t], Key(t)) \in Nat /\ ~(Count(account[t], Key(t)) > 0)
      BY <1>0, <2>3, <2>5, <3>1, CountTyped DEF Held
    <3>. QED
      BY <2>2, <2>3, <2>5, <3>2 DEF Count, Key
  <2>6. SyncedOnce'
    BY <2>2 DEF SerialInv, SyncedOnce, Count
  <2>. QED
    BY <2>1, <2>4, <2>5, <2>6 DEF SerialInv
<1>3. ASSUME NEW t \in Tasks, IngestInsert(t) PROVE SerialInv'
  <2>1. \A u \in Tasks : u # t => ~Running(u) /\ pc'[u] = pc[u]
    BY <1>0, <1>3 DEF IngestInsert, Goto, SerialInv, Running, TypeOK
  <2>2. pc'[t] \in {"checking", "failed"}
    BY <1>0, <1>3 DEF IngestInsert, Goto, TypeOK
  <2>3. \A u, v \in Tasks : Running(u)' /\ Running(v)' => u = v
    BY <2>1 DEF Running
  <2>4. \A u \in Tasks : pc'[u] # "inserting"
    BY <2>1, <2>2 DEF Running
  <2>5. SyncedOnce'
    <3>. SUFFICES ASSUME NEW a \in Synced, NEW k \in Keys PROVE Count(a, k)' <= 1
      BY DEF SyncedOnce
    <3>1. Count(a, k) <= 1 /\ Count(a, k) \in Nat
      BY <1>0, CountTyped, LedgerAssumption DEF SerialInv, SyncedOnce
    <3>2. ASSUME NEW u \in Tasks, IngestInsert(u), account[u] = a, Key(u) = k PROVE Count(a, k) = 0
      BY <3>2 DEF IngestInsert, SerialInv
    <3>. QED
      BY <3>1, <3>2, SyncedStep
  <2>. QED
    BY <2>3, <2>4, <2>5 DEF SerialInv
<1>4. ASSUME NEW t \in Tasks, IngestPublish(t) \/ Lost(t) PROVE SerialInv'
  <2>1. /\ pc'[t] \in {"done", "lost"} /\ account' = account /\ todo' = todo /\ rows' = rows
        /\ \A u \in Tasks : u # t => pc'[u] = pc[u]
    BY <1>0, <1>4 DEF IngestPublish, Lost, Goto, TypeOK, local
  <2>2. \A u, v \in Tasks : Running(u)' /\ Running(v)' => u = v
    BY <2>1 DEF SerialInv, Running
  <2>. QED
    BY <2>1, <2>2 DEF SerialInv, SyncedOnce, Count, Key
<1>5. ASSUME NEW t \in Tasks, NEW a \in Accounts, NEW b \in Batches, Deliver(t, a, b)
      PROVE  SerialInv'
  <2>1. /\ pc'[t] = "queued" /\ rows' = rows
        /\ \A u \in Tasks : u # t => /\ pc'[u] = pc[u] /\ account'[u] = account[u]
                                     /\ todo'[u] = todo[u]
    BY <1>0, <1>5 DEF Deliver, Start, Goto, TypeOK
  <2>2. \A u, v \in Tasks : Running(u)' /\ Running(v)' => u = v
    BY <2>1 DEF SerialInv, Running
  <2>3. ASSUME NEW u \in Tasks, pc'[u] = "inserting" PROVE Count(account[u], Key(u))' = 0
    BY <2>1, <2>3 DEF SerialInv, Count, Key
  <2>. QED
    BY <2>1, <2>2, <2>3 DEF SerialInv, SyncedOnce, Count
<1>6. ASSUME \A t \in Tasks : pc'[t] = pc[t] /\ account'[t] = account[t] /\ todo'[t] = todo[t]
      PROVE  SerialInv'
  <2>0. \A t \in Tasks : ~IngestInsert(t)
    BY <1>0, <1>6 DEF IngestInsert, Goto, TypeOK
  <2>1. \A a \in Synced, k \in Keys : Count(a, k)' = Count(a, k)
    BY <2>0, SyncedStep
  <2>2. ASSUME NEW u \in Tasks, pc'[u] = "inserting" PROVE Count(account[u], Key(u))' = 0
    <3>1. pc[u] = "inserting" /\ account'[u] = account[u] /\ Key(u)' = Key(u)
      BY <1>6, <2>2 DEF Key
    <3>2. account[u] \in Synced /\ Key(u) \in Keys
      BY <1>0, <3>1, KeyTyped DEF LedgerInv, AtHome
    <3>3. Count(account[u], Key(u)) = 0
      BY <3>1 DEF SerialInv
    <3>. QED
      BY <2>1, <3>1, <3>2, <3>3 DEF Count
  <2>3. \A u, v \in Tasks : Running(u)' /\ Running(v)' => u = v
    BY <1>6 DEF SerialInv, Running
  <2>4. SyncedOnce'
    BY <2>1 DEF SerialInv, SyncedOnce
  <2>. QED
    BY <2>2, <2>3, <2>4 DEF SerialInv
<1>7. ASSUME NEW w \in Writers, w \notin Tasks, NEW there,
             \/ Finish(w, there)
             \/ \E a, keys : Start(w, a, keys, there)
             \/ Goto(w, there) /\ account' = account /\ (todo' = todo \/ Next1(w))
      PROVE  SerialInv'
  <2>1. \A t \in Tasks : pc'[t] = pc[t] /\ account'[t] = account[t] /\ todo'[t] = todo[t]
    BY <1>0, <1>7 DEF Finish, Start, Goto, Next1, TypeOK
  <2>. QED
    BY <1>6, <2>1
<1>8. ASSUME NEW p \in Approvals, ApprovalStep(p) PROVE SerialInv'
  <2>1. p \in Writers /\ p \notin Tasks
    BY LedgerAssumption
  <2>2. CASE ApprovalCheck(p)
    <3>1. \A t \in Tasks : pc'[t] = pc[t] /\ account'[t] = account[t] /\ todo'[t] = todo[t]
      BY <1>0, <2>1, <2>2 DEF ApprovalCheck, Goto, Next1, TypeOK
    <3>. QED
      BY <1>6, <3>1
  <2>3. CASE ApprovalInsert(p)
    BY <1>7, <2>1, <2>3 DEF ApprovalInsert, ApprovalEnds
  <2>4. CASE ApprovalCommit(p) \/ ApprovalVictim(p)
    BY <1>7, <2>1, <2>4 DEF ApprovalCommit, ApprovalVictim, ApprovalEnds
  <2>. QED
    BY <1>8, <2>2, <2>3, <2>4 DEF ApprovalStep
<1>9. ASSUME NEW p \in Approvals, NEW a \in Accounts, NEW b \in Batches, ApprovalStart(p, a, b)
      PROVE  SerialInv'
  BY <1>7, <1>9, LedgerAssumption DEF ApprovalStart
<1>10. ASSUME NEW e \in Entries, \/ EntryInsert(e)
                               \/ \E a \in Accounts, k \in Keys : EntryCheck(e, a, k)
       PROVE  SerialInv'
  BY <1>7, <1>10, LedgerAssumption DEF EntryInsert, EntryCheck
<1>11. ASSUME NEW d \in Edits, \/ EditSave(d)
                             \/ \E a \in Accounts, old, new \in Keys, s \in Sources :
                                  EditRead(d, a, old, new, s)
       PROVE  SerialInv'
  BY <1>7, <1>11, LedgerAssumption DEF EditSave, EditRead
<1>12. ASSUME NEW a \in Accounts, \/ AccountGone(a)
                                \/ \E k \in Keys, s \in Sources : Delete(a, k, s)
       PROVE  SerialInv'
  BY <1>6, <1>12 DEF AccountGone, Delete
<1>13. CASE UNCHANGED vars
  BY <1>6, <1>13 DEF vars
<1>. QED
  BY <1>1, <1>2, <1>3, <1>4, <1>5, <1>8, <1>9, <1>10, <1>11, <1>12, <1>13 DEF Next, TaskStep

\* If the worker runs one task at a time, what a bank pushes again and again is in
\* the ledger once, rows with a NULL merchant or type included: no database
\* constraint does this, only is_duplicate() and the order of the tasks.
THEOREM PushedOnce ==
  ASSUME WorkerSlots = 1
  PROVE  Spec => []SyncedOnce
<1>1. LedgerInv /\ SerialInv /\ [Next]_vars => SerialInv'
  BY SerialStep
<1>2. SerialInv => SyncedOnce
  BY DEF SerialInv
<1>. QED
  BY <1>1, <1>2, LedgerInit, LedgerStep, SerialInit, PTL DEF Spec

-----------------------------------------------------------------------------
(* What a task has seen of its batch is in the ledger                      *)

Seen(t) == Len(batch[t]) - Len(todo[t])

HeldIn(R, a, k) == R[a][k]["statement"] + R[a][k]["manual"] + R[a][k]["synced"] > 0

\* The batch of a task is what it has seen, which is in the ledger, and what it has
\* still to look at.
Covered(t) ==
  /\ Len(todo[t]) <= Len(batch[t])
  /\ \A i \in 1..Len(batch[t]) :
       IF i <= Seen(t) THEN HeldIn(rows, account[t], batch[t][i])
       ELSE batch[t][i] = todo[t][i - Seen(t)]

PushInv ==
  \A t \in Tasks :
    /\ pc[t] # "failed"
    /\ pc[t] \in {"queued", "checking", "inserting", "done"} => Covered(t)
    /\ pc[t] = "done" => todo[t] = <<>>

LEMMA HeldKept ==
  ASSUME LedgerInv, [Next]_vars, NEW a \in Synced, NEW k \in Keys, HeldIn(rows, a, k)
  PROVE  HeldIn(rows', a, k)
<1>1. Count(a, k) \in Nat
  BY CountTyped, LedgerAssumption DEF LedgerInv
<1>2. Count(a, k) > 0
  BY DEF HeldIn, Count
<1>3. Count(a, k)' \in Nat /\ Count(a, k)' > 0
  BY <1>1, <1>2, SyncedStep
<1>4. Count(a, k)' = rows'[a][k]["statement"] + rows'[a][k]["manual"] + rows'[a][k]["synced"]
  BY DEF Count
<1>. QED
  BY <1>3, <1>4 DEF HeldIn

LEMMA CoveredStays ==
  ASSUME LedgerInv, [Next]_vars, NEW t \in Tasks, pc[t] # "idle", Covered(t),
         account'[t] = account[t], todo'[t] = todo[t], batch'[t] = batch[t]
  PROVE  Covered(t)'
<1>1. account[t] \in Synced /\ batch[t] \in Seq(Keys) /\ todo[t] \in Seq(Keys)
  BY DEF LedgerInv, AtHome, TypeOK, Writers
<1>2. Seen(t)' = Seen(t)
  BY DEF Seen
<1>3. ASSUME NEW i \in 1..Len(batch[t]), HeldIn(rows, account[t], batch[t][i])
      PROVE  HeldIn(rows', account[t], batch[t][i])
  <2>1. batch[t][i] \in Keys
    BY <1>1
  <2>. QED
    BY <1>1, <1>3, <2>1, HeldKept
<1>. QED
  BY <1>1, <1>2, <1>3 DEF Covered

LEMMA TailOf ==
  ASSUME NEW r \in Seq(Keys), r # <<>>
  PROVE  /\ Len(r) \in Nat \ {0} /\ Len(Tail(r)) = Len(r) - 1 /\ Head(r) = r[1]
         /\ \A i \in 1..(Len(r) - 1) : Tail(r)[i] = r[i + 1]
  OBVIOUS

LEMMA CoveredOn ==
  ASSUME LedgerInv, [Next]_vars, NEW t \in Tasks, pc[t] # "idle", Covered(t),
         account'[t] = account[t], batch'[t] = batch[t],
         todo[t] # <<>>, todo'[t] = Tail(todo[t]), HeldIn(rows', account[t], Key(t))
  PROVE  Covered(t)'
<1>1. account[t] \in Synced /\ batch[t] \in Seq(Keys) /\ todo[t] \in Seq(Keys)
  BY DEF LedgerInv, AtHome, TypeOK, Writers
<1>2. PICK a, b, r : a = account[t] /\ b = batch[t] /\ r = todo[t]
  OBVIOUS
<1>3. PICK n : n = Len(b) - Len(r)
  OBVIOUS
<1>4. a \in Synced /\ b \in Seq(Keys) /\ r \in Seq(Keys) /\ r # <<>>
  BY <1>1, <1>2
<1>5. /\ Len(r) \in Nat \ {0} /\ Len(Tail(r)) = Len(r) - 1 /\ Key(t) = r[1]
      /\ \A i \in 1..(Len(r) - 1) : Tail(r)[i] = r[i + 1]
  BY <1>2, <1>4, TailOf DEF Key
<1>6. /\ Len(b) \in Nat /\ \A i \in 1..Len(b) : b[i] \in Keys
  BY <1>4
<1>7. /\ Len(r) <= Len(b)
      /\ \A i \in 1..Len(b) : IF i <= n THEN HeldIn(rows, a, b[i]) ELSE b[i] = r[i - n]
  BY <1>2, <1>3 DEF Covered, Seen
<1>8. n \in Nat
  BY <1>3, <1>5, <1>6, <1>7
<1>9. ASSUME NEW i \in 1..Len(b), i <= n PROVE HeldIn(rows', a, b[i])
  BY <1>4, <1>6, <1>7, <1>9, HeldKept
<1>10. ASSUME NEW i \in 1..Len(b), i = n + 1 PROVE HeldIn(rows', a, b[i])
  <2>1. ~(i <= n) /\ i - n = 1
    BY <1>8, <1>10
  <2>2. b[i] = Key(t)
    BY <1>5, <1>7, <2>1
  <2>. QED
    BY <1>2, <2>2
<1>11. ASSUME NEW i \in 1..Len(b), i > n + 1 PROVE b[i] = Tail(r)[i - (n + 1)]
  <2>1. PICK j : j = i - (n + 1)
    OBVIOUS
  <2>2. j \in 1..(Len(r) - 1) /\ i - n = j + 1 /\ ~(i <= n)
    BY <1>3, <1>5, <1>6, <1>8, <1>11, <2>1
  <2>3. b[i] = r[j + 1]
    BY <1>7, <2>2
  <2>. QED
    BY <1>5, <2>1, <2>2, <2>3
<1>12. Seen(t)' = n + 1
  <2>1. Seen(t)' = Len(b) - Len(Tail(r))
    BY <1>2 DEF Seen
  <2>. QED
    BY <1>3, <1>5, <1>6, <2>1
<1>13. Len(Tail(r)) <= Len(b)
  BY <1>5, <1>6, <1>7
<1>14. \A i \in 1..Len(b) : IF i <= n + 1 THEN HeldIn(rows', a, b[i]) ELSE b[i] = Tail(r)[i - (n + 1)]
  <2>. SUFFICES ASSUME NEW i \in 1..Len(b)
                PROVE  IF i <= n + 1 THEN HeldIn(rows', a, b[i]) ELSE b[i] = Tail(r)[i - (n + 1)]
    OBVIOUS
  <2>1. i \in Int /\ (i <= n \/ i = n + 1 \/ i > n + 1)
    BY <1>6, <1>8
  <2>2. i <= n + 1 <=> i <= n \/ i = n + 1
    BY <1>8, <2>1
  <2>. QED
    BY <1>9, <1>10, <1>11, <2>1, <2>2
<1>15. account'[t] = a /\ batch'[t] = b /\ todo'[t] = Tail(r)
  BY <1>2
<1>16. ASSUME NEW i \in 1..Len(b)
       PROVE  IF i <= Seen(t)' THEN HeldIn(rows', a, b[i]) ELSE b[i] = Tail(r)[i - Seen(t)']
  BY <1>12, <1>14
<1>17. Covered(t)' <=>
         /\ Len(todo'[t]) <= Len(batch'[t])
         /\ \A i \in 1..Len(batch'[t]) :
              IF i <= Seen(t)' THEN HeldIn(rows', account'[t], batch'[t][i])
              ELSE batch'[t][i] = todo'[t][i - Seen(t)']
  BY DEF Covered
<1>. QED
  BY <1>13, <1>15, <1>16, <1>17

\* A batch of which nothing has been seen.
LEMMA CoveredFresh ==
  ASSUME NEW t \in Tasks, NEW b \in Seq(Keys), todo'[t] = b, batch'[t] = b
  PROVE  Covered(t)'
<1>1. Len(b) \in Nat /\ Seen(t)' = 0
  BY DEF Seen
<1>. QED
  BY <1>1 DEF Covered

\* What a step does to a task.
LEMMA TaskFate ==
  ASSUME LedgerInv, [Next]_vars, NEW t \in Tasks
  PROVE  \/ \E a \in Accounts, b \in Batches : Deliver(t, a, b)
         \/ IngestCheck(t) \/ IngestInsert(t)
         \/ /\ account'[t] = account[t] /\ todo'[t] = todo[t] /\ batch'[t] = batch[t]
            /\ pc'[t] = pc[t] \/ Fetch(t) \/ IngestPublish(t) \/ Lost(t)
<1>. USE DEF Writers
<1>0. TypeOK
  BY DEF LedgerInv
<1>. DEFINE Left == /\ account'[t] = account[t] /\ todo'[t] = todo[t] /\ batch'[t] = batch[t]
                    /\ pc'[t] = pc[t]
<1>1. ASSUME NEW u \in Tasks, TaskStep(u) \/ Lost(u), u # t PROVE Left
  BY <1>0, <1>1 DEF TaskStep, Lost, Fetch, IngestCheck, IngestInsert, IngestPublish, Goto, Next1,
                    local, TypeOK
<1>2. ASSUME TaskStep(t) \/ Lost(t)
      PROVE  \/ IngestCheck(t) \/ IngestInsert(t)
             \/ /\ account'[t] = account[t] /\ todo'[t] = todo[t] /\ batch'[t] = batch[t]
                /\ Fetch(t) \/ IngestPublish(t) \/ Lost(t)
  BY <1>2 DEF TaskStep, Fetch, IngestPublish, Lost, local
<1>3. ASSUME NEW u \in Tasks, NEW a \in Accounts, NEW b \in Batches, Deliver(u, a, b), u # t
      PROVE  Left
  BY <1>0, <1>3 DEF Deliver, Start, Goto, TypeOK
<1>4. ASSUME NEW w \in Writers, w \notin Tasks, NEW there, batch' = batch,
             \/ Finish(w, there)
             \/ \E a, keys : Start(w, a, keys, there)
             \/ Goto(w, there) /\ account' = account /\ (todo' = todo \/ Next1(w))
      PROVE  Left
  BY <1>0, <1>4 DEF Finish, Start, Goto, Next1, TypeOK
<1>5. ASSUME NEW p \in Approvals, ApprovalStep(p) PROVE Left
  <2>1. p \in Writers /\ p \notin Tasks
    BY LedgerAssumption
  <2>2. CASE ApprovalCheck(p)
    BY <1>0, <2>1, <2>2 DEF ApprovalCheck, Goto, Next1, TypeOK
  <2>3. CASE ApprovalInsert(p)
    BY <1>4, <2>1, <2>3 DEF ApprovalInsert, ApprovalEnds
  <2>4. CASE ApprovalCommit(p) \/ ApprovalVictim(p)
    BY <1>4, <2>1, <2>4 DEF ApprovalCommit, ApprovalVictim, ApprovalEnds
  <2>. QED
    BY <1>5, <2>2, <2>3, <2>4 DEF ApprovalStep
<1>6. ASSUME NEW p \in Approvals, NEW a \in Accounts, NEW b \in Batches, ApprovalStart(p, a, b)
      PROVE  Left
  BY <1>4, <1>6, LedgerAssumption DEF ApprovalStart
<1>7. ASSUME NEW e \in Entries, \/ EntryInsert(e)
                               \/ \E a \in Accounts, k \in Keys : EntryCheck(e, a, k)
      PROVE  Left
  BY <1>4, <1>7, LedgerAssumption DEF EntryInsert, EntryCheck
<1>8. ASSUME NEW d \in Edits, \/ EditSave(d)
                             \/ \E a \in Accounts, old, new \in Keys, s \in Sources :
                                  EditRead(d, a, old, new, s)
      PROVE  Left
  BY <1>4, <1>8, LedgerAssumption DEF EditSave, EditRead
<1>9. ASSUME NEW a \in Accounts, \/ AccountGone(a)
                                \/ \E k \in Keys, s \in Sources : Delete(a, k, s)
      PROVE  Left
  BY <1>9 DEF AccountGone, Delete
<1>10. CASE UNCHANGED vars
  BY <1>10 DEF vars
<1>. QED
  BY <1>1, <1>2, <1>3, <1>5, <1>6, <1>7, <1>8, <1>9, <1>10 DEF Next

LEMMA PushInit == Init => PushInv
  BY DEF Init, PushInv, Writers

LEMMA PushStep ==
  ASSUME LedgerInv, SerialInv, PushInv, [Next]_vars
  PROVE  PushInv'
<1>. USE DEF Writers
<1>0. TypeOK
  BY DEF LedgerInv
<1>. SUFFICES ASSUME NEW t \in Tasks
              PROVE  /\ pc'[t] # "failed"
                     /\ pc'[t] \in {"queued", "checking", "inserting", "done"} => Covered(t)'
                     /\ pc'[t] = "done" => todo'[t] = <<>>
  BY DEF PushInv
<1>1. ASSUME NEW a \in Accounts, NEW b \in Batches, Deliver(t, a, b)
      PROVE  pc'[t] = "queued" /\ Covered(t)'
  <2>1. b \in Seq(Keys) /\ pc'[t] = "queued" /\ todo'[t] = b /\ batch'[t] = b
    BY <1>0, <1>1, LedgerAssumption DEF Deliver, Start, Goto, TypeOK
  <2>. QED
    BY <2>1, CoveredFresh
<1>2. ASSUME IngestCheck(t)
      PROVE  pc'[t] \in {"checking", "inserting"} /\ Covered(t)'
  <2>1. /\ pc[t] = "checking" /\ todo[t] # <<>> /\ Covered(t)
        /\ rows' = rows /\ account'[t] = account[t] /\ batch'[t] = batch[t]
    BY <1>2 DEF IngestCheck, PushInv
  <2>2. CASE Held(account[t], Key(t))
    <3>1. pc'[t] = "checking" /\ todo'[t] = Tail(todo[t]) /\ HeldIn(rows', account[t], Key(t))
      BY <1>0, <1>2, <2>1, <2>2 DEF IngestCheck, Next1, TypeOK, HeldIn, Held, Count
    <3>. QED
      BY <2>1, <3>1, CoveredOn
  <2>3. CASE ~Held(account[t], Key(t))
    <3>1. pc'[t] = "inserting" /\ todo'[t] = todo[t]
      BY <1>0, <1>2, <2>3 DEF IngestCheck, Goto, TypeOK
    <3>. QED
      BY <2>1, <3>1, CoveredStays
  <2>. QED
    BY <2>2, <2>3
<1>3. ASSUME IngestInsert(t)
      PROVE  pc'[t] = "checking" /\ Covered(t)'
  <2>1. /\ pc[t] = "inserting" /\ todo[t] # <<>> /\ Covered(t)
        /\ account'[t] = account[t] /\ batch'[t] = batch[t]
    BY <1>3 DEF IngestInsert, PushInv, LedgerInv, AtHome
  <2>2. account[t] \in Accounts /\ Key(t) \in Keys
    BY <1>0, <2>1, KeyTyped, LedgerAssumption DEF LedgerInv, AtHome
  <2>3. ~Violates(account[t], Key(t))
    BY <2>1 DEF SerialInv, Violates, Held
  <2>4. /\ Put(account[t], Key(t), "synced")
        /\ pc'[t] = "checking" /\ todo'[t] = Tail(todo[t])
    BY <1>0, <1>3, <2>3 DEF IngestInsert, Goto, Next1, TypeOK
  <2>5. HeldIn(rows', account[t], Key(t))
    <3>. DEFINE a == account[t]  k == Key(t)
    <3>1. /\ rows[a][k]["statement"] \in Nat /\ rows[a][k]["manual"] \in Nat
          /\ rows[a][k]["synced"] \in Nat
      BY <1>0, <2>2 DEF TypeOK, Sources
    <3>2. /\ rows'[a][k]["synced"] = rows[a][k]["synced"] + 1
          /\ rows'[a][k]["manual"] = rows[a][k]["manual"]
          /\ rows'[a][k]["statement"] = rows[a][k]["statement"]
      BY <1>0, <2>2, <2>4 DEF Put, TypeOK, Sources
    <3>. QED
      BY <3>1, <3>2 DEF HeldIn
  <2>. QED
    BY <2>1, <2>4, <2>5, CoveredOn
<1>4. ASSUME account'[t] = account[t], todo'[t] = todo[t], batch'[t] = batch[t],
             pc'[t] = pc[t] \/ Fetch(t) \/ IngestPublish(t) \/ Lost(t)
      PROVE  /\ pc'[t] # "failed"
             /\ pc'[t] \in {"queued", "checking", "inserting", "done"} => Covered(t)'
             /\ pc'[t] = "done" => todo'[t] = <<>>
  <2>1. \/ pc'[t] = pc[t] \/ pc'[t] = "lost"
        \/ pc[t] = "queued" /\ pc'[t] = "checking"
        \/ pc[t] = "checking" /\ pc'[t] = "done" /\ todo[t] = <<>>
    BY <1>0, <1>4 DEF Fetch, IngestPublish, Lost, Goto, TypeOK
  <2>. QED
    BY <1>4, <2>1, CoveredStays DEF PushInv
<1>. QED
  BY <1>1, <1>2, <1>3, <1>4, TaskFate

LEMMA PushFits ==
  ASSUME LedgerInv, PushInv
  PROVE  PushLands
<1>. SUFFICES ASSUME NEW t \in Tasks, pc[t] \in {"done", "failed"}, NEW i \in DOMAIN batch[t]
              PROVE  Held(account[t], batch[t][i])
  BY DEF PushLands
<1>1. Covered(t) /\ todo[t] = <<>>
  BY DEF PushInv
<1>2. batch[t] \in Seq(Keys)
  BY DEF LedgerInv, TypeOK
<1>3. i \in 1..Len(batch[t]) /\ i <= Seen(t)
  BY <1>1, <1>2 DEF Seen
<1>. QED
  BY <1>1, <1>3 DEF Covered, HeldIn, Held, Count

\* If the worker runs one task at a time, a batch whose task has ended is in the
\* ledger, all of it: no insertion of ingest_synced_transactions() violates the
\* constraint, so the loop reaches its end.
THEOREM PushesLand ==
  ASSUME WorkerSlots = 1
  PROVE  Spec => []PushLands
<1>1. LedgerInv /\ SerialInv /\ [Next]_vars => SerialInv'
  BY SerialStep
<1>2. LedgerInv /\ SerialInv /\ PushInv /\ [Next]_vars => PushInv'
  BY PushStep
<1>3. LedgerInv /\ PushInv => PushLands
  BY PushFits
<1>. QED
  BY <1>1, <1>2, <1>3, LedgerInit, LedgerStep, SerialInit, PushInit, PTL DEF Spec
=============================================================================
