-------------------------- MODULE InvestmentProofs ---------------------------
(***************************************************************************)
(* Proofs about InvestmentPlan and HoldingQuotes.  Of the plans: an        *)
(* allocation is added to a holding at most once, what was bought stays in *)
(* its plan and no unit is lost, for any plans, instruments, threads and   *)
(* width of the quantity column, if no PATCH overlaps another change of    *)
(* its row.  Of the quotes: typing, and the bound on how far a quote that  *)
(* is shown may be behind the market, for any instruments, number of       *)
(* requests, time to live and timeout.                                     *)
(***************************************************************************)
EXTENDS InvestmentPlan, HoldingQuotes, TLAPS

(***************************************************************************)
(* Plans, purchases and holdings                                           *)
(***************************************************************************)

\* Requests take turns: one purchase reads a holding, one is under way in a plan, one
\* PATCH per plan and per holding, and no correction of a holding while a purchase is
\* about to add to it.
RequestsTakeTurns ==
  \A r, q \in PlanThreads :
    /\ planReq[r].at = "reading" /\ planReq[q].at = "reading" => r = q
    /\ PurchaseUnderWay(r) /\ PurchaseUnderWay(q) /\ planReq[r].plan = planReq[q].plan => r = q
    /\ planReq[r].at = "renaming" /\ planReq[q].at = "renaming" /\ planReq[r].plan = planReq[q].plan
         => r = q
    /\ planReq[r].at = "adjusting" /\ planReq[q].at = "adjusting" /\ planReq[r].item = planReq[q].item
         => r = q
    /\ planReq[r].at = "adjusting" /\ PurchaseUnderWay(q) => planReq[r].item # planReq[q].item

\* A purchase under way is of an item that is pending in a saved plan.
PurchasesPending ==
  \A r \in PlanThreads : PurchaseUnderWay(r) =>
    /\ plan[planReq[r].plan].status = "saved"
    /\ planReq[r].item \in plan[planReq[r].plan].items \ bought[planReq[r].plan]

\* What a purchase has seen of a holding is still so, but for one entered by hand
\* where there was none, which its insertion will meet.
SeenStillHeld ==
  \A r \in PlanThreads : planReq[r].at = "reading" =>
    LET i == planReq[r].item
    IN  planReq[r].seen = holding[i] \/ (planReq[r].seen = 0 /\ holding[i] > 0)

\* The copies that the two PATCHes save are those of the rows there are.
CopiesFresh ==
  \A r \in PlanThreads :
    /\ planReq[r].at = "renaming" =>
         Exists(planReq[r].plan) /\ planReq[r].copy = plan[planReq[r].plan]
    /\ planReq[r].at = "adjusting" =>
         /\ ~planReq[r].orphan
         /\ planReq[r].copy = holding[planReq[r].item] /\ planReq[r].copy > 0

\* A purchase is remembered for as long as there is a plan to buy from.
PurchasesRemembered ==
  \A s \in Plans, i \in Instruments :
    confirmed[s][i] > 0 => i \in bought[s] \/ plan[s].status = "gone"

OwnedInv ==
  /\ InvestmentTypeOK
  /\ RequestsTakeTurns /\ PurchasesPending /\ SeenStillHeld /\ CopiesFresh
  /\ PurchasesRemembered /\ OwnedAsStated

LEMMA SavedRow ==
  /\ [NoRow("saved") EXCEPT !.items = Instruments] = [status |-> "saved", items |-> Instruments]
  /\ [status |-> "saved", items |-> Instruments] \in PlanRow
  /\ NoRow("gone") \in PlanRow /\ NoRow("gone").status = "gone"
BY DEF NoRow, PlanRow

LEMMA RowWith ==
  ASSUME NEW row \in PlanRow, NEW items \in SUBSET Instruments
  PROVE  /\ [row EXCEPT !.items = items] \in PlanRow
         /\ [row EXCEPT !.items = items].status = row.status
         /\ [row EXCEPT !.items = items].items = items
BY DEF PlanRow

LEMMA SaveWidgetKeeps ==
  ASSUME InvestmentAssumption, CarefulOwner, OwnedInv, NEW s \in Plans, SaveWidget(s)
  PROVE  OwnedInv'
<1>1. /\ plan \in [Plans -> PlanRow] /\ bought' = bought /\ confirmed' = confirmed
      /\ bought \in [Plans -> SUBSET Instruments] /\ confirmed \in [Plans -> [Instruments -> Nat]]
  BY DEF SaveWidget, OwnedInv, InvestmentTypeOK
<1>2. PICK row \in PlanRow : /\ plan' = [plan EXCEPT ![s] = row]
                             /\ row.status # "gone" /\ row.items = Instruments
                             /\ plan[s].status # "gone"
  <2>1. CASE /\ plan[s].status = "unused"
             /\ plan' = [plan EXCEPT ![s] = [NoRow("saved") EXCEPT !.items = Instruments]]
    BY <2>1, SavedRow, <1>1
  <2>2. CASE Exists(s) /\ plan' = [plan EXCEPT ![s].items = Instruments]
    <3>1. plan' = [plan EXCEPT ![s] = [plan[s] EXCEPT !.items = Instruments]]
      BY <2>2
    <3>. QED
      BY <2>2, <3>1, <1>1, RowWith DEF Exists
  <2>. QED
    BY <2>1, <2>2 DEF SaveWidget
<1>3. InvestmentTypeOK'
  BY <1>1, <1>2 DEF SaveWidget, OwnedInv, InvestmentTypeOK
<1>4. PurchasesRemembered'
  BY <1>1, <1>2 DEF OwnedInv, PurchasesRemembered
<1>5. OwnedAsStated'
  BY <1>1, <1>2 DEF SaveWidget, OwnedInv, OwnedAsStated, PurchasesFitPlan, BoughtOnce,
    OwnedInPlan, HoldingsAsStated
<1>6. RequestsTakeTurns'
  BY DEF OwnedInv, InvestmentTypeOK, SaveWidget, RequestsTakeTurns, PurchaseUnderWay
<1>7. PurchasesPending'
  BY DEF OwnedInv, SaveWidget, InvestmentTypeOK, PurchasesPending, PurchaseUnderWay,
    PlanLocked, Idle, Purchase, Renaming, Adding, Adjusting
<1>8. SeenStillHeld'
  BY DEF OwnedInv, SaveWidget, SeenStillHeld
<1>9. CopiesFresh'
  BY DEF OwnedInv, SaveWidget, InvestmentTypeOK, CopiesFresh, Exists, PlanAtRest, Idle,
    Purchase, Renaming, Adding, Adjusting
<1>. QED
  BY <1>3, <1>4, <1>5, <1>6, <1>7, <1>8, <1>9 DEF OwnedInv

LEMMA WithdrawOfferKeeps ==
  ASSUME InvestmentAssumption, CarefulOwner, OwnedInv,
         NEW s \in Plans,
         WithdrawOffer(s)
  PROVE  OwnedInv'
<1>1. InvestmentTypeOK'
  BY DEF OwnedInv, WithdrawOffer, InvestmentTypeOK
<1>2. RequestsTakeTurns'
  BY DEF OwnedInv, InvestmentTypeOK, WithdrawOffer, RequestsTakeTurns, PurchaseUnderWay
<1>3. PurchasesPending'
  BY DEF OwnedInv, WithdrawOffer, PurchasesPending, PurchaseUnderWay
<1>4. SeenStillHeld'
  BY DEF OwnedInv, WithdrawOffer, SeenStillHeld
<1>5. CopiesFresh'
  BY DEF OwnedInv, WithdrawOffer, CopiesFresh, Exists
<1>6. PurchasesRemembered'
  BY DEF OwnedInv, WithdrawOffer, PurchasesRemembered
<1>7. OwnedAsStated'
  BY DEF OwnedInv, WithdrawOffer, OwnedAsStated, PurchasesFitPlan, HoldingsAsStated,
    BoughtOnce, OwnedInPlan
<1>. QED
  BY <1>1, <1>2, <1>3, <1>4, <1>5, <1>6, <1>7 DEF OwnedInv

LEMMA DeletePlanKeeps ==
  ASSUME InvestmentAssumption, CarefulOwner, OwnedInv,
         NEW s \in Plans,
         DeletePlan(s)
  PROVE  OwnedInv'
<1>1. InvestmentTypeOK'
  BY DEF OwnedInv, DeletePlan, InvestmentTypeOK, Exists, PurchaseUnderWay, PlanLocked,
    PlanAtRest, NoRow, PlanRow
<1>2. RequestsTakeTurns'
  BY DEF OwnedInv, InvestmentTypeOK, DeletePlan, RequestsTakeTurns, PurchaseUnderWay
<1>3. PurchasesPending'
  BY DEF OwnedInv, DeletePlan, PurchasesPending, PurchaseUnderWay, PlanLocked
<1>4. SeenStillHeld'
  BY DEF OwnedInv, DeletePlan, SeenStillHeld
<1>5. CopiesFresh'
  BY DEF OwnedInv, DeletePlan, CopiesFresh, Exists, PurchaseUnderWay, PlanAtRest
<1>6. PurchasesRemembered'
  BY DEF OwnedInv, DeletePlan, InvestmentTypeOK, PurchasesRemembered, Exists,
    PurchaseUnderWay, NoRow
<1>7. OwnedAsStated'
  BY DEF OwnedInv, DeletePlan, InvestmentTypeOK, OwnedAsStated, PurchasesFitPlan,
    HoldingsAsStated, BoughtOnce, OwnedInPlan
<1>. QED
  BY <1>1, <1>2, <1>3, <1>4, <1>5, <1>6, <1>7 DEF OwnedInv

LEMMA RemoveAllocationKeeps ==
  ASSUME InvestmentAssumption, CarefulOwner, OwnedInv,
         NEW s \in Plans, NEW i \in Instruments, RemoveAllocation(s, i)
  PROVE  OwnedInv'
<1>. DEFINE left == plan[s].items \ {i}
<1>1. /\ plan \in [Plans -> PlanRow] /\ confirmed' = confirmed /\ plan[s].status = "saved"
      /\ bought \in [Plans -> SUBSET Instruments] /\ confirmed \in [Plans -> [Instruments -> Nat]]
      /\ bought[s] \subseteq plan[s].items \ {i} /\ left \in SUBSET Instruments
  BY DEF RemoveAllocation, Pending, OwnedInv, InvestmentTypeOK, OwnedAsStated,
    PurchasesFitPlan, OwnedInPlan, PlanRow
<1>2. PICK row \in PlanRow, kept \in SUBSET Instruments :
        /\ plan' = [plan EXCEPT ![s] = row] /\ bought' = [bought EXCEPT ![s] = kept]
        /\ kept \subseteq row.items
        /\ row.status = "gone" \/ kept = bought[s]
  <2>1. CASE left \subseteq bought[s]
    BY <2>1, <1>1, SavedRow DEF RemoveAllocation
  <2>2. CASE ~(left \subseteq bought[s])
    <3>1. plan' = [plan EXCEPT ![s] = [plan[s] EXCEPT !.items = left]] /\ bought' = bought
      BY <2>2 DEF RemoveAllocation
    <3>2. /\ [plan[s] EXCEPT !.items = left] \in PlanRow
          /\ [plan[s] EXCEPT !.items = left].items = left
      BY <1>1, RowWith
    <3>. QED
      BY <3>1, <3>2, <1>1
  <2>. QED
    BY <2>1, <2>2
<1>3. InvestmentTypeOK'
  BY <1>1, <1>2 DEF RemoveAllocation, OwnedInv, InvestmentTypeOK
<1>4. PurchasesRemembered'
  BY <1>1, <1>2 DEF OwnedInv, PurchasesRemembered
<1>5. OwnedAsStated'
  BY <1>1, <1>2 DEF RemoveAllocation, OwnedInv, OwnedAsStated, PurchasesFitPlan, BoughtOnce,
    OwnedInPlan, HoldingsAsStated
<1>6. RequestsTakeTurns'
  BY DEF OwnedInv, InvestmentTypeOK, RemoveAllocation, RequestsTakeTurns, PurchaseUnderWay
<1>7. PurchasesPending'
  BY DEF OwnedInv, RemoveAllocation, InvestmentTypeOK, PurchasesPending, PurchaseUnderWay,
    PlanLocked, Pending, Idle, Purchase, Renaming, Adding, Adjusting
<1>8. SeenStillHeld'
  BY DEF OwnedInv, RemoveAllocation, SeenStillHeld
<1>9. CopiesFresh'
  BY DEF OwnedInv, RemoveAllocation, InvestmentTypeOK, CopiesFresh, Exists, PlanAtRest, Idle,
    Purchase, Renaming, Adding, Adjusting
<1>. QED
  BY <1>3, <1>4, <1>5, <1>6, <1>7, <1>8, <1>9 DEF OwnedInv

LEMMA HoldingDeleteKeeps ==
  ASSUME InvestmentAssumption, CarefulOwner, OwnedInv,
         NEW i \in Instruments,
         HoldingDelete(i)
  PROVE  OwnedInv'
<1>1. InvestmentTypeOK'
  BY DEF OwnedInv, HoldingDelete, InvestmentTypeOK, HoldingLocked, HoldingAtRest, Units
<1>2. RequestsTakeTurns'
  BY DEF OwnedInv, InvestmentTypeOK, HoldingDelete, RequestsTakeTurns, PurchaseUnderWay
<1>3. PurchasesPending'
  BY DEF OwnedInv, HoldingDelete, PurchasesPending, PurchaseUnderWay
<1>4. SeenStillHeld'
  BY DEF OwnedInv, HoldingDelete, SeenStillHeld, HoldingLocked
<1>5. CopiesFresh'
  BY DEF OwnedInv, HoldingDelete, CopiesFresh, Exists, HoldingAtRest
<1>6. PurchasesRemembered'
  BY DEF OwnedInv, HoldingDelete, PurchasesRemembered
<1>7. OwnedAsStated'
  BY DEF OwnedInv, HoldingDelete, InvestmentTypeOK, OwnedAsStated, PurchasesFitPlan,
    HoldingsAsStated, BoughtOnce, OwnedInPlan
<1>. QED
  BY <1>1, <1>2, <1>3, <1>4, <1>5, <1>6, <1>7 DEF OwnedInv

LEMMA RenameReadKeeps ==
  ASSUME InvestmentAssumption, CarefulOwner, OwnedInv,
         NEW r \in PlanThreads, NEW s \in Plans,
         RenameRead(r, s)
  PROVE  OwnedInv'
<1>1. InvestmentTypeOK'
  BY DEF OwnedInv, RenameRead, InvestmentTypeOK, Begin, Renaming
<1>2. RequestsTakeTurns'
  BY DEF OwnedInv, InvestmentTypeOK, RenameRead, RequestsTakeTurns, Exists, PurchaseUnderWay,
    PlanAtRest, Begin
<1>3. PurchasesPending'
  BY DEF OwnedInv, RenameRead, PurchasesPending, Exists, PurchaseUnderWay, Begin
<1>4. SeenStillHeld'
  BY DEF OwnedInv, RenameRead, SeenStillHeld, Begin
<1>5. CopiesFresh'
  BY DEF OwnedInv, RenameRead, CopiesFresh, Exists, Begin
<1>6. PurchasesRemembered'
  BY DEF OwnedInv, RenameRead, PurchasesRemembered
<1>7. OwnedAsStated'
  BY DEF OwnedInv, RenameRead, OwnedAsStated, PurchasesFitPlan, HoldingsAsStated, BoughtOnce,
    OwnedInPlan
<1>. QED
  BY <1>1, <1>2, <1>3, <1>4, <1>5, <1>6, <1>7 DEF OwnedInv

LEMMA RenameSaveTypes ==
  ASSUME OwnedInv, NEW r \in PlanThreads, RenameSave(r)
  PROVE  InvestmentTypeOK'
<1>1. planReq[r] \in Renaming
  BY DEF RenameSave, OwnedInv, InvestmentTypeOK, Idle, Purchase, Adding, Adjusting
<1>2. plan' \in [Plans -> PlanRow]
  <2>1. \A status \in {"saved", "archived"} : [planReq[r].copy EXCEPT !.status = status] \in PlanRow
    BY <1>1 DEF Renaming, PlanRow
  <2>. QED
    BY <1>1, <2>1 DEF RenameSave, OwnedInv, InvestmentTypeOK, Renaming
<1>3. planReq' \in [PlanThreads -> Idle \cup Purchase \cup Renaming \cup Adding \cup Adjusting]
  BY DEF RenameSave, Answer, OwnedInv, InvestmentTypeOK, Idle
<1>. QED
  BY <1>2, <1>3 DEF RenameSave, OwnedInv, InvestmentTypeOK

LEMMA RenameSaveKeeps ==
  ASSUME InvestmentAssumption, CarefulOwner, OwnedInv,
         NEW r \in PlanThreads,
         RenameSave(r)
  PROVE  OwnedInv'
<1>1. InvestmentTypeOK'
  BY RenameSaveTypes
<1>2. RequestsTakeTurns'
  BY DEF OwnedInv, InvestmentTypeOK, RenameSave, RequestsTakeTurns, PurchaseUnderWay, Answer
<1>3. PurchasesPending'
  BY DEF OwnedInv, RenameSave, InvestmentTypeOK, PurchasesPending, PurchaseUnderWay,
    PlanLocked, Answer, Idle, Purchase, Renaming, Adding, Adjusting
<1>4. SeenStillHeld'
  BY DEF OwnedInv, RenameSave, SeenStillHeld, Answer
<1>5. CopiesFresh'
  BY DEF OwnedInv, RenameSave, InvestmentTypeOK, RequestsTakeTurns, CopiesFresh, Exists,
    Answer, Idle, Purchase, Renaming, Adding, Adjusting
<1>6. PurchasesRemembered'
  BY DEF OwnedInv, RenameSave, InvestmentTypeOK, CopiesFresh, PurchasesRemembered, Exists
<1>7. OwnedAsStated'
  BY DEF OwnedInv, RenameSave, InvestmentTypeOK, RequestsTakeTurns, PurchasesPending,
    SeenStillHeld, CopiesFresh, PurchasesRemembered, OwnedAsStated, PurchasesFitPlan,
    HoldingsAsStated, BoughtOnce, OwnedInPlan, Exists, PlanLocked, Answer, PlanRow, Purchase,
    Renaming
<1>. QED
  BY <1>1, <1>2, <1>3, <1>4, <1>5, <1>6, <1>7 DEF OwnedInv

LEMMA PurchaseLockKeeps ==
  ASSUME InvestmentAssumption, CarefulOwner, OwnedInv,
         NEW r \in PlanThreads, NEW s \in Plans, NEW i \in Instruments,
         PurchaseLock(r, s, i)
  PROVE  OwnedInv'
<1>1. InvestmentTypeOK'
  BY DEF OwnedInv, PurchaseLock, InvestmentTypeOK, Begin, Units, Purchase
<1>2. RequestsTakeTurns'
  BY DEF OwnedInv, InvestmentTypeOK, PurchaseLock, RequestsTakeTurns, PurchaseUnderWay,
    PlanLocked, HoldingAtRest, Begin, Pending
<1>3. PurchasesPending'
  BY DEF OwnedInv, PurchaseLock, PurchasesPending, PurchaseUnderWay, PlanLocked, Begin,
    Pending
<1>4. SeenStillHeld'
  BY DEF OwnedInv, PurchaseLock, SeenStillHeld, PurchaseUnderWay, PlanLocked, Begin
<1>5. CopiesFresh'
  BY DEF OwnedInv, PurchaseLock, CopiesFresh, Exists, PurchaseUnderWay, PlanLocked, Begin
<1>6. PurchasesRemembered'
  BY DEF OwnedInv, PurchaseLock, PurchasesRemembered
<1>7. OwnedAsStated'
  BY DEF OwnedInv, PurchaseLock, OwnedAsStated, PurchasesFitPlan, HoldingsAsStated,
    BoughtOnce, OwnedInPlan
<1>. QED
  BY <1>1, <1>2, <1>3, <1>4, <1>5, <1>6, <1>7 DEF OwnedInv

LEMMA PurchaseReadTypes ==
  ASSUME OwnedInv, NEW r \in PlanThreads, PurchaseRead(r)
  PROVE  InvestmentTypeOK'
<1>1. planReq[r] \in Purchase
  BY DEF PurchaseRead, OwnedInv, InvestmentTypeOK, Idle, Renaming, Adding, Adjusting
<1>2. [planReq[r] EXCEPT !.at = "reading"] \in Purchase
  BY <1>1 DEF Purchase
<1>3. ASSUME NEW req \in Purchase, NEW seen \in Units
      PROVE  [req EXCEPT !.seen = seen] \in Purchase
  BY <1>3 DEF Purchase
<1>4. holding[planReq[r].item] \in Units
  BY <1>1 DEF OwnedInv, InvestmentTypeOK, Purchase
<1>. QED
  BY <1>2, <1>3, <1>4 DEF PurchaseRead, OwnedInv, InvestmentTypeOK

LEMMA PurchaseReadKeeps ==
  ASSUME InvestmentAssumption, CarefulOwner, OwnedInv,
         NEW r \in PlanThreads,
         PurchaseRead(r)
  PROVE  OwnedInv'
<1>1. InvestmentTypeOK'
  BY PurchaseReadTypes
<1>2. RequestsTakeTurns'
  BY DEF OwnedInv, PurchaseRead, InvestmentTypeOK, RequestsTakeTurns, PurchaseUnderWay,
    UserLocked
<1>3. PurchasesPending'
  BY DEF OwnedInv, PurchaseRead, InvestmentTypeOK, PurchasesPending, PurchaseUnderWay
<1>4. SeenStillHeld'
  BY DEF OwnedInv, PurchaseRead, InvestmentTypeOK, SeenStillHeld
<1>5. CopiesFresh'
  BY DEF OwnedInv, PurchaseRead, InvestmentTypeOK, CopiesFresh, Exists
<1>6. PurchasesRemembered'
  BY DEF OwnedInv, PurchaseRead, PurchasesRemembered
<1>7. OwnedAsStated'
  BY DEF OwnedInv, PurchaseRead, OwnedAsStated, PurchasesFitPlan, HoldingsAsStated,
    BoughtOnce, OwnedInPlan
<1>. QED
  BY <1>1, <1>2, <1>3, <1>4, <1>5, <1>6, <1>7 DEF OwnedInv

LEMMA PurchaseCommitTypes ==
  ASSUME InvestmentAssumption, OwnedInv, NEW r \in PlanThreads, PurchaseCommit(r)
  PROVE  InvestmentTypeOK'
<1>. DEFINE s == planReq[r].plan
            i == planReq[r].item
<1>1. planReq[r] \in Purchase
  BY DEF PurchaseCommit, OwnedInv, InvestmentTypeOK, Idle, Renaming, Adding, Adjusting
<1>2. s \in Plans /\ i \in Instruments /\ planReq[r].seen \in Units
  BY <1>1 DEF Purchase
<1>3. planReq[r].seen = holding[i] /\ holding[i] = stated[i] /\ planReq[r].seen + 1 \in Units
  BY <1>2 DEF PurchaseCommit, Refused, OwnedInv, SeenStillHeld, OwnedAsStated,
    HoldingsAsStated, Units
<1>4. holding' \in [Instruments -> Units] /\ stated' \in [Instruments -> Units]
  BY <1>2, <1>3 DEF PurchaseCommit, OwnedInv, InvestmentTypeOK
<1>5. bought' \in [Plans -> SUBSET Instruments]
  BY <1>2 DEF PurchaseCommit, OwnedInv, InvestmentTypeOK
<1>6. confirmed' \in [Plans -> [Instruments -> Nat]]
  BY <1>2 DEF PurchaseCommit, OwnedInv, InvestmentTypeOK
<1>7. planReq' \in [PlanThreads -> Idle \cup Purchase \cup Renaming \cup Adding \cup Adjusting]
  BY DEF PurchaseCommit, Answer, OwnedInv, InvestmentTypeOK, Idle
<1>. QED
  BY <1>4, <1>5, <1>6, <1>7 DEF PurchaseCommit, OwnedInv, InvestmentTypeOK

LEMMA PurchaseCommitKeeps ==
  ASSUME InvestmentAssumption, CarefulOwner, OwnedInv,
         NEW r \in PlanThreads,
         PurchaseCommit(r)
  PROVE  OwnedInv'
<1>1. InvestmentTypeOK'
  BY PurchaseCommitTypes
<1>2. RequestsTakeTurns'
  BY DEF OwnedInv, InvestmentTypeOK, PurchaseCommit, RequestsTakeTurns, PurchaseUnderWay,
    Answer
<1>. DEFINE s == planReq[r].plan
            i == planReq[r].item
<1>a. s \in Plans /\ i \in Instruments /\ PurchaseUnderWay(r)
  BY DEF PurchaseCommit, OwnedInv, InvestmentTypeOK, PurchaseUnderWay, Idle, Purchase,
    Renaming, Adding, Adjusting
<1>b. plan[s].status = "saved" /\ i \in plan[s].items \ bought[s]
  BY <1>a DEF OwnedInv, PurchasesPending
<1>c. \A q \in PlanThreads : planReq'[q].at # "idle" => q # r /\ planReq'[q] = planReq[q]
  BY DEF PurchaseCommit, Answer, OwnedInv, InvestmentTypeOK
<1>d. \A k \in Plans : bought'[k] = IF k = s THEN bought[k] \cup {i} ELSE bought[k]
  BY <1>a DEF PurchaseCommit, OwnedInv, InvestmentTypeOK
<1>e. holding[i] = planReq[r].seen
  BY <1>a DEF PurchaseCommit, Refused, OwnedInv, SeenStillHeld
<1>f. \A j \in Instruments : holding'[j] = IF j = i THEN holding[j] + 1 ELSE holding[j]
  BY <1>a, <1>e DEF PurchaseCommit, OwnedInv, InvestmentTypeOK
<1>. HIDE DEF s, i
\* No other purchase of the plan is under way, nor one that reads a holding.
<1>3. PurchasesPending'
  <2>. SUFFICES ASSUME NEW q \in PlanThreads, PurchaseUnderWay(q)'
                PROVE  /\ plan[planReq[q].plan].status = "saved"
                       /\ planReq[q].item \in plan[planReq[q].plan].items \ bought'[planReq[q].plan]
    BY <1>c DEF PurchasesPending, PurchaseUnderWay, PurchaseCommit
  <2>1. q # r /\ PurchaseUnderWay(q) /\ planReq[q].plan # s
    BY <1>a, <1>c DEF PurchaseUnderWay, OwnedInv, RequestsTakeTurns, s
  <2>2. planReq[q].plan \in Plans
    BY <2>1 DEF OwnedInv, InvestmentTypeOK, PurchaseUnderWay, Idle, Purchase, Renaming,
      Adding, Adjusting
  <2>. QED
    BY <2>1, <2>2, <1>d DEF OwnedInv, PurchasesPending
<1>4. SeenStillHeld'
  BY <1>c DEF SeenStillHeld, PurchaseCommit, OwnedInv, RequestsTakeTurns
\* A correction under way is of another holding.
<1>5. CopiesFresh'
  <2>. SUFFICES ASSUME NEW q \in PlanThreads, q # r, planReq'[q] = planReq[q]
                PROVE  /\ planReq[q].at = "renaming" =>
                            Exists(planReq[q].plan) /\ planReq[q].copy = plan[planReq[q].plan]
                       /\ planReq[q].at = "adjusting" =>
                            /\ ~planReq[q].orphan
                            /\ planReq[q].copy = holding'[planReq[q].item] /\ planReq[q].copy > 0
    BY <1>c DEF CopiesFresh, Exists, PurchaseCommit
  <2>1. ASSUME planReq[q].at = "adjusting" PROVE planReq[q].item \in Instruments \ {i}
    BY <2>1, <1>a DEF OwnedInv, InvestmentTypeOK, RequestsTakeTurns, Idle, Purchase, Renaming,
      Adding, Adjusting, i
  <2>. QED
    BY <2>1, <1>f DEF OwnedInv, CopiesFresh
<1>6. PurchasesRemembered'
  BY DEF OwnedInv, PurchaseCommit, InvestmentTypeOK, PurchasesRemembered
\* The allocation was not bought, so that it had not been confirmed either.
<1>7. OwnedAsStated'
  <2>1. confirmed[s][i] = 0
    BY <1>a, <1>b DEF OwnedInv, PurchasesRemembered, InvestmentTypeOK
  <2>2. BoughtOnce'
    BY <2>1, <1>a DEF PurchaseCommit, OwnedInv, OwnedAsStated, PurchasesFitPlan, BoughtOnce,
      InvestmentTypeOK, s, i
  <2>3. OwnedInPlan'
    <3>1. plan' = plan
      BY DEF PurchaseCommit
    <3>. QED
      BY <1>b, <1>d, <3>1 DEF OwnedInv, OwnedAsStated, PurchasesFitPlan, OwnedInPlan
  <2>4. HoldingsAsStated'
    <3>1. \A j \in Instruments : stated'[j] = IF j = i THEN stated[j] + 1 ELSE stated[j]
      BY <1>a DEF PurchaseCommit, OwnedInv, InvestmentTypeOK, i
    <3>. QED
      BY <3>1, <1>f DEF OwnedInv, OwnedAsStated, HoldingsAsStated
  <2>. QED
    BY <2>2, <2>3, <2>4 DEF OwnedAsStated, PurchasesFitPlan
<1>. QED
  BY <1>1, <1>2, <1>3, <1>4, <1>5, <1>6, <1>7 DEF OwnedInv

LEMMA PurchaseRollbackKeeps ==
  ASSUME InvestmentAssumption, CarefulOwner, OwnedInv,
         NEW r \in PlanThreads,
         PurchaseRollback(r)
  PROVE  OwnedInv'
<1>1. InvestmentTypeOK'
  BY DEF OwnedInv, PurchaseRollback, InvestmentTypeOK, Answer, Refused, PlanRow, Units, Idle
<1>2. RequestsTakeTurns'
  BY DEF OwnedInv, InvestmentTypeOK, PurchaseRollback, RequestsTakeTurns, PurchaseUnderWay,
    Answer
<1>3. PurchasesPending'
  BY DEF OwnedInv, PurchaseRollback, PurchasesPending, PurchaseUnderWay, Answer
<1>4. SeenStillHeld'
  BY DEF OwnedInv, PurchaseRollback, SeenStillHeld, Answer
<1>5. CopiesFresh'
  BY DEF OwnedInv, PurchaseRollback, CopiesFresh, Exists, Answer
<1>6. PurchasesRemembered'
  BY DEF OwnedInv, PurchaseRollback, PurchasesRemembered
<1>7. OwnedAsStated'
  BY DEF OwnedInv, PurchaseRollback, OwnedAsStated, PurchasesFitPlan, HoldingsAsStated,
    BoughtOnce, OwnedInPlan
<1>. QED
  BY <1>1, <1>2, <1>3, <1>4, <1>5, <1>6, <1>7 DEF OwnedInv

LEMMA HoldingCheckKeeps ==
  ASSUME InvestmentAssumption, CarefulOwner, OwnedInv,
         NEW r \in PlanThreads, NEW i \in Instruments, NEW q \in Quantities,
         HoldingCheck(r, i, q)
  PROVE  OwnedInv'
<1>1. InvestmentTypeOK'
  BY DEF OwnedInv, HoldingCheck, InvestmentTypeOK, Begin, PlanRow, Units, Quantities, Idle,
    Purchase, Adding
<1>2. RequestsTakeTurns'
  BY DEF OwnedInv, InvestmentTypeOK, HoldingCheck, RequestsTakeTurns, PurchaseUnderWay, Begin
<1>3. PurchasesPending'
  BY DEF OwnedInv, HoldingCheck, PurchasesPending, PurchaseUnderWay, Begin
<1>4. SeenStillHeld'
  BY DEF OwnedInv, HoldingCheck, SeenStillHeld, Begin
<1>5. CopiesFresh'
  BY DEF OwnedInv, HoldingCheck, CopiesFresh, Exists, Begin
<1>6. PurchasesRemembered'
  BY DEF OwnedInv, HoldingCheck, PurchasesRemembered
<1>7. OwnedAsStated'
  BY DEF OwnedInv, HoldingCheck, OwnedAsStated, PurchasesFitPlan, HoldingsAsStated,
    BoughtOnce, OwnedInPlan
<1>. QED
  BY <1>1, <1>2, <1>3, <1>4, <1>5, <1>6, <1>7 DEF OwnedInv

LEMMA HoldingCreateTypes ==
  ASSUME InvestmentAssumption, OwnedInv, NEW r \in PlanThreads, HoldingCreate(r)
  PROVE  InvestmentTypeOK' /\ OwnedAsStated'
<1>1. planReq[r] \in Adding
  BY DEF HoldingCreate, OwnedInv, InvestmentTypeOK, Idle, Purchase, Renaming, Adjusting
<1>2. planReq[r].item \in Instruments /\ planReq[r].quantity \in Units
  BY <1>1 DEF Adding, InvestmentAssumption, Units, Quantities
<1>3. holding' \in [Instruments -> Units] /\ stated' \in [Instruments -> Units]
  BY <1>2 DEF HoldingCreate, OwnedInv, InvestmentTypeOK
<1>4. planReq' \in [PlanThreads -> Idle \cup Purchase \cup Renaming \cup Adding \cup Adjusting]
  BY DEF HoldingCreate, Answer, OwnedInv, InvestmentTypeOK, Idle
<1>5. OwnedAsStated'
  BY <1>2 DEF HoldingCreate, OwnedInv, InvestmentTypeOK, OwnedAsStated, PurchasesFitPlan,
    BoughtOnce, OwnedInPlan, HoldingsAsStated
<1>. QED
  BY <1>3, <1>4, <1>5 DEF HoldingCreate, OwnedInv, InvestmentTypeOK

LEMMA HoldingCreateKeeps ==
  ASSUME InvestmentAssumption, CarefulOwner, OwnedInv,
         NEW r \in PlanThreads,
         HoldingCreate(r)
  PROVE  OwnedInv'
<1>1. InvestmentTypeOK'
  BY HoldingCreateTypes
<1>2. RequestsTakeTurns'
  BY DEF OwnedInv, InvestmentTypeOK, HoldingCreate, RequestsTakeTurns, PurchaseUnderWay,
    Answer
<1>3. PurchasesPending'
  BY DEF OwnedInv, HoldingCreate, PurchasesPending, PurchaseUnderWay, Answer
<1>4. SeenStillHeld'
  BY SMTT(30) DEF OwnedInv, HoldingCreate, InvestmentTypeOK, RequestsTakeTurns, SeenStillHeld,
    CopiesFresh, PurchasesRemembered, Answer, Quantities, Idle, Purchase, Renaming, Adding,
    Adjusting
<1>5. CopiesFresh'
  BY DEF OwnedInv, HoldingCreate, InvestmentTypeOK, CopiesFresh, Exists, Answer, Idle,
    Purchase, Renaming, Adding, Adjusting
<1>6. PurchasesRemembered'
  BY DEF OwnedInv, HoldingCreate, PurchasesRemembered
<1>7. OwnedAsStated'
  BY HoldingCreateTypes
<1>. QED
  BY <1>1, <1>2, <1>3, <1>4, <1>5, <1>6, <1>7 DEF OwnedInv

LEMMA HoldingReadKeeps ==
  ASSUME InvestmentAssumption, CarefulOwner, OwnedInv,
         NEW r \in PlanThreads, NEW i \in Instruments,
         HoldingRead(r, i)
  PROVE  OwnedInv'
<1>1. InvestmentTypeOK'
  BY DEF OwnedInv, HoldingRead, InvestmentTypeOK, Begin, Adjusting
<1>2. RequestsTakeTurns'
  BY DEF OwnedInv, InvestmentTypeOK, HoldingRead, RequestsTakeTurns, PurchaseUnderWay,
    HoldingAtRest, NoPurchaseOf, Begin
<1>3. PurchasesPending'
  BY DEF OwnedInv, HoldingRead, PurchasesPending, PurchaseUnderWay, Begin
<1>4. SeenStillHeld'
  BY DEF OwnedInv, HoldingRead, SeenStillHeld, PurchaseUnderWay, Begin
<1>5. CopiesFresh'
  BY DEF OwnedInv, HoldingRead, CopiesFresh, Exists, PurchaseUnderWay, Begin
<1>6. PurchasesRemembered'
  BY DEF OwnedInv, HoldingRead, PurchasesRemembered
<1>7. OwnedAsStated'
  BY DEF OwnedInv, HoldingRead, OwnedAsStated, PurchasesFitPlan, HoldingsAsStated, BoughtOnce,
    OwnedInPlan
<1>. QED
  BY <1>1, <1>2, <1>3, <1>4, <1>5, <1>6, <1>7 DEF OwnedInv

LEMMA HoldingSaveTypes ==
  ASSUME InvestmentAssumption, OwnedInv, NEW r \in PlanThreads, HoldingSave(r)
  PROVE  InvestmentTypeOK'
<1>1. planReq[r] \in Adjusting
  BY DEF HoldingSave, OwnedInv, InvestmentTypeOK, Idle, Purchase, Renaming, Adding
<1>2. planReq[r].item \in Instruments /\ planReq[r].copy \in Units /\ Quantities \subseteq Units
  BY <1>1 DEF Adjusting, InvestmentAssumption, Units, Quantities
<1>3. holding' \in [Instruments -> Units] /\ stated' \in [Instruments -> Units]
  BY <1>2 DEF HoldingSave, OwnedInv, InvestmentTypeOK
<1>4. planReq' \in [PlanThreads -> Idle \cup Purchase \cup Renaming \cup Adding \cup Adjusting]
  BY DEF HoldingSave, Answer, OwnedInv, InvestmentTypeOK, Idle
<1>. QED
  BY <1>3, <1>4 DEF HoldingSave, OwnedInv, InvestmentTypeOK

LEMMA HoldingSaveKeeps ==
  ASSUME InvestmentAssumption, CarefulOwner, OwnedInv,
         NEW r \in PlanThreads,
         HoldingSave(r)
  PROVE  OwnedInv'
<1>1. InvestmentTypeOK'
  BY HoldingSaveTypes
<1>2. RequestsTakeTurns'
  BY DEF OwnedInv, InvestmentTypeOK, HoldingSave, RequestsTakeTurns, PurchaseUnderWay, Answer
<1>3. PurchasesPending'
  BY DEF OwnedInv, HoldingSave, PurchasesPending, PurchaseUnderWay, Answer
<1>4. SeenStillHeld'
  BY DEF OwnedInv, HoldingSave, InvestmentTypeOK, RequestsTakeTurns, SeenStillHeld,
    PurchaseUnderWay, Answer, Idle, Purchase, Renaming, Adding, Adjusting
<1>5. CopiesFresh'
  BY DEF OwnedInv, HoldingSave, InvestmentTypeOK, RequestsTakeTurns, CopiesFresh, Exists,
    Answer, Idle, Purchase, Renaming, Adding, Adjusting
<1>6. PurchasesRemembered'
  BY DEF OwnedInv, HoldingSave, PurchasesRemembered
<1>7. OwnedAsStated'
  BY DEF OwnedInv, HoldingSave, InvestmentTypeOK, CopiesFresh, OwnedAsStated,
    PurchasesFitPlan, HoldingsAsStated, BoughtOnce, OwnedInPlan
<1>. QED
  BY <1>1, <1>2, <1>3, <1>4, <1>5, <1>6, <1>7 DEF OwnedInv

LEMMA OwnedInit ==
  ASSUME InvestmentAssumption, InvestmentInit
  PROVE  OwnedInv
<1>1. InvestmentTypeOK
  BY DEF InvestmentInit, InvestmentAssumption, InvestmentTypeOK, NoRow, PlanRow, Units, Idle
<1>2. \A r \in PlanThreads : planReq[r].at = "idle"
  BY DEF InvestmentInit
<1>3. RequestsTakeTurns /\ PurchasesPending /\ SeenStillHeld /\ CopiesFresh
  BY <1>2 DEF RequestsTakeTurns, PurchasesPending, SeenStillHeld, CopiesFresh,
    PurchaseUnderWay
<1>4. PurchasesRemembered /\ OwnedAsStated
  BY DEF InvestmentInit, PurchasesRemembered, OwnedAsStated, PurchasesFitPlan, BoughtOnce,
    OwnedInPlan, HoldingsAsStated
<1>. QED
  BY <1>1, <1>3, <1>4 DEF OwnedInv

LEMMA OwnedStep ==
  ASSUME InvestmentAssumption, CarefulOwner, OwnedInv, [InvestmentNext]_investmentVars
  PROVE  OwnedInv'
<1>1. ASSUME NEW s \in Plans, SaveWidget(s) PROVE OwnedInv'
  BY <1>1, SaveWidgetKeeps
<1>2. ASSUME NEW s \in Plans, WithdrawOffer(s) PROVE OwnedInv'
  BY <1>2, WithdrawOfferKeeps
<1>3. ASSUME NEW s \in Plans, DeletePlan(s) PROVE OwnedInv'
  BY <1>3, DeletePlanKeeps
<1>4. ASSUME NEW s \in Plans, NEW i \in Instruments, RemoveAllocation(s, i) PROVE OwnedInv'
  BY <1>4, RemoveAllocationKeeps
<1>5. ASSUME NEW i \in Instruments, HoldingDelete(i) PROVE OwnedInv'
  BY <1>5, HoldingDeleteKeeps
<1>6. ASSUME NEW r \in PlanThreads, NEW s \in Plans, RenameRead(r, s) PROVE OwnedInv'
  BY <1>6, RenameReadKeeps
<1>7. ASSUME NEW r \in PlanThreads, RenameSave(r) PROVE OwnedInv'
  BY <1>7, RenameSaveKeeps
<1>8. ASSUME NEW r \in PlanThreads, NEW s \in Plans, NEW i \in Instruments, PurchaseLock(r, s,
             i)
      PROVE  OwnedInv'
  BY <1>8, PurchaseLockKeeps
<1>9. ASSUME NEW r \in PlanThreads, PurchaseRead(r) PROVE OwnedInv'
  BY <1>9, PurchaseReadKeeps
<1>10. ASSUME NEW r \in PlanThreads, PurchaseCommit(r) PROVE OwnedInv'
  BY <1>10, PurchaseCommitKeeps
<1>11. ASSUME NEW r \in PlanThreads, PurchaseRollback(r) PROVE OwnedInv'
  BY <1>11, PurchaseRollbackKeeps
<1>12. ASSUME NEW r \in PlanThreads, NEW i \in Instruments, NEW q \in Quantities, HoldingCheck(r, i,
              q)
       PROVE  OwnedInv'
  BY <1>12, HoldingCheckKeeps
<1>13. ASSUME NEW r \in PlanThreads, HoldingCreate(r) PROVE OwnedInv'
  BY <1>13, HoldingCreateKeeps
<1>14. ASSUME NEW r \in PlanThreads, NEW i \in Instruments, HoldingRead(r, i) PROVE OwnedInv'
  BY <1>14, HoldingReadKeeps
<1>15. ASSUME NEW r \in PlanThreads, HoldingSave(r) PROVE OwnedInv'
  BY <1>15, HoldingSaveKeeps
<1>16. CASE UNCHANGED investmentVars
  BY <1>16 DEF investmentVars, OwnedInv, InvestmentTypeOK, RequestsTakeTurns,
    PurchasesPending, SeenStillHeld, CopiesFresh, PurchasesRemembered, OwnedAsStated,
    PurchasesFitPlan, HoldingsAsStated, BoughtOnce, OwnedInPlan, Exists, PurchaseUnderWay
<1>. QED
  BY <1>1, <1>2, <1>3, <1>4, <1>5, <1>6, <1>7, <1>8, <1>9, <1>10, <1>11, <1>12, <1>13, <1>14,
    <1>15, <1>16 DEF InvestmentNext

\* The rows of plans, purchases and holdings, and the requests under way, are of their
\* types: no purchase or correction takes a holding beyond what its column holds.
THEOREM OwnedTyping ==
  ASSUME InvestmentAssumption, CarefulOwner
  PROVE  InvestmentSpec => []InvestmentTypeOK
<1>1. InvestmentInit => OwnedInv
  BY OwnedInit
<1>2. OwnedInv /\ [InvestmentNext]_investmentVars => OwnedInv'
  BY OwnedStep
<1>3. OwnedInv => InvestmentTypeOK
  BY DEF OwnedInv
<1>. QED
  BY <1>1, <1>2, <1>3, PTL DEF InvestmentSpec

\* "Retries are idempotent and cannot add the quantity twice" (purchase of an allocation),
\* no plan forgets a purchase, and no update of a holding is lost: what the user owns is
\* what was confirmed and stated, however many plans, requests and instruments there are.
THEOREM OwnedOnce ==
  ASSUME InvestmentAssumption, CarefulOwner
  PROVE  InvestmentSpec => []OwnedAsStated
<1>1. InvestmentInit => OwnedInv
  BY OwnedInit
<1>2. OwnedInv /\ [InvestmentNext]_investmentVars => OwnedInv'
  BY OwnedStep
<1>3. OwnedInv => OwnedAsStated
  BY DEF OwnedInv
<1>. QED
  BY <1>1, <1>2, <1>3, PTL DEF InvestmentSpec

(***************************************************************************)
(* Quotes and their cache                                                  *)
(***************************************************************************)

\* A quote that was the newest when it was observed: it still is, or a newer one is not
\* older than `ago`.
Lags(quote, newest, ago) == quote \in {NoQuote, newest} \/ newest <= ago

\* No answer is behind the market for longer than its request has waited.
AnswersFresh ==
  \A r \in QuoteThreads : quoteReq[r].at = "answered" =>
    \A p \in Papers : Lags(quoteReq[r].answer[p], market[p], quoteReq[r].since)

\* No cached answer is behind it for longer than the patience with the provider and
\* what is gone of the answer's life.
CacheFresh ==
  \A papers \in SUBSET Papers : CacheLive(papers) =>
    \A p \in Papers :
      Lags(quoteCache[papers].answer[p], market[p], (Patience + Ttl) - quoteCache[papers].left)

PageFresh == \A p \in Papers : Priced(p) => page[p].fit /\ page[p].behind < Ttl + Patience

QuotesInv == QuotesTypeOK /\ AnswersFresh /\ CacheFresh /\ PageFresh

(***************************************************************************)
(* Lemmas about the operators                                              *)
(***************************************************************************)

LEMMA OlderTyped ==
  ASSUME QuotesAssumption, NEW ago \in Ages \cup {NoQuote}
  PROVE  /\ Older(ago) \in Ages \cup {NoQuote}
         /\ Older(ago) = NoQuote <=> ago = NoQuote
         /\ Older(ago) <= ago + 1
BY DEF QuotesAssumption, Older, Ages, NoQuote

LEMMA AllOlderTyped ==
  ASSUME QuotesAssumption, NEW quotes \in Quotes
  PROVE  AllOlder(quotes) \in Quotes
BY OlderTyped DEF AllOlder, Quotes

\* What lags by `ago` lags by no more than one longer a moment later.
LEMMA LagsOlder ==
  ASSUME QuotesAssumption, market \in Quotes, market' = AllOlder(market),
         NEW p \in Papers, NEW quote \in Ages \cup {NoQuote}, NEW ago \in Nat,
         Lags(quote, market[p], ago)
  PROVE  Lags(Older(quote), market'[p], ago + 1)
<1>1. market'[p] = Older(market[p]) /\ market[p] \in Ages \cup {NoQuote}
  BY DEF AllOlder, Quotes
<1>2. Older(market[p]) <= market[p] + 1 /\ Older(market[p]) \in Nat /\ market[p] \in Nat
  BY <1>1, OlderTyped DEF QuotesAssumption, Ages, NoQuote
<1>3. Older(NoQuote) = NoQuote
  BY DEF Older
<1>4. CASE quote = NoQuote
  BY <1>3, <1>4 DEF Lags
<1>5. CASE quote = market[p]
  BY <1>1, <1>5 DEF Lags
<1>6. CASE market[p] <= ago
  BY <1>1, <1>2, <1>6 DEF Lags
<1> QED BY <1>4, <1>5, <1>6 DEF Lags

\* A request is in one of three shapes.
LEMMA RequestShapes ==
  ASSUME QuotesTypeOK, NEW r \in QuoteThreads
  PROVE  /\ quoteReq[r] = NoRequest \/ quoteReq[r] \in Inquiry \/ quoteReq[r] \in WithAnswer
         /\ quoteReq[r].at = "idle" <=> quoteReq[r] = NoRequest
         /\ quoteReq[r].at \in {"read", "asked"} <=> quoteReq[r] \in Inquiry
         /\ quoteReq[r].at = "answered" <=> quoteReq[r] \in WithAnswer
<1>1. quoteReq[r] = NoRequest \/ quoteReq[r] \in Inquiry \/ quoteReq[r] \in WithAnswer
  BY DEF QuotesTypeOK
<1>2. NoRequest.at = "idle"
  BY DEF NoRequest
<1>3. \A w \in Inquiry : w.at \in {"read", "asked"}
  BY DEF Inquiry
<1>4. \A h \in WithAnswer : h.at = "answered"
  BY DEF WithAnswer
<1> QED BY <1>1, <1>2, <1>3, <1>4

LEMMA RowMade ==
  ASSUME NEW status \in {"unavailable", "current", "needs_refresh"},
         NEW fit \in BOOLEAN, NEW behind \in Ages
  PROVE  [status |-> status, fit |-> fit, behind |-> behind] \in Row
BY DEF Row

\* A page made of quotes that lag by less than the bound, of instruments that fit, is fresh.
LEMMA ShownFresh ==
  ASSUME QuotesAssumption, QuotesTypeOK,
         NEW r \in QuoteThreads, NEW quotes \in Quotes, NEW ago \in Nat, ago < Ttl + Patience,
         \A p \in Papers : quotes[p] # NoQuote => p \in quoteReq[r].fit,
         \A p \in Papers : Lags(quotes[p], market[p], ago),
         Shows(r, quotes)
  PROVE  page' \in [Papers -> Row] /\ PageFresh'
<1> DEFINE behind(p) == IF quotes[p] \in {NoQuote, market[p]} THEN 0 ELSE market[p]
           row(p) == IF p \notin quoteReq[r].of THEN NotHeld
                     ELSE [status |-> StatusOf(quotes[p]), fit |-> p \in quoteReq[r].fit,
                           behind |-> behind(p)]
<1>1. page' = [p \in Papers |-> row(p)]
  BY DEF Shows
<1>2. ASSUME NEW p \in Papers
      PROVE  behind(p) \in Ages /\ behind(p) < Ttl + Patience
  <2>1. market[p] \in Ages \cup {NoQuote}
    BY DEF QuotesTypeOK, Quotes
  <2> QED BY <2>1 DEF Lags, QuotesAssumption, Ages, NoQuote
<1> HIDE DEF behind
<1>3. ASSUME NEW p \in Papers
      PROVE  /\ row(p) \in Row
             /\ row(p).status \in {"current", "needs_refresh"} =>
                  row(p).fit /\ row(p).behind < Ttl + Patience
  <2>1. CASE p \notin quoteReq[r].of
    <3>1. row(p) = NotHeld /\ 0 \in Ages
      BY <2>1 DEF Ages, QuotesAssumption
    <3> QED BY <3>1 DEF NotHeld, Row
  <2>2. CASE p \in quoteReq[r].of
    <3> DEFINE status == StatusOf(quotes[p])
               fits == p \in quoteReq[r].fit
    <3>1. row(p) = [status |-> status, fit |-> fits, behind |-> behind(p)]
      BY <2>2
    <3>2. /\ status \in {"unavailable", "current", "needs_refresh"}
          /\ status # "unavailable" => fits
      BY DEF StatusOf
    <3>3. fits \in BOOLEAN
      OBVIOUS
    <3> HIDE DEF fits, status, row
    <3>4. row(p) \in Row
      BY <1>2, <3>1, <3>2, <3>3, RowMade
    <3>5. row(p).status = status /\ row(p).fit = fits /\ row(p).behind = behind(p)
      BY <3>1
    <3> QED BY <1>2, <3>2, <3>4, <3>5
  <2> QED BY <2>1, <2>2
<1> HIDE DEF row
<1>4. page' \in [Papers -> Row]
  BY <1>1, <1>3
<1>5. PageFresh'
  BY <1>1, <1>3 DEF PageFresh, Priced
<1> QED BY <1>4, <1>5

\* A request that goes on, to one of its shapes.
LEMMA ReqTyped ==
  ASSUME QuotesTypeOK, NEW r \in QuoteThreads,
         NEW req \in {NoRequest} \cup Inquiry \cup WithAnswer, Answered(r, req)
  PROVE  /\ quoteReq' \in [QuoteThreads -> {NoRequest} \cup Inquiry \cup WithAnswer]
         /\ quoteReq'[r] = req
         /\ \A o \in QuoteThreads \ {r} : quoteReq'[o] = quoteReq[o]
BY DEF QuotesTypeOK, Answered

\* A page is shown and its request ends.
LEMMA ShowsKeeps ==
  ASSUME QuotesAssumption, QuotesInv,
         NEW r \in QuoteThreads, NEW quotes \in Quotes, NEW ago \in Nat, ago < Ttl + Patience,
         \A p \in Papers : quotes[p] # NoQuote => p \in quoteReq[r].fit,
         \A p \in Papers : Lags(quotes[p], market[p], ago),
         Shows(r, quotes), UNCHANGED <<market, fitting, held, quoteCache>>
  PROVE  QuotesInv'
<1>1. page' \in [Papers -> Row] /\ PageFresh'
  BY ShownFresh DEF QuotesInv
<1>2. /\ quoteReq' \in [QuoteThreads -> {NoRequest} \cup Inquiry \cup WithAnswer]
      /\ quoteReq'[r] = NoRequest
      /\ \A o \in QuoteThreads \ {r} : quoteReq'[o] = quoteReq[o]
  BY ReqTyped DEF QuotesInv, Shows
<1>3. AnswersFresh'
  BY <1>2 DEF QuotesInv, AnswersFresh, Lags, NoRequest
<1>4. CacheFresh'
  BY DEF QuotesInv, CacheFresh, CacheLive, Lags
<1>5. QuotesTypeOK'
  BY <1>1, <1>2 DEF QuotesInv, QuotesTypeOK
<1> QED BY <1>1, <1>3, <1>4, <1>5 DEF QuotesInv

\* A request goes on without an answer.
LEMMA WaitingKeeps ==
  ASSUME QuotesInv, NEW r \in QuoteThreads, NEW req \in Inquiry, Answered(r, req),
         UNCHANGED <<market, fitting, held, quoteCache, page>>
  PROVE  QuotesInv'
<1>1. /\ quoteReq' \in [QuoteThreads -> {NoRequest} \cup Inquiry \cup WithAnswer]
      /\ quoteReq'[r] = req
      /\ \A o \in QuoteThreads \ {r} : quoteReq'[o] = quoteReq[o]
  BY ReqTyped DEF QuotesInv
<1>2. AnswersFresh'
  BY <1>1 DEF QuotesInv, AnswersFresh, Lags, Inquiry
<1>3. CacheFresh' /\ PageFresh'
  BY DEF QuotesInv, CacheFresh, CacheLive, Lags, PageFresh, Priced
<1>4. QuotesTypeOK'
  BY <1>1 DEF QuotesInv, QuotesTypeOK
<1> QED BY <1>2, <1>3, <1>4 DEF QuotesInv

LEMMA ValidatedTyped ==
  ASSUME QuotesTypeOK, NEW r \in QuoteThreads, NEW answer \in Quotes
  PROVE  /\ Validated(answer, r) \in Quotes
         /\ \A p \in Papers : Validated(answer, r)[p] # NoQuote => p \in quoteReq[r].fit
         /\ \A p \in Papers : Validated(answer, r)[p] \in {NoQuote, answer[p]}
BY DEF Validated, Quotes

LEMMA NoQuotesTyped ==
  NoQuotes \in Quotes /\ \A p \in Papers : NoQuotes[p] = NoQuote
BY DEF NoQuotes, Quotes

(***************************************************************************)
(* The invariant                                                           *)
(***************************************************************************)

LEMMA QuotesInitInv == ASSUME QuotesAssumption PROVE QuotesInit => QuotesInv
<1> SUFFICES ASSUME QuotesInit PROVE QuotesInv
  OBVIOUS
<1>1. NoEntry.left = 0 /\ NoEntry.answer = NoQuotes /\ 0 \in 0..Ttl
  BY DEF NoEntry, QuotesAssumption
<1>2. quoteCache \in [SUBSET Papers -> [answer : Quotes, left : 0..Ttl]]
  BY <1>1, NoQuotesTyped DEF QuotesInit, NoEntry
<1>3. NotHeld \in Row
  <2>1. 0 \in Ages /\ FALSE \in BOOLEAN
    BY DEF Ages, QuotesAssumption
  <2> QED BY <2>1 DEF NotHeld, Row
<1>4. QuotesTypeOK
  BY <1>2, <1>3, NoQuotesTyped DEF QuotesInit, QuotesTypeOK
<1>5. AnswersFresh
  BY DEF QuotesInit, AnswersFresh, NoRequest
<1>6. CacheFresh
  <2>1. \A papers \in SUBSET Papers : quoteCache[papers].left = 0
    BY <1>1 DEF QuotesInit
  <2> QED BY <2>1 DEF CacheFresh, CacheLive
<1>7. PageFresh
  BY DEF QuotesInit, PageFresh, Priced, NotHeld
<1> QED BY <1>4, <1>5, <1>6, <1>7 DEF QuotesInv

LEMMA TimePassesKeeps ==
  ASSUME QuotesAssumption, QuotesInv, TimePasses
  PROVE  QuotesInv'
<1> DEFINE aged(papers) ==
             LET entry == quoteCache[papers]
             IN  IF entry.left <= 1 THEN NoEntry
                 ELSE [answer |-> AllOlder(entry.answer), left |-> entry.left - 1]
           waited(r) ==
             LET req == quoteReq[r]
             IN  IF req = NoRequest THEN req
                 ELSE IF req.at # "answered" THEN [req EXCEPT !.since = @ + 1]
                 ELSE [req EXCEPT !.since = @ + 1, !.answer = AllOlder(@)]
<1>1. /\ market' = AllOlder(market)
      /\ quoteCache' = [papers \in SUBSET Papers |-> aged(papers)]
      /\ quoteReq' = [r \in QuoteThreads |-> waited(r)]
      /\ UNCHANGED <<fitting, held, page>>
  BY DEF TimePasses
<1>2. market' \in Quotes /\ market \in Quotes
  BY <1>1, AllOlderTyped DEF QuotesInv, QuotesTypeOK
<1>3. ASSUME NEW papers \in SUBSET Papers
      PROVE  /\ aged(papers) \in [answer : Quotes, left : 0..Ttl]
             /\ aged(papers).left > 0 =>
                  \A p \in Papers :
                    Lags(aged(papers).answer[p], market'[p], (Patience + Ttl) - aged(papers).left)
  <2> DEFINE entry == quoteCache[papers]
  <2>1. entry \in [answer : Quotes, left : 0..Ttl]
    BY DEF QuotesInv, QuotesTypeOK
  <2>2. entry.answer \in Quotes /\ entry.left \in 0..Ttl
    BY <2>1
  <2>3. CASE entry.left <= 1
    <3>1. aged(papers) = NoEntry
      BY <2>3
    <3>2. NoEntry.left = 0 /\ NoEntry \in [answer : Quotes, left : 0..Ttl]
      BY NoQuotesTyped DEF NoEntry, QuotesAssumption
    <3> QED BY <3>1, <3>2
  <2>4. CASE ~(entry.left <= 1)
    <3>1. aged(papers) = [answer |-> AllOlder(entry.answer), left |-> entry.left - 1]
      BY <2>4
    <3>2. AllOlder(entry.answer) \in Quotes /\ entry.left - 1 \in 0..Ttl
      BY <2>2, <2>4, AllOlderTyped DEF QuotesAssumption
    <3>3. aged(papers).answer = AllOlder(entry.answer) /\ aged(papers).left = entry.left - 1
      BY <3>1
    <3>4. aged(papers) \in [answer : Quotes, left : 0..Ttl]
      BY <3>1, <3>2
    <3>5. ASSUME NEW p \in Papers
          PROVE  Lags(aged(papers).answer[p], market'[p], (Patience + Ttl) - aged(papers).left)
      <4> DEFINE ago == (Patience + Ttl) - entry.left
      <4>1. ago \in Nat /\ (Patience + Ttl) - (entry.left - 1) = ago + 1
        BY <2>2 DEF QuotesAssumption
      <4>2. Lags(entry.answer[p], market[p], ago)
        BY <2>2, <2>4 DEF QuotesInv, CacheFresh, CacheLive, QuotesAssumption
      <4>3. entry.answer[p] \in Ages \cup {NoQuote}
        BY <2>2 DEF Quotes
      <4> HIDE DEF ago
      <4>4. Lags(Older(entry.answer[p]), market'[p], ago + 1)
        BY <1>1, <1>2, <4>1, <4>2, <4>3, LagsOlder
      <4>5. aged(papers).answer[p] = Older(entry.answer[p])
        BY <3>3 DEF AllOlder
      <4> QED BY <3>3, <4>1, <4>4, <4>5 DEF Lags
    <3> QED BY <3>4, <3>5
  <2> QED BY <2>3, <2>4
<1>4. ASSUME NEW r \in QuoteThreads
      PROVE  /\ waited(r) \in {NoRequest} \cup Inquiry \cup WithAnswer
             /\ waited(r).at = "answered" =>
                  \A p \in Papers : Lags(waited(r).answer[p], market'[p], waited(r).since)
  <2> DEFINE req == quoteReq[r]
  <2>1. CASE req = NoRequest
    BY <2>1 DEF NoRequest
  <2>2. CASE req \in Inquiry
    <3>1. req # NoRequest /\ req.at # "answered" /\ req.since < Patience
      BY <2>2, RequestShapes DEF QuotesInv, TimePasses, Inquiry, NoRequest
    <3>2. waited(r) = [req EXCEPT !.since = @ + 1]
      BY <3>1
    <3>3. req.since + 1 \in 0..Patience
      BY <2>2, <3>1 DEF Inquiry, QuotesAssumption
    <3>4. waited(r) \in Inquiry
      BY <2>2, <3>2, <3>3 DEF Inquiry
    <3> QED BY <3>4 DEF Inquiry
  <2>3. CASE req \in WithAnswer
    <3>1. req # NoRequest /\ req.at = "answered" /\ req.since < Patience
      BY <2>3, RequestShapes DEF QuotesInv, TimePasses, WithAnswer, NoRequest
    <3>2. waited(r) = [req EXCEPT !.since = @ + 1, !.answer = AllOlder(@)]
      BY <3>1
    <3>3. req.answer \in Quotes /\ req.since \in Nat /\ req.since + 1 \in 0..Patience
      BY <2>3, <3>1 DEF WithAnswer, QuotesAssumption
    <3>4. AllOlder(req.answer) \in Quotes
      BY <3>3, AllOlderTyped
    <3>5. waited(r) \in WithAnswer
      BY <2>3, <3>2, <3>3, <3>4 DEF WithAnswer
    <3>6. waited(r).answer = AllOlder(req.answer) /\ waited(r).since = req.since + 1
      BY <2>3, <3>2 DEF WithAnswer
    <3>7. ASSUME NEW p \in Papers PROVE Lags(waited(r).answer[p], market'[p], waited(r).since)
      <4>1. Lags(req.answer[p], market[p], req.since)
        BY <3>1 DEF QuotesInv, AnswersFresh
      <4>2. req.answer[p] \in Ages \cup {NoQuote}
        BY <3>3 DEF Quotes
      <4>3. Lags(Older(req.answer[p]), market'[p], req.since + 1)
        BY <1>1, <1>2, <3>3, <4>1, <4>2, LagsOlder
      <4>4. waited(r).answer[p] = Older(req.answer[p])
        BY <3>6 DEF AllOlder
      <4> QED BY <3>6, <4>3, <4>4 DEF Lags
    <3> QED BY <3>5, <3>7
  <2> QED BY <2>1, <2>2, <2>3, RequestShapes DEF QuotesInv
<1> HIDE DEF aged, waited
<1>5. CacheFresh'
  BY <1>1, <1>3 DEF CacheFresh, CacheLive, Lags
<1>6. AnswersFresh'
  BY <1>1, <1>4 DEF AnswersFresh, Lags
<1>7. PageFresh'
  BY <1>1 DEF QuotesInv, PageFresh, Priced
<1>8. QuotesTypeOK'
  BY <1>1, <1>2, <1>3, <1>4 DEF QuotesInv, QuotesTypeOK
<1> QED BY <1>5, <1>6, <1>7, <1>8 DEF QuotesInv

\* A request's answer is used: from the cache, or as it came.
LEMMA AnswerShown ==
  ASSUME QuotesAssumption, QuotesInv, NEW r \in QuoteThreads, NEW answer \in Quotes,
         NEW ago \in Nat, ago < Ttl + Patience,
         \A p \in Papers : Lags(answer[p], market[p], ago),
         Shows(r, Validated(answer, r)), UNCHANGED <<market, fitting, held, quoteCache>>
  PROVE  QuotesInv'
<1>1. /\ Validated(answer, r) \in Quotes
      /\ \A p \in Papers : Validated(answer, r)[p] # NoQuote => p \in quoteReq[r].fit
      /\ \A p \in Papers : Validated(answer, r)[p] \in {NoQuote, answer[p]}
  BY ValidatedTyped DEF QuotesInv
<1>2. \A p \in Papers : Lags(Validated(answer, r)[p], market[p], ago)
  BY <1>1 DEF Lags
<1> QED BY <1>1, <1>2, ShowsKeeps

LEMMA FromCacheKeeps ==
  ASSUME QuotesAssumption, QuotesInv, NEW r \in QuoteThreads, FromCache(r)
  PROVE  QuotesInv'
<1> DEFINE papers == quoteReq[r].of
           entry  == quoteCache[papers]
           ago    == (Patience + Ttl) - entry.left
<1>1. papers \in SUBSET Papers
  BY RequestShapes DEF QuotesInv, FromCache, Inquiry
<1>2. entry.answer \in Quotes /\ entry.left \in 0..Ttl /\ entry.left > 0
  BY <1>1 DEF QuotesInv, QuotesTypeOK, FromCache, CacheLive
<1>3. ago \in Nat /\ ago < Ttl + Patience
  BY <1>2 DEF QuotesAssumption
<1>4. \A p \in Papers : Lags(entry.answer[p], market[p], ago)
  BY <1>1 DEF QuotesInv, CacheFresh, FromCache
<1>5. Shows(r, Validated(entry.answer, r)) /\ UNCHANGED <<market, fitting, held, quoteCache>>
  BY DEF FromCache
<1> HIDE DEF papers, entry, ago
<1> QED BY <1>2, <1>3, <1>4, <1>5, AnswerShown

\* The entry that is written lags by what its request has waited.
LEMMA CacheAndShowKeeps ==
  ASSUME QuotesAssumption, QuotesInv, NEW r \in QuoteThreads, CacheAndShow(r)
  PROVE  QuotesInv'
<1> DEFINE papers == quoteReq[r].of
           answer == quoteReq[r].answer
           since  == quoteReq[r].since
<1>1. quoteReq[r] \in WithAnswer
  BY RequestShapes DEF QuotesInv, CacheAndShow
<1>2. papers \in SUBSET Papers /\ answer \in Quotes /\ since \in 0..Patience
  BY <1>1 DEF WithAnswer
<1>3. \A p \in Papers : Lags(answer[p], market[p], since)
  BY DEF QuotesInv, AnswersFresh, CacheAndShow
<1>4. since \in Nat /\ since < Ttl + Patience
  BY <1>2 DEF QuotesAssumption
<1>5. /\ quoteCache' = [quoteCache EXCEPT ![papers] = [answer |-> answer, left |-> Ttl]]
      /\ Shows(r, Validated(answer, r))
      /\ UNCHANGED <<market, fitting, held>>
  BY DEF CacheAndShow
<1> HIDE DEF papers, answer, since
<1>6. /\ Validated(answer, r) \in Quotes
      /\ \A p \in Papers : Validated(answer, r)[p] # NoQuote => p \in quoteReq[r].fit
      /\ \A p \in Papers : Validated(answer, r)[p] \in {NoQuote, answer[p]}
  BY <1>2, ValidatedTyped DEF QuotesInv
<1>7. \A p \in Papers : Lags(Validated(answer, r)[p], market[p], since)
  BY <1>3, <1>6 DEF Lags
<1>8. page' \in [Papers -> Row] /\ PageFresh'
  BY <1>4, <1>5, <1>6, <1>7, ShownFresh DEF QuotesInv
<1>9. /\ quoteReq' \in [QuoteThreads -> {NoRequest} \cup Inquiry \cup WithAnswer]
      /\ quoteReq'[r] = NoRequest
      /\ \A o \in QuoteThreads \ {r} : quoteReq'[o] = quoteReq[o]
  BY <1>5, ReqTyped DEF QuotesInv, Shows
<1>10. AnswersFresh'
  BY <1>5, <1>9 DEF QuotesInv, AnswersFresh, NoRequest
<1>11. Ttl \in 0..Ttl
  BY DEF QuotesAssumption
<1>12. quoteCache' \in [SUBSET Papers -> [answer : Quotes, left : 0..Ttl]]
  BY <1>2, <1>5, <1>11 DEF QuotesInv, QuotesTypeOK
<1>13. CacheFresh'
  <2> SUFFICES ASSUME NEW of \in SUBSET Papers, quoteCache'[of].left > 0, NEW p \in Papers
               PROVE  Lags(quoteCache'[of].answer[p], market'[p],
                           (Patience + Ttl) - quoteCache'[of].left)
    BY DEF CacheFresh, CacheLive
  <2>1. CASE of = papers
    <3>1. quoteCache'[of] = [answer |-> answer, left |-> Ttl]
      BY <1>5, <2>1 DEF QuotesInv, QuotesTypeOK
    <3>2. (Patience + Ttl) - Ttl \in Nat /\ since <= (Patience + Ttl) - Ttl
      BY <1>2 DEF QuotesAssumption
    <3>3. answer[p] \in {NoQuote, market[p]} \/ market[p] <= since
      BY <1>3 DEF Lags
    <3>4. market[p] \in Nat
      BY DEF QuotesInv, QuotesTypeOK, Quotes, Ages, NoQuote, QuotesAssumption
    <3>5. answer[p] \in {NoQuote, market[p]} \/ market[p] <= (Patience + Ttl) - Ttl
      BY <1>4, <3>2, <3>3, <3>4
    <3> QED BY <1>5, <3>1, <3>5 DEF Lags
  <2>2. CASE of # papers
    <3>1. quoteCache'[of] = quoteCache[of]
      BY <1>5, <2>2 DEF QuotesInv, QuotesTypeOK
    <3> QED BY <1>5, <3>1 DEF QuotesInv, CacheFresh, CacheLive
  <2> QED BY <2>1, <2>2
<1>14. QuotesTypeOK'
  BY <1>5, <1>8, <1>9, <1>12 DEF QuotesInv, QuotesTypeOK
<1> QED BY <1>8, <1>10, <1>13, <1>14 DEF QuotesInv

\* What the provider sends is the newest: it does not lag at all.
LEMMA ProviderAnswersKeeps ==
  ASSUME QuotesAssumption, QuotesInv, NEW r \in QuoteThreads, NEW known \in SUBSET Papers,
         ProviderAnswers(r, known)
  PROVE  QuotesInv'
<1> DEFINE answer == [p \in Papers |-> IF p \in known THEN market[p] ELSE NoQuote]
           req == [at |-> "answered", of |-> quoteReq[r].of, fit |-> quoteReq[r].fit,
                   since |-> quoteReq[r].since, answer |-> answer]
<1>1. quoteReq[r] \in Inquiry
  BY RequestShapes DEF QuotesInv, ProviderAnswers
<1>2. answer \in Quotes
  BY DEF QuotesInv, QuotesTypeOK, Quotes
<1>3. \A p \in Papers : Lags(answer[p], market[p], quoteReq[r].since)
  BY DEF Lags
<1>4. Answered(r, req) /\ UNCHANGED <<market, fitting, held, quoteCache, page>>
  BY DEF ProviderAnswers
<1> HIDE DEF answer
<1>5. req \in WithAnswer
  BY <1>1, <1>2 DEF Inquiry, WithAnswer
<1>6. req.answer = answer /\ req.since = quoteReq[r].since
  OBVIOUS
<1> HIDE DEF req
<1>7. /\ quoteReq' \in [QuoteThreads -> {NoRequest} \cup Inquiry \cup WithAnswer]
      /\ quoteReq'[r] = req
      /\ \A o \in QuoteThreads \ {r} : quoteReq'[o] = quoteReq[o]
  BY <1>4, <1>5, ReqTyped DEF QuotesInv
<1>8. AnswersFresh'
  BY <1>3, <1>4, <1>6, <1>7 DEF QuotesInv, AnswersFresh
<1>9. CacheFresh' /\ PageFresh'
  BY <1>4 DEF QuotesInv, CacheFresh, CacheLive, PageFresh, Priced
<1>10. QuotesTypeOK'
  BY <1>4, <1>7 DEF QuotesInv, QuotesTypeOK
<1> QED BY <1>8, <1>9, <1>10 DEF QuotesInv

LEMMA MarketMovesKeeps ==
  ASSUME QuotesAssumption, QuotesInv, NEW p \in Papers, MarketMoves(p)
  PROVE  QuotesInv'
<1>1. market' = [market EXCEPT ![p] = 0] /\ UNCHANGED <<fitting, held, quoteCache, quoteReq, page>>
  BY DEF MarketMoves
<1>2. market' \in Quotes
  BY <1>1 DEF QuotesInv, QuotesTypeOK, Quotes, Ages, QuotesAssumption
<1>3. ASSUME NEW o \in Papers, NEW quote, NEW ago \in Nat, Lags(quote, market[o], ago)
      PROVE  Lags(quote, market'[o], ago)
  <2>1. CASE o = p
    <3>1. market'[o] = 0
      BY <1>1, <2>1 DEF QuotesInv, QuotesTypeOK, Quotes
    <3> QED BY <3>1 DEF Lags
  <2>2. CASE o # p
    <3>1. market'[o] = market[o]
      BY <1>1, <2>2 DEF QuotesInv, QuotesTypeOK, Quotes
    <3> QED BY <1>3, <3>1
  <2> QED BY <2>1, <2>2
<1>4. AnswersFresh'
  <2> SUFFICES ASSUME NEW r \in QuoteThreads, quoteReq[r].at = "answered", NEW o \in Papers
               PROVE  Lags(quoteReq[r].answer[o], market'[o], quoteReq[r].since)
    BY <1>1 DEF AnswersFresh
  <2>1. quoteReq[r].since \in Nat
    BY RequestShapes DEF QuotesInv, WithAnswer
  <2>2. Lags(quoteReq[r].answer[o], market[o], quoteReq[r].since)
    BY DEF QuotesInv, AnswersFresh
  <2> QED BY <1>3, <2>1, <2>2
<1>5. CacheFresh'
  <2> SUFFICES ASSUME NEW papers \in SUBSET Papers, quoteCache[papers].left > 0, NEW o \in Papers
               PROVE  Lags(quoteCache[papers].answer[o], market'[o],
                           (Patience + Ttl) - quoteCache[papers].left)
    BY <1>1 DEF CacheFresh, CacheLive
  <2>1. (Patience + Ttl) - quoteCache[papers].left \in Nat
    <3>1. quoteCache[papers].left \in 0..Ttl
      BY DEF QuotesInv, QuotesTypeOK
    <3> QED BY <3>1 DEF QuotesAssumption
  <2>2. Lags(quoteCache[papers].answer[o], market[o], (Patience + Ttl) - quoteCache[papers].left)
    BY DEF QuotesInv, CacheFresh, CacheLive
  <2> QED BY <1>3, <2>1, <2>2
<1>6. PageFresh'
  BY <1>1 DEF QuotesInv, PageFresh, Priced
<1>7. QuotesTypeOK'
  BY <1>1, <1>2 DEF QuotesInv, QuotesTypeOK
<1> QED BY <1>4, <1>5, <1>6, <1>7 DEF QuotesInv

LEMMA QuotesStepInv ==
  ASSUME QuotesAssumption
  PROVE  QuotesInv /\ [QuotesNext]_quotesVars => QuotesInv'
<1> SUFFICES ASSUME QuotesInv, [QuotesNext]_quotesVars PROVE QuotesInv'
  OBVIOUS
<1>1. CASE TimePasses
  BY <1>1, TimePassesKeeps
<1>2. ASSUME NEW p \in Papers, MarketMoves(p) PROVE QuotesInv'
  BY <1>2, MarketMovesKeeps
<1>3. ASSUME NEW p \in Papers, Recurate(p) \/ HoldOrSell(p) PROVE QuotesInv'
  <2>1. UNCHANGED <<market, quoteCache, quoteReq, page>>
    BY <1>3 DEF Recurate, HoldOrSell
  <2>2. fitting' \subseteq Papers /\ held' \subseteq Papers
    BY <1>3 DEF QuotesInv, QuotesTypeOK, Recurate, HoldOrSell
  <2> QED BY <2>1, <2>2 DEF QuotesInv, QuotesTypeOK, AnswersFresh, CacheFresh, CacheLive,
                            PageFresh, Priced
<1>4. ASSUME NEW r \in QuoteThreads, ReadHoldings(r) PROVE QuotesInv'
  <2> DEFINE req == [at |-> "read", of |-> held, fit |-> fitting, since |-> 0]
  <2>1. req \in Inquiry
    BY DEF QuotesInv, QuotesTypeOK, Inquiry, QuotesAssumption
  <2> QED BY <1>4, <2>1, WaitingKeeps DEF ReadHoldings
<1>5. ASSUME NEW r \in QuoteThreads, FromCache(r) PROVE QuotesInv'
  BY <1>5, FromCacheKeeps
<1>6. ASSUME NEW r \in QuoteThreads, NothingHeld(r) \/ ProviderFails(r) PROVE QuotesInv'
  <2>1. 0 \in Nat /\ 0 < Ttl + Patience
    BY DEF QuotesAssumption
  <2>2. Shows(r, NoQuotes) /\ UNCHANGED <<market, fitting, held, quoteCache>>
    BY <1>6 DEF NothingHeld, ProviderFails
  <2>3. /\ \A p \in Papers : NoQuotes[p] # NoQuote => p \in quoteReq[r].fit
        /\ \A p \in Papers : Lags(NoQuotes[p], market[p], 0)
    BY NoQuotesTyped DEF Lags
  <2> QED BY <2>1, <2>2, <2>3, NoQuotesTyped, ShowsKeeps
<1>7. ASSUME NEW r \in QuoteThreads, AskProvider(r) PROVE QuotesInv'
  <2> DEFINE req == [quoteReq[r] EXCEPT !.at = "asked", !.since = 0]
  <2>1. quoteReq[r] \in Inquiry
    BY <1>7, RequestShapes DEF QuotesInv, AskProvider
  <2>2. \A w \in Inquiry : [w EXCEPT !.at = "asked", !.since = 0] \in Inquiry
    <3>1. 0 \in 0..Patience
      BY DEF QuotesAssumption
    <3> QED BY <3>1 DEF Inquiry
  <2>3. req \in Inquiry
    BY <2>1, <2>2
  <2> QED BY <1>7, <2>3, WaitingKeeps DEF AskProvider
<1>8. ASSUME NEW r \in QuoteThreads, NEW known \in SUBSET Papers, ProviderAnswers(r, known)
      PROVE  QuotesInv'
  BY <1>8, ProviderAnswersKeeps
<1>9. ASSUME NEW r \in QuoteThreads, CacheAndShow(r) PROVE QuotesInv'
  BY <1>9, CacheAndShowKeeps
<1>10. CASE UNCHANGED quotesVars
  BY <1>10 DEF quotesVars, QuotesInv, QuotesTypeOK, AnswersFresh, CacheFresh, CacheLive,
               PageFresh, Priced
<1> QED
  BY <1>1, <1>2, <1>3, <1>4, <1>5, <1>6, <1>7, <1>8, <1>9, <1>10 DEF QuotesNext

\* The second conjunct of QuotesAsObserved follows: a complete page has a price for
\* every instrument on it.
LEMMA FreshIsAsObserved == QuotesInv => QuotesAsObserved
<1> SUFFICES ASSUME QuotesInv PROVE QuotesAsObserved
  OBVIOUS
<1>1. \A p \in Papers : page[p].status \in {"not held", "unavailable", "current", "needs_refresh"}
  BY DEF QuotesInv, QuotesTypeOK, Row
<1>2. \A p \in Papers : Priced(p) => page[p].fit /\ page[p].behind < Ttl + Patience
  BY DEF QuotesInv, PageFresh
<1>3. IsComplete => \A p \in Papers : page[p].status = "not held" \/ page[p].fit
  BY <1>1, <1>2 DEF IsComplete, Priced
<1> QED BY <1>2, <1>3 DEF QuotesAsObserved

\* The market, the cache and every request keep their types.
THEOREM QuotesTyping == ASSUME QuotesAssumption PROVE QuotesSpec => []QuotesTypeOK
<1>1. QuotesInv => QuotesTypeOK
  BY DEF QuotesInv
<1> QED BY <1>1, QuotesInitInv, QuotesStepInv, PTL DEF QuotesSpec

\* No valuation shows a price in terms that are not the instrument's, or one that the
\* market has left behind for longer than a cached answer lives and a request may wait.
THEOREM QuotesFresh == ASSUME QuotesAssumption PROVE QuotesSpec => []QuotesAsObserved
<1> QED BY QuotesInitInv, QuotesStepInv, FreshIsAsObserved, PTL DEF QuotesSpec

==============================================================================
